------------------------------ MODULE FreshRun ------------------------------
(***************************************************************************)
(* What a product replay promises to whoever reads its evidence: a         *)
(* certified directory reads as if one run had executed all it selected,   *)
(* from the beginning, in one context and on the pinned sources, with no   *)
(* checkpoint, cap or crash in sight.                                      *)
(***************************************************************************)
CONSTANTS
  Contexts,     \* candidate, SDK, tools and the like
  Selections,   \* what a run may be asked to execute
  FreshRows     \* the rows such a run may write

VARIABLE certified   \* the rows of the newest directory, if it is certified

Init == certified = {}

\* A run over the roots in selection: one row for each.
Certify(context, selection) ==
  /\ certified = {}
  /\ certified' \subseteq {row \in FreshRows : row.context = context}
  /\ {row.id : row \in certified'} = selection
  /\ \A v, w \in certified' : v.id = w.id => v = w

\* Another run begins a directory of its own.
Supersede == certified' = {}

Next == Supersede \/ \E c \in Contexts, s \in Selections : Certify(c, s)

Spec == Init /\ [][Next]_certified
=============================================================================
