----------------------------- MODULE SerialHost -----------------------------
(***************************************************************************)
(* What the rule ONE COORDINATOR PER HOST is for: a leaf host where a      *)
(* rebuild and a measurement are each one step, with no lock, directory or *)
(* process in sight, nothing half done and nobody killed in the middle.    *)
(***************************************************************************)
EXTENDS Naturals

CONSTANT Leaves   \* the measurements submitted to the host

VARIABLES
  commit,     \* what the candidate was built over and identified as; 0 if it
              \* is not usable
  published   \* per leaf: the verdict that was published, if there is one

host == <<commit, published>>

\* What is measured: the candidate there is, over the leaf's own roots.
Verdict(l) ==
  LET candidate == [sh |-> commit, bin |-> commit]
  IN [named |-> candidate, lanes |-> {candidate}, roots |-> l]

Init == commit \in Nat /\ published = [l \in Leaves |-> {}]

\* The candidate is rebuilt, or is left unusable by a rebuild that fails.
Rebuild == commit' \in Nat /\ UNCHANGED published

\* A leaf is measured, once.
Measure(l) ==
  /\ commit # 0 /\ published[l] = {}
  /\ published' = [published EXCEPT ![l] = {Verdict(l)}]
  /\ UNCHANGED commit

Next == Rebuild \/ \E l \in Leaves : Measure(l)

Spec == Init /\ [][Next]_host
=============================================================================
