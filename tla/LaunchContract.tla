--------------------------- MODULE LaunchContract ---------------------------
(***************************************************************************)
(* What a caller of the launch supervisor may rely on, with no clocks,     *)
(* signals or kernel in sight.  A launch is idle, live, then closed by     *)
(* exactly one claim -- or abandoned with none, when an error keeps it     *)
(* from reporting.  A claim never says more than the process tree          *)
(* warrants, and stays true: a tree that has died out does not come back.  *)
(***************************************************************************)
CONSTANTS
  Processes,    \* the processes the launch may give rise to
  Obedient,     \* TRUE: none of them may put itself out of a signal's reach
  NoClaim       \* no claim has been made

States == {"exited", "deadline", "process_leak", "launch_failure"}
Claims == [state : States, survived : BOOLEAN]

VARIABLES phase, tree, claim
contract == <<phase, tree, claim>>

\* What a claim commits to, of the tree it is made about.
Warranted(c, t) ==
  /\ c.state \in {"exited", "launch_failure"} => t = {}
  /\ ~c.survived => t = {}

Init == phase = "idle" /\ tree = {} /\ claim = NoClaim

Launch ==
  /\ phase = "idle"
  /\ phase' = "live"
  /\ \E p \in Processes : tree' = {p}
  /\ UNCHANGED claim

\* The tree grows and shrinks by itself while it has a member; once the
\* launch is over an obedient one only shrinks.
Evolve ==
  /\ phase # "idle" /\ tree # {}
  /\ tree' \subseteq Processes
  /\ phase \in {"closed", "abandoned"} /\ Obedient => tree' \subseteq tree
  /\ UNCHANGED <<phase, claim>>

Close ==
  /\ phase \in {"idle", "live"}
  /\ phase' = "closed"
  /\ claim' \in {c \in Claims : /\ Warranted(c, tree)
                                /\ phase = "idle" <=> c.state = "launch_failure"}
  /\ UNCHANGED tree

Abandon ==
  /\ phase \in {"idle", "live"}
  /\ phase' = "abandoned"
  /\ UNCHANGED <<tree, claim>>

Next == Launch \/ Evolve \/ Close \/ Abandon

Spec == Init /\ [][Next]_contract

\* The claim of a closed launch holds of its tree for ever after.
ClaimStands == phase = "closed" => Warranted(claim, tree)
=============================================================================
