------------------------------- MODULE MCRows -------------------------------
(***************************************************************************)
(* The three row machines of the repository side by side: the Ruby corpus  *)
(* executor (CorpusRow), the Go by Example gate (GbeRow) and the Go oracle *)
(* (OracleRun).  They share nothing, so one of them moves and the others   *)
(* stay where they start, which makes the state space the sum of theirs.   *)
(***************************************************************************)
EXTENDS CorpusRow, GbeRow, OracleRun

VARIABLE part   \* the machine that moves

Init ==
  /\ part \in {"corpus", "gbe", "oracle"}
  /\ RowInit /\ GbeInit /\ OracleInit
  /\ part # "corpus" => /\ case.phase = "build" /\ queue = {}
  /\ part # "gbe" => ~test
  /\ part # "oracle" =>
       \A i \in 1..Selected : recipe[i] = [action |-> "runoutput", wantError |-> FALSE,
                                           annotated |-> FALSE, expectFail |-> FALSE,
                                           timed |-> FALSE]

Next ==
  /\ UNCHANGED part
  /\ \/ part = "corpus" /\ RowNext /\ UNCHANGED <<gbevars, oraclevars>>
     \/ part = "gbe" /\ GbeNext /\ UNCHANGED <<rowvars, oraclevars>>
     \/ part = "oracle" /\ OracleNext /\ UNCHANGED <<rowvars, gbevars>>

Spec == Init /\ [][Next]_<<part, rowvars, gbevars, oraclevars>>

\* What the variables of the three machines range over.
RowsTypeOK == RowTypeOK /\ GbeTypeOK /\ OracleTypeOK
=============================================================================
