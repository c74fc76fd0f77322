---------------------------- MODULE Rows_proofs ----------------------------
(***************************************************************************)
(* The three row machines side by side, as MCRows composes them.  Each is  *)
(* proved about by itself (CorpusRow_proofs, GbeRow_proofs and             *)
(* OracleRun_proofs, where the constants are as general); a behaviour of   *)
(* the composition is one of each, so what holds of them holds here.       *)
(***************************************************************************)
EXTENDS MCRows, CorpusRow_proofs, GbeRow_proofs, OracleRun_proofs

\* The machine that moves makes a step of its own and the others stutter.
THEOREM RowsCompose == Spec => RowSpec /\ GbeSpec /\ OracleSpec
<1>1. Init => RowInit /\ GbeInit /\ OracleInit
  BY DEF Init
<1>2. [Next]_<<part, rowvars, gbevars, oraclevars>> =>
        [RowNext]_rowvars /\ [GbeNext]_gbevars /\ [OracleNext]_oraclevars
  BY DEF Next
<1> QED BY <1>1, <1>2, PTL DEF Spec, RowSpec, GbeSpec, OracleSpec

\* The variables of the three machines keep their types.
THEOREM RowsTyped == Spec => []RowsTypeOK
BY RowsCompose, RowTyped, GbeTyped, OracleTyped, PTL DEF RowsTypeOK

\* What each machine promises of its rows it promises beside the others.
THEOREM RowsSafe ==
  Spec => /\ []AcceptedIsPinned /\ []PassIsAccepted /\ []SealedIsRecorded /\ []LedgerJoined
          /\ []PassIsOneProgram /\ []PublishedIsAuthentic /\ []CleanRowPasses
          /\ []ScopedCharge /\ []PassIsEarned
BY RowsCompose, AcceptedIsPinnedHolds, PassIsAcceptedHolds, SealedIsRecordedHolds,
   LedgerJoinedHolds, PassIsOneProgramHolds, PublishedIsAuthenticHolds, CleanRowPassesHolds,
   ScopedChargeHolds, PassIsEarnedHolds, PTL
=============================================================================
