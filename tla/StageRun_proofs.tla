--------------------------- MODULE StageRun_proofs ---------------------------
(***************************************************************************)
(* Proofs about StageRun, for every set of processes and of adapters.      *)
(* A stage contains a launch unchanged, so what Capture_proofs shows of    *)
(* every launch is available here; the invariant below adds what the       *)
(* verdict owes to the adapter's join and to the liveness descriptor.      *)
(***************************************************************************)
EXTENDS StageRun, Capture_proofs

(***************************************************************************)
(* The launch inside a stage.                                              *)
(***************************************************************************)
LEMMA FixtureKeepsLaunch == Fixture => UNCHANGED vars
BY DEF Fixture, FixtureTo, FixtureStops, FixtureDeadline, PidSeen, Connect,
  Respond, Disconnect, Readiness, InjectSignal, OriginEnds

LEMMA RunKeepsLaunch == Run => (Supervisor /\ UNCHANGED stage) \/ UNCHANGED vars
BY DEF Run, Refuse, LivenessError, StartStage, Capturing, CaptureReturns, Join,
  JoinTimeout, OriginJoinTimeout, CleanupEnds, MapReceipt, SentinelEOF, SentinelHeld

\* What a step of the world does to gateContext.run's own variables.
LEMMA WorldSteps ==
  ASSUME World
  PROVE  /\ UNCHANGED <<run, adapter, fixture, stop, verdict, readOut, outlived,
                        settled>>
         /\ Environment \/ UNCHANGED vars
<1>1. CASE HoldSentinel \/ PublishPid
  BY <1>1 DEF HoldSentinel, PublishPid, Launcher
<1>2. CASE \E p \in All : Program2(p)
  <2>1. PICK p \in All : Program2(p)
    BY <1>2
  <2>2. Program(p) \/ UNCHANGED vars
    BY <2>1 DEF Program2, Program
  <2> QED BY <2>1, <2>2 DEF Program2, Environment
<1>3. CASE \E p \in All : Death(p) /\ UNCHANGED stage
  BY <1>3 DEF Environment, stage
<1>4. CASE WaitGoroutine /\ UNCHANGED stage
  BY <1>4 DEF Environment, stage
<1>5. CASE StageDeadline
  BY <1>5 DEF StageDeadline
<1>6. CASE CaptureDeadline
  BY <1>6 DEF CaptureDeadline, Environment, stage
<1>7. CASE GracePasses /\ UNCHANGED stage
  BY <1>7 DEF Environment, stage
<1> QED BY <1>1, <1>2, <1>3, <1>4, <1>5, <1>6, <1>7 DEF World

LEMMA StageStep == [StageNext]_svars => [Next]_vars
<1>1. World => [Next]_vars
  BY WorldSteps DEF Next
<1> QED BY <1>1, FixtureKeepsLaunch, RunKeepsLaunch
        DEF StageNext, StageDone, svars, Next

\* Seen from the supervisor, a stage is a launch like any other: the adapters,
\* the launcher and the gate's bookkeeping add no behaviour to it, so every
\* theorem about Capture holds of the launches the gate makes.
THEOREM StageRunsCapture == StageSpec => Spec
<1>1. StageInit => Init
  BY DEF StageInit
<1> QED BY <1>1, StageStep, PTL DEF StageSpec, Spec
----------------------------------------------------------------------------
(***************************************************************************)
(* The inductive invariant.                                                *)
(***************************************************************************)
StageType ==
  /\ run \in RunLocation
  /\ adapter \in AdapterKinds
  /\ fixture \in FixtureLocation
  /\ stop \in BOOLEAN /\ adapterExpired \in BOOLEAN
  /\ outlived \in BOOLEAN /\ settled \in BOOLEAN
  /\ launcher \in {"none", "starting", "holding", "published"}
  /\ dropped \subseteq All
  /\ verdict \in Verdict
  /\ readOut \in 0..MaxWrites

\* Before and after capture the supervisor does not run.
Bracketed ==
  /\ run = "setup" => pc = "start" /\ fixture = "ok" /\ verdict = "unspawned"
  /\ run = "capture" => verdict = "unspawned"
  /\ run \in {"join", "cleanup", "map", "sentinel", "done"} =>
       pc \in {"start"} \cup Ended

\* What the joins leave to the mapping.
Diagnosed == verdict \in {"adapter_error", "cleanup_error"}
Joins ==
  /\ run \in {"join", "cleanup", "map"} => verdict # "leak"
  /\ run = "cleanup" /\ Threaded => verdict = "cleanup_error"
  /\ run \in {"map", "sentinel", "done"} /\ fixture # "ok" =>
       Diagnosed \/ verdict = "leak"
  /\ run \in {"map", "sentinel", "done"} /\ ~FixtureEnded =>
       verdict \in {"cleanup_error", "leak"}

\* A complete verdict was mapped from a receipt, with the adapter joined.
MappedFrom ==
  /\ verdict = "complete" =>
       /\ run \in {"sentinel", "done"}
       /\ Returned /\ state = "exited"
  /\ run \in {"sentinel", "done"} /\ verdict = "unspawned" =>
       pc # "returned" \/ state = "launch_failure"

\* Nobody holds the descriptor once it was read to its end.
Released == run = "done" /\ verdict = "complete" => Holders = {}

\* What was read back is what was hashed, while no process has left the group.
ReadBack == verdict = "complete" /\ NobodyLeft => readOut = digest

SInv ==
  /\ StageType /\ Bracketed /\ Joins /\ MappedFrom /\ Released /\ ReadBack

LEMMA InitSInv == StageInit => SInv
<1> SUFFICES ASSUME StageInit PROVE SInv
  OBVIOUS
<1>1. readOut \in 0..MaxWrites
  BY WritesAssumption DEF StageInit
<1>2. adapter \in AdapterKinds
  BY AdaptersAssumption DEF StageInit
<1>3. StageType
  BY <1>1, <1>2 DEF StageInit, StageType, RunLocation, FixtureLocation, Verdict
<1>4. Bracketed
  BY DEF StageInit, Init, Bracketed
<1> QED
  BY <1>3, <1>4 DEF StageInit, SInv, Joins, MappedFrom, Released, ReadBack

LEMMA RunSInv ==
  ASSUME IInv, IInv', SInv, Run
  PROVE  SInv'
<1> USE DEF SInv, StageType, RunLocation, FixtureLocation, Verdict, FixtureEnded
<1>1. CASE Refuse
  <2>1. UNCHANGED vars
    BY <1>1 DEF Refuse
  <2>2. (StageType /\ Bracketed)'
    BY <1>1, <2>1 DEF Refuse, Bracketed, vars
  <2>3. (Joins /\ MappedFrom /\ Released /\ ReadBack)'
    BY <1>1, <2>1 DEF Refuse, Bracketed, Joins, MappedFrom, Released, ReadBack, vars
  <2> QED BY <2>2, <2>3
<1>2. CASE LivenessError
  BY <1>2 DEF LivenessError, Bracketed, Joins, MappedFrom, Released, ReadBack, vars
<1>3. CASE StartStage
  <2>1. fixture' \in FixtureLocation
    BY <1>3 DEF StartStage
  <2> QED BY <1>3, <2>1 DEF StartStage, Bracketed, Joins, MappedFrom, Released,
            ReadBack, vars
<1>4. CASE Capturing
  <2>1. run' = "capture" /\ UNCHANGED stage /\ verdict = "unspawned"
    BY <1>4 DEF Capturing, Bracketed, stage
  <2> QED BY <2>1 DEF Bracketed, Joins, MappedFrom, Released, ReadBack, stage
<1>5. CASE CaptureReturns
  BY <1>5 DEF CaptureReturns, Bracketed, Joins, MappedFrom, Released, ReadBack, vars
<1>6. CASE Join
  BY <1>6 DEF Join, Bracketed, Joins, Diagnosed, MappedFrom, Released, ReadBack,
    vars, Threaded
<1>7. CASE JoinTimeout
  BY <1>7 DEF JoinTimeout, Bracketed, Joins, Diagnosed, MappedFrom, Released,
    ReadBack, vars, Threaded
<1>8. CASE OriginJoinTimeout
  BY <1>8 DEF OriginJoinTimeout, Bracketed, Joins, Diagnosed, MappedFrom,
    Released, ReadBack, vars, Threaded
<1>9. CASE CleanupEnds
  BY <1>9 DEF CleanupEnds, Bracketed, Joins, Diagnosed, MappedFrom, Released,
    ReadBack, vars, Threaded
<1>10. CASE MapReceipt
  <2>1. UNCHANGED vars /\ verdict # "complete"
    BY <1>10 DEF MapReceipt, MappedFrom
  <2>2. Mapped \in Verdict
    BY DEF Mapped
  <2>3. /\ Mapped = "complete" => state = "exited"
        /\ Mapped = "unspawned" => state = "launch_failure"
    BY DEF IInv, TypeOK, TerminalState, Mapped
  <2>4. StageType'
    BY <1>10, <2>2, WritesAssumption DEF MapReceipt, IInv, TypeOK
  <2>5. Bracketed' /\ Joins'
    BY <1>10, <2>1 DEF MapReceipt, Bracketed, Joins, Diagnosed, Returned, vars
  <2>8. MappedFrom'
    BY <1>10, <2>1, <2>3 DEF MapReceipt, MappedFrom, Returned, vars, locals
  <2>6. Released'
    <3>1. ASSUME verdict' = "complete", run' = "done" PROVE launcher = "none"
      BY <1>10, <3>1, <2>1, <2>3 DEF MapReceipt, IInv, LeaderStarted, Spawned
    <3> QED BY <1>10, <3>1 DEF MapReceipt, Released, Holders
  <2>7. ReadBack'
    <3>1. ASSUME verdict' = "complete", NobodyLeft' PROVE readOut' = digest'
      <4>1. Returned /\ state = "exited" /\ readOut' = written
        BY <1>10, <3>1, <2>1, <2>3 DEF MapReceipt
      <4>2. digest = written
        BY <4>1, <3>1, <2>1 DEF IInv, StateSoFar, Frozen, Returned, NobodyLeft,
          vars, kernel
      <4> QED BY <4>1, <4>2, <2>1 DEF vars, locals
    <3> QED BY <3>1 DEF ReadBack
  <2> QED BY <2>4, <2>5, <2>6, <2>7, <2>8
<1>11. CASE SentinelEOF
  BY <1>11 DEF SentinelEOF, Bracketed, Joins, Diagnosed, MappedFrom, Returned,
    Released, Holders, Alive, ReadBack, NobodyLeft, vars, locals, kernel
<1>12. CASE SentinelHeld
  BY <1>12 DEF SentinelHeld, Bracketed, Joins, Diagnosed, MappedFrom, Released,
    ReadBack, vars
<1> QED BY <1>1, <1>2, <1>3, <1>4, <1>5, <1>6, <1>7, <1>8, <1>9, <1>10, <1>11,
           <1>12 DEF Run

LEMMA FixtureSInv == SInv /\ Fixture => SInv'
<1> SUFFICES ASSUME SInv, Fixture PROVE SInv'
  OBVIOUS
<1>1. PICK l \in FixtureLocation \ {"ok", "error"}, m \in FixtureLocation :
        FixtureTo(l, m)
  BY DEF Fixture, FixtureStops, FixtureDeadline, PidSeen, Connect, Respond,
    Disconnect, Readiness, InjectSignal, OriginEnds, Waiting, FixtureLocation
<1>2. UNCHANGED <<vars, run, adapter, stop, adapterExpired, launcher, dropped,
                  verdict, readOut, outlived, settled>>
  BY <1>1 DEF FixtureTo
<1>3. fixture \notin {"ok", "error"} /\ fixture' \in FixtureLocation
  BY <1>1 DEF FixtureTo
<1>4. StageType' /\ Bracketed' /\ Joins'
  BY <1>2, <1>3 DEF SInv, StageType, Bracketed, Joins, Diagnosed, FixtureEnded,
    Threaded, vars
<1>5. MappedFrom' /\ Released' /\ ReadBack'
  BY <1>2 DEF SInv, MappedFrom, Returned, Released, Holders, Alive, ReadBack,
    NobodyLeft, vars, locals, kernel
<1> QED BY <1>4, <1>5 DEF SInv

\* No step of the world gives the descriptor a holder it did not have: a fork
\* inherits what its parent kept, and only the launcher opens it.
LEMMA NoNewHolder ==
  ASSUME IInv, SInv, World, Holders = {}, proc[Leader] # "running"
  PROVE  Holders' = {}
<1>1. CASE HoldSentinel \/ PublishPid
  BY <1>1 DEF HoldSentinel, PublishPid, Launcher
<1>2. CASE \E p \in All : Program2(p)
  <2>1. PICK p \in All : Program2(p)
    BY <1>2
  <2>2. launcher' = launcher
    BY <2>1 DEF Program2
  <2>3. CASE \E q \in Procs : Fork(p, q) /\ dropped' =
               IF p \in dropped THEN dropped \cup {q} ELSE dropped
    <3>1. PICK q \in Procs : Fork(p, q) /\ dropped' =
                 IF p \in dropped THEN dropped \cup {q} ELSE dropped
      BY <2>3
    <3>2. \A r \in All : r # q => proc'[r] = proc[r]
      BY <3>1 DEF Fork, IInv, TypeOK
    <3>3. launcher = "published" => p \in dropped
      BY <3>1 DEF Fork, Holders, Alive
    <3>4. launcher = "published" => q \in dropped' /\ dropped \subseteq dropped'
      BY <3>1, <3>3
    <3> QED BY <2>1, <2>2, <3>2, <3>4 DEF Program2, Holders, Alive
  <2>4. CASE (Elevate(p) \/ Write(p) \/ (p \in Procs /\ Escape(p))) /\ UNCHANGED dropped
    BY <2>2, <2>4 DEF Elevate, Write, Escape, Holders, Alive, IInv, TypeOK
  <2>5. CASE dropped' = dropped \cup {p} /\ UNCHANGED vars
    BY <2>2, <2>5 DEF Holders, Alive, vars, kernel
  <2> QED BY <2>1, <2>3, <2>4, <2>5 DEF Program2
<1>3. CASE \E p \in All : Death(p) /\ UNCHANGED stage
  BY <1>3 DEF Death, Exit, Reap, Depart, Holders, Alive, stage, IInv, TypeOK
<1>4. CASE WaitGoroutine /\ UNCHANGED stage
  BY <1>4 DEF WaitGoroutine, Reap, Holders, Alive, stage, IInv, TypeOK
<1>5. CASE StageDeadline
  BY <1>5 DEF StageDeadline, Holders, Alive, vars, kernel
<1>6. CASE CaptureDeadline
  BY <1>6 DEF CaptureDeadline, DeadlinePasses, Holders, Alive, stage, kernel
<1>7. CASE GracePasses /\ UNCHANGED stage
  BY <1>7 DEF GracePasses, Holders, Alive, stage, kernel
<1> QED BY <1>1, <1>2, <1>3, <1>4, <1>5, <1>6, <1>7 DEF World

\* A process that left the group does not come back into it.
LEMMA LeavingIsFinal ==
  ASSUME IInv, Environment, NobodyLeft'
  PROVE  NobodyLeft
BY DEF IInv, TypeOK, Environment, Program, Death, Fork, Escape, Elevate, Write,
  Exit, Reap, Depart, WaitGoroutine, DeadlinePasses, GracePasses, kernel,
  NobodyLeft, All

LEMMA WorldSInv ==
  ASSUME IInv, IInv', SInv, World
  PROVE  SInv'
<1>1. UNCHANGED <<run, adapter, fixture, stop, verdict, readOut, outlived, settled>>
  BY WorldSteps
<1>2. UNCHANGED <<pc, locals>>
  BY WorldSteps DEF Environment, Program, Death, Fork, Escape, Elevate, Write,
    Exit, Reap, Depart, WaitGoroutine, DeadlinePasses, GracePasses, vars
<1>3. /\ adapterExpired' \in BOOLEAN
      /\ launcher' \in {"none", "starting", "holding", "published"}
      /\ dropped' \subseteq All
  BY DEF World, HoldSentinel, PublishPid, Launcher, Program2, StageDeadline,
    CaptureDeadline, stage, SInv, StageType, All
<1>4. StageType' /\ Bracketed' /\ Joins' /\ MappedFrom'
  BY <1>1, <1>2, <1>3 DEF SInv, StageType, Bracketed, Joins, Diagnosed, Threaded,
    FixtureEnded, MappedFrom, Returned, locals
<1>5. Released'
  <2>1. SUFFICES ASSUME run = "done", verdict = "complete" PROVE Holders' = {}
    BY <1>1 DEF Released
  <2>2. proc[Leader] # "running"
    BY <2>1 DEF SInv, MappedFrom, Returned, IInv, ExitedGroup, Empty, All
  <2> QED BY <2>1, <2>2, NoNewHolder DEF SInv, Released
<1>6. ReadBack'
  <2>1. NobodyLeft' => NobodyLeft
    BY WorldSteps, LeavingIsFinal DEF NobodyLeft, vars, kernel
  <2> QED BY <1>1, <1>2, <2>1 DEF SInv, ReadBack, locals
<1> QED BY <1>4, <1>5, <1>6 DEF SInv

LEMMA StageInvariance == StageSpec => [](IInv /\ SInv)
<1>1. StageInit => SInv
  BY InitSInv
<1>2. IInv /\ IInv' /\ SInv /\ [StageNext]_svars => SInv'
  <2>1. SInv /\ UNCHANGED svars => SInv'
    BY DEF SInv, StageType, Bracketed, Joins, Diagnosed, MappedFrom, Released,
      ReadBack, Returned, Holders, Alive, NobodyLeft, Threaded, FixtureEnded,
      svars, stage, vars, locals, kernel
  <2> QED BY <2>1, RunSInv, FixtureSInv, WorldSInv DEF StageNext, StageDone
<1> QED BY <1>1, <1>2, StageRunsCapture, Invariance, PTL DEF StageSpec
----------------------------------------------------------------------------
\* gateContext.run's variables keep their types, the launch's included.
THEOREM StageTypeCorrect == StageSpec => []StageTypeOK
<1>1. IInv /\ SInv => StageTypeOK
  BY DEF IInv, SInv, StageType, StageTypeOK
<1> QED BY <1>1, StageInvariance, PTL

\* A complete stage is over in every respect: receipt, group, descriptor and
\* adapter agree that nothing of it is left, then and ever after.
THEOREM CompleteClean == StageSpec => []CompleteIsClean
<1>1. IInv /\ SInv => CompleteIsClean
  BY EmptyGroup DEF IInv, SInv, StageType, Joins, Diagnosed, MappedFrom, Released,
    ExitedGroup, Returned, CompleteIsClean
<1> QED BY <1>1, StageInvariance, PTL

\* Only a cleanup failure, or the leak that overrides it, leaves an adapter's
\* goroutine running behind the verdict.
THEOREM AdapterJoined == StageSpec => []VerdictJoinsAdapter
<1>1. SInv => VerdictJoinsAdapter
  BY DEF SInv, Joins, VerdictJoinsAdapter
<1> QED BY <1>1, StageInvariance, PTL

\* A complete stage no process escaped from is compared on the bytes its
\* launch receipt authenticates.
THEOREM ComparedBytes == StageSpec => []ComparedAsHashed
<1>1. SInv => ComparedAsHashed
  BY DEF SInv, ReadBack, ComparedAsHashed
<1> QED BY <1>1, StageInvariance, PTL

\* A stage reported unspawned ran nothing, unless its receipt was lost.
THEOREM UnspawnedRanNothing == StageSpec => []UnspawnedNeverRan
<1>1. IInv /\ SInv => UnspawnedNeverRan
  BY DEF IInv, SInv, Bracketed, MappedFrom, NeverLaunched, LeaderStarted,
    UnspawnedNeverRan, Spawned, Ended, All
<1> QED BY <1>1, StageInvariance, PTL
=============================================================================
