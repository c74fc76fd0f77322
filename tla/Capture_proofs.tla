--------------------------- MODULE Capture_proofs ---------------------------
(***************************************************************************)
(* Proofs about Capture, for every set of processes, every choice of who   *)
(* may elevate and both ways of waiting for the leader.                    *)
(***************************************************************************)
EXTENDS Capture, TLAPS


(***************************************************************************)
(* The locals and the kernel's state keep their types: TypeOK is inductive *)
(* by itself.                                                              *)
(***************************************************************************)
LEMMA InitType == Init => TypeOK
<1> SUFFICES ASSUME Init PROVE TypeOK
  OBVIOUS
<1>1. pc \in Location
  BY DEF Init, Location
<1>2. /\ state \in TerminalState
      /\ status \in Status /\ leaderStatus \in Status
  BY DEF Init, TerminalState, Status
<1>3. kills \subseteq KillEvent /\ reaps \subseteq ReapEvent
  BY DEF Init
<1>4. digest \in 0..MaxWrites /\ written \in 0..MaxWrites
  BY WritesAssumption DEF Init
<1>5. proc \in [All -> ProcState] /\ elevated \subseteq All
  BY DEF Init, ProcState
<1> QED BY <1>1, <1>2, <1>3, <1>4, <1>5 DEF Init, TypeOK

\* Collecting the leader and signalling the group touch typed data only.
LEMMA SignalType ==
  ASSUME TypeOK, NEW r \in KillReason, SignalGroup(r)
  PROVE  /\ kills' \subseteq KillEvent
         /\ proc' \in [All -> ProcState]
         /\ UNCHANGED <<leaderStatus, elevated, written>>
<1>1. proc' \in [All -> ProcState]
  BY DEF SignalGroup, TypeOK, ProcState
<1>2. [reason |-> r, delivered |-> Permitted # {},
       error |-> IF GroupAlive /\ Permitted = {} THEN "EPERM" ELSE "none"]
        \in KillEvent
  BY DEF KillEvent
<1> QED BY <1>1, <1>2 DEF SignalGroup, TypeOK

LEMMA CollectType ==
  ASSUME TypeOK, NEW r \in ReapReason, CollectLeader(r)
  PROVE  TypeOK'
<1>1. proc' \in [All -> ProcState]
  BY DEF CollectLeader, TypeOK, ProcState
<1>2. [reason |-> r, status |-> leaderStatus] \in ReapEvent
  BY DEF ReapEvent, TypeOK
<1> QED BY <1>1, <1>2 DEF CollectLeader, TypeOK, Location, Sweeping, clocks

LEMMA SupervisorType == TypeOK /\ Supervisor => TypeOK'
<1> SUFFICES ASSUME TypeOK, Supervisor PROVE TypeOK'
  OBVIOUS
<1> USE DEF TypeOK, Location, Supervising, Sweeping, Settling, Reporting,
            Ended, TerminalState, locals, clocks, kernel
<1>1. CASE OpenError BY <1>1 DEF OpenError
<1>2. CASE LaunchFailure BY <1>2 DEF LaunchFailure
<1>3. CASE Spawn BY <1>3, LeaderAssumption DEF Spawn, ProcState, All
<1>4. CASE LeaderWait BY <1>4, CollectType DEF LeaderWait, ReapReason
<1>5. CASE PollMiss BY <1>5 DEF PollMiss
<1>6. CASE KeepPolling BY <1>6 DEF KeepPolling
<1>7. CASE DeadlineKill
  BY <1>7, SignalType DEF DeadlineKill, KillReason
<1>8. CASE LeaderWaitAfterDeadline
  BY <1>8, CollectType DEF LeaderWaitAfterDeadline, ReapReason
<1>9. CASE ObserveDescendants
  BY <1>9 DEF ObserveDescendants, GroupAlive
<1>10. CASE DescendantSweep
  BY <1>10, SignalType DEF DescendantSweep, KillReason
<1>11. CASE EnsureCheck BY <1>11 DEF EnsureCheck
<1>12. CASE EnsureSweep
  BY <1>12, SignalType DEF EnsureSweep, KillReason
<1>13. CASE GroupEmpty BY <1>13 DEF GroupEmpty
<1>14. CASE GroupLingers BY <1>14 DEF GroupLingers
<1>15. CASE KeepWaiting BY <1>15 DEF KeepWaiting
<1>16. CASE GiveUp BY <1>16 DEF GiveUp
<1>17. CASE HashStreams BY <1>17 DEF HashStreams
<1>18. CASE AppendReceipt BY <1>18 DEF AppendReceipt
<1>19. CASE ReportError BY <1>19 DEF ReportError
<1> QED BY <1>1, <1>2, <1>3, <1>4, <1>5, <1>6, <1>7, <1>8, <1>9, <1>10,
           <1>11, <1>12, <1>13, <1>14, <1>15, <1>16, <1>17, <1>18, <1>19
        DEF Supervisor

LEMMA EnvironmentType == TypeOK /\ Environment => TypeOK'
<1> SUFFICES ASSUME TypeOK, Environment PROVE TypeOK'
  OBVIOUS
<1> USE DEF TypeOK, ProcState, locals, clocks, kernel
<1>1. ASSUME NEW p \in All, NEW q \in Procs, Fork(p, q) PROVE TypeOK'
  BY <1>1 DEF Fork, All
<1>2. ASSUME NEW p \in All, Escape(p) PROVE TypeOK'
  BY <1>2 DEF Escape
<1>3. ASSUME NEW p \in All, Elevate(p) PROVE TypeOK'
  BY <1>3 DEF Elevate
<1>4. ASSUME NEW p \in All, Write(p) PROVE TypeOK'
  BY <1>4, WritesAssumption DEF Write
<1>5. ASSUME NEW p \in All, NEW s \in {"exit", "signal"}, Exit(p, s)
      PROVE  TypeOK'
  BY <1>5 DEF Exit, Status
<1>6. ASSUME NEW p \in All, Reap(p) PROVE TypeOK'
  BY <1>6 DEF Reap
<1>7. ASSUME NEW p \in All, Depart(p) PROVE TypeOK'
  BY <1>7 DEF Depart
<1>8. CASE DeadlinePasses BY <1>8 DEF DeadlinePasses
<1>9. CASE GracePasses BY <1>9 DEF GracePasses
<1> QED BY <1>1, <1>2, <1>3, <1>4, <1>5, <1>6, <1>7, <1>8, <1>9
        DEF Environment, Program, Death, WaitGoroutine, All

LEMMA NextType == TypeOK /\ [Next]_vars => TypeOK'
<1>1. TypeOK /\ UNCHANGED vars => TypeOK'
  BY DEF TypeOK, vars, locals, clocks, kernel
<1> QED BY <1>1, SupervisorType, EnvironmentType DEF Next, Done

\* In every reachable state of a launch, whatever the program does, the
\* supervisor's locals and the kernel's state have their types.
THEOREM TypeCorrect == Spec => []TypeOK
  BY InitType, NextType, PTL DEF Spec
----------------------------------------------------------------------------
(***************************************************************************)
(* The inductive invariant.  The safety properties speak of the moment the *)
(* receipt is written; what makes them true is decided step by step before *)
(* it, so the invariant says of every step what it has established.        *)
(***************************************************************************)
Empty == \A p \in All : proc[p] \notin {"running", "doomed", "zombie"}

\* Without a launch there is no process, and no event to record.
NeverLaunched ==
  state = "launch_failure" =>
    /\ pc \in {"start", "grace"} \cup Reporting \cup Ended
    /\ \A p \in All : proc[p] = "unborn"
    /\ kills = {} /\ reaps = {} /\ ~survived

\* The leader was started, never left its group, and has a status once dead.
LeaderStarted ==
  /\ state # "launch_failure" =>
       pc # "start" /\ proc[Leader] \in {"running", "doomed", "zombie", "gone"}
  /\ proc[Leader] \in {"zombie", "gone"} => leaderStatus # "none"

\* It is collected exactly once, and its status is the recorded one.
Collected ==
  /\ pc \in Supervising => reaps = {}
  /\ state # "launch_failure" /\ pc \in Sweeping \cup Settling \cup Reporting \cup {"returned"}
       => /\ proc[Leader] = "gone" /\ reaps # {} /\ status # "none"
          /\ \A r \in reaps : r.status = status

\* What the state may be at each location.
StateSoFar ==
  /\ pc \in {"poll", "check"} => state = "exited"
  /\ pc = "wait" => state = "deadline"
  /\ pc = "observe" => state \in {"exited", "deadline"}
  /\ pc \in {"sweep", "ensureKill", "graceClock"} => state # "exited"
  /\ state = "exited" => ~survived

\* Every state that implies a KILL has recorded it.
KillsRecorded ==
  /\ \A k \in kills : k.delivered => k.error = "none"
  /\ state = "deadline" => \E k \in kills : k.reason = "deadline"
  /\ state = "process_leak" /\ pc # "sweep" =>
       \E k \in kills : k.reason = "descendant_sweep"

\* Once observed empty, the group of an exited leader stays empty.
ExitedGroup ==
  state = "exited" /\ pc \in {"ensure", "grace"} \cup Reporting \cup {"returned"}
    => Empty

\* After the sweep whoever runs is out of reach, and so is what it forks.
Swept ==
  pc \in {"ensure", "ensureKill"} \cup Settling \cup Reporting \cup Ended =>
    \A p \in All : proc[p] = "running" => p \in elevated

\* A group found empty in the grace period stays empty, and with it the
\* streams stay as they were hashed unless someone left.
GroupSettled ==
  pc \in Reporting \cup {"returned"} /\ ~survived => Empty
Frozen ==
  pc \in {"append", "returned"} /\ ~survived /\ NobodyLeft => digest = written

\* Only a program that may elevate ever has an elevated process.
Obedience == elevated # {} => MayElevate # {}

IInv ==
  /\ TypeOK
  /\ NeverLaunched /\ LeaderStarted /\ Collected /\ StateSoFar /\ KillsRecorded
  /\ ExitedGroup /\ Swept /\ GroupSettled /\ Frozen /\ Obedience
LEMMA EmptyGroup == Empty <=> ~GroupAlive
  BY DEF Empty, GroupAlive, InGroup

LEMMA InitIInv == Init => IInv
  BY InitType DEF Init, IInv, NeverLaunched, LeaderStarted, Collected,
    StateSoFar, KillsRecorded, ExitedGroup, Swept, GroupSettled, Frozen,
    Obedience, All, Supervising, Sweeping, Settling, Reporting, Ended

\* A KILL dooms every running member the supervisor may signal, leaves all
\* others as they are, and is recorded with an outcome that agrees with itself.
LEMMA SignalFacts ==
  ASSUME TypeOK, NEW r \in KillReason, SignalGroup(r)
  PROVE  /\ \A p \in All : IF proc[p] = "running" /\ p \notin elevated
                           THEN proc'[p] = "doomed" ELSE proc'[p] = proc[p]
         /\ kills \subseteq kills' /\ \E k \in kills' : k.reason = r
         /\ (\A k \in kills : k.delivered => k.error = "none") =>
              (\A k \in kills' : k.delivered => k.error = "none")
         /\ UNCHANGED <<leaderStatus, elevated, written>>
<1> DEFINE event == [reason |-> r, delivered |-> Permitted # {},
                     error |-> IF GroupAlive /\ Permitted = {} THEN "EPERM" ELSE "none"]
<1>1. kills' = kills \cup {event} /\ UNCHANGED <<leaderStatus, elevated, written>>
  BY DEF SignalGroup
<1>2. event.reason = r /\ (event.delivered => event.error = "none")
  OBVIOUS
<1>3. ASSUME NEW p \in All
      PROVE  IF proc[p] = "running" /\ p \notin elevated
             THEN proc'[p] = "doomed" ELSE proc'[p] = proc[p]
  BY DEF SignalGroup, Permitted, InGroup, TypeOK
<1> HIDE DEF event
<1> QED BY <1>1, <1>2, <1>3

\* Collecting the leader removes it from the group and records its status.
LEMMA CollectFacts ==
  ASSUME TypeOK, LeaderStarted, NEW r \in ReapReason, CollectLeader(r)
  PROVE  /\ proc'[Leader] = "gone"
         /\ \A p \in Procs : proc'[p] = proc[p]
         /\ status' = leaderStatus /\ status' # "none"
         /\ \E e : e.status = status' /\ reaps' = reaps \cup {e}
         /\ pc' = "observe"
         /\ UNCHANGED <<state, observed, survived, kills, digest, leaderStatus,
                        elevated, written>>
<1>1. Leader \in All
  BY DEF All
<1>2. proc[Leader] \in {"zombie", "gone"}
  BY DEF CollectLeader, Waitable
<1>3. [reason |-> r, status |-> leaderStatus].status = status'
  BY DEF CollectLeader
<1> QED
  BY <1>1, <1>2, <1>3, LeaderAssumption DEF CollectLeader, LeaderStarted, TypeOK, All

(***************************************************************************)
(* The supervisor's steps.                                                 *)
(***************************************************************************)
LEMMA SupervisorIInv == IInv /\ Supervisor => IInv'
<1> SUFFICES ASSUME IInv, Supervisor PROVE IInv'
  OBVIOUS
<1> USE DEF IInv, locals, clocks, kernel, Supervising, Sweeping, Settling,
            Reporting, Ended
<1>t. TypeOK' BY SupervisorType
<1>l. Leader \in All BY DEF All
<1> USE DEF NeverLaunched, LeaderStarted, Collected, StateSoFar, KillsRecorded, ExitedGroup,
            Swept, GroupSettled, Frozen, Obedience, Empty, NobodyLeft
<1>1. CASE OpenError BY <1>1, <1>t, <1>l DEF OpenError
<1>2. CASE LaunchFailure BY <1>2, <1>t, <1>l DEF LaunchFailure
<1>3. CASE Spawn
  <2>1. /\ pc = "start" /\ state = "launch_failure"
        /\ kills = {} /\ reaps = {} /\ ~survived
        /\ \A p \in All : proc[p] = "unborn"
    BY <1>3 DEF Spawn, StateSoFar, KillsRecorded
  <2>2. proc'[Leader] = "running"
    BY <1>3, <1>l DEF Spawn, TypeOK
  <2>3. /\ pc' = "poll" /\ state' = "exited"
        /\ UNCHANGED <<survived, kills, reaps, elevated>>
    BY <1>3 DEF Spawn
  <2> QED BY <1>t, <2>1, <2>2, <2>3
<1>4. CASE LeaderWait
  <2>1. CollectLeader("leader_wait") /\ "leader_wait" \in ReapReason
    BY <1>4 DEF LeaderWait, ReapReason
  <2> QED BY <1>4, <1>t, <2>1, CollectFacts DEF LeaderWait, All
<1>5. CASE PollMiss BY <1>5, <1>t, <1>l DEF PollMiss
<1>6. CASE KeepPolling BY <1>6, <1>t, <1>l DEF KeepPolling
<1>7. CASE DeadlineKill
  <2>1. SignalGroup("deadline") /\ "deadline" \in KillReason
    BY <1>7 DEF DeadlineKill, KillReason
  <2> QED BY <1>7, <1>t, <1>l, <2>1, SignalFacts DEF DeadlineKill
<1>8. CASE LeaderWaitAfterDeadline
  <2>1. CollectLeader("leader_wait_after_deadline") /\ "leader_wait_after_deadline" \in ReapReason
    BY <1>8 DEF LeaderWaitAfterDeadline, ReapReason
  <2> QED BY <1>8, <1>t, <2>1, CollectFacts DEF LeaderWaitAfterDeadline, All
<1>9. CASE ObserveDescendants BY <1>9, <1>t, <1>l, EmptyGroup DEF ObserveDescendants
<1>10. CASE DescendantSweep
  <2>1. SignalGroup("descendant_sweep") /\ "descendant_sweep" \in KillReason
    BY <1>10 DEF DescendantSweep, KillReason
  <2> QED BY <1>10, <1>t, <1>l, <2>1, SignalFacts DEF DescendantSweep
<1>11. CASE EnsureCheck BY <1>11, <1>t, <1>l, EmptyGroup DEF EnsureCheck
<1>12. CASE EnsureSweep
  <2>1. SignalGroup("ensure_sweep") /\ "ensure_sweep" \in KillReason
    BY <1>12 DEF EnsureSweep, KillReason
  <2> QED BY <1>12, <1>t, <1>l, <2>1, SignalFacts DEF EnsureSweep
<1>13. CASE GroupEmpty BY <1>13, <1>t, <1>l, EmptyGroup DEF GroupEmpty
<1>14. CASE GroupLingers BY <1>14, <1>t, <1>l, EmptyGroup DEF GroupLingers
<1>15. CASE KeepWaiting BY <1>15, <1>t, <1>l DEF KeepWaiting
<1>16. CASE GiveUp BY <1>16, <1>t, <1>l DEF GiveUp
<1>17. CASE HashStreams BY <1>17, <1>t, <1>l DEF HashStreams
<1>18. CASE AppendReceipt BY <1>18, <1>t, <1>l DEF AppendReceipt
<1>19. CASE ReportError BY <1>19, <1>t, <1>l DEF ReportError
<1> QED BY <1>1, <1>2, <1>3, <1>4, <1>5, <1>6, <1>7, <1>8, <1>9, <1>10,
           <1>11, <1>12, <1>13, <1>14, <1>15, <1>16, <1>17, <1>18, <1>19
        DEF Supervisor
(***************************************************************************)
(* The environment's steps.  None of them moves the supervisor, and none   *)
(* brings a member back to a group that is empty.                          *)
(***************************************************************************)
LEMMA EnvironmentIInv == IInv /\ Environment => IInv'
<1> SUFFICES ASSUME IInv, Environment PROVE IInv'
  OBVIOUS
<1> USE DEF IInv, locals, clocks, kernel, Supervising, Sweeping, Settling,
            Reporting, Ended
<1>t. TypeOK' BY EnvironmentType
<1>l. Leader \in All /\ \A p \in Procs : p \in All /\ p # Leader
  BY LeaderAssumption DEF All
<1> USE DEF NeverLaunched, LeaderStarted, Collected, StateSoFar, KillsRecorded, ExitedGroup,
            Swept, GroupSettled, Frozen, Obedience, Empty, NobodyLeft
<1>1. ASSUME NEW p \in All, NEW q \in Procs, Fork(p, q) PROVE IInv'
  BY <1>1, <1>t, <1>l DEF Fork, TypeOK
<1>2. ASSUME NEW p \in Procs, Escape(p) PROVE IInv'
  BY <1>2, <1>t, <1>l DEF Escape, TypeOK
<1>3. ASSUME NEW p \in All, Elevate(p) PROVE IInv'
  BY <1>3, <1>t, <1>l DEF Elevate, TypeOK
<1>4. ASSUME NEW p \in All, Write(p) PROVE IInv'
  BY <1>4, <1>t, <1>l DEF Write, TypeOK, Alive
<1>5. ASSUME NEW p \in All, NEW s \in {"exit", "signal"}, Exit(p, s)
      PROVE  IInv'
  BY <1>5, <1>t, <1>l DEF Exit, TypeOK
<1>6. ASSUME NEW p \in Procs, Reap(p) PROVE IInv'
  BY <1>6, <1>t, <1>l DEF Reap, TypeOK
<1>7. ASSUME NEW p \in Procs, Depart(p) PROVE IInv'
  BY <1>7, <1>t, <1>l DEF Depart, TypeOK
<1>8. CASE WaitGoroutine
  BY <1>8, <1>t, <1>l DEF WaitGoroutine, Reap, TypeOK
<1>9. CASE DeadlinePasses BY <1>9, <1>t DEF DeadlinePasses
<1>10. CASE GracePasses BY <1>10, <1>t DEF GracePasses
<1> QED BY <1>1, <1>2, <1>3, <1>4, <1>5, <1>6, <1>7, <1>8, <1>9, <1>10
        DEF Environment, Program, Death

LEMMA NextIInv == IInv /\ [Next]_vars => IInv'
<1>1. IInv /\ UNCHANGED vars => IInv'
  BY DEF IInv, TypeOK, NeverLaunched, LeaderStarted, Collected, StateSoFar,
    KillsRecorded, ExitedGroup, Swept, GroupSettled, Frozen, Obedience, Empty,
    NobodyLeft, vars, locals, clocks, kernel
<1> QED BY <1>1, SupervisorIInv, EnvironmentIInv DEF Next, Done

LEMMA Invariance == Spec => []IInv
  BY InitIInv, NextIInv, PTL DEF Spec

----------------------------------------------------------------------------
(***************************************************************************)
(* What follows from it.                                                   *)
(***************************************************************************)
\* validate_payload! refuses a receipt for one reason only, a stream that
\* changed since it was hashed, and only if the receipt confesses a survivor
\* or some process left the group.
THEOREM ReceiptsAuthentic == Spec => []ReceiptAuthentic
<1>1. ASSUME IInv, Returned, digest = written PROVE ValidPayload
  BY <1>1 DEF IInv, ValidPayload, Returned, Spawned, All, Reporting, NeverLaunched,
    LeaderStarted, Collected, StateSoFar, KillsRecorded
<1>2. ASSUME IInv, Returned, ~survived, NobodyLeft PROVE digest = written
  BY <1>2 DEF IInv, Returned, Frozen
<1>3. IInv => ReceiptAuthentic
  BY <1>1, <1>2 DEF ReceiptAuthentic
<1> QED BY <1>3, Invariance, PTL

\* A receipt that says "exited" is about a group that is gone for good.
THEOREM ExitedAlone == Spec => []ExitedIsAlone
<1>1. IInv => ExitedIsAlone
  BY EmptyGroup DEF IInv, ExitedIsAlone, Returned, ExitedGroup
<1> QED BY <1>1, Invariance, PTL

\* terminal.descendants_survived confesses whoever is left in the group.
THEOREM Survivors == Spec => []SurvivorsConfessed
<1>1. IInv => SurvivorsConfessed
  BY EmptyGroup DEF IInv, SurvivorsConfessed, Returned, GroupSettled
<1> QED BY <1>1, Invariance, PTL

\* No launch is reported, or given up by an error, with a process running
\* that the supervisor could have KILLed.
THEOREM SweptBefore == Spec => []SweptBeforeReport
<1>1. IInv => SweptBeforeReport
  BY DEF IInv, SweptBeforeReport, Swept, Reporting, Ended
<1> QED BY <1>1, Invariance, PTL

\* The stream digests of a receipt without survivors are final.
THEOREM StreamsAreFrozen == Spec => []StreamsFrozen
<1>1. IInv => StreamsFrozen
  BY DEF IInv, StreamsFrozen, Returned, Frozen
<1> QED BY <1>1, Invariance, PTL

\* A supervisor that collects the leader itself sends the deadline KILL while
\* the leader still holds its pid; the Go ports' goroutine voids that.
Pinned == pc \in Supervising => proc[Leader] \in {"running", "doomed", "zombie"}

THEOREM DeadlinePinned == ~AsyncReap => (Spec => DeadlineKillPinned)
<1> SUFFICES ASSUME ~AsyncReap PROVE Spec => DeadlineKillPinned
  OBVIOUS
<1> USE DEF Supervising, locals, clocks, kernel
<1>l. Leader \in All /\ \A p \in Procs : p \in All /\ p # Leader
  BY LeaderAssumption DEF All
<1>1. Init => Pinned
  BY DEF Init, Pinned
<1>2. ASSUME IInv, Pinned, Supervisor PROVE Pinned'
  <2>1. ASSUME NEW r \in KillReason, SignalGroup(r), pc \in Supervising
        PROVE  proc'[Leader] \in {"running", "doomed", "zombie"}
    BY <1>2, <1>l, <2>1, SignalFacts DEF IInv, Pinned
  <2>2. CASE DeadlineKill
    BY <2>1, <2>2 DEF DeadlineKill, KillReason, Pinned
  <2>3. CASE Spawn
    BY <1>2, <1>l, <2>3 DEF Spawn, Pinned, IInv, TypeOK
  <2>4. CASE PollMiss \/ KeepPolling
    BY <1>2, <2>4 DEF PollMiss, KeepPolling, Pinned
  <2>5. CASE ~(DeadlineKill \/ Spawn \/ PollMiss \/ KeepPolling)
    BY <1>2, <2>5 DEF Supervisor, OpenError, LaunchFailure, LeaderWait,
      LeaderWaitAfterDeadline, CollectLeader, ObserveDescendants,
      DescendantSweep, EnsureCheck, EnsureSweep, GroupEmpty, GroupLingers,
      KeepWaiting, GiveUp, HashStreams, AppendReceipt, ReportError, Pinned
  <2> QED BY <2>2, <2>3, <2>4, <2>5
<1>3. ASSUME IInv, Pinned, Environment PROVE Pinned'
  <2>1. UNCHANGED pc /\ (proc[Leader] \in {"running", "doomed", "zombie"} =>
                          proc'[Leader] \in {"running", "doomed", "zombie"})
    BY <1>3, <1>l DEF IInv, TypeOK, Environment, Program, Death, Fork, Escape,
      Elevate, Write, Exit, Reap, Depart, WaitGoroutine, DeadlinePasses, GracePasses
  <2> QED BY <1>3, <2>1 DEF Pinned
<1>4. IInv /\ Pinned /\ [Next]_vars => Pinned'
  BY <1>2, <1>3 DEF Next, Done, Pinned, vars
<1>5. Pinned => (DeadlineKill => proc[Leader] \in {"running", "doomed", "zombie"})
  BY DEF Pinned, DeadlineKill
<1> QED BY <1>1, <1>4, <1>5, Invariance, PTL DEF Spec, DeadlineKillPinned
----------------------------------------------------------------------------
(***************************************************************************)
(* The supervisor implements LaunchContract.                               *)
(***************************************************************************)
\* A step that moves neither phase nor claim is a step of the tree by itself,
\* or a stutter, as long as it revives no empty tree and adds nobody to an
\* obedient one after the launch.
LEMMA TreeStep ==
  ASSUME UNCHANGED <<Phase, Claim>>,
         InGroup' \subseteq InGroup \/
           (Phase # "idle" /\ InGroup # {} /\ InGroup' \subseteq All /\
              ~(Phase \in {"closed", "abandoned"} /\ MayElevate = {})),
         Phase = "idle" => UNCHANGED InGroup
  PROVE  [Contract!Next]_Contract!contract
<1>1. InGroup \subseteq All
  BY DEF InGroup
<1>2. CASE UNCHANGED InGroup
  BY <1>2 DEF Contract!contract
<1>3. CASE ~UNCHANGED InGroup
  <2>1. Contract!Evolve
    BY <1>1, <1>3 DEF Contract!Evolve
  <2> QED BY <2>1 DEF Contract!Next
<1> QED BY <1>2, <1>3

\* The same for the steps that only take processes out of the group.
LEMMA ShrinkStep ==
  ASSUME UNCHANGED <<Phase, Claim>>, InGroup' \subseteq InGroup, IInv
  PROVE  [Contract!Next]_Contract!contract
<1>1. Phase = "idle" => InGroup = {}
  BY DEF Phase, IInv, NeverLaunched, InGroup
<1> QED BY <1>1, TreeStep

LEMMA RefinementSupervisor ==
  ASSUME IInv, IInv', Supervisor
  PROVE  [Contract!Next]_Contract!contract
<1> USE DEF Supervising, Sweeping, Settling, Reporting, Ended
<1>1. CASE OpenError
  <2>1. /\ Phase = "idle" /\ Phase' = "abandoned"
        /\ UNCHANGED <<InGroup, Claim>>
    BY <1>1 DEF OpenError, Phase, Claim, Returned, InGroup, IInv, LeaderStarted,
      locals, kernel
  <2> QED BY <2>1 DEF Contract!Next, Contract!Abandon
<1>2. CASE ReportError
  <2>1. /\ Phase \in {"idle", "live"} /\ Phase' = "abandoned"
        /\ UNCHANGED <<InGroup, Claim>>
    BY <1>2 DEF ReportError, Phase, Claim, Returned, InGroup, locals, kernel
  <2> QED BY <2>1 DEF Contract!Next, Contract!Abandon
<1>3. CASE Spawn
  <2>1. pc = "start" /\ state = "launch_failure" /\ \A p \in All : proc[p] = "unborn"
    BY <1>3 DEF Spawn, IInv, LeaderStarted, NeverLaunched
  <2>2. Phase = "idle" /\ Phase' = "live" /\ UNCHANGED Claim
    BY <1>3, <2>1 DEF Spawn, Phase, Claim, Returned
  <2>3. Leader \in All /\ InGroup' = {Leader}
    BY <1>3, <2>1 DEF Spawn, InGroup, IInv, TypeOK, All
  <2> QED BY <2>2, <2>3 DEF Contract!Next, Contract!Launch
<1>4. CASE AppendReceipt
  <2>1. /\ Phase = IF state = "launch_failure" THEN "idle" ELSE "live"
        /\ Phase' = "closed" /\ UNCHANGED InGroup
        /\ Claim' = [state |-> state, survived |-> survived]
    BY <1>4 DEF AppendReceipt, Phase, Claim, Returned, InGroup, locals, kernel
  <2>2. Claim' \in Contract!Claims
    BY <2>1 DEF Contract!Claims, Contract!States, IInv, TypeOK, TerminalState
  <2>3. /\ state \in {"exited", "launch_failure"} => InGroup = {}
        /\ ~survived => InGroup = {}
    BY <1>4, EmptyGroup DEF AppendReceipt, IInv, NeverLaunched, ExitedGroup,
      GroupSettled, Empty, GroupAlive
  <2>4. Contract!Warranted(Claim', InGroup)
    BY <2>1, <2>3 DEF Contract!Warranted
  <2> QED BY <2>1, <2>2, <2>4 DEF Contract!Next, Contract!Close
<1>5. CASE ~(OpenError \/ ReportError \/ Spawn \/ AppendReceipt)
  <2>1. UNCHANGED <<Phase, Claim>>
    BY <1>5 DEF Supervisor, LaunchFailure, LeaderWait, PollMiss, KeepPolling,
      DeadlineKill, LeaderWaitAfterDeadline, CollectLeader, ObserveDescendants,
      DescendantSweep, EnsureCheck, EnsureSweep, GroupEmpty, GroupLingers,
      KeepWaiting, GiveUp, HashStreams, Phase, Claim, Returned, IInv,
      StateSoFar, NeverLaunched, locals
  <2>2. ASSUME NEW r \in KillReason, SignalGroup(r)
        PROVE  InGroup' \subseteq InGroup
    BY <2>2, SignalFacts DEF IInv, InGroup
  <2>3. ASSUME NEW r \in ReapReason, CollectLeader(r)
        PROVE  InGroup' \subseteq InGroup
    BY <2>3, CollectFacts DEF IInv, InGroup, All
  <2>4. InGroup' \subseteq InGroup
    <3>1. CASE DeadlineKill \/ DescendantSweep \/ EnsureSweep
      BY <2>2, <3>1 DEF DeadlineKill, DescendantSweep, EnsureSweep, KillReason
    <3>2. CASE LeaderWait \/ LeaderWaitAfterDeadline
      BY <2>3, <3>2 DEF LeaderWait, LeaderWaitAfterDeadline, ReapReason
    <3>3. CASE ~(DeadlineKill \/ DescendantSweep \/ EnsureSweep \/
                 LeaderWait \/ LeaderWaitAfterDeadline)
      BY <1>5, <3>3 DEF Supervisor, LaunchFailure, PollMiss, KeepPolling,
        ObserveDescendants, EnsureCheck, GroupEmpty, GroupLingers, KeepWaiting,
        GiveUp, HashStreams, InGroup, kernel
    <3> QED BY <3>1, <3>2, <3>3
  <2> QED BY <2>1, <2>4, ShrinkStep
<1> QED BY <1>1, <1>2, <1>3, <1>4, <1>5

LEMMA RefinementEnvironment ==
  ASSUME IInv, IInv', Environment
  PROVE  [Contract!Next]_Contract!contract
<1>1. UNCHANGED <<Phase, Claim>>
  BY DEF Environment, Program, Death, Fork, Escape, Elevate, Write, Exit, Reap,
    Depart, WaitGoroutine, DeadlinePasses, GracePasses, Phase, Claim, Returned, locals
<1>2. ASSUME NEW p \in All, NEW q \in Procs, Fork(p, q), proc[p] = "running"
      PROVE  [Contract!Next]_Contract!contract
  <2>1. state # "launch_failure" /\ Phase # "idle"
    BY <1>2 DEF IInv, NeverLaunched, Phase
  <2>2. InGroup # {} /\ InGroup' \subseteq All
    BY <1>2 DEF InGroup
  <2>3. Phase \in {"closed", "abandoned"} => MayElevate # {}
    BY <1>2 DEF Phase, IInv, Swept, Ended, Obedience
  <2> QED BY <1>1, <2>1, <2>2, <2>3, TreeStep
<1>3. ASSUME ~\E p \in All, q \in Procs : Fork(p, q) /\ proc[p] = "running"
      PROVE  InGroup' \subseteq InGroup
  BY <1>3 DEF IInv, TypeOK, InGroup, Environment, Program, Death, Fork, Escape,
    Elevate, Write, Exit, Reap, Depart, WaitGoroutine, DeadlinePasses,
    GracePasses, kernel
<1> QED BY <1>1, <1>2, <1>3, ShrinkStep

\* Every behaviour of the supervisor and the kernel, with all their races, is
\* one of the contract: a launch is closed by one claim its tree warrants.
THEOREM ImplementsContract == Spec => Implements
<1>1. Init => Contract!Init
  BY DEF Init, Contract!Init, Phase, Claim, Returned, InGroup
<1>2. IInv /\ IInv' /\ [Next]_vars => [Contract!Next]_Contract!contract
  <2>1. UNCHANGED vars => UNCHANGED Contract!contract
    BY DEF vars, locals, kernel, Contract!contract, Phase, Claim, Returned, InGroup
  <2> QED BY <2>1, RefinementSupervisor, RefinementEnvironment DEF Next, Done
<1> QED BY <1>1, <1>2, Invariance, PTL DEF Spec, Implements, Contract!Spec

\* What the contract gives to whoever holds a claim, with no supervisor in sight.
LEMMA ContractClaims == Contract!Spec => []Contract!ClaimStands
<1>1. Contract!Init => Contract!ClaimStands
  BY DEF Contract!Init, Contract!ClaimStands
<1>2. Contract!ClaimStands /\ [Contract!Next]_Contract!contract => Contract!ClaimStands'
  <2> SUFFICES ASSUME Contract!ClaimStands, [Contract!Next]_Contract!contract
               PROVE  Contract!ClaimStands'
    OBVIOUS
  <2>1. CASE Contract!Launch
    BY <2>1 DEF Contract!Launch, Contract!ClaimStands
  <2>2. CASE Contract!Evolve
    BY <2>2 DEF Contract!Evolve, Contract!ClaimStands, Contract!Warranted
  <2>3. CASE Contract!Close
    BY <2>3 DEF Contract!Close, Contract!ClaimStands, Contract!Warranted
  <2>4. CASE Contract!Abandon
    BY <2>4 DEF Contract!Abandon, Contract!ClaimStands
  <2>5. CASE UNCHANGED Contract!contract
    BY <2>5 DEF Contract!contract, Contract!ClaimStands, Contract!Warranted
  <2> QED
    BY <2>1, <2>2, <2>3, <2>4, <2>5 DEF Contract!Next
<1> QED
  BY <1>1, <1>2, PTL DEF Contract!Spec

\* What a receipt says of the group is true of it for as long as the launch stays
\* closed, not only when it was written: wait_group_empty's verdict does not expire.
THEOREM ClaimNeverExpires == Spec => []Contract!ClaimStands
BY ImplementsContract, ContractClaims DEF Implements
=============================================================================
