------------------------------ MODULE Capture ------------------------------
(***************************************************************************)
(* One supervised launch: Corpus::ProcessLineage.run (Ruby) and its Go     *)
(* twins capture (go-by-example) and Capture (tour).  The supervisor       *)
(* spawns argv as the leader of a process group of its own, polls for the  *)
(* leader until a monotonic deadline, KILLs and sweeps the group, waits a  *)
(* bounded grace for it to empty, hashes the stream files and appends one  *)
(* receipt to the lineage ledger.                                          *)
(*                                                                         *)
(* The kernel side is the environment: processes fork, write, exit, leave  *)
(* the group (setsid), or change credentials so that kill(2) fails with    *)
(* EPERM.  A KILLed process is "doomed" until the kernel tears it down,    *)
(* and a dead one is a zombie, still visible to kill(-pgid, 0), until its  *)
(* parent or init reaps it.                                                *)
(***************************************************************************)
EXTENDS Naturals, FiniteSets

CONSTANTS
  Leader,       \* the process capture spawns; its pid is the pgid
  Procs,        \* processes the program may create
  MayElevate,   \* processes that may exec a set-user-id program
  AsyncReap,    \* TRUE: cmd.Wait in a goroutine (Go); FALSE: WNOHANG (Ruby)
  IoMayFail,    \* TRUE: opening, hashing or appending a file may fail
  MaxWrites     \* bound on the writes to the stream files

All == Procs \cup {Leader}

ASSUME LeaderAssumption == Leader \notin Procs
ASSUME ElevateAssumption == MayElevate \subseteq All
ASSUME SwitchAssumption == AsyncReap \in BOOLEAN /\ IoMayFail \in BOOLEAN
ASSUME WritesAssumption == MaxWrites \in Nat

VARIABLES
  \* the supervisor: program counter and locals of run / capture
  pc, state, status, observed, survived, kills, reaps, digest,
  \* its two clocks: the launch deadline and the reap grace have passed
  expired, graceOver,
  \* the kernel
  proc, leaderStatus, elevated, written

locals == <<state, status, observed, survived, kills, reaps, digest>>
clocks == <<expired, graceOver>>
kernel == <<proc, leaderStatus, elevated, written>>
vars == <<pc, locals, clocks, kernel>>

ProcState == {"unborn", "running", "doomed", "zombie", "gone",
              "escaped", "departed"}
Status == {"none", "exit", "signal"}
TerminalState == {"exited", "deadline", "process_leak", "launch_failure"}
KillReason == {"deadline", "descendant_sweep", "ensure_sweep"}
ReapReason == {"leader_wait", "leader_wait_after_deadline"}
KillEvent == [reason : KillReason, delivered : BOOLEAN,
              error : {"none", "EPERM"}]
ReapEvent == [reason : ReapReason, status : Status]

\* Where the supervisor is.  "failed" is an error return: no receipt.
Supervising == {"poll", "check", "wait"}
Sweeping == {"observe", "sweep", "ensure", "ensureKill"}
Settling == {"grace", "graceClock"}
Reporting == {"hash", "append"}
Ended == {"returned", "failed"}
Location == {"start"} \cup Supervising \cup Sweeping \cup Settling
              \cup Reporting \cup Ended

----------------------------------------------------------------------------
(***************************************************************************)
(* The process group as the kernel shows it.                               *)
(***************************************************************************)
InGroup == {p \in All : proc[p] \in {"running", "doomed", "zombie"}}
Permitted == InGroup \ elevated
Alive == {p \in All : proc[p] \in {"running", "doomed", "escaped"}}

\* group_alive?: kill(-pgid, 0) succeeds or fails with EPERM.
GroupAlive == InGroup # {}

\* Mutants of SignalGroup: a vanished group is recorded as an error too; the
\* signal goes to the leader alone; the signal is one a process may ignore.
SignalGroupNamingGone(reason) ==
  /\ kills' = kills \cup
       {[reason |-> reason, delivered |-> Permitted # {},
         error |-> IF Permitted # {} THEN "none"
                   ELSE IF GroupAlive THEN "EPERM" ELSE "ESRCH"]}
  /\ proc' = [p \in All |->
       IF p \in Permitted /\ proc[p] = "running" THEN "doomed" ELSE proc[p]]
  /\ UNCHANGED <<leaderStatus, elevated, written>>

SignalLeaderOnly(reason) ==
  /\ kills' = kills \cup {[reason |-> reason, delivered |-> Leader \in Permitted,
                           error |-> "none"]}
  /\ proc' = IF proc[Leader] = "running" /\ Leader \in Permitted
             THEN [proc EXCEPT ![Leader] = "doomed"] ELSE proc
  /\ UNCHANGED <<leaderStatus, elevated, written>>

SignalGroupIgnorably(reason) ==
  /\ kills' = kills \cup {[reason |-> reason, delivered |-> Permitted # {},
                           error |-> "none"]}
  /\ UNCHANGED <<proc, leaderStatus, elevated, written>>

\* signal_group("KILL"): delivered to every member the supervisor may signal;
\* EPERM when there are members and it may signal none; ESRCH (no error is
\* recorded) when the group has no member.
SignalGroup(reason) ==
  /\ kills' = kills \cup
       {[reason |-> reason, delivered |-> Permitted # {},
         error |-> IF GroupAlive /\ Permitted = {} THEN "EPERM" ELSE "none"]}
  /\ proc' = [p \in All |->
       IF p \in Permitted /\ proc[p] = "running" THEN "doomed" ELSE proc[p]]
  /\ UNCHANGED <<leaderStatus, elevated, written>>

\* The leader's status can be collected: the Go port reads it once its
\* waiting goroutine is done, the Ruby one collects the zombie itself.
Waitable == proc[Leader] = (IF AsyncReap THEN "gone" ELSE "zombie")

\* Mutant of CollectLeader: the status is read, the reap event forgotten.
CollectLeaderSilently(reason) ==
  /\ Waitable
  /\ status' = leaderStatus
  /\ proc' = [proc EXCEPT ![Leader] = "gone"]
  /\ pc' = "observe"
  /\ UNCHANGED <<state, observed, survived, kills, reaps, digest, clocks,
                 leaderStatus, elevated, written>>

\* record and reap_event.
CollectLeader(reason) ==
  /\ Waitable
  /\ status' = leaderStatus
  /\ reaps' = reaps \cup {[reason |-> reason, status |-> leaderStatus]}
  /\ proc' = [proc EXCEPT ![Leader] = "gone"]
  /\ pc' = "observe"
  /\ UNCHANGED <<state, observed, survived, kills, digest, clocks,
                 leaderStatus, elevated, written>>

----------------------------------------------------------------------------
Init ==
  /\ pc = "start"
  /\ state = "launch_failure"
  /\ status = "none"
  /\ observed = FALSE
  /\ survived = FALSE
  /\ kills = {}
  /\ reaps = {}
  /\ digest = 0
  /\ expired = FALSE
  /\ graceOver = FALSE
  /\ proc = [p \in All |-> "unborn"]
  /\ leaderStatus = "none"
  /\ elevated = {}
  /\ written = 0

(***************************************************************************)
(* The supervisor.                                                         *)
(***************************************************************************)
\* The sinks or the standard input cannot be opened: nothing was attempted.
OpenError ==
  /\ pc = "start"
  /\ IoMayFail
  /\ pc' = "failed"
  /\ UNCHANGED <<locals, clocks, kernel>>

\* Mutant of LaunchFailure: state is set before the spawn that fails.
LaunchFailureTooLate ==
  /\ pc = "start"
  /\ state' = "exited"
  /\ pc' = "observe"
  /\ UNCHANGED <<status, observed, survived, kills, reaps, digest, clocks, kernel>>

\* Process.spawn raises, cmd.Start fails: state stays "launch_failure".
LaunchFailure ==
  /\ pc = "start"
  /\ pc' = "grace"
  /\ UNCHANGED <<locals, clocks, kernel>>

Spawn ==
  /\ pc = "start"
  /\ proc' = [proc EXCEPT ![Leader] = "running"]
  /\ state' = "exited"
  /\ pc' = "poll"
  /\ UNCHANGED <<status, observed, survived, kills, reaps, digest, clocks,
                 leaderStatus, elevated, written>>

\* Mutant of LeaderWait: break leaves the select, not the polling loop.
LeaderWaitNoBreak ==
  /\ pc = "poll"
  /\ Waitable
  /\ status' = leaderStatus
  /\ proc' = [proc EXCEPT ![Leader] = "gone"]
  /\ pc' = "check"
  /\ UNCHANGED <<state, observed, survived, kills, reaps, digest, clocks,
                 leaderStatus, elevated, written>>

LeaderWait == pc = "poll" /\ CollectLeader("leader_wait")

\* The leader has not been collected: look at the clock.
PollMiss ==
  /\ pc = "poll"
  /\ ~Waitable
  /\ pc' = "check"
  /\ UNCHANGED <<locals, clocks, kernel>>

KeepPolling ==
  /\ pc = "check"
  /\ ~expired
  /\ pc' = "poll"
  /\ UNCHANGED <<locals, clocks, kernel>>

DeadlineKill ==
  /\ pc = "check"
  /\ expired
  /\ state' = "deadline"
  /\ SignalGroup("deadline")
  /\ pc' = "wait"
  /\ UNCHANGED <<status, observed, survived, reaps, digest, clocks>>

\* waitpid2(pid) without WNOHANG, <-done: no bound on this wait.
LeaderWaitAfterDeadline ==
  pc = "wait" /\ CollectLeader("leader_wait_after_deadline")

\* Mutants of ObserveDescendants: a leader that exited is reported exited
\* whoever it left behind; the sweep is left to the final check.
ObserveKeepsState ==
  /\ pc = "observe"
  /\ observed' = GroupAlive
  /\ pc' = IF GroupAlive THEN "sweep" ELSE "ensure"
  /\ UNCHANGED <<state, status, survived, kills, reaps, digest, clocks, kernel>>

ObserveSkipsSweep ==
  /\ pc = "observe"
  /\ observed' = GroupAlive
  /\ state' = IF GroupAlive /\ state = "exited" THEN "process_leak" ELSE state
  /\ pc' = "ensure"
  /\ UNCHANGED <<status, survived, kills, reaps, digest, clocks, kernel>>

ObserveDescendants ==
  /\ pc = "observe"
  /\ observed' = GroupAlive
  /\ state' = IF GroupAlive /\ state = "exited" THEN "process_leak" ELSE state
  /\ pc' = IF GroupAlive THEN "sweep" ELSE "ensure"
  /\ UNCHANGED <<status, survived, kills, reaps, digest, clocks, kernel>>

DescendantSweep ==
  /\ pc = "sweep"
  /\ SignalGroup("descendant_sweep")
  /\ pc' = "ensure"
  /\ UNCHANGED <<state, status, observed, survived, reaps, digest, clocks>>

EnsureCheck ==
  /\ pc = "ensure"
  /\ pc' = IF GroupAlive THEN "ensureKill" ELSE "grace"
  /\ UNCHANGED <<locals, clocks, kernel>>

EnsureSweep ==
  /\ pc = "ensureKill"
  /\ SignalGroup("ensure_sweep")
  /\ pc' = "grace"
  /\ UNCHANGED <<state, status, observed, survived, reaps, digest, clocks>>

\* Mutant of GroupEmpty: a swept group is taken to be an empty one.
GroupPresumedEmpty ==
  /\ pc = "grace"
  /\ survived' = FALSE
  /\ pc' = "hash"
  /\ UNCHANGED <<state, status, observed, kills, reaps, digest, clocks, kernel>>

\* wait_group_empty: look at the group, then at the clock, until either ends
\* it.  A launch without a pid does not look at all.
GroupEmpty ==
  /\ pc = "grace"
  /\ state = "launch_failure" \/ ~GroupAlive
  /\ survived' = FALSE
  /\ pc' = "hash"
  /\ UNCHANGED <<state, status, observed, kills, reaps, digest, clocks, kernel>>

GroupLingers ==
  /\ pc = "grace"
  /\ state # "launch_failure" /\ GroupAlive
  /\ pc' = "graceClock"
  /\ UNCHANGED <<locals, clocks, kernel>>

\* Mutant of KeepWaiting: the grace is not bounded.
KeepWaitingForever ==
  /\ pc = "graceClock"
  /\ pc' = "grace"
  /\ UNCHANGED <<locals, clocks, kernel>>

KeepWaiting ==
  /\ pc = "graceClock"
  /\ ~graceOver
  /\ pc' = "grace"
  /\ UNCHANGED <<locals, clocks, kernel>>

\* Mutant of GiveUp: the survivors are not reported.
GiveUpSilently ==
  /\ pc = "graceClock"
  /\ graceOver
  /\ survived' = FALSE
  /\ pc' = "hash"
  /\ UNCHANGED <<state, status, observed, kills, reaps, digest, clocks, kernel>>

GiveUp ==
  /\ pc = "graceClock"
  /\ graceOver
  /\ survived' = TRUE
  /\ pc' = "hash"
  /\ UNCHANGED <<state, status, observed, kills, reaps, digest, clocks, kernel>>

\* lineageArtifact on each stream file.
HashStreams ==
  /\ pc = "hash"
  /\ digest' = written
  /\ pc' = "append"
  /\ UNCHANGED <<state, status, observed, survived, kills, reaps, clocks, kernel>>

\* append!: one canonical line, fsynced, under the ledger's lock.
AppendReceipt ==
  /\ pc = "append"
  /\ pc' = "returned"
  /\ UNCHANGED <<locals, clocks, kernel>>

\* A stream file is gone or is a symlink, the ledger cannot be written: the
\* call returns an error although the program ran.
ReportError ==
  /\ pc \in Reporting
  /\ IoMayFail
  /\ pc' = "failed"
  /\ UNCHANGED <<locals, clocks, kernel>>

Supervisor ==
  \/ OpenError \/ LaunchFailure \/ Spawn
  \/ LeaderWait \/ PollMiss \/ KeepPolling
  \/ DeadlineKill \/ LeaderWaitAfterDeadline
  \/ ObserveDescendants \/ DescendantSweep \/ EnsureCheck \/ EnsureSweep
  \/ GroupEmpty \/ GroupLingers \/ KeepWaiting \/ GiveUp
  \/ HashStreams \/ AppendReceipt \/ ReportError

----------------------------------------------------------------------------
(***************************************************************************)
(* The kernel and the program under test.                                  *)
(***************************************************************************)
\* A child starts in its parent's group, with its parent's credentials.
Fork(p, q) ==
  /\ proc[p] \in {"running", "escaped"}
  /\ proc[q] = "unborn"
  /\ proc' = [proc EXCEPT ![q] = proc[p]]
  /\ elevated' = IF p \in elevated THEN elevated \cup {q} ELSE elevated
  /\ UNCHANGED <<pc, locals, clocks, leaderStatus, written>>

\* setsid: only a process that does not lead the group may leave it.
Escape(p) ==
  /\ proc[p] = "running"
  /\ proc' = [proc EXCEPT ![p] = "escaped"]
  /\ UNCHANGED <<pc, locals, clocks, leaderStatus, elevated, written>>

Elevate(p) ==
  /\ p \in MayElevate \ elevated
  /\ proc[p] = "running"
  /\ elevated' = elevated \cup {p}
  /\ UNCHANGED <<pc, locals, clocks, proc, leaderStatus, written>>

Exit(p, s) ==
  /\ proc[p] \in {"running", "doomed"}
  /\ proc' = [proc EXCEPT ![p] = "zombie"]
  /\ leaderStatus' = IF p = Leader THEN s ELSE leaderStatus
  /\ UNCHANGED <<pc, locals, clocks, elevated, written>>

\* A zombie is reaped by its parent or, orphaned, by init.
Reap(p) ==
  /\ proc[p] = "zombie"
  /\ proc' = [proc EXCEPT ![p] = "gone"]
  /\ UNCHANGED <<pc, locals, clocks, leaderStatus, elevated, written>>

\* The Go port's waiting goroutine collects the leader on its own schedule.
WaitGoroutine == AsyncReap /\ Reap(Leader)

Depart(p) ==
  /\ proc[p] = "escaped"
  /\ proc' = [proc EXCEPT ![p] = "departed"]
  /\ UNCHANGED <<pc, locals, clocks, leaderStatus, elevated, written>>

\* Every process inherits the stream files; a doomed one may still be
\* completing the write it was in.
Write(p) ==
  /\ p \in Alive
  /\ written < MaxWrites
  /\ written' = written + 1
  /\ UNCHANGED <<pc, locals, clocks, proc, leaderStatus, elevated>>

DeadlinePasses ==
  /\ pc \in {"poll", "check"}
  /\ ~expired
  /\ expired' = TRUE
  /\ UNCHANGED <<pc, locals, graceOver, kernel>>

GracePasses ==
  /\ pc \in Settling
  /\ ~graceOver
  /\ graceOver' = TRUE
  /\ UNCHANGED <<pc, locals, expired, kernel>>

\* What the program under test does, and what becomes of its processes.
Program(p) ==
  \/ \E q \in Procs : Fork(p, q)
  \/ p \in Procs /\ Escape(p)
  \/ Elevate(p)
  \/ Write(p)

Death(p) ==
  \/ \E s \in {"exit", "signal"} : Exit(p, s)
  \/ p \in Procs /\ (Reap(p) \/ Depart(p))

Environment ==
  \/ \E p \in All : Program(p) \/ Death(p)
  \/ WaitGoroutine
  \/ DeadlinePasses \/ GracePasses

\* The call is over; the processes it left behind run on.
Done == pc \in Ended /\ UNCHANGED vars

Next == Supervisor \/ Environment \/ Done

(***************************************************************************)
(* Fairness.  The supervisor is scheduled and its clocks advance.  The     *)
(* kernel tears down what was KILLed and init reaps what nobody else can   *)
(* wait for.  A running program owes nothing: it may never exit.           *)
(***************************************************************************)
Orphaned == \A p \in All : proc[p] \notin {"running", "doomed", "escaped"}
Teardown(p) == proc[p] = "doomed" /\ \E s \in {"exit", "signal"} : Exit(p, s)

Fairness ==
  /\ WF_vars(Supervisor)
  /\ WF_vars(DeadlinePasses) /\ WF_vars(GracePasses)
  /\ WF_vars(WaitGoroutine)
  /\ \A p \in All : WF_vars(Teardown(p))
  /\ \A p \in Procs : WF_vars(Orphaned /\ Reap(p))

Spec == Init /\ [][Next]_vars
FairSpec == Spec /\ Fairness

----------------------------------------------------------------------------
(***************************************************************************)
(* Type correctness of the supervisor's locals and of the kernel's state.  *)
(***************************************************************************)
TypeOK ==
  /\ pc \in Location
  /\ state \in TerminalState
  /\ status \in Status
  /\ observed \in BOOLEAN /\ survived \in BOOLEAN
  /\ kills \subseteq KillEvent
  /\ reaps \subseteq ReapEvent
  /\ digest \in 0..MaxWrites
  /\ expired \in BOOLEAN /\ graceOver \in BOOLEAN
  /\ proc \in [All -> ProcState]
  /\ leaderStatus \in Status
  /\ elevated \subseteq All
  /\ written \in 0..MaxWrites

\* The receipt is the locals at the moment append! wrote them; nothing
\* assigns them afterwards.
Returned == pc = "returned"
Spawned == proc[Leader] # "unborn"

\* validate_payload!: what an authenticator demands of one record.  It ends by
\* opening and hashing the recorded streams again: they are still the files
\* the receipt describes.
ValidPayload ==
  /\ (state = "launch_failure") =>
       /\ ~Spawned
       /\ reaps = {} /\ kills = {}
  /\ (state # "launch_failure") =>
       /\ Spawned
       /\ reaps # {}
       /\ \A r \in reaps : r.status # "none" /\ r.status = status
  /\ (state = "exited") => ~survived
  /\ \A k \in kills : k.delivered => k.error = "none"
  /\ (state = "deadline") => \E k \in kills : k.reason = "deadline"
  /\ (state = "process_leak") => \E k \in kills : k.reason = "descendant_sweep"
  /\ digest = written

\* No process has left the group.
NobodyLeft == \A p \in All : proc[p] \notin {"escaped", "departed"}

\* The one reason validate_payload! has to refuse a receipt, whenever it is
\* asked, is that a recorded stream changed after it was hashed; and it has
\* that reason only for a receipt that confesses a survivor, or when some
\* process left the group and writes on.
ReceiptAuthentic ==
  Returned /\ ~ValidPayload => digest # written /\ (survived \/ ~NobodyLeft)

\* A receipt that says "exited" was written with the whole group gone, and no
\* member appears later: the leader's exit was not a parent handing over.
ExitedIsAlone == Returned /\ state = "exited" => ~GroupAlive

\* Whoever is still in the group when (or after) the receipt is written is
\* confessed by terminal.descendants_survived.
SurvivorsConfessed == Returned /\ GroupAlive => survived

\* When run gives up on a group, by a receipt or by an error, every member it
\* may signal has been KILLed: the sweeps leave no process running behind.
SweptBeforeReport ==
  pc \in Reporting \cup Ended =>
    \A p \in All : proc[p] = "running" => p \in elevated

\* The digests of a receipt that confesses no survivor are those of the final
\* stream files, unless some process left the group.
StreamsFrozen == Returned /\ ~survived /\ NobodyLeft => digest = written

\* The deadline KILL goes to a group whose number is still held: the leader
\* has not been collected, so the pgid cannot have been reused.
DeadlineKillPinned ==
  [][DeadlineKill => proc[Leader] \in {"running", "doomed", "zombie"}]_vars

\* A launch that started comes to an end: it returns a receipt or an error.
ReceiptEventually == <>(pc \in Ended)

\* Once the call is over and nobody left the group or lost it permission,
\* the group dies out: a sweep the receipt calls incomplete is only late.
GroupDiesOut ==
  (pc \in Ended /\ NobodyLeft /\ elevated = {}) ~> ~GroupAlive
----------------------------------------------------------------------------
(***************************************************************************)
(* The supervisor implements LaunchContract: the tree is the process       *)
(* group, the claim is what the receipt says, and between the two the      *)
(* supervisor's polling, killing and hashing are stutters.                 *)
(***************************************************************************)
NoReceipt == "no receipt"
Phase == CASE pc = "returned" -> "closed"
           [] pc = "failed" -> "abandoned"
           [] OTHER -> IF state = "launch_failure" THEN "idle" ELSE "live"
Claim == IF Returned THEN [state |-> state, survived |-> survived] ELSE NoReceipt

Contract == INSTANCE LaunchContract WITH
  Processes <- All, Obedient <- MayElevate = {}, NoClaim <- NoReceipt,
  phase <- Phase, tree <- InGroup, claim <- Claim

\* The detailed supervisor, its races with the kernel included, keeps the
\* promise stated without them.
Implements == Contract!Spec
============================================================================
