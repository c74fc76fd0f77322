------------------------------ MODULE StageRun ------------------------------
(***************************************************************************)
(* One stage of a Go by Example row: gateContext.run.  It layers a row     *)
(* adapter above capture -- a loopback client, a signal injector or a      *)
(* loopback origin, each in a goroutine of its own -- joins the adapter    *)
(* within a cleanup bound once capture returns, maps the launch receipt to *)
(* the gate's verdict and finally asks the liveness FIFO whether some      *)
(* process that left the group still holds its write end.                  *)
(*                                                                         *)
(* The launch itself is module Capture, step for step.  In a run stage its *)
(* program is the corpus launcher until that has opened the FIFO,          *)
(* published its pid and exec'ed the program under test; a build stage     *)
(* (launch = FALSE) starts its tool directly, with no FIFO and no adapter. *)
(***************************************************************************)
EXTENDS Capture

CONSTANT Adapters     \* the adapters a row may name, "none" for no adapter

AdapterKinds == {"none", "loopback_server", "signal_injector",
                 "local_http_origin"}
ASSUME AdaptersAssumption == Adapters \subseteq AdapterKinds

VARIABLES
  run,              \* where gateContext.run is
  adapter,          \* the row's adapter
  fixture,          \* where the adapter's goroutine is
  stop,             \* the stopFlag shared with it
  adapterExpired,   \* the stage deadline, read before capture starts its own
  launcher,         \* how far launch.go is, "none" in a build stage
  dropped,          \* processes that closed the inherited FIFO descriptor
  verdict,          \* result.state
  readOut,          \* the streams as readStream found them
  outlived,         \* history: an escaped process outlived the capture
  settled           \* history: the adapter had ended well by then

stage == <<run, adapter, fixture, stop, adapterExpired, launcher, dropped,
           verdict, readOut, outlived, settled>>
svars == <<vars, stage>>

Verdict == {"unspawned", "complete", "timeout", "leak", "adapter_error",
            "cleanup_error"}
RunLocation == {"setup", "capture", "join", "cleanup", "map", "sentinel", "done"}
FixtureLocation == {"pid", "dial", "talk", "await", "TERM", "INT", "serve",
                    "ok", "error"}

FixtureEnded == fixture \in {"ok", "error"}
Threaded == adapter \in {"loopback_server", "signal_injector"}

\* Who keeps the gate's read end from reaching EOF.
Holders ==
  {p \in Alive : launcher \in {"holding", "published"} /\ p \notin dropped}

StageInit ==
  /\ Init
  /\ run = "setup"
  /\ adapter \in Adapters
  /\ fixture = "ok"
  /\ stop = FALSE
  /\ adapterExpired = FALSE
  /\ launcher \in {"starting"} \cup (IF adapter = "none" THEN {"none"} ELSE {})
  /\ dropped = {}
  /\ verdict = "unspawned"
  /\ readOut = 0
  /\ outlived = FALSE
  /\ settled = FALSE

----------------------------------------------------------------------------
(***************************************************************************)
(* gateContext.run.                                                        *)
(***************************************************************************)
\* No budget left, no executable, no stdin file; newOrigin failed.
Refuse ==
  /\ run = "setup"
  /\ run' = "done"
  /\ verdict' \in {"unspawned"} \cup
       (IF adapter = "local_http_origin" THEN {"adapter_error"} ELSE {})
  /\ UNCHANGED <<vars, adapter, fixture, stop, adapterExpired, launcher,
                 dropped, readOut, outlived, settled>>

\* prepareLiveness fails: no thread is started, an origin is already serving.
LivenessError ==
  /\ run = "setup"
  /\ launcher # "none"
  /\ run' = "join"
  /\ stop' = TRUE
  /\ fixture' = IF adapter = "local_http_origin" THEN "serve" ELSE "ok"
  /\ UNCHANGED <<vars, adapter, adapterExpired, launcher, dropped, verdict,
                 readOut, outlived, settled>>

StartStage ==
  /\ run = "setup"
  /\ run' = "capture"
  /\ fixture' = CASE Threaded -> "pid"
                  [] adapter = "local_http_origin" -> "serve"
                  [] OTHER -> "ok"
  /\ UNCHANGED <<vars, adapter, stop, adapterExpired, launcher, dropped,
                 verdict, readOut, outlived, settled>>

Capturing == run = "capture" /\ Supervisor /\ UNCHANGED stage

\* capture returned a receipt, or an error: of its class only an unexpected
\* one is an adapter_error, the others leave the stage unspawned.
CaptureReturns ==
  /\ run = "capture"
  /\ pc \in Ended
  /\ run' = "join"
  /\ stop' = TRUE
  /\ verdict' \in IF Returned THEN {verdict} ELSE {verdict, "adapter_error"}
  /\ outlived' = \E p \in All : proc[p] = "escaped"
  /\ settled' = (fixture = "ok")
  /\ UNCHANGED <<vars, adapter, fixture, adapterExpired, launcher, dropped,
                 readOut>>

\* <-thread.done; o.close with a budget left.  With no adapter there is
\* nothing to join and fixture is "ok" from the start.
Join ==
  /\ run = "join"
  /\ FixtureEnded
  /\ adapter = "local_http_origin" => ~adapterExpired
  /\ run' = "map"
  /\ verdict' = IF fixture = "error" THEN "adapter_error" ELSE verdict
  /\ UNCHANGED <<vars, adapter, fixture, stop, adapterExpired, launcher,
                 dropped, readOut, outlived, settled>>

\* Mutant of JoinTimeout: the missed join is waited out but not recorded.
JoinTimeoutUnrecorded ==
  /\ run = "join"
  /\ Threaded /\ ~FixtureEnded
  /\ run' = "cleanup"
  /\ UNCHANGED <<vars, adapter, fixture, stop, adapterExpired, launcher,
                 dropped, verdict, readOut, outlived, settled>>

\* The thread did not join within cleanupLimit.
JoinTimeout ==
  /\ run = "join"
  /\ Threaded /\ ~FixtureEnded
  /\ run' = "cleanup"
  /\ verdict' = "cleanup_error"
  /\ UNCHANGED <<vars, adapter, fixture, stop, adapterExpired, launcher,
                 dropped, readOut, outlived, settled>>

\* o.close: not done within the budget, or no budget: left(o.deadline) is
\* spent, and then o.done is not even looked at.
OriginJoinTimeout ==
  /\ run = "join"
  /\ adapter = "local_http_origin"
  /\ ~FixtureEnded \/ adapterExpired
  /\ run' = "cleanup"
  /\ UNCHANGED <<vars, adapter, fixture, stop, adapterExpired, launcher,
                 dropped, verdict, readOut, outlived, settled>>

\* Mutant of CleanupEnds: the second wait is for the goroutine alone.
CleanupWaitsForever ==
  /\ run = "cleanup"
  /\ FixtureEnded
  /\ run' = "map"
  /\ verdict' = IF Threaded THEN verdict
                ELSE IF fixture = "error" THEN "adapter_error" ELSE "cleanup_error"
  /\ UNCHANGED <<vars, adapter, fixture, stop, adapterExpired, launcher,
                 dropped, readOut, outlived, settled>>

\* The second wait ends, because the goroutine did or because it is over.  A
\* late thread's error is dropped; a late origin's is not.
CleanupEnds ==
  /\ run = "cleanup"
  /\ run' = "map"
  /\ verdict' = IF Threaded THEN verdict
                ELSE IF fixture = "error" THEN "adapter_error" ELSE "cleanup_error"
  /\ UNCHANGED <<vars, adapter, fixture, stop, adapterExpired, launcher,
                 dropped, readOut, outlived, settled>>

\* Mutants of Mapped: the receipt's own word for a deadline; no leak case.
MappedVerbatim == CASE state = "exited" -> "complete"
                    [] state = "process_leak" -> "leak"
                    [] state = "deadline" -> "deadline"
                    [] OTHER -> "unspawned"
MappedNoLeak == CASE state = "exited" -> "complete"
                  [] state = "deadline" -> "timeout"
                  [] OTHER -> "unspawned"

Mapped == CASE state = "exited" -> "complete"
            [] state = "deadline" -> "timeout"
            [] state = "process_leak" -> "leak"
            [] OTHER -> "unspawned"

\* Fold the receipt into the verdict; an adapter diagnosis is not overwritten.
MapReceipt ==
  /\ run = "map"
  /\ run' = IF Returned /\ Spawned /\ launcher # "none" THEN "sentinel" ELSE "done"
  /\ verdict' = IF Returned /\ verdict \notin {"adapter_error", "cleanup_error"}
                THEN Mapped ELSE verdict
  /\ readOut' = IF Returned THEN written ELSE 0
  /\ UNCHANGED <<vars, adapter, fixture, stop, adapterExpired, launcher,
                 dropped, outlived, settled>>

\* sentinelHeld: the FIFO reads EOF, or is still held when the budget is over.
SentinelEOF ==
  /\ run = "sentinel"
  /\ Holders = {}
  /\ run' = "done"
  /\ UNCHANGED <<vars, adapter, fixture, stop, adapterExpired, launcher,
                 dropped, verdict, readOut, outlived, settled>>

\* Mutant of SentinelHeld: the held descriptor is noted, the state is kept.
SentinelHeldNoted ==
  /\ run = "sentinel"
  /\ Holders # {}
  /\ run' = "done"
  /\ UNCHANGED <<vars, adapter, fixture, stop, adapterExpired, launcher,
                 dropped, verdict, readOut, outlived, settled>>

SentinelHeld ==
  /\ run = "sentinel"
  /\ Holders # {}
  /\ run' = "done"
  /\ verdict' = "leak"
  /\ UNCHANGED <<vars, adapter, fixture, stop, adapterExpired, launcher,
                 dropped, readOut, outlived, settled>>

Run == \/ Refuse \/ LivenessError \/ StartStage \/ Capturing \/ CaptureReturns
       \/ Join \/ JoinTimeout \/ OriginJoinTimeout \/ CleanupEnds
       \/ MapReceipt \/ SentinelEOF \/ SentinelHeld

----------------------------------------------------------------------------
(***************************************************************************)
(* The adapters' goroutines.                                               *)
(***************************************************************************)
FixtureTo(from, to) ==
  /\ fixture = from
  /\ fixture' = to
  /\ UNCHANGED <<vars, run, adapter, stop, adapterExpired, launcher, dropped,
                 verdict, readOut, outlived, settled>>

\* Polling loops look at stop first, then at the deadline; a connected client
\* polls too while it waits for the handler to report.
Waiting == {"pid", "dial", "talk", "await"}
FixtureStops == \E l \in Waiting : stop /\ FixtureTo(l, "ok")
FixtureDeadline == \E l \in Waiting : adapterExpired /\ FixtureTo(l, "error")

\* publishedPid; the stop flag may be set after it was last looked at.
PidSeen ==
  /\ launcher = "published"
  /\ FixtureTo("pid", IF adapter = "loopback_server" THEN "dial" ELSE "await")

\* drive: the program must be listening; a connection dies with it, or the
\* response is not the expected one.
Connect == Alive # {} /\ FixtureTo("dial", "talk")
Respond == Alive # {} /\ FixtureTo("talk", "TERM")
Disconnect == FixtureTo("talk", "error")

\* awaitOutput: the readiness line is in the stdout log.
Readiness == written > 0 /\ FixtureTo("await", "INT")

\* sig("TERM") unless the stage has stopped; sig("INT") without looking again.
\* What the program makes of a signal it may also do unasked.
InjectSignal == \E s \in {"TERM", "INT"} : FixtureTo(s, "ok")

\* The origin serves its one client, fails, or is unblocked by a close.
OriginEnds == \E e \in {"ok", "error"} : FixtureTo("serve", e)

Fixture == \/ FixtureStops \/ FixtureDeadline \/ PidSeen
           \/ Connect \/ Respond \/ Disconnect \/ Readiness
           \/ InjectSignal \/ OriginEnds

----------------------------------------------------------------------------
(***************************************************************************)
(* The launcher, the program and the clocks.                               *)
(***************************************************************************)
Launcher(from, to) ==
  /\ proc[Leader] = "running"
  /\ launcher = from
  /\ launcher' = to
  /\ UNCHANGED <<vars, run, adapter, fixture, stop, adapterExpired, dropped,
                 verdict, readOut, outlived, settled>>

HoldSentinel == Launcher("starting", "holding")
PublishPid == Launcher("holding", "published")

\* A forked child inherits its parent's descriptors, open or closed.
Program2(p) ==
  /\ launcher \in {"none", "published"}
  /\ \/ \E q \in Procs :
          /\ Fork(p, q)
          /\ dropped' = IF p \in dropped THEN dropped \cup {q} ELSE dropped
     \/ /\ Elevate(p) \/ Write(p) \/ (p \in Procs /\ Escape(p))
        /\ UNCHANGED dropped
     \/ /\ launcher = "published"
        /\ proc[p] \in {"running", "escaped"} /\ p \notin dropped
        /\ dropped' = dropped \cup {p}
        /\ UNCHANGED vars
  /\ UNCHANGED <<run, adapter, fixture, stop, adapterExpired, launcher,
                 verdict, readOut, outlived, settled>>

StageDeadline ==
  /\ run \in {"capture", "join", "cleanup"}
  /\ ~adapterExpired
  /\ adapterExpired' = TRUE
  /\ UNCHANGED <<vars, run, adapter, fixture, stop, launcher, dropped, verdict,
                 readOut, outlived, settled>>

\* capture's deadline starts after the stage's and is never the earlier one.
CaptureDeadline == adapterExpired /\ DeadlinePasses /\ UNCHANGED stage

World ==
  \/ HoldSentinel \/ PublishPid
  \/ \E p \in All : Program2(p) \/ (Death(p) /\ UNCHANGED stage)
  \/ WaitGoroutine /\ UNCHANGED stage
  \/ StageDeadline \/ CaptureDeadline
  \/ GracePasses /\ UNCHANGED stage

StageDone == run = "done" /\ UNCHANGED svars

StageNext == Run \/ Fixture \/ World \/ StageDone

StageFairness ==
  /\ WF_svars(Run)
  /\ WF_svars(StageDeadline) /\ WF_svars(CaptureDeadline)
  /\ WF_svars(GracePasses /\ UNCHANGED stage)
  /\ WF_svars(WaitGoroutine /\ UNCHANGED stage)
  /\ \A p \in All : WF_svars(Teardown(p) /\ UNCHANGED stage)

StageSpec == StageInit /\ [][StageNext]_svars
StageFairSpec == StageSpec /\ StageFairness

----------------------------------------------------------------------------
(***************************************************************************)
(* Type correctness of gateContext.run's own state.                        *)
(***************************************************************************)
StageTypeOK ==
  /\ TypeOK
  /\ run \in RunLocation
  /\ adapter \in AdapterKinds
  /\ fixture \in FixtureLocation
  /\ stop \in BOOLEAN /\ adapterExpired \in BOOLEAN
  /\ outlived \in BOOLEAN /\ settled \in BOOLEAN
  /\ launcher \in {"none", "starting", "holding", "published"}
  /\ dropped \subseteq All
  /\ verdict \in Verdict
  /\ readOut \in 0..MaxWrites

\* A stage reported complete is over in every respect: its receipt says
\* "exited", its group is empty, nobody holds the liveness descriptor and its
\* adapter has finished without an error -- run's whole point in layering the
\* three observations.
CompleteIsClean ==
  run = "done" /\ verdict = "complete" =>
    /\ Returned /\ state = "exited"
    /\ ~GroupAlive
    /\ Holders = {}
    /\ fixture = "ok"

\* No verdict other than a cleanup failure (or the leak that overrides it)
\* leaves an adapter's goroutine behind to signal or dial for the next stage.
VerdictJoinsAdapter ==
  run = "done" /\ ~FixtureEnded => verdict \in {"cleanup_error", "leak"}

\* The bytes the gate compares are the bytes the launch receipt authenticates,
\* for a complete stage no process escaped from.
ComparedAsHashed ==
  run = "done" /\ verdict = "complete" /\ NobodyLeft => readOut = digest

\* A stage reported unspawned ran nothing, unless capture lost its receipt to
\* an input/output error.
UnspawnedNeverRan ==
  run = "done" /\ verdict = "unspawned" /\ Spawned => pc = "failed"

\* Every stage comes to a verdict, whatever its descendants and its adapter
\* do, unless the program itself puts on credentials the gate may not signal:
\* then capture's <-done is a wait without a bound.
StageEnds == <>(run = "done" \/ Leader \in elevated)

\* docs: "A descendant that escaped into its own session is invisible to
\* kill(0, -pgid) and is still reported as a leak."
EscapeeIsLeak ==
  run = "done" /\ launcher = "published" /\ outlived => verdict = "leak"

\* The comment on run's deadline: a child killed at the deadline is reported
\* as "the timeout it is", not as a cleanup failure, when its adapter ended
\* without an error before capture returned.
TimeoutIsReported ==
  run = "done" /\ Returned /\ state = "deadline" /\ settled
    => verdict \in {"timeout", "leak"}
============================================================================
