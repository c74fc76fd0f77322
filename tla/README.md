# Verification of the bashsharp test gates

The repository is the evidence machinery of a shell implementation: it runs
thousands of programs under supervision, compares what they did with an
oracle, and records the result in ledgers whose receipts are authenticated
later by someone who was not there.  The machinery is right when its records
tell the truth whatever the supervised programs do, and when nothing a program
does makes a gate hang or forget.  This directory models that machinery in
TLA+, model-checks it with TLC and proves its main properties with TLAPS.

## Inventory

| Component | Source | State | Operations |
|---|---|---|---|
| Launch supervisor | `tools/corpus/process_lineage.rb`, `tools/go-by-example/gbe/corpus.go`, `tools/tour/capture.go` | receipt locals, deadline, process group, stream files, `launch-lineage.jsonl` | spawn, poll, deadline kill, sweep, grace, hash, append |
| Gate stage | `gbe/gate.go` `gateContext.run`, `go-by-example/launch.go` | verdict, adapter goroutine, stop flag, liveness FIFO | start adapter, capture, join, map receipt, sentinel |
| Gate row pipeline | `gbe/gate.go` `gateMain`, `gbe/inputs.go`, `validate*.go` | run journal, work trees, bindings, result rows | stage, build, bind, configure, three runs, compare, publish, validate |
| Tour executor | `tools/tour` | as the gate's | as the gate's, with its own validators |
| Ruby corpus executor | `tools/corpus/executor.rb`, `generator.rb`, `validate.rb`, `process_lineage.rb` | work trees, artifacts, lineage ledger, result | copy, build, run per mode, record, seal, emit children, validate, authenticate |
| Go-full product replay | `tools/go-full/product.rb`, `resume.rb`, `attempt_ledger.py` | evidence directory: context, rows, seals, summary | start, resume, retain, attempt, seal, append, finish |
| Go oracle | `tools/go-oracle` | steps of each row, tally | spawn, wait, time out, assert artifact, judge, summarise |
| Upstream harness | `tools/upstream-harness` | `leaf.lock`, run directories, the candidate's checkout, binary and receipt | queue, clone, identify, pin, measure, rebuild |
| Grammar oracle, other corpora | `tools/...` | none that outlives a row | sequential |

How they interact.  Every executor starts programs only through its launch
supervisor; the supervisor's receipt is the only thing the layers above know of
a process tree.  The gate stage adds goroutines that talk to the program while
the supervisor waits for it, sharing a stop flag, and a FIFO whose write end the
program inherits.  A row is a sequence of stages that hand files to each other:
its runner hashes what goes into a stage and what comes out, and a validator,
run later by someone else, derives the verdict again from those records.  On a
leaf host several runs and rebuilds share one candidate, and only a lock that
their descendants inherit keeps them apart.  Validators read receipts and rows back and recompute what
they can.  The hard behaviours are therefore the races of a supervisor with
processes it cannot stop instantly (forking, leaving the group, changing
credentials, dying late), three clocks that overlap, and files that must be
still when they are hashed.

What makes each component correct: a receipt never claims more than the process
tree warrants, and its authenticator refuses it only if its streams changed since; a launch ends; a
complete stage is over in every respect; the bytes compared are the bytes
recorded; a replay row says what was run from the pinned sources, once; an
accepted pass was obtained from the recorded inputs and artifacts in every mode;
the writer of a record and its reader agree about it; a verdict names the
candidate that was measured.

`PROJECT.json` lists the components with their status, and under `hazards` every
place in the code where one of these can go wrong, with the property that would
notice or the reason there is none yet.

## Modules

| Module | Models | Extends |
|---|---|---|
| `LaunchContract` | abstract: what a caller may rely on | |
| `Capture` | one supervised launch against the kernel | |
| `MCCapture` | TLC instance of it (symmetry) | `Capture` |
| `StageRun` | one gate stage around a launch | `Capture` |
| `Capture_proofs`, `StageRun_proofs` | the proofs | `Capture`, `StageRun` |
| `CorpusRow` | one root of the Ruby corpus executor, its ledger, its readers | |
| `GbeRow` | one row of the Go by Example gate and its validator | |
| `OracleRun` | a run of the Go oracle | |
| `MCRows` | TLC instance of these three, one of which moves | all three |
| `CorpusRow_proofs` | its proofs | `CorpusRow` |
| `GbeRow_proofs` | its proofs | `GbeRow` |
| `OracleRun_proofs` | its proofs | `OracleRun` |
| `Rows_proofs` | the same results of their composition | `MCRows` |
| `SerialHost` | abstract: a host that does one job at a time | |
| `LeafHost` | the jobs of one leaf host around its lock | |
| `MCLeafHost` | TLC instance of it (two ways of naming the runs) | `LeafHost` |
| `LeafHost_proofs` | its proofs | `LeafHost` |
| `FreshRun` | abstract: a replay without continuations | |
| `ProductReplay` | a chain of go-full replay runs | |
| `ProductReplay_proofs` | its proofs | `ProductReplay` |

### Capture

The supervisor's program counter follows `run` (Ruby) and `capture` (Go):
`poll`/`check` are the two halves of the polling loop (look for the leader,
look at the clock), `wait` the unbounded wait after a deadline kill,
`observe`/`sweep`/`ensure`/`ensureKill` the look at the group and the two sweeps
-- each look and the signal that follows are separate steps, since processes
move in between -- `grace`/`graceClock` the bounded wait for the group to empty,
`hash` and `append` the report.  `failed` is an error return: no receipt.
`state`, `status`, `observed`, `survived`, `kills`, `reaps` and `digest` are the
locals the receipt is made of; kills and reaps are kept as sets of events, since
no property depends on their order.  The artifacts a caller declares beside the two
streams are hashed in the same place and stand with them.

`ValidPayload` is `validate_payload!` as a later reader runs it, its last part
included: the recorded streams are hashed again and must be what they were.  So
`ReceiptAuthentic` does not say that every receipt is accepted.  It says that a
refused one was right when it was written: only its streams have changed since, and
that takes a survivor the receipt confesses or a process that had left the group.

The kernel is the environment.  A process of the group is `running`, `doomed`
(KILLed, not yet torn down: it may finish the write it is in), `zombie` (still
visible to `kill(-pgid, 0)`) or `gone`; outside it `escaped` or `departed`.
Any live process may fork, write, change credentials (`elevated`: the
supervisor's signals are refused) or, unless it leads the group, leave.  An
elevated process is always refused; mixed groups are signalled in part, as
kill(2) does.  The two ports differ in who collects the leader and `AsyncReap`
selects one: Ruby collects a zombie itself, Go's goroutine does so on its own
schedule and the supervisor reads the result later.

Left out: the leader moving itself into another group, reuse of process and
group numbers, and an append that reached the disk although its sync failed.
Time is two flags that may turn true whenever the clock they stand for is
looked at; the wall clock of the receipts' timestamps is assumed not to step back.

### LaunchContract

`idle -> live -> closed | abandoned`, a process tree that evolves by itself, and a
claim made once, which must be `Warranted` by the tree at that moment: `exited`
and an unconfessed tree mean an empty tree.  `Capture!Implements` is the
refinement: the tree is `InGroup`, the claim is what the receipt says.

### StageRun

`gateContext.run` around `Capture`'s own actions (`Capturing` is the supervisor's
step).  `run` is its program counter, `fixture` that of the adapter's goroutine,
`stop` the flag between them.  A stage has at most one adapter because a row of
`classification.tsv` names at most one.  `launcher` says how far
`launch.go` is (open the FIFO, publish the pid, exec); it is `none` in a build
stage, which has no FIFO and no adapter.  `dropped` are the processes that
closed the inherited descriptor.  `outlived` and `settled` are history variables
for the two findings.  The error value of `sentinelHeld` is left out.  In the run
`stage_run` the descendant may become unsignallable.  The leader may not: with it
`<-done` (`corpus.go:709`) has no bound, which is finding 1, and `StageEnds` names it
as the exception.

### ProductReplay

`GoFullProduct.execute` and `GoFullResume`, following one chain of continuations:
evidence directories are never rewritten, so a tree of runs is a set of chains,
and runs of other chains cannot disturb this one.  `dir` is the newest directory
(`context.json`, `roots.jsonl` as a sequence of rows, whether its last line is
torn, `summary.json`), `records` its `root-records`.  `pc` follows `execute`:
`loading` (sources validated, checkpoint not read yet), `matching` (directory
made, no journal), `picking`, `attempting`, `observed`, `sealed` for one root, and
`finished` or `stopped`.  A row says which sources it executed (`seen`) and which
it was sealed with (`sealed`), since the code reads them at different times.
`Kind` divides the roots by what `execute` does with them and by whether `load`
can take their rows back: skips, simple recipes, adapters (generator,
diagnostic, typechecker, anchor: never), and unfinished recipes that are only
probed.  `Trusted` and `Eligible` are the two questions `load` asks of a row:
may the checkpoint be used at all, and may this row be reused.

`FreshRun` is what the reader of a certified directory is promised: one run executed
all it selected, in one context, on the pinned sources.  `ProductReplay` implements
it (`AsOneRun`): the directory is certified while its summary is `intact`, `Finish` on
pinned sources is `Certify`, `Load` of the next run `Supersede`, and all else is a
stutter.  `FreshRow` are the rows an uninterrupted run can write of a root.

`sort_by` is not stable, so roots that compare equal come in any order unless
`StableSort`, which the two liveness runs set: their conclusions concern the
stable case.  Abstracted: file tampering (a changed stream or record is refused
by digest), packet runs, which cannot be resumed, and verdicts, which `load`
recomputes and which nothing here depends on.  The two anchor roots, which are
executed with combined output, are left out too: their rows are not resumable
in the way of any `Kind` (finding 9).

### The row machines

`CorpusRow`, `GbeRow` and `OracleRun` are one layer above the launch: a launch in
them is one step that ends, which is what `LaunchContract` grants.  What they add
is the files.  A file's contents are `own` (what this run pinned or made), `foreign` (anything
else) or `none`; a stage reads its inputs as they are when it runs and the
history variables `reads` and `given` remember what that was, so that a property
can compare what was run with what was recorded.  An alteration is permanent: one
made and undone inside a window between two checks leaves no trace the code could
find, and `AcceptedIsPinned` and `PassIsOneProgram` do not speak of it.

`CorpusRow` is `Executor#execute` for the phases `run`, `build` and `compile`: for
each mode `copying`, the input check `before` a command, the launch `spawned`, its
end `exited`, the ledger line `reported`, and `leaving` for the last check or the
native run from which the sources are removed; then `closing` and `sealed`.  A
generator (`queue`) is executed once and then each program it emitted as a
child, in the same ledger; a root whose stages go through `GoFullStageResolver`
(`resolved`) authenticates the ledger after each launch, and is never a
generator.  `Append1` and `AppendFails` are `append!`, which may leave nothing, a
cut line or all of it.  `Valid` is `Validation.validate!`, `Authentic` is
`ProcessLineage.authenticate!` with `Joined` for `validate_joins!`.  The programs
run with the executor's rights: `Alter` makes any file foreign while a program runs
or after one escaped.  A run may have its output captured in one stream
(`combined`), which `exact_verdict` compares like two, and of which `validate!` finds no
standard output or error (`CapturedApart`): `PassIsAccepted` has this exception, and it
is finding 9.  Abstracted: package inputs are not told apart from the others, the
import configuration is a call that may fail (`Unconfigured`), and the
`upstream_output` comparison is left out.

`GbeRow` is `gateMain`'s loop body: the oracle's build, `transpile` and `build`, the
roots, and for each mode `configureRuntime` and the run; then verdicts,
publication and `validate-evidence`.  A stage ends in any way `gateContext.run` can
(`StageEnd`): complete or not, spawned or not, and with or without a record of a
capture; a capture that failed may have run its program all the same (`MayRun`).
What has no exit compares as `nothing`.  `Anchor` commits the reviewed root of a
published row, without which `validate-evidence` refuses it.  It also refuses a row
whose oracle build was never captured, which the gate publishes: `PublishedIsAuthentic`
has this exception, and it is finding 10.  `bound` is the table of `InputBinding`s
(absent while a tree is `Unbound`), `Trees` says which trees each mode is handed,
`Enforced` is `enforceRun` around a run and `noted` the hashes the evidence keeps.
A tree is copied and bound in one step.  The set-up before the loop, the journal and
the tamper self-test are left out.

`OracleRun` is `main`'s loop with `runOne`, `perform` and `runcmd`: each action is a
list of commands, of which some must leave an artifact and some must match; a
command may fail to start, exit, be killed by the timer, or leave somebody
holding its pipe, in which case `Wait` does not return (`held`).  `perform` may also
fail before a command, over the packages of a directory or the generated program
(`Unprepared`), and such a row has fewer steps or none.  A known failure
(`expectFail`) is judged the other way round: it passes over any error, and over a
complete list of good commands only if their output is compared.  A command that
did not start is recorded (finding 8); it printed nothing, and this satisfies
a row that wants an error and annotates none (`annotated`), which `PassIsEarned` says.
Parsing recipes, the inventories
and the files written at the end are left out.

The three share no state.  `MCRows` checks them in one run: `part` says which one
moves, so the state space is the sum of theirs and not the product.

### LeafHost

The shell scripts of one host: `leaf-run.sh` (`Enter` to `Finish`), with
`candidate-identity.sh` (`Identify`) and `corpus-gate.sh` (`GateOpens`, `Lane`), and
`rebuild-candidate.sh` (`Checkout`, `Compile`, `WriteReceipt`).  A step is a command
of a script.  The commit number stands for the whole set of sibling checkouts, and a
binary's digest is the commit it was built over.  `order.locked` are the jobs
that obey the rule to take `leaf.lock`: `--unlocked` and a bare rebuild do not.
The lock is `flock`'s, held by a descriptor that descendants inherit: `survivors`
are jobs that ended with a descendant still holding it.  Left out: the pin of the
toolchain version, runs of the published base, `barrier-run.sh`, the clone's own
references and the native lane.

### SerialHost

What the rule ONE COORDINATOR PER HOST is for: a host on which `Rebuild` and
`Measure` are one step each, without lock, directory or process.  `LeafHost`
implements it where everybody takes the lock (`Serialized`): a run is measured at
the moment it is `done`, its outcome being what its status names, what its lanes
ran and whose roots they were; the candidate is usable when checkout, binary and
receipt agree, and a rebuild that is under way or was cut short makes it unusable.
Where somebody does not take the lock nothing is claimed: the mapping publishes
nothing there, and `VerdictNamesSource` is restricted in the same way.

## Not modelled

- The grammar oracle (`tools/grammar-oracle`): its two parsers and their lexer
  tables are generated and make up some 53,000 of the 89,000 implementation lines;
  there is no protocol in them, and a translation would restate their tables.  For
  this reason the modelled share of all lines stays small however much of the
  gates is modelled.
- `gbe/tamper.go`, `tools/upstream-harness/partition-emit.go` and
  `backend-verify.go`: sequential programs that write or compare trees and keep no
  state over which steps could interleave.
- The gate's journal and `summarize`, the Windows job tree, `barrier-run.sh`,
  `attempt_ledger.py`'s report, the Tour's validators, the import configuration
  cache: state machines, but smaller ones; they are in the plan.
- Fixtures, recorded evidence, documents, straight-line shell scripts.

## Runs

| Run | What it shows | Bounds |
|---|---|---|
| `capture_ruby` | safety, refinement, the pinned deadline kill | leader and two descendants, any of which may elevate, two writes |
| `capture_go` | with the goroutine: a refused receipt was right when written; every launch ends; the group dies out | leader and two descendants, one may elevate, one write |
| `capture_eperm` | finding: no receipt after a refused deadline kill | leader and one descendant, the leader may elevate |
| `stage_run` | verdicts of a stage with each adapter; every stage ends whose leader stays signallable | leader and one descendant, which may elevate, one write |
| `stage_escape` | finding: an escapee that lets go is not a leak | leader and one descendant, no adapter |
| `stage_timeout` | finding: a timeout reported as a cleanup error | leader and one descendant, the loopback origin |
| `replay_safety` | chains of runs with every mishap; they implement `FreshRun` | a root of each kind, two contexts, a full and a partial selection |
| `replay_progress` | capped runs add up where every recipe can be resumed | five roots, one attempt per run |
| `replay_starves` | finding: with an adapter they need not | four roots, one of them an adapter, one attempt per run |
| `replay_probe` | finding: a failed probe spoils the checkpoint | two roots |
| `rows` | writers and readers of three row machines agree but for combined output and uncaptured oracle builds; accepted passes are pinned and earned | two mishaps in each machine; a root of each phase, the compiled mode emitting; one gate row; two oracle rows of four actions |
| `leaf_host` | one coordinator per host, verdicts name what was measured, every job ends, and a host where all queue implements `SerialHost` | two runs, one of them `--nowait`, with one name or two; one rebuild; one kill |

Two descendants are enough for a parent to outlive the leader and fork while it
is swept, and for a group that is partly signallable; two writes for one before
and one after the hash.  The proofs remove these bounds.  Each property has a
mutant in `PROJECT.json`: the plausible bug it would catch, defined in the module
beside the code it changes.

Two mishaps in a row are what an alteration needs to be made and covered up, or to
hit a launch and its record; a fault-free row is an instance of the same run.  Each
stage of `GbeRow` that ends unspawned counts as a mishap of its own, so a spent row
deadline, which fails all the stages behind it at once, is seen here over two of them
and in the proofs over any number.  The
four actions of the oracle are one of each shape: a command list that is
inspected for diagnostics, a single artifact, a chain that is linked and run, and
one whose program is itself generated.  Two runs with the same name and a
rebuild are the smallest host on which a directory and a candidate can be lost,
and a kill lets a survivor keep the lock.

In `ProductReplay` four roots are one of each kind, and two runs are enough to make
a row and to inherit it, three to forget one; chains are not bounded.

Deadlock is checked in every run: the actions that let a machine stand still are
those that say it is over (`Done`, `StageDone`, `RowDone`, `GbeDone`, `OracleDone`).
`HostDone` also lets waiting jobs wait, since a survivor that never lets go
keeps the lock; that they end when survivors do is `JobsEnd`.

### Fairness

`WF(Supervisor)`: the supervisor is a thread that is scheduled.  The two clocks
advance.  The waiting goroutine collects a dead leader.  The kernel tears down
what it KILLed (`Teardown`) and init reaps orphans.  The program owes nothing: it
may run, fork or write for ever.  In `StageRun` the adapters' goroutines get no
fairness at all, since the code bounds its waits for them, which is what
`StageEnds` shows; the stage's own steps are one weakly fair action because
`run` is a single goroutine.

In `LeafHost` each script goes on (`WF(Job(j))`; for a queued job it says that the
kernel wakes a waiter of `flock`, which `Acquire` is enabled for continuously once
jobs have ended) and what a job left behind ends some day (`WF(LetGo(j))`).  The
latter is not the code's promise but its assumption: `leaf-run.sh` reports
survivors and leaves them.

In `ProductReplay` the run and the manager who starts the next one are weakly fair
(`WF(Replay)`); `Stop` is not, but may come as soon as a run has made `Quota`
attempts, which is what a wall-clock cap amounts to.  No mishap happens in those
two runs: a recipe that fails every time is attempted every time.

`capture_go` lets a descendant but not the leader become unsignallable: with the
leader, the run is `capture_eperm`.

## Findings

1. `capture_eperm`: a deadline KILL refused with EPERM is followed by a blocking
   wait for the leader (`process_lineage.rb:134`, `corpus.go:709`); the comment at
   `process_lineage.rb:74-76` promises a receipt that fails closed.
2. `stage_escape`: `sentinelHeld` gives an escaped descendant until the end of the
   cleanup budget to let go of the FIFO; `docs/go-by-example/README.md:310-314`
   says such a descendant is still reported as a leak.
3. `stage_timeout`: `origin.close` does not consult `o.done` once the stage deadline
   has passed, so a timeout becomes a `cleanup_error`; `gate.go:592-595` says the
   deadline is read early so that this does not happen.
4. `replay_starves`: what must run fresh is remembered from one directory only, so
   capped continuations can alternate between replaying an adapter and redoing the
   root behind it, and never reach the rest (`product.rb:478`);
   `AUTHENTICATION-RESUME.md:68-70` promises progress.
5. `replay_probe`: a probe that could not be run is refused by `resume.rb:234`
   together with the whole checkpoint; `AUTHENTICATION-RESUME.md:66-68` says that
   incomplete attempts are executed afresh.

The remaining ones were met while modelling and have no run of their own:

6. `barrier-run.sh:57` names the checkout's HEAD beside the binary's digest without
   the identity check of `leaf-run.sh`; `candidate-identity.sh:2-3` says a moved
   checkout must never be reported as a verdict on the new source.
7. `actions.go:363`: an errorcheck row that asks for no error (`-0`) passes when the
   compiler exits 0 and writes nothing; `doc.go:57-60` says that fails.
8. `actions.go:196` records a step for a process that did not start, so that
   `main.go:145` counts the row as executed; `doc.go:9-10` says it never does.
   The model is faithful to the code here: `steps` holds an `unstarted` command.
9. `executor.rb:866-870` passes a row with combined output, which `validate.rb:51-53`
   refuses.  The one simple recipe executed so (`product.rb:286-293`) cannot be
   resumed either: its record's id is refused at `resume.rb:93`, and the whole
   checkpoint with it, where `AUTHENTICATION-RESUME.md:50-56` has such observations
   retained.
10. `gate.go:597-618, 687-699` publishes the record of an oracle build that was never
   captured, and `validate_evidence.go:658-663` never accepts it;
   `docs/go-by-example/README.md:344-345` says that an anchored failing record is
   independently re-verifiable.

## Proofs

All theorems hold for every finite or infinite set of processes, every write
bound and both ports; the assumptions are the named `ASSUME`s of the modules
(the leader is not a descendant, the switches are Booleans, the bound is a
natural number, the adapters are the code's).

`Capture_proofs` proves one inductive invariant, `IInv`, beside `TypeOK`.  None of
the safety invariants is inductive: that only a later write makes a receipt refused
depends on which event the supervisor recorded on the way to each location, and on
nobody being left who could write unless it was confessed or had escaped; that the group is
empty under an `exited` receipt depends on an empty group staying empty, since
only a member can fork one; that a sweep leaves nobody running depends on every
member of a group having been signalled in the same atomic step, its later
children being born of doomed parents, which cannot fork.  `IInv` is the
conjunction of these per-location facts.  From it follow `ReceiptAuthentic`,
`ExitedIsAlone`, `SurvivorsConfessed`, `SweptBeforeReport`, `StreamsFrozen`, the
action property `DeadlineKillPinned` (under `~AsyncReap`: it is false of the Go
port, whose goroutine may collect the leader first), and the refinement
`Implements`, whose step proof goes action by action to a step of the contract
or a stutter.

`StageRun_proofs` first shows that a stage's behaviour is a behaviour of `Capture`
(`StageRunsCapture`), so every theorem of a launch holds inside a stage, and then
proves `SInv`: where the stage is determines where the launch can be
(`Bracketed`), a verdict other than a cleanup failure has joined its adapter
(`Joins`), a mapped verdict is the receipt's (`MappedFrom`), a complete one has
been released by the FIFO (`Released`), and the bytes read back after a quiet
receipt are those hashed (`ReadBack`).

`ClaimNeverExpires` carries a fact about the contract back over the refinement: a
claim once warranted stays so (`ContractClaims`), and hence what a receipt says of
its group is true for as long as the launch is closed, which is why it can be read
later.

`ProductReplay_proofs` proves the safety properties of a replay from one
invariant over a whole chain.  None is inductive alone: that a certified summary
covers only pinned rows needs every row in hand, including those just loaded, to
be pinned as long as the sources are (`Pinned`), which needs a skipped row to have
executed nothing (`SkipsUnseen`); that a root has one row needs the root under way
to be in neither the journal nor the checkpoint (`Walk`); that nothing is lost
needs a resumed root, once recorded, to be recorded by its resumed row (`Kept`).
`RowsGrow` is the lemma about the journal they rest on.  `ReplayIsFresh` then shows the
refinement: with `Made`, by which a row in hand has an outcome its kind of root can
have on untouched sources (`OutcomeIntact`: changed ones add none), a finished run
on the pinned sources certifies exactly one such row for each selected root, all
of one context (`FinishCertifies`).  It assumes that changed
sources are put right only between runs (`Restore`).

`LeafHost_proofs` proves its three safety properties for any sets of jobs, names
and ways of naming, from `HostAssumption`.  Their invariant, `HostInv`, is built in
three layers.  `Exclusion`: a job that takes the lock and is at work is the one
holding it, and a survivor holds it although its job has ended, so at most one
of either exists; `OneCoordinator` follows.  `Directories`, on top: the roots and
the clone in a directory belong to a run that entered it, and a run past `Enter`
found it missing while it held the lock.  `Sources`, where everybody takes
the lock: from `Identify` on the checkout, the binary and the receipt are one
commit, and stay so until the run has ended, since only a rebuild moves
them and none can be at work.

`HostIsSerial` shows the refinement step by step on top of these three.  It needs
one more layer, `Serving`: past its identity check a run finds the receipt true until
it ends, also when somebody else is killed in the meantime, and past the gate's
opening it runs its own roots.  The step that matters is `Finish` (`DoneByFinish`),
which is `Measure`; that what was published stays as it was is `EndedKeeps`; any
other step rebuilds or stutters.

`CorpusRow_proofs` needs two invariants.  `RowInv` is about the ledger: records are
numbered in their order (`InOrder`), so a parent is an index (`Joins`); that the build
of generated source names a launch which recorded that source needs the walk of the
compiled mode from its transpilation to its build (`Generated`); that a child's first
parent exists needs every trace to be in the ledger up to the children (`Runs`).
`Pins` is about files: as long as no mode was found out (`Broken`), a file that was
read in another version than the recorded one shows it on disk (`Reads`), and an
artifact differs from its record only if it is foreign or still to be judged
(`Seals`).  What makes it inductive is that a foreign file stays so, that nothing
that was read is made a second time in the row (`NotMadeAgain`, from `Walk`), and
that a mode once found out stays out (`BrokenStays`).  `Valid` then closes the gap:
it compares the disk with the record after everything was read.

That the validator accepts what the executor passed and had captured apart, and
nothing else of it (`PassIsAcceptedHolds`), rests on
`Passing`, which follows a mode from its first command to its verdict.  The two
sides look at different fields: the executor at the ends of its launches, the
validator at the stages, digests and joins of the sealed row.  `Stages` says that the
stages recorded are the commands done, so that the two lists of a finished mode
coincide; `Ends` that each of them ended as the validator wants and left what it
should; `Hashed` that an artifact on disk is the one its record hashed unless it
was altered, which holds because no step makes it a second time in the row.  Only
a row with every one of these, and a ledger that joins, is `Valid`.

`GbeRow_proofs` follows what was read in the same manner: a read of another version
than the pinned, the hashed or the bound one (`Pin`) leaves the file foreign
(`Kept`), and each check that could have noticed, once passed, fixes what was read
before it (`Fixings`): the enforcement after a stage for the trees it owns, the last
looks at the corpus and the candidate, and validate-evidence for the artifacts.  It
needs that no file is made again once read (`Made`), that files are what the next
stage expects (`Staged`, `Stock`), and that a mode with a spawned result had a
binary, whose building stage was therefore intact (`Turns`).

Three more invariants stand on this one.  `Charged`, for `ScopedCharge`: a mutation
recorded of a mode is evidence of a tree among those handed to it which is not
as it was bound (`Hurt`), and such a tree never recovers (`HurtStays`).  `Clean`, for
`CleanRowPasses`: without a fault no file is foreign, every stage was good, and each
mode that has run agrees with the first; the work is in showing that the trees the
gate itself writes into grow only where additions are allowed.  `Recording` and
`Telling`, for `PublishedIsAuthentic`: which states are recorded of a stage or a mode
when the row has come to a given place, so that the verdicts the validator derives
from the record are those the gate gave, wherever the row stopped and however its
stages ended; what is left to the validator alone is whether the oracle build has
a capture and whether the root is anchored.

`OracleRun_proofs` divides the rows: those behind the current one are settled, those
ahead untouched, and of the current one the steps recorded and the commands pending
are together the list of its action (`RecipeWalk`).  A row without an error has nothing
pending, so its steps are the whole list, each of them good; a known failure passes
over an error, which is a command that is missing or not good, or a comparison.

`Rows_proofs` shows that a behaviour of the composition is one of each machine
(`RowsCompose`: one moves, the others stutter), and with it that `RowsTypeOK` and the
nine safety properties hold of exactly the specification that the run `rows` checks.

Only model-checked: the liveness properties (`ReceiptEventually`, `GroupDiesOut`,
`StageEnds`, `ContinuationsFinish`, `JobsEnd`), which need fairness and ENABLED.

## Plan

Done in this order: the launch supervisor, its contract, the gate stage, the
product replay, the row machines (the lineage ledger and its joins are part of
`CorpusRow`, the gate's row is `GbeRow`, its command runner `OracleRun`), the leaf
host.  Next:

1. Concurrent appenders to one ledger: `CorpusRow`'s executor is sequential, the
   lock of `append!` matters only when two executors share a file.
2. `attempt_ledger.py`'s report on a stopped directory and the packet runs, beside
   `ProductReplay`.
3. The import configuration cache with two preparers, and `barrier-run.sh` with
   `LeafHost`.
4. The gate's `O_EXCL` journal and retained work over several gate runs.
5. The Windows job tree, as a second environment of `Capture`.
