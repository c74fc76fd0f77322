------------------------------ MODULE CorpusRow ------------------------------
(***************************************************************************)
(* One root of the Ruby corpus executor: Corpus::Executor#execute, for a   *)
(* generator followed by an execution of what each mode emitted, the       *)
(* lineage ledger they share, and the two readers that judge the evidence  *)
(* afterwards (Corpus::Validation and ProcessLineage.authenticate!).       *)
(*                                                                         *)
(* A launch is what Capture promises: it ends, and says how.  The programs *)
(* run with the executor's own rights: while one runs, or after it left a  *)
(* process behind, any file may become foreign; it stays so.               *)
(***************************************************************************)
EXTENDS Naturals, Sequences

CONSTANTS
  Phases,    \* what a root may be asked for
  Emitters,  \* modes whose output is executed when the root is a generator
  Mishaps    \* bound: things that may go wrong in one root

Modes == {"baseline", "interpreted", "compiled"}
ASSUME RowAssumption ==
  /\ Phases \subseteq {"run", "build", "compile"}
  /\ Emitters \subseteq Modes /\ Mishaps \in Nat

Version == {"none", "own", "foreign"}
Inputs == {"upstream", "tools", "work", "assets"}
Artifacts == {"reference", "generated", "product"}
File == Inputs \cup Artifacts \cup {"streams", "past"}
End == {"zero", "nonzero", "signal", "unclean"}
Exited == {"zero", "nonzero", "signal"}

VARIABLES
  step,      \* where execute is
  case,      \* this execution: its name, phase, first parent, the exit its
             \* program has, whether its runs write one combined stream, and
             \* whether GoFullStageResolver runs its stages
  queue,     \* generated children still to execute
  mode, todo,  \* the mode under way and its commands left, native run aside
  state, trace,  \* per mode: its state and the stages it went through
  ended,     \* how the stage under way ended and what it showed
  disk,      \* every file the evidence depends on, "past" for earlier cases
  seal,      \* the artifacts as the result records them
  reads,     \* the files the stages of this case read, as they were
  launches, parent,  \* launches so far, and lineage_parent
  ledger, torn,      \* the lineage ledger, and whether its last line is cut
  stray,     \* a program left a process outside its group
  verdict, accepted,
  mishaps

judged == <<verdict, accepted>>
lineage == <<launches, parent, ledger, torn>>
progress == <<mode, todo, state, trace>>
rowvars == <<step, case, queue, progress, ended, disk, seal, reads, lineage,
             stray, judged, mishaps>>

Producer == IF case.phase = "compile" THEN "compile" ELSE "build"

\* The commands of a mode; in phase run a native run follows them.
Commands(m) ==
  CASE m = "baseline"    -> <<Producer>>
    [] m = "interpreted" -> <<IF case.phase = "run" THEN "run" ELSE "check">>
    [] m = "compiled"    -> <<"transpile", Producer>>
RunsNatively(m) == case.phase = "run" /\ m # "interpreted"
Wanted(m) == Commands(m) \o (IF RunsNatively(m) THEN <<"run">> ELSE <<>>)
Stage == IF todo = <<>> THEN "run" ELSE Head(todo)

Product(m) == IF m = "baseline" THEN "reference" ELSE "product"
Output(m, s) == CASE s = "transpile" -> {"generated"}
                  [] s \in {"build", "compile"} -> {Product(m)}
                  [] OTHER -> {}
Input(m, s) ==
  CASE s = "run" /\ m # "interpreted" -> {Product(m)}
    [] s \in {"build", "compile"} /\ m = "compiled" -> {"tools", "generated"}
    [] OTHER -> {"tools", "work"}

----------------------------------------------------------------------------
(***************************************************************************)
(* The readers of the evidence.                                            *)
(***************************************************************************)
\* validate_joins!: a parent is an earlier record, and so is the one an
\* artifact came from, which must have recorded that artifact.
Joined ==
  \A i \in DOMAIN ledger :
    /\ ledger[i].parent # 0 => \E j \in 1..(i - 1) : ledger[j].id = ledger[i].parent
    /\ ledger[i].source # 0 =>
         \E j \in 1..(i - 1) : /\ ledger[j].id = ledger[i].source
                               /\ "generated" \in DOMAIN ledger[j].outputs

\* authenticate!: every line parses, the records join, every stream and
\* artifact is still what was hashed.
Authentic ==
  /\ ~torn /\ ledger # <<>> /\ Joined
  /\ disk["streams"] = "own" /\ disk["past"] = "own"
  /\ \A i \in DOMAIN ledger : ledger[i].case = case.name =>
       \A f \in DOMAIN ledger[i].outputs : disk[f] = ledger[i].outputs[f]

StageNames(m) == [i \in DOMAIN trace[m] |-> trace[m][i].stage]

\* The streams a run leaves, and what exact_verdict compares: how it ended and
\* either its combined stream or its two separate ones.
OutputMode == IF case.combined THEN "kernel-combined" ELSE "separate-nonordering"
Observation(m) ==
  LET last == trace[m][Len(trace[m])] IN <<last.end, OutputMode, last.seen>>
Agree == \A m, n \in Modes : Observation(m) = Observation(n)

\* exact_verdict.  (The mutant does not compare the modes.)
VerdictWithoutComparison ==
  IF /\ \A m \in Modes : state[m] = "complete"
     /\ case.phase = "run" =>
          \A m \in Modes : /\ trace[m][Len(trace[m])].stage = "run"
                            /\ Observation(m)[1] \in {"zero", "nonzero"}
  THEN "PASS" ELSE "FAIL"

Verdict ==
  IF /\ \A m \in Modes : state[m] = "complete"
     /\ case.phase = "run" =>
          /\ \A m \in Modes : /\ trace[m][Len(trace[m])].stage = "run"
                              /\ Observation(m)[1] \in {"zero", "nonzero"}
          /\ Agree
  THEN "PASS" ELSE "FAIL"

\* The standard output and the standard error of every stage, which the
\* validator fetches before anything else.
CapturedApart == case.phase = "run" => OutputMode = "separate-nonordering"

\* Validation.validate!, on the row just sealed.  (The mutant hashes the files
\* and leaves the judgement to the executor.)
ValidByDigests ==
  /\ \A f \in {"tools", "upstream", "streams"} : disk[f] = "own"
  /\ \A f \in Artifacts : disk[f] = seal[f]

Valid ==
  /\ verdict = "PASS"
  /\ \A f \in {"tools", "upstream", "streams"} : disk[f] = "own"
  /\ \A m \in Modes :
       /\ state[m] = "complete"
       /\ StageNames(m) = Wanted(m)
       /\ \A i \in DOMAIN trace[m] :
            trace[m][i].end = "zero" \/
            (trace[m][i].stage = "run" /\ trace[m][i].end = "nonzero")
  /\ CapturedApart
  /\ \A f \in Artifacts : seal[f] # "none" /\ disk[f] = seal[f]
  /\ case.phase = "run" => Agree

----------------------------------------------------------------------------
NoEnd == [end |-> "zero", seen |-> "same", id |-> 0]
Fresh == [f \in File |-> IF f \in Artifacts THEN "none" ELSE "own"]

\* Only a run may want its streams combined, and only such a one, an anchor, is
\* handed execution identities and is so run by the resolver.
RowInit ==
  /\ case \in [name : {"case"}, phase : Phases, parent : {0},
               exit : {"zero", "nonzero"}, combined : BOOLEAN, resolved : BOOLEAN]
  /\ case.phase # "run" => case.exit = "zero" /\ ~case.combined
  /\ case.resolved => case.combined
  /\ step = "copying" /\ mode = "baseline" /\ todo = <<>>
  /\ state = [m \in Modes |-> "complete"] /\ trace = [m \in Modes |-> <<>>]
  /\ seal = [f \in Artifacts |-> "none"] /\ reads = {}
  /\ verdict = "none" /\ accepted = FALSE /\ ended = NoEnd
  /\ queue \in SUBSET (IF case.phase = "run" /\ ~case.combined THEN Emitters ELSE {})
  /\ disk = Fresh
  /\ launches = 0 /\ parent = 0 /\ ledger = <<>> /\ torn = FALSE
  /\ stray = FALSE /\ mishaps = 0

\* Something goes wrong, if the condition holds.
Mishap(odd) == /\ mishaps' = IF odd THEN mishaps + 1 ELSE mishaps
               /\ mishaps' <= Mishaps

\* Copies the inputs of a mode and compares the copies with the records.
Copy ==
  /\ step = "copying" /\ disk["upstream"] = "own"
  /\ disk' = [disk EXCEPT !["work"] = "own", !["assets"] = "own"]
  /\ todo' = Commands(mode) /\ parent' = case.parent
  /\ step' = "before"
  /\ UNCHANGED <<case, queue, mode, state, trace, ended, seal, reads, launches,
                 ledger, torn, stray, judged, mishaps>>

\* The check before a command.
Check ==
  /\ step = "before"
  /\ \/ /\ disk["work"] = "own" /\ disk["assets"] = "own"
        /\ step' = "spawned" /\ UNCHANGED state
     \/ /\ disk["work"] # "own" \/ disk["assets"] # "own"
        /\ step' = "leaving" /\ state' = [state EXCEPT ![mode] = "input_mutation"]
  /\ UNCHANGED <<case, queue, mode, todo, trace, ended, disk, seal, reads, lineage,
                 stray, judged, mishaps>>

\* The launched stage reads its inputs, leaves its output and ends.  A tool
\* exits zero, a program as it does; any other end is a mishap, as is a
\* missing output, or one that is not what such a stage makes.
Perform(end, seen, left) ==
  /\ step = "spawned"
  /\ seen = "odd" => Stage = "run"
  /\ left # "own" => Output(mode, Stage) # {} /\ end = "zero"
  /\ Mishap(\/ end # (IF Stage = "run" THEN case.exit ELSE "zero")
            \/ seen = "odd" \/ left # "own")
  /\ launches' = launches + 1
  /\ ended' = [end |-> end, seen |-> seen, id |-> launches + 1]
  /\ reads' = reads \cup {<<f, disk[f]>> : f \in Input(mode, Stage)}
  /\ disk' = [f \in File |-> IF f \in Output(mode, Stage) THEN left ELSE disk[f]]
  /\ step' = "exited"
  /\ UNCHANGED <<case, queue, progress, seal, parent, ledger, torn, stray, judged>>

\* The launch's record: its parent, the artifacts it left, and for the build
\* of generated source the launch that generated it.  (The mutant says that the
\* source came from where the execution itself came from.)
RecordFromFirst ==
  [id |-> ended.id, case |-> case.name, stage |-> <<mode, Stage>>, parent |-> parent,
   outputs |-> LET left == {f \in Output(mode, Stage) : disk[f] # "none"}
               IN [f \in left |-> disk[f]],
   source |-> IF mode = "compiled" /\ Stage \in {"build", "compile"}
              THEN case.parent ELSE 0]

Record ==
  [id |-> ended.id, case |-> case.name, stage |-> <<mode, Stage>>, parent |-> parent,
   outputs |-> LET left == {f \in Output(mode, Stage) : disk[f] # "none"}
               IN [f \in left |-> disk[f]],
   source |-> IF mode = "compiled" /\ Stage \in {"build", "compile"}
              THEN parent ELSE 0]

\* append!, under the ledger's lock.
Append1 ==
  /\ step = "exited"
  /\ ledger' = Append(ledger, Record)
  /\ parent' = ended.id
  /\ step' = "reported"
  /\ UNCHANGED <<case, queue, progress, ended, disk, seal, reads, launches, torn,
                 stray, judged, mishaps>>

\* append! fails: nothing, a part of the line, or all of it reached the disk.
\* (The mutant goes on.)
AppendFailsQuietly ==
  /\ step = "exited" /\ Mishap(TRUE)
  /\ parent' = ended.id /\ step' = "reported"
  /\ UNCHANGED <<case, queue, progress, ended, disk, seal, reads, launches, ledger,
                 torn, stray, judged>>

AppendFails ==
  /\ step = "exited" /\ Mishap(TRUE)
  /\ \/ UNCHANGED <<ledger, torn>>
     \/ torn' = TRUE /\ UNCHANGED ledger
     \/ ledger' = Append(ledger, Record) /\ UNCHANGED torn
  /\ step' = "refused"
  /\ UNCHANGED <<case, queue, progress, ended, disk, seal, reads, launches, parent,
                 stray, judged>>

\* What the mode's state becomes after a command.
Fates ==
  CASE disk["work"] # "own" -> {"input_mutation"}
    [] disk["work"] = "own" /\ ended.end # "zero" ->
         {IF Stage = "run" /\ ended.end \in Exited THEN "complete" ELSE "stage_failure"}
    [] disk["work"] = "own" /\ ended.end = "zero" ->
         IF \A f \in Output(mode, Stage) : disk[f] = "own" THEN {"complete"}
         ELSE IF \E f \in Output(mode, Stage) : disk[f] = "none" THEN {"missing_artifact"}
         ELSE IF Stage = "transpile" THEN {"invalid_source_map"}
         ELSE {"missing_artifact", "complete"}

Traced == trace' = [trace EXCEPT ![mode] =
                      Append(@, [stage |-> Stage, end |-> ended.end,
                                 seen |-> ended.seen, id |-> ended.id])]

\* The rest of a command: the resolver's look at the ledger, the check after
\* it, and its artifact.
Judge ==
  /\ step = "reported" /\ todo # <<>>
  /\ case.resolved => Authentic
  /\ Traced
  /\ \E fate \in Fates :
       /\ state' = [state EXCEPT ![mode] = fate]
       /\ IF fate = "complete" /\ ended.end = "zero"
          THEN /\ seal' = [f \in Artifacts |-> IF f \in Output(mode, Stage)
                                               THEN disk[f] ELSE seal[f]]
               /\ todo' = Tail(todo)
               /\ step' = IF Len(todo) > 1 THEN "before" ELSE "leaving"
          ELSE UNCHANGED <<seal, todo>> /\ step' = "leaving"
  /\ UNCHANGED <<case, queue, mode, ended, disk, reads, lineage, stray, judged,
                 mishaps>>

Integrity == disk["work"] = "own" /\ state[mode] # "input_mutation"
Following == /\ mode' = IF mode = "baseline" THEN "interpreted" ELSE "compiled"
             /\ step' = IF mode = "compiled" THEN "closing" ELSE "copying"

\* After the commands: the last input check, then the next mode.
Leave ==
  /\ step = "leaving"
  /\ ~(RunsNatively(mode) /\ Integrity /\ state[mode] = "complete")
  /\ state' = [state EXCEPT ![mode] = IF Integrity THEN @ ELSE "input_mutation"]
  /\ Following
  /\ UNCHANGED <<case, queue, todo, trace, ended, disk, seal, reads, lineage, stray,
                 judged, mishaps>>

\* Or the native run, from which the sources have been removed.
Detach ==
  /\ step = "leaving"
  /\ RunsNatively(mode) /\ Integrity /\ state[mode] = "complete"
  /\ disk["assets"] = "own"
  /\ disk' = [disk EXCEPT !["work"] = "none"]
  /\ step' = "spawned"
  /\ UNCHANGED <<case, queue, progress, ended, seal, reads, lineage, stray, judged,
                 mishaps>>

\* The end of the native run.  (The mutant takes its end for a state.)
JudgeNativeVerbatim ==
  /\ step = "reported" /\ todo = <<>>
  /\ case.resolved => Authentic
  /\ Traced
  /\ state' = [state EXCEPT ![mode] = IF ended.end = "zero" THEN "complete" ELSE ended.end]
  /\ Following
  /\ UNCHANGED <<case, queue, todo, ended, disk, seal, reads, lineage, stray, judged,
                 mishaps>>

JudgeNative ==
  /\ step = "reported" /\ todo = <<>>
  /\ case.resolved => Authentic
  /\ Traced
  /\ state' = [state EXCEPT ![mode] =
                 IF ended.end \in Exited THEN "complete" ELSE "stage_failure"]
  /\ Following
  /\ UNCHANGED <<case, queue, todo, ended, disk, seal, reads, lineage, stray, judged,
                 mishaps>>

\* A generator's mode has a child if its run succeeded on intact sources.
Emitted(m) == /\ state[m] = "complete" /\ trace[m][Len(trace[m])].stage = "run"
              /\ trace[m][Len(trace[m])].end = "zero"

\* The end of execute: inputs and tools are hashed again, the result written.
Close ==
  /\ step = "closing"
  /\ disk["upstream"] = "own" /\ disk["tools"] = "own"
  /\ verdict' = Verdict
  /\ queue' = {m \in queue : case.name = "case" => Emitted(m)}
  /\ step' = "sealed"
  /\ UNCHANGED <<case, progress, ended, disk, seal, reads, lineage, stray,
                 accepted, mishaps>>

\* A ContractError, of execute's own or of the import configuration: no result.
Refuse ==
  /\ \/ step = "copying" /\ disk["upstream"] # "own"
     \/ step = "reported" /\ case.resolved /\ ~Authentic
     \/ /\ step = "leaving" /\ disk["assets"] # "own"
        /\ RunsNatively(mode) /\ Integrity /\ state[mode] = "complete"
     \/ step = "closing" /\ (disk["upstream"] # "own" \/ disk["tools"] # "own")
     \/ step = "sealed" /\ queue # {} /\ disk["streams"] # "own"
  /\ step' = "refused"
  /\ UNCHANGED <<case, queue, progress, ended, disk, seal, reads, lineage, stray,
                 judged, mishaps>>

Unconfigured ==
  /\ step = "before" /\ Stage = "compile"
  /\ Mishap(TRUE)
  /\ step' = "refused"
  /\ UNCHANGED <<case, queue, progress, ended, disk, seal, reads, lineage, stray,
                 judged>>

\* Somebody else validates the sealed row and authenticates its ledger.
Accept ==
  /\ step = "sealed" /\ ~accepted
  /\ Valid /\ Authentic
  /\ accepted' = TRUE
  /\ UNCHANGED <<step, case, queue, progress, ended, disk, seal, reads, lineage,
                 stray, verdict, mishaps>>

\* execute_generator: the output of a mode's successful run is executed in its
\* turn, in the same ledger, as a descendant of that run.
Emit(m) ==
  LET launch == CHOOSE i \in DOMAIN ledger : ledger[i].stage = <<m, "run">>
  IN
  /\ step = "sealed" /\ m \in queue /\ disk["streams"] = "own"
  /\ \A n \in queue : m = "baseline" \/ n # "baseline"
  /\ \A n \in queue : m = "compiled" => n = "compiled"
  /\ case' = [name |-> m, phase |-> "run", parent |-> ledger[launch].id,
              exit |-> "zero", combined |-> FALSE, resolved |-> FALSE]
  /\ queue' = queue \ {m}
  /\ step' = "copying" /\ mode' = "baseline" /\ todo' = <<>>
  /\ state' = [n \in Modes |-> "complete"] /\ trace' = [n \in Modes |-> <<>>]
  /\ seal' = [f \in Artifacts |-> "none"] /\ reads' = {}
  /\ verdict' = "none" /\ accepted' = FALSE /\ ended' = NoEnd
  /\ disk' = [Fresh EXCEPT !["tools"] = disk["tools"],
                           !["past"] = IF Authentic THEN "own" ELSE "foreign"]
  /\ UNCHANGED <<lineage, stray, mishaps>>

----------------------------------------------------------------------------
(***************************************************************************)
(* The environment.                                                        *)
(***************************************************************************)
\* A program's process leaves its group, unseen by the supervisor.
Escape ==
  /\ step = "spawned" /\ Stage = "run" /\ ~stray
  /\ Mishap(TRUE)
  /\ stray' = TRUE
  /\ UNCHANGED <<step, case, queue, progress, ended, disk, seal, reads, lineage,
                 judged>>

\* A program or a process it left alters a file.
Alter(f) ==
  /\ stray \/ (step = "spawned" /\ Stage = "run")
  /\ disk[f] # "foreign" /\ Mishap(TRUE)
  /\ disk' = [disk EXCEPT ![f] = "foreign"]
  /\ UNCHANGED <<step, case, queue, progress, ended, seal, reads, lineage, stray,
                 judged>>

\* The executor is killed.  A crash inside append! may cut the line.
Crash ==
  /\ step \notin {"refused", "crashed"} /\ Mishap(TRUE)
  /\ step' = "crashed"
  /\ torn' \in {torn, step = "exited"}
  /\ UNCHANGED <<case, queue, progress, ended, disk, seal, reads, launches, parent,
                 ledger, stray, judged>>

RowDone == /\ \/ step \in {"refused", "crashed"}
              \/ step = "sealed" /\ queue = {}
           /\ UNCHANGED rowvars

RowNext ==
  \/ Copy \/ Check \/ Append1 \/ AppendFails \/ Judge \/ Leave \/ Detach
  \/ JudgeNative \/ Close \/ Refuse \/ Unconfigured \/ Accept
  \/ \E end \in End, seen \in {"same", "odd"}, left \in Version : Perform(end, seen, left)
  \/ \E m \in Modes : Emit(m)
  \/ Escape \/ (\E f \in File : Alter(f)) \/ Crash \/ RowDone

RowSpec == RowInit /\ [][RowNext]_rowvars

----------------------------------------------------------------------------
RowTypeOK ==
  /\ step \in {"copying", "before", "spawned", "exited", "reported", "leaving",
               "closing", "sealed", "refused", "crashed"}
  /\ mode \in Modes /\ queue \subseteq Modes
  /\ disk \in [File -> Version] /\ seal \in [Artifacts -> Version]
  /\ state \in [Modes -> {"complete", "input_mutation", "stage_failure",
                          "missing_artifact", "invalid_source_map"}]
  /\ verdict \in {"none", "PASS", "FAIL"} /\ accepted \in BOOLEAN
  /\ launches \in Nat /\ torn \in BOOLEAN /\ stray \in BOOLEAN
  /\ mishaps \in 0..Mishaps

\* Whatever was altered and whenever: a row that is accepted was executed from
\* exactly the inputs and artifacts its result records.
AcceptedIsPinned ==
  accepted => \A r \in reads :
                r[2] = IF r[1] \in Artifacts THEN seal[r[1]] ELSE "own"

\* The executor's verdict against the two readers of its evidence, as long as
\* nothing is altered: a row that passed has an authentic ledger, and it is
\* accepted unless its runs wrote one combined stream.  Those rows exact_verdict
\* passes and validate! refuses, for want of a standard output and error.
PassIsAccepted ==
  /\ step = "sealed" /\ verdict = "PASS"
  /\ \A f \in File : disk[f] # "foreign"
  => Authentic /\ (Valid <=> CapturedApart)

\* A sealed row's ledger holds every launch once and in order: a program that
\* ran unrecorded, because of a crash or a failed append, has no result.
SealedIsRecorded ==
  step = "sealed" => /\ ~torn /\ Len(ledger) = launches
                     /\ \A i \in DOMAIN ledger : ledger[i].id = i

\* Every ledger joins, at every moment and however the row goes on.
LedgerJoined == Joined
=============================================================================
