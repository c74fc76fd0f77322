-------------------------- MODULE CorpusRow_proofs --------------------------
(***************************************************************************)
(* Proofs about CorpusRow, for any phases, emitting modes and number of    *)
(* mishaps.                                                                *)
(*                                                                         *)
(* The ledger numbers its records in their order (InOrder), so that a      *)
(* parent is an index of it (Joins).  Generated follows the launch that    *)
(* transpiled up to the one that builds what it left, and Runs an emitting *)
(* mode up to the children that name its run.                              *)
(*                                                                         *)
(* Pins follows what was read: as long as no mode is found out (Broken),   *)
(* a read that was not of the recorded version leaves its trace on disk.   *)
(*                                                                         *)
(* Passing follows a mode to its verdict: the stages it went through are   *)
(* the commands it has done (Stages), each ended as the validator wants    *)
(* and left its artifacts sealed (Ends), and what a record hashed is on    *)
(* disk unless something altered it (Hashed): nothing makes it again.      *)
(***************************************************************************)
EXTENDS CorpusRow, TLAPS

StageName == {"run", "build", "compile", "check", "transpile"}
Entry == [stage : StageName, end : End, seen : {"same", "odd"}, id : Nat]
Outputs == UNION {[left -> Version] : left \in SUBSET Artifacts}
Line == [id : Nat, case : Modes \cup {"case"}, stage : Modes \X StageName,
         parent : Nat, outputs : Outputs, source : Nat]

RowDataOK ==
  /\ case \in [name : Modes \cup {"case"}, phase : {"run", "build", "compile"},
               parent : Nat, exit : {"zero", "nonzero"}, combined : BOOLEAN,
               resolved : BOOLEAN]
  /\ todo \in Seq(StageName) /\ trace \in [Modes -> Seq(Entry)]
  /\ ended \in [end : End, seen : {"same", "odd"}, id : Nat]
  /\ parent \in Nat /\ ledger \in Seq(Line)

InOrder ==
  /\ \A i \in 1..Len(ledger) : ledger[i].id = i
  /\ step \notin {"exited", "refused", "crashed"} => ~torn /\ Len(ledger) = launches
  /\ step = "exited" => /\ ~torn /\ Len(ledger) + 1 = launches
                        /\ ended.id = launches

LeftGenerated(p) == p \in 1..Len(ledger) /\ "generated" \in DOMAIN ledger[p].outputs

LineJoins(i) ==
  /\ ledger[i].parent \in 0..(i - 1)
  /\ ledger[i].source # 0 =>
       ledger[i].source \in 1..(i - 1) /\ LeftGenerated(ledger[i].source)

Joins ==
  /\ parent \in 0..Len(ledger) /\ case.parent \in 0..Len(ledger)
  /\ \A i \in 1..Len(ledger) : LineJoins(i)

Generated ==
  mode = "compiled" /\ step \in {"before", "spawned", "exited", "reported", "leaving"} =>
    /\ todo \in {<<"transpile", Producer>>, <<Producer>>, <<>>}
    /\ todo = <<Producer>> /\ step \in {"before", "spawned", "exited"} =>
         LeftGenerated(parent)
    /\ /\ step = "reported" /\ todo = <<"transpile", Producer>>
       /\ disk["generated"] = "own"
       => LeftGenerated(parent)
    /\ step = "leaving" /\ todo # <<>> => state["compiled"] # "complete"

Recorded(m, stage) == \E j \in 1..Len(ledger) : ledger[j].stage = <<m, stage>>
Behind(m) == \/ step \in {"closing", "sealed"}
             \/ mode = "interpreted" /\ m = "baseline"
             \/ mode = "compiled" /\ m # "compiled"

TraceOK(m) == \A i \in 1..Len(trace[m]) : Recorded(m, trace[m][i].stage)
HasTrace(m) == Behind(m) \/ (step = "leaving" /\ m = mode) =>
               state[m] # "complete" \/ Len(trace[m]) > 0

Runs ==
  /\ \A m \in Modes : TraceOK(m) /\ HasTrace(m)
  /\ step = "reported" => Recorded(mode, Stage)
  /\ step = "sealed" \/ case.name # "case" => \A m \in queue : Recorded(m, "run")

RowInv == RowTypeOK /\ RowDataOK /\ InOrder /\ Joins /\ Generated /\ Runs

----------------------------------------------------------------------------
LEMMA RowStarts == RowInit => RowInv
<1> SUFFICES ASSUME RowInit PROVE RowInv
  OBVIOUS
<1>1. RowTypeOK
  <2>1. disk \in [File -> Version] /\ seal \in [Artifacts -> Version]
    BY DEF RowInit, Fresh, Version
  <2>2. queue \subseteq Modes /\ mishaps \in 0..Mishaps /\ launches \in Nat
    BY RowAssumption DEF RowInit
  <2>3. mode \in Modes
    BY DEF RowInit, Modes
  <2> QED BY <2>1, <2>2, <2>3 DEF RowInit, RowTypeOK
<1>2. RowDataOK
  <2>1. /\ case \in [name : Modes \cup {"case"}, phase : {"run", "build", "compile"},
                     parent : Nat, exit : {"zero", "nonzero"}, combined : BOOLEAN,
               resolved : BOOLEAN]
        /\ parent \in Nat
    <3>1. case \in [name : {"case"}, phase : Phases, parent : {0},
                    exit : {"zero", "nonzero"}, combined : BOOLEAN,
               resolved : BOOLEAN]
      BY DEF RowInit
    <3>2. /\ case.name \in Modes \cup {"case"} /\ case.phase \in {"run", "build", "compile"}
          /\ case.parent \in Nat /\ case.exit \in {"zero", "nonzero"}
          /\ case.combined \in BOOLEAN /\ case.resolved \in BOOLEAN
      <4>1. /\ case.name = "case" /\ case.phase \in Phases /\ case.parent = 0
            /\ case.exit \in {"zero", "nonzero"}
            /\ case.combined \in BOOLEAN /\ case.resolved \in BOOLEAN
        BY <3>1
      <4>2. Phases \subseteq {"run", "build", "compile"}
        BY RowAssumption
      <4>3. case.phase \in {"run", "build", "compile"}
        BY <4>1, <4>2
      <4>4. case.name \in Modes \cup {"case"}
        BY <4>1
      <4> QED BY <4>1, <4>3, <4>4
    <3>3. case = [name |-> case.name, phase |-> case.phase, parent |-> case.parent,
                  exit |-> case.exit, combined |-> case.combined,
                  resolved |-> case.resolved]
      BY <3>1
    <3> QED BY <3>2, <3>3 DEF RowInit
  <2>2. ended \in [end : End, seen : {"same", "odd"}, id : Nat]
    <3>1. "zero" \in End /\ 0 \in Nat
      BY DEF End
    <3> QED BY <3>1 DEF RowInit, NoEnd
  <2>3. todo \in Seq(StageName) /\ ledger \in Seq(Line)
    BY DEF RowInit
  <2>4. <<>> \in Seq(Entry)
    OBVIOUS
  <2>5. trace \in [Modes -> Seq(Entry)]
    BY <2>4 DEF RowInit
  <2> QED BY <2>1, <2>2, <2>3, <2>5 DEF RowDataOK
<1>3. InOrder /\ Joins
  BY DEF RowInit, InOrder, Joins
<1>4. Generated /\ Runs
  BY DEF RowInit, Generated, Runs, TraceOK, HasTrace, Behind
<1> QED BY <1>1, <1>2, <1>3, <1>4 DEF RowInv

----------------------------------------------------------------------------
(***************************************************************************)
(* What the operators return.                                              *)
(***************************************************************************)
LEMMA StageTyped ==
  ASSUME todo \in Seq(StageName)
  PROVE  Stage \in StageName
  BY DEF Stage, StageName

LEMMA CommandsTyped ==
  ASSUME NEW m \in Modes
  PROVE  /\ Commands(m) \in Seq(StageName)
         /\ m = "compiled" => Commands(m) = <<"transpile", Producer>>
<1>1. Producer \in StageName
  BY DEF Producer, StageName
<1>2. CASE m = "baseline"
  BY <1>1, <1>2 DEF Commands
<1>3. CASE m = "interpreted"
  BY <1>3 DEF Commands, StageName
<1>4. CASE m = "compiled"
  <2>1. Commands(m) = <<"transpile", Producer>> /\ "transpile" \in StageName
    BY <1>4 DEF Commands, StageName
  <2> QED BY <1>1, <2>1
<1> QED BY <1>2, <1>3, <1>4 DEF Modes

LEMMA OutputTyped ==
  ASSUME NEW m, NEW s
  PROVE  Output(m, s) \subseteq Artifacts
  BY DEF Output, Product, Artifacts

LEMMA FatesTyped ==
  Fates \subseteq {"complete", "input_mutation", "stage_failure", "missing_artifact",
                  "invalid_source_map"}
<1>1. disk["work"] # "own" \/ (disk["work"] = "own" /\ ended.end # "zero")
      \/ (disk["work"] = "own" /\ ended.end = "zero")
  OBVIOUS
<1> QED BY <1>1 DEF Fates

LEMMA RecordTyped ==
  ASSUME RowTypeOK, RowDataOK
  PROVE  /\ Record \in Line /\ Record.id = ended.id /\ Record.parent = parent
         /\ Record.stage = <<mode, Stage>>
         /\ Record.source = IF mode = "compiled" /\ Stage \in {"build", "compile"}
                            THEN parent ELSE 0
         /\ DOMAIN Record.outputs = {f \in Output(mode, Stage) : disk[f] # "none"}
<1> DEFINE left == {f \in Output(mode, Stage) : disk[f] # "none"}
           outputs == [f \in left |-> disk[f]]
<1>1. left \subseteq Artifacts
  BY OutputTyped
<1>2. outputs \in [left -> Version]
  BY <1>1 DEF RowTypeOK, File
<1>3. outputs \in Outputs
  BY <1>1, <1>2 DEF Outputs
<1>4. Stage \in StageName /\ mode \in Modes
  BY StageTyped DEF RowDataOK, RowTypeOK
<1>5. ended.id \in Nat /\ parent \in Nat /\ case.name \in Modes \cup {"case"}
  BY DEF RowDataOK
<1>6. <<mode, Stage>> \in Modes \X StageName
  BY <1>4
<1>7. Record = [id |-> ended.id, case |-> case.name, stage |-> <<mode, Stage>>,
                parent |-> parent, outputs |-> outputs,
                source |-> IF mode = "compiled" /\ Stage \in {"build", "compile"}
                           THEN parent ELSE 0]
  BY DEF Record
<1> HIDE DEF outputs
<1>8. Record \in Line
  BY <1>3, <1>5, <1>6, <1>7 DEF Line
<1>9. DOMAIN outputs = left
  BY DEF outputs
<1> QED BY <1>7, <1>8, <1>9

----------------------------------------------------------------------------
\* What a step can be.
LEMMA RowCases ==
  ASSUME [RowNext]_rowvars
  PROVE  \/ Copy \/ Check \/ Append1 \/ AppendFails \/ Judge \/ Leave \/ Detach
         \/ JudgeNative \/ Close \/ Refuse \/ Unconfigured \/ Accept \/ Escape \/ Crash
         \/ (\E end \in End, seen \in {"same", "odd"}, left \in Version : Perform(end, seen, left))
         \/ (\E m \in Modes : Emit(m)) \/ (\E f \in File : Alter(f))
         \/ UNCHANGED rowvars
  BY DEF RowNext, RowDone

\* A mode's state after a step.
LEMMA StateTyped ==
  ASSUME RowTypeOK, RowDataOK, [RowNext]_rowvars
  PROVE  state' \in [Modes -> {"complete", "input_mutation", "stage_failure",
                               "missing_artifact", "invalid_source_map"}]
<1> USE DEF RowTypeOK
<1>1. CASE Check \/ Leave \/ JudgeNative
  BY <1>1 DEF Check, Leave, JudgeNative
<1>2. CASE Judge
  <2>1. PICK fate \in Fates : state' = [state EXCEPT ![mode] = fate]
    BY <1>2 DEF Judge
  <2> QED BY <2>1, FatesTyped
<1>3. CASE \E m \in Modes : Emit(m)
  BY <1>3 DEF Emit
<1>4. CASE UNCHANGED state
  BY <1>4
<1> QED BY <1>1, <1>2, <1>3, <1>4, RowCases
        DEF Copy, Append1, AppendFails, Detach, Close, Refuse, Unconfigured, Accept,
            Escape, Crash, Perform, Alter, progress, rowvars

\* The files and their seals.
LEMMA DiskTyped ==
  ASSUME RowTypeOK, RowDataOK, [RowNext]_rowvars
  PROVE  disk' \in [File -> Version] /\ seal' \in [Artifacts -> Version]
<1> USE DEF RowTypeOK
<1>1. CASE Copy
  BY <1>1 DEF Copy, Version, File, Inputs
<1>2. CASE Detach
  BY <1>2 DEF Detach, Version, File, Inputs
<1>3. CASE Judge
  BY <1>3 DEF Judge, File, Artifacts
<1>4. ASSUME NEW end \in End, NEW seen, NEW left \in Version, Perform(end, seen, left)
      PROVE  disk' \in [File -> Version] /\ seal' \in [Artifacts -> Version]
  BY <1>4 DEF Perform
<1>5. ASSUME NEW m \in Modes, Emit(m)
      PROVE  disk' \in [File -> Version] /\ seal' \in [Artifacts -> Version]
  <2>1. Fresh \in [File -> Version]
    BY DEF Fresh, Version
  <2>2. disk["tools"] \in Version /\ {"own", "foreign", "none"} = Version
    BY DEF File, Inputs, Version
  <2> QED BY <1>5, <2>1, <2>2 DEF Emit
<1>6. ASSUME NEW f \in File, Alter(f)
      PROVE  disk' \in [File -> Version] /\ seal' \in [Artifacts -> Version]
  BY <1>6 DEF Alter, Version
<1>7. CASE UNCHANGED <<disk, seal>>
  BY <1>7
<1> QED BY <1>1, <1>2, <1>3, <1>4, <1>5, <1>6, <1>7, RowCases
        DEF Check, Append1, AppendFails, Leave, JudgeNative, Close, Refuse, Unconfigured,
            Accept, Escape, Crash, progress, rowvars

\* The rest of the state that RowTypeOK names.
LEMMA RowTypeStep ==
  ASSUME RowTypeOK, RowDataOK, [RowNext]_rowvars
  PROVE  RowTypeOK'
<1> USE DEF RowTypeOK
<1>1. /\ step' \in {"copying", "before", "spawned", "exited", "reported", "leaving",
                    "closing", "sealed", "refused", "crashed"}
      /\ mode' \in Modes /\ queue' \subseteq Modes
      /\ verdict' \in {"none", "PASS", "FAIL"} /\ accepted' \in BOOLEAN
      /\ launches' \in Nat /\ torn' \in BOOLEAN /\ stray' \in BOOLEAN
      /\ mishaps' \in 0..Mishaps
  <2> DEFINE Ok == /\ step' \in {"copying", "before", "spawned", "exited", "reported", "leaving",
                               "closing", "sealed", "refused", "crashed"}
                   /\ mode' \in Modes /\ queue' \subseteq Modes
                   /\ verdict' \in {"none", "PASS", "FAIL"} /\ accepted' \in BOOLEAN
                   /\ launches' \in Nat /\ torn' \in BOOLEAN /\ stray' \in BOOLEAN
                   /\ mishaps' \in 0..Mishaps
  <2>1. CASE Copy
    BY <2>1 DEF Copy, Mishap, judged, lineage, progress
  <2>2. CASE Check
    BY <2>2 DEF Check, Mishap, judged, lineage, progress
  <2>3. CASE Append1
    BY <2>3 DEF Append1, Mishap, judged, lineage, progress
  <2>4. CASE AppendFails
    <3>1. torn' \in BOOLEAN
      BY <2>4, Zenon DEF AppendFails, lineage
    <3>2. step' = "refused" /\ mishaps' \in 0..Mishaps
          /\ UNCHANGED <<mode, queue, verdict, accepted, launches, stray>>
      BY <2>4 DEF AppendFails, Mishap, judged, progress
    <3> QED BY <3>1, <3>2
  <2>5. CASE Judge
    BY <2>5 DEF Judge, Mishap, judged, lineage, progress
  <2>6. CASE Leave
    BY <2>6 DEF Leave, Mishap, judged, lineage, progress, Following, Modes
  <2>7. CASE Detach
    BY <2>7 DEF Detach, Mishap, judged, lineage, progress
  <2>8. CASE JudgeNative
    BY <2>8 DEF JudgeNative, Mishap, judged, lineage, progress, Following, Modes, Integrity
  <2>9. CASE Close
    BY <2>9 DEF Close, Mishap, judged, lineage, progress, Verdict
  <2>10. CASE Refuse
    BY <2>10 DEF Refuse, Mishap, judged, lineage, progress
  <2>11. CASE Unconfigured
    BY <2>11 DEF Unconfigured, Mishap, judged, lineage, progress
  <2>12. CASE Accept
    BY <2>12 DEF Accept, Mishap, judged, lineage, progress
  <2>13. CASE Escape
    BY <2>13 DEF Escape, Mishap, judged, lineage, progress
  <2>14. CASE Crash
    <3>1. torn' \in BOOLEAN
      BY <2>14, Zenon DEF Crash
    <3>2. step' = "crashed" /\ mishaps' \in 0..Mishaps
          /\ UNCHANGED <<mode, queue, verdict, accepted, launches, stray>>
      BY <2>14 DEF Crash, Mishap, judged, progress
    <3> QED BY <3>1, <3>2
  <2>15. ASSUME NEW end \in End, NEW seen, NEW left, Perform(end, seen, left)
      PROVE  Ok
    BY <2>15 DEF Perform, Mishap, judged, lineage, progress
  <2>16. ASSUME NEW m \in Modes, Emit(m)
      PROVE  Ok
    BY <2>16 DEF Emit, Mishap, judged, lineage, progress, Modes
  <2>17. ASSUME NEW f \in File, Alter(f)
      PROVE  Ok
    BY <2>17 DEF Alter, Mishap, judged, lineage, progress
  <2>18. CASE UNCHANGED rowvars
    BY <2>18 DEF rowvars, judged, lineage, progress
  <2> QED BY <2>1, <2>2, <2>3, <2>4, <2>5, <2>6, <2>7, <2>8, <2>9, <2>10, <2>11, <2>12,
             <2>13, <2>14, <2>15, <2>16, <2>17, <2>18, RowCases
<1> QED BY <1>1, StateTyped, DiskTyped

\* A child names the run that emitted it, which has its record.
LEMMA ChildNamesRun ==
  ASSUME RowInv, NEW m \in Modes, Emit(m)
  PROVE  \E i \in 1..Len(ledger) :
           case' = [name |-> m, phase |-> "run", parent |-> i, exit |-> "zero",
                    combined |-> FALSE, resolved |-> FALSE]
<1> DEFINE launch == CHOOSE i \in DOMAIN ledger : ledger[i].stage = <<m, "run">>
<1>1. Recorded(m, "run") /\ DOMAIN ledger = 1..Len(ledger)
  BY DEF RowInv, Runs, Emit, RowDataOK
<1>2. launch \in 1..Len(ledger)
  BY <1>1 DEF Recorded
<1>3. case' = [name |-> m, phase |-> "run", parent |-> ledger[launch].id, exit |-> "zero",
               combined |-> FALSE, resolved |-> FALSE]
  BY DEF Emit
<1>4. ledger[launch].id = launch
  BY <1>2 DEF RowInv, InOrder
<1> HIDE DEF launch
<1> QED BY <1>2, <1>3, <1>4

\* The data of a case and its ledger.
LEMMA DataStep ==
  ASSUME RowInv, [RowNext]_rowvars
  PROVE  RowDataOK'
<1> USE DEF RowDataOK, RowInv
<1>1. ledger' \in Seq(Line)
  <2>1. CASE UNCHANGED ledger
    BY <2>1
  <2>2. CASE ledger' = Append(ledger, Record)
    BY <2>2, RecordTyped
  <2> QED BY <2>1, <2>2, RowCases
          DEF Copy, Check, Append1, AppendFails, Judge, Leave, Detach, JudgeNative, Close,
              Refuse, Unconfigured, Accept, Escape, Crash, Perform, Emit, Alter, lineage,
              rowvars
<1>2. trace' \in [Modes -> Seq(Entry)]
  <2>1. CASE UNCHANGED trace
    BY <2>1
  <2>2. CASE Traced
    <3>1. [stage |-> Stage, end |-> ended.end, seen |-> ended.seen, id |-> ended.id] \in Entry
      BY StageTyped DEF Entry
    <3> QED BY <2>2, <3>1 DEF Traced, RowTypeOK
  <2>3. CASE \E m \in Modes : Emit(m)
    <3>1. <<>> \in Seq(Entry)
      OBVIOUS
    <3> QED BY <2>3, <3>1 DEF Emit
  <2> QED BY <2>1, <2>2, <2>3, RowCases
          DEF Copy, Check, Append1, AppendFails, Judge, Leave, Detach, JudgeNative, Close,
              Refuse, Unconfigured, Accept, Escape, Crash, Perform, Alter, progress, rowvars
<1>3. todo' \in Seq(StageName)
  <2>1. CASE Copy
    BY <2>1, CommandsTyped DEF Copy, RowTypeOK
  <2>2. CASE Judge
    <3>1. Tail(todo) \in Seq(StageName)
      BY <2>2 DEF Judge
    <3> QED BY <2>2, <3>1 DEF Judge
  <2>3. CASE \E m \in Modes : Emit(m)
    BY <2>3 DEF Emit
  <2>4. CASE UNCHANGED todo
    BY <2>4
  <2> QED BY <2>1, <2>2, <2>3, <2>4, RowCases
          DEF Check, Append1, AppendFails, Leave, Detach, JudgeNative, Close,
              Refuse, Unconfigured, Accept, Escape, Crash, Perform, Alter, progress, rowvars
<1>4. ended' \in [end : End, seen : {"same", "odd"}, id : Nat]
  <2>1. ASSUME NEW end \in End, NEW seen \in {"same", "odd"}, NEW left \in Version,
               Perform(end, seen, left)
        PROVE  ended' \in [end : End, seen : {"same", "odd"}, id : Nat]
    BY <2>1 DEF Perform, RowTypeOK
  <2>2. CASE \E m \in Modes : Emit(m)
    <3>1. "zero" \in End /\ 0 \in Nat
      BY DEF End
    <3> QED BY <2>2, <3>1 DEF Emit, NoEnd
  <2>3. CASE UNCHANGED ended
    BY <2>3
  <2> QED BY <2>1, <2>2, <2>3, RowCases
          DEF Copy, Check, Append1, AppendFails, Judge, Leave, Detach, JudgeNative, Close,
              Refuse, Unconfigured, Accept, Escape, Crash, Alter, rowvars
<1>5. parent' \in Nat
  <2>1. CASE Copy
    BY <2>1 DEF Copy
  <2>2. CASE parent' \in {parent, ended.id}
    BY <2>2
  <2> QED BY <2>1, <2>2, RowCases
          DEF Check, Append1, AppendFails, Judge, Leave, Detach, JudgeNative, Close,
              Refuse, Unconfigured, Accept, Escape, Crash, Perform, Emit, Alter, lineage,
              rowvars
<1>6. case' \in [name : Modes \cup {"case"}, phase : {"run", "build", "compile"},
                parent : Nat, exit : {"zero", "nonzero"}, combined : BOOLEAN,
               resolved : BOOLEAN]
  <2>1. ASSUME NEW m \in Modes, Emit(m)
        PROVE  case' \in [name : Modes \cup {"case"}, phase : {"run", "build", "compile"},
                          parent : Nat, exit : {"zero", "nonzero"}, combined : BOOLEAN,
               resolved : BOOLEAN]
    <3>1. PICK i \in 1..Len(ledger) :
            case' = [name |-> m, phase |-> "run", parent |-> i, exit |-> "zero",
                     combined |-> FALSE, resolved |-> FALSE]
      BY <2>1, ChildNamesRun
    <3>2. i \in Nat
      OBVIOUS
    <3> QED BY <3>1, <3>2
  <2>2. CASE UNCHANGED case
    BY <2>2
  <2> QED BY <2>1, <2>2, RowCases
          DEF Copy, Check, Append1, AppendFails, Judge, Leave, Detach, JudgeNative, Close,
              Refuse, Unconfigured, Accept, Escape, Crash, Perform, Alter, rowvars
<1> QED BY <1>1, <1>2, <1>3, <1>4, <1>5, <1>6

\* The ledger's records are the launches, in their order.
LEMMA OrderStep ==
  ASSUME RowInv, [RowNext]_rowvars
  PROVE  InOrder'
<1> USE DEF RowInv, InOrder
<1>1. CASE Append1 \/ AppendFails
  <2>1. step = "exited" /\ UNCHANGED launches /\ step' \in {"reported", "refused"}
    BY <1>1 DEF Append1, AppendFails
  <2>2. CASE ledger' = Append(ledger, Record)
    <3>1. /\ Len(ledger') = Len(ledger) + 1 /\ ledger'[Len(ledger) + 1] = Record
          /\ \A i \in 1..Len(ledger) : ledger'[i] = ledger[i]
      BY <2>2, RecordTyped DEF RowDataOK
    <3>2. Record.id = Len(ledger) + 1
      BY <2>1, RecordTyped
    <3>3. Len(ledger) \in Nat
      BY DEF RowDataOK
    <3>4. step' = "reported" => torn' = torn
      BY <1>1 DEF Append1, AppendFails
    <3> QED BY <2>1, <3>1, <3>2, <3>3, <3>4
  <2>3. CASE UNCHANGED ledger
    <3>1. AppendFails
      <4>1. Len(Append(ledger, Record)) # Len(ledger)
        BY RecordTyped DEF RowDataOK
      <4> QED BY <1>1, <2>3, <4>1 DEF Append1
    <3> QED BY <2>3, <3>1 DEF AppendFails
  <2> QED BY <1>1, <2>2, <2>3 DEF Append1, AppendFails
<1>2. ASSUME NEW end \in End, NEW seen, NEW left, Perform(end, seen, left)
      PROVE  InOrder'
  BY <1>2 DEF Perform, RowTypeOK, RowDataOK
<1>3. CASE Crash
  BY <1>3 DEF Crash
<1>4. CASE /\ step \notin {"exited", "refused", "crashed"} /\ step' # "exited"
           /\ UNCHANGED <<launches, ledger, torn>>
  BY <1>4
<1>5. CASE UNCHANGED <<step, launches, ledger, torn, ended>>
  BY <1>5
<1> QED BY <1>1, <1>2, <1>3, <1>4, <1>5, RowCases
        DEF Copy, Check, Judge, Leave, Detach, JudgeNative, Close, Refuse, Unconfigured,
            Accept, Escape, Emit, Alter, Following, lineage, rowvars

\* Its lines join.
LEMMA JoinStep ==
  ASSUME RowInv, [RowNext]_rowvars
  PROVE  Joins'
<1> USE DEF RowInv
<1>1. Len(ledger) \in Nat
  BY DEF RowDataOK
<1>2. CASE Append1 \/ AppendFails
  <2>1. step = "exited" /\ parent' \in {parent, ended.id} /\ UNCHANGED case
    BY <1>2 DEF Append1, AppendFails
  <2>2. ended.id = Len(ledger) + 1
    BY <2>1 DEF InOrder
  <2>3. CASE ledger' = Append(ledger, Record)
    <3> PICK rec \in Line : rec = Record
      BY RecordTyped
    <3>1. /\ Len(ledger') = Len(ledger) + 1 /\ ledger'[Len(ledger) + 1] = rec
          /\ \A i \in 1..Len(ledger) : ledger'[i] = ledger[i]
      BY <2>3, RecordTyped DEF RowDataOK
    <3>2. /\ rec.parent \in 0..Len(ledger)
          /\ rec.source # 0 => LeftGenerated(rec.source)
      <4>1. ASSUME mode = "compiled", Stage \in {"build", "compile"}
            PROVE  LeftGenerated(parent)
        <5>1. todo \in {<<"transpile", Producer>>, <<Producer>>, <<>>}
          BY <2>1, <4>1 DEF Generated
        <5>2. todo = <<Producer>>
          BY <4>1, <5>1 DEF Stage
        <5> QED BY <2>1, <4>1, <5>2 DEF Generated
      <4> QED BY <4>1, RecordTyped DEF Joins
    <3>3. \A p : LeftGenerated(p) => LeftGenerated(p)'
      BY <1>1, <3>1 DEF LeftGenerated
    <3>4. ASSUME NEW i \in 1..Len(ledger')
          PROVE  LineJoins(i)'
      <4>1. CASE i \in 1..Len(ledger)
        <5>1. ledger'[i] = ledger[i] /\ LineJoins(i)
          BY <3>1, <4>1 DEF Joins
        <5> QED BY <3>3, <5>1 DEF LineJoins
      <4>2. CASE i = Len(ledger) + 1
        <5>1. i - 1 = Len(ledger) /\ ledger'[i] = rec
          BY <1>1, <3>1, <4>2
        <5>2. rec.source # 0 => rec.source \in 1..Len(ledger)
          BY <3>2 DEF LeftGenerated
        <5>3. rec.source # 0 => LeftGenerated(rec.source)'
          BY <3>2, <3>3
        <5> QED BY <3>2, <5>1, <5>2, <5>3 DEF LineJoins
      <4> QED BY <1>1, <3>1, <4>1, <4>2
    <3>5. parent' \in 0..Len(ledger') /\ case'.parent \in 0..Len(ledger')
      BY <1>1, <2>1, <2>2, <3>1 DEF Joins
    <3> QED BY <3>4, <3>5 DEF Joins
  <2>4. CASE UNCHANGED <<ledger, parent>>
    BY <2>1, <2>4 DEF Joins, LineJoins, LeftGenerated
  <2> QED BY <1>2, <2>3, <2>4 DEF Append1, AppendFails
<1>3. ASSUME NEW m \in Modes, Emit(m)
      PROVE  Joins'
  <2>1. case'.parent \in 1..Len(ledger)
    BY <1>3, ChildNamesRun
  <2>2. UNCHANGED <<ledger, parent>>
    BY <1>3 DEF Emit, lineage
  <2> QED BY <1>1, <2>1, <2>2 DEF Joins, LineJoins, LeftGenerated
<1>4. CASE UNCHANGED <<ledger, case>> /\ parent' \in {parent, case.parent}
  BY <1>4 DEF Joins, LineJoins, LeftGenerated
<1> QED BY <1>2, <1>3, <1>4, RowCases
        DEF Copy, Check, Judge, Leave, Detach, JudgeNative, Close, Refuse, Unconfigured,
            Accept, Escape, Crash, Perform, Alter, lineage, rowvars

\* What is built in mode compiled was left by the launch before.
LEMMA GeneratedStep ==
  ASSUME RowInv, [RowNext]_rowvars
  PROVE  Generated'
<1> USE DEF RowInv
<1>1. CASE Copy
  <2>1. mode = "compiled" => todo' = <<"transpile", Producer>>
    BY <1>1, CommandsTyped DEF Copy, RowTypeOK
  <2>2. /\ step' = "before" /\ UNCHANGED <<mode, case, ledger>>
        /\ <<"transpile", Producer>> # <<Producer>>
    BY <1>1 DEF Copy
  <2> QED BY <2>1, <2>2 DEF Generated, Producer
<1>2. CASE Check
  BY <1>2 DEF Check, Generated, LeftGenerated, Producer, lineage, RowTypeOK
<1>3. ASSUME NEW end \in End, NEW seen, NEW left, Perform(end, seen, left)
      PROVE  Generated'
  BY <1>3 DEF Perform, Generated, LeftGenerated, Producer, progress
<1>4. CASE Append1
  <2>1. ASSUME mode = "compiled", todo = <<"transpile", Producer>>, disk["generated"] = "own"
        PROVE  LeftGenerated(parent)'
    <3>1. Stage = "transpile"
      BY <2>1 DEF Stage
    <3>2. "generated" \in DOMAIN Record.outputs
      BY <2>1, <3>1, RecordTyped DEF Output
    <3>3. /\ Len(ledger') = Len(ledger) + 1 /\ ledger'[Len(ledger) + 1] = Record
          /\ Len(ledger) \in Nat
      BY <1>4, RecordTyped DEF Append1, RowDataOK
    <3>4. parent' = Len(ledger) + 1
      BY <1>4 DEF Append1, InOrder
    <3> QED BY <3>2, <3>3, <3>4 DEF LeftGenerated
  <2>2. /\ step = "exited" /\ step' = "reported" /\ UNCHANGED <<mode, todo, case, disk>>
    BY <1>4 DEF Append1, progress
  <2> QED BY <2>1, <2>2 DEF Generated, Producer
<1>5. CASE Judge
  <2>1. /\ step = "reported" /\ todo # <<>> /\ UNCHANGED <<mode, case, ledger, parent, disk>>
    BY <1>5 DEF Judge, lineage
  <2>2. PICK fate \in Fates :
          /\ state' = [state EXCEPT ![mode] = fate]
          /\ IF fate = "complete" /\ ended.end = "zero"
             THEN /\ todo' = Tail(todo)
                  /\ step' = IF Len(todo) > 1 THEN "before" ELSE "leaving"
             ELSE UNCHANGED todo /\ step' = "leaving"
    BY <1>5 DEF Judge
  <2>3. SUFFICES ASSUME mode = "compiled"
        PROVE  Generated'
    BY <2>1 DEF Generated
  <2>4. /\ todo \in {<<"transpile", Producer>>, <<Producer>>}
        /\ Stage \in {"transpile", "build", "compile"}
    BY <2>1, <2>3 DEF Generated, Stage, Producer
  <2>5. CASE fate = "complete" /\ ended.end = "zero"
    <3>1. CASE todo = <<"transpile", Producer>>
      <4>1. disk["generated"] = "own"
        <5>1. Output(mode, Stage) = {"generated"}
          BY <3>1 DEF Stage, Output
        <5>2. Fates = IF disk["work"] # "own" THEN {"input_mutation"}
                      ELSE IF \A f \in Output(mode, Stage) : disk[f] = "own" THEN {"complete"}
                      ELSE IF \E f \in Output(mode, Stage) : disk[f] = "none"
                      THEN {"missing_artifact"} ELSE {"invalid_source_map"}
          BY <2>5, <3>1 DEF Fates, Stage
        <5> QED BY <2>5, <5>1, <5>2
      <4>2. LeftGenerated(parent)
        BY <2>1, <2>3, <3>1, <4>1 DEF Generated
      <4>3. todo' = <<Producer>> /\ step' = "before"
        BY <2>2, <2>5, <3>1
      <4> QED BY <2>1, <4>2, <4>3 DEF Generated, LeftGenerated, Producer
    <3>2. CASE todo = <<Producer>>
      <4>1. todo' = <<>> /\ step' = "leaving"
        BY <2>2, <2>5, <3>2
      <4> QED BY <4>1 DEF Generated
    <3> QED BY <2>4, <3>1, <3>2
  <2>6. CASE ~(fate = "complete" /\ ended.end = "zero")
    <3>1. fate # "complete"
      <4>1. CASE ended.end # "zero"
        BY <2>4, <4>1 DEF Fates
      <4> QED BY <2>6, <4>1
    <3>2. state'["compiled"] # "complete" /\ step' = "leaving" /\ todo' = todo
      BY <2>2, <2>3, <2>6, <3>1 DEF RowTypeOK
    <3> QED BY <2>1, <2>4, <3>2 DEF Generated, Producer
  <2> QED BY <2>5, <2>6
<1>6. CASE Detach
  BY <1>6 DEF Detach, Generated, Producer, LeftGenerated, progress
<1>7. CASE Escape \/ Accept
  BY <1>7 DEF Escape, Accept, Generated, Producer, LeftGenerated, progress, lineage
<1>8. ASSUME NEW f \in File, Alter(f)
      PROVE  Generated'
  <2>1. disk'["generated"] = "own" => disk["generated"] = "own"
    BY <1>8 DEF Alter, RowTypeOK, File, Artifacts
  <2> QED BY <1>8, <2>1 DEF Alter, Generated, Producer, LeftGenerated, progress, lineage
<1>9. CASE UNCHANGED rowvars
  BY <1>9 DEF rowvars, Generated, Producer, LeftGenerated, progress, lineage
<1>10. CASE step' \in {"copying", "closing", "sealed", "refused", "crashed"}
  BY <1>10 DEF Generated
<1> QED BY <1>1, <1>2, <1>3, <1>4, <1>5, <1>6, <1>7, <1>8, <1>9, <1>10, RowCases
        DEF AppendFails, Leave, JudgeNative, Close, Refuse, Unconfigured, Crash, Emit,
            Following

\* A mode's trace has its records, and so has the run of a mode that emitted.
LEMMA RunsStep ==
  ASSUME RowInv, [RowNext]_rowvars
  PROVE  Runs'
<1> USE DEF RowInv
<1>1. \A m, s : Recorded(m, s) => Recorded(m, s)'
  <2>1. CASE ledger' = Append(ledger, Record)
    <3>1. /\ Len(ledger') = Len(ledger) + 1 /\ Len(ledger) \in Nat
          /\ \A i \in 1..Len(ledger) : ledger'[i] = ledger[i]
      BY <2>1, RecordTyped DEF RowDataOK
    <3>2. \A i \in 1..Len(ledger) : i \in 1..Len(ledger')
      BY <3>1
    <3> QED BY <3>1, <3>2 DEF Recorded
  <2>2. CASE UNCHANGED ledger
    BY <2>2 DEF Recorded
  <2> QED BY <2>1, <2>2, RowCases
          DEF Copy, Check, Append1, AppendFails, Judge, Leave, Detach, JudgeNative, Close,
              Refuse, Unconfigured, Accept, Escape, Crash, Perform, Emit, Alter, lineage,
              rowvars
<1> DEFINE Queued == step = "sealed" \/ case.name # "case" =>
                     \A m \in queue : Recorded(m, "run")
<1>2. ASSUME NEW m \in Modes
      PROVE  TraceOK(m)'
  <2> USE DEF TraceOK
  <2>1. trace[m] \in Seq(Entry) /\ TraceOK(m)
    <3>1. trace[m] \in Seq(Entry)
      BY DEF RowDataOK
    <3> HIDE DEF TraceOK
    <3>2. TraceOK(m)
      BY DEF Runs
    <3> QED BY <3>1, <3>2
  <2>2. CASE trace'[m] = trace[m]
    BY <1>1, <2>1, <2>2
  <2>3. CASE Traced /\ step = "reported" /\ m = mode
    <3> DEFINE entry == [stage |-> Stage, end |-> ended.end, seen |-> ended.seen,
                         id |-> ended.id]
    <3> PICK e \in Entry : e = entry
      BY StageTyped DEF Entry, RowDataOK
    <3>1. trace'[m] = Append(trace[m], e)
      BY <2>3 DEF Traced, RowDataOK
    <3>2. /\ Len(trace'[m]) = Len(trace[m]) + 1 /\ trace'[m][Len(trace[m]) + 1] = e
          /\ \A i \in 1..Len(trace[m]) : trace'[m][i] = trace[m][i]
          /\ Len(trace[m]) \in Nat
      BY <2>1, <3>1
    <3>3. Recorded(m, e.stage)'
      BY <1>1, <2>3 DEF Runs
    <3>4. ASSUME NEW i \in 1..Len(trace'[m])
          PROVE  Recorded(m, trace[m][i].stage)'
      <4>1. CASE i \in 1..Len(trace[m])
        <5>1. trace'[m][i] = trace[m][i] /\ Recorded(m, trace[m][i].stage)
          BY <2>1, <3>2, <4>1
        <5> PICK s : s = trace[m][i].stage
          OBVIOUS
        <5>2. Recorded(m, s)'
          BY <1>1, <5>1
        <5>3. trace'[m][i].stage = s
          BY <5>1
        <5> HIDE DEF RowInv
        <5> QED BY <5>2, <5>3, Zenon DEF Recorded
      <4>2. CASE i = Len(trace[m]) + 1
        BY <3>2, <3>3, <4>2
      <4> QED BY <3>2, <4>1, <4>2
    <3> QED BY <3>4
  <2>4. CASE trace' = [n \in Modes |-> <<>>]
    BY <2>4
  <2> QED BY <2>2, <2>3, <2>4, RowCases
          DEF Copy, Check, Append1, AppendFails, Judge, Leave, Detach, JudgeNative, Close,
              Refuse, Unconfigured, Accept, Escape, Crash, Perform, Emit, Alter, progress,
              rowvars, Traced, RowDataOK
<1>3. ASSUME NEW m \in Modes
      PROVE  HasTrace(m)'
  <2> USE DEF HasTrace
  <2>1. HasTrace(m) /\ trace[m] \in Seq(Entry)
    <3>1. trace[m] \in Seq(Entry)
      BY DEF RowDataOK
    <3> HIDE DEF HasTrace
    <3>2. HasTrace(m)
      BY DEF Runs
    <3> QED BY <3>1, <3>2
  <2>2. ASSUME NEW n \in Modes, Emit(n)
        PROVE  HasTrace(m)'
    BY <2>2, <2>1 DEF Emit, Behind
  <2>3. CASE Judge \/ JudgeNative
    <3>1. Traced /\ \A n \in Modes : n # mode => trace'[n] = trace[n] /\ state'[n] = state[n]
      <4>1. Traced /\ \E s : state' = [state EXCEPT ![mode] = s]
        BY <2>3 DEF Judge, JudgeNative
      <4> QED BY <4>1 DEF Traced, RowDataOK, RowTypeOK
    <3>2. CASE m # mode
      <4>1. Behind(m)' => Behind(m)
        BY <2>3, <3>2 DEF Judge, JudgeNative, Following, Behind, RowTypeOK, Modes
      <4>2. ~(step = "leaving" /\ m = mode)' \/ Behind(m)
        BY <2>3, <3>2 DEF Judge, JudgeNative, Following, Behind, RowTypeOK, Modes
      <4> QED BY <2>1, <3>1, <3>2, <4>1, <4>2
    <3>3. CASE m = mode
      <4> DEFINE entry == [stage |-> Stage, end |-> ended.end, seen |-> ended.seen,
                           id |-> ended.id]
      <4>1. entry \in Entry
        BY StageTyped DEF Entry, RowDataOK
      <4>2. trace'[m] = Append(trace[m], entry)
        BY <3>1, <3>3 DEF Traced, RowDataOK
      <4> HIDE DEF entry
      <4>3. Len(trace'[m]) > 0
        BY <2>1, <4>1, <4>2
      <4> QED BY <4>3
    <3> QED BY <3>2, <3>3
  <2>4. CASE Leave
    <3>1. /\ step = "leaving" /\ UNCHANGED trace /\ Following
          /\ state' = [state EXCEPT ![mode] = IF Integrity THEN @ ELSE "input_mutation"]
      BY <2>4 DEF Leave
    <3>2. state'[m] = "complete" => state[m] = "complete"
      BY <3>1 DEF RowTypeOK
    <3>3. Behind(m)' => Behind(m) \/ m = mode
      BY <3>1 DEF Following, Behind, RowTypeOK, Modes
    <3>4. step' # "leaving"
      BY <3>1 DEF Following
    <3> QED BY <2>1, <3>1, <3>2, <3>3, <3>4
  <2>5. CASE Check
    BY <2>1, <2>5 DEF Check, Behind, RowTypeOK, Modes
  <2>6. CASE Detach \/ Close
    BY <2>1, <2>6 DEF Detach, Close, Behind, progress
  <2>7. CASE UNCHANGED <<mode, state, trace>> /\ step' \notin {"closing", "sealed", "leaving"}
    BY <2>1, <2>7 DEF Behind
  <2>8. CASE UNCHANGED <<mode, state, trace, step>>
    BY <2>1, <2>8 DEF Behind
  <2> QED BY <2>2, <2>3, <2>4, <2>5, <2>6, <2>7, <2>8, RowCases
          DEF Copy, Append1, AppendFails, Refuse, Unconfigured, Accept, Escape, Crash,
              Perform, Alter, progress, rowvars
<1>4. step' = "reported" => Recorded(mode, Stage)'
  <2>1. CASE Append1
    <3>1. /\ Len(ledger') = Len(ledger) + 1 /\ ledger'[Len(ledger) + 1] = Record
          /\ Len(ledger) \in Nat
      BY <2>1, RecordTyped DEF Append1, RowDataOK
    <3>2. Record.stage = <<mode', Stage'>>
      BY <2>1, RecordTyped DEF Append1, progress, Stage
    <3>3. Len(ledger) + 1 \in 1..Len(ledger')
      BY <3>1
    <3> QED BY <3>1, <3>2, <3>3, Zenon DEF Recorded
  <2>2. CASE step' # "reported"
    BY <2>2
  <2>3. CASE step = "reported" /\ UNCHANGED <<mode, todo>>
    <3>1. Recorded(mode, Stage) /\ mode' = mode /\ Stage' = Stage
      BY <2>3 DEF Runs, Stage
    <3> PICK s \in StageName, m \in Modes : s = Stage /\ m = mode
      BY StageTyped DEF RowDataOK, RowTypeOK
    <3>2. Recorded(m, s)'
      BY <1>1, <3>1
    <3> QED BY <3>1, <3>2 DEF Recorded
  <2> QED BY <2>1, <2>2, <2>3, RowCases
          DEF Copy, Check, AppendFails, Judge, Leave, Detach, JudgeNative, Close, Refuse,
              Unconfigured, Accept, Escape, Crash, Perform, Emit, Alter, Following, progress,
              rowvars
<1>5. Queued'
  <2>1. CASE Close
    <3>1. /\ step = "closing" /\ UNCHANGED <<case, trace, state>>
          /\ queue' = {m \in queue : case.name = "case" => Emitted(m)}
      BY <2>1 DEF Close, progress
    <3>2. ASSUME NEW m \in queue'
          PROVE  Recorded(m, "run")
      <4>1. CASE case.name # "case"
        BY <3>1, <3>2, <4>1 DEF Runs
      <4>2. CASE case.name = "case"
        <5>1. Emitted(m) /\ m \in Modes
          BY <3>1, <3>2, <4>2 DEF RowTypeOK
        <5>2. Len(trace[m]) > 0 /\ trace[m] \in Seq(Entry)
          BY <3>1, <5>1 DEF Emitted, Runs, HasTrace, Behind, RowDataOK
        <5>3. Len(trace[m]) \in 1..Len(trace[m])
          BY <5>2
        <5> QED BY <5>1, <5>3 DEF Emitted, Runs, TraceOK
      <4> QED BY <4>1, <4>2
    <3> QED BY <1>1, <3>2
  <2>2. ASSUME NEW n \in Modes, Emit(n)
        PROVE  Queued'
    BY <1>1, <2>2 DEF Emit, Runs
  <2>3. CASE /\ UNCHANGED <<queue, case>>
             /\ step' = "sealed" => step = "sealed"
    BY <1>1, <2>3 DEF Runs
  <2> QED BY <2>1, <2>2, <2>3, RowCases
          DEF Copy, Check, Append1, AppendFails, Judge, Leave, Detach, JudgeNative, Refuse,
              Unconfigured, Accept, Escape, Crash, Perform, Alter, Following, rowvars
<1> QED BY <1>2, <1>3, <1>4, <1>5 DEF Runs

LEMMA RowInvariant == RowSpec => []RowInv
<1>1. RowInv /\ [RowNext]_rowvars => RowInv'
  BY RowTypeStep, DataStep, OrderStep, JoinStep, GeneratedStep, RunsStep DEF RowInv
<1> QED BY RowStarts, <1>1, PTL DEF RowSpec

----------------------------------------------------------------------------
\* The executor's state stays well formed.
THEOREM RowTyped == RowSpec => []RowTypeOK
<1>1. RowInv => RowTypeOK
  BY DEF RowInv
<1> QED BY RowInvariant, <1>1, PTL

\* A result is sealed only over a ledger that holds every launch once, in order:
\* what ran unrecorded has no result, whatever failed or was killed.
THEOREM SealedIsRecordedHolds == RowSpec => []SealedIsRecorded
<1>1. RowInv => SealedIsRecorded
  <2>1. ASSUME RowInv PROVE DOMAIN ledger = 1..Len(ledger)
    BY <2>1 DEF RowInv, RowDataOK
  <2> QED BY <2>1 DEF RowInv, InOrder, SealedIsRecorded
<1> QED BY RowInvariant, <1>1, PTL

\* The parent of a record precedes it, and so does the launch its artifact came
\* from, which recorded that artifact.
LEMMA JoinedLedger ==
  ASSUME RowInv
  PROVE  LedgerJoined
<1>1. DOMAIN ledger = 1..Len(ledger) /\ Len(ledger) \in Nat
  BY DEF RowInv, RowDataOK
<1>2. ASSUME NEW i \in 1..Len(ledger)
      PROVE  /\ ledger[i].parent # 0 => \E j \in 1..(i - 1) : ledger[j].id = ledger[i].parent
             /\ ledger[i].source # 0 =>
                  \E j \in 1..(i - 1) : /\ ledger[j].id = ledger[i].source
                                        /\ "generated" \in DOMAIN ledger[j].outputs
  <2>1. LineJoins(i) /\ \A j \in 1..Len(ledger) : ledger[j].id = j
    BY DEF RowInv, Joins, InOrder
  <2>2. \A j \in 1..(i - 1) : j \in 1..Len(ledger)
    BY <1>1
  <2> QED BY <2>1, <2>2 DEF LineJoins, LeftGenerated
<1> QED BY <1>1, <1>2 DEF LedgerJoined, Joined

\* Whatever the executor appends joins: the parent of a record precedes it, and
\* so does the launch its artifact came from, which recorded that artifact.
THEOREM LedgerJoinedHolds == RowSpec => []LedgerJoined
BY RowInvariant, JoinedLedger, PTL

----------------------------------------------------------------------------
(***************************************************************************)
(* What was read and what is recorded.                                     *)
(***************************************************************************)
Broken == \E m \in Modes : state[m] # "complete"
Halted == {"refused", "crashed"}

\* The commands left are the last ones of the mode's.
RowWalk ==
  /\ step \in {"before", "spawned", "exited", "reported", "leaving"} =>
       /\ mode = "baseline" => todo \in {<<Producer>>, <<>>}
       /\ mode = "interpreted" => todo \in {<<"run">>, <<"check">>, <<>>}
       /\ todo = <<>> => step # "before" /\ (step # "leaving" => mode # "interpreted")
  /\ step \in {"closing", "sealed"} => mode = "compiled"

\* Only a mode that is behind, or being left, is found out.
FoundOut == \A m \in Modes :
           state[m] # "complete" => Behind(m) \/ (m = mode /\ step \in {"leaving"} \cup Halted)

\* An artifact that was read is not made again.
MadeFor(f) ==
  CASE f = "reference" -> mode # "baseline" \/ (todo = <<>> /\ step # "copying")
    [] f = "generated" -> mode = "compiled" /\ todo \in {<<Producer>>, <<>>} /\ step # "copying"
    [] f = "product"   -> mode = "compiled" /\ todo = <<>> /\ step # "copying"

ReadOK(f, v) ==
  /\ f \in {"tools", "work"} \cup Artifacts
  /\ f = "tools" => v = "own" \/ disk["tools"] # "own"
  /\ f = "work" => v = "own" \/ /\ disk["work"] # "own" /\ todo # <<>>
                                /\ step \in {"exited", "reported"} \cup Halted
  /\ f \in Artifacts => /\ MadeFor(f)
                        /\ v = seal[f] \/ (disk[f] = "foreign" /\ seal[f] # "foreign")

SealOK(f) == \/ seal[f] = disk[f] \/ disk[f] = "foreign"
             \/ step \in {"exited", "reported"} \cup Halted /\ f \in Output(mode, Stage)

RowReads == Broken \/ \A r \in reads : ReadOK(r[1], r[2])
Seals == Broken \/ \A f \in Artifacts : SealOK(f)
AcceptedRead == accepted => AcceptedIsPinned /\ step \in {"sealed"} \cup Halted

Pins == RowWalk /\ FoundOut /\ RowReads /\ Seals /\ AcceptedRead

LEMMA PinsStart == RowInit => Pins
<1> SUFFICES ASSUME RowInit PROVE Pins
  OBVIOUS
<1>1. RowWalk /\ FoundOut /\ RowReads /\ AcceptedRead
  BY DEF RowInit, RowWalk, FoundOut, RowReads, AcceptedRead
<1>2. Seals
  BY DEF RowInit, Seals, SealOK, Fresh, File, Artifacts
<1> QED BY <1>1, <1>2 DEF Pins

LEMMA RowWalkStep ==
  ASSUME RowInv, Pins, [RowNext]_rowvars
  PROVE  RowWalk'
<1> USE DEF Pins
<1>1. CASE Copy
  <2>1. /\ mode = "baseline" => todo' = <<Producer>>
        /\ mode = "interpreted" => todo' \in {<<"run">>, <<"check">>}
        /\ mode = "compiled" => todo' = <<"transpile", Producer>>
    BY <1>1 DEF Copy, Commands
  <2>2. mode \in {"baseline", "interpreted", "compiled"} /\ UNCHANGED <<mode, case>>
    BY <1>1 DEF Copy, RowInv, RowTypeOK, Modes
  <2>3. \A x, y : <<x>> # <<>> /\ <<x, y>> # <<>>
    OBVIOUS
  <2>4. todo' # <<>> /\ step' = "before" /\ Producer' = Producer
    BY <1>1, <2>1, <2>2, <2>3 DEF Copy, Producer
  <2> QED BY <2>1, <2>2, <2>4 DEF RowWalk
<1>2. CASE Judge
  <2>1. /\ step = "reported" /\ todo # <<>> /\ UNCHANGED <<mode, case>>
        /\ step' \in {"before", "leaving"} /\ todo' \in {todo, Tail(todo)}
        /\ step' = "before" => Len(todo) > 1
    BY <1>2 DEF Judge
  <2>2. CASE mode = "compiled"
    <3>1. todo \in {<<"transpile", Producer>>, <<Producer>>}
      BY <2>1, <2>2 DEF RowInv, Generated
    <3>2. step' = "before" => todo' # <<>>
      BY <1>2, <2>1, <3>1 DEF Judge
    <3> QED BY <2>1, <2>2, <3>2 DEF RowWalk
  <2>3. CASE mode # "compiled"
    <3>1. /\ todo \in {<<Producer>>, <<"run">>, <<"check">>} /\ mode \in {"baseline", "interpreted"}
          /\ mode = "baseline" => todo = <<Producer>>
          /\ mode = "interpreted" => todo \in {<<"run">>, <<"check">>}
      BY <2>1, <2>3 DEF RowWalk, RowInv, RowTypeOK, Modes
    <3> PICK x : todo = <<x>>
      BY <3>1
    <3>2. Len(<<x>>) = 1 /\ Tail(<<x>>) = <<>>
      OBVIOUS
    <3>3. step' = "leaving" /\ todo' \in {todo, <<>>}
      <4>1. ~(Len(<<x>>) > 1)
        BY <3>2
      <4> QED BY <2>1, <3>2, <4>1
    <3> QED BY <2>1, <3>1, <3>3 DEF RowWalk, Producer
  <2> QED BY <2>2, <2>3
<1>3. CASE Detach
  BY <1>3 DEF Detach, RowWalk, Producer, RunsNatively, progress
<1>4. CASE Check
  BY <1>4 DEF Check, RowWalk, Producer
<1>5. ASSUME NEW end \in End, NEW seen, NEW left, Perform(end, seen, left)
      PROVE  RowWalk'
  BY <1>5 DEF Perform, RowWalk, Producer, progress
<1>6. CASE Append1
  BY <1>6 DEF Append1, RowWalk, Producer, progress
<1>7. CASE step' \in {"copying", "refused", "crashed"} \/ Close
  BY <1>7 DEF Close, RowWalk, progress
<1>8. CASE Leave \/ JudgeNative
  BY <1>8 DEF Leave, JudgeNative, Following, RowWalk
<1>9. CASE UNCHANGED <<step, mode, todo, case>>
  BY <1>9 DEF RowWalk, Producer
<1> QED BY <1>1, <1>2, <1>3, <1>4, <1>5, <1>6, <1>7, <1>8, <1>9, RowCases
        DEF AppendFails, Refuse, Unconfigured, Accept, Escape, Crash, Emit, Alter, progress,
            rowvars

LEMMA FoundOutStep ==
  ASSUME RowInv, Pins, [RowNext]_rowvars
  PROVE  FoundOut'
<1> SUFFICES ASSUME NEW m \in Modes, state'[m] # "complete"
             PROVE  Behind(m)' \/ (m = mode /\ step \in {"leaving"} \cup Halted)'
  BY DEF FoundOut
<1> USE DEF FoundOut, Pins, Behind, Halted, Modes, RowWalk
<1>1. state \in [Modes -> {"complete", "input_mutation", "stage_failure",
                          "missing_artifact", "invalid_source_map"}] /\ mode \in Modes
  BY DEF RowInv, RowTypeOK
<1>2. CASE Check
  BY <1>1, <1>2 DEF Check
<1>3. CASE Judge
  <2>1. PICK fate \in Fates :
          /\ state' = [state EXCEPT ![mode] = fate]
          /\ fate # "complete" => step' = "leaving"
    BY <1>3 DEF Judge
  <2>2. UNCHANGED mode /\ step = "reported"
    BY <1>3 DEF Judge
  <2> QED BY <1>1, <2>1, <2>2
<1>4. CASE Leave \/ JudgeNative
  <2>1. /\ Following /\ step \in {"leaving", "reported"}
        /\ \A n \in Modes : n # mode => state'[n] = state[n]
    BY <1>1, <1>4 DEF Leave, JudgeNative
  <2> QED BY <1>1, <2>1 DEF Following
<1>5. ASSUME NEW n \in Modes, Emit(n)
      PROVE  FALSE
  BY <1>5 DEF Emit
<1>6. CASE UNCHANGED <<state, mode>> /\ step' = step
  BY <1>6
<1>7. CASE UNCHANGED <<state, mode>> /\ step \notin {"leaving", "closing", "sealed"} \cup Halted
  BY <1>7
<1>8. CASE UNCHANGED <<state, mode>> /\ step' \in Halted
  BY <1>1, <1>8
<1>9. CASE Detach \/ Close
  BY <1>1, <1>9 DEF Detach, Close, progress
<1> QED BY <1>2, <1>3, <1>4, <1>5, <1>6, <1>7, <1>8, <1>9, RowCases
        DEF Copy, Append1, AppendFails, Refuse, Unconfigured, Accept, Escape, Crash, Perform,
            Alter, progress, rowvars

\* What is found out stays so, until the next child.
LEMMA FoundStays ==
  ASSUME RowInv, Pins, [RowNext]_rowvars, \A m \in Modes : ~Emit(m),
         NEW m \in Modes, state[m] # "complete"
  PROVE  state'[m] # "complete"
<1>1. m = mode => step \notin {"before", "reported"}
  BY DEF Pins, FoundOut, Behind, Halted, Modes
<1>2. state'[m] # "complete"
  <2>1. CASE Check \/ Judge \/ JudgeNative
    <3>1. step \in {"before", "reported"} /\ \A n \in Modes : n # mode => state'[n] = state[n]
      <4>1. /\ step \in {"before", "reported"}
            /\ (\E s : state' = [state EXCEPT ![mode] = s]) \/ UNCHANGED state
        BY <2>1 DEF Check, Judge, JudgeNative
      <4> QED BY <4>1 DEF RowInv, RowTypeOK
    <3> QED BY <1>1, <3>1
  <2>2. CASE Leave
    BY <2>2 DEF Leave, RowInv, RowTypeOK
  <2>3. CASE UNCHANGED state
    BY <2>3
  <2> QED BY <2>1, <2>2, <2>3, RowCases
          DEF Copy, Append1, AppendFails, Detach, Close, Refuse, Unconfigured, Accept, Escape,
              Crash, Perform, Alter, progress, rowvars
<1> QED BY <1>2

LEMMA BrokenStays ==
  ASSUME RowInv, Pins, [RowNext]_rowvars, Broken, \A m \in Modes : ~Emit(m)
  PROVE  Broken'
  BY FoundStays DEF Broken

\* The stage under way, and what it leaves.
LEMMA StageWalk ==
  ASSUME RowInv, Pins, step \in {"before", "spawned", "exited", "reported"}
  PROVE  /\ Stage = "run" /\ mode # "interpreted" => todo = <<>>
         /\ todo = <<>> => Stage = "run" /\ mode # "interpreted"
         /\ mode = "compiled" /\ Stage \in {"build", "compile"} => todo = <<Producer>>
         /\ mode = "compiled" /\ Stage = "transpile" => todo = <<"transpile", Producer>>
<1>1. Producer \in {"build", "compile"} /\ mode \in {"baseline", "interpreted", "compiled"}
  BY DEF Producer, RowInv, RowTypeOK, Modes
<1>2. CASE mode = "compiled"
  <2>1. todo \in {<<"transpile", Producer>>, <<Producer>>, <<>>}
    BY <1>2 DEF RowInv, Generated
  <2> QED BY <1>1, <1>2, <2>1 DEF Stage
<1>3. CASE mode = "baseline"
  <2>1. todo \in {<<Producer>>, <<>>}
    BY <1>3 DEF Pins, RowWalk
  <2> QED BY <1>1, <1>3, <2>1 DEF Stage
<1>4. CASE mode = "interpreted"
  <2>1. todo \in {<<"run">>, <<"check">>, <<>>} /\ todo # <<>>
    BY <1>4 DEF Pins, RowWalk
  <2> QED BY <1>1, <1>4, <2>1 DEF Stage
<1> QED BY <1>1, <1>2, <1>3, <1>4

\* What is made for the stage to read is not what it makes.
LEMMA NotMadeAgain ==
  ASSUME RowInv, Pins, step \in {"before", "spawned", "exited", "reported"},
         NEW f \in Artifacts, MadeFor(f)
  PROVE  f \notin Output(mode, Stage)
<1>1. mode \in {"baseline", "interpreted", "compiled"}
  BY DEF RowInv, RowTypeOK, Modes
<1>2. CASE f = "reference"
  <2>1. CASE mode # "baseline"
    BY <1>2, <2>1 DEF Output, Product
  <2>2. CASE todo = <<>>
    BY <1>2, <2>2 DEF Output, Stage
  <2> QED BY <1>2, <2>1, <2>2 DEF MadeFor
<1>3. CASE f = "generated"
  <2>1. Stage # "transpile"
    <3>1. todo \in {<<Producer>>, <<>>} /\ Producer # "transpile"
      BY <1>3 DEF MadeFor, Producer
    <3> QED BY <3>1 DEF Stage
  <2> QED BY <1>3, <2>1 DEF Output, Product
<1>4. CASE f = "product"
  <2>1. todo = <<>>
    BY <1>4 DEF MadeFor
  <2> QED BY <1>4, <2>1 DEF Output, Stage
<1> QED BY <1>2, <1>3, <1>4 DEF Artifacts

LEMMA AcceptedReadStep ==
  ASSUME RowInv, Pins, [RowNext]_rowvars
  PROVE  AcceptedRead'
<1> USE DEF Pins, AcceptedRead
<1>1. CASE Accept
  <2>1. /\ step = "sealed" /\ Valid /\ UNCHANGED <<step, reads, seal>>
    BY <1>1 DEF Accept
  <2>2. /\ ~Broken /\ disk["tools"] = "own" /\ \A f \in Artifacts : disk[f] = seal[f]
    BY <2>1 DEF Valid, Broken
  <2>3. ASSUME NEW r \in reads
        PROVE  r[2] = IF r[1] \in Artifacts THEN seal[r[1]] ELSE "own"
    <3>1. ReadOK(r[1], r[2])
      BY <2>2 DEF RowReads
    <3>2. CASE r[1] \in Artifacts
      BY <2>2, <3>1, <3>2 DEF ReadOK
    <3>3. CASE r[1] \notin Artifacts
      BY <2>1, <2>2, <3>1, <3>3 DEF ReadOK, Halted
    <3> QED BY <3>2, <3>3
  <2> QED BY <2>1, <2>3 DEF AcceptedIsPinned
<1>2. CASE UNCHANGED <<accepted, reads, seal>> /\ step' \in {step} \cup Halted
  BY <1>2 DEF AcceptedIsPinned, Halted
<1>3. CASE step \notin {"sealed"} \cup Halted /\ UNCHANGED accepted
  BY <1>3
<1>4. ASSUME NEW n \in Modes, Emit(n)
      PROVE  AcceptedRead'
  BY <1>4 DEF Emit
<1> QED BY <1>1, <1>2, <1>3, <1>4, RowCases
        DEF Copy, Check, Append1, AppendFails, Judge, Leave, Detach, JudgeNative, Close,
            Refuse, Unconfigured, Escape, Crash, Perform, Alter, Halted, judged, rowvars

\* An artifact is recorded as it is, unless it was altered, or is still to be
\* judged.
LEMMA SealsStep ==
  ASSUME RowInv, Pins, [RowNext]_rowvars
  PROVE  Seals'
<1>1. ASSUME NEW n \in Modes, Emit(n)
      PROVE  Seals'
  <2>1. seal' = [f \in Artifacts |-> "none"] /\ \A f \in Artifacts : disk'[f] = "none"
    BY <1>1 DEF Emit, Fresh, File, Artifacts
  <2> QED BY <2>1 DEF Seals, SealOK
<1> SUFFICES ASSUME \A n \in Modes : ~Emit(n), ~Broken, ~Broken'
             PROVE  Seals'
  BY <1>1, BrokenStays DEF Seals
<1> SUFFICES ASSUME NEW f \in Artifacts
             PROVE  SealOK(f)'
  BY DEF Seals
<1>2. SealOK(f)
  BY DEF Pins, Seals
<1>3. disk \in [File -> Version] /\ seal \in [Artifacts -> Version] /\ f \in File
      /\ f \notin {"work", "assets", "tools"}
  BY DEF RowInv, RowTypeOK, File, Artifacts
<1>4. CASE Copy \/ Detach
  <2>1. disk'[f] = disk[f] /\ seal' = seal /\ step \in {"copying", "leaving"}
    BY <1>3, <1>4 DEF Copy, Detach
  <2> QED BY <1>2, <2>1 DEF SealOK, Halted
<1>5. ASSUME NEW end \in End, NEW seen, NEW left, Perform(end, seen, left)
      PROVE  SealOK(f)'
  <2>1. /\ step = "spawned" /\ step' = "exited" /\ UNCHANGED <<mode, todo, seal>>
        /\ disk'[f] = IF f \in Output(mode, Stage) THEN left ELSE disk[f]
    BY <1>3, <1>5 DEF Perform, progress
  <2>2. Output(mode, Stage)' = Output(mode, Stage)
    BY <1>5, <2>1 DEF Perform, progress, Output, Stage, Product
  <2> QED BY <1>2, <2>1, <2>2 DEF SealOK, Halted
<1>6. CASE Judge
  <2>1. PICK fate \in Fates :
          /\ state' = [state EXCEPT ![mode] = fate]
          /\ IF fate = "complete" /\ ended.end = "zero"
             THEN seal' = [g \in Artifacts |-> IF g \in Output(mode, Stage)
                                               THEN disk[g] ELSE seal[g]]
             ELSE UNCHANGED seal
    BY <1>6 DEF Judge
  <2>2. fate = "complete"
    BY <2>1 DEF Broken, RowInv, RowTypeOK
  <2>3. ended.end # "zero" => Output(mode, Stage) = {}
    <3>1. ended.end # "zero" => Stage = "run"
      BY <2>2 DEF Fates
    <3> QED BY <3>1 DEF Output
  <2>4. disk' = disk /\ step = "reported"
    BY <1>6 DEF Judge
  <2> QED BY <1>2, <2>1, <2>2, <2>3, <2>4 DEF SealOK, Halted
<1>7. ASSUME NEW g \in File, Alter(g)
      PROVE  SealOK(f)'
  <2>1. /\ disk'[f] \in {disk[f], "foreign"} /\ UNCHANGED <<seal, step, mode, todo>>
        /\ Output(mode, Stage)' = Output(mode, Stage)
    BY <1>3, <1>7 DEF Alter, progress, Output, Stage, Product
  <2> QED BY <1>2, <2>1 DEF SealOK
<1>8. CASE /\ UNCHANGED <<disk, seal, mode, todo>>
           /\ step' = step \/ step' \in {"reported"} \cup Halted
  <2>1. Output(mode, Stage)' = Output(mode, Stage)
    BY <1>8 DEF Output, Stage, Product
  <2> QED BY <1>2, <1>8, <2>1 DEF SealOK, Halted
<1>9. CASE UNCHANGED <<disk, seal>> /\ step \notin {"exited", "reported"} \cup Halted
  BY <1>2, <1>9 DEF SealOK
<1>10. CASE JudgeNative
  <2>1. Output(mode, Stage) = {} /\ UNCHANGED <<disk, seal>> /\ step = "reported"
    BY <1>10 DEF JudgeNative, Stage, Output
  <2> QED BY <1>2, <2>1 DEF SealOK, Halted
<1> QED BY <1>4, <1>5, <1>6, <1>7, <1>8, <1>9, <1>10, RowCases
        DEF Check, Append1, AppendFails, Leave, Close, Refuse, Unconfigured, Accept, Escape,
            Crash, Halted, progress, rowvars

\* Something that was read stays as it was recorded, or the disk shows that it
\* did not.
LEMMA RowReadsStep ==
  ASSUME RowInv, Pins, [RowNext]_rowvars
  PROVE  RowReads'
<1>1. ASSUME NEW n \in Modes, Emit(n)
      PROVE  RowReads'
  BY <1>1 DEF Emit, RowReads
<1> SUFFICES ASSUME \A n \in Modes : ~Emit(n), ~Broken, ~Broken'
             PROVE  RowReads'
  BY <1>1, BrokenStays DEF RowReads
<1>2. /\ disk \in [File -> Version] /\ seal \in [Artifacts -> Version]
      /\ Artifacts \subseteq File /\ {"tools", "work"} \subseteq File
      /\ \A f \in Artifacts : f \notin {"work", "assets", "tools"}
      /\ mode \in {"baseline", "interpreted", "compiled"}
  BY DEF RowInv, RowTypeOK, File, Inputs, Artifacts, Modes
<1>3. \A r \in reads : ReadOK(r[1], r[2])
  BY DEF Pins, RowReads
<1>4. ASSUME NEW f, NEW v, ReadOK(f, v)
      PROVE  ReadOK(f, v)'
  <2> USE DEF ReadOK
  <2>1. CASE f \in Artifacts
    <3>1. MadeFor(f)'
      <4>1. MadeFor(f) /\ Producer \in {"build", "compile"}
        BY <1>4, <2>1 DEF Producer
      <4>2. CASE UNCHANGED <<mode, todo, case>> /\ (step' # "copying" \/ UNCHANGED step)
        <5>1. Producer' = Producer
          BY <4>2 DEF Producer
        <5> QED BY <2>1, <4>1, <4>2, <5>1 DEF MadeFor, Artifacts
      <4>3. CASE Copy
        <5>1. step = "copying" /\ step' = "before" /\ UNCHANGED mode
          BY <4>3 DEF Copy
        <5> QED BY <2>1, <4>1, <5>1 DEF MadeFor, Artifacts
      <4>4. CASE Judge
        <5>1. /\ todo # <<>> /\ UNCHANGED <<mode, case>> /\ todo' \in {todo, Tail(todo)}
              /\ step' # "copying"
          BY <4>4 DEF Judge
        <5>2. todo = <<Producer>> => Tail(todo) = <<>>
          OBVIOUS
        <5>3. Producer' = Producer
          BY <5>1 DEF Producer
        <5> QED BY <2>1, <4>1, <5>1, <5>2, <5>3 DEF MadeFor, Artifacts
      <4>5. CASE Leave \/ JudgeNative
        <5>1. Following /\ UNCHANGED <<todo, case>> /\ step # "copying"
          BY <4>5 DEF Leave, JudgeNative
        <5>2. Producer' = Producer
          BY <5>1 DEF Producer
        <5> QED BY <2>1, <4>1, <5>1, <5>2 DEF MadeFor, Following, Artifacts
      <4> QED BY <4>2, <4>3, <4>4, <4>5, RowCases
              DEF Check, Append1, AppendFails, Detach, Close, Refuse, Unconfigured, Accept,
                  Escape, Crash, Perform, Alter, progress, rowvars
    <3>2. v = seal'[f] \/ (disk'[f] = "foreign" /\ seal'[f] # "foreign")
      <4>1. MadeFor(f) /\ (v = seal[f] \/ (disk[f] = "foreign" /\ seal[f] # "foreign"))
        BY <1>4, <2>1
      <4>2. seal'[f] = seal[f]
        <5>1. CASE Judge
          <6>1. f \notin Output(mode, Stage)
            BY <2>1, <4>1, <5>1, NotMadeAgain DEF Judge
          <6> QED BY <1>2, <2>1, <5>1, <6>1 DEF Judge
        <5>2. CASE UNCHANGED seal
          BY <5>2
        <5> QED BY <5>1, <5>2, RowCases
                DEF Copy, Check, Append1, AppendFails, Leave, Detach, JudgeNative, Close,
                    Refuse, Unconfigured, Accept, Escape, Crash, Perform, Alter, rowvars
      <4>3. disk[f] = "foreign" => disk'[f] = "foreign"
        <5>1. ASSUME NEW end \in End, NEW seen, NEW left, Perform(end, seen, left)
              PROVE  disk'[f] = disk[f]
          <6>1. f \notin Output(mode, Stage)
            BY <2>1, <4>1, <5>1, NotMadeAgain DEF Perform
          <6> QED BY <1>2, <2>1, <5>1, <6>1 DEF Perform
        <5>2. CASE Copy \/ Detach
          BY <1>2, <2>1, <5>2 DEF Copy, Detach
        <5>3. ASSUME NEW g \in File, Alter(g)
              PROVE  disk'[f] \in {disk[f], "foreign"}
          BY <1>2, <2>1, <5>3 DEF Alter
        <5>4. CASE UNCHANGED disk
          BY <5>4
        <5> QED BY <5>1, <5>2, <5>3, <5>4, RowCases
                DEF Check, Append1, AppendFails, Judge, Leave, JudgeNative, Close, Refuse,
                    Unconfigured, Accept, Escape, Crash, rowvars
      <4> QED BY <4>1, <4>2, <4>3
    <3> QED BY <1>2, <2>1, <3>1, <3>2
  <2>2. CASE f = "tools"
    <3>1. disk'["tools"] = disk["tools"] \/ disk'["tools"] = "foreign"
      <4>1. CASE Copy \/ Detach
        BY <1>2, <4>1 DEF Copy, Detach
      <4>2. ASSUME NEW end \in End, NEW seen, NEW left, Perform(end, seen, left)
            PROVE  disk'["tools"] = disk["tools"]
        BY <1>2, <4>2, OutputTyped DEF Perform
      <4>3. ASSUME NEW g \in File, Alter(g)
            PROVE  disk'["tools"] \in {disk["tools"], "foreign"}
        BY <1>2, <4>3 DEF Alter
      <4>4. CASE UNCHANGED disk
        BY <4>4
      <4> QED BY <4>1, <4>2, <4>3, <4>4, RowCases
              DEF Check, Append1, AppendFails, Judge, Leave, JudgeNative, Close, Refuse,
                  Unconfigured, Accept, Escape, Crash, rowvars
    <3> QED BY <1>2, <1>4, <2>2, <3>1
  <2>3. CASE f = "work" /\ v = "own"
    BY <1>2, <2>3
  <2>4. CASE f = "work" /\ v # "own"
    <3>1. disk["work"] # "own" /\ todo # <<>> /\ step \in {"exited", "reported"} \cup Halted
      BY <1>4, <2>4
    <3>2. ~Judge
      <4>1. Judge => Fates = {"input_mutation"}
        BY <3>1 DEF Fates
      <4>2. Judge => state'[mode] = "input_mutation"
        BY <4>1 DEF Judge, RowInv, RowTypeOK
      <4> QED BY <4>2 DEF Broken, RowInv, RowTypeOK
    <3>3. /\ UNCHANGED todo /\ disk'["work"] # "own"
          /\ step' \in {"exited", "reported"} \cup Halted
      <4>1. CASE \/ Append1 \/ AppendFails \/ Refuse \/ Accept \/ Escape \/ Crash
                 \/ UNCHANGED rowvars
        BY <3>1, <4>1
           DEF Append1, AppendFails, Refuse, Accept, Escape, Crash, Halted, progress, rowvars
      <4>2. ASSUME NEW g \in File, Alter(g)
            PROVE  UNCHANGED <<todo, step>> /\ disk'["work"] # "own"
        BY <1>2, <3>1, <4>2 DEF Alter, progress
      <4>3. ~Copy /\ ~Check /\ ~Leave /\ ~Detach /\ ~Close /\ ~Unconfigured /\ ~JudgeNative
        <5>1. step \notin {"copying", "before", "leaving", "closing", "spawned"}
          BY <3>1 DEF Halted
        <5>2. ~Copy /\ ~Check
          BY <5>1 DEF Copy, Check
        <5>3. ~Leave /\ ~Detach
          BY <5>1 DEF Leave, Detach
        <5>4. ~Close /\ ~Unconfigured
          BY <5>1 DEF Close, Unconfigured
        <5>5. ~JudgeNative
          BY <3>1 DEF JudgeNative
        <5> QED BY <5>2, <5>3, <5>4, <5>5
      <4>4. \A end, seen, left : ~Perform(end, seen, left)
        BY <3>1 DEF Perform, Halted
      <4>5. (\E g \in File : Alter(g)) => /\ UNCHANGED todo /\ disk'["work"] # "own"
                                         /\ step' \in {"exited", "reported"} \cup Halted
        BY <3>1, <4>2
      <4> QED BY <3>2, <4>1, <4>3, <4>4, <4>5, RowCases, Zenon
    <3>4. f \notin Artifacts /\ f # "tools" /\ todo # <<>>
      BY <1>2, <2>4, <3>1
    <3> QED BY <2>4, <3>3, <3>4
  <2> QED BY <1>4, <2>1, <2>2, <2>3, <2>4
<1>5. ASSUME NEW end \in End, NEW seen, NEW left, Perform(end, seen, left),
             NEW f \in Input(mode, Stage), NEW v, v = disk[f]
      PROVE  ReadOK(f, v)'
  <2>1. /\ step = "spawned" /\ step' = "exited" /\ UNCHANGED <<mode, todo, case, seal>>
        /\ \A g \in File : disk'[g] = IF g \in Output(mode, Stage) THEN left ELSE disk[g]
    BY <1>5 DEF Perform, progress
  <2>2. CASE Stage = "run" /\ mode # "interpreted"
    <3>1. todo = <<>> /\ f = Product(mode) /\ Output(mode, Stage) = {}
      BY <1>5, <2>1, <2>2, StageWalk DEF Input, Output
    <3>2. f \in Artifacts /\ MadeFor(f)'
      BY <1>2, <2>1, <2>2, <3>1 DEF MadeFor, Product, Artifacts
    <3>3. v = seal[f] \/ (disk[f] = "foreign" /\ seal[f] # "foreign")
      BY <1>5, <2>1, <3>1, <3>2 DEF Pins, Seals, SealOK, Halted
    <3> QED BY <1>2, <2>1, <3>1, <3>2, <3>3 DEF ReadOK
  <2>3. CASE Stage \in {"build", "compile"} /\ mode = "compiled"
    <3>1. todo = <<Producer>> /\ f \in {"tools", "generated"} /\ Output(mode, Stage) = {"product"}
      BY <1>5, <2>1, <2>3, StageWalk DEF Input, Output, Product
    <3>2. CASE f = "tools"
      BY <1>2, <1>5, <2>1, <3>1, <3>2 DEF ReadOK
    <3>3. CASE f = "generated"
      <4>1. f \in Artifacts /\ MadeFor(f)'
        BY <2>1, <2>3, <3>1, <3>3 DEF MadeFor, Producer, Artifacts
      <4>2. v = seal[f] \/ (disk[f] = "foreign" /\ seal[f] # "foreign")
        BY <1>5, <2>1, <3>1, <3>3, <4>1 DEF Pins, Seals, SealOK, Halted
      <4> QED BY <1>2, <2>1, <3>1, <3>3, <4>1, <4>2 DEF ReadOK
    <3> QED BY <3>1, <3>2, <3>3
  <2>4. CASE /\ ~(Stage = "run" /\ mode # "interpreted")
             /\ ~(Stage \in {"build", "compile"} /\ mode = "compiled")
    <3>1. f \in {"tools", "work"} /\ todo # <<>>
      BY <1>5, <2>1, <2>4, StageWalk DEF Input
    <3>2. f \notin Artifacts /\ disk'[f] = disk[f]
      BY <1>2, <2>1, <3>1, OutputTyped
    <3> QED BY <1>5, <2>1, <3>1, <3>2 DEF ReadOK
  <2> QED BY <2>2, <2>3, <2>4
<1>6. ASSUME NEW r \in reads'
      PROVE  ReadOK(r[1], r[2])'
  <2> PICK f, v : f = r[1] /\ v = r[2]
    OBVIOUS
  <2>1. CASE r \in reads
    BY <1>3, <1>4, <2>1
  <2>2. CASE r \notin reads
    <3>1. PICK end \in End, seen \in {"same", "odd"}, left \in Version : Perform(end, seen, left)
      <4>1. reads' # reads
        BY <2>2
      <4> QED BY <4>1, RowCases
         DEF Copy, Check, Append1, AppendFails, Judge, Leave, Detach, JudgeNative, Close,
             Refuse, Unconfigured, Accept, Escape, Crash, Alter, rowvars
    <3>2. r \in {<<g, disk[g]>> : g \in Input(mode, Stage)}
      BY <2>2, <3>1 DEF Perform
    <3> QED BY <1>5, <3>1, <3>2
  <2> QED BY <2>1, <2>2
<1> QED BY <1>6 DEF RowReads

LEMMA PinsInvariant == RowSpec => [](RowInv /\ Pins)
<1>1. RowInit => RowInv /\ Pins
  BY RowStarts, PinsStart
<1>2. RowInv /\ Pins /\ [RowNext]_rowvars => (RowInv /\ Pins)'
  <2>1. RowInv /\ [RowNext]_rowvars => RowInv'
    BY RowTypeStep, DataStep, OrderStep, JoinStep, GeneratedStep, RunsStep DEF RowInv
  <2>2. RowInv /\ Pins /\ [RowNext]_rowvars => Pins'
    BY RowWalkStep, FoundOutStep, SealsStep, RowReadsStep, AcceptedReadStep DEF Pins
  <2> QED BY <2>1, <2>2
<1> QED BY <1>1, <1>2, PTL DEF RowSpec

\* A row that somebody accepts was executed from exactly the inputs and artifacts
\* its result records, whatever was altered and whenever.
THEOREM AcceptedIsPinnedHolds == RowSpec => []AcceptedIsPinned
<1>1. Pins => AcceptedIsPinned
  BY DEF Pins, AcceptedRead, AcceptedIsPinned
<1> QED BY PinsInvariant, <1>1, PTL

----------------------------------------------------------------------------
(***************************************************************************)
(* A row that passed is accepted.                                          *)
(***************************************************************************)
\* What only an alteration changes.
Steady == \A f \in {"upstream", "tools", "streams", "past"} : disk[f] \in {"own", "foreign"}

\* A child has a name of its own.
Named == case.name \notin queue /\ \A i \in 1..Len(ledger) : ledger[i].case \notin queue

\* Still to be made in this case.
Making == {"before", "spawned", "exited"}
Ahead(f) ==
  \/ /\ f = "reference" /\ mode = "baseline"
     /\ step = "copying" \/ (todo # <<>> /\ step \in Making)
  \/ /\ f = "generated"
     /\ \/ mode # "compiled" \/ step = "copying"
        \/ todo = <<"transpile", Producer>> /\ step \in Making
  \/ /\ f = "product"
     /\ \/ mode # "compiled" \/ step = "copying"
        \/ todo = <<"transpile", Producer>> \/ (todo = <<Producer>> /\ step \in Making)

\* What the records of this case hash is made, and as it was hashed.
Hashed == \A i \in 1..Len(ledger) : ledger[i].case = case.name =>
            \A f \in DOMAIN ledger[i].outputs :
              /\ f \in Artifacts /\ ~Ahead(f)
              /\ ledger[i].outputs[f] = disk[f] \/ disk[f] = "foreign"

Going == {"before", "spawned", "exited", "reported"}
Went ==
  IF mode = "compiled"
  THEN IF todo = <<>> THEN <<"transpile", Producer>>
       ELSE IF todo = <<Producer>> THEN <<"transpile">> ELSE <<>>
  ELSE IF todo = <<>> THEN <<Producer>> ELSE <<>>

\* The stages of a mode that was not found out.
Stages(m) ==
  /\ m = mode /\ step = "copying" => StageNames(m) = <<>>
  /\ m = mode /\ step \in Going => StageNames(m) = Went
  /\ m = mode /\ step = "leaving" => StageNames(m) = Commands(m)
  /\ Behind(m) => StageNames(m) = Wanted(m)
  /\ m # mode /\ ~Behind(m) => StageNames(m) = <<>>

\* How they ended, and that what they left is recorded.
Ends(m) == \A i \in 1..Len(trace[m]) :
  /\ trace[m][i].end = "zero" \/ (trace[m][i].stage = "run" /\ trace[m][i].end \in Exited)
  /\ \A f \in Output(m, trace[m][i].stage) : seal[f] # "none"

Trails ==
  /\ \A m \in Modes : state[m] = "complete" => Stages(m) /\ Ends(m)
  /\ step \in {"spawned", "exited", "reported"} /\ todo = <<>> => case.phase = "run"
  /\ step \in Going /\ mode = "interpreted" => todo = Commands(mode)
  /\ step = "leaving" /\ mode # "interpreted" /\ state[mode] = "complete" => todo = <<>>
  /\ step = "sealed" => verdict = Verdict

Passing == Steady /\ Named /\ Hashed /\ Trails

----------------------------------------------------------------------------
LEMMA SteadyStep ==
  ASSUME RowInv, Steady, [RowNext]_rowvars
  PROVE  Steady'
<1> SUFFICES ASSUME NEW f \in {"upstream", "tools", "streams", "past"}
             PROVE  disk'[f] \in {"own", "foreign"}
  BY DEF Steady
<1>1. /\ disk \in [File -> Version] /\ f \in File /\ f \notin Artifacts \cup {"work", "assets"}
      /\ disk[f] \in {"own", "foreign"}
  BY DEF RowInv, RowTypeOK, File, Inputs, Artifacts, Steady
<1>2. CASE Copy \/ Detach
  BY <1>1, <1>2 DEF Copy, Detach
<1>3. ASSUME NEW end \in End, NEW seen, NEW left, Perform(end, seen, left)
      PROVE  disk'[f] = disk[f]
  BY <1>1, <1>3, OutputTyped DEF Perform
<1>4. ASSUME NEW m \in Modes, Emit(m)
      PROVE  disk'[f] \in {"own", "foreign"}
  <2>1. disk["tools"] \in {"own", "foreign"}
    BY DEF Steady
  <2>2. /\ disk' = [Fresh EXCEPT !["tools"] = disk["tools"],
                                 !["past"] = IF Authentic THEN "own" ELSE "foreign"]
        /\ Fresh[f] = "own" /\ DOMAIN Fresh = File
    BY <1>1, <1>4 DEF Emit, Fresh
  <2> QED BY <1>1, <2>1, <2>2
<1>5. ASSUME NEW g \in File, Alter(g)
      PROVE  disk'[f] \in {disk[f], "foreign"}
  BY <1>1, <1>5 DEF Alter
<1>6. CASE UNCHANGED disk
  BY <1>1, <1>6
<1> QED BY <1>1, <1>2, <1>3, <1>4, <1>5, <1>6, RowCases
        DEF Check, Append1, AppendFails, Judge, Leave, JudgeNative, Close, Refuse,
            Unconfigured, Accept, Escape, Crash, rowvars

\* The ledger is only appended to.
LEMMA LedgerStep ==
  ASSUME RowInv, [RowNext]_rowvars
  PROVE  \/ UNCHANGED ledger
         \/ /\ Append1 \/ AppendFails
            /\ ledger' = Append(ledger, Record) /\ Len(ledger') = Len(ledger) + 1
            /\ ledger'[Len(ledger) + 1] = Record
            /\ \A i \in 1..Len(ledger) : ledger'[i] = ledger[i]
<1>1. CASE ledger' = Append(ledger, Record) /\ (Append1 \/ AppendFails)
  BY <1>1, RecordTyped DEF RowInv, RowDataOK
<1> QED BY <1>1, RowCases
        DEF Copy, Check, Append1, AppendFails, Judge, Leave, Detach, JudgeNative, Close,
            Refuse, Unconfigured, Accept, Escape, Crash, Perform, Emit, Alter, lineage,
            rowvars

LEMMA NamedStep ==
  ASSUME RowInv, Named, [RowNext]_rowvars
  PROVE  Named'
<1>1. queue' \subseteq queue /\ case'.name \notin queue'
  <2>1. CASE Close
    BY <2>1 DEF Close, Named
  <2>2. ASSUME NEW m \in Modes, Emit(m)
        PROVE  queue' \subseteq queue /\ case'.name \notin queue'
    BY <2>2 DEF Emit
  <2>3. CASE UNCHANGED <<queue, case>>
    BY <2>3 DEF Named
  <2> QED BY <2>1, <2>2, <2>3, RowCases
          DEF Copy, Check, Append1, AppendFails, Judge, Leave, Detach, JudgeNative, Refuse,
              Unconfigured, Accept, Escape, Crash, Perform, Alter, rowvars
<1>2. ASSUME NEW i \in 1..Len(ledger')
      PROVE  ledger'[i].case \notin queue'
  <2>1. Record.case = case.name /\ Len(ledger) \in Nat
    BY DEF Record, RowInv, RowDataOK
  <2> QED BY <1>1, <2>1, LedgerStep DEF Named
<1> QED BY <1>1, <1>2 DEF Named

\* What is made is not made again in this case.
LEMMA AheadStays ==
  ASSUME RowInv, Pins, Trails, [RowNext]_rowvars, \A m \in Modes : ~Emit(m),
         NEW f \in Artifacts, ~Ahead(f)
  PROVE  ~Ahead(f)'
<1>1. /\ mode \in {"baseline", "interpreted", "compiled"} /\ RowWalk /\ Generated
      /\ f \in {"reference", "generated", "product"} /\ Producer \in {"build", "compile"}
  BY DEF RowInv, RowTypeOK, Modes, Pins, Artifacts, Producer
<1>2. UNCHANGED case => Producer' = Producer
  BY DEF Producer
<1>3. CASE Copy
  BY <1>1, <1>2, <1>3 DEF Copy, Ahead
<1>4. CASE Check \/ Append1 \/ AppendFails
  BY <1>1, <1>2, <1>4 DEF Check, Append1, AppendFails, Ahead, Making, progress
<1>5. ASSUME NEW end, NEW seen, NEW left, Perform(end, seen, left)
      PROVE  ~Ahead(f)'
  BY <1>1, <1>2, <1>5 DEF Perform, Ahead, Making, progress
<1>6. CASE Judge
  <2>1. /\ step = "reported" /\ todo # <<>> /\ UNCHANGED <<mode, case>>
        /\ todo' \in {todo, Tail(todo)} /\ step' \in {"before", "leaving"}
        /\ step' = "before" => Len(todo) > 1 /\ todo' = Tail(todo)
    BY <1>6 DEF Judge
  <2>2. CASE mode = "compiled"
    <3>1. todo \in {<<"transpile", Producer>>, <<Producer>>}
      BY <1>1, <2>1, <2>2 DEF Generated
    <3>2. \A x, y : /\ Tail(<<x, y>>) = <<y>> /\ <<x, y>> # <<y>>
                   /\ Tail(<<y>>) = <<>> /\ ~(Len(<<y>>) > 1) /\ <<y>> # <<>>
      OBVIOUS
    <3>3. CASE todo = <<"transpile", Producer>>
      BY <1>1, <1>2, <2>1, <2>2, <3>2, <3>3 DEF Ahead, Making
    <3>4. CASE todo = <<Producer>>
      <4>1. step' = "leaving" /\ todo' \in {<<Producer>>, <<>>}
        BY <2>1, <3>2, <3>4
      <4>2. todo' # <<"transpile", Producer>>
        BY <3>2, <4>1
      <4> QED BY <1>2, <2>1, <2>2, <4>1, <4>2 DEF Ahead, Making
    <3> QED BY <3>1, <3>3, <3>4
  <2>3. CASE mode = "baseline"
    <3>1. todo = <<Producer>> /\ ~(Len(<<Producer>>) > 1)
      BY <1>1, <2>1, <2>3 DEF RowWalk
    <3> QED BY <1>2, <2>1, <2>3, <3>1 DEF Ahead, Making
  <2>4. CASE mode = "interpreted"
    BY <2>1, <2>4 DEF Ahead
  <2> QED BY <1>1, <2>2, <2>3, <2>4
<1>7. CASE Leave \/ JudgeNative
  BY <1>1, <1>2, <1>7 DEF Leave, JudgeNative, Following, Ahead, Making
<1>8. CASE Detach
  <2>1. /\ step = "leaving" /\ step' = "spawned" /\ UNCHANGED <<mode, todo, case>>
        /\ state[mode] = "complete"
    BY <1>8 DEF Detach, progress
  <2>2. todo = <<>> /\ <<"transpile", Producer>> # <<>> /\ <<Producer>> # <<>>
    BY <1>8, <2>1 DEF Trails, Detach, RunsNatively
  <2> QED BY <1>2, <2>1, <2>2 DEF Ahead, Making
<1>9. CASE Close \/ Refuse \/ Unconfigured \/ Accept \/ Escape \/ Crash
  BY <1>2, <1>9 DEF Close, Refuse, Unconfigured, Accept, Escape, Crash, Ahead, Making, progress
<1>10. CASE (\E g \in File : Alter(g)) \/ UNCHANGED rowvars
  BY <1>2, <1>10 DEF Alter, Ahead, progress, rowvars
<1> QED BY <1>3, <1>4, <1>5, <1>6, <1>7, <1>8, <1>9, <1>10, RowCases

\* A stage makes what was ahead, and has then made it.
LEMMA MakesAhead ==
  ASSUME RowInv, Pins, step \in Going, NEW f \in Output(mode, Stage)
  PROVE  /\ f \in Artifacts
         /\ step \in Making => Ahead(f)
         /\ step' \notin {"copying"} \cup Making /\ UNCHANGED <<mode, todo, case>> => ~Ahead(f)'
<1>1. /\ mode \in {"baseline", "interpreted", "compiled"} /\ Producer \in {"build", "compile"}
      /\ \A x, y : <<x, y>> # <<y>> /\ <<x>> # <<>> /\ <<x, y>> # <<>>
  BY DEF RowInv, RowTypeOK, Modes, Producer
<1>2. f \in Artifacts /\ Stage \in {"transpile", "build", "compile"}
  BY OutputTyped DEF Output
<1>3. UNCHANGED case => Producer' = Producer
  BY DEF Producer
<1>4. CASE mode = "compiled"
  <2>1. \/ todo = <<"transpile", Producer>> /\ Stage = "transpile" /\ f = "generated"
        \/ todo = <<Producer>> /\ Stage \in {"build", "compile"} /\ f = "product"
    BY <1>2, <1>4, StageWalk DEF Going, Output, Product
  <2> QED BY <1>1, <1>2, <1>3, <1>4, <2>1 DEF Ahead, Making
<1>5. CASE mode = "baseline"
  <2>1. todo = <<Producer>>
    <3>1. todo \in {<<Producer>>, <<>>}
      BY <1>5 DEF Pins, RowWalk, Going
    <3> QED BY <1>2, <3>1 DEF Stage
  <2>2. Stage = Producer /\ f = "reference"
    BY <1>1, <1>5, <2>1 DEF Stage, Output, Product
  <2> QED BY <1>1, <1>2, <1>3, <1>5, <2>1, <2>2 DEF Ahead, Making
<1>6. CASE mode = "interpreted"
  <2>1. todo \in {<<"run">>, <<"check">>, <<>>}
    BY <1>6 DEF Pins, RowWalk, Going
  <2> QED BY <1>2, <2>1 DEF Stage
<1> QED BY <1>1, <1>4, <1>5, <1>6

LEMMA ArtifactStays ==
  ASSUME RowInv, [RowNext]_rowvars, \A m \in Modes : ~Emit(m), NEW f \in Artifacts,
         step = "spawned" => f \notin Output(mode, Stage)
  PROVE  disk'[f] \in {disk[f], "foreign"}
<1>1. disk \in [File -> Version] /\ f \in File /\ f \notin {"work", "assets"}
  BY DEF RowInv, RowTypeOK, File, Artifacts
<1>2. ASSUME NEW end \in End, NEW seen, NEW left, Perform(end, seen, left)
      PROVE  disk'[f] = disk[f]
  BY <1>1, <1>2 DEF Perform
<1>3. CASE Copy \/ Detach
  BY <1>1, <1>3 DEF Copy, Detach
<1>4. ASSUME NEW g \in File, Alter(g)
      PROVE  disk'[f] \in {disk[f], "foreign"}
  BY <1>1, <1>4 DEF Alter
<1>5. CASE UNCHANGED disk
  BY <1>5
<1> QED BY <1>2, <1>3, <1>4, <1>5, RowCases
        DEF Check, Append1, AppendFails, Judge, Leave, JudgeNative, Close, Refuse,
            Unconfigured, Accept, Escape, Crash, rowvars

\* What is hashed is not written again, unless it is altered.
LEMMA HashedStep ==
  ASSUME RowInv, Pins, Passing, [RowNext]_rowvars
  PROVE  Hashed'
<1> SUFFICES ASSUME NEW i \in 1..Len(ledger'), ledger'[i].case = case'.name,
                    NEW f \in DOMAIN ledger'[i].outputs
             PROVE  /\ f \in Artifacts /\ ~Ahead(f)'
                    /\ ledger'[i].outputs[f] = disk'[f] \/ disk'[f] = "foreign"
  BY DEF Hashed
<1>1. Hashed /\ Named /\ Trails /\ Len(ledger) \in Nat
  BY DEF Passing, RowInv, RowDataOK
<1>2. \A m \in Modes : ~Emit(m)
  <2>1. ASSUME NEW m \in Modes, Emit(m)
        PROVE  UNCHANGED ledger /\ case'.name \in queue
    BY <2>1 DEF Emit, lineage
  <2> QED BY <1>1, <2>1 DEF Named
<1>3. UNCHANGED case
  BY <1>2, RowCases
     DEF Copy, Check, Append1, AppendFails, Judge, Leave, Detach, JudgeNative, Close,
         Refuse, Unconfigured, Accept, Escape, Crash, Perform, Alter, rowvars
<1>4. CASE i \in 1..Len(ledger)
  <2>1. ledger'[i] = ledger[i]
    BY <1>4, LedgerStep
  <2>2. /\ f \in Artifacts /\ ~Ahead(f)
        /\ ledger[i].outputs[f] = disk[f] \/ disk[f] = "foreign"
    BY <1>1, <1>3, <1>4, <2>1 DEF Hashed
  <2>3. ~Ahead(f)'
    BY <1>1, <1>2, <2>2, AheadStays
  <2>4. disk'[f] \in {disk[f], "foreign"}
    <3>1. step = "spawned" => f \notin Output(mode, Stage)
      BY <2>2, MakesAhead DEF Going, Making
    <3> QED BY <1>2, <2>2, <3>1, ArtifactStays
  <2> QED BY <2>1, <2>2, <2>3, <2>4
<1>5. CASE i \notin 1..Len(ledger)
  <2>1. /\ Append1 \/ AppendFails
        /\ ledger'[i] = Record
    BY <1>1, <1>5, LedgerStep
  <2>2. step = "exited" /\ step' \in {"reported", "refused"} /\ UNCHANGED <<disk, mode, todo>>
    BY <2>1 DEF Append1, AppendFails, progress
  <2>3. f \in Output(mode, Stage) /\ ledger'[i].outputs[f] = disk[f]
    <3> DEFINE made == {g \in Output(mode, Stage) : disk[g] # "none"}
    <3>1. Record.outputs = [g \in made |-> disk[g]]
      BY DEF Record
    <3>2. f \in DOMAIN Record.outputs
      BY <2>1
    <3> QED BY <2>1, <3>1, <3>2
  <2> QED BY <1>3, <2>2, <2>3, MakesAhead DEF Going, Making
<1> QED BY <1>4, <1>5

----------------------------------------------------------------------------
\* The stages of a trace by name.
NamesOf(t) == [i \in DOMAIN t |-> t[i].stage]

LEMMA SameSequence ==
  ASSUME NEW S, NEW a \in Seq(S), NEW b \in Seq(S), Len(a) = Len(b),
         \A i \in 1..Len(a) : a[i] = b[i]
  PROVE  a = b
<1>1. /\ a = [i \in 1..Len(a) |-> a[i]] /\ b = [i \in 1..Len(b) |-> b[i]]
      /\ Len(a) \in Nat
  OBVIOUS
<1> QED BY <1>1

LEMMA NamesTyped ==
  ASSUME NEW t \in Seq(Entry)
  PROVE  /\ NamesOf(t) \in Seq(StageName) /\ Len(NamesOf(t)) = Len(t)
         /\ DOMAIN t = 1..Len(t) /\ Len(t) \in Nat
         /\ \A i \in 1..Len(t) : NamesOf(t)[i] = t[i].stage
         /\ t = <<>> => NamesOf(t) = <<>>
<1>1. DOMAIN t = 1..Len(t) /\ Len(t) \in Nat
  OBVIOUS
<1>2. \A i \in 1..Len(t) : t[i] \in Entry
  OBVIOUS
<1>3. \A i \in 1..Len(t) : t[i].stage \in StageName
  BY <1>2 DEF Entry
<1>4. NamesOf(t) = [i \in 1..Len(t) |-> t[i].stage]
  BY <1>1 DEF NamesOf
<1>5. NamesOf(t) \in Seq(StageName) /\ Len(NamesOf(t)) = Len(t)
  BY <1>1, <1>3, <1>4
<1>6. t = <<>> => NamesOf(t) = <<>>
  BY <1>5
<1> QED BY <1>1, <1>4, <1>5, <1>6

LEMMA NamesAppend ==
  ASSUME NEW t \in Seq(Entry), NEW e \in Entry
  PROVE  NamesOf(Append(t, e)) = Append(NamesOf(t), e.stage)
<1> DEFINE u == Append(t, e)
           b == Append(NamesOf(t), e.stage)
<1>1. /\ u \in Seq(Entry) /\ Len(u) = Len(t) + 1 /\ u[Len(t) + 1] = e
      /\ \A i \in 1..Len(t) : u[i] = t[i]
  OBVIOUS
<1>2. e.stage \in StageName
  BY DEF Entry
<1>3. /\ b \in Seq(StageName) /\ Len(b) = Len(t) + 1 /\ b[Len(t) + 1] = e.stage
      /\ \A i \in 1..Len(t) : b[i] = t[i].stage
  BY <1>2, NamesTyped
<1> HIDE DEF u, b
<1>4. /\ NamesOf(u) \in Seq(StageName) /\ Len(NamesOf(u)) = Len(t) + 1
      /\ \A i \in 1..(Len(t) + 1) : NamesOf(u)[i] = u[i].stage
  BY <1>1, NamesTyped
<1>5. \A i \in 1..Len(NamesOf(u)) : NamesOf(u)[i] = b[i]
  <2> SUFFICES ASSUME NEW i \in 1..(Len(t) + 1) PROVE NamesOf(u)[i] = b[i]
    BY <1>4
  <2>1. Len(t) \in Nat
    OBVIOUS
  <2>2. CASE i = Len(t) + 1
    BY <1>1, <1>3, <1>4, <2>1, <2>2
  <2>3. CASE i \in 1..Len(t)
    BY <1>1, <1>3, <1>4, <2>1, <2>3
  <2> QED BY <2>1, <2>2, <2>3
<1>6. NamesOf(u) = b
  BY <1>3, <1>4, <1>5, SameSequence
<1> QED BY <1>6 DEF u, b

LEMMA TracedNames ==
  ASSUME RowInv, Traced, NEW m \in Modes
  PROVE  /\ m # mode => trace'[m] = trace[m] /\ StageNames(m)' = StageNames(m)
         /\ m = mode => /\ StageNames(m)' = Append(StageNames(m), Stage)
                        /\ \E e \in Entry : /\ trace'[m] = Append(trace[m], e)
                                            /\ e.stage = Stage /\ e.end = ended.end
                                            /\ e.seen = ended.seen
<1>1. trace \in [Modes -> Seq(Entry)] /\ trace[m] \in Seq(Entry)
  BY DEF RowInv, RowDataOK
<1> DEFINE entry == [stage |-> Stage, end |-> ended.end, seen |-> ended.seen, id |-> ended.id]
<1>2. /\ entry \in Entry /\ entry.stage = Stage /\ entry.end = ended.end
      /\ entry.seen = ended.seen
  BY StageTyped DEF Entry, RowInv, RowDataOK
<1>3. m # mode => trace'[m] = trace[m]
  BY <1>1 DEF Traced
<1>4. m = mode => trace'[m] = Append(trace[m], entry)
  BY <1>1 DEF Traced
<1>5. StageNames(m) = NamesOf(trace[m]) /\ StageNames(m)' = NamesOf(trace'[m])
  BY DEF StageNames, NamesOf
<1> HIDE DEF entry
<1>6. m = mode => StageNames(m)' = Append(StageNames(m), Stage)
  BY <1>1, <1>2, <1>4, <1>5, NamesAppend
<1> QED BY <1>2, <1>3, <1>4, <1>5, <1>6

\* What a mode does.
LEMMA CommandsAre ==
  /\ Commands("baseline") = <<Producer>> /\ Commands("compiled") = <<"transpile", Producer>>
  /\ Commands("interpreted") \in {<<"run">>, <<"check">>}
  /\ case.phase = "run" => Commands("interpreted") = <<"run">>
  /\ Producer \in {"build", "compile"}
BY DEF Commands, Producer

LEMMA WantedAre ==
  ASSUME NEW m \in Modes
  PROVE  /\ ~RunsNatively(m) => Wanted(m) = Commands(m)
         /\ RunsNatively(m) => Wanted(m) = Append(Commands(m), "run")
<1>1. Commands(m) \in Seq(StageName)
  BY CommandsTyped
<1>2. \A S : \A s \in Seq(S) : s \o <<>> = s
  OBVIOUS
<1>3. \A s \in Seq(StageName) : s \o <<"run">> = Append(s, "run")
  BY DEF StageName
<1> QED BY <1>1, <1>2, <1>3 DEF Wanted

\* A case goes on with its name and its phase.
LEMMA CaseStays ==
  ASSUME [RowNext]_rowvars, \A m \in Modes : ~Emit(m)
  PROVE  UNCHANGED case
BY RowCases
   DEF Copy, Check, Append1, AppendFails, Judge, Leave, Detach, JudgeNative, Close, Refuse,
       Unconfigured, Accept, Escape, Crash, Perform, Alter, rowvars

LEMMA PlanStays ==
  ASSUME UNCHANGED case, NEW m \in Modes
  PROVE  /\ Producer' = Producer /\ Commands(m)' = Commands(m) /\ Wanted(m)' = Wanted(m)
         /\ RunsNatively(m)' = RunsNatively(m)
<1>1. Producer' = Producer /\ RunsNatively(m)' = RunsNatively(m)
  BY DEF Producer, RunsNatively
<1>2. Commands(m)' = Commands(m)
  BY <1>1 DEF Commands
<1> QED BY <1>1, <1>2 DEF Wanted

\* A stage that leaves its mode complete.
LEMMA JudgedComplete ==
  ASSUME RowInv, Pins, Judge, state'[mode] = "complete"
  PROVE  \/ /\ ended.end = "zero" /\ todo' = Tail(todo)
            /\ step' = IF Len(todo) > 1 THEN "before" ELSE "leaving"
            /\ seal' = [f \in Artifacts |-> IF f \in Output(mode, Stage)
                                            THEN disk[f] ELSE seal[f]]
            /\ \A f \in Output(mode, Stage) : disk[f] # "none"
         \/ /\ ended.end # "zero" /\ ended.end \in Exited /\ Stage = "run"
            /\ mode = "interpreted" /\ step' = "leaving" /\ UNCHANGED <<seal, todo>>
<1>1. PICK fate \in Fates :
        /\ state' = [state EXCEPT ![mode] = fate]
        /\ IF fate = "complete" /\ ended.end = "zero"
           THEN /\ seal' = [f \in Artifacts |-> IF f \in Output(mode, Stage)
                                                THEN disk[f] ELSE seal[f]]
                /\ todo' = Tail(todo)
                /\ step' = IF Len(todo) > 1 THEN "before" ELSE "leaving"
           ELSE UNCHANGED <<seal, todo>> /\ step' = "leaving"
  BY DEF Judge
<1>2. fate = "complete"
  BY <1>1 DEF RowInv, RowTypeOK
<1>3. disk["work"] = "own"
  BY <1>1, <1>2 DEF Fates
<1>4. CASE ended.end = "zero"
  <2>1. \A f \in Output(mode, Stage) : disk[f] # "none"
    BY <1>1, <1>2, <1>3, <1>4 DEF Fates
  <2> QED BY <1>1, <1>2, <1>4, <2>1
<1>5. CASE ended.end # "zero"
  <2>1. Stage = "run" /\ ended.end \in Exited
    BY <1>1, <1>2, <1>3, <1>5 DEF Fates
  <2>2. step = "reported" /\ todo # <<>>
    BY DEF Judge
  <2>3. mode = "interpreted"
    BY <2>1, <2>2, StageWalk
  <2> QED BY <1>1, <1>5, <2>1, <2>3
<1> QED BY <1>4, <1>5

LEMMA StagesStep ==
  ASSUME RowInv, Pins, Passing, [RowNext]_rowvars, NEW m \in Modes, state'[m] = "complete"
  PROVE  Stages(m)'
<1>1. /\ mode \in {"baseline", "interpreted", "compiled"}
      /\ m \in {"baseline", "interpreted", "compiled"}
      /\ trace \in [Modes -> Seq(Entry)] /\ RowWalk
  BY DEF RowInv, RowTypeOK, RowDataOK, Modes, Pins
<1>2. ASSUME NEW n \in Modes, Emit(n)
      PROVE  Stages(m)'
  <2>1. step' = "copying" /\ mode' = "baseline" /\ trace'[m] = <<>>
    BY <1>2 DEF Emit
  <2>2. StageNames(m)' = <<>>
    <3>1. <<>> \in Seq(Entry)
      OBVIOUS
    <3>2. StageNames(m)' = NamesOf(trace'[m])
      BY DEF StageNames, NamesOf
    <3> QED BY <2>1, <3>1, <3>2, NamesTyped
  <2> QED BY <2>1, <2>2 DEF Stages, Behind, Going
<1>3. ASSUME \A n \in Modes : ~Emit(n)
      PROVE  Stages(m)'
  <2>1. state[m] = "complete" /\ Stages(m) /\ Trails
    BY <1>3, FoundStays DEF Passing, Trails
  <2>2. /\ UNCHANGED case /\ Producer' = Producer /\ Commands(m)' = Commands(m)
        /\ Wanted(m)' = Wanted(m)
    BY <1>3, CaseStays, PlanStays
  <2>3. ASSUME UNCHANGED <<trace, mode>>, step' \notin {"closing", "sealed"},
               step \notin {"closing", "sealed"},
               m = mode => step' \in Halted
        PROVE  Stages(m)'
    <3>1. StageNames(m)' = StageNames(m)
      BY <2>3 DEF StageNames
    <3> QED BY <2>1, <2>2, <2>3, <3>1 DEF Stages, Behind, Going, Halted
  <2>4. CASE Copy
    <3>1. CASE m = mode
      <4>1. /\ step = "copying" /\ step' = "before" /\ mode' = mode /\ todo' = Commands(mode)
            /\ UNCHANGED trace
        BY <2>4 DEF Copy
      <4>2. StageNames(m)' = <<>>
        BY <2>1, <3>1, <4>1 DEF Stages, StageNames
      <4>3. \A x, y : <<x>> # <<>> /\ <<x, y>> # <<>> /\ <<x, y>> # <<y>>
        OBVIOUS
      <4>4. Went' = <<>>
        BY <1>1, <2>2, <4>1, <4>3, CommandsAre DEF Went
      <4> QED BY <3>1, <4>1, <4>2, <4>4 DEF Stages, Behind, Going
    <3>2. CASE m # mode
      BY <2>3, <2>4, <3>2 DEF Copy
    <3> QED BY <3>1, <3>2
  <2>5. CASE Check
    <3>1. CASE m = mode
      <4>1. /\ step = "before" /\ UNCHANGED <<mode, todo, trace>>
            /\ step' = "spawned"
        BY <1>1, <2>5, <3>1 DEF Check, RowInv, RowTypeOK
      <4>2. StageNames(m)' = StageNames(m) /\ Went' = Went
        BY <2>2, <4>1 DEF StageNames, Went
      <4> QED BY <2>1, <3>1, <4>1, <4>2 DEF Stages, Behind, Going
    <3>2. CASE m # mode
      BY <2>3, <2>5, <3>2 DEF Check
    <3> QED BY <3>1, <3>2
  <2>6. CASE \/ Append1
             \/ \E end \in End, seen \in {"same", "odd"}, left \in Version :
                  Perform(end, seen, left)
    <3>1. /\ step \in Going /\ step' \in Going /\ UNCHANGED <<mode, todo, trace>>
      BY <2>6 DEF Append1, Perform, progress, Going
    <3>2. StageNames(m)' = StageNames(m) /\ Went' = Went
      BY <2>2, <3>1 DEF StageNames, Went
    <3> QED BY <2>1, <2>2, <3>1, <3>2 DEF Stages, Behind, Going
  <2>7. CASE Judge
    <3>1. step = "reported" /\ todo # <<>> /\ UNCHANGED <<mode, case>> /\ Traced
      BY <2>7 DEF Judge
    <3>2. step' \in {"before", "leaving"}
      BY <2>7 DEF Judge
    <3>3. CASE m # mode
      <4>1. StageNames(m)' = StageNames(m)
        BY <3>1, <3>3, TracedNames
      <4> QED BY <2>1, <2>2, <3>1, <3>2, <3>3, <4>1 DEF Stages, Behind, Going
    <3>4. CASE m = mode
      <4>1. StageNames(m) = Went /\ StageNames(m)' = Append(Went, Stage)
        BY <2>1, <3>1, <3>4, TracedNames DEF Stages, Going
      <4>2. \A x, y : /\ <<x>> # <<>> /\ <<x, y>> # <<>> /\ <<x, y>> # <<y>>
                      /\ Head(<<x>>) = x /\ Head(<<x, y>>) = x
                      /\ Tail(<<x>>) = <<>> /\ Tail(<<x, y>>) = <<y>>
                      /\ Len(<<x>>) = 1 /\ Len(<<x, y>>) = 2
                      /\ Append(<<>>, x) = <<x>> /\ Append(<<x>>, y) = <<x, y>>
        <5>1. \A x, y : /\ <<x>> # <<>> /\ <<x, y>> # <<>> /\ <<x, y>> # <<y>>
                        /\ Head(<<x>>) = x /\ Head(<<x, y>>) = x
                        /\ Tail(<<x>>) = <<>> /\ Tail(<<x, y>>) = <<y>>
                        /\ Len(<<x>>) = 1 /\ Len(<<x, y>>) = 2
          OBVIOUS
        <5>2. \A x : Append(<<>>, x) = <<x>>
          OBVIOUS
        <5>3. ASSUME NEW x, NEW y
              PROVE  Append(<<x>>, y) = <<x, y>>
          <6>1. <<x>> \in Seq({x, y}) /\ <<x, y>> \in Seq({x, y}) /\ y \in {x, y}
            OBVIOUS
          <6>2. /\ Len(<<x>>) = 1 /\ <<x>>[1] = x
                /\ Len(<<x, y>>) = 2 /\ <<x, y>>[1] = x /\ <<x, y>>[2] = y
            OBVIOUS
          <6> PICK s \in Seq({x, y}) : s = <<x>>
            BY <6>1
          <6>3. /\ Append(s, y) \in Seq({x, y}) /\ Len(Append(s, y)) = 2
                /\ Append(s, y)[1] = x /\ Append(s, y)[2] = y
            BY <6>1, <6>2
          <6>4. \A i \in 1..2 : Append(s, y)[i] = <<x, y>>[i]
            BY <6>2, <6>3
          <6> QED BY <6>1, <6>2, <6>3, <6>4, SameSequence
        <5> QED BY <5>1, <5>2, <5>3
      <4>3. CASE todo = <<"transpile", Producer>> /\ mode = "compiled"
        <5>1. Went = <<>> /\ Stage = "transpile"
          BY <4>2, <4>3 DEF Went, Stage
        <5>2. step' = "before" /\ todo' = <<Producer>>
          BY <2>7, <3>4, <4>2, <4>3, JudgedComplete
        <5>3. Went' = <<"transpile">> /\ StageNames(m)' = <<"transpile">>
          BY <2>2, <3>1, <4>1, <4>2, <4>3, <5>1, <5>2 DEF Went
        <5> QED BY <3>1, <3>4, <5>2, <5>3 DEF Stages, Behind, Going
      <4>4. ASSUME NEW x, todo = <<x>>, Append(Went, x) = Commands(mode)
            PROVE  Stages(m)'
        <5>1. ~(Len(todo) > 1) /\ Stage = x
          BY <4>2, <4>4 DEF Stage
        <5>2. step' = "leaving"
          BY <2>7, <5>1 DEF Judge
        <5> QED BY <2>2, <3>1, <3>4, <4>1, <4>4, <5>1, <5>2 DEF Stages, Behind, Going
      <4>5. CASE mode = "compiled" /\ todo = <<Producer>>
        <5>1. Went = <<"transpile">>
          BY <4>2, <4>5 DEF Went
        <5> QED BY <4>2, <4>4, <4>5, <5>1, CommandsAre
      <4>6. CASE mode # "compiled"
        <5>1. todo = Commands(mode) /\ Went = <<>>
          <6>1. todo # <<>> => Went = <<>>
            BY <4>6 DEF Went
          <6> QED BY <1>1, <2>1, <3>1, <4>6, <6>1, CommandsAre DEF RowWalk, Trails, Going
        <5>2. PICK x : Commands(mode) = <<x>>
          BY <1>1, <4>6, CommandsAre
        <5> QED BY <4>2, <4>4, <5>1, <5>2
      <4>7. mode = "compiled" => todo \in {<<"transpile", Producer>>, <<Producer>>}
        BY <3>1 DEF RowInv, Generated
      <4> QED BY <4>3, <4>5, <4>6, <4>7
    <3> QED BY <3>3, <3>4
  <2>8. CASE Leave
    <3>1. step = "leaving" /\ Following /\ UNCHANGED trace
      BY <2>8 DEF Leave
    <3>2. StageNames(m)' = StageNames(m)
      BY <3>1 DEF StageNames
    <3>3. CASE m = mode
      <4>1. ~RunsNatively(m)
        BY <1>1, <2>1, <2>8, <3>3 DEF Leave, RowInv, RowTypeOK
      <4>2. StageNames(m) = Wanted(m)
        BY <2>1, <3>1, <3>3, <4>1, WantedAre DEF Stages
      <4> QED BY <1>1, <2>2, <3>1, <3>2, <3>3, <4>2 DEF Stages, Following, Behind, Going
    <3>4. CASE m # mode
      BY <1>1, <2>1, <2>2, <3>1, <3>2, <3>4 DEF Stages, Following, Behind, Going
    <3> QED BY <3>3, <3>4
  <2>9. CASE Detach
    <3>1. /\ step = "leaving" /\ step' = "spawned" /\ UNCHANGED <<mode, todo, trace>>
          /\ mode # "interpreted" /\ state[mode] = "complete"
      BY <2>9 DEF Detach, RunsNatively, progress
    <3>2. CASE m = mode
      <4>1. todo = <<>> /\ StageNames(m) = Commands(m) /\ StageNames(m)' = StageNames(m)
        BY <2>1, <3>1, <3>2 DEF Stages, Trails, StageNames
      <4>2. Went' = Commands(m)
        BY <1>1, <2>2, <3>1, <3>2, <4>1, CommandsAre DEF Went
      <4> QED BY <3>1, <3>2, <4>1, <4>2 DEF Stages, Behind, Going
    <3>3. CASE m # mode
      BY <2>3, <3>1, <3>3
    <3> QED BY <3>2, <3>3
  <2>10. CASE JudgeNative
    <3>1. step = "reported" /\ todo = <<>> /\ Traced /\ Following
      BY <2>10 DEF JudgeNative
    <3>2. CASE m = mode
      <4>1. RunsNatively(m) /\ mode # "interpreted"
        BY <1>1, <2>1, <3>1, <3>2 DEF RowWalk, Trails, RunsNatively
      <4>2. Went = Commands(m) /\ Stage = "run"
        BY <1>1, <3>1, <3>2, <4>1, CommandsAre DEF Went, Stage
      <4>3. StageNames(m)' = Wanted(m)
        BY <2>1, <3>1, <3>2, <4>1, <4>2, TracedNames, WantedAre DEF Stages, Going
      <4> QED BY <1>1, <2>2, <3>1, <3>2, <4>3 DEF Stages, Following, Behind, Going
    <3>3. CASE m # mode
      <4>1. StageNames(m)' = StageNames(m)
        BY <3>1, <3>3, TracedNames
      <4> QED BY <1>1, <2>1, <2>2, <3>1, <3>3, <4>1 DEF Stages, Following, Behind, Going
    <3> QED BY <3>2, <3>3
  <2>11. CASE Close
    <3>1. step = "closing" /\ step' = "sealed" /\ UNCHANGED <<trace, mode>>
      BY <2>11 DEF Close, progress
    <3>2. StageNames(m)' = StageNames(m)
      BY <3>1 DEF StageNames
    <3> QED BY <2>1, <2>2, <3>1, <3>2 DEF Stages, Behind, Going
  <2>12. CASE step' \in Halted /\ UNCHANGED <<trace, mode>>
    <3>1. StageNames(m)' = StageNames(m)
      BY <2>12 DEF StageNames
    <3>2. step \in {"closing", "sealed"} => mode = "compiled"
      BY <1>1 DEF RowWalk
    <3> QED BY <1>1, <2>1, <2>2, <2>12, <3>1, <3>2 DEF Stages, Behind, Going, Halted
  <2>13. CASE UNCHANGED <<step, mode, todo, trace>>
    <3>1. StageNames(m)' = StageNames(m) /\ Went' = Went
      BY <2>2, <2>13 DEF StageNames, Went
    <3> QED BY <2>1, <2>2, <2>13, <3>1 DEF Stages, Behind, Going
  <2> QED BY <1>3, <2>4, <2>5, <2>6, <2>7, <2>8, <2>9, <2>10, <2>11, <2>12, <2>13, RowCases
          DEF AppendFails, Refuse, Unconfigured, Accept, Escape, Crash, Alter, Halted,
              progress, rowvars
<1> QED BY <1>2, <1>3

\* A mode that is complete left what it should have, and it is sealed.
LEMMA EndsStep ==
  ASSUME RowInv, Pins, Passing, [RowNext]_rowvars, NEW m \in Modes, state'[m] = "complete"
  PROVE  Ends(m)'
<1>1. trace \in [Modes -> Seq(Entry)] /\ seal \in [Artifacts -> Version] /\ mode \in Modes
  BY DEF RowInv, RowTypeOK, RowDataOK
<1>2. ASSUME NEW n \in Modes, Emit(n)
      PROVE  Ends(m)'
  <2>1. trace'[m] = <<>>
    BY <1>2 DEF Emit
  <2>2. Len(<<>>) = 0
    OBVIOUS
  <2> QED BY <2>1, <2>2 DEF Ends
<1>3. ASSUME \A n \in Modes : ~Emit(n)
      PROVE  Ends(m)'
  <2>1. state[m] = "complete" /\ Ends(m)
    BY <1>3, FoundStays DEF Passing, Trails
  <2>2. ASSUME Traced, ended.end = "zero" \/ (Stage = "run" /\ ended.end \in Exited),
               \A f \in Artifacts : seal[f] # "none" => seal'[f] # "none",
               \A f \in Output(mode, Stage) : seal'[f] # "none"
        PROVE  Ends(m)'
    <3> SUFFICES ASSUME NEW i \in 1..Len(trace'[m])
                 PROVE  /\ \/ trace'[m][i].end = "zero"
                           \/ trace'[m][i].stage = "run" /\ trace'[m][i].end \in Exited
                        /\ \A f \in Output(m, trace'[m][i].stage) : seal'[f] # "none"
      BY DEF Ends
    <3>1. ASSUME i \in 1..Len(trace[m]), trace'[m][i] = trace[m][i]
          PROVE  /\ \/ trace'[m][i].end = "zero"
                    \/ trace'[m][i].stage = "run" /\ trace'[m][i].end \in Exited
                 /\ \A f \in Output(m, trace'[m][i].stage) : seal'[f] # "none"
      BY <2>1, <2>2, <3>1, OutputTyped DEF Ends
    <3>2. CASE m # mode
      BY <2>2, <3>1, <3>2, TracedNames
    <3>3. CASE m = mode
      <4> PICK e \in Entry : /\ trace'[m] = Append(trace[m], e)
                             /\ e.stage = Stage /\ e.end = ended.end
        BY <2>2, <3>3, TracedNames
      <4>1. /\ Len(trace'[m]) = Len(trace[m]) + 1 /\ Len(trace[m]) \in Nat
            /\ trace'[m][Len(trace[m]) + 1] = e
            /\ \A j \in 1..Len(trace[m]) : trace'[m][j] = trace[m][j]
        BY <1>1
      <4>2. CASE i = Len(trace[m]) + 1
        BY <2>2, <3>3, <4>1, <4>2
      <4>3. CASE i \in 1..Len(trace[m])
        BY <3>1, <4>1, <4>3
      <4> QED BY <4>1, <4>2, <4>3
    <3> QED BY <3>2, <3>3
  <2>3. CASE Judge
    <3>1. CASE m # mode
      <4>1. Traced /\ trace'[m] = trace[m]
        BY <2>3, <3>1, TracedNames DEF Judge
      <4>2. \A f \in Artifacts : seal[f] # "none" => seal'[f] # "none"
        <5>1. CASE UNCHANGED seal
          BY <5>1
        <5>2. CASE state'[mode] = "complete"
          BY <1>1, <2>3, <5>2, JudgedComplete
        <5>3. PICK fate \in Fates :
                /\ state' = [state EXCEPT ![mode] = fate]
                /\ fate # "complete" => UNCHANGED seal
          BY <2>3 DEF Judge
        <5>4. state'[mode] = fate
          BY <1>1, <5>3 DEF RowInv, RowTypeOK
        <5> QED BY <5>1, <5>2, <5>3, <5>4
      <4> QED BY <2>1, <4>1, <4>2, OutputTyped DEF Ends
    <3>2. CASE m = mode
      <4>1. Traced
        BY <2>3 DEF Judge
      <4>2. \/ /\ ended.end = "zero"
               /\ seal' = [f \in Artifacts |-> IF f \in Output(mode, Stage)
                                               THEN disk[f] ELSE seal[f]]
               /\ \A f \in Output(mode, Stage) : disk[f] # "none"
            \/ ended.end \in Exited /\ Stage = "run" /\ UNCHANGED seal
        BY <2>3, <3>2, JudgedComplete
      <4>3. Stage = "run" => Output(mode, Stage) = {}
        BY DEF Output
      <4>4. Output(mode, Stage) \subseteq Artifacts
        BY OutputTyped
      <4> QED BY <2>2, <4>1, <4>2, <4>3, <4>4
    <3> QED BY <3>1, <3>2
  <2>4. CASE JudgeNative
    <3>1. Traced /\ todo = <<>> /\ UNCHANGED seal /\ mode \in Modes
      BY <1>1, <2>4 DEF JudgeNative
    <3>2. Stage = "run" /\ Output(mode, Stage) = {}
      BY <3>1 DEF Stage, Output
    <3>3. CASE m # mode
      <4>1. trace'[m] = trace[m]
        BY <3>1, <3>3, TracedNames
      <4> QED BY <2>1, <3>1, <4>1 DEF Ends
    <3>4. CASE m = mode
      <4>1. ended.end \in Exited
        BY <2>4, <3>4 DEF JudgeNative, RowInv, RowTypeOK
      <4> QED BY <2>2, <3>1, <3>2, <4>1
    <3> QED BY <3>3, <3>4
  <2>5. CASE UNCHANGED <<trace, seal>>
    BY <2>1, <2>5 DEF Ends
  <2> QED BY <1>3, <2>3, <2>4, <2>5, RowCases
          DEF Copy, Check, Append1, AppendFails, Leave, Detach, Close, Refuse, Unconfigured,
              Accept, Escape, Crash, Perform, Alter, progress, rowvars
<1> QED BY <1>2, <1>3

\* A native run follows its mode's commands, in phase run only.
LEMMA NativeStep ==
  ASSUME RowInv, Pins, Passing, [RowNext]_rowvars
  PROVE  /\ (step \in {"spawned", "exited", "reported"} /\ todo = <<>> => case.phase = "run")'
         /\ (step \in Going /\ mode = "interpreted" => todo = Commands(mode))'
<1> DEFINE Native == step \in {"spawned", "exited", "reported"} /\ todo = <<>> => case.phase = "run"
           Only == step \in Going /\ mode = "interpreted" => todo = Commands(mode)
<1>1. Native /\ Only /\ RowWalk
  BY DEF Passing, Trails, Pins
<1>2. CASE step' \notin Going
  BY <1>2 DEF Going
<1>3. CASE Copy
  <2>1. /\ UNCHANGED <<mode, case>> /\ todo' = Commands(mode) /\ step' = "before"
    BY <1>3 DEF Copy
  <2>2. Commands(mode)' = Commands(mode)
    BY <2>1 DEF Commands, Producer
  <2> QED BY <2>1, <2>2
<1>4. CASE Detach
  <2>1. mode' # "interpreted" /\ case'.phase = "run"
    BY <1>4 DEF Detach, RunsNatively, progress
  <2> QED BY <2>1
<1>5. CASE Judge
  <2>1. step' \in {"before", "leaving"} /\ UNCHANGED mode /\ todo # <<>>
    BY <1>5 DEF Judge
  <2>2. mode = "interpreted" => step' = "leaving"
    <3>1. ASSUME mode = "interpreted" PROVE \E x : todo = <<x>>
      BY <1>5, <2>1, <3>1, <1>1 DEF Judge, RowWalk
    <3>2. \A x : ~(Len(<<x>>) > 1)
      OBVIOUS
    <3> QED BY <1>5, <3>1, <3>2 DEF Judge
  <2>3. mode' = "interpreted" => step' \notin Going
    BY <2>1, <2>2 DEF Going
  <2> QED BY <2>1, <2>3
<1>6. CASE UNCHANGED <<mode, todo, case>> /\ step \in Going
  <2>1. Commands(mode)' = Commands(mode)
    BY <1>6 DEF Commands, Producer
  <2>2. step' \in {"spawned", "exited", "reported"} /\ todo = <<>> =>
          step \in {"spawned", "exited", "reported"}
    BY <1>1, <1>6 DEF RowWalk, Going
  <2> QED BY <1>1, <1>6, <2>1, <2>2
<1>7. CASE UNCHANGED <<step, mode, todo, case>>
  <2>1. Commands(mode)' = Commands(mode)
    BY <1>7 DEF Commands, Producer
  <2> QED BY <1>1, <1>7, <2>1
<1> QED BY <1>2, <1>3, <1>4, <1>5, <1>6, <1>7, RowCases
        DEF Check, Append1, AppendFails, Leave, JudgeNative, Following, Close, Refuse,
            Unconfigured, Accept, Escape, Crash, Perform, Emit, Alter, Going, progress, rowvars

LEMMA TrailsStep ==
  ASSUME RowInv, Pins, Passing, [RowNext]_rowvars
  PROVE  Trails'
<1>1. /\ state \in [Modes -> {"complete", "input_mutation", "stage_failure",
                              "missing_artifact", "invalid_source_map"}] /\ mode \in Modes
      /\ RowWalk /\ Trails
  BY DEF RowInv, RowTypeOK, Pins, Passing
<1>2. (step = "leaving" /\ mode # "interpreted" /\ state[mode] = "complete" => todo = <<>>)'
  <2>1. CASE Check
    BY <1>1, <2>1 DEF Check
  <2>2. CASE Judge
    <3> SUFFICES ASSUME step' = "leaving", mode # "interpreted", state'[mode] = "complete"
                 PROVE  todo' = <<>>
      BY <2>2 DEF Judge
    <3>1. todo' = Tail(todo) /\ ~(Len(todo) > 1) /\ todo # <<>>
      BY <2>2, JudgedComplete DEF Judge
    <3>2. \A x, y : Len(<<x, y>>) > 1 /\ Tail(<<x>>) = <<>>
      OBVIOUS
    <3>3. todo \in {<<"transpile", Producer>>, <<Producer>>}
      <4>1. mode = "compiled" => todo \in {<<"transpile", Producer>>, <<Producer>>, <<>>}
        BY <2>2 DEF RowInv, Generated, Judge
      <4>2. mode = "baseline" => todo \in {<<Producer>>, <<>>}
        BY <1>1, <2>2 DEF RowWalk, Judge
      <4> QED BY <1>1, <3>1, <4>1, <4>2 DEF Modes
    <3> QED BY <3>1, <3>2, <3>3
  <2>3. CASE step' # "leaving"
    BY <2>3
  <2>4. CASE UNCHANGED <<step, mode, state, todo>>
    BY <1>1, <2>4 DEF Trails
  <2> QED BY <2>1, <2>2, <2>3, <2>4, RowCases
          DEF Copy, Append1, AppendFails, Leave, Detach, JudgeNative, Following, Close, Refuse,
              Unconfigured, Accept, Escape, Crash, Perform, Emit, Alter, progress, rowvars
<1>3. (step = "sealed" => verdict = Verdict)'
  <2>1. UNCHANGED <<state, trace, case>> => Verdict' = Verdict
    BY DEF Verdict, Observation, OutputMode, Agree
  <2>2. CASE Close
    BY <2>1, <2>2 DEF Close, progress
  <2>3. CASE step' # "sealed"
    BY <2>3
  <2>4. CASE UNCHANGED <<step, verdict, state, trace, case>>
    BY <1>1, <2>1, <2>4 DEF Trails
  <2> QED BY <2>2, <2>3, <2>4, RowCases
          DEF Copy, Check, Append1, AppendFails, Judge, Leave, Detach, JudgeNative, Following,
              Refuse, Unconfigured, Accept, Escape, Crash, Perform, Emit, Alter, progress,
              judged, rowvars
<1> QED BY <1>2, <1>3, StagesStep, EndsStep, NativeStep DEF Trails

LEMMA PassingStart == RowInit => Passing
<1> SUFFICES ASSUME RowInit PROVE Passing
  OBVIOUS
<1>1. Steady
  BY DEF RowInit, Fresh, Steady, File, Inputs, Artifacts
<1>2. Named
  <2>1. queue \subseteq Modes /\ case.name = "case" /\ ledger = <<>>
    BY RowAssumption DEF RowInit
  <2> QED BY <2>1 DEF Named, Modes
<1>3. Hashed
  BY DEF RowInit, Hashed
<1>4. ASSUME NEW m \in Modes
      PROVE  Stages(m) /\ Ends(m)
  <2>1. trace[m] = <<>> /\ step = "copying" /\ mode = "baseline"
    BY DEF RowInit
  <2>2. StageNames(m) = <<>> /\ Len(<<>>) = 0
    <3>1. <<>> \in Seq(Entry) /\ StageNames(m) = NamesOf(trace[m])
      BY DEF StageNames, NamesOf
    <3> QED BY <2>1, <3>1, NamesTyped
  <2> QED BY <2>1, <2>2 DEF Stages, Ends, Behind, Going
<1>5. Trails
  BY <1>4 DEF RowInit, Trails, Going
<1> QED BY <1>1, <1>2, <1>3, <1>5 DEF Passing

LEMMA PassingInvariant == RowSpec => [](RowInv /\ Pins /\ Passing)
<1>1. RowInit => Passing
  BY PassingStart
<1>2. RowInv /\ Pins /\ Passing /\ [RowNext]_rowvars => Passing'
  <2> SUFFICES ASSUME RowInv, Pins, Passing, [RowNext]_rowvars PROVE Passing'
    OBVIOUS
  <2>1. Steady' /\ Named' /\ Hashed' /\ Trails'
    BY SteadyStep, NamedStep, HashedStep, TrailsStep DEF Passing
  <2> QED BY <2>1 DEF Passing
<1> QED BY <1>1, <1>2, PinsInvariant, PTL DEF RowSpec

\* The executor's verdict and the two readers, for any root: the ledger of what
\* passed is authentic, and it is valid exactly if its streams were captured
\* apart, as long as nothing is altered.
THEOREM PassIsAcceptedHolds == RowSpec => []PassIsAccepted
<1>1. ASSUME RowInv, Pins, Passing
      PROVE  PassIsAccepted
  <2> SUFFICES ASSUME step = "sealed", verdict = "PASS", \A f \in File : disk[f] # "foreign"
               PROVE  Authentic /\ (Valid <=> CapturedApart)
    BY DEF PassIsAccepted
  <2>1. /\ trace \in [Modes -> Seq(Entry)] /\ disk \in [File -> Version]
        /\ seal \in [Artifacts -> Version]
        /\ \A m \in Modes : DOMAIN trace[m] = 1..Len(trace[m]) /\ Len(trace[m]) \in Nat
    BY <1>1 DEF RowInv, RowTypeOK, RowDataOK
  <2>2. /\ \A m \in Modes : state[m] = "complete" /\ Stages(m) /\ Ends(m) /\ Behind(m)
        /\ ~Broken
        /\ case.phase = "run" =>
             /\ \A m \in Modes : /\ trace[m][Len(trace[m])].stage = "run"
                                 /\ Observation(m)[1] \in {"zero", "nonzero"}
             /\ Agree
    <3>1. Verdict = "PASS" /\ Trails
      BY <1>1 DEF Passing, Trails
    <3> QED BY <3>1 DEF Verdict, Trails, Behind, Broken
  <2>3. disk["upstream"] = "own" /\ disk["tools"] = "own" /\ disk["streams"] = "own"
        /\ disk["past"] = "own"
    BY <1>1 DEF Passing, Steady, File, Inputs
  <2>4. \A m \in Modes : StageNames(m) = Wanted(m) /\ Len(trace[m]) = Len(Wanted(m))
    <3>1. ASSUME NEW m \in Modes
          PROVE  StageNames(m) = Wanted(m) /\ Len(trace[m]) = Len(Wanted(m))
      <4>1. StageNames(m) = Wanted(m)
        BY <2>2 DEF Stages
      <4>2. StageNames(m) = NamesOf(trace[m]) /\ trace[m] \in Seq(Entry)
        BY <2>1 DEF StageNames, NamesOf
      <4>3. Len(NamesOf(trace[m])) = Len(trace[m])
        BY <4>2, NamesTyped
      <4> QED BY <4>1, <4>2, <4>3
    <3> QED BY <3>1
  <2>5. ASSUME NEW m \in Modes, NEW i \in 1..Len(trace[m])
        PROVE  \/ trace[m][i].end = "zero"
               \/ trace[m][i].stage = "run" /\ trace[m][i].end = "nonzero"
    <3>1. \/ trace[m][i].end = "zero"
          \/ trace[m][i].stage = "run" /\ trace[m][i].end \in Exited
      BY <2>2 DEF Ends
    <3>2. trace[m][i].stage = Wanted(m)[i]
      <4>1. StageNames(m)[i] = trace[m][i].stage
        BY <2>1 DEF StageNames
      <4> QED BY <2>4, <4>1
    <3>3. Wanted(m)[i] = "run" => case.phase = "run" /\ i = Len(trace[m])
      <4>1. Len(trace[m]) = Len(Wanted(m))
        BY <2>4
      <4>2. /\ RunsNatively(m) => Wanted(m) = Append(Commands(m), "run")
            /\ ~RunsNatively(m) => Wanted(m) = Commands(m)
        BY WantedAre
      <4>3. /\ Commands("baseline") = <<Producer>> /\ Producer # "run"
            /\ Commands("compiled") = <<"transpile", Producer>>
            /\ Commands("interpreted") \in {<<"run">>, <<"check">>}
            /\ Commands("interpreted") = <<"run">> => case.phase = "run"
        BY CommandsAre DEF Commands
      <4>4. \A x, y : /\ Len(<<x>>) = 1 /\ <<x>>[1] = x
                      /\ Len(<<x, y>>) = 2 /\ <<x, y>>[1] = x /\ <<x, y>>[2] = y
        OBVIOUS
      <4>5. m \in {"baseline", "interpreted", "compiled"}
        BY DEF Modes
      <4>6. Commands(m) \in Seq(StageName)
        BY CommandsTyped
      <4>7. CASE RunsNatively(m)
        <5>1. /\ Len(Wanted(m)) = Len(Commands(m)) + 1 /\ Len(Commands(m)) \in Nat
              /\ \A j \in 1..Len(Commands(m)) : Wanted(m)[j] = Commands(m)[j]
          BY <4>2, <4>6, <4>7 DEF StageName
        <5>2. \A j \in 1..Len(Commands(m)) : Commands(m)[j] # "run"
          <6>1. m # "interpreted"
            BY <4>7 DEF RunsNatively
          <6> QED BY <4>3, <4>4, <4>5, <6>1
        <5> QED BY <4>1, <4>7, <5>1, <5>2 DEF RunsNatively
      <4>8. CASE ~RunsNatively(m)
        <5>1. Wanted(m) = Commands(m)
          BY <4>2, <4>8
        <5> QED BY <4>1, <4>3, <4>4, <4>5, <5>1
      <4> QED BY <4>7, <4>8
    <3>4. Observation(m)[1] = trace[m][Len(trace[m])].end
      BY DEF Observation
    <3> QED BY <2>2, <3>1, <3>2, <3>3, <3>4
  <2>6. \A f \in Artifacts : seal[f] # "none" /\ disk[f] = seal[f]
    <3> TAKE f \in Artifacts
    <3>1. disk[f] = seal[f]
      BY <1>1, <2>2 DEF Pins, Seals, SealOK, Halted, File
    <3>2. ASSUME NEW m \in Modes, NEW i \in 1..Len(Wanted(m)), f \in Output(m, Wanted(m)[i])
          PROVE  seal[f] # "none"
      <4>1. StageNames(m)[i] = trace[m][i].stage /\ i \in 1..Len(trace[m])
        BY <2>1, <2>4 DEF StageNames
      <4> QED BY <2>2, <2>4, <3>2, <4>1 DEF Ends
    <3>3. \E m \in Modes : \E i \in 1..Len(Wanted(m)) : f \in Output(m, Wanted(m)[i])
      <4>1. ASSUME NEW m \in Modes, NEW i \in 1..Len(Commands(m))
            PROVE  i \in 1..Len(Wanted(m)) /\ Wanted(m)[i] = Commands(m)[i]
        <5>1. Commands(m) \in Seq(StageName) /\ Len(Commands(m)) \in Nat
          BY CommandsTyped
        <5>2. /\ Append(Commands(m), "run") \in Seq(StageName)
              /\ Len(Append(Commands(m), "run")) = Len(Commands(m)) + 1
              /\ Append(Commands(m), "run")[i] = Commands(m)[i]
          BY <5>1 DEF StageName
        <5> QED BY <5>1, <5>2, WantedAre
      <4>2. \A x, y : /\ Len(<<x>>) = 1 /\ <<x>>[1] = x
                      /\ Len(<<x, y>>) = 2 /\ <<x, y>>[1] = x /\ <<x, y>>[2] = y
        OBVIOUS
      <4>3. "baseline" \in Modes /\ "compiled" \in Modes
        BY DEF Modes
      <4>4. CASE f = "reference"
        <5>1. f \in Output("baseline", Commands("baseline")[1])
          BY <4>2, <4>4, CommandsAre DEF Output, Product
        <5>2. 1 \in 1..Len(Commands("baseline"))
          BY <4>2, CommandsAre
        <5> QED BY <4>1, <4>3, <5>1, <5>2
      <4>5. CASE f = "generated"
        <5>1. f \in Output("compiled", Commands("compiled")[1])
          BY <4>2, <4>5, CommandsAre DEF Output, Product
        <5>2. 1 \in 1..Len(Commands("compiled"))
          BY <4>2, CommandsAre
        <5> QED BY <4>1, <4>3, <5>1, <5>2
      <4>6. CASE f = "product"
        <5>1. f \in Output("compiled", Commands("compiled")[2])
          BY <4>2, <4>6, CommandsAre DEF Output, Product
        <5>2. 2 \in 1..Len(Commands("compiled"))
          BY <4>2, CommandsAre
        <5> QED BY <4>1, <4>3, <5>1, <5>2
      <4> QED BY <4>4, <4>5, <4>6 DEF Artifacts
    <3> QED BY <3>1, <3>2, <3>3
  <2>7. Valid <=> CapturedApart
    BY <2>1, <2>2, <2>3, <2>4, <2>5, <2>6 DEF Valid
  <2>8. ~torn /\ ledger # <<>>
    <3>1. ~torn
      BY <1>1 DEF RowInv, InOrder
    <3>2. "baseline" \in Modes
      BY DEF Modes
    <3>3. Len(trace["baseline"]) > 0
      BY <1>1, <2>2, <3>2 DEF RowInv, Runs, HasTrace
    <3>4. Recorded("baseline", trace["baseline"][1].stage)
      BY <1>1, <2>1, <3>2, <3>3 DEF RowInv, Runs, TraceOK
    <3> QED BY <3>1, <3>4 DEF Recorded
  <2>9. Joined
    BY <1>1, JoinedLedger DEF LedgerJoined
  <2>10. \A i \in DOMAIN ledger : ledger[i].case = case.name =>
           \A f \in DOMAIN ledger[i].outputs : disk[f] = ledger[i].outputs[f]
    <3>1. DOMAIN ledger = 1..Len(ledger)
      BY <1>1 DEF RowInv, RowDataOK
    <3>2. Hashed /\ Artifacts \subseteq File
      BY <1>1 DEF Passing, File
    <3> QED BY <3>1, <3>2 DEF Hashed
  <2> QED BY <2>3, <2>7, <2>8, <2>9, <2>10 DEF Authentic
<1> QED BY PassingInvariant, <1>1, PTL
=============================================================================
