-------------------------- MODULE OracleRun_proofs --------------------------
(***************************************************************************)
(* Proofs about OracleRun, for any number of rows and any snags.           *)
(*                                                                         *)
(* The rows behind the current one are settled, those ahead untouched, and *)
(* of the current one the steps already recorded and the commands pending  *)
(* are together the list of its action (RecipeWalk).                       *)
(***************************************************************************)
EXTENDS OracleRun, TLAPS

Command == OracleActions \cup {"link", "exe", "program"}
StepEnds == {"zero", "nonzero", "signal", "unstarted", "timeout"}
Step == [command : Command, end : StepEnds, made : BOOLEAN]

RecipeCommands(i) == CommandsOf(recipe[i].action)
GoodStep(s) == s.end = "zero" /\ (s.command \in Asserted => s.made)

OracleDataOK ==
  /\ recipe \in [1..Selected -> [action : Actions, wantError : BOOLEAN, annotated : BOOLEAN,
                                 expectFail : BOOLEAN, timed : BOOLEAN]]
  /\ \A i \in 1..Selected : recipe[i].wantError => recipe[i].action = "errorcheck"
  /\ steps \in [1..Selected -> Seq(Step)]
  /\ pending \in Seq(Command)

\* A row that passed: what PassIsEarned asks of it, with equality position by
\* position.
GoodEnd(i, s) ==
  IF recipe[i].wantError
  THEN \/ s.end \in {"nonzero", "signal"}
       \/ s.end = "unstarted" /\ ~recipe[i].annotated
  ELSE GoodStep(s)

Complete(i) ==
  /\ Len(steps[i]) = Len(RecipeCommands(i))
  /\ \A n \in 1..Len(steps[i]) : /\ steps[i][n].command = RecipeCommands(i)[n]
                                 /\ GoodEnd(i, steps[i][n])

Earned(i) == IF recipe[i].expectFail THEN Complete(i) => recipe[i].action \in Compared
             ELSE Complete(i)

Settled(i) == \/ status[i] \in {"skip", "fail"}
              \/ status[i] = "pass" /\ Earned(i)

RecipeWalk(i) ==
  /\ Len(pending) > 0
  /\ Len(steps[i]) + Len(pending) = Len(RecipeCommands(i))
  /\ \A n \in 1..Len(steps[i]) : /\ steps[i][n].command = RecipeCommands(i)[n]
                                 /\ GoodStep(steps[i][n])
  /\ \A n \in 1..Len(pending) : pending[n] = RecipeCommands(i)[Len(steps[i]) + n]

Place(i) ==
  /\ i < row => Settled(i)
  /\ i > row => status[i] = "new" /\ steps[i] = <<>>
  /\ i = row => /\ status[i] \in {"new", "running"}
                /\ status[i] = "new" => steps[i] = <<>>
                /\ status[i] = "running" => RecipeWalk(i)

Busy == command.phase # "idle" => row <= Selected /\ status[row] = "running"

PassSettled == outcome = "pass" =>
                 /\ row = Selected + 1
                 /\ \E i \in 1..Selected : steps[i] # <<>>
                 /\ \A i \in 1..Selected : status[i] # "fail"

OracleInv == /\ OracleTypeOK /\ OracleDataOK /\ \A i \in 1..Selected : Place(i)
             /\ Busy /\ PassSettled

----------------------------------------------------------------------------
\* Every action has commands, the one that may ask for errors just one.
LEMMA CommandLists ==
  ASSUME NEW a \in OracleActions
  PROVE  /\ CommandsOf(a) \in Seq(Command) /\ Len(CommandsOf(a)) > 0
         /\ a = "errorcheck" => Len(CommandsOf(a)) = 1
<1>1. CASE a = "compiledir"
  BY <1>1 DEF CommandsOf, Command, OracleActions
<1>2. CASE a = "rundir"
  BY <1>2 DEF CommandsOf, Command, OracleActions
<1>3. CASE a = "run"
  BY <1>3 DEF CommandsOf, Command, OracleActions
<1>4. CASE a = "runoutput"
  BY <1>4 DEF CommandsOf, Command, OracleActions
<1>5. CASE a \notin {"compiledir", "rundir", "run", "runoutput"}
  <2>1. CommandsOf(a) = <<a>>
    BY <1>5 DEF CommandsOf
  <2> QED BY <2>1 DEF Command
<1> QED BY <1>1, <1>2, <1>3, <1>4, <1>5

LEMMA OracleStarts == OracleInit => OracleInv
<1> SUFFICES ASSUME OracleInit PROVE OracleInv
  OBVIOUS
<1>1. OracleTypeOK /\ OracleDataOK
  <2>1. OracleTypeOK
    <3>1. row \in 1..(Selected + 1) /\ snags \in 0..Snags
      BY OracleAssumption DEF OracleInit
    <3>2. /\ held \in BOOLEAN /\ outcome = "none"
          /\ command = [phase |-> "idle", end |-> "zero"]
          /\ status \in [1..Selected -> {"new"}]
      BY DEF OracleInit, Idle
    <3> QED BY <3>1, <3>2 DEF OracleTypeOK
  <2>2. <<>> \in Seq(Step) /\ pending \in Seq(Command)
    BY DEF OracleInit
  <2> QED BY <2>1, <2>2 DEF OracleInit, OracleDataOK
<1>2. \A i \in 1..Selected : Place(i)
  BY OracleAssumption DEF OracleInit, Place
<1>3. Busy /\ PassSettled
  BY DEF OracleInit, Busy, PassSettled, Idle
<1> QED BY <1>1, <1>2, <1>3 DEF OracleInv

\* Steps that change neither a row nor a command's being under way.
LEMMA RowsKeep ==
  ASSUME OracleInv, UNCHANGED <<recipe, row, pending, steps, status>>, OracleTypeOK'
  PROVE  OracleDataOK' /\ (\A i \in 1..Selected : Place(i)')
  BY DEF OracleInv, OracleDataOK, Place, Settled, Earned, Complete, GoodEnd, RecipeWalk,
         RecipeCommands

\* What a command's return leaves of its row.
LEMMA ReturnSettles ==
  ASSUME OracleInv, NEW made \in BOOLEAN, NEW matches \in BOOLEAN, Returns(made, matches)
  PROVE  OracleInv'
<1> USE DEF OracleInv
<1> PICK r \in 1..Selected : r = row
  BY OracleAssumption DEF Returns, Running, OracleTypeOK
<1>1. /\ status[r] = "running" /\ RecipeWalk(r)
      /\ recipe[r] \in [action : Actions, wantError : BOOLEAN, annotated : BOOLEAN,
                        expectFail : BOOLEAN, timed : BOOLEAN]
      /\ recipe[r].action \in OracleActions /\ pending \in Seq(Command)
      /\ command.end \in StepEnds /\ Selected \in Nat /\ steps[r] \in Seq(Step)
  BY OracleAssumption DEF Returns, Busy, OracleTypeOK, OracleDataOK, Place, StepEnds
<1> DEFINE new == [command |-> Head(pending), end |-> command.end, made |-> made]
           error == PerformFails(made, matches)
           ends == error \/ Len(pending) = 1
<1>2. new \in Step /\ Head(pending) = pending[1] /\ Len(pending) > 0
  BY <1>1 DEF Step, RecipeWalk
<1>3. /\ steps' = [steps EXCEPT ![r] = Append(@, new)]
      /\ UNCHANGED <<recipe, outcome>> /\ command' = Idle
  BY DEF Returns
<1>4. /\ steps'[r] = Append(steps[r], new) /\ steps'[r] \in Seq(Step)
      /\ Len(steps'[r]) = Len(steps[r]) + 1
      /\ \A n \in 1..Len(steps[r]) : steps'[r][n] = steps[r][n]
      /\ steps'[r][Len(steps[r]) + 1] = new
      /\ \A i \in 1..Selected : i # r => steps'[i] = steps[i]
  BY <1>1, <1>2, <1>3 DEF OracleDataOK
<1>5. /\ RecipeCommands(r) \in Seq(Command) /\ RecipeCommands(r)' = RecipeCommands(r)
      /\ recipe[r].wantError => Len(RecipeCommands(r)) = 1
  BY <1>1, <1>3, CommandLists DEF OracleDataOK, RecipeCommands
<1>6. \A n \in 1..Len(steps'[r]) : steps'[r][n].command = RecipeCommands(r)[n]
  <2>1. new.command = RecipeCommands(r)[Len(steps[r]) + 1]
    BY <1>1, <1>2 DEF RecipeWalk
  <2>2. \A n \in 1..Len(steps'[r]) : n \in 1..Len(steps[r]) \/ n = Len(steps[r]) + 1
    BY <1>1, <1>4
  <2> HIDE DEF new
  <2> QED BY <1>1, <1>4, <2>1, <2>2 DEF RecipeWalk
<1>7. ~error /\ ~recipe[r].wantError => GoodStep(new)
  BY <1>1, <1>2 DEF PerformFails, CommandFails, GoodStep
<1>8. ~error /\ recipe[r].wantError =>
        \/ new.end \in {"nonzero", "signal"}
        \/ new.end = "unstarted" /\ ~recipe[r].annotated
  BY <1>1 DEF PerformFails, Returns, StepEnds
<1>9. /\ outcome = "none"
      /\ \A i \in 1..Selected : i # r => Place(i) /\ RecipeCommands(i)' = RecipeCommands(i)
  BY <1>3 DEF Returns, Running, RecipeCommands
<1>10. CASE ends
  <2>1. /\ status' = [status EXCEPT ![r] =
                        IF error = recipe[r].expectFail THEN "pass" ELSE "fail"]
        /\ row' = r + 1 /\ pending' = <<>>
    BY <1>10 DEF Returns, JudgeRow
  <2>2. OracleTypeOK'
    BY <1>1, <1>3, <2>1 DEF OracleTypeOK, Idle, Returns, Snag
  <2>3. OracleDataOK'
    BY <1>3, <1>4, <2>1 DEF OracleDataOK
  <2>4. ASSUME status'[r] = "pass"
        PROVE  Earned(r)'
    <3>1. ASSUME ~recipe[r].expectFail
          PROVE  /\ Len(steps'[r]) = Len(RecipeCommands(r))
                 /\ \A n \in 1..Len(steps'[r]) : GoodEnd(r, steps'[r][n])
      <4>1. ~error
        BY <1>1, <2>1, <2>4, <3>1 DEF OracleTypeOK
      <4>2. Len(pending) = 1
        BY <1>10, <4>1
      <4>3. Len(steps'[r]) = Len(RecipeCommands(r))
        BY <1>1, <1>4, <4>2 DEF RecipeWalk
      <4>4. ASSUME NEW n \in 1..Len(steps'[r])
            PROVE  GoodEnd(r, steps'[r][n])
        <5>1. /\ n \in 1..Len(steps[r]) \/ (n = Len(steps[r]) + 1 /\ steps'[r][n] = new)
              /\ recipe[r].wantError => n = Len(steps[r]) + 1
          BY <1>1, <1>4, <1>5, <4>3
        <5>2. n \in 1..Len(steps[r]) => GoodStep(steps'[r][n])
          BY <1>1, <1>4 DEF RecipeWalk
        <5> HIDE DEF new, error
        <5>3. CASE recipe[r].wantError
          BY <1>1, <1>8, <4>1, <5>1, <5>3 DEF GoodEnd
        <5>4. CASE ~recipe[r].wantError
          BY <1>7, <4>1, <5>1, <5>2, <5>4 DEF GoodEnd
        <5> QED BY <5>3, <5>4
      <4> QED BY <4>3, <4>4
    <3>2. ASSUME recipe[r].expectFail, recipe[r].action \notin Compared,
                 Len(steps'[r]) = Len(RecipeCommands(r))
          PROVE  ~GoodStep(steps'[r][Len(steps'[r])]) /\ ~recipe[r].wantError
      <4>1. error
        BY <1>1, <2>1, <2>4, <3>2 DEF OracleTypeOK, PerformFails, CommandFails
      <4>2. ~recipe[r].wantError
        BY <1>1, <3>2 DEF OracleDataOK, Compared
      <4>3. ~matches => recipe[r].action \in Compared
        BY DEF Returns
      <4>4. CommandFails(made)
        BY <3>2, <4>1, <4>2, <4>3 DEF PerformFails
      <4>5. ~GoodStep(new)
        BY <4>4, <1>2 DEF CommandFails, GoodStep
      <4> QED BY <1>4, <4>2, <4>5
    <3>3. Len(steps'[r]) \in 1..Len(steps'[r])
      BY <1>1, <1>4
    <3> QED BY <1>3, <1>5, <1>6, <3>1, <3>2, <3>3 DEF Earned, Complete, GoodEnd, GoodStep
  <2>5. Settled(r)'
    BY <2>1, <2>4 DEF Settled, OracleTypeOK
  <2>6. ASSUME NEW i \in 1..Selected, i # r
        PROVE  Settled(i) => Settled(i)'
    BY <1>3, <1>4, <1>9, <2>1, <2>6 DEF Settled, Earned, Complete, GoodEnd, OracleTypeOK
  <2>7. ASSUME NEW i \in 1..Selected
        PROVE  Place(i)'
    <3>1. CASE i = r
      BY <2>1, <2>5, <3>1 DEF Place
    <3>2. CASE i # r
      BY <1>4, <1>9, <2>1, <2>6, <3>2 DEF Place, OracleTypeOK
    <3> QED BY <3>1, <3>2
  <2>8. Busy' /\ PassSettled'
    BY <1>3, <1>9 DEF Busy, PassSettled, Idle
  <2> QED BY <2>2, <2>3, <2>7, <2>8
<1>11. CASE ~ends
  <2>1. /\ pending' = Tail(pending) /\ UNCHANGED <<status, row>>
        /\ Len(pending) > 1 /\ ~error
    <3>1. ~error /\ Len(pending) # 1
      BY <1>11
    <3>2. pending' = Tail(pending) /\ UNCHANGED <<status, row>>
      BY <3>1 DEF Returns
    <3>3. Len(pending) > 1
      <4>1. Len(pending) \in Nat
        BY <1>1
      <4>2. \A x \in Nat : x > 0 /\ x # 1 => x > 1
        OBVIOUS
      <4> QED BY <1>2, <3>1, <4>1, <4>2, Zenon
    <3> QED BY <3>1, <3>2, <3>3
  <2>2. ~recipe[r].wantError /\ GoodStep(new)
    BY <1>1, <1>5, <1>7, <2>1 DEF RecipeWalk
  <2>3. /\ pending' \in Seq(Command) /\ Len(pending') = Len(pending) - 1
        /\ \A n \in 1..Len(pending') : pending'[n] = pending[n + 1]
    BY <1>1, <2>1
  <2>4. OracleTypeOK'
    BY <1>1, <1>3, <2>1 DEF OracleTypeOK, Idle, Returns, Snag
  <2>5. OracleDataOK'
    BY <1>3, <1>4, <2>3 DEF OracleDataOK
  <2>6. \A n \in 1..Len(steps'[r]) : GoodStep(steps'[r][n])
    BY <1>1, <1>4, <2>2 DEF RecipeWalk
  <2>7. /\ Len(pending') > 0 /\ Len(steps'[r]) + Len(pending') = Len(RecipeCommands(r))
        /\ \A n \in 1..Len(pending') : pending'[n] = RecipeCommands(r)[Len(steps'[r]) + n]
    <3>1. Len(pending') > 0 /\ Len(steps'[r]) + Len(pending') = Len(RecipeCommands(r))
      BY <1>1, <1>4, <1>5, <2>1, <2>3 DEF RecipeWalk
    <3>2. ASSUME NEW n \in 1..Len(pending')
          PROVE  pending'[n] = RecipeCommands(r)[Len(steps'[r]) + n]
      <4>1. /\ n + 1 \in 1..Len(pending) /\ pending'[n] = pending[n + 1]
            /\ Len(steps'[r]) + n = Len(steps[r]) + (n + 1)
        <5>1. Len(pending) \in Nat /\ Len(steps[r]) \in Nat /\ n \in Nat
          BY <1>1
        <5>2. Len(pending') = Len(pending) - 1 /\ Len(steps'[r]) = Len(steps[r]) + 1
          BY <1>4, <2>3
        <5>3. n + 1 \in 1..Len(pending)
          BY <5>1, <5>2
        <5>4. Len(steps'[r]) + n = Len(steps[r]) + (n + 1)
          <6>1. \A x \in Nat, y \in Nat : (x + 1) + y = x + (y + 1)
            OBVIOUS
          <6> QED BY <5>1, <5>2, <6>1, Zenon
        <5> QED BY <2>3, <5>3, <5>4
      <4> QED BY <1>1, <4>1 DEF RecipeWalk
    <3> QED BY <3>1, <3>2
  <2>8. RecipeWalk(r)'
    BY <1>3, <1>5, <1>6, <2>6, <2>7 DEF RecipeWalk, GoodStep
  <2>9. ASSUME NEW i \in 1..Selected
        PROVE  Place(i)'
    <3>1. CASE i = r
      BY <1>1, <2>1, <2>8, <3>1 DEF Place
    <3>2. CASE i # r
      <4>1. Settled(i) => Settled(i)'
        BY <1>3, <1>4, <1>9, <2>1, <3>2 DEF Settled, Earned, Complete, GoodEnd
      <4> QED BY <1>4, <1>9, <2>1, <3>2, <4>1 DEF Place
    <3> QED BY <3>1, <3>2
  <2>10. Busy' /\ PassSettled'
    BY <1>3, <1>9 DEF Busy, PassSettled, Idle
  <2> QED BY <2>4, <2>5, <2>9, <2>10
<1> QED BY <1>10, <1>11

\* A row whose next command could not be prepared is settled without it.
LEMMA UnpreparedSettles ==
  ASSUME OracleInv, Unprepared
  PROVE  OracleInv'
<1> USE DEF OracleInv
<1> PICK r \in 1..Selected : r = row
  BY OracleAssumption DEF Unprepared, Running, OracleTypeOK
<1>1. /\ status[r] = "running" /\ RecipeWalk(r) /\ outcome = "none"
      /\ status' = [status EXCEPT ![r] = IF recipe[r].expectFail THEN "pass" ELSE "fail"]
      /\ row' = r + 1 /\ pending' = <<>> /\ UNCHANGED <<recipe, command, held, steps, outcome>>
      /\ command.phase = "idle" /\ snags' \in 0..Snags
      /\ recipe[r].expectFail \in BOOLEAN /\ Selected \in Nat
  BY OracleAssumption
     DEF Unprepared, JudgeRow, Running, Place, OracleDataOK, OracleTypeOK, Snag
<1>2. RecipeCommands(r) \in Seq(Command) /\ steps[r] \in Seq(Step) /\ pending \in Seq(Command)
  BY CommandLists, OracleAssumption DEF OracleDataOK, RecipeCommands
<1>3. Len(steps[r]) # Len(RecipeCommands(r))
  BY <1>1, <1>2 DEF RecipeWalk
<1>4. Settled(r)'
  BY <1>1, <1>3 DEF Settled, Earned, Complete, RecipeCommands, OracleTypeOK
<1>5. ASSUME NEW i \in 1..Selected
      PROVE  Place(i)'
  <2>1. CASE i = r
    BY <1>1, <1>4, <2>1 DEF Place
  <2>2. CASE i # r
    BY <1>1, <2>2
       DEF Place, Settled, Earned, Complete, GoodEnd, RecipeCommands, OracleTypeOK
  <2> QED BY <2>1, <2>2
<1>6. OracleTypeOK' /\ OracleDataOK'
  BY <1>1 DEF OracleTypeOK, OracleDataOK
<1> QED BY <1>1, <1>5, <1>6 DEF Busy, PassSettled

LEMMA OracleSteps ==
  ASSUME OracleInv, [OracleNext]_oraclevars
  PROVE  OracleInv'
<1> USE OracleAssumption DEF OracleInv
<1>1. CASE Skip \/ Begin
  <2>1. /\ row \in 1..Selected /\ status[row] = "new" /\ outcome = "none"
        /\ UNCHANGED <<recipe, command, held, steps, outcome>> /\ steps[row] = <<>>
        /\ status \in [1..Selected -> {"new", "running", "pass", "fail", "skip"}]
        /\ snags' \in 0..Snags /\ command.phase = "idle"
    BY <1>1 DEF Skip, Begin, Running, Snag, OracleTypeOK, Place, Busy
  <2>2. CASE Skip
    <3>1. status' = [status EXCEPT ![row] = "skip"] /\ row' = row + 1 /\ pending' = pending
      BY <2>2 DEF Skip
    <3>2. OracleTypeOK' /\ OracleDataOK'
      <4>1. /\ row' \in 1..(Selected + 1)
            /\ status' \in [1..Selected -> {"new", "running", "pass", "fail", "skip"}]
        BY <2>1, <3>1
      <4> QED BY <2>1, <3>1, <4>1 DEF OracleTypeOK, OracleDataOK
    <3>3. ASSUME NEW i \in 1..Selected PROVE Place(i)'
      BY <2>1, <3>1 DEF Place, Settled, Earned, Complete, GoodEnd, RecipeCommands, OracleTypeOK
    <3> QED BY <2>1, <3>1, <3>2, <3>3 DEF Busy, PassSettled
  <2>3. CASE Begin
    <3>1. /\ status' = [status EXCEPT ![row] = "running"] /\ UNCHANGED <<row, snags>>
          /\ pending' = RecipeCommands(row)
      BY <2>3 DEF Begin, RecipeCommands
    <3>2. pending' \in Seq(Command) /\ Len(pending') > 0
      BY <2>1, <3>1, CommandLists DEF RecipeCommands, OracleDataOK
    <3>3. OracleTypeOK' /\ OracleDataOK'
      BY <2>1, <3>1, <3>2 DEF OracleTypeOK, OracleDataOK
    <3>4. RecipeWalk(row)'
      <4>1. RecipeCommands(row)' = RecipeCommands(row) /\ steps'[row'] = <<>> /\ Len(<<>>) = 0
        BY <2>1, <3>1 DEF RecipeCommands
      <4>2. RecipeCommands(row) \in Seq(Command)
        BY <3>1, <3>2
      <4> QED BY <3>1, <3>2, <4>1, <4>2 DEF RecipeWalk
    <3>5. ASSUME NEW i \in 1..Selected PROVE Place(i)'
      BY <2>1, <3>1, <3>4
         DEF Place, Settled, Earned, Complete, GoodEnd, RecipeCommands, OracleTypeOK
    <3> QED BY <2>1, <3>1, <3>3, <3>5 DEF Busy, PassSettled
  <2> QED BY <1>1, <2>2, <2>3
<1>2. CASE \/ PipeCloses \/ WaitReturns \/ Drift
           \/ \E odd \in BOOLEAN : Spawn(odd) \/ TimerFires(odd)
           \/ \E end \in {"zero", "nonzero", "signal"}, holds \in BOOLEAN : Exits(end, holds)
  <2>1. /\ UNCHANGED <<recipe, row, pending, steps, status>>
        /\ outcome' \in {outcome, "fatal"}
        /\ command'.phase # "idle" =>
             command.phase # "idle" \/ (row <= Selected /\ status[row] = "running")
    BY <1>2 DEF PipeCloses, WaitReturns, Drift, Spawn, TimerFires, Exits, Running, Idle
  <2>2. OracleTypeOK'
    <3>1. /\ UNCHANGED <<row, status>> /\ outcome' \in {"none", "pass", "fail", "fatal"}
          /\ row \in 1..(Selected + 1)
      BY <2>1 DEF OracleTypeOK
    <3> DEFINE Ok == /\ held' \in BOOLEAN /\ snags' \in 0..Snags
                     /\ command' \in [phase : {"idle", "running", "waited", "returned"},
                                      end : StepEnds]
    <3>2. PipeCloses \/ WaitReturns => Ok
      BY DEF PipeCloses, WaitReturns, OracleTypeOK, StepEnds
    <3>3. ASSUME NEW odd \in BOOLEAN, Spawn(odd) PROVE Ok
      BY <3>3 DEF Spawn, Snag, OracleTypeOK, StepEnds
    <3>4. ASSUME NEW odd \in BOOLEAN, TimerFires(odd) PROVE Ok
      BY <3>4 DEF TimerFires, Snag, OracleTypeOK, StepEnds
    <3>5. ASSUME NEW end \in {"zero", "nonzero", "signal"}, NEW holds \in BOOLEAN,
                 Exits(end, holds)
          PROVE  Ok
      BY <3>5 DEF Exits, Snag, OracleTypeOK, StepEnds
    <3>6. ASSUME Drift PROVE Ok
      BY <3>6 DEF Drift, Snag, OracleTypeOK, StepEnds
    <3>7. Ok
      BY <1>2, <3>2, <3>3, <3>4, <3>5, <3>6
    <3> QED BY <3>1, <3>7 DEF OracleTypeOK, StepEnds
  <2>3. Busy' /\ PassSettled'
    BY <2>1 DEF Busy, PassSettled
  <2> QED BY <2>1, <2>2, <2>3, RowsKeep
<1>3. CASE \E odd \in BOOLEAN, made \in BOOLEAN : Returns(made, odd)
  BY <1>3, ReturnSettles
<1>4. CASE Summarize
  <2>1. /\ UNCHANGED <<recipe, row, pending, command, held, steps, status, snags>>
        /\ row = Selected + 1 /\ outcome' \in {"pass", "fail", "fatal"}
        /\ outcome' = "pass" => /\ \E i \in 1..Selected : steps[i] # <<>>
                                /\ \A i \in 1..Selected : status[i] # "fail"
    BY <1>4 DEF Summarize, OracleTypeOK
  <2>2. OracleTypeOK'
    BY <2>1 DEF OracleTypeOK
  <2>3. Busy' /\ PassSettled'
    BY <2>1 DEF Busy, PassSettled
  <2> QED BY <2>1, <2>2, <2>3, RowsKeep
<1>5. CASE Unprepared
  BY <1>5, UnpreparedSettles
<1>6. CASE UNCHANGED oraclevars
  <2>1. OracleTypeOK' /\ Busy' /\ PassSettled'
    BY <1>6 DEF oraclevars, OracleTypeOK, Busy, PassSettled
  <2> QED BY <1>6, <2>1, RowsKeep DEF oraclevars
<1> QED BY <1>1, <1>2, <1>3, <1>4, <1>5, <1>6 DEF OracleNext, OracleDone

LEMMA OracleInvariant == OracleSpec => []OracleInv
<1>1. OracleInv /\ [OracleNext]_oraclevars => OracleInv'
  BY OracleSteps
<1> QED BY OracleStarts, <1>1, PTL DEF OracleSpec

\* The rows, the command under way and the verdict stay well formed.
THEOREM OracleTyped == OracleSpec => []OracleTypeOK
<1>1. OracleInv => OracleTypeOK
  BY DEF OracleInv
<1> QED BY OracleInvariant, <1>1, PTL

\* A run of the oracle that passes has recorded some command, behind each row that
\* passed are all the commands of its action with the ends the row asks for, and
\* a known failure passed over an error.
THEOREM PassIsEarnedHolds == OracleSpec => []PassIsEarned
<1>1. ASSUME OracleInv, outcome = "pass"
      PROVE  /\ \E i \in 1..Selected : steps[i] # <<>>
             /\ \A i \in 1..Selected :
                  status[i] = "skip" \/ (status[i] = "pass" /\ Earned(i))
  <2>1. /\ row = Selected + 1 /\ \E i \in 1..Selected : steps[i] # <<>>
        /\ \A i \in 1..Selected : status[i] # "fail" /\ Place(i)
    BY <1>1 DEF OracleInv, PassSettled
  <2> QED BY <2>1, OracleAssumption DEF Place, Settled
<1>2. ASSUME OracleInv, NEW i \in 1..Selected
      PROVE  Complete(i) <=>
               /\ [n \in DOMAIN steps[i] |-> steps[i][n].command] = RecipeCommands(i)
               /\ \A n \in DOMAIN steps[i] : GoodEnd(i, steps[i][n])
  <2>1. /\ RecipeCommands(i) \in Seq(Command) /\ steps[i] \in Seq(Step)
    BY <1>2, CommandLists, OracleAssumption DEF OracleInv, OracleDataOK, RecipeCommands
  <2>2. /\ DOMAIN steps[i] = 1..Len(steps[i])
        /\ DOMAIN RecipeCommands(i) = 1..Len(RecipeCommands(i))
        /\ RecipeCommands(i) = [n \in DOMAIN RecipeCommands(i) |-> RecipeCommands(i)[n]]
        /\ Len(steps[i]) \in Nat /\ Len(RecipeCommands(i)) \in Nat
    BY <2>1
  <2> DEFINE listed == [n \in DOMAIN steps[i] |-> steps[i][n].command]
  <2>3. ASSUME Complete(i)
        PROVE  listed = RecipeCommands(i) /\ \A n \in DOMAIN steps[i] : GoodEnd(i, steps[i][n])
    BY <2>2, <2>3 DEF Complete
  <2>4. ASSUME listed = RecipeCommands(i), \A n \in DOMAIN steps[i] : GoodEnd(i, steps[i][n])
        PROVE  Complete(i)
    <3>1. DOMAIN listed = DOMAIN steps[i]
      OBVIOUS
    <3>2. 1..Len(steps[i]) = 1..Len(RecipeCommands(i))
      BY <2>2, <2>4, <3>1
    <3>3. Len(steps[i]) = Len(RecipeCommands(i))
      BY <2>2, <3>2
    <3>4. \A n \in 1..Len(steps[i]) : steps[i][n].command = RecipeCommands(i)[n]
      <4>1. \A n \in DOMAIN steps[i] : listed[n] = steps[i][n].command
        OBVIOUS
      <4> QED BY <2>2, <2>4, <4>1
    <3> QED BY <2>2, <2>4, <3>3, <3>4 DEF Complete
  <2> QED BY <2>3, <2>4
<1>3. OracleInv => PassIsEarned
  BY <1>1, <1>2 DEF PassIsEarned, Earned, GoodEnd, GoodStep, RecipeCommands
<1> QED BY OracleInvariant, <1>3, PTL
=============================================================================
