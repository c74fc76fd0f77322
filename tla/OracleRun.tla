------------------------------ MODULE OracleRun ------------------------------
(***************************************************************************)
(* A run of the Go oracle: main's loop over the selected rows, runOne,     *)
(* perform with the commands of each action, runcmd with its timeout, and  *)
(* the verdict over the results.                                           *)
(*                                                                         *)
(* Wait returns when the command has ended and nobody holds the pipe its   *)
(* output goes to; a timeout kills the command and nobody else.            *)
(***************************************************************************)
EXTENDS Integers, Sequences

CONSTANTS
  Selected,   \* how many rows the tranche has
  Actions,    \* the actions they declare
  Snags       \* bound: things that go otherwise than they should

OracleActions == {"errorcheck", "compile", "compiledir", "rundir", "build", "run",
                  "gorun", "runoutput"}
ASSUME OracleAssumption ==
  Selected \in Nat \ {0} /\ Actions \subseteq OracleActions /\ Snags \in Nat

VARIABLES
  recipe,    \* per row: its action and what its recipe and its name say of it
  row,       \* the row being run; one past the last when all have
  pending,   \* the commands still to run
  command,   \* the one that runs: how far it is and how it ended
  held,      \* a process it left holds its output pipe
  steps, status,  \* per row: the recorded steps, and pass, fail or skip
  outcome,   \* the verdict of the run
  snags

oraclevars == <<recipe, row, pending, command, held, steps, status, outcome, snags>>

\* "gorun" is the action run with flags or with a changed environment.
CommandsOf(action) ==
  CASE action = "compiledir" -> <<"compile", "compile">>
    [] action = "rundir"     -> <<"compile", "compile", "link", "exe">>
    [] action = "run"        -> <<"compile", "link", "exe">>
    [] action = "runoutput"  -> <<"gorun", "program">>
    [] OTHER                 -> <<action>>

\* The commands whose artifact is asserted, and the actions whose output is
\* compared with what the file expects (an errorcheck's with its annotations).
Asserted == {"compile", "link", "exe", "build", "program"}
Compared == {"errorcheck", "rundir", "run", "gorun", "runoutput"}

Idle == [phase |-> "idle", end |-> "zero"]

OracleInit ==
  /\ recipe \in [1..Selected -> [action : Actions, wantError : BOOLEAN, annotated : BOOLEAN,
                                 expectFail : BOOLEAN, timed : BOOLEAN]]
  /\ \A i \in 1..Selected :
       recipe[i].wantError \/ recipe[i].annotated => recipe[i].action = "errorcheck"
  /\ row = 1 /\ pending = <<>> /\ command = Idle /\ held = FALSE
  /\ steps = [i \in 1..Selected |-> <<>>] /\ status = [i \in 1..Selected |-> "new"]
  /\ outcome = "none" /\ snags = 0

Snag(odd) == /\ snags' = IF odd THEN snags + 1 ELSE snags
             /\ snags' <= Snags

Running == outcome = "none" /\ row <= Selected

\* The row is for another platform, ...
Skip ==
  /\ Running /\ status[row] = "new" /\ Snag(TRUE)
  /\ status' = [status EXCEPT ![row] = "skip"]
  /\ row' = row + 1
  /\ UNCHANGED <<recipe, pending, command, held, steps, outcome>>

\* ... or is run.
Begin ==
  /\ Running /\ status[row] = "new"
  /\ status' = [status EXCEPT ![row] = "running"]
  /\ pending' = CommandsOf(recipe[row].action)
  /\ UNCHANGED <<recipe, row, command, held, steps, outcome, snags>>

Spawn(starts) ==
  /\ Running /\ status[row] = "running" /\ command.phase = "idle"
  /\ Snag(~starts)
  /\ command' = IF starts THEN [phase |-> "running", end |-> "zero"]
                          ELSE [phase |-> "returned", end |-> "unstarted"]
  /\ UNCHANGED <<recipe, row, pending, held, steps, status, outcome>>

\* The command ends, as a compiler asked for errors should or as the others
\* should, or in another way.
WantedEnd == IF recipe[row].wantError THEN "nonzero" ELSE "zero"

Exits(end, holds) ==
  /\ command.phase = "running"
  /\ Snag(end # WantedEnd \/ holds)
  /\ command' = [phase |-> "waited", end |-> end]
  /\ held' = holds
  /\ UNCHANGED <<recipe, row, pending, steps, status, outcome>>

\* The timer fires: the command is killed, and waited for.
TimerFires(holds) ==
  /\ \/ command.phase = "running"
     \/ command.phase = "waited" /\ held /\ holds
  /\ recipe[row].timed /\ command.end # "timeout" /\ Snag(TRUE)
  /\ command' = [phase |-> "waited", end |-> "timeout"]
  /\ held' = holds
  /\ UNCHANGED <<recipe, row, pending, steps, status, outcome>>

PipeCloses ==
  /\ held /\ held' = FALSE
  /\ UNCHANGED <<recipe, row, pending, command, steps, status, outcome, snags>>

WaitReturns ==
  /\ command.phase = "waited" /\ ~held
  /\ command' = [command EXCEPT !.phase = "returned"]
  /\ UNCHANGED <<recipe, row, pending, held, steps, status, outcome, snags>>

\* runcmd's error: the command's, or else its artifact's.  (The mutant does not
\* look at the artifact.)
CommandFailsByExit(made) == command.end # "zero"

CommandFails(made) ==
  command.end # "zero" \/ (Head(pending) \in Asserted /\ ~made)

\* The row is judged by perform's error, the other way round for the known
\* failures.
JudgeRow(error) ==
  /\ status' = [status EXCEPT ![row] =
                  IF error = recipe[row].expectFail THEN "pass" ELSE "fail"]
  /\ row' = row + 1 /\ pending' = <<>>

\* perform fails before its next command: the packages of a directory cannot be
\* grouped or their importcfg written, or the generated program cannot be.
Unprepared ==
  /\ Running /\ status[row] = "running" /\ command.phase = "idle" /\ Snag(TRUE)
  /\ \/ recipe[row].action \in {"compiledir", "rundir"} /\ steps[row] = <<>>
     \/ recipe[row].action = "runoutput" /\ Len(pending) = 1
  /\ JudgeRow(TRUE)
  /\ UNCHANGED <<recipe, command, held, steps, outcome>>

\* Whether perform ends with an error at this command.
PerformFails(made, matches) ==
  IF recipe[row].wantError
  THEN command.end \in {"zero", "timeout"} \/ ~matches
  ELSE CommandFails(made) \/ (Len(pending) = 1 /\ ~matches)

\* The command is recorded; then perform goes on, or ends and the row is judged.
\* What did not start printed nothing, which is what a file without annotations
\* asks for.
Returns(made, matches) ==
  LET error == PerformFails(made, matches) IN
  /\ Running /\ command.phase = "returned"
  /\ Snag(~made \/ (~matches /\ command.end = WantedEnd))
  /\ ~made => Head(pending) \in Asserted /\ command.end = "zero"
  /\ ~matches => Len(pending) = 1 /\ recipe[row].action \in Compared
  /\ recipe[row].wantError /\ command.end = "unstarted" =>
       (matches <=> ~recipe[row].annotated)
  /\ steps' = [steps EXCEPT ![row] = Append(@,
                 [command |-> Head(pending), end |-> command.end, made |-> made])]
  /\ IF error \/ Len(pending) = 1
     THEN JudgeRow(error)
     ELSE pending' = Tail(pending) /\ UNCHANGED <<status, row>>
  /\ command' = Idle
  /\ UNCHANGED <<recipe, held, outcome>>

\* fatalf: what a row reads is not what was reviewed.
Drift ==
  /\ Running /\ status[row] \in {"new", "running"} /\ command.phase # "running"
  /\ command.phase # "waited" /\ Snag(TRUE)
  /\ outcome' = "fatal"
  /\ UNCHANGED <<recipe, row, pending, command, held, steps, status>>

\* tally, and the verdict.
Summarize ==
  /\ outcome = "none" /\ row > Selected
  /\ outcome' = IF \A i \in 1..Selected : steps[i] = <<>> THEN "fatal"
                ELSE IF \E i \in 1..Selected : status[i] = "fail" THEN "fail"
                ELSE "pass"
  /\ UNCHANGED <<recipe, row, pending, command, held, steps, status, snags>>

OracleDone == outcome # "none" /\ UNCHANGED oraclevars

OracleNext ==
  \/ Skip \/ Begin \/ Unprepared \/ PipeCloses \/ WaitReturns \/ Drift \/ Summarize \/ OracleDone
  \/ \E odd \in BOOLEAN :
       Spawn(odd) \/ TimerFires(odd) \/ \E made \in BOOLEAN : Returns(made, odd)
  \/ \E end \in {"zero", "nonzero", "signal"}, holds \in BOOLEAN : Exits(end, holds)

OracleSpec == OracleInit /\ [][OracleNext]_oraclevars

----------------------------------------------------------------------------
OracleTypeOK ==
  /\ row \in 1..(Selected + 1) /\ held \in BOOLEAN
  /\ command \in [phase : {"idle", "running", "waited", "returned"},
                  end : {"zero", "nonzero", "signal", "unstarted", "timeout"}]
  /\ status \in [1..Selected -> {"new", "running", "pass", "fail", "skip"}]
  /\ outcome \in {"none", "pass", "fail", "fatal"} /\ snags \in 0..Snags

\* A pass is earned (doc.go: every verdict is the exit status of recorded
\* commands): some row has recorded commands, and behind each pass is the whole
\* list of its action's, every one of them good.  Good is what the row asks for:
\* a compiler asked for errors must fail, where a file without annotations is
\* also satisfied with one that did not start.  A known failure passes only over
\* an error: its commands are not all there and good, or what they printed is
\* compared.
PassIsEarned ==
  LET Good(i, s) == IF recipe[i].wantError
                    THEN \/ s.end \in {"nonzero", "signal"}
                         \/ s.end = "unstarted" /\ ~recipe[i].annotated
                    ELSE s.end = "zero" /\ (s.command \in Asserted => s.made)
      Whole(i) == /\ [n \in DOMAIN steps[i] |-> steps[i][n].command] =
                       CommandsOf(recipe[i].action)
                  /\ \A n \in DOMAIN steps[i] : Good(i, steps[i][n])
  IN
  outcome = "pass" =>
    /\ \E i \in 1..Selected : steps[i] # <<>>
    /\ \A i \in 1..Selected : status[i] = "skip" \/
         /\ status[i] = "pass"
         /\ IF recipe[i].expectFail THEN Whole(i) => recipe[i].action \in Compared
            ELSE Whole(i)
==============================================================================
