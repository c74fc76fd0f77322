------------------------------- MODULE GbeRow -------------------------------
(***************************************************************************)
(* One row of the Go by Example gate: the body of gateMain's loop with its *)
(* input bindings (inputs.go), the publication of the result, and          *)
(* validate-evidence, which derives it again.                              *)
(*                                                                         *)
(* A stage is what StageRun promises: it ends, and only a complete one     *)
(* left nothing behind unnoticed.  At any moment a file may become         *)
(* foreign, altered by a process some program left or by an operator; it   *)
(* stays so: an alteration made and undone inside a window is out of       *)
(* reach.  A tree is copied and bound in one step.                         *)
(***************************************************************************)
EXTENDS Naturals

CONSTANT Faults    \* bound: things that may go wrong in one row

ASSUME GbeAssumption == Faults \in Nat

GbeModes == {"oracle", "interpreted", "compiled"}
Artifact == {"oracle_bin", "transpiled", "lowered_bin"}
Pinned == {"source", "candidate", "oracle_src", "entry", "product_src", "build_dir"}
GbeFile == Artifact \cup Pinned \cup {"assets", "cache", "streams"}
Content == {"none", "own", "grown", "foreign"}   \* grown: only added to
Unbound == "unbound"

VARIABLES
  at,        \* the stage the row is at
  turn,      \* whose run it is
  test,      \* the row is the test program, entered through a driver
  last,      \* the result of the stage under way, or NoResult
  files,     \* every file as it is
  bound,     \* every bound tree as it was bound
  binaries,  \* the modes that have something to run
  staged,    \* what is recorded of the three building stages
  noted,     \* the artifacts as the stage records hash them
  given,     \* what the stages read
  result,    \* the three runs
  verdicts,  \* the three verdicts, and below them the row's
  published, \* the suffix of the evidence file
  anchored,  \* its reviewed root is committed (evidence-roots.tsv)
  authenticated, faults

tree == <<files, bound, noted, given>>
records == <<staged, result, verdicts, published, anchored, authenticated>>
gbevars == <<at, turn, test, last, binaries, tree, records, faults>>

----------------------------------------------------------------------------
\* Whose input a binding is.  (The mutant knows of no scopes.)
TreesOfAll(mode) == GbeFile \ {"candidate", "streams"}

SharedTrees == {"source", "assets", "cache", "oracle_bin", "lowered_bin"}
Trees(mode) == SharedTrees \cup
  CASE mode = "oracle"      -> {"oracle_src"}
    [] mode = "interpreted" -> {"entry"}
    [] mode = "compiled"    -> {"product_src", "transpiled", "build_dir"}

AllowsAdditions(f) == f \in {"oracle_src", "build_dir"}

\* Changes: nothing bound may differ; where additions are declared, what was
\* bound may have company.
Unchanged(f) == \/ bound[f] = Unbound \/ files[f] = bound[f]
                \/ AllowsAdditions(f) /\ files[f] = "grown"
Intact(mode) == \A f \in Trees(mode) : Unchanged(f)

Owner == IF at = "oracle-build" THEN "oracle" ELSE IF at = "run" THEN turn ELSE "compiled"

\* enforceRun.  (The mutant trusts the check before the run.)
EnforcedBefore == last

Enforced == IF Intact(Owner) THEN last ELSE [last EXCEPT !.state = "input_mutation"]

StageOK(r) == r.state = "complete" /\ r.seen # "odd"

\* A result: its state ("failed" is any end of gateContext.run that is not
\* complete, its own "unspawned" included); whether Corpus.capture left a record
\* and whether a process ran; exit and streams ("nothing" is no exit at all);
\* the effects ("none" could not be normalized).
NoResult == [state |-> "none", spawned |-> FALSE, captured |-> FALSE, seen |-> "nothing",
             effects |-> "none"]
Unspawned == [NoResult EXCEPT !.state = "unspawned"]

\* gateContext.run: a capture may fail, or not be reached (no time left, no such
\* command, no standard input), or record a launch that failed.
StageEnd ==
  {r \in [state : {"complete", "failed"}, spawned : BOOLEAN, captured : BOOLEAN,
          seen : {"same", "odd", "unnormal", "nothing"}, effects : {"same", "odd", "none"}] :
     /\ r.spawned => r.captured
     /\ ~r.spawned => r.seen = "nothing"
     /\ r.seen = "nothing" => r.state = "failed"}

\* What a failed capture had launched may have run all the same.
MayRun(r) == r.spawned \/ ~r.captured

StageRecord(state, r) == [state |-> state, captured |-> r.captured]

\* What a stage reads besides the toolchain, and what it leaves.
Consumes ==
  CASE at = "oracle-build" -> {"oracle_src"}
    [] at = "transpile"    -> {"candidate", "product_src"}
    [] at = "build"        -> {"build_dir"}
    [] at = "run" -> {"cache"} \cup
         CASE turn = "oracle"      -> {"oracle_bin"}
           [] turn = "compiled"    -> {"lowered_bin"}
           [] turn = "interpreted" -> {"candidate", IF test THEN "entry" ELSE "source"}
Leaves == CASE at = "oracle-build" -> "oracle_bin" [] at = "transpile" -> "transpiled"
            [] at = "build" -> "lowered_bin"
Grows == CASE at = "oracle-build" -> {"oracle_src"} [] at = "build" -> {"build_dir"}
           [] OTHER -> {}

Reading(fs) == given' = given \cup {<<f, files[f]>> : f \in fs}
Fault(odd) == /\ faults' = IF odd THEN faults + 1 ELSE faults
              /\ faults' <= Faults

GbeInit ==
  /\ at = "staging" /\ turn = "oracle" /\ test \in BOOLEAN /\ last = NoResult
  /\ files = [f \in GbeFile |->
                IF f \in {"source", "assets", "cache", "candidate", "streams"}
                THEN "own" ELSE "none"]
  /\ bound = [f \in GbeFile |-> Unbound] /\ noted = [f \in Artifact |-> "none"]
  /\ given = {} /\ binaries = {}
  /\ staged = [s \in {"oracle-build", "transpile", "build"} |->
                 StageRecord("absent", NoResult)]
  /\ result = [m \in GbeModes |-> NoResult]
  /\ verdicts = [m \in GbeModes |-> "none"]
  /\ published = "none" /\ anchored = FALSE /\ authenticated = FALSE
  /\ faults = 0

\* The shared trees are bound, the oracle's copy of the row made and bound.
\* (The mutant binds work/bin with them.)
StageOracleBindingBin ==
  /\ at = "staging"
  /\ files' = [files EXCEPT !["oracle_src"] = "own"]
  /\ bound' = [f \in GbeFile |-> IF f \in SharedTrees \cup {"oracle_src"}
                                 THEN files'[f] ELSE Unbound]
  /\ Reading({"source", "assets"})
  /\ at' = "oracle-build"
  /\ UNCHANGED <<turn, test, last, binaries, noted, records, faults>>

StageOracle ==
  /\ at = "staging"
  /\ files' = [files EXCEPT !["oracle_src"] = "own"]
  /\ bound' = [f \in GbeFile |-> IF f \in {"source", "assets", "cache", "oracle_src"}
                                 THEN files'[f] ELSE Unbound]
  /\ Reading({"source", "assets"})
  /\ at' = "oracle-build"
  /\ UNCHANGED <<turn, test, last, binaries, noted, records, faults>>

\* A building stage ends.  If it ran it read its inputs, and left what it should
\* or not.
Build(r, left) ==
  /\ at \in {"oracle-build", "transpile", "build"} /\ last = NoResult
  /\ r \in StageEnd /\ r.seen # "unnormal" /\ r.effects = "none"
  /\ left \in {"own", "none"}
  /\ Fault(~StageOK(r) \/ left = "none")
  /\ last' = r
  /\ \/ ~r.spawned /\ UNCHANGED <<files, given>>
     \/ /\ MayRun(r)
        /\ Reading(Consumes)
        /\ \E grown \in SUBSET Grows :
             files' = [f \in GbeFile |->
                         IF f = Leaves THEN left
                         ELSE IF f \in grown /\ files[f] = "own" THEN "grown" ELSE files[f]]
  /\ UNCHANGED <<at, turn, test, bound, binaries, noted, records>>

\* The oracle's build is judged and recorded.
JudgeOracle ==
  /\ at = "oracle-build" /\ last # NoResult
  /\ staged' = [staged EXCEPT !["oracle-build"] = StageRecord(Enforced.state, last)]
  /\ IF StageOK(Enforced) /\ files["oracle_bin"] # "none"
     THEN /\ binaries' = {"oracle"}
          /\ noted' = [noted EXCEPT !["oracle_bin"] = files["oracle_bin"]]
     ELSE UNCHANGED <<binaries, noted>>
  /\ last' = NoResult /\ at' = "products"
  /\ UNCHANGED <<turn, test, files, bound, given, result, verdicts, published,
                 anchored, authenticated, faults>>

\* The product's inputs: copies whose bytes must be the pinned ones, but for an
\* interpreted program, which is read where it is.
StageProducts ==
  LET copies == {"product_src"} \cup IF test THEN {"entry"} ELSE {} IN
  /\ at = "products" /\ files["source"] = "own"
  /\ files' = [f \in GbeFile |-> IF f \in copies THEN "own" ELSE files[f]]
  /\ bound' = [f \in GbeFile |-> IF f \in copies THEN "own" ELSE bound[f]]
  /\ Reading({"source", "assets"})
  /\ at' = "transpile"
  /\ UNCHANGED <<turn, test, last, binaries, noted, records, faults>>

\* (The mutant of the next action records only a stage that completed.)
JudgeTranspileIfComplete ==
  /\ at = "transpile" /\ last # NoResult
  /\ IF StageOK(Enforced) /\ files["transpiled"] = "own"
     THEN /\ noted' = [noted EXCEPT !["transpiled"] = files["transpiled"]]
          /\ files' = [files EXCEPT !["build_dir"] = "own"]
          /\ bound' = [bound EXCEPT !["transpiled"] = files["transpiled"],
                                    !["build_dir"] = "own"]
          /\ Reading({"transpiled", "assets"})
          /\ staged' = [staged EXCEPT !["transpile"] = StageRecord("complete", last)]
          /\ at' = "build"
     ELSE at' = "rooting" /\ UNCHANGED <<tree, staged>>
  /\ last' = NoResult
  /\ UNCHANGED <<turn, test, binaries, result, verdicts, published, anchored, authenticated,
                 faults>>

\* The transpiled program and its source map are checked, bound and copied
\* into the build's tree.  A generated file that is not its map's is refused.
JudgeTranspile ==
  /\ at = "transpile" /\ last # NoResult
  /\ \E mapped \in BOOLEAN :
       LET lowered == StageOK(Enforced) /\ files["transpiled"] # "none" IN
       /\ files["transpiled"] = "own" => mapped
       /\ IF lowered /\ mapped
          THEN /\ noted' = [noted EXCEPT !["transpiled"] = files["transpiled"]]
               /\ files' = [files EXCEPT !["build_dir"] = "own"]
               /\ bound' = [bound EXCEPT !["transpiled"] = files["transpiled"],
                                         !["build_dir"] = "own"]
               /\ Reading({"transpiled", "assets"})
               /\ staged' = [staged EXCEPT !["transpile"] = StageRecord("complete", last)]
               /\ at' = "build"
          ELSE /\ staged' = [staged EXCEPT !["transpile"] =
                    StageRecord(IF lowered THEN "invalid_source_map" ELSE Enforced.state, last)]
               /\ at' = "rooting"
               /\ UNCHANGED tree
  /\ last' = NoResult
  /\ UNCHANGED <<turn, test, binaries, result, verdicts, published, anchored, authenticated,
                 faults>>

JudgeBuild ==
  /\ at = "build" /\ last # NoResult
  /\ staged' = [staged EXCEPT !["build"] = StageRecord(Enforced.state, last)]
  /\ IF StageOK(Enforced) /\ files["lowered_bin"] # "none"
     THEN /\ binaries' = binaries \cup {"compiled"}
          /\ noted' = [noted EXCEPT !["lowered_bin"] = files["lowered_bin"]]
     ELSE UNCHANGED <<binaries, noted>>
  /\ last' = NoResult /\ at' = "rooting"
  /\ UNCHANGED <<turn, test, files, bound, given, result, verdicts, published,
                 anchored, authenticated, faults>>

\* work/bin is bound only now that both builds have written to it, and the
\* three execution roots are made.
StageRoots ==
  /\ at = "rooting"
  /\ bound' = [bound EXCEPT !["oracle_bin"] = files["oracle_bin"],
                            !["lowered_bin"] = files["lowered_bin"]]
  /\ Reading({"assets"})
  /\ at' = "configure"
  /\ UNCHANGED <<turn, test, last, files, binaries, noted, records, faults>>

\* configureRuntime, then the run, if there is something to run, nothing it
\* is given has changed and the configuration took.
Configure ==
  /\ at = "configure"
  /\ \E configured \in BOOLEAN :
       /\ Fault(~configured)
       /\ IF /\ turn \in binaries \cup {"interpreted"}
             /\ Intact(turn) /\ configured
          THEN UNCHANGED last
          ELSE last' = [Unspawned EXCEPT !.state =
                          IF configured THEN @ ELSE "configuration_failure"]
  /\ at' = "run"
  /\ UNCHANGED <<turn, test, binaries, tree, records>>

Run1(r) ==
  /\ at = "run" /\ last = NoResult
  /\ r \in StageEnd
  /\ Fault(r.state # "complete" \/ r.seen # "same" \/ r.effects # "same")
  /\ last' = r
  /\ \/ ~r.spawned /\ UNCHANGED given
     \/ MayRun(r) /\ Reading(Consumes)
  /\ UNCHANGED <<at, turn, test, files, bound, binaries, noted, records>>

Observe ==
  /\ at = "run" /\ last # NoResult
  /\ result' = [result EXCEPT ![turn] = Enforced]
  /\ last' = NoResult
  /\ IF turn = "compiled" THEN at' = "comparing" /\ UNCHANGED turn
     ELSE /\ at' = "configure"
          /\ turn' = IF turn = "oracle" THEN "interpreted" ELSE "compiled"
  /\ UNCHANGED <<test, binaries, tree, staged, verdicts, published, anchored, authenticated,
                 faults>>

VerdictOf(mode) ==
  LET obs == result[mode]  reference == result["oracle"] IN
  CASE obs.state # "complete" -> "fail_incomplete"
    [] obs.state = "complete" /\ (\/ obs.seen = "unnormal" \/ obs.effects = "none"
                                  \/ reference.seen = "unnormal") -> "fail_normalization"
    [] OTHER ->
         IF mode = "oracle" THEN "pass"
         ELSE IF obs.seen # reference.seen THEN "fail_mismatch"
         ELSE IF reference.effects # "none" /\ obs.effects # reference.effects
         THEN "fail_effects" ELSE "pass"

Compare ==
  /\ at = "comparing" /\ files["source"] = "own"
  /\ verdicts' = [m \in GbeModes |-> VerdictOf(m)]
  /\ at' = "closing"
  /\ UNCHANGED <<turn, test, last, binaries, tree, staged, result, published,
                 anchored, authenticated, faults>>

Publish ==
  /\ at = "closing" /\ files["candidate"] = "own"
  /\ published' = IF \A m \in GbeModes : verdicts[m] = "pass" /\ result[m].spawned
                  THEN "pass" ELSE "fail"
  /\ at' = "done"
  /\ UNCHANGED <<turn, test, last, binaries, tree, staged, result, verdicts,
                 anchored, authenticated, faults>>

\* The root of what was published is reviewed and committed.
Anchor ==
  /\ at = "done" /\ ~anchored
  /\ anchored' = TRUE
  /\ UNCHANGED <<at, turn, test, last, binaries, tree, staged, result, verdicts,
                 published, authenticated, faults>>

\* fatal: the gate stops and publishes nothing.
Fatal ==
  /\ \/ at \in {"products", "comparing"} /\ files["source"] # "own"
     \/ at = "closing" /\ files["candidate"] # "own"
  /\ at' = "fatal"
  /\ UNCHANGED <<turn, test, last, binaries, tree, records, faults>>

----------------------------------------------------------------------------
\* validate-evidence.
Expected(mode) ==
  IF result[mode].spawned THEN VerdictOf(mode) ELSE "fail_incomplete"

ValidEvidence ==
  /\ staged["oracle-build"].state # "absent" /\ staged["transpile"].state # "absent"
  /\ staged["oracle-build"].captured
  /\ result["compiled"].spawned =>
       staged["transpile"].state = "complete" /\ staged["build"].state = "complete"
  /\ files["streams"] = "own"
  /\ \A f \in Artifact : noted[f] # "none" => files[f] = noted[f]
  /\ \A m \in GbeModes : verdicts[m] = Expected(m)
  /\ published = "pass" <=>
       \A m \in GbeModes : /\ result[m].spawned /\ result[m].state = "complete"
                           /\ verdicts[m] = "pass"
  /\ anchored

Authenticate ==
  /\ at = "done" /\ ~authenticated /\ ValidEvidence
  /\ authenticated' = TRUE
  /\ UNCHANGED <<at, turn, test, last, binaries, tree, staged, result, verdicts,
                 published, anchored, faults>>

\* A file changes under the gate.
Tamper(f) ==
  /\ at \notin {"fatal"} /\ files[f] # "foreign" /\ Fault(TRUE)
  /\ files' = [files EXCEPT ![f] = "foreign"]
  /\ UNCHANGED <<at, turn, test, last, bound, binaries, noted, given, records>>

GbeDone == at \in {"done", "fatal"} /\ UNCHANGED gbevars

GbeNext ==
  \/ StageOracle \/ JudgeOracle \/ StageProducts \/ JudgeTranspile \/ JudgeBuild
  \/ StageRoots \/ Configure \/ Observe \/ Compare \/ Publish \/ Anchor
  \/ Fatal \/ Authenticate
  \/ \E r \in StageEnd : Run1(r) \/ \E left \in {"own", "none"} : Build(r, left)
  \/ (\E f \in GbeFile : Tamper(f)) \/ GbeDone

GbeSpec == GbeInit /\ [][GbeNext]_gbevars

----------------------------------------------------------------------------
GbeTypeOK ==
  /\ at \in {"staging", "oracle-build", "products", "transpile", "build", "rooting",
             "configure", "run", "comparing", "closing", "done", "fatal"}
  /\ turn \in GbeModes /\ binaries \subseteq {"oracle", "compiled"}
  /\ files \in [GbeFile -> Content] /\ bound \in [GbeFile -> Content \cup {Unbound}]
  /\ noted \in [Artifact -> Content]
  /\ published \in {"none", "pass", "fail"} /\ faults \in 0..Faults

\* What was compared is what the evidence records: behind an authenticated pass
\* every stage of every mode read the pinned source and candidate, copies as
\* they were bound, the very artifacts that were hashed, and the three modes
\* one version of the assets and of the tool cache.
PassIsOneProgram ==
  authenticated /\ published = "pass" =>
    /\ \A r \in given : /\ r[1] \in Pinned => r[2] = "own"
                        /\ r[1] \in Artifact => r[2] = noted[r[1]]
    /\ \A r, s \in given : r[1] = s[1] => r[2] = s[2]

\* The gate and the validator read the same evidence alike: wherever the row
\* stopped and whatever failed, once its root is anchored what the gate published
\* is authentic as long as its files are left alone, with the one exception that
\* the code makes: the record of an oracle build that was never captured names no
\* command, and validate-evidence refuses it.
PublishedIsAuthentic ==
  published # "none" /\ (\A f \in GbeFile : files[f] # "foreign") =>
    (ValidEvidence <=> anchored /\ staged["oracle-build"].captured)

\* The gate's own writes into the trees it bound are never charged to a mode:
\* without a fault every row passes.
CleanRowPasses == at = "done" /\ faults = 0 => published = "pass"

\* A mutation is charged to the modes that were handed the tree, and suppresses
\* no other (inputs.go): as long as only what was made for other modes is altered,
\* a mode runs what it has to run and is not found to have read something else.
ScopedCharge ==
  LET madeFor == [oracle |-> {"oracle_src"}, interpreted |-> {"entry"},
                  compiled |-> {"product_src", "transpiled", "build_dir"}]
      Others(m) == (UNION {madeFor[n] : n \in GbeModes \ {m}}) \cup {"candidate", "streams"}
  IN
  \A m \in GbeModes :
    /\ result[m].state # "none"
    /\ \A f \in GbeFile : files[f] = "foreign" => f \in Others(m)
    => /\ result[m].state # "input_mutation"
       /\ m \in binaries \cup {"interpreted"} => result[m].state # "unspawned"
=============================================================================
