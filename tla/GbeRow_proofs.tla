---------------------------- MODULE GbeRow_proofs ----------------------------
(***************************************************************************)
(* Proofs about GbeRow, for any number of faults.                          *)
(*                                                                         *)
(* A file that is read has a version it should have been read in (Pin):    *)
(* what the pin says, what the evidence hashed, or what was bound.  A read *)
(* of another version leaves its trace on disk (Kept), until the check     *)
(* that would have found it is passed (Fixings).                           *)
(*                                                                         *)
(* Charged says what a recorded mutation is evidence of: something the     *)
(* mode was handed is not as it was bound (Hurt).  Clean is a row nothing  *)
(* happened to, whose trees grow and whose files are consumed by the       *)
(* gate's own steps.  Recording and Telling relate what is recorded of a   *)
(* stage to where the row is, which is what the validator goes by.         *)
(***************************************************************************)
EXTENDS GbeRow, TLAPS

Result == [state : {"none", "complete", "failed", "unspawned", "configuration_failure",
                    "input_mutation"},
           spawned : BOOLEAN, captured : BOOLEAN,
           seen : {"same", "odd", "unnormal", "nothing"}, effects : {"same", "odd", "none"}]

DataOK == last \in Result /\ result \in [GbeModes -> Result] /\ test \in BOOLEAN

Copies == {"oracle_src", "entry", "product_src", "build_dir"}
Shared == {"assets", "cache"}
Readable == {"source", "candidate"} \cup Copies \cup Shared \cup Artifact

Pin(f) == IF f \in Artifact THEN noted[f] ELSE IF f \in Shared THEN bound[f] ELSE "own"

\* The row is past the stage that makes f.
Early == {"staging", "oracle-build", "products"}
Made(f) ==
  /\ at # "staging"
  /\ f = "oracle_bin" => at # "oracle-build"
  /\ f \in {"entry", "product_src"} => at \notin Early
  /\ f \in {"transpiled", "build_dir"} => at \notin Early \cup {"transpile"}
  /\ f = "lowered_bin" => at \notin Early \cup {"transpile", "build"}

\* What the files can be while they are still to be read.
Staged ==
  /\ at = "oracle-build" => /\ bound["oracle_src"] = "own"
                            /\ last = NoResult => files["oracle_src"] \in {"own", "foreign"}
  /\ at = "transpile" => bound["product_src"] = "own" /\ files["product_src"] # "none"
  /\ at = "build" => /\ bound["build_dir"] = "own"
                     /\ last = NoResult => files["build_dir"] \in {"own", "foreign"}
  /\ at \notin Early \cup {"fatal"} /\ test => bound["entry"] = "own" /\ files["entry"] # "none"

Stock ==
  /\ \A f \in GbeFile \ {"oracle_src", "build_dir"} : files[f] # "grown"
  /\ \A f \in {"source", "candidate", "assets", "cache"} : files[f] \in {"own", "foreign"}
  /\ at # "staging" => \A f \in Shared : /\ bound[f] \in {"own", "foreign"}
                                         /\ files[f] \in {bound[f], "foreign"}
  /\ \A f \in Artifact :
       noted[f] # "none" => /\ Made(f) /\ noted[f] \in {"own", "foreign"}
                            /\ files[f] \in {noted[f], "foreign"}

\* A mode that ran had something to run.
Turns ==
  /\ at = "run" /\ (last = NoResult \/ last.spawned) => turn \in binaries \cup {"interpreted"}
  /\ \A m \in GbeModes : result[m].spawned => m \in binaries \cup {"interpreted"}
  /\ "oracle" \in binaries => Made("oracle_bin") /\ noted["oracle_bin"] # "none"
  /\ "compiled" \in binaries => Made("lowered_bin") /\ noted["lowered_bin"] # "none"
  /\ result["interpreted"].state # "none" => turn = "compiled"
  /\ result["compiled"].state # "none" => at \in {"comparing", "closing", "done", "fatal"}

Kept(f, v) ==
  /\ f \in Readable /\ Made(f)
  /\ f \in Copies => bound[f] = "own"
  /\ f \in Artifact => noted[f] # "none"
  /\ v = Pin(f) \/ (files[f] = "foreign" /\ Pin(f) # "foreign")

Reads == \A r \in given : Kept(r[1], r[2])
Fixed(f) == \A r \in given : r[1] = f => r[2] = Pin(f)

Fixings ==
  /\ at \in {"closing", "done"} => Fixed("source")
  /\ at = "done" => Fixed("candidate")
  /\ "oracle" \in binaries => Fixed("oracle_src")
  /\ at = "build" \/ "compiled" \in binaries => Fixed("product_src")
  /\ "compiled" \in binaries => Fixed("build_dir")
  /\ result["interpreted"].state = "complete" => Fixed("entry")
  /\ result["compiled"].state = "complete" => Fixed("assets") /\ Fixed("cache")

Passed == authenticated => at = "done" /\ PassIsOneProgram

GbeInv == GbeTypeOK /\ DataOK /\ Staged /\ Stock /\ Turns /\ Reads /\ Fixings /\ Passed

----------------------------------------------------------------------------
LEMMA GbeStarts == GbeInit => GbeInv
<1> SUFFICES ASSUME GbeInit PROVE GbeInv
  OBVIOUS
<1> USE DEF GbeInit
<1>1. GbeTypeOK /\ DataOK
  BY GbeAssumption
     DEF GbeTypeOK, DataOK, Result, NoResult, GbeModes, GbeFile, Content, Artifact, Pinned
<1>2. Staged /\ Stock
  BY DEF Staged, Stock, GbeFile, Artifact, Pinned, Early
<1>3. Turns
  BY DEF Turns, NoResult, GbeModes
<1>4. Reads /\ Fixings /\ Passed
  BY DEF Reads, Fixings, Passed, NoResult, GbeModes
<1> QED BY <1>1, <1>2, <1>3, <1>4 DEF GbeInv

\* What a step can be.
LEMMA GbeCases ==
  ASSUME [GbeNext]_gbevars
  PROVE  \/ StageOracle \/ JudgeOracle \/ StageProducts \/ JudgeTranspile \/ JudgeBuild
         \/ StageRoots \/ Configure \/ Observe \/ Compare \/ Publish \/ Fatal \/ Authenticate
         \/ Anchor
         \/ (\E r \in Result : Run1(r))
         \/ (\E r \in Result, left \in {"own", "none"} : Build(r, left))
         \/ (\E f \in GbeFile : Tamper(f)) \/ UNCHANGED gbevars
<1>1. StageEnd \subseteq Result
  BY DEF StageEnd, Result
<1> QED BY <1>1 DEF GbeNext, GbeDone

LEMMA EnforcedTyped ==
  ASSUME DataOK
  PROVE  /\ Enforced \in Result /\ Enforced.spawned = last.spawned
         /\ Enforced.state # "none" \/ Enforced = last
         /\ Enforced.state = "complete" => Intact(Owner)
  BY DEF DataOK, Result, Enforced

LEMMA ResultTyped ==
  NoResult \in Result /\ Unspawned \in Result /\ ~Unspawned.spawned
  /\ [Unspawned EXCEPT !.state = "configuration_failure"] \in Result
  /\ ~[Unspawned EXCEPT !.state = "configuration_failure"].spawned
  BY DEF NoResult, Unspawned, Result

LEMMA FaultsTyped ==
  ASSUME GbeTypeOK, NEW odd \in BOOLEAN, Fault(odd)
  PROVE  faults' \in 0..Faults
<1>1. faults \in Nat /\ faults <= Faults
  BY GbeAssumption DEF GbeTypeOK
<1>2. faults' \in Nat /\ faults' <= Faults
  BY <1>1 DEF Fault
<1> QED BY <1>2, GbeAssumption

LEMMA GbeTypeStep ==
  ASSUME GbeTypeOK, DataOK, [GbeNext]_gbevars
  PROVE  GbeTypeOK' /\ DataOK'
<1> USE DEF GbeTypeOK, DataOK
<1>1. CASE StageOracle \/ StageProducts \/ StageRoots
  <2>1. /\ UNCHANGED <<turn, test, last, binaries, noted, result, published, faults>>
        /\ at' \in {"oracle-build", "transpile", "configure"}
    BY <1>1 DEF StageOracle, StageProducts, StageRoots, records
  <2>2. files' \in [GbeFile -> Content]
    BY <1>1 DEF StageOracle, StageProducts, StageRoots, Content
  <2>3. bound' \in [GbeFile -> Content \cup {Unbound}]
    <3>1. \A f \in GbeFile : files'[f] \in Content
      BY <2>2
    <3> QED BY <1>1, <3>1 DEF StageOracle, StageProducts, StageRoots, Content
  <2> QED BY <2>1, <2>2, <2>3
<1>2. CASE JudgeOracle \/ JudgeBuild
  <2>1. /\ UNCHANGED <<turn, test, files, bound, result, published, faults>>
        /\ last' = NoResult /\ at' \in {"products", "rooting"}
        /\ binaries' \subseteq binaries \cup {"oracle", "compiled"}
    BY <1>2 DEF JudgeOracle, JudgeBuild
  <2>2. noted' \in [Artifact -> Content]
    BY <1>2 DEF JudgeOracle, JudgeBuild, GbeFile, Artifact
  <2> QED BY <2>1, <2>2, ResultTyped
<1>3. CASE JudgeTranspile
  <2>1. /\ UNCHANGED <<turn, test, binaries, result, published, faults>>
        /\ last' = NoResult /\ at' \in {"build", "rooting"}
    BY <1>3 DEF JudgeTranspile
  <2>2. /\ files' \in [GbeFile -> Content] /\ bound' \in [GbeFile -> Content \cup {Unbound}]
        /\ noted' \in [Artifact -> Content]
    <3>1. files["transpiled"] \in Content /\ "own" \in Content
      BY DEF GbeFile, Artifact, Content
    <3> QED BY <1>3, <3>1 DEF JudgeTranspile, tree
  <2> QED BY <2>1, <2>2, ResultTyped
<1>4. CASE Configure
  <2>1. /\ UNCHANGED <<turn, test, binaries, files, bound, noted, result, published>>
        /\ at' = "run"
    BY <1>4 DEF Configure, tree, records
  <2>2. last' \in Result
    BY <1>4, ResultTyped DEF Configure, Unspawned, NoResult, Result
  <2>3. faults' \in 0..Faults
    BY <1>4, FaultsTyped DEF Configure
  <2> QED BY <2>1, <2>2, <2>3
<1>5. CASE Observe
  <2>1. /\ UNCHANGED <<test, binaries, files, bound, noted, published, faults>>
        /\ last' = NoResult /\ at' \in {"comparing", "configure"} /\ turn' \in GbeModes
        /\ result' = [result EXCEPT ![turn] = Enforced]
    BY <1>5 DEF Observe, tree, GbeModes
  <2> QED BY <2>1, ResultTyped, EnforcedTyped
<1>6. CASE Compare \/ Publish \/ Fatal \/ Authenticate \/ Anchor
  BY <1>6 DEF Compare, Publish, Fatal, Authenticate, Anchor, tree, records
<1>7. ASSUME NEW r \in Result, Run1(r)
      PROVE  GbeTypeOK' /\ DataOK'
  <2>1. faults' \in 0..Faults
    BY <1>7, FaultsTyped DEF Run1
  <2> QED BY <1>7, <2>1 DEF Run1, records
<1>8. ASSUME NEW r \in Result, NEW left \in {"own", "none"}, Build(r, left)
      PROVE  GbeTypeOK' /\ DataOK'
  <2>1. faults' \in 0..Faults
    BY <1>8, FaultsTyped DEF Build
  <2>2. files' \in [GbeFile -> Content]
    BY <1>8 DEF Build, Content
  <2> QED BY <1>8, <2>1, <2>2 DEF Build, records
<1>9. ASSUME NEW f \in GbeFile, Tamper(f)
      PROVE  GbeTypeOK' /\ DataOK'
  <2>1. faults' \in 0..Faults
    BY <1>9, FaultsTyped DEF Tamper
  <2> QED BY <1>9, <2>1 DEF Tamper, records, Content
<1>10. CASE UNCHANGED gbevars
  BY <1>10 DEF gbevars, tree, records
<1> QED BY <1>1, <1>2, <1>3, <1>4, <1>5, <1>6, <1>7, <1>8, <1>9, <1>10, GbeCases

----------------------------------------------------------------------------
\* Once made a file stays as it is, grows where it may, or becomes foreign for good.
LEMMA FilesStep ==
  ASSUME GbeInv, [GbeNext]_gbevars, NEW f \in Readable, Made(f)
  PROVE  /\ Made(f)' /\ f \in GbeFile
         /\ files'[f] \in {files[f], "foreign"} \/ (files[f] = "own" /\ files'[f] = "grown")
         /\ f \notin {"oracle_src", "build_dir"} => files'[f] \in {files[f], "foreign"}
         /\ f \notin Artifact => bound'[f] = bound[f]
         /\ f \in Artifact => noted'[f] = noted[f]
<1>1. /\ f \in GbeFile /\ files \in [GbeFile -> Content]
      /\ bound \in [GbeFile -> Content \cup {Unbound}] /\ noted \in [Artifact -> Content]
  BY DEF GbeInv, GbeTypeOK, Readable, Copies, Shared, GbeFile, Pinned
<1>2. CASE StageOracle
  BY <1>2 DEF StageOracle, Made
<1>3. CASE StageProducts
  <2>1. /\ at = "products" /\ at' = "transpile" /\ f \notin {"product_src", "entry"}
    BY <1>3 DEF StageProducts, Made, Early
  <2>2. Made(f)'
    BY <2>1 DEF Made, Early
  <2> QED BY <1>1, <1>3, <2>1, <2>2 DEF StageProducts
<1>4. CASE JudgeTranspile
  <2>1. /\ at = "transpile" /\ at' \in {"build", "rooting"}
        /\ f \notin {"transpiled", "build_dir", "lowered_bin"}
    BY <1>4 DEF JudgeTranspile, Made, Early
  <2>2. Made(f)'
    BY <2>1 DEF Made, Early
  <2>3. files'[f] = files[f] /\ bound'[f] = bound[f] /\ (f \in Artifact => noted'[f] = noted[f])
    BY <1>1, <1>4, <2>1 DEF JudgeTranspile, tree
  <2> QED BY <1>1, <2>2, <2>3
<1>5. CASE JudgeOracle \/ JudgeBuild
  <2>1. \/ at = "oracle-build" /\ at' = "products" /\ f # "oracle_bin" /\ JudgeOracle
        \/ at = "build" /\ at' = "rooting" /\ f # "lowered_bin" /\ JudgeBuild
    BY <1>5 DEF JudgeOracle, JudgeBuild, Made, Early
  <2>2. Made(f)'
    BY <2>1 DEF Made, Early
  <2> QED BY <1>1, <2>1, <2>2 DEF JudgeOracle, JudgeBuild
<1>6. CASE StageRoots
  <2>1. at = "rooting" /\ at' = "configure" /\ UNCHANGED <<files, noted>>
    BY <1>6 DEF StageRoots
  <2>2. Made(f)'
    BY <2>1 DEF Made, Early
  <2> QED BY <1>1, <1>6, <2>1, <2>2 DEF StageRoots, Artifact
<1>7. ASSUME NEW r \in Result, NEW left \in {"own", "none"}, Build(r, left)
      PROVE  /\ Made(f)' /\ UNCHANGED <<bound, noted>>
             /\ \/ files'[f] = files[f]
                \/ /\ f \in {"oracle_src", "build_dir"}
                   /\ files[f] = "own" /\ files'[f] = "grown"
  <2>1. UNCHANGED <<at, bound, noted>> /\ at \in {"oracle-build", "transpile", "build"}
    BY <1>7 DEF Build
  <2>2. f # Leaves /\ Grows \subseteq {"oracle_src", "build_dir"}
    BY <2>1 DEF Leaves, Grows, Made, Early
  <2>3. Made(f)'
    BY <2>1 DEF Made
  <2>4. \/ files'[f] = files[f]
        \/ \E grown \in SUBSET Grows :
             files'[f] = IF f \in grown /\ files[f] = "own" THEN "grown" ELSE files[f]
    BY <1>1, <1>7, <2>2 DEF Build
  <2> QED BY <2>1, <2>2, <2>3, <2>4
<1>8. ASSUME NEW g \in GbeFile, Tamper(g)
      PROVE  /\ Made(f)' /\ UNCHANGED <<bound, noted>> /\ files'[f] \in {files[f], "foreign"}
  BY <1>1, <1>8 DEF Tamper, Made
<1>9. CASE UNCHANGED <<files, bound, noted>> /\ (at' = at \/ at' \in {"configure", "run",
                                                 "comparing", "closing", "done", "fatal"})
  <2>1. Made(f)'
    BY <1>9 DEF Made, Early
  <2> QED BY <1>1, <1>9, <2>1
<1> QED BY <1>1, <1>2, <1>3, <1>4, <1>5, <1>6, <1>7, <1>8, <1>9, GbeCases
        DEF Configure, Observe, Compare, Publish, Fatal, Authenticate, Anchor, Run1, tree, gbevars

LEMMA KeptStays ==
  ASSUME GbeInv, [GbeNext]_gbevars, NEW f, NEW v, Kept(f, v)
  PROVE  Kept(f, v)' /\ Pin(f)' = Pin(f)
<1>1. f \in Readable /\ Made(f)
  BY DEF Kept
<1>2. /\ Made(f)' /\ f \in GbeFile
      /\ files[f] = "foreign" => files'[f] = "foreign"
      /\ f \notin Artifact => bound'[f] = bound[f]
      /\ f \in Artifact => noted'[f] = noted[f]
  BY <1>1, FilesStep
<1>3. Pin(f)' = Pin(f)
  BY <1>1, <1>2 DEF Pin, Readable, Copies, Shared, Pinned, Artifact
<1>4. f \in Copies => f \notin Artifact
  BY DEF Copies, Artifact
<1> QED BY <1>1, <1>2, <1>3, <1>4 DEF Kept

\* What is read, and where.
ReadNow(f) ==
  \/ at \in {"staging", "products"} /\ f \in {"source", "assets"}
  \/ at \in {"transpile", "rooting"} /\ f = "assets"
  \/ at = "oracle-build" /\ last = NoResult /\ f = "oracle_src"
  \/ at = "transpile" /\ last = NoResult /\ f \in {"candidate", "product_src"}
  \/ at = "transpile" /\ at' = "build" /\ f = "transpiled"
  \/ at = "build" /\ last = NoResult /\ f = "build_dir"
  \/ at = "run" /\ last = NoResult /\
       \/ f = "cache"
       \/ turn = "oracle" /\ f = "oracle_bin"
       \/ turn = "compiled" /\ f = "lowered_bin"
       \/ turn = "interpreted" /\ f \in {"candidate", IF test THEN "entry" ELSE "source"}

LEMMA ReadsNow ==
  ASSUME GbeTypeOK, [GbeNext]_gbevars, NEW r \in given', r \notin given
  PROVE  r = <<r[1], files[r[1]]>> /\ ReadNow(r[1])
<1>1. ASSUME NEW fs, Reading(fs), \A f \in fs : ReadNow(f)
      PROVE  r = <<r[1], files[r[1]]>> /\ ReadNow(r[1])
  <2>1. PICK f \in fs : r = <<f, files[f]>>
    BY <1>1 DEF Reading
  <2> QED BY <1>1, <2>1
<1>2. CASE StageOracle \/ StageProducts
  BY <1>1, <1>2 DEF StageOracle, StageProducts, ReadNow
<1>3. CASE StageRoots
  BY <1>1, <1>3 DEF StageRoots, ReadNow
<1>4. CASE JudgeTranspile
  <2>1. Reading({"transpiled", "assets"}) /\ at = "transpile" /\ at' = "build"
    BY <1>4 DEF JudgeTranspile, tree
  <2> QED BY <1>1, <2>1 DEF ReadNow
<1>5. ~UNCHANGED given
  OBVIOUS
<1>6. ASSUME NEW x \in Result, Run1(x) \/ \E left \in {"own", "none"} : Build(x, left)
      PROVE  r = <<r[1], files[r[1]]>> /\ ReadNow(r[1])
  <2>1. /\ Reading(Consumes) /\ last = NoResult
        /\ at \in {"oracle-build", "transpile", "build", "run"}
    BY <1>5, <1>6 DEF Run1, Build
  <2>2. turn \in {"oracle", "interpreted", "compiled"}
    BY DEF GbeTypeOK, GbeModes
  <2>3. \A f \in Consumes : ReadNow(f)
    BY <2>1, <2>2 DEF Consumes, ReadNow
  <2> QED BY <1>1, <2>1, <2>3
<1> QED BY <1>2, <1>3, <1>4, <1>6, <1>5, GbeCases
        DEF JudgeOracle, JudgeBuild, Configure, Observe, Compare, Publish, Fatal, Authenticate,
            Anchor, Tamper, tree, gbevars

----------------------------------------------------------------------------
LEMMA StockStep ==
  ASSUME GbeInv, [GbeNext]_gbevars
  PROVE  Stock'
<1>1. /\ files \in [GbeFile -> Content] /\ bound \in [GbeFile -> Content \cup {Unbound}]
      /\ noted \in [Artifact -> Content]
      /\ Artifact \cup Shared \cup Copies \cup {"source", "candidate"} \subseteq GbeFile
  BY DEF GbeInv, GbeTypeOK, Shared, Copies, GbeFile, Pinned
<1>2. Stock
  BY DEF GbeInv
<1> DEFINE Artifacts(f) == noted[f] # "none" => /\ Made(f) /\ noted[f] \in {"own", "foreign"}
                                               /\ files[f] \in {noted[f], "foreign"}
<1>3. ASSUME NEW f \in Artifact, noted'[f] = noted[f]
      PROVE  Artifacts(f)'
  <2>1. noted[f] # "none" => Made(f) /\ files[f] \in {noted[f], "foreign"}
                             /\ noted[f] \in {"own", "foreign"}
    BY <1>2 DEF Stock
  <2>2. noted[f] # "none" => Made(f)' /\ files'[f] \in {files[f], "foreign"}
    BY <2>1, FilesStep DEF Readable, Artifact
  <2> QED BY <1>3, <2>1, <2>2
<1>4. ASSUME NEW f \in Artifact, noted'[f] # noted[f]
      PROVE  Artifacts(f)'
  <2>1. \/ JudgeOracle /\ f = "oracle_bin"
        \/ JudgeTranspile /\ f = "transpiled"
        \/ JudgeBuild /\ f = "lowered_bin"
    <3>1. JudgeOracle => f = "oracle_bin"
      BY <1>1, <1>4 DEF JudgeOracle
    <3>2. JudgeTranspile => f = "transpiled"
      BY <1>1, <1>4 DEF JudgeTranspile, tree
    <3>3. JudgeBuild => f = "lowered_bin"
      BY <1>1, <1>4 DEF JudgeBuild
    <3>4. JudgeOracle \/ JudgeTranspile \/ JudgeBuild
      BY <1>4, GbeCases
         DEF StageOracle, StageProducts, StageRoots, Configure, Observe, Compare, Publish, Fatal,
             Authenticate, Anchor, Run1, Build, Tamper, tree, gbevars
    <3> QED BY <3>1, <3>2, <3>3, <3>4
  <2>2. noted'[f] = files[f] /\ files[f] # "none" /\ Made(f)' /\ files'[f] = files[f]
    <3>1. CASE JudgeOracle /\ f = "oracle_bin"
      BY <1>1, <1>4, <3>1 DEF JudgeOracle, Made
    <3>2. CASE JudgeTranspile /\ f = "transpiled"
      BY <1>1, <1>4, <3>2 DEF JudgeTranspile, Made, tree, Early
    <3>3. CASE JudgeBuild /\ f = "lowered_bin"
      BY <1>1, <1>4, <3>3 DEF JudgeBuild, Made, Early
    <3> QED BY <2>1, <3>1, <3>2, <3>3
  <2>3. files[f] \in {"own", "foreign"}
    BY <1>1, <1>2, <2>2 DEF Stock, Artifact, GbeFile, Content
  <2> QED BY <2>2, <2>3
<1>5. \A f \in Artifact : Artifacts(f)'
  BY <1>3, <1>4
<1>6. at' # "staging" => \A f \in Shared : /\ bound'[f] \in {"own", "foreign"}
                                           /\ files'[f] \in {bound'[f], "foreign"}
  <2>1. CASE StageOracle
    <3>1. \A f \in Shared : files'[f] = files[f] /\ bound'[f] = files'[f]
      BY <1>1, <2>1 DEF StageOracle, Shared, GbeFile
    <3> QED BY <1>2, <3>1 DEF Stock, Shared
  <2>2. CASE at # "staging"
    <3>1. ASSUME NEW f \in Shared
          PROVE  bound'[f] = bound[f] /\ files'[f] \in {files[f], "foreign"}
      BY <2>2, FilesStep DEF Shared, Readable, Made, Artifact
    <3> QED BY <1>2, <2>2, <3>1 DEF Stock
  <2>3. CASE ~StageOracle /\ at = "staging"
    <3>1. at' = "staging"
      BY <2>3, GbeCases
         DEF JudgeOracle, JudgeTranspile, JudgeBuild, StageProducts, StageRoots,
             Configure, Observe, Compare, Publish, Fatal, Authenticate, Anchor, Run1, Build, Tamper,
             gbevars
    <3> QED BY <3>1
  <2> QED BY <2>1, <2>2, <2>3
<1>7. \A f \in GbeFile \ {"oracle_src", "build_dir"} : files'[f] # "grown"
  <2>1. ASSUME NEW r \in Result, NEW left \in {"own", "none"}, Build(r, left),
               NEW f \in GbeFile \ {"oracle_src", "build_dir"}
        PROVE  files'[f] # "grown"
    <3>1. at \in {"oracle-build", "transpile", "build"} /\ f \notin Grows
      BY <2>1 DEF Build, Grows
    <3> QED BY <1>2, <2>1, <3>1 DEF Build, Stock
  <2>2. CASE UNCHANGED files
    BY <1>2, <2>2 DEF Stock
  <2>3. ASSUME NEW fs, files' = [f \in GbeFile |-> IF f \in fs THEN "own" ELSE files[f]]
        PROVE  \A f \in GbeFile \ {"oracle_src", "build_dir"} : files'[f] # "grown"
    BY <1>2, <2>3 DEF Stock
  <2>4. ASSUME NEW g \in GbeFile, NEW c \in {"own", "foreign"}, files' = [files EXCEPT ![g] = c]
        PROVE  \A f \in GbeFile \ {"oracle_src", "build_dir"} : files'[f] # "grown"
    BY <1>1, <1>2, <2>4 DEF Stock
  <2>5. {"oracle_src", "build_dir"} \subseteq GbeFile
    BY DEF GbeFile, Pinned
  <2>6. CASE StageOracle
    BY <2>4, <2>5, <2>6 DEF StageOracle
  <2>7. CASE StageProducts
    <3> PICK fs : files' = [f \in GbeFile |-> IF f \in fs THEN "own" ELSE files[f]]
      BY <2>7 DEF StageProducts
    <3> QED BY <2>3
  <2>8. CASE JudgeTranspile
    <3>1. files' = [files EXCEPT !["build_dir"] = "own"] \/ UNCHANGED files
      BY <2>8 DEF JudgeTranspile, tree
    <3> QED BY <2>2, <2>4, <2>5, <3>1
  <2>9. ASSUME NEW g \in GbeFile, Tamper(g)
        PROVE  \A f \in GbeFile \ {"oracle_src", "build_dir"} : files'[f] # "grown"
    BY <2>4, <2>9 DEF Tamper
  <2> QED BY <2>1, <2>2, <2>6, <2>7, <2>8, <2>9, GbeCases
          DEF JudgeOracle, JudgeBuild, StageRoots, Configure, Observe, Compare, Publish, Fatal,
              Authenticate, Anchor, Run1, tree, gbevars
<1>8. \A f \in {"source", "candidate", "assets", "cache"} : files'[f] \in {"own", "foreign"}
  <2>1. ASSUME NEW f \in {"source", "candidate", "assets", "cache"}
        PROVE  files'[f] \in {files[f], "foreign"}
    <3>1. CASE at # "staging"
      BY <2>1, <3>1, FilesStep DEF Made, Readable, Shared
    <3>2. CASE at = "staging"
      BY <1>1, <2>1, <3>2, GbeCases
         DEF JudgeOracle, JudgeTranspile, JudgeBuild, StageOracle, StageProducts, StageRoots,
             Configure, Observe, Compare, Publish, Fatal, Authenticate, Anchor, Run1, Build, Tamper,
             tree, gbevars, Shared, GbeFile
    <3> QED BY <3>1, <3>2
  <2> QED BY <1>2, <2>1 DEF Stock
<1> QED BY <1>5, <1>6, <1>7, <1>8 DEF Stock

LEMMA StagedStep ==
  ASSUME GbeInv, [GbeNext]_gbevars
  PROVE  Staged'
<1>1. /\ files \in [GbeFile -> Content] /\ bound \in [GbeFile -> Content \cup {Unbound}]
      /\ Copies \subseteq GbeFile
  BY DEF GbeInv, GbeTypeOK, Copies, GbeFile, Pinned
<1>2. Staged
  BY DEF GbeInv
<1>3. CASE StageOracle
  BY <1>1, <1>3 DEF StageOracle, Staged, Copies, Early
<1>4. CASE StageProducts
  BY <1>1, <1>4 DEF StageProducts, Staged, Copies, Early
<1>5. CASE JudgeTranspile
  <2>1. at = "transpile" /\ at' \in {"build", "rooting"} /\ test' = test
    BY <1>5 DEF JudgeTranspile
  <2>2. test => bound'["entry"] = "own" /\ files'["entry"] # "none"
    BY <1>1, <1>2, <1>5, <2>1 DEF JudgeTranspile, tree, Copies, Early, Staged
  <2>3. at' = "build" => bound'["build_dir"] = "own" /\ files'["build_dir"] = "own"
    BY <1>1, <1>5 DEF JudgeTranspile, Copies
  <2> QED BY <2>1, <2>2, <2>3 DEF Staged
<1>6. CASE JudgeOracle
  BY <1>6 DEF JudgeOracle, Early, Staged
<1>7. CASE JudgeBuild
  BY <1>2, <1>7 DEF JudgeBuild, Early, Staged
<1>8. CASE StageRoots
  <2>1. bound'["entry"] = bound["entry"]
    BY <1>1, <1>8 DEF StageRoots, Copies
  <2> QED BY <1>2, <1>8, <2>1 DEF StageRoots, Early, Staged
<1>9. ASSUME NEW r \in Result, NEW left \in {"own", "none"}, Build(r, left)
      PROVE  Staged'
  <2>1. /\ UNCHANGED <<at, test, bound>> /\ last' = r /\ r.state # "none"
        /\ at \in {"oracle-build", "transpile", "build"}
    BY <1>9 DEF Build, StageEnd
  <2>2. last' # NoResult
    BY <2>1 DEF NoResult
  <2>3. ASSUME NEW f \in {"entry", "product_src"}
        PROVE  files'[f] = files[f]
    <3>1. f # Leaves /\ f \notin Grows /\ f \in GbeFile
      BY <2>1, <2>3 DEF Leaves, Grows, GbeFile, Pinned
    <3> QED BY <1>9, <3>1 DEF Build
  <2> QED BY <1>2, <2>1, <2>2, <2>3 DEF Staged
<1>10. ASSUME NEW g \in GbeFile, Tamper(g)
      PROVE  Staged'
  <2>1. /\ UNCHANGED <<at, test, bound, last>>
        /\ \A f \in Copies : files'[f] \in {files[f], "foreign"}
    BY <1>1, <1>10 DEF Tamper
  <2> QED BY <1>2, <2>1 DEF Staged, Copies
<1>11. CASE /\ UNCHANGED <<files, bound, test>>
            /\ \/ at \notin Early \cup {"fatal"} /\ at' \notin Early \cup {"transpile", "build"}
               \/ at' = "fatal"
  BY <1>2, <1>11 DEF Staged, Early
<1>12. CASE UNCHANGED gbevars
  BY <1>2, <1>12 DEF Staged, gbevars, tree
<1> QED BY <1>3, <1>4, <1>5, <1>6, <1>7, <1>8, <1>9, <1>10, <1>11, <1>12, GbeCases
        DEF Configure, Observe, Compare, Publish, Fatal, Authenticate, Anchor, Run1, tree, Early

LEMMA TurnsStep ==
  ASSUME GbeInv, [GbeNext]_gbevars
  PROVE  Turns'
<1>1. Turns /\ turn \in GbeModes /\ last \in Result /\ result \in [GbeModes -> Result]
  BY DEF GbeInv, GbeTypeOK, DataOK
<1>2. CASE JudgeOracle
  <2>1. /\ UNCHANGED <<turn, result>> /\ at' = "products"
        /\ "compiled" \notin binaries
    BY <1>1, <1>2 DEF JudgeOracle, Turns, Made, Early
  <2>2. \/ /\ binaries' = {"oracle"} /\ files["oracle_bin"] # "none"
           /\ noted' = [noted EXCEPT !["oracle_bin"] = files["oracle_bin"]]
        \/ UNCHANGED <<binaries, noted>>
    BY <1>2 DEF JudgeOracle
  <2>3. "oracle" \in binaries' => Made("oracle_bin")' /\ noted'["oracle_bin"] # "none"
    <3>1. "oracle" \notin binaries
      BY <1>1, <1>2 DEF JudgeOracle, Turns, Made
    <3> QED BY <2>1, <2>2, <3>1 DEF Made, GbeInv, GbeTypeOK, Artifact
  <2>4. \A m \in GbeModes : result'[m].spawned => m \in binaries' \cup {"interpreted"}
    BY <1>1, <2>1, <2>2 DEF Turns, GbeModes
  <2>5. result'["compiled"].state = "none"
    BY <1>1, <1>2, <2>1 DEF Turns, JudgeOracle
  <2> QED BY <1>1, <2>1, <2>2, <2>3, <2>4, <2>5 DEF Turns
<1>3. CASE JudgeBuild
  <2>1. /\ UNCHANGED <<turn, result>> /\ at = "build" /\ at' = "rooting"
    BY <1>3 DEF JudgeBuild
  <2>2. \/ /\ binaries' = binaries \cup {"compiled"} /\ files["lowered_bin"] # "none"
           /\ noted' = [noted EXCEPT !["lowered_bin"] = files["lowered_bin"]]
        \/ UNCHANGED <<binaries, noted>>
    BY <1>3 DEF JudgeBuild
  <2>3. "compiled" \notin binaries
    BY <1>1, <2>1 DEF Turns, Made
  <2>4. /\ "oracle" \in binaries' => Made("oracle_bin")' /\ noted'["oracle_bin"] # "none"
        /\ "compiled" \in binaries' => Made("lowered_bin")' /\ noted'["lowered_bin"] # "none"
    BY <1>1, <2>1, <2>2, <2>3 DEF Turns, Made, Early, GbeInv, GbeTypeOK, Artifact
  <2> QED BY <1>1, <2>1, <2>2, <2>4 DEF Turns
<1>4. ASSUME UNCHANGED binaries
      PROVE  /\ "oracle" \in binaries' => Made("oracle_bin")' /\ noted'["oracle_bin"] # "none"
             /\ "compiled" \in binaries' => Made("lowered_bin")' /\ noted'["lowered_bin"] # "none"
  BY <1>1, <1>4, FilesStep DEF Turns, Readable, Artifact
<1>5. CASE Configure
  <2>1. /\ UNCHANGED <<turn, binaries, result>> /\ at' = "run" /\ at = "configure"
        /\ \/ turn \in binaries \cup {"interpreted"}
           \/ last' \in {Unspawned, [Unspawned EXCEPT !.state = "configuration_failure"]}
    BY <1>5 DEF Configure, records, Unspawned, NoResult
  <2>2. NoResult \notin {Unspawned, [Unspawned EXCEPT !.state = "configuration_failure"]}
    BY DEF NoResult, Unspawned
  <2> QED BY <1>1, <1>4, <2>1, <2>2, ResultTyped DEF Turns
<1>6. CASE Observe
  <2>1. /\ at = "run" /\ last # NoResult /\ UNCHANGED binaries
        /\ result' = [result EXCEPT ![turn] = Enforced]
        /\ IF turn = "compiled" THEN at' = "comparing" /\ UNCHANGED turn
           ELSE at' = "configure" /\ turn' = IF turn = "oracle" THEN "interpreted" ELSE "compiled"
    BY <1>6 DEF Observe
  <2>2. \A m \in GbeModes : result'[m] = IF m = turn THEN Enforced ELSE result[m]
    BY <1>1, <2>1
  <2>3. \A m \in GbeModes : result'[m].spawned => m \in binaries' \cup {"interpreted"}
    BY <1>1, <2>1, <2>2, EnforcedTyped DEF Turns, GbeInv
  <2>4. result["compiled"].state = "none"
    BY <1>1, <2>1 DEF Turns
  <2> QED BY <1>1, <1>4, <2>1, <2>2, <2>3, <2>4 DEF Turns, GbeModes
<1>7. ASSUME NEW r \in Result, Run1(r)
      PROVE  Turns'
  <2>1. UNCHANGED <<at, turn, binaries, result>> /\ at = "run" /\ last = NoResult
    BY <1>7 DEF Run1, records
  <2> QED BY <1>1, <1>4, <2>1 DEF Turns
<1>8. CASE /\ UNCHANGED <<binaries, turn, result>>
           /\ \/ UNCHANGED at /\ (at = "run" => UNCHANGED last)
              \/ at' \notin {"run"} /\ at \in Early \cup {"transpile", "rooting"}
              \/ at' \in {"closing", "done", "fatal"}
  BY <1>1, <1>4, <1>8 DEF Turns, Early
<1> QED BY <1>2, <1>3, <1>5, <1>6, <1>7, <1>8, GbeCases
        DEF StageOracle, StageProducts, StageRoots, JudgeTranspile, Compare, Publish, Fatal,
            Authenticate, Anchor, Build, Tamper, records, gbevars, Early

LEMMA BinariesStep ==
  ASSUME [GbeNext]_gbevars
  PROVE  /\ JudgeOracle \/ JudgeBuild \/ UNCHANGED binaries
         /\ JudgeTranspile \/ at = "build" \/ at' # "build"
<1>1. CASE StageOracle \/ StageProducts \/ StageRoots
  BY <1>1 DEF StageOracle, StageProducts, StageRoots
<1>2. CASE JudgeOracle \/ JudgeTranspile \/ JudgeBuild
  BY <1>2 DEF JudgeOracle, JudgeTranspile, JudgeBuild
<1>3. CASE Configure \/ Observe \/ \E r \in Result : Run1(r)
  BY <1>3 DEF Configure, Observe, Run1
<1>4. CASE Compare \/ Publish \/ Fatal \/ Authenticate \/ Anchor
  BY <1>4 DEF Compare, Publish, Fatal, Authenticate, Anchor
<1>5. CASE \/ \E r \in Result, left \in {"own", "none"} : Build(r, left)
           \/ (\E f \in GbeFile : Tamper(f)) \/ UNCHANGED gbevars
  BY <1>5 DEF Build, Tamper, gbevars
<1> QED BY <1>1, <1>2, <1>3, <1>4, <1>5, GbeCases

\* What is read is what it should be, or is seen to be foreign.
LEMMA ReadsStep ==
  ASSUME GbeInv, [GbeNext]_gbevars
  PROVE  Reads'
<1> SUFFICES ASSUME NEW r \in given'
             PROVE  Kept(r[1], r[2])'
  BY DEF Reads
<1>1. CASE r \in given
  BY <1>1, KeptStays DEF GbeInv, Reads
<1>2. ASSUME r \notin given, Kept(r[1], files[r[1]])
      PROVE  Kept(r[1], r[2])'
  <2>1. r[2] = files[r[1]]
    BY <1>2, ReadsNow DEF GbeInv
  <2> QED BY <1>2, <2>1, KeptStays
<1>3. /\ files \in [GbeFile -> Content] /\ bound \in [GbeFile -> Content \cup {Unbound}]
      /\ noted \in [Artifact -> Content] /\ Stock /\ Staged /\ Turns
      /\ turn \in {"oracle", "interpreted", "compiled"}
  BY DEF GbeInv, GbeTypeOK, GbeModes
<1>4. CASE r \notin given
  <2> PICK f : f = r[1]
    OBVIOUS
  <2>1. r[2] = files[f] /\ ReadNow(f)
    BY <1>4, ReadsNow DEF GbeInv
  <2>2. CASE at # "staging" /\ f \in {"source", "candidate"}
    <3>1. f \in Readable /\ Made(f) /\ Pin(f) = "own" /\ f \notin Copies /\ f \notin Artifact
      BY <2>2 DEF Readable, Made, Pin, Copies, Shared, Artifact
    <3>2. files[f] \in {"own", "foreign"}
      BY <1>3, <2>2 DEF Stock
    <3>3. Kept(f, files[f])
      BY <3>1, <3>2 DEF Kept
    <3> QED BY <1>2, <1>4, <3>3
  <2>3. CASE at # "staging" /\ f \in Shared
    <3>1. /\ f \in Readable /\ Made(f) /\ Pin(f) = bound[f] /\ f \notin Copies
          /\ f \notin Artifact
      BY <2>3 DEF Readable, Made, Pin, Pinned, Copies, Artifact, Shared
    <3>2. bound[f] \in {"own", "foreign"} /\ files[f] \in {bound[f], "foreign"}
      BY <1>3, <2>3 DEF Stock
    <3>3. Kept(f, files[f])
      BY <3>1, <3>2 DEF Kept
    <3> QED BY <1>2, <1>4, <3>3
  <2>4. CASE f \in Copies
    <3>1. f \in Readable /\ f \notin Artifact /\ Pin(f) = "own" /\ f \in GbeFile
      BY <2>4 DEF Readable, Copies, Pin, Shared, Pinned, Artifact, GbeFile
    <3>2. \/ f = "oracle_src" /\ at = "oracle-build" /\ last = NoResult
          \/ f = "product_src" /\ at = "transpile"
          \/ f = "build_dir" /\ at = "build" /\ last = NoResult
          \/ f = "entry" /\ at = "run" /\ test
      BY <2>1, <2>4 DEF ReadNow, Copies
    <3>3. Made(f)
      BY <3>2 DEF Made, Early
    <3>4. bound[f] = "own" /\ files[f] \in {"own", "foreign"}
      <4>1. CASE f \in {"oracle_src", "build_dir"}
        BY <1>3, <3>2, <4>1 DEF Staged
      <4>2. CASE f \in {"product_src", "entry"}
        <5>1. bound[f] = "own" /\ files[f] # "none"
          BY <1>3, <3>2, <4>2 DEF Staged, Early
        <5>2. files[f] # "grown" /\ files[f] \in Content
          BY <1>3, <3>1, <4>2 DEF Stock
        <5> QED BY <5>1, <5>2 DEF Content
      <4> QED BY <2>4, <4>1, <4>2 DEF Copies
    <3>5. Kept(f, files[f])
      BY <3>1, <3>3, <3>4 DEF Kept
    <3> QED BY <1>2, <1>4, <3>5
  <2>5. CASE f \in {"oracle_bin", "lowered_bin"}
    <3>1. f \in Readable /\ f \in Artifact /\ f \notin Copies /\ Pin(f) = noted[f]
      BY <2>5 DEF Readable, Copies, Pin, Pinned, Artifact
    <3>2. Made(f) /\ noted[f] # "none"
      <4>1. /\ at = "run" /\ last = NoResult
            /\ f = "oracle_bin" => turn = "oracle"
            /\ f = "lowered_bin" => turn = "compiled"
        BY <2>1, <2>5 DEF ReadNow
      <4> QED BY <1>3, <2>5, <4>1 DEF Turns
    <3>3. noted[f] \in {"own", "foreign"} /\ files[f] \in {noted[f], "foreign"}
      BY <1>3, <3>1, <3>2 DEF Stock
    <3>4. Kept(f, files[f])
      BY <3>1, <3>2, <3>3 DEF Kept
    <3> QED BY <1>2, <1>4, <3>4
  <2>6. CASE at = "staging"
    <3>1. f \in {"source", "assets"} /\ StageOracle
      <4>1. ~UNCHANGED given
        BY <1>4
      <4> QED BY <2>1, <2>6, <4>1, GbeCases
              DEF ReadNow, StageProducts, StageRoots, JudgeOracle, JudgeTranspile, JudgeBuild,
                  Configure, Observe, Compare, Publish, Fatal, Authenticate, Anchor, Tamper,
                  Run1, Build, tree, gbevars
    <3>2. /\ f \in Readable /\ f \notin Copies /\ f \notin Artifact /\ f \in GbeFile
          /\ f = "source" => Pin(f)' = "own"
          /\ f = "assets" => Pin(f)' = bound'[f]
      BY <3>1 DEF Readable, Shared, Copies, Pin, Pinned, Artifact, GbeFile
    <3>3. files'[f] = files[f] /\ bound'[f] = files'[f] /\ at' = "oracle-build"
      BY <1>3, <3>1, <3>2 DEF StageOracle
    <3>4. Made(f)'
      BY <3>1, <3>3 DEF Made
    <3>5. files[f] \in {"own", "foreign"}
      BY <1>3, <3>1 DEF Stock
    <3> QED BY <2>1, <3>1, <3>2, <3>3, <3>4, <3>5 DEF Kept
  <2>7. CASE f = "transpiled"
    <3>1. at = "transpile" /\ at' = "build"
      BY <2>1, <2>7 DEF ReadNow
    <3>2. JudgeTranspile
      BY <3>1, GbeCases
         DEF StageOracle, StageProducts, StageRoots, JudgeOracle, JudgeBuild,
             Configure, Observe, Compare, Publish, Fatal, Authenticate, Anchor, Tamper, Run1, Build,
             gbevars
    <3>3. noted'[f] = files[f] /\ files[f] # "none" /\ files'[f] = files[f]
      <4>1. /\ noted' = [noted EXCEPT !["transpiled"] = files["transpiled"]]
            /\ files' = [files EXCEPT !["build_dir"] = "own"] /\ files["transpiled"] # "none"
        BY <3>1, <3>2 DEF JudgeTranspile
      <4>2. "transpiled" \in GbeFile /\ "transpiled" \in Artifact
        BY DEF GbeFile, Artifact
      <4> QED BY <1>3, <2>7, <4>1, <4>2
    <3>4. Made(f)' /\ f \in Readable /\ f \notin Copies /\ Pin(f)' = noted'[f]
      BY <2>7, <3>1 DEF Made, Early, Readable, Copies, Pin, Artifact, Pinned
    <3> QED BY <2>1, <3>3, <3>4 DEF Kept
  <2> QED BY <2>1, <2>2, <2>3, <2>4, <2>5, <2>6, <2>7 DEF ReadNow, Copies, Shared
<1> QED BY <1>1, <1>4

----------------------------------------------------------------------------
\* A check that finds a file as it was bound tells how it was read.
LEMMA UnchangedFixes ==
  ASSUME GbeInv, NEW f \in Copies \cup Shared, Unchanged(f)
  PROVE  Fixed(f)
<1> SUFFICES ASSUME NEW r \in given, r[1] = f
             PROVE  r[2] = Pin(f)
  BY DEF Fixed
<1>1. Kept(f, r[2])
  BY DEF GbeInv, Reads
<1>2. bound[f] = Pin(f) /\ bound[f] \in {"own", "foreign"}
  <2>1. CASE f \in Copies
    BY <1>1, <2>1 DEF Kept, Pin, Copies, Shared, Artifact
  <2>2. CASE f \in Shared
    BY <1>1, <2>2 DEF Kept, Pin, Shared, Pinned, Artifact, GbeInv, Stock, Made
  <2> QED BY <2>1, <2>2
<1>3. files[f] \in {bound[f], "grown"}
  BY <1>2 DEF Unchanged, Unbound
<1> QED BY <1>1, <1>2, <1>3 DEF Kept

LEMMA OwnFixes ==
  ASSUME GbeInv, NEW f \in {"source", "candidate"}, files[f] = "own"
  PROVE  Fixed(f)
  BY DEF Fixed, GbeInv, Reads, Kept, Pin, Pinned

\* What is fixed stays so if it is not read again.
LEMMA FixedStays ==
  ASSUME GbeInv, [GbeNext]_gbevars, NEW f, Fixed(f), given' = given \/ ~ReadNow(f)
  PROVE  Fixed(f)'
<1> SUFFICES ASSUME NEW r \in given', r[1] = f
             PROVE  r[2] = Pin(f)'
  BY DEF Fixed
<1>1. r \in given
  BY ReadsNow DEF GbeInv
<1>2. Kept(f, r[2]) /\ r[2] = Pin(f)
  BY <1>1 DEF GbeInv, Reads, Fixed
<1> QED BY <1>2, KeptStays

LEMMA FixingsStep ==
  ASSUME GbeInv, [GbeNext]_gbevars
  PROVE  Fixings'
<1>1. /\ Fixings /\ Turns /\ turn \in GbeModes /\ last \in Result
      /\ result \in [GbeModes -> Result]
  BY DEF GbeInv, GbeTypeOK, DataOK
<1>2. at' \in {"closing", "done"} => Fixed("source")'
  <2>1. CASE Compare
    BY <2>1, OwnFixes, FixedStays DEF Compare, tree
  <2>2. CASE ~Compare /\ at' \in {"closing", "done"}
    <3>1. at \in {"closing", "done"}
      BY <2>2, GbeCases
         DEF StageOracle, StageProducts, StageRoots, JudgeOracle, JudgeTranspile, JudgeBuild,
             Configure, Observe, Publish, Fatal, Authenticate, Anchor, Tamper, Run1, Build, gbevars
    <3>2. ~ReadNow("source")
      BY <3>1 DEF ReadNow
    <3> QED BY <1>1, <3>1, <3>2, FixedStays DEF Fixings
  <2> QED BY <2>1, <2>2
<1>3. at' = "done" => Fixed("candidate")'
  <2>1. CASE Publish
    BY <2>1, OwnFixes, FixedStays DEF Publish, tree
  <2>2. CASE ~Publish /\ at' = "done"
    <3>1. at = "done"
      BY <2>2, GbeCases
         DEF StageOracle, StageProducts, StageRoots, JudgeOracle, JudgeTranspile, JudgeBuild,
             Configure, Observe, Compare, Fatal, Authenticate, Anchor, Tamper, Run1, Build, gbevars
    <3>2. ~ReadNow("candidate")
      BY <3>1 DEF ReadNow
    <3> QED BY <1>1, <3>1, <3>2, FixedStays DEF Fixings
  <2> QED BY <2>1, <2>2
<1>4. "oracle" \in binaries' => Fixed("oracle_src")'
  <2>1. CASE JudgeOracle /\ "oracle" \in binaries'
    <3>1. StageOK(Enforced) /\ Owner = "oracle"
      <4>1. "oracle" \notin binaries
        BY <1>1, <2>1 DEF JudgeOracle, Turns, Made
      <4> QED BY <2>1, <4>1 DEF JudgeOracle, Owner
    <3>2. Unchanged("oracle_src")
      BY <3>1, EnforcedTyped DEF StageOK, Intact, Trees, SharedTrees, GbeInv
    <3> QED BY <2>1, <3>2, UnchangedFixes, FixedStays DEF JudgeOracle, Copies
  <2>2. CASE ~JudgeOracle /\ "oracle" \in binaries'
    <3>1. "oracle" \in binaries
      BY <2>2, BinariesStep DEF JudgeBuild
    <3>2. ~ReadNow("oracle_src")
      BY <1>1, <3>1 DEF ReadNow, Turns, Made
    <3> QED BY <1>1, <3>1, <3>2, FixedStays DEF Fixings
  <2> QED BY <2>1, <2>2
<1>5. at' = "build" \/ "compiled" \in binaries' => Fixed("product_src")'
  <2>1. CASE JudgeTranspile /\ at' = "build"
    <3>1. StageOK(Enforced) /\ Owner = "compiled" /\ ~ReadNow("product_src")
      BY <2>1 DEF JudgeTranspile, Owner, ReadNow
    <3>2. Unchanged("product_src")
      BY <3>1, EnforcedTyped DEF StageOK, Intact, Trees, SharedTrees, GbeInv
    <3> QED BY <3>1, <3>2, UnchangedFixes, FixedStays DEF Copies
  <2>2. CASE ~JudgeTranspile /\ (at' = "build" \/ "compiled" \in binaries')
    <3>1. at = "build" \/ "compiled" \in binaries
      <4>1. JudgeOracle => "compiled" \notin binaries'
        BY <1>1 DEF JudgeOracle, Turns, Made, Early
      <4> QED BY <2>2, <4>1, BinariesStep DEF JudgeBuild
    <3>2. ~ReadNow("product_src")
      BY <1>1, <3>1 DEF ReadNow, Turns, Made
    <3> QED BY <1>1, <3>1, <3>2, FixedStays DEF Fixings
  <2>3. CASE JudgeTranspile /\ at' # "build"
    <3>1. UNCHANGED binaries /\ at = "transpile"
      BY <2>3 DEF JudgeTranspile
    <3> QED BY <1>1, <2>3, <3>1 DEF Turns, Made
  <2> QED BY <2>1, <2>2, <2>3
<1>6. "compiled" \in binaries' => Fixed("build_dir")'
  <2>1. CASE JudgeBuild /\ "compiled" \in binaries'
    <3>1. StageOK(Enforced) /\ Owner = "compiled"
      <4>1. "compiled" \notin binaries
        BY <1>1, <2>1 DEF JudgeBuild, Turns, Made
      <4> QED BY <2>1, <4>1 DEF JudgeBuild, Owner
    <3>2. Unchanged("build_dir")
      BY <3>1, EnforcedTyped DEF StageOK, Intact, Trees, SharedTrees, GbeInv
    <3> QED BY <2>1, <3>2, UnchangedFixes, FixedStays DEF JudgeBuild, Copies
  <2>2. CASE ~JudgeBuild /\ "compiled" \in binaries'
    <3>1. "compiled" \in binaries
      <4>1. JudgeOracle => "compiled" \notin binaries'
        BY <1>1 DEF JudgeOracle, Turns, Made, Early
      <4> QED BY <2>2, <4>1, BinariesStep
    <3>2. ~ReadNow("build_dir")
      BY <1>1, <3>1 DEF ReadNow, Turns, Made
    <3> QED BY <1>1, <3>1, <3>2, FixedStays DEF Fixings
  <2> QED BY <2>1, <2>2
<1>7. CASE Observe
  <2>1. /\ at = "run" /\ UNCHANGED given /\ result' = [result EXCEPT ![turn] = Enforced]
        /\ Owner = turn
    BY <1>7 DEF Observe, tree, Owner
  <2>2. \A m \in GbeModes : result'[m] = IF m = turn THEN Enforced ELSE result[m]
    BY <1>1, <2>1
  <2>3. result'["interpreted"].state = "complete" => Fixed("entry")'
    <3>1. CASE turn = "interpreted" /\ Enforced.state = "complete"
      <4>1. Unchanged("entry")
        BY <2>1, <3>1, EnforcedTyped DEF Intact, Trees, GbeInv
      <4> QED BY <2>1, <4>1, UnchangedFixes, FixedStays DEF Copies
    <3>2. CASE turn # "interpreted"
      BY <1>1, <2>1, <2>2, <3>2, FixedStays DEF Fixings, GbeModes
    <3> QED BY <2>2, <3>1, <3>2 DEF GbeModes
  <2>4. result'["compiled"].state = "complete" => Fixed("assets")' /\ Fixed("cache")'
    <3>1. CASE turn = "compiled" /\ Enforced.state = "complete"
      <4>1. Unchanged("assets") /\ Unchanged("cache")
        BY <2>1, <3>1, EnforcedTyped DEF Intact, Trees, SharedTrees, GbeInv
      <4> QED BY <2>1, <4>1, UnchangedFixes, FixedStays DEF Shared
    <3>2. CASE turn # "compiled"
      BY <1>1, <2>1, <2>2, <3>2, FixedStays DEF Fixings, GbeModes
    <3> QED BY <2>2, <3>1, <3>2 DEF GbeModes
  <2> QED BY <1>2, <1>3, <1>4, <1>5, <1>6, <2>3, <2>4 DEF Fixings
<1>8. CASE ~Observe
  <2>1. UNCHANGED result
    BY <1>8, GbeCases
       DEF StageOracle, StageProducts, StageRoots, JudgeTranspile, JudgeOracle, JudgeBuild,
           Compare, Configure, Publish, Fatal, Authenticate, Anchor, Tamper, Run1, Build, records,
           gbevars
  <2>2. result'["interpreted"].state = "complete" => Fixed("entry")'
    <3>1. result["interpreted"].state = "complete" => ~ReadNow("entry")
      BY <1>1 DEF Turns, ReadNow
    <3> QED BY <1>1, <2>1, <3>1, FixedStays DEF Fixings
  <2>3. result'["compiled"].state = "complete" => Fixed("assets")' /\ Fixed("cache")'
    <3>1. result["compiled"].state = "complete" => ~ReadNow("assets") /\ ~ReadNow("cache")
      BY <1>1 DEF Turns, ReadNow
    <3> QED BY <1>1, <2>1, <3>1, FixedStays DEF Fixings
  <2> QED BY <1>2, <1>3, <1>4, <1>5, <1>6, <2>2, <2>3 DEF Fixings
<1> QED BY <1>7, <1>8

\* Behind an authenticated pass nothing was read but what is recorded.
LEMMA PassedStep ==
  ASSUME GbeInv, [GbeNext]_gbevars
  PROVE  Passed'
<1>1. CASE Authenticate /\ published = "pass"
  <2>1. /\ at = "done" /\ at' = "done" /\ UNCHANGED tree
        /\ \A m \in GbeModes : result[m].spawned /\ result[m].state = "complete"
        /\ \A f \in Artifact : noted[f] # "none" => files[f] = noted[f]
    BY <1>1 DEF Authenticate, ValidEvidence
  <2>2. "oracle" \in binaries /\ "compiled" \in binaries
    BY <2>1 DEF GbeInv, Turns, GbeModes
  <2>3. \A f \in Readable \ Artifact : Fixed(f)
    BY <2>1, <2>2 DEF GbeInv, Fixings, GbeModes, Readable, Copies, Shared
  <2>4. ASSUME NEW r \in given
        PROVE  r[1] \in Readable /\ r[2] = Pin(r[1])
    <3>1. Kept(r[1], r[2])
      BY DEF GbeInv, Reads
    <3>2. CASE r[1] \in Artifact
      BY <2>1, <3>1, <3>2 DEF Kept, Pin
    <3>3. CASE r[1] \notin Artifact
      BY <2>3, <3>1, <3>3 DEF Kept, Fixed
    <3> QED BY <3>1, <3>2, <3>3 DEF Kept
  <2>5. \A f \in Readable : f \in Pinned => Pin(f) = "own"
    BY DEF Pin, Pinned, Artifact, Shared
  <2>6. \A f \in Artifact : Pin(f) = noted[f]
    BY DEF Pin
  <2>7. PassIsOneProgram'
    <3>1. /\ \A r \in given : r[1] \in Pinned => r[2] = "own"
          /\ \A r \in given : r[1] \in Artifact => r[2] = noted[r[1]]
          /\ \A r, s \in given : r[1] = s[1] => r[2] = s[2]
      BY <2>4, <2>5, <2>6
    <3>2. given' = given /\ noted' = noted
      BY <2>1 DEF tree
    <3>3. /\ \A r \in given' : r[1] \in Pinned => r[2] = "own"
          /\ \A r \in given' : r[1] \in Artifact => r[2] = noted'[r[1]]
          /\ \A r, s \in given' : r[1] = s[1] => r[2] = s[2]
      BY <3>1, <3>2
    <3> QED BY <3>3 DEF PassIsOneProgram
  <2> QED BY <2>1, <2>7 DEF Passed
<1>2. CASE Authenticate /\ published # "pass"
  <2>1. published' # "pass" /\ at' = "done"
    BY <1>2 DEF Authenticate
  <2> QED BY <2>1 DEF Passed, PassIsOneProgram
<1>3. CASE at = "done" /\ ~Authenticate
  <2>1. UNCHANGED <<at, given, noted, published, authenticated>>
    <3>1. Anchor \/ (\E f \in GbeFile : Tamper(f)) \/ UNCHANGED gbevars
      BY <1>3, GbeCases
         DEF StageOracle, StageProducts, StageRoots, JudgeOracle, JudgeTranspile, JudgeBuild,
             Configure, Observe, Compare, Publish, Fatal, Run1, Build
    <3> QED BY <3>1 DEF Anchor, Tamper, gbevars, tree, records
  <2> QED BY <2>1 DEF GbeInv, Passed, PassIsOneProgram
<1>4. CASE at # "done"
  <2>1. ~authenticated
    BY <1>4 DEF GbeInv, Passed
  <2>2. UNCHANGED authenticated
    BY <1>4, GbeCases
       DEF StageOracle, StageProducts, StageRoots, JudgeOracle, JudgeTranspile, JudgeBuild,
           Configure, Observe, Compare, Publish, Fatal, Run1, Build, Tamper, Authenticate, Anchor,
           records, gbevars
  <2> QED BY <2>1, <2>2 DEF Passed
<1> QED BY <1>1, <1>2, <1>3, <1>4

LEMMA GbeInvariant == GbeSpec => []GbeInv
<1>1. GbeInv /\ [GbeNext]_gbevars => GbeInv'
  <2> SUFFICES ASSUME GbeInv, [GbeNext]_gbevars PROVE GbeInv'
    OBVIOUS
  <2>1. GbeTypeOK' /\ DataOK'
    BY GbeTypeStep DEF GbeInv
  <2> QED BY <2>1, StockStep, StagedStep, TurnsStep, ReadsStep, FixingsStep, PassedStep DEF GbeInv
<1> QED BY GbeStarts, <1>1, PTL DEF GbeSpec

\* Whatever fails or is altered, the gate's state stays well formed: every recorded
\* file is one of the versions, and no more goes wrong than the bound allows.
THEOREM GbeTyped == GbeSpec => []GbeTypeOK
<1>1. GbeInv => GbeTypeOK
  BY DEF GbeInv
<1> QED BY GbeInvariant, <1>1, PTL

\* What was compared is what the evidence records: behind an authenticated pass of
\* gateMain every stage read the pinned sources and the artifacts that were hashed,
\* and the three modes one version of the rest.
THEOREM PassIsOneProgramHolds == GbeSpec => []PassIsOneProgram
<1>1. GbeInv => PassIsOneProgram
  BY DEF GbeInv, Passed, PassIsOneProgram
<1> QED BY GbeInvariant, <1>1, PTL

----------------------------------------------------------------------------
\* What only few actions write.
LEMMA FewWrite ==
  ASSUME [GbeNext]_gbevars
  PROVE  /\ UNCHANGED test
         /\ Observe \/ UNCHANGED <<turn, result>>
         /\ Compare \/ UNCHANGED verdicts
         /\ Publish \/ UNCHANGED published
         /\ JudgeOracle \/ JudgeTranspile \/ JudgeBuild \/ UNCHANGED staged
         /\ StageOracle \/ StageProducts \/ JudgeTranspile \/ StageRoots \/ UNCHANGED bound
<1>1. CASE StageOracle \/ StageProducts \/ StageRoots
  BY <1>1 DEF StageOracle, StageProducts, StageRoots, records
<1>2. CASE JudgeOracle \/ JudgeTranspile \/ JudgeBuild
  BY <1>2 DEF JudgeOracle, JudgeTranspile, JudgeBuild
<1>3. CASE Configure \/ Observe \/ \E r \in Result : Run1(r)
  BY <1>3 DEF Configure, Observe, Run1, records, tree
<1>4. CASE Compare \/ Publish \/ Fatal \/ Authenticate \/ Anchor
  BY <1>4 DEF Compare, Publish, Fatal, Authenticate, Anchor, records, tree
<1>5. CASE \/ \E r \in Result, left \in {"own", "none"} : Build(r, left)
           \/ (\E f \in GbeFile : Tamper(f)) \/ UNCHANGED gbevars
  BY <1>5 DEF Build, Tamper, gbevars, records, tree
<1> QED BY <1>1, <1>2, <1>3, <1>4, <1>5, GbeCases

\* Where the row can be next.
Judged == {"comparing", "closing", "done", "fatal"}

LEMMA AtStep ==
  ASSUME [GbeNext]_gbevars
  PROVE  \/ UNCHANGED at \/ StageOracle \/ JudgeOracle \/ StageProducts \/ JudgeTranspile
         \/ JudgeBuild \/ StageRoots \/ Configure \/ Observe \/ Compare \/ Publish \/ Fatal
<1>1. CASE Authenticate \/ Anchor \/ \E r \in Result : Run1(r)
  BY <1>1 DEF Authenticate, Anchor, Run1
<1>2. CASE \/ \E r \in Result, left \in {"own", "none"} : Build(r, left)
           \/ (\E f \in GbeFile : Tamper(f)) \/ UNCHANGED gbevars
  BY <1>2 DEF Build, Tamper, gbevars
<1> QED BY <1>1, <1>2, GbeCases

----------------------------------------------------------------------------
\* Who is charged with a change.  What is bound is there, and differs from what
\* was bound by additions only, or is foreign for good.
Bindings == \A f \in GbeFile :
  bound[f] # Unbound => /\ f \in Readable /\ Made(f)
                        /\ \/ files[f] \in {bound[f], "foreign"}
                           \/ AllowsAdditions(f) /\ files[f] = "grown"

Hurt(m) == \E f \in Trees(m) \cap Readable : Made(f) /\ files[f] = "foreign"

Charged ==
  /\ at \notin {"oracle-build", "transpile", "build", "run"} => last = NoResult
  /\ at = "run" => last.state # "input_mutation"
  /\ at = "run" /\ last # NoResult /\ turn \in binaries \cup {"interpreted"} =>
       last.state # "unspawned" \/ Hurt(turn)
  /\ \A m \in GbeModes : result[m].state # "none" =>
       /\ at \in {"configure", "run"} \cup Judged
       /\ result[m].state = "input_mutation" => Hurt(m)
       /\ m \in binaries \cup {"interpreted"} =>
            result[m].state # "unspawned" \/ Hurt(m)

ChargeInv == Bindings /\ Charged

LEMMA BindingsStep ==
  ASSUME GbeInv, Bindings, [GbeNext]_gbevars
  PROVE  Bindings'
<1> SUFFICES ASSUME NEW f \in GbeFile, bound'[f] # Unbound
             PROVE  /\ f \in Readable /\ Made(f)'
                    /\ \/ files'[f] \in {bound'[f], "foreign"}
                       \/ AllowsAdditions(f) /\ files'[f] = "grown"
  BY DEF Bindings, AllowsAdditions
<1>1. /\ files \in [GbeFile -> Content] /\ bound \in [GbeFile -> Content \cup {Unbound}]
      /\ {"source", "assets", "cache", "oracle_src", "build_dir", "transpiled",
          "oracle_bin", "lowered_bin"} \subseteq GbeFile
  BY DEF GbeInv, GbeTypeOK, GbeFile, Pinned, Artifact
<1>2. CASE bound'[f] = bound[f]
  <2>1. /\ f \in Readable /\ Made(f)
        /\ \/ files[f] \in {bound[f], "foreign"}
           \/ AllowsAdditions(f) /\ files[f] = "grown"
    BY <1>2 DEF Bindings
  <2>2. /\ Made(f)'
        /\ files'[f] \in {files[f], "foreign"} \/ (files[f] = "own" /\ files'[f] = "grown")
        /\ f \notin {"oracle_src", "build_dir"} => files'[f] \in {files[f], "foreign"}
    BY <2>1, FilesStep
  <2> QED BY <1>2, <2>1, <2>2 DEF AllowsAdditions
<1>3. CASE bound'[f] # bound[f]
  <2>1. CASE StageOracle
    <3>1. f \in {"source", "assets", "cache", "oracle_src"} /\ bound'[f] = files'[f]
      BY <2>1 DEF StageOracle
    <3> QED BY <2>1, <3>1 DEF StageOracle, Made, Readable, Copies, Shared
  <2>2. CASE StageProducts
    <3>1. f \in {"product_src", "entry"} /\ bound'[f] = files'[f] /\ at' = "transpile"
      BY <1>3, <2>2 DEF StageProducts
    <3> QED BY <3>1 DEF Made, Readable, Copies, Early
  <2>3. CASE JudgeTranspile
    <3>1. /\ at' = "build" /\ files' = [files EXCEPT !["build_dir"] = "own"]
          /\ bound' = [bound EXCEPT !["transpiled"] = files["transpiled"],
                                    !["build_dir"] = "own"]
      BY <1>3, <2>3 DEF JudgeTranspile, tree
    <3>2. f \in {"transpiled", "build_dir"} /\ bound'[f] = files'[f]
      BY <1>1, <1>3, <3>1
    <3> QED BY <3>1, <3>2 DEF Made, Readable, Copies, Artifact, Early
  <2>4. CASE StageRoots
    <3>1. /\ at' = "configure" /\ f \in {"oracle_bin", "lowered_bin"}
          /\ bound'[f] = files'[f]
      BY <1>1, <1>3, <2>4 DEF StageRoots
    <3> QED BY <3>1 DEF Made, Readable, Artifact, Early
  <2> QED BY <1>3, <2>1, <2>2, <2>3, <2>4, FewWrite
<1> QED BY <1>2, <1>3

LEMMA HurtStays ==
  ASSUME GbeInv, [GbeNext]_gbevars, NEW m, Hurt(m)
  PROVE  Hurt(m)'
<1>1. PICK f \in Trees(m) \cap Readable : Made(f) /\ files[f] = "foreign"
  BY DEF Hurt
<1>2. Made(f)' /\ files'[f] = "foreign"
  BY <1>1, FilesStep
<1>3. Trees(m)' = Trees(m)
  BY DEF Trees, SharedTrees
<1> QED BY <1>1, <1>2, <1>3 DEF Hurt

LEMMA NotIntactIsHurt ==
  ASSUME Bindings, NEW m \in GbeModes, ~Intact(m)
  PROVE  Hurt(m)
<1>1. PICK f \in Trees(m) : ~Unchanged(f)
  BY DEF Intact
<1>2. f \in GbeFile
  BY <1>1 DEF Trees, SharedTrees, GbeModes, GbeFile, Pinned, Artifact
<1>3. f \in Readable /\ Made(f) /\ files[f] = "foreign"
  BY <1>1, <1>2 DEF Bindings, Unchanged
<1> QED BY <1>1, <1>3 DEF Hurt

LEMMA ChargedStep ==
  ASSUME GbeInv, ChargeInv, [GbeNext]_gbevars
  PROVE  Charged'
<1>1. /\ Charged /\ Bindings /\ DataOK /\ turn \in GbeModes
      /\ last \in Result /\ result \in [GbeModes -> Result]
  BY DEF ChargeInv, GbeInv, GbeTypeOK, DataOK
<1>2. CASE Configure
  <2>1. /\ at = "configure" /\ at' = "run" /\ last = NoResult
        /\ UNCHANGED <<turn, binaries, result>>
    BY <1>1, <1>2 DEF Configure, records, Charged
  <2>2. \/ UNCHANGED last
        \/ last' = [Unspawned EXCEPT !.state = "configuration_failure"]
        \/ /\ last' = Unspawned
           /\ turn \in binaries \cup {"interpreted"} => ~Intact(turn)
    <3>1. PICK configured \in BOOLEAN :
            IF turn \in binaries \cup {"interpreted"} /\ Intact(turn) /\ configured
            THEN UNCHANGED last
            ELSE last' = [Unspawned EXCEPT !.state =
                            IF configured THEN @ ELSE "configuration_failure"]
      BY <1>2 DEF Configure
    <3>2. [Unspawned EXCEPT !.state = Unspawned.state] = Unspawned
      BY DEF Unspawned, NoResult
    <3>3. CASE configured = TRUE
      BY <3>1, <3>2, <3>3
    <3>4. CASE configured = FALSE
      <4>1. last' = [Unspawned EXCEPT !.state = "configuration_failure"]
        BY <3>1, <3>4
      <4> QED BY <4>1
    <3> QED BY <3>3, <3>4
  <2> PICK t \in GbeModes : t = turn
    BY <1>1
  <2>3. /\ last'.state # "input_mutation"
        /\ last' # NoResult /\ turn \in binaries \cup {"interpreted"} =>
             last'.state # "unspawned" \/ ~Intact(turn)
    <3>1. /\ NoResult.state = "none" /\ Unspawned.state = "unspawned"
          /\ [Unspawned EXCEPT !.state = "configuration_failure"].state = "configuration_failure"
      BY DEF Unspawned, NoResult
    <3> QED BY <2>1, <2>2, <3>1
  <2>4. /\ last' # NoResult /\ turn' \in binaries' \cup {"interpreted"} =>
             last'.state # "unspawned" \/ Hurt(turn)'
    <3>1. ~Intact(t) => Hurt(t)'
      BY <1>1, NotIntactIsHurt, HurtStays
    <3> QED BY <2>1, <2>3, <3>1
  <2>5. \A m \in GbeModes : Hurt(m) => Hurt(m)'
    BY HurtStays
  <2> QED BY <1>1, <2>1, <2>3, <2>4, <2>5 DEF Charged, Judged
<1>3. CASE Observe
  <2>1. /\ at = "run" /\ last # NoResult /\ last' = NoResult /\ UNCHANGED binaries
        /\ result' = [result EXCEPT ![turn] = Enforced] /\ Owner = turn
        /\ at' \in {"comparing", "configure"}
    BY <1>3 DEF Observe, Owner
  <2>2. \A m \in GbeModes : result'[m] = IF m = turn THEN Enforced ELSE result[m]
    BY <1>1, <2>1
  <2> PICK t \in GbeModes : t = turn
    BY <1>1
  <2>3. /\ Enforced.state = "input_mutation" => Hurt(t)'
        /\ t \in binaries \cup {"interpreted"} =>
             Enforced.state # "unspawned" \/ Hurt(t)'
    <3>1. CASE Intact(t)
      <4>1. Enforced = last
        BY <2>1, <3>1 DEF Enforced
      <4>2. /\ last.state # "input_mutation"
            /\ t \in binaries \cup {"interpreted"} =>
                 last.state # "unspawned" \/ Hurt(t)
        BY <1>1, <2>1 DEF Charged
      <4> QED BY <4>1, <4>2, HurtStays
    <3>2. CASE ~Intact(t)
      BY <1>1, <3>2, NotIntactIsHurt, HurtStays
    <3> QED BY <3>1, <3>2
  <2>4. \A m \in GbeModes : Hurt(m) => Hurt(m)'
    BY HurtStays
  <2>5. ASSUME NEW m \in GbeModes, result'[m].state # "none"
        PROVE  /\ at' \in {"configure", "run"} \cup Judged
               /\ result'[m].state = "input_mutation" => Hurt(m)'
               /\ m \in binaries' \cup {"interpreted"} =>
                    result'[m].state # "unspawned" \/ Hurt(m)'
    <3>1. CASE m = t
      BY <2>1, <2>2, <2>3, <3>1 DEF Judged
    <3>2. CASE m # t
      BY <1>1, <2>1, <2>2, <2>4, <2>5, <3>2 DEF Charged, Judged
    <3> QED BY <3>1, <3>2
  <2>6. at' # "run"
    BY <2>1
  <2> QED BY <2>1, <2>5, <2>6 DEF Charged
<1>4. CASE ~Configure /\ ~Observe
  <2>1. UNCHANGED <<turn, result>>
    BY <1>4, FewWrite
  <2>2. \A m \in GbeModes : Hurt(m) => Hurt(m)'
    BY HurtStays
  <2>3. ASSUME NEW m \in GbeModes, result[m].state # "none"
        PROVE  at' \in {"configure", "run"} \cup Judged /\ UNCHANGED binaries
    <3>1. at \in {"configure", "run"} \cup Judged
      BY <1>1, <2>3 DEF Charged
    <3>2. at' \in {"configure", "run"} \cup Judged
      BY <1>4, <3>1, AtStep
         DEF Judged, StageOracle, JudgeOracle, StageProducts, JudgeTranspile, JudgeBuild,
             StageRoots, Compare, Publish, Fatal
    <3> QED BY <3>1, <3>2, BinariesStep DEF JudgeOracle, JudgeBuild, Judged
  <2>4. /\ at' \notin {"oracle-build", "transpile", "build", "run"} => last' = NoResult
        /\ at' = "run" => /\ at = "run"
                          /\ UNCHANGED last \/ last'.state \in {"complete", "failed"}
    <3>1. CASE JudgeOracle \/ JudgeTranspile \/ JudgeBuild
      BY <3>1 DEF JudgeOracle, JudgeTranspile, JudgeBuild
    <3>2. CASE StageOracle \/ StageProducts \/ StageRoots \/ Compare \/ Publish \/ Fatal
      BY <1>1, <3>2 DEF StageOracle, StageProducts, StageRoots, Compare, Publish, Fatal, Charged
    <3>3. ASSUME NEW r \in Result, Run1(r) \/ \E left \in {"own", "none"} : Build(r, left)
          PROVE  /\ at \in {"oracle-build", "transpile", "build", "run"} /\ UNCHANGED at
                 /\ last'.state \in {"complete", "failed"}
      BY <3>3 DEF Run1, Build, StageEnd
    <3>4. CASE Authenticate \/ Anchor \/ (\E f \in GbeFile : Tamper(f)) \/ UNCHANGED gbevars
      BY <1>1, <3>4 DEF Authenticate, Anchor, Tamper, gbevars, Charged
    <3> QED BY <1>4, <3>1, <3>2, <3>3, <3>4, GbeCases
  <2>5. at' = "run" => UNCHANGED binaries
    BY <2>4, BinariesStep DEF JudgeOracle, JudgeBuild
  <2>6. at' = "run" => last'.state # "input_mutation"
    BY <1>1, <2>4 DEF Charged
  <2>7. at' = "run" /\ last' # NoResult /\ turn' \in binaries' \cup {"interpreted"} =>
          last'.state # "unspawned" \/ Hurt(turn)'
    BY <1>1, <2>1, <2>2, <2>4, <2>5 DEF Charged
  <2>8. \A m \in GbeModes : result'[m].state # "none" =>
          /\ at' \in {"configure", "run"} \cup Judged
          /\ result'[m].state = "input_mutation" => Hurt(m)'
          /\ m \in binaries' \cup {"interpreted"} =>
               result'[m].state # "unspawned" \/ Hurt(m)'
    BY <1>1, <2>1, <2>2, <2>3 DEF Charged
  <2> QED BY <2>1, <2>4, <2>6, <2>7, <2>8 DEF Charged, Judged
<1> QED BY <1>2, <1>3, <1>4

LEMMA ChargeInvariant == GbeSpec => []ChargeInv
<1>1. GbeInit => ChargeInv
  BY DEF GbeInit, ChargeInv, Bindings, Charged, NoResult, GbeModes
<1>2. GbeInv /\ ChargeInv /\ [GbeNext]_gbevars => ChargeInv'
  BY BindingsStep, ChargedStep DEF ChargeInv
<1> QED BY GbeInvariant, <1>1, <1>2, PTL DEF GbeSpec

\* A change is charged to the modes it can have reached (inputs.go enforceRun and
\* enforceBefore): a tree made for another mode neither stops a run of this one nor
\* turns its result into a mutation.
THEOREM ScopedChargeHolds == GbeSpec => []ScopedCharge
<1>1. ChargeInv => ScopedCharge
  <2> SUFFICES ASSUME ChargeInv PROVE ScopedCharge
    OBVIOUS
  <2> DEFINE madeFor == [oracle |-> {"oracle_src"}, interpreted |-> {"entry"},
                         compiled |-> {"product_src", "transpiled", "build_dir"}]
             Others(m) == (UNION {madeFor[n] : n \in GbeModes \ {m}}) \cup {"candidate", "streams"}
  <2>1. ASSUME NEW m \in GbeModes
        PROVE  Trees(m) \cap Others(m) = {}
    <3>1. /\ madeFor["oracle"] = {"oracle_src"} /\ madeFor["interpreted"] = {"entry"}
          /\ madeFor["compiled"] = {"product_src", "transpiled", "build_dir"}
      OBVIOUS
    <3> HIDE DEF madeFor
    <3>2. /\ m \in {"oracle", "interpreted", "compiled"}
          /\ Trees(m) = SharedTrees \cup madeFor[m]
      BY <3>1 DEF GbeModes, Trees
    <3>3. \A n \in GbeModes \ {m} : Trees(m) \cap madeFor[n] = {}
      BY <3>1, <3>2 DEF GbeModes, SharedTrees
    <3>4. "candidate" \notin Trees(m) /\ "streams" \notin Trees(m)
      BY <3>1, <3>2 DEF SharedTrees
    <3>5. ASSUME NEW f \in Others(m), f \notin {"candidate", "streams"}
          PROVE  f \notin Trees(m)
      <4>1. PICK n \in GbeModes \ {m} : f \in madeFor[n]
        BY <3>5
      <4> QED BY <3>3, <4>1
    <3> QED BY <3>4, <3>5
  <2>2. ASSUME NEW m \in GbeModes, \A f \in GbeFile : files[f] = "foreign" => f \in Others(m)
        PROVE  ~Hurt(m)
    <3>1. Trees(m) \subseteq GbeFile
      BY DEF GbeModes, Trees, SharedTrees, GbeFile, Pinned, Artifact
    <3> HIDE DEF Others
    <3> QED BY <2>1, <2>2, <3>1 DEF Hurt
  <2> HIDE DEF Others
  <2>3. \A m \in GbeModes :
          /\ result[m].state # "none"
          /\ \A f \in GbeFile : files[f] = "foreign" => f \in Others(m)
          => /\ result[m].state # "input_mutation"
             /\ m \in binaries \cup {"interpreted"} =>
                  result[m].state # "unspawned"
    BY <2>2 DEF ChargeInv, Charged
  <2> USE DEF Others
  <2> QED BY <2>3 DEF ScopedCharge
<1> QED BY ChargeInvariant, <1>1, PTL

----------------------------------------------------------------------------
\* A row in which nothing goes wrong.
Good(r) == r.state = "complete" /\ r.spawned /\ r.seen = "same"
GoodRun(r) == Good(r) /\ r.effects = "same"

\* The modes that have run.
Before ==
  IF at \in Judged THEN GbeModes
  ELSE IF turn = "oracle" THEN {}
  ELSE IF turn = "interpreted" THEN {"oracle"} ELSE {"oracle", "interpreted"}

Untouched == at # "fatal" /\ \A f \in GbeFile : files[f] # "foreign"

GoodStages ==
  /\ last = NoResult \/ Good(last)
  /\ at \in {"oracle-build", "transpile", "build"} /\ last # NoResult => files[Leaves] = "own"
  /\ at \notin {"staging", "oracle-build"} => "oracle" \in binaries
  /\ at \notin Early \cup {"transpile", "build"} => "compiled" \in binaries

GoodRuns ==
  /\ at = "run" => last = NoResult \/ GoodRun(last)
  /\ at \notin {"configure", "run"} \cup Judged => turn = "oracle"
  /\ \A m \in Before : GoodRun(result[m])
  /\ at \in {"closing", "done"} => \A m \in GbeModes : verdicts[m] = "pass"
  /\ at = "done" => published = "pass"

Clean == Untouched /\ GoodStages /\ GoodRuns
CleanInv == faults = 0 => Clean

LEMMA NoFault ==
  ASSUME GbeTypeOK, [GbeNext]_gbevars, faults' = 0
  PROVE  /\ faults = 0
         /\ \A r \in Result : Run1(r) => GoodRun(r)
         /\ \A r \in Result, left \in {"own", "none"} : Build(r, left) => Good(r) /\ left = "own"
         /\ \A f \in GbeFile : ~Tamper(f)
         /\ Configure => \A configured \in BOOLEAN :
                           faults' = (IF ~configured THEN faults + 1 ELSE faults) => configured
<1>1. faults \in Nat
  BY GbeAssumption DEF GbeTypeOK
<1>2. ASSUME NEW odd, Fault(odd)
      PROVE  faults = 0 /\ ~odd
  BY <1>1, <1>2 DEF Fault
<1>3. ASSUME NEW r \in Result, Run1(r)
      PROVE  faults = 0 /\ GoodRun(r)
  BY <1>2, <1>3 DEF Run1, StageEnd, Good, GoodRun
<1>4. ASSUME NEW r \in Result, NEW left \in {"own", "none"}, Build(r, left)
      PROVE  faults = 0 /\ Good(r) /\ left = "own"
  <2>1. faults = 0 /\ StageOK(r) /\ left = "own"
    BY <1>2, <1>4 DEF Build
  <2>2. r \in StageEnd /\ r.seen # "unnormal"
    BY <1>4 DEF Build
  <2> QED BY <2>1, <2>2 DEF Good, StageOK, StageEnd
<1>5. ASSUME NEW f \in GbeFile
      PROVE  ~Tamper(f)
  BY <1>2 DEF Tamper
<1>6. CASE Configure
  BY <1>1, <1>3, <1>4, <1>5, <1>6 DEF Configure, Fault
<1>7. CASE ~Configure
  BY <1>3, <1>4, <1>5, <1>7, GbeCases
     DEF StageOracle, JudgeOracle, StageProducts, JudgeTranspile, JudgeBuild, StageRoots,
         Observe, Compare, Publish, Fatal, Authenticate, Anchor, gbevars
<1> QED BY <1>3, <1>4, <1>5, <1>6, <1>7

\* What is bound and not foreign is as every check wants it.
LEMMA CleanIntact ==
  ASSUME ChargeInv, Untouched, NEW m \in GbeModes
  PROVE  Intact(m)
  BY NotIntactIsHurt
     DEF ChargeInv, Untouched, Hurt, Readable, Copies, Shared, Artifact, Pinned, GbeFile

LEMMA UntouchedStep ==
  ASSUME GbeInv, Untouched, [GbeNext]_gbevars, faults' = 0
  PROVE  Untouched'
<1>1. files \in [GbeFile -> Content] /\ files["source"] = "own" /\ files["candidate"] = "own"
  BY DEF GbeInv, GbeTypeOK, Stock, Untouched, GbeFile, Pinned
<1>2. ASSUME NEW fs, files' = [f \in GbeFile |-> IF f \in fs THEN "own" ELSE files[f]]
      PROVE  \A f \in GbeFile : files'[f] # "foreign"
  BY <1>2 DEF Untouched
<1>3. ASSUME NEW g, files' = [files EXCEPT ![g] = "own"]
      PROVE  \A f \in GbeFile : files'[f] # "foreign"
  BY <1>1, <1>3 DEF Untouched
<1>4. CASE StageOracle
  BY <1>3, <1>4 DEF StageOracle, Untouched
<1>5. CASE StageProducts
  <2> PICK fs : files' = [f \in GbeFile |-> IF f \in fs THEN "own" ELSE files[f]]
    BY <1>5 DEF StageProducts
  <2> QED BY <1>2, <1>5 DEF StageProducts, Untouched
<1>6. CASE JudgeTranspile
  <2>1. files' = [files EXCEPT !["build_dir"] = "own"] \/ UNCHANGED files
    BY <1>6 DEF JudgeTranspile, tree
  <2> QED BY <1>3, <1>6, <2>1 DEF JudgeTranspile, Untouched
<1>7. ASSUME NEW r \in Result, NEW left \in {"own", "none"}, Build(r, left)
      PROVE  Untouched'
  BY <1>7 DEF Build, Untouched
<1>8. CASE JudgeOracle \/ JudgeBuild \/ StageRoots \/ Configure
  BY <1>8 DEF JudgeOracle, JudgeBuild, StageRoots, Configure, Untouched, tree
<1>9. CASE Observe \/ Compare \/ Publish \/ Authenticate \/ Anchor \/ UNCHANGED gbevars
  BY <1>9 DEF Observe, Compare, Publish, Authenticate, Anchor, Untouched, tree, gbevars
<1>10. ASSUME NEW r \in Result, Run1(r)
       PROVE  Untouched'
  BY <1>10 DEF Run1, Untouched
<1>11. ~Fatal /\ \A f \in GbeFile : ~Tamper(f)
  BY <1>1, NoFault DEF Fatal, GbeInv
<1> QED BY <1>4, <1>5, <1>6, <1>7, <1>8, <1>9, <1>10, <1>11, GbeCases

LEMMA GoodStagesStep ==
  ASSUME GbeInv, ChargeInv, Clean, [GbeNext]_gbevars, faults' = 0
  PROVE  GoodStages'
<1>1. /\ Charged /\ GoodStages /\ turn \in GbeModes /\ \A m \in GbeModes : Intact(m)
      /\ files \in [GbeFile -> Content]
  BY CleanIntact DEF ChargeInv, Clean, GbeInv, GbeTypeOK
<1>2. Owner \in GbeModes /\ Enforced = last
  BY <1>1 DEF Owner, Enforced, GbeModes
<1>3. CASE StageOracle \/ StageProducts \/ StageRoots
  <2>1. last' = NoResult /\ UNCHANGED binaries
    BY <1>1, <1>3 DEF StageOracle, StageProducts, StageRoots, Charged
  <2> QED BY <1>1, <1>3, <2>1 DEF StageOracle, StageProducts, StageRoots, GoodStages, Early
<1>4. CASE JudgeOracle
  <2>1. at' = "products" /\ last' = NoResult /\ binaries' = {"oracle"}
    BY <1>1, <1>2, <1>4 DEF JudgeOracle, StageOK, GoodStages, Good, Leaves
  <2> QED BY <2>1 DEF GoodStages, Early
<1>5. CASE JudgeTranspile
  <2>1. at = "transpile" /\ at' = "build" /\ last' = NoResult /\ UNCHANGED binaries
    BY <1>1, <1>2, <1>5 DEF JudgeTranspile, StageOK, GoodStages, Good, Leaves
  <2> QED BY <1>1, <2>1 DEF GoodStages, Early
<1>6. CASE JudgeBuild
  <2>1. /\ at = "build" /\ at' = "rooting" /\ last' = NoResult
        /\ binaries' = binaries \cup {"compiled"}
    BY <1>1, <1>2, <1>6 DEF JudgeBuild, StageOK, GoodStages, Good, Leaves
  <2> QED BY <1>1, <2>1 DEF GoodStages, Early
<1>7. CASE Configure
  <2>1. at = "configure" /\ at' = "run" /\ UNCHANGED binaries
    BY <1>7 DEF Configure
  <2>2. turn \in binaries \cup {"interpreted"}
    BY <1>1, <2>1 DEF GoodStages, Early, GbeModes
  <2>3. UNCHANGED last
    <3>1. PICK configured \in BOOLEAN :
            /\ Fault(~configured)
            /\ IF turn \in binaries \cup {"interpreted"} /\ Intact(turn) /\ configured
               THEN UNCHANGED last
               ELSE last' = [Unspawned EXCEPT !.state =
                               IF configured THEN @ ELSE "configuration_failure"]
      BY <1>7 DEF Configure
    <3>2. configured
      BY <1>7, <3>1, NoFault DEF Fault, GbeInv
    <3> QED BY <1>1, <2>2, <3>1, <3>2
  <2> QED BY <1>1, <2>1, <2>3 DEF GoodStages, Early
<1>8. CASE Observe
  <2>1. /\ at = "run" /\ at' \in {"comparing", "configure"} /\ last' = NoResult
        /\ UNCHANGED binaries
    BY <1>8 DEF Observe
  <2> QED BY <1>1, <2>1 DEF GoodStages, Early
<1>9. CASE Compare \/ Publish \/ Authenticate \/ Anchor \/ UNCHANGED gbevars
  <2>1. /\ UNCHANGED <<last, binaries, files>>
        /\ UNCHANGED at \/ (at \in {"comparing", "closing"} /\ at' \in {"closing", "done"})
    BY <1>9 DEF Compare, Publish, Authenticate, Anchor, tree, gbevars
  <2> QED BY <1>1, <2>1 DEF GoodStages, Leaves, Early
<1>10. ASSUME NEW r \in Result, Run1(r)
       PROVE  GoodStages'
  <2>1. at = "run" /\ UNCHANGED <<at, binaries>> /\ last' = r /\ Good(r)
    BY <1>10, NoFault DEF Run1, GbeInv, GoodRun
  <2> QED BY <1>1, <2>1 DEF GoodStages, Good, Early
<1>11. ASSUME NEW r \in Result, NEW left \in {"own", "none"}, Build(r, left)
       PROVE  GoodStages'
  <2>1. /\ at \in {"oracle-build", "transpile", "build"} /\ UNCHANGED <<at, binaries>>
        /\ last' = r /\ Good(r) /\ left = "own"
    BY <1>11, NoFault DEF Build, GbeInv
  <2>2. Leaves' = Leaves /\ Leaves \in GbeFile
    BY <2>1 DEF Leaves, GbeFile, Artifact
  <2>3. files'[Leaves] = "own"
    BY <1>11, <2>1, <2>2 DEF Build, Good
  <2> QED BY <1>1, <2>1, <2>2, <2>3 DEF GoodStages, Good, Early
<1>12. ~Fatal /\ \A f \in GbeFile : ~Tamper(f)
  <2>1. Untouched'
    BY UntouchedStep DEF Clean
  <2> QED BY <2>1, NoFault DEF Fatal, GbeInv, Untouched
<1> QED BY <1>3, <1>4, <1>5, <1>6, <1>7, <1>8, <1>9, <1>10, <1>11, <1>12, GbeCases

LEMMA GoodRunsStep ==
  ASSUME GbeInv, ChargeInv, Clean, [GbeNext]_gbevars, faults' = 0
  PROVE  GoodRuns'
<1>1. /\ Charged /\ GoodRuns /\ GoodStages' /\ turn \in GbeModes
      /\ \A m \in GbeModes : Intact(m) /\ result \in [GbeModes -> Result]
  BY CleanIntact, GoodStagesStep DEF ChargeInv, Clean, GbeInv, GbeTypeOK, DataOK
<1>2. CASE Observe
  <2>1. /\ at = "run" /\ last # NoResult /\ last' = NoResult /\ Owner = turn
        /\ result' = [result EXCEPT ![turn] = Enforced]
        /\ IF turn = "compiled" THEN at' = "comparing" /\ UNCHANGED turn
           ELSE at' = "configure" /\ turn' = IF turn = "oracle" THEN "interpreted" ELSE "compiled"
    BY <1>2 DEF Observe, Owner
  <2>2. Enforced = last /\ GoodRun(last)
    BY <1>1, <2>1 DEF Enforced, GoodRuns
  <2>3. \A m \in GbeModes : result'[m] = IF m = turn THEN last ELSE result[m]
    BY <1>1, <2>1, <2>2
  <2>4. Before' = Before \cup {turn} /\ Before \subseteq GbeModes
    BY <1>1, <2>1 DEF Before, Judged, GbeModes
  <2>5. \A m \in Before' : GoodRun(result'[m])
    BY <1>1, <2>2, <2>3, <2>4 DEF GoodRuns
  <2> QED BY <2>1, <2>5 DEF GoodRuns, GoodRun, Good, Judged
<1>3. CASE Compare
  <2>1. /\ at = "comparing" /\ at' = "closing" /\ UNCHANGED <<result, last>>
        /\ verdicts' = [m \in GbeModes |-> VerdictOf(m)]
    BY <1>3 DEF Compare
  <2>2. \A m \in GbeModes : GoodRun(result[m])
    BY <1>1, <2>1 DEF GoodRuns, Before, Judged
  <2>3. \A m \in GbeModes : VerdictOf(m) = "pass"
    BY <2>2 DEF VerdictOf, GoodRun, Good, GbeModes
  <2>4. \A m \in Before' : GoodRun(result'[m])
    BY <2>1, <2>2 DEF Before, Judged
  <2> QED BY <2>1, <2>3, <2>4 DEF GoodRuns, GoodRun, Good, Judged
<1>4. CASE Publish
  <2>1. /\ at = "closing" /\ at' = "done" /\ UNCHANGED <<result, last, verdicts>>
        /\ published' = IF \A m \in GbeModes : verdicts[m] = "pass" /\ result[m].spawned
                        THEN "pass" ELSE "fail"
    BY <1>4 DEF Publish
  <2>2. \A m \in GbeModes : GoodRun(result[m])
    BY <1>1, <2>1 DEF GoodRuns, Before, Judged
  <2>3. \A m \in Before' : GoodRun(result'[m])
    BY <2>1, <2>2 DEF Before, Judged
  <2> QED BY <1>1, <2>1, <2>2, <2>3 DEF GoodRuns, GoodRun, Good, Judged
<1>5. CASE ~Observe /\ ~Compare /\ ~Publish
  <2>1. UNCHANGED <<turn, result, verdicts, published>>
    BY <1>5, FewWrite
  <2>2. ~Fatal
    BY UntouchedStep DEF Clean, Untouched, Fatal
  <2>3. /\ at' \in Judged <=> at \in Judged
        /\ at' \in {"closing", "done"} => at \in {"closing", "done"}
        /\ at' = "done" => at = "done"
        /\ at \in {"configure", "run"} => at' \in {"configure", "run"}
    BY <1>5, <2>2, AtStep
       DEF StageOracle, JudgeOracle, StageProducts, JudgeTranspile, JudgeBuild, StageRoots,
           Configure, Judged
  <2>4. Before' = Before
    BY <2>1, <2>3 DEF Before
  <2>5. at' = "run" => last' = NoResult \/ GoodRun(last')
    <3>1. CASE Configure
      <4>1. last = NoResult
        BY <1>1, <3>1 DEF Configure, Charged
      <4>2. UNCHANGED last \/ last'.state # "complete"
        BY <3>1 DEF Configure, Unspawned, NoResult
      <4> QED BY <1>1, <4>1, <4>2 DEF GoodStages, Good
    <3>2. ASSUME NEW r \in Result, Run1(r)
          PROVE  GoodRun(last')
      BY <3>2, NoFault DEF Run1, GbeInv
    <3>3. CASE ~Configure /\ at' = "run" /\ ~\E r \in Result : Run1(r)
      <4>1. at = "run"
        BY <1>5, <2>2, <3>3, AtStep
           DEF StageOracle, JudgeOracle, StageProducts, JudgeTranspile, JudgeBuild, StageRoots
      <4>2. UNCHANGED last
        BY <1>5, <2>2, <3>3, <4>1, GbeCases
           DEF StageOracle, JudgeOracle, StageProducts, JudgeTranspile, JudgeBuild, StageRoots,
               Authenticate, Anchor, Build, Tamper, gbevars
      <4> QED BY <1>1, <4>1, <4>2 DEF GoodRuns, GoodRun, Good
    <3> QED BY <3>1, <3>2, <3>3
  <2>6. at' \notin {"configure", "run"} \cup Judged => turn' = "oracle"
    BY <1>1, <2>1, <2>3 DEF GoodRuns
  <2>7. \A m \in Before' : GoodRun(result'[m])
    BY <1>1, <2>1, <2>4 DEF GoodRuns
  <2>8. /\ at' \in {"closing", "done"} => \A m \in GbeModes : verdicts'[m] = "pass"
        /\ at' = "done" => published' = "pass"
    BY <1>1, <2>1, <2>3 DEF GoodRuns
  <2> QED BY <2>5, <2>6, <2>7, <2>8 DEF GoodRuns, GoodRun, Good, Judged
<1> QED BY <1>2, <1>3, <1>4, <1>5

LEMMA CleanInvariant == GbeSpec => []CleanInv
<1>1. GbeInit => CleanInv
  BY DEF GbeInit, CleanInv, Clean, Untouched, GoodStages, GoodRuns, Before, Judged, Early
<1>2. GbeInv /\ ChargeInv /\ CleanInv /\ [GbeNext]_gbevars => CleanInv'
  <2> SUFFICES ASSUME GbeInv, ChargeInv, CleanInv, [GbeNext]_gbevars, faults' = 0
               PROVE  Clean'
    BY DEF CleanInv
  <2>1. Clean
    BY NoFault DEF CleanInv, GbeInv
  <2> QED BY <2>1, UntouchedStep, GoodStagesStep, GoodRunsStep DEF Clean
<1> QED BY GbeInvariant, ChargeInvariant, <1>1, <1>2, PTL DEF GbeSpec

\* No step of the gate's own looks like a mutation or a failure to its checks
\* (gateMain, inputs.go): a row in which nothing goes wrong is published as passed.
THEOREM CleanRowPassesHolds == GbeSpec => []CleanRowPasses
<1>1. CleanInv => CleanRowPasses
  BY DEF CleanInv, Clean, GoodRuns, CleanRowPasses
<1> QED BY CleanInvariant, <1>1, PTL

----------------------------------------------------------------------------
\* What is told of a row: which states are recorded when.
StageStates == {"none", "complete", "failed", "unspawned", "configuration_failure",
                "input_mutation", "absent", "invalid_source_map"}

Recording ==
  /\ staged \in [{"oracle-build", "transpile", "build"} ->
                    [state : StageStates, captured : BOOLEAN]]
  /\ at \notin {"staging", "oracle-build"} => staged["oracle-build"].state # "absent"
  /\ at \notin Early \cup {"transpile", "fatal"} => staged["transpile"].state # "absent"
  /\ at = "build" => staged["transpile"].state = "complete"
  /\ "compiled" \in binaries => /\ staged["transpile"].state = "complete"
                                /\ staged["build"].state = "complete"

Telling ==
  /\ files["streams"] \in {"own", "foreign"}
  /\ last.state = "complete" => last.spawned
  /\ \A m \in GbeModes : result[m].state = "complete" => result[m].spawned
  /\ at \in {"closing", "done"} => verdicts = [m \in GbeModes |-> VerdictOf(m)]
  /\ published # "none" =>
       /\ at = "done"
       /\ published = IF \A m \in GbeModes : verdicts[m] = "pass" /\ result[m].spawned
                      THEN "pass" ELSE "fail"

LEMMA RecordingStep ==
  ASSUME GbeInv, Recording, [GbeNext]_gbevars
  PROVE  Recording'
<1>1. /\ Enforced \in Result /\ Turns
      /\ {r.state : r \in Result} \subseteq StageStates \ {"absent", "invalid_source_map"}
  BY EnforcedTyped DEF GbeInv, Result, StageStates
<1>2. Enforced.state \in StageStates \ {"absent", "invalid_source_map"} /\ last.captured \in BOOLEAN
  BY <1>1 DEF GbeInv, DataOK, Result
<1>3. CASE JudgeOracle
  <2>1. /\ at' = "products" /\ "compiled" \notin binaries'
        /\ staged' = [staged EXCEPT !["oracle-build"] = StageRecord(Enforced.state, last)]
    BY <1>1, <1>3 DEF JudgeOracle, Turns, Made, Early
  <2> QED BY <1>2, <2>1 DEF Recording, StageRecord, Early
<1>4. CASE JudgeTranspile
  <2>1. PICK state \in StageStates \ {"absent"} :
          /\ at = "transpile"
          /\ staged' = [staged EXCEPT !["transpile"] = StageRecord(state, last)]
          /\ at' = "build" => state = "complete"
          /\ UNCHANGED binaries
    BY <1>2, <1>4 DEF JudgeTranspile, StageStates
  <2>2. "compiled" \notin binaries
    BY <1>1, <2>1 DEF Turns, Made
  <2> QED BY <1>2, <2>1, <2>2 DEF Recording, StageRecord, Early
<1>5. CASE JudgeBuild
  <2>1. /\ at = "build" /\ at' = "rooting"
        /\ staged' = [staged EXCEPT !["build"] = StageRecord(Enforced.state, last)]
        /\ "compiled" \notin binaries
        /\ "compiled" \in binaries' => Enforced.state = "complete"
    BY <1>1, <1>5 DEF JudgeBuild, Turns, Made, StageOK
  <2> QED BY <1>2, <2>1 DEF Recording, StageRecord, Early
<1>6. CASE ~JudgeOracle /\ ~JudgeTranspile /\ ~JudgeBuild
  <2>1. UNCHANGED <<staged, binaries>>
    BY <1>6, FewWrite, BinariesStep
  <2>2. /\ at' \notin {"staging", "oracle-build"} => at \notin {"staging", "oracle-build"}
        /\ at' \notin Early \cup {"transpile", "fatal"} =>
             at \notin Early \cup {"transpile", "fatal"}
        /\ at' = "build" => at = "build"
    BY <1>6, AtStep
       DEF StageOracle, StageProducts, StageRoots, Configure, Observe, Compare, Publish, Fatal,
           Early
  <2> QED BY <2>1, <2>2 DEF Recording
<1> QED BY <1>3, <1>4, <1>5, <1>6

LEMMA TellingStep ==
  ASSUME GbeInv, Telling, [GbeNext]_gbevars
  PROVE  Telling'
<1>1. /\ files \in [GbeFile -> Content] /\ result \in [GbeModes -> Result]
      /\ turn \in GbeModes
      /\ "streams" \in GbeFile /\ {"oracle_src", "build_dir"} \subseteq GbeFile \ {"streams"}
  BY DEF GbeInv, GbeTypeOK, DataOK, GbeFile, Pinned
<1>2. files'["streams"] \in {"own", "foreign"}
  <2>1. CASE StageOracle \/ StageProducts
    BY <1>1, <2>1 DEF StageOracle, StageProducts, Telling
  <2>2. CASE JudgeTranspile
    BY <1>1, <2>2 DEF JudgeTranspile, Telling, tree
  <2>3. ASSUME NEW r \in Result, NEW left \in {"own", "none"}, Build(r, left)
        PROVE  files'["streams"] = files["streams"]
    <3>1. "streams" # Leaves /\ "streams" \notin Grows
      BY <2>3 DEF Build, Leaves, Grows
    <3> QED BY <1>1, <2>3, <3>1 DEF Build
  <2>4. ASSUME NEW f \in GbeFile, Tamper(f)
        PROVE  files'["streams"] \in {files["streams"], "foreign"}
    BY <1>1, <2>4 DEF Tamper
  <2> QED BY <2>1, <2>2, <2>3, <2>4, GbeCases
          DEF JudgeOracle, JudgeBuild, StageRoots, Configure, Observe, Compare, Publish, Fatal,
              Authenticate, Anchor, Run1, Telling, tree, gbevars
<1>3. last'.state = "complete" => last'.spawned
  <2>1. CASE Configure
    BY <2>1 DEF Configure, Unspawned, NoResult, Telling
  <2>2. ASSUME NEW r \in Result, Run1(r) \/ \E left \in {"own", "none"} : Build(r, left)
        PROVE  last'.state = "complete" => last'.spawned
    BY <2>2 DEF Run1, Build, StageEnd
  <2>3. CASE last' \in {last, NoResult}
    BY <2>3 DEF Telling, NoResult
  <2> QED BY <2>1, <2>2, <2>3, GbeCases
          DEF StageOracle, StageProducts, StageRoots, JudgeOracle, JudgeTranspile, JudgeBuild,
              Observe, Compare, Publish, Fatal, Authenticate, Anchor, Tamper, gbevars
<1>4. \A m \in GbeModes : result'[m].state = "complete" => result'[m].spawned
  <2>1. CASE Observe
    <3>1. result' = [result EXCEPT ![turn] = Enforced]
      BY <2>1 DEF Observe
    <3>2. Enforced.state = "complete" => Enforced.spawned
      BY DEF Enforced, Telling, GbeInv, DataOK, Result
    <3> QED BY <1>1, <3>1, <3>2 DEF Telling
  <2> QED BY <2>1, FewWrite DEF Telling
<1>5. at' \in {"closing", "done"} => verdicts' = [m \in GbeModes |-> VerdictOf(m)']
  <2>1. CASE Compare
    <3>1. result' = result /\ verdicts' = [m \in GbeModes |-> VerdictOf(m)]
      BY <2>1 DEF Compare
    <3> QED BY <3>1 DEF VerdictOf
  <2>2. CASE at \in {"closing", "done"}
    <3>1. UNCHANGED <<result, verdicts>>
      BY <2>2, FewWrite DEF Observe, Compare
    <3> QED BY <2>2, <3>1 DEF Telling, VerdictOf
  <2> QED BY <2>1, <2>2, AtStep
          DEF StageOracle, JudgeOracle, StageProducts, JudgeTranspile, JudgeBuild, StageRoots,
              Configure, Observe, Publish, Fatal
<1>6. published' # "none" =>
        /\ at' = "done"
        /\ published' = IF \A m \in GbeModes : verdicts'[m] = "pass" /\ result'[m].spawned
                        THEN "pass" ELSE "fail"
  <2>1. CASE Publish
    BY <2>1 DEF Publish
  <2>2. CASE ~Publish /\ published' # "none"
    <3>1. UNCHANGED published /\ at = "done"
      BY <2>2, FewWrite DEF Telling
    <3>2. UNCHANGED <<at, result, verdicts>>
      BY <3>1, AtStep, FewWrite
         DEF StageOracle, JudgeOracle, StageProducts, JudgeTranspile, JudgeBuild, StageRoots,
             Configure, Observe, Compare, Publish, Fatal
    <3> QED BY <3>1, <3>2 DEF Telling
  <2> QED BY <2>1, <2>2
<1> QED BY <1>2, <1>3, <1>4, <1>5, <1>6 DEF Telling

\* The gate and validate-evidence read the same evidence alike (gate.go): wherever the
\* row stopped, what gateMain publishes is authentic once it is anchored and as long as
\* its files are left alone, but for an oracle build that was never captured, which
\* validate-evidence refuses whatever the gate says of it.
THEOREM PublishedIsAuthenticHolds == GbeSpec => []PublishedIsAuthentic
<1>1. GbeInit => Recording /\ Telling
  BY DEF GbeInit, Recording, Telling, StageStates, StageRecord, NoResult, GbeFile, GbeModes, Early
<1>2. GbeInv /\ Recording /\ Telling /\ [GbeNext]_gbevars => Recording' /\ Telling'
  BY RecordingStep, TellingStep
<1>3. GbeInv /\ Recording /\ Telling => PublishedIsAuthentic
  <2> SUFFICES ASSUME GbeInv, Recording, Telling, published # "none",
                      \A f \in GbeFile : files[f] # "foreign"
               PROVE  ValidEvidence <=> anchored /\ staged["oracle-build"].captured
    BY DEF PublishedIsAuthentic
  <2>1. at = "done" /\ verdicts = [m \in GbeModes |-> VerdictOf(m)]
    BY DEF Telling
  <2>2. staged["oracle-build"].state # "absent" /\ staged["transpile"].state # "absent"
    BY <2>1 DEF Recording, Early
  <2>3. result["compiled"].spawned =>
          staged["transpile"].state = "complete" /\ staged["build"].state = "complete"
    BY DEF GbeInv, Turns, GbeModes, Recording
  <2>4. files["streams"] = "own" /\ \A f \in Artifact : noted[f] # "none" => files[f] = noted[f]
    BY DEF Telling, GbeInv, Stock, GbeFile
  <2>5. \A m \in GbeModes : verdicts[m] = Expected(m)
    <3>1. \A m \in GbeModes : result[m].state # "complete" => VerdictOf(m) = "fail_incomplete"
      BY DEF VerdictOf
    <3> QED BY <2>1, <3>1 DEF Expected, Telling
  <2>6. published = "pass" <=>
          \A m \in GbeModes : /\ result[m].spawned /\ result[m].state = "complete"
                              /\ verdicts[m] = "pass"
    <3>1. \A m \in GbeModes : verdicts[m] = "pass" => result[m].state = "complete"
      BY <2>1 DEF VerdictOf
    <3> QED BY <3>1 DEF Telling
  <2> QED BY <2>2, <2>3, <2>4, <2>5, <2>6 DEF ValidEvidence
<1> QED BY GbeInvariant, <1>1, <1>2, <1>3, PTL DEF GbeSpec
=============================================================================
