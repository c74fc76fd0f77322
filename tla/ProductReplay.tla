--------------------------- MODULE ProductReplay ---------------------------
(***************************************************************************)
(* The go-full product replay and its continuations: GoFullProduct.execute *)
(* and GoFullResume.  A run validates the source tree, loads the evidence  *)
(* directory it resumes, creates a new one, and walks its selected roots:  *)
(* a root whose terminal row is eligible is retained verbatim, any other   *)
(* is attempted, sealed in an immutable record of its own and appended to  *)
(* roots.jsonl.  A run may be capped, aborted or killed at any point; the  *)
(* next one resumes the directory it left.                                 *)
(*                                                                         *)
(* Directories are never rewritten, so a tree of continuations is a set of *)
(* chains, and this module follows one chain: dir is its newest directory. *)
(***************************************************************************)
EXTENDS Naturals, Sequences

CONSTANTS
  N,            \* the number of roots, numbered in inventory order
  Skips,        \* roots whose native observation is a skip
  Simples,      \* roots with a simple recipe
  Adapters,     \* roots executed by an adapter nobody can resume
  Contexts,     \* candidate, SDK, tools, modules, timeout, environment
  Selections,   \* what a run may be asked to execute
  Mishaps,      \* what may go wrong
  Quota,        \* attempts a capped run completes before it is stopped
  StableSort    \* TRUE: sort_by keeps equal keys in order

Roots == 1..N
ASSUME RootsAssumption ==
  N \in Nat /\ Skips \cup Simples \cup Adapters \subseteq Roots
ASSUME SelectionsAssumption == \A s \in Selections : s \subseteq Roots
ASSUME QuotaAssumption == Quota \in Nat

\* A root of no other kind is probed; its recipe stays unfinished.
Kind(r) == CASE r \in Skips -> "skip" [] r \in Simples -> "simple"
             [] r \in Adapters -> "adapter" [] OTHER -> "unfinished"

Tree == {"pinned", "altered"}
Result == {"skip", "complete", "partial", "failed", "mutated", "adapter",
           "probed", "unprobed"}
Row == [id : Roots, context : Contexts, seen : Tree \cup {"none"},
        sealed : Tree, result : Result]
Summary == {"none", "intact", "drifted"}
Dir == [opened : BOOLEAN, torn : BOOLEAN, context : Contexts \cup {"none"},
        journal : Seq(Row), summary : Summary]
Attempt == [id : Roots, seen : Tree \cup {"none"}, result : Result \cup {"none"}]

VARIABLES
  pc,           \* where execute is
  source,       \* the immutable source tree, as it is now
  dir,          \* the newest evidence directory, or NoDir
  records,      \* the roots it has a root-records/ID.json for
  context, selection, subset,   \* what this run was asked to do
  reusable, fresh,              \* what it resumed
  attempt,      \* the root being attempted
  spent         \* the attempts it has made, up to Quota

run == <<context, selection, subset>>
resumed == <<reusable, fresh>>
rvars == <<pc, source, dir, records, run, resumed, attempt, spent>>

NoDir == [opened |-> FALSE, torn |-> FALSE, context |-> "none",
          journal |-> <<>>, summary |-> "none"]
NoAttempt == [id |-> 0, seen |-> "none", result |-> "none"]

Ended == {"never", "stopped", "finished"}
Walking == {"picking", "attempting", "observed", "sealed"}

Rows == {dir.journal[i] : i \in DOMAIN dir.journal}
Recorded == {row.id : row \in Rows}
Retainable == {row.id : row \in reusable}

----------------------------------------------------------------------------
(***************************************************************************)
(* GoFullResume.load: what it refuses and what it reuses.                  *)
(***************************************************************************)
Distinct == \A i, j \in DOMAIN dir.journal :
              dir.journal[i].id = dir.journal[j].id => i = j

\* Mutant of Trusted: the sources a row was sealed with are not compared.
TrustedUnsealed(row) ==
  /\ row.context = context
  /\ row.result \notin {"mutated", "unprobed"}
  /\ row.result \in {"complete", "partial", "probed"} => row.seen = source

\* The row's context, the sources it was sealed with and, where a process ran
\* under load's eyes, those it executed.  A mutated input is refused, and so
\* is a probe that could not run: its modes carry no stage role.
Trusted(row) ==
  /\ row.context = context
  /\ row.sealed = source
  /\ row.result \notin {"mutated", "unprobed"}
  /\ row.result \in {"complete", "partial", "probed"} => row.seen = source

\* Mutant of Loadable: the context is not compared.
LoadableAnyContext ==
  /\ dir.opened /\ ~dir.torn
  /\ Distinct
  /\ \A row \in Rows : Trusted([row EXCEPT !.context = context])

\* A partial last line fails to parse; a run stopped before it opened its
\* journal has none.
Loadable ==
  /\ dir.context = context
  /\ dir.opened /\ ~dir.torn
  /\ Distinct
  /\ \A row \in Rows : Trusted(row)

Eligible(row) == row.result \in {"skip", "complete", "probed"}

----------------------------------------------------------------------------
Init ==
  /\ pc = "never"
  /\ source = "pinned"
  /\ dir = NoDir
  /\ records = {}
  /\ context \in Contexts /\ selection = {} /\ subset = FALSE
  /\ reusable = {} /\ fresh = {}
  /\ attempt = NoAttempt
  /\ spent = 0

\* inventory.py validate: the sources are those of the pinned archive.  A
\* phase shard or a proper subset of the roots may be selected.
Start ==
  /\ pc \in Ended
  /\ source = "pinned"
  /\ context' \in Contexts
  /\ selection' \in Selections
  /\ subset' \in BOOLEAN /\ (subset' => selection' # Roots)
  /\ pc' = "loading"
  /\ UNCHANGED <<source, dir, records, resumed, attempt, spent>>

Created == [opened |-> FALSE, torn |-> FALSE, context |-> context,
            journal |-> <<>>, summary |-> "none"]

\* Mutant of Load: what was resumed is all executed afresh.
LoadForgets ==
  /\ pc = "loading"
  /\ dir # NoDir => Loadable
  /\ reusable' = {}
  /\ fresh' = Recorded
  /\ dir' = Created
  /\ records' = {} /\ attempt' = NoAttempt /\ spent' = 0
  /\ pc' = "matching"
  /\ UNCHANGED <<source, run>>

\* load, then mkdir of the new directory and its context.json.
Load ==
  /\ pc = "loading"
  /\ dir # NoDir => Loadable
  /\ reusable' = {row \in Rows : Eligible(row)}
  /\ fresh' = {row.id : row \in {w \in Rows : ~Eligible(w)}}
  /\ dir' = Created
  /\ records' = {} /\ attempt' = NoAttempt /\ spent' = 0
  /\ pc' = "matching"
  /\ UNCHANGED <<source, run>>

\* A ContractError: the checkpoint is refused, nothing is created.
Refuse ==
  /\ pc = "loading"
  /\ dir # NoDir /\ ~Loadable
  /\ pc' = "stopped"
  /\ UNCHANGED <<source, dir, records, run, resumed, attempt, spent>>

\* Both matchers are built, roots.jsonl is created.
OpenJournal ==
  /\ pc = "matching"
  /\ dir' = [dir EXCEPT !.opened = TRUE]
  /\ pc' = "picking"
  /\ UNCHANGED <<source, records, run, resumed, attempt, spent>>

----------------------------------------------------------------------------
(***************************************************************************)
(* The walk.  Roots the resumed directory could not credit come last.      *)
(***************************************************************************)
Pending == selection \ Recorded

Precedes(r, s) ==
  \/ ~subset /\ r \notin fresh /\ s \in fresh
  \/ /\ StableSort /\ r < s
     /\ subset \/ (r \in fresh <=> s \in fresh)

Upcoming == {r \in Pending : \A s \in Pending : ~Precedes(s, r)}

\* Mutant of Retain: no next, the root is attempted as well.
RetainFallsThrough(row) ==
  /\ pc = "picking"
  /\ row.id \in Upcoming
  /\ dir' = [dir EXCEPT !.journal = Append(@, row)]
  /\ attempt' = [id |-> row.id, seen |-> source, result |-> "none"]
  /\ pc' = "attempting"
  /\ UNCHANGED <<source, records, run, resumed, spent>>

Retain(row) ==
  /\ pc = "picking"
  /\ row.id \in Upcoming
  /\ dir' = [dir EXCEPT !.journal = Append(@, row)]
  /\ UNCHANGED <<pc, source, records, run, resumed, attempt, spent>>

\* Mutant of Begin: the checkpoint is not consulted.
BeginAnyway(r) ==
  /\ pc = "picking"
  /\ r \in Upcoming
  /\ attempt' = [id |-> r, seen |-> IF r \in Skips THEN "none" ELSE source,
                 result |-> "none"]
  /\ pc' = "attempting"
  /\ UNCHANGED <<source, dir, records, run, resumed, spent>>

\* The inputs are copied and their digests taken; a skip executes nothing.
Begin(r) ==
  /\ pc = "picking"
  /\ r \in Upcoming \ Retainable
  /\ attempt' = [id |-> r, seen |-> IF r \in Skips THEN "none" ELSE source,
                 result |-> "none"]
  /\ pc' = "attempting"
  /\ UNCHANGED <<source, dir, records, run, resumed, spent>>

\* What an attempt comes to.  A simple recipe compares the originals again
\* and fails if they changed; a probe records the change instead.
Outcome(kind, intact) ==
  CASE kind = "skip" -> {"skip"}
    [] kind = "simple" -> IF intact THEN {"complete", "partial", "failed", "mutated"}
                          ELSE {"failed"}
    [] kind = "adapter" -> {"adapter"}
    [] OTHER -> IF intact THEN {"probed", "unprobed", "mutated"}
                ELSE {"unprobed", "mutated"}

\* An outcome that is no mishap, or one of those that may happen; a change of
\* the sources makes its own.
Observe ==
  /\ pc = "attempting"
  /\ LET kind == Kind(attempt.id)
         intact == attempt.seen \in {"none", source}
     IN \E o \in Outcome(kind, intact) :
          /\ intact => o \in Mishaps \cup {"skip", "complete", "adapter", "probed"}
          /\ attempt' = [attempt EXCEPT !.result = o]
  /\ pc' = "observed"
  /\ UNCHANGED <<source, dir, records, run, resumed, spent>>

\* Mutant of Seal: the row goes on without its record.
SealUnretained ==
  /\ pc = "observed"
  /\ attempt' = [id |-> attempt.id, context |-> context, seen |-> attempt.seen,
                 sealed |-> source, result |-> attempt.result]
  /\ pc' = "sealed"
  /\ UNCHANGED <<source, dir, records, run, resumed, spent>>

\* seal: the row takes the digests of the sources as they are by now.
Seal ==
  /\ pc = "observed"
  /\ attempt' = [id |-> attempt.id, context |-> context, seen |-> attempt.seen,
                 sealed |-> source, result |-> attempt.result]
  /\ records' = records \cup {attempt.id}
  /\ pc' = "sealed"
  /\ UNCHANGED <<source, dir, run, resumed, spent>>

AppendRow ==
  /\ pc = "sealed"
  /\ dir' = [dir EXCEPT !.journal = Append(@, attempt)]
  /\ attempt' = NoAttempt
  /\ spent' = IF spent < Quota THEN spent + 1 ELSE spent
  /\ pc' = "picking"
  /\ UNCHANGED <<source, records, run, resumed>>

\* Every selected root has its row: the sources are validated once more and
\* the summary says what was found.
Finish ==
  /\ pc = "picking"
  /\ Pending = {}
  /\ dir' = [dir EXCEPT !.summary = IF source = "pinned" THEN "intact" ELSE "drifted"]
  /\ pc' = "finished"
  /\ UNCHANGED <<source, records, run, resumed, attempt, spent>>

\* The wall-clock cap, an error nobody rescues, a kill.
Stop ==
  /\ pc \in Walking \cup {"matching"}
  /\ spent >= Quota
  /\ pc' = "stopped"
  /\ UNCHANGED <<source, dir, records, run, resumed, attempt, spent>>

\* Mutant of Tear: the partial line still reads as a row.
TearReadable ==
  /\ "torn" \in Mishaps
  /\ pc = "sealed"
  /\ dir' = [dir EXCEPT !.journal = Append(@, NoAttempt)]
  /\ pc' = "stopped"
  /\ UNCHANGED <<source, records, run, resumed, attempt, spent>>

\* A kill in the middle of writing a row.
Tear ==
  /\ "torn" \in Mishaps
  /\ pc = "sealed" \/ (pc = "picking" /\ Upcoming \cap Retainable # {})
  /\ spent >= Quota
  /\ dir' = [dir EXCEPT !.torn = TRUE]
  /\ pc' = "stopped"
  /\ UNCHANGED <<source, records, run, resumed, attempt, spent>>

Replay == \/ Start \/ Load \/ Refuse \/ OpenJournal
          \/ \E row \in reusable : Retain(row)
          \/ \E r \in Roots : Begin(r)
          \/ Observe \/ Seal \/ AppendRow \/ Finish

\* Somebody changes a source file; it is put right only between runs.
Alter ==
  /\ "altered" \in Mishaps
  /\ source = "pinned"
  /\ source' = "altered"
  /\ UNCHANGED <<pc, dir, records, run, resumed, attempt, spent>>

Restore ==
  /\ pc \in Ended
  /\ source = "altered"
  /\ source' = "pinned"
  /\ UNCHANGED <<pc, dir, records, run, resumed, attempt, spent>>

Next == Replay \/ Stop \/ Tear \/ Alter \/ Restore

Spec == Init /\ [][Next]_rvars

\* A manager who starts the next bounded run whenever one has ended.
FairSpec == Spec /\ WF_rvars(Replay)

----------------------------------------------------------------------------
(***************************************************************************)
(* Type correctness.                                                       *)
(***************************************************************************)
TypeOK ==
  /\ pc \in Ended \cup Walking \cup {"loading", "matching"}
  /\ source \in Tree
  /\ dir \in Dir
  /\ records \subseteq Roots
  /\ context \in Contexts /\ selection \subseteq Roots /\ subset \in BOOLEAN
  /\ reusable \subseteq Row /\ fresh \subseteq Roots
  /\ pc \in {"attempting", "observed"} => attempt \in Attempt
  /\ pc = "observed" => attempt.result \in Result
  /\ pc = "sealed" => attempt \in Row
  /\ spent \in 0..Quota

\* A summary whose final validation passed speaks for every row beside it:
\* each was executed and sealed on the pinned sources, in whatever run of the
\* chain it was made.
CertifiedIsPinned ==
  dir.summary = "intact" =>
    \A row \in Rows : row.sealed = "pinned" /\ row.seen \in {"pinned", "none"}

\* A finished run accounts for each selected root by exactly one row.
EveryRootOnce == pc = "finished" => Distinct /\ Recorded = selection

\* No evidence directory mixes observations of two candidates, SDKs or tools,
\* however long the chain of continuations behind it.
OneContext == \A row \in Rows : row.context = dir.context

\* Every row in the journal is backed by an immutable record, in this
\* directory or, for a retained row, in the one it was resumed from: a crash
\* can leave a record without a row and never the reverse.
RowsBacked == \A row \in Rows : row.id \in records \/ row \in reusable

\* A finished continuation still holds, verbatim, every selected terminal row
\* that was eligible in the directory it resumed: verdicts do not change.
ResumeLosesNothing ==
  pc = "finished" =>
    \A row \in reusable : row.id \in selection => row \in Rows

\* What an uninterrupted run over the pinned sources may write of a root.
FreshRow ==
  {row \in Row : /\ row.seen = (IF row.id \in Skips THEN "none" ELSE "pinned")
                 /\ row.sealed = "pinned"
                 /\ row.result \in Outcome(Kind(row.id), TRUE)}

Fresh == INSTANCE FreshRun WITH
  FreshRows <- FreshRow,
  certified <- IF dir.summary = "intact" THEN Rows ELSE {}

\* However many continuations it took, whatever crashed, failed or was altered on
\* the way, a certified directory is one that a single run could have written; it
\* stays as it is until the next run opens a directory of its own.
AsOneRun == Fresh!Spec

\* Where every recipe can be resumed, capped continuations add up to a
\* finished run.
ContinuationsFinish == []<>(pc = "finished")

\* docs: "Missing-artifact or otherwise incomplete attempts also require fresh
\* execution": a checkpoint of the same context, over the same sources, whose
\* inputs nobody touched, is resumed.
CheckpointResumable ==
  pc = "loading" /\ dir.opened /\ ~dir.torn /\ dir.context = context
    /\ (\A row \in Rows : row.result # "mutated" /\ row.sealed = source)
    => Loadable

\* docs: "Prior fresh-required adapters run after unattempted roots so bounded
\* continuations can make progress": every root is reached by some run.
EveryRootReached == \A r \in Roots : <>(r \in Recorded)
============================================================================
