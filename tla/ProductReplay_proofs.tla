------------------------ MODULE ProductReplay_proofs ------------------------
(***************************************************************************)
(* Proofs about the product replay, for every inventory, every set of      *)
(* contexts and every chain of continuations: its safety properties, from  *)
(* IInv, and that it implements FreshRun, a run without continuations.     *)
(***************************************************************************)
EXTENDS ProductReplay, TLAPS

\* Where the run is while it owns the newest directory.
Running == Walking \cup {"matching"}
Attempting == {"attempting", "observed", "sealed"}

\* What a row, or an attempt on its way to one, is worth on its sources.
PinnedRow(row) == row.sealed = "pinned" /\ row.seen \in {"pinned", "none"}

(***************************************************************************)
(* The inductive invariant.                                                *)
(***************************************************************************)
\* The walk writes only selected roots, and the current one is new.
Walk ==
  /\ Distinct
  /\ pc = "matching" => dir.journal = <<>>
  /\ pc \in Walking \cup {"finished"} => Recorded \subseteq selection
  /\ pc \in Attempting => attempt.id \in selection \ (Recorded \cup Retainable)
  /\ pc = "finished" => Pending = {}

\* What was resumed names a root once and is copied, never remade.
Kept ==
  /\ \A v, w \in reusable : v.id = w.id => v = w
  /\ pc \in Running \cup {"finished"} =>
       \A row \in reusable : row.id \in Recorded => row \in Rows

\* Every row is backed; the one about to be written already is.
Backed == RowsBacked /\ (pc = "sealed" => attempt.id \in records)

\* One context along the chain.
Bound ==
  /\ OneContext
  /\ pc \in Running =>
       dir.context = context /\ \A row \in reusable : row.context = context
  /\ pc = "sealed" => attempt.context = context

\* A root that is skipped executed nothing.
SkipsUnseen ==
  /\ \A row \in Rows \cup reusable : row.result = "skip" => row.seen = "none"
  /\ pc \in Attempting => (attempt.id \in Skips => attempt.seen = "none")
  /\ pc \in {"observed", "sealed"} =>
       (attempt.result = "skip" => attempt.id \in Skips)

\* While the sources are still the pinned ones, so is everything in hand.
Pinned ==
  /\ pc \in Running => dir.summary = "none"
  /\ pc \in Running /\ source = "pinned" =>
       /\ \A row \in Rows \cup reusable : PinnedRow(row)
       /\ pc \in Attempting => attempt.seen \in {"pinned", "none"}
       /\ pc = "sealed" => attempt.sealed = "pinned"

IInv == TypeOK /\ Walk /\ Kept /\ Backed /\ Bound /\ SkipsUnseen /\ Pinned
          /\ CertifiedIsPinned

USE DEF Roots, Tree, Result, Summary, Ended, Walking, Running, Attempting

----------------------------------------------------------------------------
(***************************************************************************)
(* The journal as a set of rows.                                           *)
(***************************************************************************)
\* Appending one row adds that row and nothing else, and keeps the identifiers
\* distinct when its own is new.
LEMMA RowsGrow ==
  ASSUME dir \in Dir, NEW row \in Row,
         dir' = [dir EXCEPT !.journal = Append(@, row)]
  PROVE  /\ dir' \in Dir
         /\ dir'.opened = dir.opened /\ dir'.torn = dir.torn
         /\ dir'.context = dir.context /\ dir'.summary = dir.summary
         /\ Rows' = Rows \cup {row}
         /\ Recorded' = Recorded \cup {row.id}
         /\ Distinct /\ row.id \notin Recorded => Distinct'
<1> DEFINE s == dir.journal
<1>1. s \in Seq(Row) /\ dir'.journal = Append(s, row)
  BY DEF Dir
<1>2. dir' \in Dir /\ dir'.opened = dir.opened /\ dir'.torn = dir.torn
        /\ dir'.context = dir.context /\ dir'.summary = dir.summary
  <2>1. Append(s, row) \in Seq(Row)
    BY <1>1
  <2>2. QED
    BY <2>1 DEF Dir
<1>3. /\ DOMAIN Append(s, row) = 1..(Len(s) + 1) /\ DOMAIN s = 1..Len(s)
      /\ Len(s) \in Nat
      /\ \A i \in DOMAIN s : Append(s, row)[i] = s[i]
      /\ Append(s, row)[Len(s) + 1] = row
  BY <1>1
<1>4. Rows' = Rows \cup {row}
  <2>1. Rows' \subseteq Rows \cup {row}
    BY <1>1, <1>3 DEF Rows
  <2>2. \A i \in DOMAIN s : s[i] \in Rows'
    BY <1>1, <1>3 DEF Rows
  <2>3. row \in Rows'
    <3>1. Len(s) + 1 \in DOMAIN dir'.journal /\ dir'.journal[Len(s) + 1] = row
      BY <1>1, <1>3
    <3>2. QED
      BY <3>1 DEF Rows
  <2>4. QED
    BY <2>1, <2>2, <2>3 DEF Rows
<1>5. Recorded' = Recorded \cup {row.id}
  BY <1>4 DEF Recorded
<1>6. ASSUME Distinct, row.id \notin Recorded
      PROVE  Distinct'
  <2>1. \A i \in DOMAIN s : s[i].id # row.id
    BY <1>6 DEF Recorded, Rows
  <2>2. SUFFICES ASSUME NEW i \in DOMAIN Append(s, row), NEW j \in DOMAIN Append(s, row),
                        Append(s, row)[i].id = Append(s, row)[j].id
                 PROVE  i = j
    BY <1>1 DEF Distinct
  <2>3. QED
    BY <1>3, <1>6, <2>1, <2>2 DEF Distinct
<1>7. QED
  BY <1>2, <1>4, <1>5, <1>6

\* With the same journal, the same rows.
LEMMA RowsSame ==
  ASSUME dir'.journal = dir.journal
  PROVE  Rows' = Rows /\ Recorded' = Recorded /\ (Distinct' <=> Distinct)
BY DEF Rows, Recorded, Distinct

\* An empty journal has no rows.
LEMMA RowsNone ==
  ASSUME dir'.journal = <<>>
  PROVE  Rows' = {} /\ Recorded' = {} /\ Distinct'
<1>1. DOMAIN dir'.journal = {}
  OBVIOUS
<1>2. QED
  BY <1>1 DEF Rows, Recorded, Distinct

\* Rows are rows.
LEMMA RowsTyped == ASSUME TypeOK PROVE Rows \subseteq Row /\ Recorded \subseteq Roots
<1>1. dir.journal \in Seq(Row)
  BY DEF TypeOK, Dir
<1>2. Rows \subseteq Row
  BY <1>1 DEF Rows
<1>3. QED
  BY <1>2 DEF Recorded, Row

----------------------------------------------------------------------------
(***************************************************************************)
(* Initially, and in every step.                                           *)
(***************************************************************************)
LEMMA InitInv == Init => IInv
<1> SUFFICES ASSUME Init PROVE IInv
  OBVIOUS
<1>1. TypeOK
  <2>1. NoDir \in Dir
    BY DEF NoDir, Dir
  <2>2. 0 \in 0..Quota
    BY QuotaAssumption
  <2>3. QED
    BY <2>1, <2>2, Zenon DEF Init, TypeOK
<1>2. Rows = {} /\ Recorded = {} /\ Distinct /\ dir.summary = "none"
  BY DEF Init, NoDir, Rows, Recorded, Distinct
<1>3. QED
  BY <1>1, <1>2 DEF Init, IInv, Walk, Kept, Backed, RowsBacked, Bound, OneContext,
                    SkipsUnseen, Pinned, CertifiedIsPinned

\* Steps that leave the directory alone keep what is said of it alone.
LEMMA StartInv == IInv /\ Start => IInv'
<1> SUFFICES ASSUME IInv, Start PROVE IInv'
  OBVIOUS
<1>1. dir' = dir /\ Rows' = Rows /\ Recorded' = Recorded /\ (Distinct' <=> Distinct)
  BY RowsSame DEF Start
<1>2. pc' = "loading" /\ UNCHANGED <<source, records, reusable, fresh, attempt, spent>>
  BY DEF Start, resumed
<1>3. TypeOK'
  BY <1>1, <1>2, SelectionsAssumption DEF IInv, TypeOK, Start
<1>4. Walk' /\ Kept' /\ Backed' /\ Bound' /\ SkipsUnseen' /\ Pinned' /\ CertifiedIsPinned'
  BY <1>1, <1>2 DEF IInv, Walk, Kept, Backed, RowsBacked, Bound, OneContext,
                    SkipsUnseen, Pinned, CertifiedIsPinned
<1>5. QED
  BY <1>3, <1>4 DEF IInv

\* Load: everything the new run starts from was trusted, row by row.
LEMMA LoadInv == IInv /\ Load => IInv'
<1> SUFFICES ASSUME IInv, Load PROVE IInv'
  OBVIOUS
<1>1. /\ Rows' = {} /\ Recorded' = {} /\ Distinct'
      /\ dir'.context = context /\ dir'.summary = "none" /\ dir'.journal = <<>>
      /\ dir' \in Dir
  <2>1. dir' = Created
    BY DEF Load
  <2>2. dir'.context = context /\ dir'.summary = "none" /\ dir'.journal = <<>>
          /\ dir' \in Dir
    BY <2>1 DEF Created, Dir, IInv, TypeOK
  <2>3. QED
    BY <2>2, RowsNone
<1>2. /\ pc' = "matching" /\ attempt' = NoAttempt /\ records' = {} /\ spent' = 0
      /\ UNCHANGED <<source, context, selection, subset>>
  BY DEF Load, run
<1>3. reusable' = {row \in Rows : Eligible(row)} /\ fresh' \subseteq Recorded
  BY DEF Load, Recorded
<1>4. \A row \in Rows : row.context = context /\ row.sealed = source
        /\ (row.result \in {"complete", "partial", "probed"} => row.seen = source)
  <2>1. CASE dir = NoDir
    BY <2>1 DEF NoDir, Rows
  <2>2. CASE Loadable
    BY <2>2 DEF Loadable, Trusted
  <2>3. QED
    BY <2>1, <2>2 DEF Load
<1>5. TypeOK'
  <2>1. reusable' \subseteq Row /\ fresh' \subseteq Roots
    BY <1>3, RowsTyped DEF IInv
  <2>2. QED
    BY <1>1, <1>2, <2>1, QuotaAssumption DEF IInv, TypeOK
<1>6. Kept'
  <2>1. \A v, w \in Rows : v.id = w.id => v = w
    BY DEF IInv, Walk, Distinct, Rows
  <2>2. QED
    BY <1>1, <1>3, <2>1 DEF Kept
<1>7. Bound'
  BY <1>1, <1>2, <1>3, <1>4 DEF Bound, OneContext
<1>8. Pinned'
  <2>1. ASSUME source = "pinned", NEW row \in reusable'
        PROVE  PinnedRow(row)
    <3>1. row \in Rows /\ Eligible(row)
      BY <1>3, <2>1
    <3>2. row.sealed = "pinned"
      BY <1>4, <2>1, <3>1
    <3>3. row.seen \in {"pinned", "none"}
      BY <1>4, <2>1, <3>1 DEF Eligible, IInv, SkipsUnseen
    <3>4. QED
      BY <3>2, <3>3 DEF PinnedRow
  <2>2. QED
    BY <1>1, <1>2, <2>1 DEF Pinned
<1>9. Walk' /\ Backed' /\ SkipsUnseen' /\ CertifiedIsPinned'
  BY <1>1, <1>2, <1>3 DEF IInv, Walk, Backed, RowsBacked, SkipsUnseen, CertifiedIsPinned
<1>10. QED
  BY <1>5, <1>6, <1>7, <1>8, <1>9 DEF IInv

\* Refusing, stopping, and the world outside, leave every row where it is.
LEMMA QuietInv == IInv /\ (Refuse \/ Stop \/ Alter \/ Restore) => IInv'
<1> SUFFICES ASSUME IInv, Refuse \/ Stop \/ Alter \/ Restore PROVE IInv'
  OBVIOUS
<1>1. /\ UNCHANGED <<dir, records, context, selection, subset, reusable, fresh,
                     attempt, spent>>
      /\ pc' = pc \/ pc' = "stopped"
      /\ source' \in Tree
      /\ (source' = "pinned" => source = "pinned" \/ (pc \in Ended /\ pc' = pc))
  BY DEF Refuse, Stop, Alter, Restore, run, resumed, IInv, TypeOK
<1>2. Rows' = Rows /\ Recorded' = Recorded /\ (Distinct' <=> Distinct)
        /\ Pending' = Pending /\ Retainable' = Retainable
  BY <1>1, RowsSame DEF Pending, Retainable
<1>3. TypeOK'
  BY <1>1 DEF IInv, TypeOK
<1>4. Walk'
  BY <1>1, <1>2 DEF IInv, Walk
<1>5. Kept' /\ Backed' /\ Bound' /\ SkipsUnseen'
  BY <1>1, <1>2 DEF IInv, Kept, Backed, RowsBacked, Bound, OneContext, SkipsUnseen
<1>6. Pinned' /\ CertifiedIsPinned'
  BY <1>1, <1>2 DEF IInv, Pinned, CertifiedIsPinned
<1>7. QED
  BY <1>3, <1>4, <1>5, <1>6 DEF IInv

\* Steps that touch only the directory's flags.
LEMMA FlagInv == IInv /\ (OpenJournal \/ Tear) => IInv'
<1> SUFFICES ASSUME IInv, OpenJournal \/ Tear PROVE IInv'
  OBVIOUS
<1>1. /\ UNCHANGED <<source, records, context, selection, subset, reusable, fresh,
                     attempt, spent>>
      /\ (pc = "matching" /\ pc' = "picking") \/ pc' = "stopped"
  BY DEF OpenJournal, Tear, run, resumed
<1>2. dir' \in Dir /\ dir'.context = dir.context /\ dir'.journal = dir.journal
        /\ dir'.summary = dir.summary
  BY DEF OpenJournal, Tear, IInv, TypeOK, Dir
<1>3. Rows' = Rows /\ Recorded' = Recorded /\ (Distinct' <=> Distinct)
        /\ Retainable' = Retainable
  BY <1>1, <1>2, RowsSame DEF Retainable
<1>4. pc = "matching" => Recorded = {}
  BY DEF IInv, Walk, Recorded, Rows
<1>5. TypeOK'
  BY <1>1, <1>2 DEF IInv, TypeOK
<1>6. Walk'
  BY <1>1, <1>2, <1>3, <1>4 DEF IInv, Walk
<1>7. Kept' /\ Backed' /\ Bound' /\ SkipsUnseen'
  BY <1>1, <1>2, <1>3 DEF IInv, Kept, Backed, RowsBacked, Bound, OneContext, SkipsUnseen
<1>8. Pinned' /\ CertifiedIsPinned'
  BY <1>1, <1>2, <1>3 DEF IInv, Pinned, CertifiedIsPinned
<1>9. QED
  BY <1>5, <1>6, <1>7, <1>8 DEF IInv

\* Retain copies a trusted row of a root the journal does not have yet.
LEMMA RetainInv == ASSUME IInv, NEW row \in reusable, Retain(row) PROVE IInv'
<1>1. /\ pc = "picking" /\ pc' = "picking"
      /\ row \in Row /\ row.id \in selection \ Recorded
      /\ UNCHANGED <<source, records, context, selection, subset, reusable, fresh,
                     attempt, spent>>
  BY DEF Retain, Upcoming, Pending, run, resumed, IInv, TypeOK
<1>2. /\ dir' \in Dir /\ dir'.context = dir.context /\ dir'.summary = dir.summary
      /\ Rows' = Rows \cup {row} /\ Recorded' = Recorded \cup {row.id} /\ Distinct'
  BY <1>1, RowsGrow DEF Retain, IInv, TypeOK, Walk
<1>3. TypeOK'
  BY <1>1, <1>2 DEF IInv, TypeOK
<1>4. Walk'
  BY <1>1, <1>2 DEF IInv, Walk
<1>5. Kept'
  BY <1>1, <1>2 DEF IInv, Kept
<1>6. Backed' /\ Bound'
  BY <1>1, <1>2 DEF IInv, Backed, RowsBacked, Bound, OneContext
<1>7. SkipsUnseen'
  BY <1>1, <1>2 DEF IInv, SkipsUnseen
<1>8. Pinned' /\ CertifiedIsPinned'
  BY <1>1, <1>2 DEF IInv, Pinned, CertifiedIsPinned
<1>9. QED
  BY <1>3, <1>4, <1>5, <1>6, <1>7, <1>8 DEF IInv

\* Begin takes a root that has no row, here or in what was resumed.
LEMMA BeginInv == ASSUME IInv, NEW r \in Roots, Begin(r) PROVE IInv'
<1>1. /\ pc = "picking" /\ pc' = "attempting"
      /\ r \in selection \ (Recorded \cup Retainable)
      /\ attempt'.id = r /\ attempt' \in Attempt
      /\ attempt'.seen = IF r \in Skips THEN "none" ELSE source
      /\ UNCHANGED <<source, dir, records, context, selection, subset, reusable,
                     fresh, spent>>
  BY DEF Begin, Upcoming, Pending, Attempt, run, resumed, IInv, TypeOK
<1>2. Rows' = Rows /\ Recorded' = Recorded /\ (Distinct' <=> Distinct)
        /\ Retainable' = Retainable
  BY <1>1, RowsSame DEF Retainable
<1>3. TypeOK'
  BY <1>1 DEF IInv, TypeOK
<1>4. Walk'
  BY <1>1, <1>2 DEF IInv, Walk
<1>5. Kept' /\ Backed' /\ Bound' /\ SkipsUnseen'
  BY <1>1, <1>2 DEF IInv, Kept, Backed, RowsBacked, Bound, OneContext, SkipsUnseen
<1>6. Pinned' /\ CertifiedIsPinned'
  BY <1>1, <1>2 DEF IInv, Pinned, CertifiedIsPinned
<1>7. QED
  BY <1>3, <1>4, <1>5, <1>6 DEF IInv

\* Only a skipped root has the outcome of one.
LEMMA OutcomeKind ==
  ASSUME NEW r, NEW intact, NEW o \in Outcome(Kind(r), intact)
  PROVE  o \in Result /\ (o = "skip" => r \in Skips)
BY DEF Outcome, Kind

LEMMA ObserveInv == IInv /\ Observe => IInv'
<1> SUFFICES ASSUME IInv, Observe PROVE IInv'
  OBVIOUS
<1>1. PICK o : /\ o \in Outcome(Kind(attempt.id), attempt.seen \in {"none", source})
               /\ attempt' = [attempt EXCEPT !.result = o]
  BY DEF Observe
<1>2. o \in Result /\ (o = "skip" => attempt.id \in Skips)
  BY <1>1, OutcomeKind
<1>3. /\ pc = "attempting" /\ pc' = "observed"
      /\ UNCHANGED <<source, dir, records, context, selection, subset, reusable,
                     fresh, spent>>
  BY DEF Observe, run, resumed
<1>4. /\ attempt'.id = attempt.id /\ attempt'.seen = attempt.seen
      /\ attempt'.result = o /\ attempt' \in Attempt
  <2>1. attempt \in Attempt
    BY <1>3 DEF IInv, TypeOK
  <2>2. QED
    BY <1>1, <1>2, <2>1 DEF Attempt
<1>5. Rows' = Rows /\ Recorded' = Recorded /\ (Distinct' <=> Distinct)
        /\ Retainable' = Retainable
  BY <1>3, RowsSame DEF Retainable
<1>6. TypeOK'
  BY <1>2, <1>3, <1>4 DEF IInv, TypeOK
<1>7. Walk'
  BY <1>3, <1>4, <1>5 DEF IInv, Walk
<1>8. Kept' /\ Backed' /\ Bound' /\ SkipsUnseen'
  BY <1>2, <1>3, <1>4, <1>5
     DEF IInv, Kept, Backed, RowsBacked, Bound, OneContext, SkipsUnseen
<1>9. Pinned' /\ CertifiedIsPinned'
  BY <1>3, <1>4, <1>5 DEF IInv, Pinned, CertifiedIsPinned
<1>10. QED
  BY <1>6, <1>7, <1>8, <1>9 DEF IInv

\* Seal makes the attempt a row: it takes the run's context and its record.
LEMMA SealInv == IInv /\ Seal => IInv'
<1> SUFFICES ASSUME IInv, Seal PROVE IInv'
  OBVIOUS
<1>1. /\ pc = "observed" /\ pc' = "sealed"
      /\ records' = records \cup {attempt.id}
      /\ UNCHANGED <<source, dir, context, selection, subset, reusable, fresh, spent>>
      /\ attempt' = [id |-> attempt.id, context |-> context, seen |-> attempt.seen,
                     sealed |-> source, result |-> attempt.result]
  BY DEF Seal, run, resumed
<1>2. attempt \in Attempt /\ attempt.result \in Result /\ context \in Contexts
        /\ source \in Tree
  BY <1>1 DEF IInv, TypeOK
<1>3. /\ attempt'.id = attempt.id /\ attempt'.seen = attempt.seen
      /\ attempt'.result = attempt.result /\ attempt'.context = context
      /\ attempt'.sealed = source /\ attempt' \in Row
  BY <1>1, <1>2 DEF Attempt, Row
<1>4. Rows' = Rows /\ Recorded' = Recorded /\ (Distinct' <=> Distinct)
        /\ Retainable' = Retainable
  BY <1>1, RowsSame DEF Retainable
<1>5. TypeOK'
  <2>1. attempt.id \in Roots
    BY <1>2 DEF Attempt
  <2>2. QED
    BY <1>1, <1>3, <2>1 DEF IInv, TypeOK
<1>6. Walk'
  BY <1>1, <1>3, <1>4 DEF IInv, Walk
<1>7. Kept' /\ Backed' /\ Bound' /\ SkipsUnseen'
  BY <1>1, <1>3, <1>4
     DEF IInv, Kept, Backed, RowsBacked, Bound, OneContext, SkipsUnseen
<1>8. Pinned' /\ CertifiedIsPinned'
  BY <1>1, <1>3, <1>4 DEF IInv, Pinned, CertifiedIsPinned
<1>9. QED
  BY <1>5, <1>6, <1>7, <1>8 DEF IInv

LEMMA AppendInv == IInv /\ AppendRow => IInv'
<1> SUFFICES ASSUME IInv, AppendRow PROVE IInv'
  OBVIOUS
<1>1. /\ pc = "sealed" /\ pc' = "picking" /\ attempt \in Row
      /\ attempt.id \in selection \ (Recorded \cup Retainable)
      /\ UNCHANGED <<source, records, context, selection, subset, reusable, fresh>>
  BY DEF AppendRow, run, resumed, IInv, TypeOK, Walk
<1>2. /\ dir' \in Dir /\ dir'.context = dir.context /\ dir'.summary = dir.summary
      /\ Rows' = Rows \cup {attempt} /\ Recorded' = Recorded \cup {attempt.id}
      /\ Distinct'
  BY <1>1, RowsGrow DEF AppendRow, IInv, TypeOK, Walk
<1>3. spent' \in 0..Quota
  BY QuotaAssumption DEF AppendRow, IInv, TypeOK
<1>4. TypeOK'
  BY <1>1, <1>2, <1>3 DEF IInv, TypeOK
<1>5. Walk'
  BY <1>1, <1>2 DEF IInv, Walk
<1>6. Kept'
  <2>1. attempt.id \notin {row.id : row \in reusable}
    BY <1>1 DEF Retainable
  <2>2. QED
    BY <1>1, <1>2, <2>1 DEF IInv, Kept
<1>7. Backed' /\ Bound' /\ SkipsUnseen'
  BY <1>1, <1>2 DEF IInv, Backed, RowsBacked, Bound, OneContext, SkipsUnseen
<1>8. Pinned' /\ CertifiedIsPinned'
  <2>1. source = "pinned" => PinnedRow(attempt)
    BY <1>1 DEF IInv, Pinned, PinnedRow
  <2>2. dir.summary = "none"
    BY <1>1 DEF IInv, Pinned
  <2>3. QED
    BY <1>1, <1>2, <2>1, <2>2 DEF IInv, Pinned, CertifiedIsPinned
<1>9. QED
  BY <1>4, <1>5, <1>6, <1>7, <1>8 DEF IInv

\* Finish certifies only what is still pinned.
LEMMA FinishInv == IInv /\ Finish => IInv'
<1> SUFFICES ASSUME IInv, Finish PROVE IInv'
  OBVIOUS
<1>1. /\ pc = "picking" /\ pc' = "finished" /\ Pending = {}
      /\ UNCHANGED <<source, records, context, selection, subset, reusable, fresh,
                     attempt, spent>>
  BY DEF Finish, run, resumed
<1>2. /\ dir' \in Dir /\ dir'.context = dir.context /\ dir'.journal = dir.journal
      /\ dir'.summary = IF source = "pinned" THEN "intact" ELSE "drifted"
  BY DEF Finish, IInv, TypeOK, Dir
<1>3. Rows' = Rows /\ Recorded' = Recorded /\ (Distinct' <=> Distinct)
        /\ Retainable' = Retainable /\ Pending' = Pending
  BY <1>1, <1>2, RowsSame DEF Retainable, Pending
<1>4. TypeOK'
  BY <1>1, <1>2 DEF IInv, TypeOK
<1>5. Walk'
  BY <1>1, <1>3 DEF IInv, Walk
<1>6. Kept' /\ Backed' /\ Bound' /\ SkipsUnseen'
  BY <1>1, <1>2, <1>3
     DEF IInv, Kept, Backed, RowsBacked, Bound, OneContext, SkipsUnseen
<1>7. Pinned' /\ CertifiedIsPinned'
  BY <1>1, <1>2, <1>3 DEF IInv, Pinned, PinnedRow, CertifiedIsPinned
<1>8. QED
  BY <1>4, <1>5, <1>6, <1>7 DEF IInv

LEMMA StepInv == IInv /\ [Next]_rvars => IInv'
<1> SUFFICES ASSUME IInv, [Next]_rvars PROVE IInv'
  OBVIOUS
<1>1. CASE Replay
  BY <1>1, StartInv, LoadInv, QuietInv, FlagInv, RetainInv, BeginInv, ObserveInv,
     SealInv, AppendInv, FinishInv DEF Replay
<1>2. CASE Stop \/ Tear \/ Alter \/ Restore
  BY <1>2, QuietInv, FlagInv
<1>3. CASE UNCHANGED rvars
  <2>1. UNCHANGED <<pc, source, dir, records, context, selection, subset, reusable,
                    fresh, attempt, spent>>
    BY <1>3 DEF rvars, run, resumed
  <2>2. Rows' = Rows /\ Recorded' = Recorded /\ (Distinct' <=> Distinct)
          /\ Retainable' = Retainable /\ Pending' = Pending
    BY <2>1, RowsSame DEF Retainable, Pending
  <2>3. QED
    BY <2>1, <2>2 DEF IInv, TypeOK, Walk, Kept, Backed, RowsBacked, Bound, OneContext,
                      SkipsUnseen, Pinned, CertifiedIsPinned
<1>4. QED
  BY <1>1, <1>2, <1>3 DEF Next

LEMMA Invariance == Spec => []IInv
BY InitInv, StepInv, PTL DEF Spec

----------------------------------------------------------------------------
\* The state of a replay stays well typed: rows, records and the directory.
THEOREM ReplayTyped == Spec => []TypeOK
BY Invariance, PTL DEF IInv

\* An intact summary speaks for every row of its directory, those retained
\* through any number of continuations included.
THEOREM CertifiedPinned == Spec => []CertifiedIsPinned
BY Invariance, PTL DEF IInv

\* A finished run has one row for each selected root, and no other.
THEOREM DenominatorKept == Spec => []EveryRootOnce
<1>1. IInv => EveryRootOnce
  BY DEF IInv, Walk, EveryRootOnce, Pending
<1>2. QED
  BY <1>1, Invariance, PTL

\* No chain of continuations mixes two contexts in one directory.
THEOREM ContextKept == Spec => []OneContext
<1>1. IInv => OneContext
  BY DEF IInv, Bound
<1>2. QED
  BY <1>1, Invariance, PTL

\* There is a record behind every row, whatever the crash.
THEOREM RowsHaveRecords == Spec => []RowsBacked
<1>1. IInv => RowsBacked
  BY DEF IInv, Backed
<1>2. QED
  BY <1>1, Invariance, PTL

\* A finished continuation has lost no verdict it resumed.
THEOREM NothingLost == Spec => []ResumeLosesNothing
<1>1. IInv => ResumeLosesNothing
  BY DEF IInv, Walk, Kept, Pending, ResumeLosesNothing
<1>2. QED
  BY <1>1, Invariance, PTL

----------------------------------------------------------------------------
(***************************************************************************)
(* A chain of continuations is one run.  Beside IInv it takes that what is *)
(* in hand is what a run makes of a root of its kind.                      *)
(***************************************************************************)
Plausible(r, seen, result) ==
  /\ seen = "none" <=> r \in Skips
  /\ result \in Outcome(Kind(r), TRUE)

Made ==
  /\ \A row \in Rows \cup reusable : Plausible(row.id, row.seen, row.result)
  /\ pc \in Attempting => (attempt.seen = "none" <=> attempt.id \in Skips)
  /\ pc \in {"observed", "sealed"} => attempt.result \in Outcome(Kind(attempt.id), TRUE)
  /\ pc # "never" => selection \in Selections

\* Changed sources add no outcome that untouched ones cannot have.
LEMMA OutcomeIntact ==
  ASSUME NEW r, NEW intact \in BOOLEAN
  PROVE  Outcome(Kind(r), intact) \subseteq Outcome(Kind(r), TRUE)
<1>1. Kind(r) \in {"skip", "simple", "adapter", "unfinished"}
  BY DEF Kind
<1> QED BY <1>1 DEF Outcome

LEMMA MadeStep ==
  ASSUME IInv, Made, [Next]_rvars
  PROVE  Made'
<1>1. CASE Start
  <2>1. Rows' = Rows
    BY <1>1, RowsSame DEF Start
  <2> QED BY <1>1, <2>1 DEF Start, Made, resumed
<1>2. CASE Load
  <2>1. Rows' = {}
    BY <1>2, RowsNone DEF Load, Created
  <2> QED BY <1>2, <2>1 DEF Load, Made, run
<1>3. CASE Refuse \/ Stop \/ Alter \/ Restore \/ UNCHANGED rvars
  <2>1. /\ UNCHANGED <<dir, selection, reusable, attempt>> /\ pc' \in {pc, "stopped"}
        /\ pc' = pc \/ pc # "never"
    BY <1>3 DEF Refuse, Stop, Alter, Restore, rvars, run, resumed
  <2>2. Rows' = Rows
    BY <2>1, RowsSame
  <2> QED BY <2>1, <2>2 DEF Made
<1>4. CASE OpenJournal \/ Tear \/ Finish
  <2>1. /\ UNCHANGED <<selection, reusable, attempt>> /\ pc # "never"
        /\ pc' \in {"picking", "stopped", "finished"}
    BY <1>4 DEF OpenJournal, Tear, Finish, run, resumed
  <2>2. dir \in Dir /\ dir'.journal = dir.journal
    BY <1>4 DEF OpenJournal, Tear, Finish, IInv, TypeOK, Dir
  <2>3. Rows' = Rows
    BY <2>2, RowsSame
  <2> QED BY <2>1, <2>3 DEF Made
<1>5. ASSUME NEW row \in reusable, Retain(row)
      PROVE  Made'
  <2>1. pc = "picking" /\ UNCHANGED <<pc, selection, reusable, attempt>>
    BY <1>5 DEF Retain, run, resumed
  <2>2. Rows' = Rows \cup {row}
    BY <1>5, RowsGrow DEF Retain, IInv, TypeOK
  <2> QED BY <1>5, <2>1, <2>2 DEF Made
<1>6. ASSUME NEW r \in Roots, Begin(r)
      PROVE  Made'
  <2>1. /\ pc = "picking" /\ pc' = "attempting" /\ UNCHANGED <<dir, selection, reusable>>
        /\ attempt'.id = r /\ attempt'.seen = IF r \in Skips THEN "none" ELSE source
    BY <1>6 DEF Begin, run, resumed
  <2>2. Rows' = Rows
    BY <2>1, RowsSame
  <2> QED BY <2>1, <2>2 DEF Made, IInv, TypeOK
<1>7. CASE Observe
  <2>1. /\ pc = "attempting" /\ pc' = "observed" /\ UNCHANGED <<dir, selection, reusable>>
    BY <1>7 DEF Observe, run, resumed
  <2>2. PICK o : /\ o \in Outcome(Kind(attempt.id), attempt.seen \in {"none", source})
                 /\ attempt' = [attempt EXCEPT !.result = o]
    BY <1>7 DEF Observe
  <2>3. o \in Outcome(Kind(attempt.id), TRUE)
    <3> DEFINE intact == attempt.seen \in {"none", source}
    <3>1. intact \in BOOLEAN
      OBVIOUS
    <3> HIDE DEF intact
    <3>2. o \in Outcome(Kind(attempt.id), intact)
      BY <2>2 DEF intact
    <3> QED BY <3>1, <3>2, OutcomeIntact
  <2>4. attempt'.id = attempt.id /\ attempt'.seen = attempt.seen /\ attempt'.result = o
    BY <2>1, <2>2 DEF IInv, TypeOK, Attempt
  <2>5. Rows' = Rows
    BY <2>1, RowsSame
  <2> QED BY <2>1, <2>3, <2>4, <2>5 DEF Made
<1>8. CASE Seal
  <2>1. /\ pc = "observed" /\ pc' = "sealed" /\ UNCHANGED <<dir, selection, reusable>>
        /\ attempt'.id = attempt.id /\ attempt'.seen = attempt.seen
        /\ attempt'.result = attempt.result
    BY <1>8 DEF Seal, run, resumed
  <2>2. Rows' = Rows
    BY <2>1, RowsSame
  <2> QED BY <2>1, <2>2 DEF Made
<1>9. CASE AppendRow
  <2>1. /\ pc = "sealed" /\ pc' = "picking" /\ UNCHANGED <<selection, reusable>>
        /\ attempt \in Row
    BY <1>9 DEF AppendRow, run, resumed, IInv, TypeOK
  <2>2. Rows' = Rows \cup {attempt}
    BY <1>9, <2>1, RowsGrow DEF AppendRow, IInv, TypeOK
  <2>3. Plausible(attempt.id, attempt.seen, attempt.result)
    BY <2>1 DEF Made, Plausible
  <2> QED BY <2>1, <2>2, <2>3 DEF Made
<1> QED
  BY <1>1, <1>2, <1>3, <1>4, <1>5, <1>6, <1>7, <1>8, <1>9 DEF Next, Replay

LEMMA MadeInvariant == Spec => []Made
<1>1. Init => Made
  <2> SUFFICES ASSUME Init PROVE Made
    OBVIOUS
  <2>1. Rows = {}
    BY DEF Init, NoDir, Rows
  <2> QED BY <2>1 DEF Init, Made
<1> QED BY <1>1, MadeStep, Invariance, PTL DEF Spec

\* A run that finishes on the pinned sources certifies what a fresh run would.
LEMMA FinishCertifies ==
  ASSUME IInv, Made, Finish, source = "pinned"
  PROVE  Fresh!Certify(context, selection) /\ context \in Contexts /\ selection \in Selections
<1>1. /\ pc = "picking" /\ Pending = {} /\ dir \in Dir
      /\ dir'.journal = dir.journal /\ dir'.summary = "intact"
  BY DEF Finish, IInv, TypeOK, Dir
<1>2. Rows' = Rows
  BY <1>1, RowsSame
<1>3. dir.summary = "none"
  BY <1>1 DEF IInv, Pinned
<1>4. \A row \in Rows : row \in FreshRow /\ row.context = context
  <2> SUFFICES ASSUME NEW row \in Rows PROVE row \in FreshRow /\ row.context = context
    OBVIOUS
  <2>1. row \in Row
    BY RowsTyped DEF IInv
  <2>2. PinnedRow(row)
    BY <1>1 DEF IInv, Pinned
  <2>3. Plausible(row.id, row.seen, row.result)
    BY DEF Made
  <2>4. row.context = context
    BY <1>1 DEF IInv, Bound, OneContext
  <2>5. row.seen = (IF row.id \in Skips THEN "none" ELSE "pinned")
    BY <2>2, <2>3 DEF PinnedRow, Plausible
  <2> QED BY <2>1, <2>2, <2>3, <2>4, <2>5 DEF PinnedRow, Plausible, FreshRow
<1>5. Recorded = selection
  BY <1>1 DEF IInv, Walk, Pending
<1>6. \A v, w \in Rows : v.id = w.id => v = w
  BY DEF IInv, Walk, Distinct, Rows
<1>7. Fresh!Certify(context, selection)
  BY <1>1, <1>2, <1>3, <1>4, <1>5, <1>6 DEF Fresh!Certify, Recorded
<1>8. context \in Contexts /\ selection \in Selections
  BY <1>1 DEF IInv, TypeOK, Made
<1> QED BY <1>7, <1>8

\* However many continuations, crashes and refused checkpoints it took, a certified
\* evidence directory is one that a single uninterrupted run could have written.
THEOREM ReplayIsFresh == Spec => AsOneRun
<1>1. Init => Fresh!Init
  BY DEF Init, NoDir, Fresh!Init
<1>2. IInv /\ Made /\ [Next]_rvars
        => [Fresh!Next]_(IF dir.summary = "intact" THEN Rows ELSE {})
  <2> SUFFICES ASSUME IInv, Made, [Next]_rvars
               PROVE  [Fresh!Next]_(IF dir.summary = "intact" THEN Rows ELSE {})
    OBVIOUS
  <2> DEFINE Certified == IF dir.summary = "intact" THEN Rows ELSE {}
  <2>1. CASE Start \/ Refuse \/ Stop \/ Alter \/ Restore \/ UNCHANGED rvars
    <3>1. dir' = dir
      BY <2>1 DEF Start, Refuse, Stop, Alter, Restore, rvars
    <3>2. Rows' = Rows
      BY <3>1, RowsSame
    <3> QED BY <3>1, <3>2
  <2>2. CASE Load
    <3>1. dir'.summary = "none"
      BY <2>2 DEF Load, Created
    <3> QED BY <3>1 DEF Fresh!Next, Fresh!Supersede
  <2>3. CASE OpenJournal \/ Tear \/ AppendRow \/ (\E row \in reusable : Retain(row))
              \/ (\E r \in Roots : Begin(r)) \/ Observe \/ Seal
    <3>1. pc \in Running /\ dir \in Dir /\ dir'.summary = dir.summary
      BY <2>3 DEF OpenJournal, Tear, AppendRow, Retain, Begin, Observe, Seal, IInv, TypeOK, Dir
    <3>2. dir.summary = "none" /\ dir'.summary = "none"
      BY <3>1 DEF IInv, Pinned
    <3> QED BY <3>2
  <2>4. CASE Finish
    <3>1. CASE source = "pinned"
      BY <2>4, <3>1, FinishCertifies DEF Fresh!Next
    <3>2. CASE source # "pinned"
      <4>1. dir'.summary = "drifted" /\ dir.summary = "none"
        BY <2>4, <3>2 DEF Finish, IInv, TypeOK, Dir, Pinned
      <4> QED BY <4>1
    <3> QED BY <3>1, <3>2
  <2> QED BY <2>1, <2>2, <2>3, <2>4 DEF Next, Replay
<1> QED BY <1>1, <1>2, Invariance, MadeInvariant, PTL DEF Spec, AsOneRun, Fresh!Spec
============================================================================
