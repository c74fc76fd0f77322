--------------------------- MODULE LeafHost_proofs ---------------------------
(***************************************************************************)
(* Proofs about LeafHost, for any jobs, names and number of crashes.       *)
(*                                                                         *)
(* Exclusion says who may be at work and who holds the lock; Directories   *)
(* and Sources follow a run through its stages, each on top of Exclusion:  *)
(* as long as a run that took the lock is at work, nobody else who takes   *)
(* it changes its directory or the candidate.  Serving adds what makes the *)
(* end of a run the moment it is measured: the candidate is usable still.  *)
(***************************************************************************)
EXTENDS LeafHost, TLAPS

OrderOK == order \in [locked : SUBSET Jobs, name : [Leaves -> Names]]

Exclusion ==
  /\ \A j \in Jobs : j \in order.locked /\ pc[j] \in Working => lock = j
  /\ \A j \in Jobs : pc[j] = "waiting" => j \in order.locked
  /\ \A k \in survivors : lock = k /\ pc[k] \in Ended

HostInv == HostTypeOK /\ OrderOK /\ Exclusion

----------------------------------------------------------------------------
LEMMA InitInv == HostInit => HostInv
  BY HostAssumption
     DEF HostInit, HostInv, HostTypeOK, OrderOK, Exclusion, Working, Ended, Jobs, None

\* What a step can be.
LEMMA StepCases ==
  ASSUME HostNext
  PROVE  \/ \E j \in Jobs : Start(j) \/ Acquire(j) \/ GiveUp(j) \/ Kill(j) \/ LetGo(j)
         \/ \E l \in Leaves : \/ Enter(l) \/ Make(l) \/ Clone(l) \/ Identify(l)
                              \/ Pin(l) \/ State(l) \/ GateOpens(l) \/ Lane(l)
                              \/ Refuse(l) \/ \E left \in BOOLEAN : Finish(l, left)
         \/ \E r \in Rebuilds : Checkout(r) \/ Compile(r) \/ WriteReceipt(r) \/ RebuildFails(r)
         \/ UNCHANGED hostvars
  BY DEF HostNext, Job, Run, Rebuild, HostDone

\* The end of a job is the end of nobody else, and leaves the lock to no one but
\* those it left behind.
LEMMA EndsKeeps ==
  ASSUME HostInv, NEW j \in Jobs, pc[j] \notin Ended, NEW at \in Ended, NEW left \in BOOLEAN,
         Ends(j, at, left), UNCHANGED order
  PROVE  /\ Exclusion'
         /\ pc' \in [Jobs -> Working \cup Ended \cup {"submitted", "waiting"}]
         /\ lock' \in Jobs \cup {None} /\ survivors' \subseteq Jobs
<1> USE DEF HostInv, HostTypeOK, Exclusion, Ends, Goes
<1>1. /\ pc' \in [Jobs -> Working \cup Ended \cup {"submitted", "waiting"}]
      /\ lock' \in Jobs \cup {None} /\ survivors' \subseteq Jobs
  OBVIOUS
<1>2. \A k \in Jobs : k # j => pc'[k] = pc[k]
  OBVIOUS
<1>3. pc'[j] = at
  OBVIOUS
<1>4. \A k \in Jobs : k \in order.locked /\ pc'[k] \in Working => lock' = k
  BY <1>2, <1>3 DEF Working, Ended
<1>5. \A k \in Jobs : pc'[k] = "waiting" => k \in order.locked
  BY <1>2, <1>3 DEF Ended
<1>6. \A k \in survivors' : lock' = k /\ pc'[k] \in Ended
  BY <1>2, <1>3 DEF Working, Ended
<1> QED BY <1>1, <1>4, <1>5, <1>6

\* A job at work goes on working.
LEMMA WorkKeeps ==
  ASSUME HostInv, NEW j \in Jobs, pc[j] \in Working, NEW at \in Working, Goes(j, at),
         UNCHANGED <<order, lock, survivors>>
  PROVE  /\ Exclusion'
         /\ pc' \in [Jobs -> Working \cup Ended \cup {"submitted", "waiting"}]
<1> USE DEF HostInv, HostTypeOK, Exclusion, Goes
<1>1. pc' \in [Jobs -> Working \cup Ended \cup {"submitted", "waiting"}]
  OBVIOUS
<1>2. \A k \in Jobs : k # j => pc'[k] = pc[k]
  OBVIOUS
<1>3. pc'[j] = at
  OBVIOUS
<1> QED BY <1>1, <1>2, <1>3 DEF Working, Ended

LEMMA StepInv ==
  ASSUME HostInv, HostNext
  PROVE  HostInv'
<1> USE DEF HostInv, HostTypeOK, OrderOK, Exclusion, Working, Ended, Goes,
            candidate, verdict
<1>1. ASSUME NEW j \in Jobs, Start(j) \/ Acquire(j) \/ GiveUp(j)
      PROVE  HostInv'
  <2>1. CASE Start(j)
    BY <2>1 DEF Start
  <2>2. CASE Acquire(j)
    BY <2>2, HostAssumption DEF Acquire, Jobs, None
  <2>3. CASE GiveUp(j)
    BY <2>3 DEF GiveUp
  <2> QED BY <1>1, <2>1, <2>2, <2>3
<1>2. ASSUME NEW j \in Jobs, Kill(j)
      PROVE  HostInv'
  <2>1. PICK left \in BOOLEAN : Ends(j, "failed", left)
    BY <1>2 DEF Kill
  <2>2. /\ pc[j] \notin Ended /\ UNCHANGED <<order, dirs, sh, bin, commits>>
        /\ crashes' \in 0..Crashes /\ receipt' \in [sh : Nat, bin : Nat]
    BY <1>2, HostAssumption DEF Kill, CutShort
  <2> QED BY <2>1, <2>2, EndsKeeps
<1>3. ASSUME NEW j \in Jobs, LetGo(j)
      PROVE  HostInv'
  BY <1>3 DEF LetGo
<1>4. ASSUME NEW l \in Leaves, Enter(l) \/ Make(l) \/ Clone(l) \/ Identify(l)
                               \/ Pin(l) \/ State(l) \/ GateOpens(l) \/ Lane(l)
      PROVE  HostInv'
  <2>1. /\ pc[l] \in Working /\ UNCHANGED <<order, lock, survivors, candidate, crashes>>
        /\ \E at \in Working : Goes(l, at)
    BY <1>4 DEF Enter, Make, Clone, Identify, Pin, State, GateOpens, Lane
  <2>2. dirs' \in [Names -> [exists : BOOLEAN, roots : Leaves \cup {None},
                             clone : Leaves \cup {None}]]
    <3>1. CASE Make(l)
      BY <3>1 DEF Make
    <3>2. CASE Clone(l)
      BY <3>2 DEF Clone
    <3>3. CASE UNCHANGED dirs
      BY <3>3
    <3> QED BY <1>4, <3>1, <3>2, <3>3 DEF Enter, Identify, Pin, State, GateOpens, Lane
  <2> QED BY <2>1, <2>2, WorkKeeps DEF Jobs
<1>5. ASSUME NEW l \in Leaves, Refuse(l) \/ (\E left \in BOOLEAN : Finish(l, left))
      PROVE  HostInv'
  <2>1. PICK at \in Ended, left \in BOOLEAN : Ends(l, at, left)
    BY <1>5 DEF Refuse, Finish
  <2>2. pc[l] \notin Ended /\ UNCHANGED <<order, dirs, candidate, crashes>>
    BY <1>5 DEF Refuse, Finish
  <2> QED BY <2>1, <2>2, EndsKeeps DEF Jobs
<1>6. ASSUME NEW r \in Rebuilds, Checkout(r) \/ Compile(r)
      PROVE  HostInv'
  <2>1. /\ pc[r] \in Working /\ UNCHANGED <<order, lock, survivors, dirs, receipt, crashes>>
        /\ \E at \in Working : Goes(r, at)
    BY <1>6 DEF Checkout, Compile
  <2>2. {sh, bin, commits}' \subseteq Nat
    BY <1>6 DEF Checkout, Compile
  <2> QED BY <2>1, <2>2, WorkKeeps DEF Jobs
<1>7. ASSUME NEW r \in Rebuilds, WriteReceipt(r) \/ RebuildFails(r)
      PROVE  HostInv'
  <2>1. PICK at \in Ended : Ends(r, at, FALSE)
    <3>1. CASE WriteReceipt(r)
      BY <3>1 DEF WriteReceipt
    <3>2. CASE RebuildFails(r)
      BY <3>2 DEF RebuildFails
    <3> QED BY <1>7, <3>1, <3>2
  <2>2. pc[r] \notin Ended /\ UNCHANGED <<order, dirs, sh, bin, commits, crashes>>
    BY <1>7 DEF WriteReceipt, RebuildFails
  <2>3. receipt' \in [sh : Nat, bin : Nat]
    <3>1. CASE WriteReceipt(r)
      BY <3>1 DEF WriteReceipt
    <3>2. CASE RebuildFails(r)
      BY <3>2 DEF RebuildFails, CutShort
    <3> QED BY <1>7, <3>1, <3>2
  <2>4. r \in Jobs /\ FALSE \in BOOLEAN
    BY DEF Jobs
  <2>5. /\ Exclusion'
        /\ pc' \in [Jobs -> Working \cup Ended \cup {"submitted", "waiting"}]
        /\ lock' \in Jobs \cup {None} /\ survivors' \subseteq Jobs
    BY <2>1, <2>2, <2>4, EndsKeeps
  <2> QED BY <2>2, <2>3, <2>5
<1>8. CASE UNCHANGED hostvars
  BY <1>8 DEF hostvars
<1> QED BY StepCases, <1>1, <1>2, <1>3, <1>4, <1>5, <1>6, <1>7, <1>8

LEMMA HostInvariant == HostSpec => []HostInv
<1>1. HostInv /\ [HostNext]_hostvars => HostInv'
  <2> SUFFICES ASSUME HostInv, [HostNext]_hostvars PROVE HostInv'
    OBVIOUS
  <2>1. CASE HostNext
    BY <2>1, StepInv
  <2>2. CASE UNCHANGED hostvars
    BY <2>2 DEF hostvars, candidate, verdict, HostInv, HostTypeOK, OrderOK, Exclusion
  <2> QED BY <2>1, <2>2
<1> QED BY InitInv, <1>1, PTL DEF HostSpec

----------------------------------------------------------------------------
(***************************************************************************)
(* Directories.                                                            *)
(***************************************************************************)
Made == {"cloning", "identifying", "pinning", "stating", "checking", "interpreted",
         "compiled", "finishing"}
Dir(l) == dirs[order.name[l]]

\* Everybody who has l's name takes the lock.
Queued(l) == \A k \in Leaves : order.name[k] = order.name[l] => k \in order.locked

Directories ==
  /\ \A n \in Names : ~dirs[n].exists => dirs[n].clone = None
  /\ \A l \in Leaves :
       /\ pc[l] \in Made => Dir(l).exists
       /\ Queued(l) =>
            /\ pc[l] = "making" => ~Dir(l).exists
            /\ pc[l] \in Made => Dir(l).roots = l
            /\ pc[l] \in Made \ {"cloning"} => Dir(l).clone = l
            /\ ran[l] # None => Dir(l).exists /\ ran[l] = l /\ Dir(l).clone = l

(***************************************************************************)
(* The candidate, where everybody takes the lock.                          *)
(***************************************************************************)
Measuring == {"checking", "interpreted", "compiled", "finishing"}
Early == {"submitted", "waiting", "entering", "making", "cloning", "identifying"}

Sourced(l) ==
  /\ pc[l] \in {"pinning", "stating"} \cup Measuring => bin = sh
  /\ pc[l] \in Measuring => named[l] = [sh |-> sh, bin |-> bin]
  /\ pc[l] \in Early \cup {"pinning", "stating", "checking", "interpreted"} =>
       measured[l] = {}
  /\ pc[l] \in {"compiled", "finishing"} => measured[l] = {[sh |-> sh, bin |-> bin]}
  /\ pc[l] = "done" => measured[l] = {named[l]} /\ named[l].bin = named[l].sh

ReceiptTrue ==
  /\ sh # 0 /\ bin # 0 /\ (receipt.bin = receipt.sh \/ receipt.bin = 0)
  /\ \A r \in Rebuilds : pc[r] = "receipting" => bin = sh

Sources ==
  /\ named \in [Leaves -> [sh : Nat, bin : Nat]] /\ DOMAIN measured = Leaves
  /\ AllLocked => ReceiptTrue /\ \A l \in Leaves : Sourced(l)

----------------------------------------------------------------------------
LEMMA OrderKept == HostNext => UNCHANGED order
  BY StepCases
     DEF Start, Acquire, GiveUp, Kill, LetGo, Enter, Make, Clone, Identify, Pin, State,
         GateOpens, Lane, Refuse, Finish, Checkout, Compile, WriteReceipt, RebuildFails,
         hostvars

\* Of the runs that have one name and take the lock, one is at work.
LEMMA AloneInside ==
  ASSUME HostInv, NEW k \in Leaves, NEW l \in Leaves, Queued(k),
         order.name[k] = order.name[l], pc[k] \in Working, pc[l] \in Working
  PROVE  k = l
  BY DEF HostInv, Exclusion, Queued, Jobs

LEMMA DirectoriesStep ==
  ASSUME HostInv, Directories, HostNext
  PROVE  Directories'
<1>1. UNCHANGED order
  BY OrderKept
<1>2. ASSUME UNCHANGED <<dirs, ran>>,
             \A l \in Leaves : \/ pc'[l] = pc[l]
                               \/ pc'[l] \notin Made \cup {"making"}
                               \/ {pc[l], pc'[l]} \subseteq Made \ {"cloning"}
      PROVE  Directories'
  <2>1. \A l \in Leaves : Queued(l)' <=> Queued(l)
    BY <1>1 DEF Queued
  <2>2. \A l \in Leaves : /\ pc'[l] = "making" => pc[l] = "making"
                          /\ pc'[l] \in Made => pc[l] \in Made
                          /\ pc'[l] \in Made \ {"cloning"} => pc[l] \in Made \ {"cloning"}
    BY <1>2 DEF Made
  <2>3. \A l \in Leaves : Dir(l)' = Dir(l) /\ ran'[l] = ran[l]
    BY <1>1, <1>2 DEF Dir
  <2> QED BY <1>2, <2>1, <2>2, <2>3 DEF Directories
<1>3. ASSUME NEW j \in Jobs, Start(j) \/ Acquire(j) \/ GiveUp(j) \/ Kill(j) \/ LetGo(j)
      PROVE  Directories'
  <2>1. UNCHANGED <<dirs, ran>>
    BY <1>3 DEF Start, Acquire, GiveUp, Kill, LetGo, verdict
  <2>2. \A l \in Leaves : pc'[l] = pc[l] \/ pc'[l] \notin Made \cup {"making"}
    BY <1>3 DEF Start, Acquire, GiveUp, Kill, LetGo, Ends, Goes, Made, HostInv,
                HostTypeOK, Jobs
  <2> QED BY <1>2, <2>1, <2>2
<1>4. ASSUME NEW r \in Rebuilds,
             Checkout(r) \/ Compile(r) \/ WriteReceipt(r) \/ RebuildFails(r)
      PROVE  Directories'
  <2>1. UNCHANGED <<dirs, ran>>
    BY <1>4 DEF Checkout, Compile, WriteReceipt, RebuildFails, verdict
  <2>2. \A l \in Leaves : pc'[l] = pc[l] \/ pc'[l] \notin Made \cup {"making"}
    BY <1>4 DEF Checkout, Compile, WriteReceipt, RebuildFails, Ends, Goes, Made,
                HostInv, HostTypeOK, Jobs
  <2> QED BY <1>2, <2>1, <2>2
<1>5. ASSUME NEW l \in Leaves,
             \/ Identify(l) \/ Pin(l) \/ State(l) \/ Lane(l) \/ Refuse(l)
             \/ \E left \in BOOLEAN : Finish(l, left)
      PROVE  Directories'
  <2>1. UNCHANGED <<dirs, ran>>
    BY <1>5 DEF Identify, Pin, State, Lane, Refuse, Finish, verdict
  <2>2. \A k \in Leaves : k # l => pc'[k] = pc[k]
    BY <1>5 DEF Identify, Pin, State, Lane, Refuse, Finish, Ends, Goes,
                HostInv, HostTypeOK, Jobs
  <2>3. \/ pc'[l] \notin Made \cup {"making"}
        \/ {pc[l], pc'[l]} \subseteq Made \ {"cloning"}
    BY <1>5 DEF Identify, Pin, State, Lane, Refuse, Finish, Ends, Goes, Made,
                HostInv, HostTypeOK, Jobs
  <2> QED BY <1>2, <2>1, <2>2, <2>3
<1>6. ASSUME NEW l \in Leaves, Enter(l)
      PROVE  Directories'
  <2>1. /\ UNCHANGED <<dirs, ran>> /\ ~Dir(l).exists
        /\ \A k \in Leaves : k # l => pc'[k] = pc[k]
        /\ pc'[l] = "making"
    BY <1>6 DEF Enter, Goes, Dir, verdict, HostInv, HostTypeOK, Jobs
  <2> QED BY <1>1, <2>1 DEF Directories, Dir, Queued, Made
<1>7. ASSUME NEW l \in Leaves, Make(l)
      PROVE  Directories'
  <2>1. /\ pc[l] = "making" /\ UNCHANGED ran
        /\ \A k \in Leaves : k # l => pc'[k] = pc[k]
        /\ pc'[l] = "cloning"
    BY <1>7 DEF Make, Goes, verdict, HostInv, HostTypeOK, Jobs
  <2>2. order.name[l] \in Names
    BY DEF HostInv, OrderOK
  <2>3. /\ \A n \in Names : n # order.name[l] => dirs'[n] = dirs[n]
        /\ dirs'[order.name[l]] = [exists |-> TRUE, roots |-> l, clone |-> Dir(l).clone]
    BY <1>7, <2>2 DEF Make, HostInv, HostTypeOK, Dir
  <2>4. \A n \in Names : ~dirs'[n].exists => dirs'[n].clone = None
    BY <2>2, <2>3 DEF Directories
  <2>5. ASSUME NEW k \in Leaves
        PROVE  /\ pc'[k] \in Made => dirs'[order.name[k]].exists
               /\ Queued(k) =>
                    /\ pc'[k] = "making" => ~dirs'[order.name[k]].exists
                    /\ pc'[k] \in Made => dirs'[order.name[k]].roots = k
                    /\ pc'[k] \in Made \ {"cloning"} => dirs'[order.name[k]].clone = k
                    /\ ran[k] # None => /\ dirs'[order.name[k]].exists /\ ran[k] = k
                                        /\ dirs'[order.name[k]].clone = k
    <3>1. order.name[k] \in Names
      BY DEF HostInv, OrderOK
    <3>2. CASE order.name[k] # order.name[l]
      BY <2>1, <2>3, <3>1, <3>2 DEF Directories, Dir
    <3>3. CASE order.name[k] = order.name[l] /\ ~Queued(k)
      BY <2>3, <3>3
    <3>4. CASE order.name[k] = order.name[l] /\ Queued(k)
      <4>1. ~Dir(l).exists
        BY <2>1, <3>4 DEF Directories, Queued
      <4>2. ran[k] = None
        BY <4>1, <3>4 DEF Directories, Dir
      <4>3. k # l => pc[k] \notin Working
        BY <2>1, <3>4, AloneInside DEF Working
      <4> QED BY <2>1, <2>3, <3>4, <4>2, <4>3 DEF Working, Made
    <3> QED BY <3>2, <3>3, <3>4
  <2> QED BY <1>1, <2>1, <2>4, <2>5 DEF Directories, Dir, Queued
<1>8. ASSUME NEW l \in Leaves, Clone(l)
      PROVE  Directories'
  <2>1. /\ pc[l] = "cloning" /\ Dir(l).clone = None /\ UNCHANGED ran
        /\ \A k \in Leaves : k # l => pc'[k] = pc[k]
        /\ pc'[l] = "identifying"
    BY <1>8 DEF Clone, Dir, Goes, verdict, HostInv, HostTypeOK, Jobs
  <2>2. order.name[l] \in Names
    BY DEF HostInv, OrderOK
  <2>3. /\ \A n \in Names : n # order.name[l] => dirs'[n] = dirs[n]
        /\ dirs'[order.name[l]] = [exists |-> Dir(l).exists, roots |-> Dir(l).roots,
                                   clone |-> l]
    BY <1>8, <2>2 DEF Clone, HostInv, HostTypeOK, Dir
  <2>4. Dir(l).exists
    BY <2>1 DEF Directories, Made
  <2>5. \A n \in Names : ~dirs'[n].exists => dirs'[n].clone = None
    BY <2>2, <2>3, <2>4 DEF Directories
  <2>6. ASSUME NEW k \in Leaves
        PROVE  /\ pc'[k] \in Made => dirs'[order.name[k]].exists
               /\ Queued(k) =>
                    /\ pc'[k] = "making" => ~dirs'[order.name[k]].exists
                    /\ pc'[k] \in Made => dirs'[order.name[k]].roots = k
                    /\ pc'[k] \in Made \ {"cloning"} => dirs'[order.name[k]].clone = k
                    /\ ran[k] # None => /\ dirs'[order.name[k]].exists /\ ran[k] = k
                                        /\ dirs'[order.name[k]].clone = k
    <3>1. order.name[k] \in Names
      BY DEF HostInv, OrderOK
    <3>2. CASE order.name[k] # order.name[l]
      BY <2>1, <2>3, <3>1, <3>2 DEF Directories, Dir
    <3>3. CASE order.name[k] = order.name[l] /\ ~Queued(k)
      BY <2>3, <2>4, <3>3
    <3>4. CASE order.name[k] = order.name[l] /\ Queued(k)
      <4>1. ran[k] = None
        BY <2>1, <3>4, HostAssumption DEF Directories, Dir, None
      <4>2. k # l => pc[k] \notin Working
        BY <2>1, <3>4, AloneInside DEF Working
      <4>3. Dir(l).roots = l \/ k # l
        BY <2>1, <3>4 DEF Directories, Made
      <4> QED BY <2>1, <2>3, <2>4, <3>4, <4>1, <4>2, <4>3 DEF Working, Made
    <3> QED BY <3>2, <3>3, <3>4
  <2> QED BY <1>1, <2>1, <2>5, <2>6 DEF Directories, Dir, Queued
<1>9. ASSUME NEW l \in Leaves, GateOpens(l)
      PROVE  Directories'
  <2>1. /\ pc[l] = "checking" /\ pc'[l] = "interpreted"
        /\ \A k \in Leaves : k # l => pc'[k] = pc[k] /\ ran'[k] = ran[k]
        /\ ran'[l] \in {ran[l], Dir(l).roots} /\ UNCHANGED dirs
    BY <1>9 DEF GateOpens, Dir, Goes, HostInv, HostTypeOK, Jobs
  <2>2. Queued(l) => Dir(l).exists /\ Dir(l).roots = l /\ Dir(l).clone = l
    BY <2>1 DEF Directories, Made
  <2> QED BY <1>1, <2>1, <2>2 DEF Directories, Dir, Queued, Made
<1>10. CASE UNCHANGED hostvars
  BY <1>10 DEF hostvars, verdict, Directories, Dir, Queued
<1> QED BY StepCases, <1>3, <1>4, <1>5, <1>6, <1>7, <1>8, <1>9, <1>10

LEMMA DirectoriesInvariant == HostSpec => []Directories
<1>1. HostInit => Directories
  <2> SUFFICES ASSUME HostInit PROVE Directories
    OBVIOUS
  <2>1. \A l \in Leaves : pc[l] = "submitted" /\ ran[l] = None
    BY DEF HostInit, Jobs
  <2>2. \A n \in Names : dirs[n].clone = None
    BY DEF HostInit
  <2> QED BY <2>1, <2>2 DEF Directories, Made
<1>2. HostInv /\ Directories /\ [HostNext]_hostvars => Directories'
  <2>1. CASE UNCHANGED hostvars
    BY <2>1 DEF hostvars, verdict, Directories, Dir, Queued
  <2> QED BY <2>1, DirectoriesStep
<1> QED BY <1>1, <1>2, HostInvariant, PTL DEF HostSpec

\* Runs that queue for the lock never share a directory, whatever names they are
\* given and whoever is killed: behind a run's measurement are its own roots.
THEOREM OwnDirectoryHolds == HostSpec => []OwnDirectory
<1>1. Directories => OwnDirectory
  BY DEF Directories, OwnDirectory, Queued, Dir
<1> QED BY <1>1, DirectoriesInvariant, PTL

----------------------------------------------------------------------------
LEMMA AloneAtWork ==
  ASSUME HostInv, AllLocked, NEW j \in Jobs, pc[j] \in Working
  PROVE  \A k \in Jobs : k # j => pc[k] \notin Working
  BY DEF HostInv, Exclusion, AllLocked

\* A step of a run concerns that run, as long as the candidate stays as it is.
LEMMA RunSources ==
  ASSUME HostInv, ReceiptTrue, \A k \in Leaves : Sourced(k),
         NEW l \in Leaves, UNCHANGED <<sh, bin, receipt>>,
         \A j \in Jobs : j # l => pc'[j] = pc[j],
         \A k \in Leaves : k # l => named'[k] = named[k] /\ measured'[k] = measured[k],
         Sourced(l)'
  PROVE  ReceiptTrue' /\ \A k \in Leaves : Sourced(k)'
<1>1. ReceiptTrue'
  BY HostAssumption DEF ReceiptTrue, Jobs
<1>2. ASSUME NEW k \in Leaves, k # l PROVE Sourced(k)'
  BY <1>2 DEF Sourced, Jobs
<1> QED BY <1>1, <1>2

LEMMA SourcesStep ==
  ASSUME HostInv, Sources, HostNext
  PROVE  Sources'
<1>1. UNCHANGED order
  BY OrderKept
<1>2. named' \in [Leaves -> [sh : Nat, bin : Nat]] /\ DOMAIN measured' = Leaves
  <2>1. CASE UNCHANGED <<named, measured>>
    BY <2>1 DEF Sources
  <2>2. ASSUME NEW l \in Leaves, State(l) PROVE UNCHANGED measured
               /\ named' \in [Leaves -> [sh : Nat, bin : Nat]]
    BY <2>2 DEF State, Sources, HostInv, HostTypeOK
  <2>3. ASSUME NEW l \in Leaves, Lane(l) PROVE UNCHANGED named /\ DOMAIN measured' = Leaves
    BY <2>3 DEF Lane, Sources
  <2>4. \/ UNCHANGED <<named, measured>>
        \/ \E l \in Leaves : State(l) \/ Lane(l)
    BY StepCases
       DEF Start, Acquire, GiveUp, Kill, LetGo, Enter, Make, Clone, Identify, Pin,
           GateOpens, Refuse, Finish, Checkout, Compile, WriteReceipt, RebuildFails,
           hostvars, verdict
  <2> QED BY <2>1, <2>2, <2>3, <2>4 DEF Sources
<1> SUFFICES ASSUME AllLocked PROVE ReceiptTrue' /\ \A l \in Leaves : Sourced(l)'
  BY <1>1, <1>2 DEF Sources, AllLocked
<1>3. ReceiptTrue /\ \A l \in Leaves : Sourced(l)
  BY DEF Sources
<1>4. ASSUME UNCHANGED <<sh, bin, named, measured>>,
             receipt' = receipt \/ receipt'.bin = 0,
             \A r \in Rebuilds : pc'[r] = pc[r] \/ pc'[r] # "receipting",
             \A l \in Leaves : \/ pc'[l] = pc[l] \/ pc'[l] = "failed"
                               \/ {pc[l], pc'[l]} \subseteq Early
      PROVE  ReceiptTrue' /\ \A l \in Leaves : Sourced(l)'
  <2>1. ReceiptTrue'
    BY <1>3, <1>4 DEF ReceiptTrue
  <2>2. ASSUME NEW l \in Leaves PROVE Sourced(l)'
    BY <1>3, <1>4 DEF Sourced, Early, Measuring
  <2> QED BY <2>1, <2>2
<1>5. ASSUME NEW j \in Jobs, Start(j) \/ Acquire(j) \/ GiveUp(j) \/ Kill(j) \/ LetGo(j)
      PROVE  ReceiptTrue' /\ \A l \in Leaves : Sourced(l)'
  <2>1. UNCHANGED <<sh, bin, named, measured>> /\ (receipt' = receipt \/ receipt'.bin = 0)
    BY <1>5 DEF Start, Acquire, GiveUp, Kill, LetGo, CutShort, candidate, verdict
  <2>2. \A k \in Jobs : k # j => pc'[k] = pc[k]
    BY <1>5 DEF Start, Acquire, GiveUp, Kill, LetGo, Ends, Goes, HostInv, HostTypeOK
  <2>3. /\ pc'[j] = pc[j] \/ pc'[j] # "receipting"
        /\ j \in Leaves =>
             pc'[j] = pc[j] \/ pc'[j] = "failed" \/ {pc[j], pc'[j]} \subseteq Early
    BY <1>5, HostAssumption
       DEF Start, Acquire, GiveUp, Kill, LetGo, Ends, Goes, Early, HostInv, HostTypeOK
  <2> QED BY <1>4, <2>1, <2>2, <2>3 DEF Jobs
<1>6. ASSUME NEW l \in Leaves, Enter(l) \/ Make(l) \/ Clone(l) \/ Refuse(l)
      PROVE  ReceiptTrue' /\ \A k \in Leaves : Sourced(k)'
  <2>1. UNCHANGED <<sh, bin, named, measured, receipt>>
    BY <1>6 DEF Enter, Make, Clone, Refuse, candidate, verdict
  <2>2. \A k \in Jobs : k # l => pc'[k] = pc[k]
    BY <1>6 DEF Enter, Make, Clone, Refuse, Ends, Goes, HostInv, HostTypeOK
  <2>3. pc'[l] = "failed" \/ {pc[l], pc'[l]} \subseteq Early
    BY <1>6 DEF Enter, Make, Clone, Refuse, Ends, Goes, Early, HostInv, HostTypeOK, Jobs
  <2> QED BY <1>4, <2>1, <2>2, <2>3, HostAssumption DEF Jobs
<1>7. ASSUME NEW l \in Leaves, \/ Identify(l) \/ Pin(l) \/ State(l) \/ GateOpens(l)
                               \/ Lane(l) \/ \E left \in BOOLEAN : Finish(l, left)
      PROVE  ReceiptTrue' /\ \A k \in Leaves : Sourced(k)'
  <2>1. UNCHANGED <<sh, bin, receipt>>
    BY <1>7 DEF Identify, Pin, State, GateOpens, Lane, Finish, candidate
  <2>3. \A k \in Jobs : k # l => pc'[k] = pc[k]
    BY <1>7 DEF Identify, Pin, State, GateOpens, Lane, Finish, Ends, Goes, HostInv,
                HostTypeOK
  <2>4. \A k \in Leaves : k # l => named'[k] = named[k] /\ measured'[k] = measured[k]
    BY <1>7 DEF Identify, Pin, State, GateOpens, Lane, Finish, verdict, Sources
  <2>2. Sourced(l)'
    <3>1. CASE Identify(l)
      BY <1>3, <3>1 DEF Identify, Identified, Goes, candidate, verdict, Sourced, Early,
         Measuring, ReceiptTrue, HostInv, HostTypeOK, Jobs
    <3>2. CASE Pin(l)
      BY <1>3, <3>2 DEF Pin, Goes, candidate, Sourced, Early, Measuring, HostInv,
         HostTypeOK, Jobs
    <3>3. CASE State(l)
      BY <1>3, <3>3 DEF State, Goes, candidate, Sourced, Early, Measuring, HostInv,
         HostTypeOK, Jobs, Sources
    <3>4. CASE GateOpens(l)
      BY <1>3, <3>4 DEF GateOpens, Goes, candidate, Sourced, Early, Measuring, HostInv,
         HostTypeOK, Jobs
    <3>5. CASE Lane(l)
      BY <1>3, <3>5 DEF Lane, Goes, candidate, Sourced, Early, Measuring, HostInv,
         HostTypeOK, Jobs, Sources
    <3>6. CASE \E left \in BOOLEAN : Finish(l, left)
      BY <1>3, <3>6 DEF Finish, Ends, Goes, candidate, verdict, Sourced, Early,
         Measuring, HostInv, HostTypeOK, Jobs
    <3> QED BY <1>7, <3>1, <3>2, <3>3, <3>4, <3>5, <3>6
  <2> QED BY <1>3, <2>1, <2>2, <2>3, <2>4, RunSources DEF Jobs
<1>8. ASSUME NEW r \in Rebuilds, RebuildFails(r)
      PROVE  ReceiptTrue' /\ \A l \in Leaves : Sourced(l)'
  <2>1. UNCHANGED <<sh, bin, named, measured>> /\ (receipt' = receipt \/ receipt'.bin = 0)
    BY <1>8 DEF RebuildFails, CutShort, verdict
  <2>2. (\A k \in Jobs : k # r => pc'[k] = pc[k]) /\ pc'[r] = "failed"
    BY <1>8 DEF RebuildFails, Ends, Goes, HostInv, HostTypeOK, Jobs
  <2> QED BY <1>4, <2>1, <2>2 DEF Jobs
<1>9. ASSUME NEW r \in Rebuilds, Checkout(r) \/ Compile(r) \/ WriteReceipt(r)
      PROVE  ReceiptTrue' /\ \A l \in Leaves : Sourced(l)'
  <2>1. pc[r] \in Working /\ r \in Jobs
    BY <1>9 DEF Checkout, Compile, WriteReceipt, Working, Jobs
  <2>2. \A k \in Jobs : k # r => pc[k] \notin Working
    BY <2>1, AloneAtWork
  <2>3. /\ \A k \in Jobs : k # r => pc'[k] = pc[k]
        /\ UNCHANGED <<named, measured>>
    BY <1>9 DEF Checkout, Compile, WriteReceipt, Ends, Goes, verdict, HostInv, HostTypeOK
  <2>4. ASSUME NEW l \in Leaves PROVE Sourced(l)'
    <3>1. l # r /\ pc'[l] = pc[l] /\ pc[l] \notin Working
      BY <2>2, <2>3, HostAssumption DEF Jobs
    <3> QED BY <1>3, <2>3, <3>1 DEF Sourced, Working, Measuring, Early
  <2>5. ReceiptTrue'
    <3>1. \A k \in Rebuilds : k # r => pc'[k] # "receipting"
      BY <2>2, <2>3 DEF Working, Jobs
    <3>2. CASE Checkout(r)
      BY <1>3, <2>1, <3>1, <3>2 DEF Checkout, Goes, ReceiptTrue, HostInv, HostTypeOK
    <3>3. CASE Compile(r)
      BY <1>3, <2>1, <3>1, <3>3 DEF Compile, Goes, ReceiptTrue, HostInv, HostTypeOK
    <3>4. CASE WriteReceipt(r)
      BY <1>3, <2>1, <3>1, <3>4 DEF WriteReceipt, Ends, Goes, ReceiptTrue, HostInv,
         HostTypeOK
    <3> QED BY <1>9, <3>2, <3>3, <3>4
  <2> QED BY <2>4, <2>5
<1>10. CASE UNCHANGED hostvars
  BY <1>3, <1>10 DEF hostvars, candidate, verdict, ReceiptTrue, Sourced
<1> QED BY StepCases, <1>5, <1>6, <1>7, <1>8, <1>9, <1>10

LEMMA SourcesInvariant == HostSpec => []Sources
<1>1. HostInit => Sources
  <2> SUFFICES ASSUME HostInit PROVE Sources
    OBVIOUS
  <2>1. \A j \in Jobs : pc[j] = "submitted"
    BY DEF HostInit
  <2>2. \A l \in Leaves : measured[l] = {}
    BY DEF HostInit
  <2>3. sh = 1 /\ bin = 1 /\ receipt.bin = receipt.sh
    BY DEF HostInit
  <2>4. named \in [Leaves -> [sh : Nat, bin : Nat]] /\ DOMAIN measured = Leaves
    BY DEF HostInit, NoReceipt
  <2> QED BY <2>1, <2>2, <2>3, <2>4
          DEF Sources, Sourced, ReceiptTrue, Measuring, Early, Jobs
<1>2. HostInv /\ Sources /\ [HostNext]_hostvars => Sources'
  <2>1. CASE UNCHANGED hostvars
    BY <2>1 DEF hostvars, candidate, verdict, Sources, Sourced, ReceiptTrue, AllLocked
  <2> QED BY <2>1, SourcesStep
<1> QED BY <1>1, <1>2, HostInvariant, PTL DEF HostSpec

\* Where everybody takes the lock, what a run's status names is what its lanes
\* ran and the source that was built over, for any history of rebuilds that
\* failed, were killed or went back to an earlier commit.
THEOREM VerdictNamesSourceHolds == HostSpec => []VerdictNamesSource
<1>1. Sources => VerdictNamesSource
  BY DEF Sources, Sourced, VerdictNamesSource
<1> QED BY <1>1, SourcesInvariant, PTL

----------------------------------------------------------------------------
\* Whatever the jobs do, pc, lock, directories and candidate stay well formed.
THEOREM HostTyped == HostSpec => []HostTypeOK
  BY HostInvariant, PTL DEF HostInv

\* One coordinator per host, for any number of runs, rebuilds and crashes: flock's
\* descriptor, inherited, is enough.
THEOREM OneCoordinatorHolds == HostSpec => []OneCoordinator
<1>1. HostInv => OneCoordinator
  BY DEF HostInv, Exclusion, OneCoordinator
<1> QED BY <1>1, HostInvariant, PTL

----------------------------------------------------------------------------
(***************************************************************************)
(* The host implements SerialHost.                                         *)
(***************************************************************************)
Opened == {"interpreted", "compiled", "finishing"}

\* While a run is past its identity check nobody touches the candidate, and once
\* the gate is open it runs its own roots.
Serving ==
  /\ DOMAIN ran = Leaves
  /\ AllLocked => \A l \in Leaves :
       /\ pc[l] \in {"pinning", "stating"} \cup Measuring => Identified
       /\ pc[l] \in Opened => ran[l] = l

LEMMA ServingStep ==
  ASSUME HostInv, Directories, Serving, HostNext
  PROVE  Serving'
<1>1. UNCHANGED order
  BY OrderKept
<1>2. ASSUME NEW l \in Leaves, GateOpens(l)
      PROVE  /\ DOMAIN ran' = Leaves /\ \A k \in Leaves : k # l => ran'[k] = ran[k]
             /\ pc[l] = "checking" /\ AllLocked => ran'[l] = l
  <2>1. pc[l] = "checking" /\ ran' = [ran EXCEPT ![l] = Dir(l).roots]
    BY <1>2 DEF GateOpens, Dir
  <2>2. AllLocked => Dir(l).roots = l
    BY <2>1 DEF Directories, Made, Queued, AllLocked, Jobs
  <2> QED BY <2>1, <2>2 DEF Serving
<1>3. UNCHANGED ran \/ \E l \in Leaves : GateOpens(l)
  BY StepCases
     DEF Start, Acquire, GiveUp, Kill, LetGo, Enter, Make, Clone, Identify, Pin, State, Lane,
         Refuse, Finish, Checkout, Compile, WriteReceipt, RebuildFails, hostvars, verdict
<1>4. DOMAIN ran' = Leaves
  BY <1>2, <1>3 DEF Serving
<1> SUFFICES ASSUME AllLocked, NEW l \in Leaves
             PROVE  /\ pc'[l] \in {"pinning", "stating"} \cup Measuring => Identified'
                    /\ pc'[l] \in Opened => ran'[l] = l
  BY <1>1, <1>4 DEF Serving, AllLocked
<1>5. /\ pc[l] \in {"pinning", "stating"} \cup Measuring => Identified
      /\ pc[l] \in Opened => ran[l] = l
  BY DEF Serving
<1>6. ASSUME UNCHANGED <<sh, bin, receipt, ran>>,
             \/ pc'[l] = pc[l]
             \/ pc'[l] \notin {"pinning", "stating"} \cup Measuring
             \/ /\ pc'[l] \in Opened => pc[l] \in Opened
                /\ pc[l] \in {"pinning", "stating"} \cup Measuring \/ Identified
      PROVE  /\ pc'[l] \in {"pinning", "stating"} \cup Measuring => Identified'
             /\ pc'[l] \in Opened => ran'[l] = l
  BY <1>5, <1>6 DEF Identified, Measuring, Opened
<1>7. ASSUME NEW r \in Rebuilds, pc[r] \in Working, \A j \in Jobs : j # r => pc'[j] = pc[j]
      PROVE  pc'[l] \notin {"pinning", "stating"} \cup Measuring \cup Opened
  <2>1. pc[l] \notin Working /\ l # r
    BY <1>7, AloneAtWork, HostAssumption DEF Jobs
  <2> QED BY <1>7, <2>1 DEF Jobs, Working, Measuring, Opened
<1>8. ASSUME NEW j \in Jobs, Kill(j)
      PROVE  /\ pc'[l] \in {"pinning", "stating"} \cup Measuring => Identified'
             /\ pc'[l] \in Opened => ran'[l] = l
  <2>1. /\ \A k \in Jobs : k # j => pc'[k] = pc[k]
        /\ pc'[j] = "failed" /\ UNCHANGED <<sh, bin, ran>>
    BY <1>8 DEF Kill, Ends, Goes, verdict, HostInv, HostTypeOK
  <2>2. CASE UNCHANGED receipt
    BY <1>6, <2>1, <2>2 DEF Measuring, Jobs
  <2>3. CASE pc[j] = "receipting" /\ j \notin Leaves
    BY <1>7, <2>1, <2>3 DEF Jobs, Working
  <2>4. CASE j = l
    BY <2>1, <2>4 DEF Measuring, Opened
  <2>5. CASE pc[j] = "receipting" /\ j # l
    <3>1. pc[l] \notin Working
      BY <2>5, AloneAtWork DEF Working, Jobs
    <3> QED BY <2>1, <2>5, <3>1 DEF Working, Measuring, Opened, Jobs
  <2> QED BY <1>8, <2>2, <2>4, <2>5 DEF Kill, CutShort
<1>9. ASSUME NEW j \in Jobs, Start(j) \/ Acquire(j) \/ GiveUp(j) \/ LetGo(j)
      PROVE  /\ pc'[l] \in {"pinning", "stating"} \cup Measuring => Identified'
             /\ pc'[l] \in Opened => ran'[l] = l
  <2>1. UNCHANGED <<sh, bin, receipt, ran>>
    BY <1>9 DEF Start, Acquire, GiveUp, LetGo, candidate, verdict
  <2>2. pc'[l] = pc[l] \/ pc'[l] \notin {"pinning", "stating"} \cup Measuring
    BY <1>9 DEF Start, Acquire, GiveUp, LetGo, Goes, Measuring, HostInv, HostTypeOK, Jobs
  <2> QED BY <1>6, <2>1, <2>2
<1>10. ASSUME NEW k \in Leaves,
              \/ Enter(k) \/ Make(k) \/ Clone(k) \/ Identify(k) \/ Pin(k) \/ State(k)
              \/ Lane(k) \/ Refuse(k) \/ \E left \in BOOLEAN : Finish(k, left)
       PROVE  /\ pc'[l] \in {"pinning", "stating"} \cup Measuring => Identified'
              /\ pc'[l] \in Opened => ran'[l] = l
  <2>1. UNCHANGED <<sh, bin, receipt, ran>>
    BY <1>10 DEF Enter, Make, Clone, Identify, Pin, State, Lane, Refuse, Finish, candidate,
                 verdict
  <2>2. \A j \in Jobs : j # k => pc'[j] = pc[j]
    BY <1>10 DEF Enter, Make, Clone, Identify, Pin, State, Lane, Refuse, Finish, Ends, Goes,
                 HostInv, HostTypeOK
  <2>3. \/ pc'[k] \notin {"pinning", "stating"} \cup Measuring
        \/ /\ pc'[k] \in Opened => pc[k] \in Opened
           /\ pc[k] \in {"pinning", "stating"} \cup Measuring \/ Identified
    BY <1>10 DEF Enter, Make, Clone, Identify, Pin, State, Lane, Refuse, Finish, Ends, Goes,
                 Measuring, Opened, HostInv, HostTypeOK, Jobs
  <2> QED BY <1>6, <2>1, <2>2, <2>3 DEF Jobs
<1>11. ASSUME NEW k \in Leaves, GateOpens(k)
       PROVE  /\ pc'[l] \in {"pinning", "stating"} \cup Measuring => Identified'
              /\ pc'[l] \in Opened => ran'[l] = l
  <2>1. /\ UNCHANGED <<sh, bin, receipt>> /\ pc[k] = "checking"
        /\ \A j \in Jobs : j # k => pc'[j] = pc[j]
    BY <1>11 DEF GateOpens, Goes, candidate, HostInv, HostTypeOK
  <2>2. Identified' = Identified
    BY <2>1 DEF Identified
  <2>3. CASE l = k
    BY <1>2, <1>5, <1>11, <2>1, <2>2, <2>3 DEF Measuring
  <2>4. CASE l # k
    BY <1>2, <1>5, <1>11, <2>1, <2>2, <2>4 DEF Jobs
  <2> QED BY <2>3, <2>4
<1>12. ASSUME NEW r \in Rebuilds,
              Checkout(r) \/ Compile(r) \/ WriteReceipt(r) \/ RebuildFails(r)
       PROVE  /\ pc'[l] \in {"pinning", "stating"} \cup Measuring => Identified'
              /\ pc'[l] \in Opened => ran'[l] = l
  <2>1. pc[r] \in Working /\ \A j \in Jobs : j # r => pc'[j] = pc[j]
    BY <1>12 DEF Checkout, Compile, WriteReceipt, RebuildFails, Ends, Goes, Working, HostInv,
                 HostTypeOK
  <2> QED BY <1>7, <2>1
<1>13. CASE UNCHANGED hostvars
  BY <1>5, <1>13 DEF hostvars, candidate, verdict, Identified
<1> QED BY StepCases, <1>8, <1>9, <1>10, <1>11, <1>12, <1>13

LEMMA ServingInvariant == HostSpec => []Serving
<1>1. HostInit => Serving
  BY DEF HostInit, Serving, Measuring, Opened, Jobs
<1>2. HostInv /\ Directories /\ Serving /\ [HostNext]_hostvars => Serving'
  <2>1. CASE UNCHANGED hostvars
    BY <2>1 DEF hostvars, candidate, verdict, Serving, AllLocked, Identified
  <2> QED BY <2>1, ServingStep
<1> QED BY <1>1, <1>2, HostInvariant, DirectoriesInvariant, PTL DEF HostSpec

\* A job that has ended changes nothing that was published of it.
LEMMA EndedKeeps ==
  ASSUME HostInv, Sources, Serving, HostNext, NEW l \in Leaves, pc[l] \in Ended
  PROVE  pc'[l] = pc[l] /\ named'[l] = named[l] /\ measured'[l] = measured[l] /\ ran'[l] = ran[l]
<1> USE DEF HostInv, HostTypeOK, Jobs
<1>1. ASSUME NEW j \in Jobs, Start(j) \/ Acquire(j) \/ GiveUp(j) \/ Kill(j) \/ LetGo(j)
      PROVE  pc'[l] = pc[l] /\ UNCHANGED <<named, measured, ran>>
  BY <1>1 DEF Start, Acquire, GiveUp, Kill, LetGo, Ends, Goes, Ended, verdict
<1>2. ASSUME NEW k \in Leaves, Enter(k) \/ Make(k) \/ Clone(k) \/ Identify(k) \/ Pin(k)
                               \/ Refuse(k) \/ \E left \in BOOLEAN : Finish(k, left)
      PROVE  pc'[l] = pc[l] /\ UNCHANGED <<named, measured, ran>>
  BY <1>2 DEF Enter, Make, Clone, Identify, Pin, Refuse, Finish, Ends, Goes, Ended, verdict
<1>3. ASSUME NEW k \in Leaves, State(k) \/ GateOpens(k) \/ Lane(k)
      PROVE  pc'[l] = pc[l] /\ named'[l] = named[l] /\ measured'[l] = measured[l]
             /\ ran'[l] = ran[l]
  <2>1. k # l /\ pc'[l] = pc[l]
    BY <1>3 DEF State, GateOpens, Lane, Goes, Ended
  <2>2. DOMAIN named = Leaves /\ DOMAIN measured = Leaves /\ DOMAIN ran = Leaves
    BY DEF Sources, Serving
  <2>3. CASE State(k)
    BY <2>1, <2>2, <2>3 DEF State, candidate
  <2>4. CASE GateOpens(k)
    BY <2>1, <2>2, <2>4 DEF GateOpens, candidate
  <2>5. CASE Lane(k)
    BY <2>1, <2>2, <2>5 DEF Lane, candidate
  <2> QED BY <1>3, <2>3, <2>4, <2>5
<1>4. ASSUME NEW r \in Rebuilds,
             Checkout(r) \/ Compile(r) \/ WriteReceipt(r) \/ RebuildFails(r)
      PROVE  pc'[l] = pc[l] /\ UNCHANGED <<named, measured, ran>>
  BY <1>4, HostAssumption
     DEF Checkout, Compile, WriteReceipt, RebuildFails, Ends, Goes, Ended, verdict
<1>5. CASE UNCHANGED hostvars
  BY <1>5 DEF hostvars, verdict
<1> QED BY StepCases, <1>1, <1>2, <1>3, <1>4, <1>5

\* A run is done by its last step.
LEMMA DoneByFinish ==
  ASSUME HostInv, HostNext, NEW l \in Leaves, pc[l] # "done", pc'[l] = "done"
  PROVE  \E left \in BOOLEAN : Finish(l, left)
<1> USE DEF HostInv, HostTypeOK, Jobs
<1>1. ASSUME NEW j \in Jobs, Start(j) \/ Acquire(j) \/ GiveUp(j) \/ Kill(j) \/ LetGo(j)
      PROVE  FALSE
  BY <1>1 DEF Start, Acquire, GiveUp, Kill, LetGo, Ends, Goes
<1>2. ASSUME NEW k \in Leaves, Enter(k) \/ Make(k) \/ Clone(k) \/ Identify(k) \/ Pin(k)
                               \/ State(k) \/ GateOpens(k) \/ Lane(k) \/ Refuse(k)
      PROVE  FALSE
  BY <1>2 DEF Enter, Make, Clone, Identify, Pin, State, GateOpens, Lane, Refuse, Ends, Goes
<1>3. ASSUME NEW r \in Rebuilds,
             Checkout(r) \/ Compile(r) \/ WriteReceipt(r) \/ RebuildFails(r)
      PROVE  FALSE
  BY <1>3, HostAssumption DEF Checkout, Compile, WriteReceipt, RebuildFails, Ends, Goes
<1>4. ASSUME NEW k \in Leaves, NEW left \in BOOLEAN, Finish(k, left)
      PROVE  k = l
  BY <1>4 DEF Finish, Ends, Goes
<1>5. CASE UNCHANGED hostvars
  BY <1>5 DEF hostvars
<1> QED BY StepCases, <1>1, <1>2, <1>3, <1>4, <1>5

\* Every behaviour of the host in which everybody takes the lock, with its queue,
\* directories, crashes and survivors, is one of a host that does one job at a time.
THEOREM HostIsSerial == HostSpec => Serialized
<1> DEFINE Outcome(l) == [named |-> named[l], lanes |-> measured[l], roots |-> ran[l]]
           Published == [l \in Leaves |-> IF AllLocked /\ pc[l] = "done"
                                          THEN {Outcome(l)} ELSE {}]
           Commit == IF Identified THEN sh ELSE 0
<1>1. HostInit => Serial!Init
  <2> SUFFICES ASSUME HostInit PROVE Serial!Init
    OBVIOUS
  <2>1. \A l \in Leaves : pc[l] # "done"
    BY DEF HostInit, Jobs
  <2>2. sh \in Nat
    BY DEF HostInit
  <2> QED BY <2>1, <2>2 DEF Serial!Init
<1>2. HostInv /\ HostInv' /\ Sources /\ Serving /\ [HostNext]_hostvars
        => [Serial!Next]_Serial!host
  <2> SUFFICES ASSUME HostInv, HostInv', Sources, Serving, [HostNext]_hostvars
               PROVE  [Serial!Next]_Serial!host
    OBVIOUS
  <2>1. Commit \in Nat /\ Commit' \in Nat
    BY DEF HostInv, HostTypeOK
  <2>2. ASSUME UNCHANGED Published
        PROVE  [Serial!Next]_Serial!host
    BY <2>1, <2>2 DEF Serial!Next, Serial!Rebuild
  <2>3. CASE UNCHANGED hostvars
    BY <2>2, <2>3 DEF hostvars, verdict, AllLocked
  <2>4. CASE HostNext
    <3>1. UNCHANGED order /\ AllLocked' = AllLocked
      BY <2>4, OrderKept DEF AllLocked
    <3>2. ASSUME NEW l \in Leaves, pc'[l] # "done" \/ pc[l] = "done"
          PROVE  Published'[l] = Published[l]
      <4>1. CASE pc[l] = "done"
        <5>1. /\ pc'[l] = "done" /\ named'[l] = named[l] /\ measured'[l] = measured[l]
              /\ ran'[l] = ran[l]
          BY <2>4, <4>1, EndedKeeps DEF Ended
        <5> QED BY <3>1, <4>1, <5>1
      <4>2. CASE pc[l] # "done"
        BY <3>1, <3>2, <4>2
      <4> QED BY <4>1, <4>2
    <3>3. CASE ~AllLocked \/ \A l \in Leaves : pc'[l] # "done" \/ pc[l] = "done"
      <4>1. \A l \in Leaves : Published'[l] = Published[l]
        BY <3>1, <3>2, <3>3
      <4>2. Published' = Published
        BY <4>1
      <4> QED BY <2>2, <4>2
    <3>4. ASSUME AllLocked, NEW l \in Leaves, pc[l] # "done", pc'[l] = "done"
          PROVE  Serial!Measure(l)
      <4>1. PICK left \in BOOLEAN : Finish(l, left)
        BY <2>4, <3>4, DoneByFinish
      <4>2. /\ pc[l] = "finishing" /\ UNCHANGED <<sh, bin, receipt, named, measured, ran>>
            /\ \A k \in Leaves : k # l => pc'[k] = pc[k]
        BY <4>1 DEF Finish, Ends, Goes, candidate, verdict, HostInv, HostTypeOK, Jobs
      <4>3. /\ bin = sh /\ sh # 0 /\ Identified /\ ran[l] = l
            /\ named[l] = [sh |-> sh, bin |-> bin] /\ measured[l] = {[sh |-> sh, bin |-> bin]}
        BY <3>4, <4>2 DEF Sources, Sourced, Measuring, ReceiptTrue, Serving, Opened
      <4>4. Commit = sh /\ Commit' = sh /\ Commit # 0
        BY <4>2, <4>3 DEF Identified
      <4>5. Outcome(l)' = Serial!Verdict(l)
        BY <4>2, <4>3, <4>4 DEF Serial!Verdict
      <4>6. Published[l] = {} /\ Published'[l] = {Serial!Verdict(l)}
        BY <3>1, <3>4, <4>5
      <4>7. \A k \in Leaves : k # l => Published'[k] = Published[k]
        BY <3>2, <4>2
      <4>8. Published' = [Published EXCEPT ![l] = {Serial!Verdict(l)}]
        BY <4>6, <4>7
      <4> QED BY <4>4, <4>6, <4>8 DEF Serial!Measure
    <3> QED BY <3>3, <3>4 DEF Serial!Next
  <2> QED BY <2>3, <2>4
<1> QED BY <1>1, <1>2, HostInvariant, SourcesInvariant, ServingInvariant, PTL
        DEF HostSpec, Serialized, Serial!Spec
=============================================================================
