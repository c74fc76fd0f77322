------------------------------ MODULE LeafHost ------------------------------
(***************************************************************************)
(* A leaf host of the upstream harness: leaf-run.sh, which measures a      *)
(* named candidate with corpus-gate.sh, and rebuild-candidate.sh, which    *)
(* makes it, under one coordinator lock taken with flock(1) by whoever     *)
(* obeys the rule in leaf-run.sh.                                          *)
(*                                                                         *)
(* A commit is a number; a binary is the number of the commit it was built *)
(* over, its digest.  flock's descriptor is inherited by every descendant, *)
(* so what a measurement leaves running keeps the lock until it ends or    *)
(* closes it.                                                              *)
(***************************************************************************)
EXTENDS Naturals

CONSTANTS
  Leaves, Rebuilds,   \* the runs and rebuilds submitted to the host
  Impatient,          \* the runs started with --nowait
  Names, Namings,     \* the names there are, and the ways to give them to the runs
  Crashes             \* bound: processes killed

ASSUME HostAssumption == /\ Leaves \cap Rebuilds = {} /\ Crashes \in Nat
                         /\ "none" \notin Leaves \cup Rebuilds
                         /\ Impatient \subseteq Leaves
                         /\ Namings \subseteq [Leaves -> Names]

Jobs == Leaves \cup Rebuilds
None == "none"
NoReceipt == [sh |-> 0, bin |-> 0]

VARIABLES
  order,      \* which jobs take the lock, and what the runs are called
  pc,         \* where each job is
  lock,       \* the job whose descriptor holds leaf.lock, or None
  survivors,  \* jobs with a descendant that outlived them and keeps the lock
  dirs,       \* per name: does it exist, whose roots.tsv and whose clone it holds
  sh, bin,    \* the candidate's checkout and binary
  receipt,    \* candidate.txt
  pin,        \* per leaf: the commit its clone was pinned to
  named,      \* per leaf: the commit and digest its status names
  measured,   \* per leaf: what its lanes ran
  ran,        \* per leaf: whose roots it ran
  commits, crashes

candidate == <<sh, bin, receipt, commits>>
verdict == <<pin, named, measured, ran>>
hostvars == <<order, pc, lock, survivors, dirs, candidate, verdict, crashes>>

Working == {"entering", "making", "cloning", "identifying", "pinning", "stating",
            "checking", "interpreted", "compiled", "finishing", "checkout",
            "building", "receipting"}
Ended == {"done", "failed"}

Goes(j, at) == pc' = [pc EXCEPT ![j] = at]

\* The end of a job closes its descriptor; a descendant it left may have it too.
\* (The first mutant is a lock that is a file its holder removes when it is done,
\* the second one that descendants do not inherit.)
EndsKeepingLock(j, at, left) ==
  /\ Goes(j, at)
  /\ survivors' = IF left /\ lock = j THEN survivors \cup {j} ELSE survivors
  /\ lock' = IF lock = j /\ ~left /\ at = "done" THEN None ELSE lock

EndsReleasing(j, at, left) ==
  /\ Goes(j, at)
  /\ survivors' = IF left /\ lock = j THEN survivors \cup {j} ELSE survivors
  /\ lock' = IF lock = j THEN None ELSE lock

Ends(j, at, left) ==
  /\ Goes(j, at)
  /\ survivors' = IF left /\ lock = j THEN survivors \cup {j} ELSE survivors
  /\ lock' = IF lock = j /\ ~left THEN None ELSE lock

HostInit ==
  /\ order \in [locked : {S \in SUBSET Jobs : Impatient \subseteq S}, name : Namings]
  /\ pc = [j \in Jobs |-> "submitted"]
  /\ lock = None /\ survivors = {}
  /\ dirs = [n \in Names |-> [exists |-> FALSE, roots |-> None, clone |-> None]]
  /\ sh = 1 /\ bin = 1 /\ receipt = [sh |-> 1, bin |-> 1] /\ commits = 1
  /\ pin = [l \in Leaves |-> 0]
  /\ named = [l \in Leaves |-> NoReceipt]
  /\ measured = [l \in Leaves |-> {}]
  /\ ran = [l \in Leaves |-> None] /\ crashes = 0

----------------------------------------------------------------------------
\* A run without --unlocked, or a rebuild its submitter wrapped in flock,
\* queues for the lock.
Start(j) ==
  /\ pc[j] = "submitted"
  /\ Goes(j, IF j \in order.locked THEN "waiting"
             ELSE IF j \in Rebuilds THEN "checkout" ELSE "entering")
  /\ UNCHANGED <<order, lock, survivors, dirs, candidate, verdict, crashes>>

\* (The mutant takes it as a reader.)
AcquireShared(j) ==
  /\ pc[j] = "waiting" /\ lock \in {None} \cup Leaves
  /\ lock' = j
  /\ Goes(j, IF j \in Rebuilds THEN "checkout" ELSE "entering")
  /\ UNCHANGED <<order, survivors, dirs, candidate, verdict, crashes>>

Acquire(j) ==
  /\ pc[j] = "waiting" /\ lock = None
  /\ lock' = j
  /\ Goes(j, IF j \in Rebuilds THEN "checkout" ELSE "entering")
  /\ UNCHANGED <<order, survivors, dirs, candidate, verdict, crashes>>

\* --nowait: flock -n.
GiveUp(j) ==
  /\ j \in Impatient /\ pc[j] = "waiting" /\ lock # None
  /\ Goes(j, "failed")
  /\ UNCHANGED <<order, lock, survivors, dirs, candidate, verdict, crashes>>

\* The directory is tested for, ...
Enter(l) ==
  /\ pc[l] = "entering" /\ ~dirs[order.name[l]].exists
  /\ Goes(l, "making")
  /\ UNCHANGED <<order, lock, survivors, dirs, candidate, verdict, crashes>>

\* ... then made with mkdir -p, and the manifest copied into it.
Make(l) ==
  /\ pc[l] = "making"
  /\ dirs' = [dirs EXCEPT ![order.name[l]] =
                          [exists |-> TRUE, roots |-> l, clone |-> @.clone]]
  /\ Goes(l, "cloning")
  /\ UNCHANGED <<order, lock, survivors, candidate, verdict, crashes>>

\* git clone wants an empty place.
Clone(l) ==
  /\ pc[l] = "cloning" /\ dirs[order.name[l]].clone = None
  /\ dirs' = [dirs EXCEPT ![order.name[l]] =
                          [exists |-> @.exists, roots |-> @.roots, clone |-> l]]
  /\ Goes(l, "identifying")
  /\ UNCHANGED <<order, lock, survivors, candidate, verdict, crashes>>

\* candidate-identity.sh: checkout and binary are the receipt's.  (The mutant
\* compares the binary alone.)
IdentifiedByDigest == receipt.bin = bin
Identified == receipt = [sh |-> sh, bin |-> bin]

Identify(l) ==
  /\ pc[l] = "identifying" /\ Identified
  /\ Goes(l, "pinning")
  /\ UNCHANGED <<order, lock, survivors, dirs, candidate, verdict, crashes>>

\* The clone's pin is rewritten to the checkout's HEAD, read again.
Pin(l) ==
  /\ pc[l] = "pinning"
  /\ pin' = [pin EXCEPT ![l] = sh]
  /\ Goes(l, "stating")
  /\ UNCHANGED <<order, lock, survivors, dirs, candidate, named, measured, ran,
                 crashes>>

\* The status line: binary digest and HEAD, read once more.
State(l) ==
  /\ pc[l] = "stating"
  /\ named' = [named EXCEPT ![l] = [sh |-> sh, bin |-> bin]]
  /\ Goes(l, "checking")
  /\ UNCHANGED <<order, lock, survivors, dirs, candidate, pin, measured, ran, crashes>>

\* corpus-gate.sh compares HEAD with the pin and reads the roots.
GateOpens(l) ==
  /\ pc[l] = "checking" /\ sh = pin[l]
  /\ ran' = [ran EXCEPT ![l] = dirs[order.name[l]].roots]
  /\ Goes(l, "interpreted")
  /\ UNCHANGED <<order, lock, survivors, dirs, candidate, pin, named, measured, crashes>>

Lane(l) ==
  /\ pc[l] \in {"interpreted", "compiled"}
  /\ measured' = [measured EXCEPT ![l] = @ \cup {[sh |-> sh, bin |-> bin]}]
  /\ Goes(l, IF pc[l] = "interpreted" THEN "compiled" ELSE "finishing")
  /\ UNCHANGED <<order, lock, survivors, dirs, candidate, pin, named, ran, crashes>>

\* The exit status and the survivors are recorded; the survivors stay.
Finish(l, left) ==
  /\ pc[l] = "finishing" /\ Ends(l, "done", left)
  /\ UNCHANGED <<order, dirs, candidate, verdict, crashes>>

\* Any refusal: a directory that exists, a clone that fails, a candidate that is
\* not its receipt's, a checkout that is not the pin's.
Refuse(l) ==
  /\ \/ pc[l] = "entering" /\ dirs[order.name[l]].exists
     \/ pc[l] = "cloning" /\ dirs[order.name[l]].clone # None
     \/ pc[l] = "identifying" /\ ~Identified
     \/ pc[l] = "checking" /\ sh # pin[l]
  /\ Ends(l, "failed", FALSE)
  /\ UNCHANGED <<order, dirs, candidate, verdict, crashes>>

----------------------------------------------------------------------------
\* rebuild-candidate.sh: the siblings are checked out, at a commit old or new,
\* the binaries built over them, the receipt written.
Checkout(r) ==
  /\ pc[r] = "checkout"
  /\ \E commit \in 1..(commits + 1) :
       sh' = commit /\ commits' = IF commit > commits THEN commit ELSE commits
  /\ Goes(r, "building")
  /\ UNCHANGED <<order, lock, survivors, dirs, bin, receipt, verdict, crashes>>

Compile(r) ==
  /\ pc[r] = "building"
  /\ bin' = sh
  /\ Goes(r, "receipting")
  /\ UNCHANGED <<order, lock, survivors, dirs, sh, receipt, commits, verdict, crashes>>

\* (The mutant forgets the commits.)
WriteReceiptOfBinary(r) ==
  /\ pc[r] = "receipting"
  /\ receipt' = [bin |-> bin]
  /\ Ends(r, "done", FALSE)
  /\ UNCHANGED <<order, dirs, sh, bin, commits, verdict, crashes>>

WriteReceipt(r) ==
  /\ pc[r] = "receipting"
  /\ receipt' = [sh |-> sh, bin |-> bin]
  /\ Ends(r, "done", FALSE)
  /\ UNCHANGED <<order, dirs, sh, bin, commits, verdict, crashes>>

\* Whoever is stopped while the receipt is written may leave a part of it,
\* without the digests, which come last.
CutShort(j) ==
  \/ UNCHANGED receipt
  \/ pc[j] = "receipting" /\ receipt' = [sh |-> sh, bin |-> 0]

\* set -eu: a step that fails ends the rebuild there.
RebuildFails(r) ==
  /\ pc[r] \in {"checkout", "building", "receipting"}
  /\ CutShort(r)
  /\ Ends(r, "failed", FALSE)
  /\ UNCHANGED <<order, dirs, sh, bin, commits, verdict, crashes>>

----------------------------------------------------------------------------
\* A job is killed; its descendants may outlive it.
Kill(j) ==
  /\ pc[j] \notin Ended \cup {"submitted"} /\ crashes < Crashes
  /\ \E left \in BOOLEAN : Ends(j, "failed", left /\ pc[j] \in Working)
  /\ CutShort(j)
  /\ crashes' = crashes + 1
  /\ UNCHANGED <<order, dirs, sh, bin, commits, verdict>>

\* A survivor ends, or closes the descriptor.
LetGo(j) ==
  /\ j \in survivors
  /\ survivors' = survivors \ {j} /\ lock' = IF lock = j THEN None ELSE lock
  /\ UNCHANGED <<order, pc, dirs, candidate, verdict, crashes>>

\* Nobody is at work: all have ended, or wait, for ever if need be.
HostDone == (\A j \in Jobs : pc[j] \in Ended \cup {"waiting"}) /\ UNCHANGED hostvars

Run(l) == \/ Enter(l) \/ Make(l) \/ Clone(l) \/ Identify(l) \/ Pin(l) \/ State(l)
          \/ GateOpens(l) \/ Lane(l) \/ Refuse(l)
          \/ \E left \in BOOLEAN : Finish(l, left)
Rebuild(r) == Checkout(r) \/ Compile(r) \/ WriteReceipt(r) \/ RebuildFails(r)
Job(j) == \/ Start(j) \/ Acquire(j) \/ GiveUp(j)
          \/ j \in Leaves /\ Run(j)
          \/ j \in Rebuilds /\ Rebuild(j)

HostNext == \E j \in Jobs : (Job(j) \/ Kill(j) \/ LetGo(j)) \/ HostDone

HostSpec == HostInit /\ [][HostNext]_hostvars
FairHost == HostSpec /\ \A j \in Jobs : WF_hostvars(Job(j)) /\ WF_hostvars(LetGo(j))

----------------------------------------------------------------------------
HostTypeOK ==
  /\ pc \in [Jobs -> Working \cup Ended \cup {"submitted", "waiting"}]
  /\ lock \in Jobs \cup {None} /\ survivors \subseteq Jobs
  /\ dirs \in [Names -> [exists : BOOLEAN, roots : Leaves \cup {None},
                         clone : Leaves \cup {None}]]
  /\ {sh, bin, commits} \subseteq Nat /\ receipt \in [sh : Nat, bin : Nat]
  /\ crashes \in 0..Crashes

AllLocked == \A j \in Jobs : j \in order.locked

\* ONE COORDINATOR PER HOST: whoever takes the lock works alone among those who
\* do, and alone with what an earlier holder left running.
OneCoordinator ==
  \A j, k \in Jobs :
    /\ j \in order.locked /\ pc[j] \in Working
    /\ j # k /\ k \in order.locked
    => pc[k] \notin Working /\ k \notin survivors

\* A checkout moved after the rebuild is never reported as a verdict on the new
\* source (candidate-identity.sh): where everybody takes the lock, a leaf names
\* one binary and the source it was built over, and every lane ran those.
VerdictNamesSource ==
  AllLocked =>
    \A l \in Leaves :
      pc[l] = "done" =>
        measured[l] = {named[l]} /\ named[l].bin = named[l].sh

\* Whatever was killed in between, runs that queue for the lock never share a
\* directory: each measures the roots it was given, in a clone of its own.
OwnDirectory ==
  \A l \in Leaves :
    /\ l \in order.locked /\ ran[l] # None
    /\ \A k \in Leaves : order.name[k] = order.name[l] => k \in order.locked
    => ran[l] = l /\ dirs[order.name[l]].clone = l

\* Every job ends, the queued ones too, as long as what earlier ones left behind
\* lets go of the lock.
JobsEnd == \A j \in Jobs : <>(pc[j] \in Ended)

(***************************************************************************)
(* Where everybody takes the lock the host implements SerialHost: a run is *)
(* measured at the moment it is done, a rebuild takes effect once binary,  *)
(* checkout and receipt agree again, and whatever happens in between is a  *)
(* stutter or leaves the candidate unusable.                               *)
(***************************************************************************)
Serial == INSTANCE SerialHost WITH
  commit <- IF Identified THEN sh ELSE 0,
  published <- [l \in Leaves |->
                  IF AllLocked /\ pc[l] = "done"
                  THEN {[named |-> named[l], lanes |-> measured[l], roots |-> ran[l]]}
                  ELSE {}]

\* What the host publishes could have been measured and rebuilt one job at a
\* time, whoever was killed, gave up or left something running.
Serialized == Serial!Spec
=============================================================================
