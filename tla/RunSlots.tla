------------------------------- MODULE RunSlots -------------------------------
(***************************************************************************)
(* The bounded run slots of scripts/kb/run_concurrency.py.                  *)
(*                                                                         *)
(* A managed run holds one slot: a lease file in run-leases/ that it keeps *)
(* under an exclusive OS lock.  Every change of the directory is made under *)
(* one guard lock.  A process that dies loses its OS locks and leaves its  *)
(* files; a file nobody locks is stale, and the next acquisition prunes it. *)
(***************************************************************************)
EXTENDS Integers, FiniteSets

CONSTANTS Run,          \* the processes that start managed runs
          Gen,          \* runtime generations
          NoGen,        \* no generation recorded, or evidence that cannot be parsed
          Nobody,       \* holder of a free lock
          MaxConcurrent,\* SULDE_MAX_CONCURRENT_RUNS
          MaxTry,       \* bound: attempts of one process to start a run
          MaxRunCrash   \* bound: run processes that die

ASSUME QuotaAssumption == MaxConcurrent \in Nat \ {0}
ASSUME BoundAssumption == MaxTry \in Nat /\ MaxRunCrash \in Nat
ASSUME RunAssumption   == IsFiniteSet(Run) /\ Nobody \notin Run

VARIABLES pc,       \* where each process is
          try,      \* its attempts so far: with the owner, the lease file's name
          runGen,   \* the generation it read when it started
          leases,   \* the files of run-leases/
          locked,   \* those whose OS lock is held, by their owner
          guard,    \* the holder of the directory's guard lock
          runCrashes

slotVars == <<pc, try, runGen, leases, locked, guard, runCrashes>>

-----------------------------------------------------------------------------

Lease == [owner : Run, try : 1..MaxTry, gen : Gen \cup {NoGen}]

SlotTypeOK ==
  /\ pc \in [Run -> {"idle", "waiting", "created", "running"}]
  /\ try \in [Run -> 0..MaxTry]
  /\ runGen \in [Run -> Gen \cup {NoGen}]
  /\ leases \subseteq Lease
  /\ locked \subseteq leases
  /\ guard \in Run \cup {Nobody}
  /\ runCrashes \in 0..MaxRunCrash

SlotInit ==
  /\ pc = [r \in Run |-> "idle"]
  /\ try = [r \in Run |-> 0]
  /\ runGen = [r \in Run |-> NoGen]
  /\ leases = {}
  /\ locked = {}
  /\ guard = Nobody
  /\ runCrashes = 0

LeaseOf(r, g) == [owner |-> r, try |-> try[r], gen |-> g]

\* Slip: a lease without a generation counts as damaged and is pruned.
Pruned_Slip == {l \in leases \cap locked : l.gen # NoGen}

\* What the acquisition path leaves in the directory: a lease whose lock can be
\* re-acquired belongs to a dead process.
Pruned == leases \cap locked

\* A process starts a run and reads the generation it will run under.
Start(r, g) ==
  /\ pc[r] = "idle"
  /\ try[r] < MaxTry
  /\ pc' = [pc EXCEPT ![r] = "waiting"]
  /\ try' = [try EXCEPT ![r] = @ + 1]
  /\ runGen' = [runGen EXCEPT ![r] = g]
  /\ UNCHANGED <<leases, locked, guard, runCrashes>>

\* acquire_run_slot takes the guard, prunes, finds a slot and creates the file;
\* the evidence is not written and the lock not yet taken.
TakeSlot(r) ==
  /\ pc[r] = "waiting"
  /\ guard = Nobody
  /\ Cardinality(Pruned) < MaxConcurrent
  /\ leases' = Pruned \cup {LeaseOf(r, NoGen)}
  /\ guard' = r
  /\ pc' = [pc EXCEPT ![r] = "created"]
  /\ UNCHANGED <<try, runGen, locked, runCrashes>>

\* The quota is exhausted: the round prunes, and the process polls again or,
\* at its deadline, raises RunConcurrencyLimitError.
NoSlot(r) ==
  /\ pc[r] = "waiting"
  /\ guard = Nobody
  /\ Cardinality(Pruned) >= MaxConcurrent
  /\ leases' = Pruned
  /\ \E next \in {"waiting", "idle"} : pc' = [pc EXCEPT ![r] = next]
  /\ UNCHANGED <<try, runGen, locked, guard, runCrashes>>

\* The caller stops before it has created a lease: the guard is contended
\* beyond its bound, or the caller was refused.
GiveUp(r) ==
  /\ pc[r] = "waiting"
  /\ pc' = [pc EXCEPT ![r] = "idle"]
  /\ UNCHANGED <<try, runGen, leases, locked, guard, runCrashes>>

\* Evidence and lock are in place.  The code counts the files once more before
\* it returns; QuotaHeld makes that count redundant.
Publish(r) ==
  /\ pc[r] = "created"
  /\ leases' = (leases \ {LeaseOf(r, NoGen)}) \cup {LeaseOf(r, runGen[r])}
  /\ locked' = locked \cup {LeaseOf(r, runGen[r])}
  /\ guard' = Nobody
  /\ pc' = [pc EXCEPT ![r] = "running"]
  /\ UNCHANGED <<try, runGen, runCrashes>>

\* Writing the evidence or taking the lock fails: the file is removed again.
PublishFails(r) ==
  /\ pc[r] = "created"
  /\ leases' = leases \ {LeaseOf(r, NoGen)}
  /\ guard' = Nobody
  /\ pc' = [pc EXCEPT ![r] = "idle"]
  /\ UNCHANGED <<try, runGen, locked, runCrashes>>

\* RunLease.release under the guard.
Release(r) ==
  /\ pc[r] = "running"
  /\ guard = Nobody
  /\ leases' = leases \ {LeaseOf(r, runGen[r])}
  /\ locked' = locked \ {LeaseOf(r, runGen[r])}
  /\ pc' = [pc EXCEPT ![r] = "idle"]
  /\ UNCHANGED <<try, runGen, guard, runCrashes>>

\* The guard is contended: the handle is already dropped, so the lock goes and
\* the file stays behind, stale.
ReleaseBusy(r) ==
  /\ pc[r] = "running"
  /\ guard # Nobody
  /\ locked' = locked \ {LeaseOf(r, runGen[r])}
  /\ pc' = [pc EXCEPT ![r] = "idle"]
  /\ UNCHANGED <<try, runGen, leases, guard, runCrashes>>

\* The process dies: its OS locks go with it, its files stay.
RunCrash(r) ==
  /\ pc[r] # "idle"
  /\ runCrashes < MaxRunCrash
  /\ runCrashes' = runCrashes + 1
  /\ locked' = {l \in locked : l.owner # r}
  /\ guard' = IF guard = r THEN Nobody ELSE guard
  /\ pc' = [pc EXCEPT ![r] = "idle"]
  /\ UNCHANGED <<try, runGen, leases>>

SlotNext ==
  \E r \in Run :
    \/ \E g \in Gen \cup {NoGen} : Start(r, g)
    \/ TakeSlot(r) \/ NoSlot(r) \/ GiveUp(r)
    \/ Publish(r) \/ PublishFails(r)
    \/ Release(r) \/ ReleaseBusy(r)
    \/ RunCrash(r)

SlotSpec == SlotInit /\ [][SlotNext]_slotVars

-----------------------------------------------------------------------------

\* The processes that hold a slot.
Running == {r \in Run : pc[r] = "running"}

\* The quota (run_concurrency.py:214-289): however processes die, give up or
\* release while the guard is contended, no more runs are alive than the quota
\* allows, and none is alive without its lease file and its lock: pruning never
\* takes the slot of a live run.
QuotaHeld ==
  /\ Cardinality(Running) <= MaxConcurrent
  /\ \A r \in Running : LeaseOf(r, runGen[r]) \in locked

\* The directory never lists more files than the quota, stale ones included.
FilesBounded == Cardinality(leases) <= MaxConcurrent
==============================================================================
