---------------------------- MODULE RunSlots_proofs ----------------------------
(***************************************************************************)
(* Theorems about run slots, for any processes, generations, quota and     *)
(* number of deaths.                                                        *)
(***************************************************************************)
EXTENDS RunSlots, FiniteSetTheorems, TLAPS

\* A run holds its slot exactly while it is running: the locked files are those
\* of the running processes.
LocksAreRuns ==
  /\ \A r \in Running : LeaseOf(r, runGen[r]) \in locked
  /\ \A l \in locked : l.owner \in Running /\ l = LeaseOf(l.owner, runGen[l.owner])

\* The guard is held exactly while its holder has created a file and not yet
\* published it.
GuardIsSection ==
  \A r \in Run : /\ pc[r] = "created" <=> guard = r
                 /\ pc[r] = "created" => LeaseOf(r, NoGen) \in leases
                 /\ pc[r] # "idle" => try[r] # 0

SlotInv ==
  /\ SlotTypeOK /\ LocksAreRuns /\ GuardIsSection
  /\ IsFiniteSet(leases) /\ FilesBounded

\* A file of a process of its current attempt.
LEMMA LeaseFields ==
  ASSUME NEW r, NEW g
  PROVE  LeaseOf(r, g).owner = r /\ LeaseOf(r, g).try = try[r] /\ LeaseOf(r, g).gen = g
BY DEF LeaseOf

\* Pruning leaves the locked files, which are in the directory.
LEMMA PrunedIsLocked ==
  ASSUME SlotInv
  PROVE  Pruned = locked /\ IsFiniteSet(locked) /\ Cardinality(locked) \in Nat
<1>1. Pruned = locked
  BY DEF SlotInv, SlotTypeOK, Pruned
<1>2. IsFiniteSet(locked)
  BY FS_Subset DEF SlotInv, SlotTypeOK
<1> QED BY <1>1, <1>2, FS_CardinalityType

\* One more element.
LEMMA OneMore ==
  ASSUME NEW S, IsFiniteSet(S), NEW x
  PROVE  /\ IsFiniteSet(S \cup {x})
         /\ Cardinality(S) \in Nat /\ Cardinality(S \cup {x}) \in Nat
         /\ Cardinality(S \cup {x}) <= Cardinality(S) + 1
<1>1. Cardinality(S) \in Nat
  BY FS_CardinalityType
<1>2. /\ IsFiniteSet(S \cup {x})
      /\ Cardinality(S \cup {x}) = IF x \in S THEN Cardinality(S) ELSE Cardinality(S) + 1
  BY FS_AddElement
<1> DEFINE c == Cardinality(S)
           d == Cardinality(S \cup {x})
<1>3. c \in Nat /\ d \in Nat /\ d <= c + 1
  <2> SUFFICES ASSUME c \in Nat, d = IF x \in S THEN c ELSE c + 1
               PROVE  c \in Nat /\ d \in Nat /\ d <= c + 1
    BY <1>1, <1>2
  <2> HIDE DEF c, d
  <2> QED OBVIOUS
<1> QED BY <1>2, <1>3

\* One element replaced.
LEMMA OneSwapped ==
  ASSUME NEW S, IsFiniteSet(S), NEW x \in S, NEW y
  PROVE  /\ IsFiniteSet((S \ {x}) \cup {y})
         /\ Cardinality((S \ {x}) \cup {y}) <= Cardinality(S)
<1> DEFINE T == S \ {x}
<1>1. IsFiniteSet(T) /\ Cardinality(T) = Cardinality(S) - 1
  BY FS_RemoveElement
<1>2. Cardinality(S) \in Nat
  BY FS_CardinalityType
<1>3. /\ IsFiniteSet(T \cup {y})
      /\ Cardinality(T) \in Nat /\ Cardinality(T \cup {y}) \in Nat
      /\ Cardinality(T \cup {y}) <= Cardinality(T) + 1
  BY <1>1, OneMore
<1> QED BY <1>1, <1>2, <1>3

\* The invariant is inductive, step by step of the slots.
LEMMA SlotStep ==
  ASSUME SlotInv, [SlotNext]_slotVars
  PROVE  SlotInv'
<1> USE DEF SlotInv, SlotTypeOK, LocksAreRuns, GuardIsSection, Running, FilesBounded
<1>1. Nobody \notin Run /\ MaxConcurrent \in Nat /\ MaxConcurrent >= 1 /\ MaxTry \in Nat
      /\ MaxRunCrash \in Nat
  BY RunAssumption, QuotaAssumption, BoundAssumption
<1>2. Cardinality(leases) \in Nat
  BY FS_CardinalityType
<1>3. ASSUME NEW r \in Run, NEW g \in Gen \cup {NoGen}, Start(r, g) PROVE SlotInv'
  <2>1. /\ pc[r] = "idle" /\ pc' = [pc EXCEPT ![r] = "waiting"]
        /\ try' = [try EXCEPT ![r] = @ + 1] /\ try[r] + 1 \in 0..MaxTry
        /\ runGen' = [runGen EXCEPT ![r] = g]
        /\ UNCHANGED <<leases, locked, guard, runCrashes>>
    BY <1>1, <1>3 DEF Start
  <2>2. SlotTypeOK'
    BY <2>1
  <2>3. \A q \in Run \ {r} : pc'[q] = pc[q] /\ try'[q] = try[q] /\ runGen'[q] = runGen[q]
    BY <2>1
  <2>4. LocksAreRuns'
    BY <2>1, <2>3 DEF LeaseOf
  <2>5. GuardIsSection'
    BY <2>1, <2>3 DEF LeaseOf
  <2> QED BY <2>1, <2>2, <2>4, <2>5
<1>4. ASSUME NEW r \in Run, TakeSlot(r) PROVE SlotInv'
  <2>1. /\ pc[r] = "waiting" /\ guard = Nobody
        /\ Cardinality(locked) < MaxConcurrent
        /\ leases' = locked \cup {LeaseOf(r, NoGen)}
        /\ guard' = r /\ pc' = [pc EXCEPT ![r] = "created"]
        /\ UNCHANGED <<try, runGen, locked, runCrashes>>
    BY <1>4, PrunedIsLocked DEF TakeSlot
  <2>2. SlotTypeOK'
    <3>0. try[r] \in 1..MaxTry
      <4>1. try[r] \in 0..MaxTry /\ try[r] # 0
        BY <2>1
      <4> QED BY <1>1, <4>1
    <3>1. LeaseOf(r, NoGen) \in Lease
      BY <3>0 DEF LeaseOf, Lease
    <3> QED BY <2>1, <3>1
  <2>3. LocksAreRuns'
    <3>1. \A l \in locked : l.owner # r
      BY <2>1
    <3> QED BY <2>1, <3>1 DEF LeaseOf
  <2>4. GuardIsSection'
    BY <1>1, <2>1 DEF LeaseOf
  <2>5. IsFiniteSet(leases') /\ Cardinality(leases') <= MaxConcurrent
    <3> DEFINE new == LeaseOf(r, NoGen)
    <3> HIDE DEF new
    <3>1. IsFiniteSet(locked)
      BY PrunedIsLocked
    <3>2. /\ IsFiniteSet(locked \cup {new})
          /\ Cardinality(locked) \in Nat /\ Cardinality(locked \cup {new}) \in Nat
          /\ Cardinality(locked \cup {new}) <= Cardinality(locked) + 1
      BY <3>1, OneMore
    <3>3. leases' = locked \cup {new}
      BY <2>1 DEF new
    <3> QED BY <1>1, <2>1, <3>2, <3>3
  <2> QED BY <2>2, <2>3, <2>4, <2>5
<1>5. ASSUME NEW r \in Run, NoSlot(r) PROVE SlotInv'
  <2>1. PICK next \in {"waiting", "idle"} : pc' = [pc EXCEPT ![r] = next]
    BY <1>5 DEF NoSlot
  <2>2. /\ pc[r] = "waiting" /\ guard = Nobody /\ leases' = locked
        /\ UNCHANGED <<try, runGen, locked, guard, runCrashes>>
    BY <1>5, PrunedIsLocked DEF NoSlot
  <2>3. Cardinality(leases') <= MaxConcurrent /\ IsFiniteSet(leases')
    BY <1>1, <1>2, <2>2, PrunedIsLocked, FS_Subset
  <2>4. LocksAreRuns' /\ GuardIsSection'
    BY <1>1, <2>1, <2>2 DEF LeaseOf
  <2> QED BY <2>1, <2>2, <2>3, <2>4
<1>6. ASSUME NEW r \in Run, GiveUp(r) PROVE SlotInv'
  BY <1>6 DEF GiveUp, LeaseOf
<1>7. ASSUME NEW r \in Run, Publish(r) PROVE SlotInv'
  <2> DEFINE old == LeaseOf(r, NoGen)
             new == LeaseOf(r, runGen[r])
  <2>1. /\ pc[r] = "created" /\ leases' = (leases \ {old}) \cup {new}
        /\ locked' = locked \cup {new} /\ guard' = Nobody
        /\ pc' = [pc EXCEPT ![r] = "running"]
        /\ UNCHANGED <<try, runGen, runCrashes>>
    BY <1>7 DEF Publish
  <2>2. new \in Lease /\ old \in leases /\ old \notin locked
    BY <1>1, <2>1, LeaseFields DEF LeaseOf, Lease
  <2>3. SlotTypeOK'
    BY <2>1, <2>2
  <2>4. LocksAreRuns'
    <3>1. \A l \in locked : l.owner # r
      BY <2>1
    <3> QED BY <2>1, <3>1 DEF LeaseOf
  <2>5. GuardIsSection'
    BY <1>1, <2>1 DEF LeaseOf
  <2>6. IsFiniteSet(leases') /\ Cardinality(leases') <= MaxConcurrent
    <3> HIDE DEF old, new
    <3>1. /\ IsFiniteSet((leases \ {old}) \cup {new})
          /\ Cardinality((leases \ {old}) \cup {new}) <= Cardinality(leases)
      BY <2>2, OneSwapped
    <3>2. IsFiniteSet((leases \ {old}) \cup {new})
          => Cardinality((leases \ {old}) \cup {new}) \in Nat
      BY FS_CardinalityType
    <3> QED BY <1>1, <1>2, <2>1, <3>1, <3>2
  <2> QED BY <2>3, <2>4, <2>5, <2>6
<1>8. ASSUME NEW r \in Run, PublishFails(r) PROVE SlotInv'
  <2>1. /\ pc[r] = "created" /\ leases' = leases \ {LeaseOf(r, NoGen)}
        /\ guard' = Nobody /\ pc' = [pc EXCEPT ![r] = "idle"]
        /\ UNCHANGED <<try, runGen, locked, runCrashes>>
    BY <1>8 DEF PublishFails
  <2>2. LeaseOf(r, NoGen) \notin locked
    BY <2>1, LeaseFields
  <2>3. SlotTypeOK'
    BY <2>1, <2>2
  <2>4. LocksAreRuns' /\ GuardIsSection'
    BY <1>1, <2>1 DEF LeaseOf
  <2>5. IsFiniteSet(leases') /\ Cardinality(leases') <= MaxConcurrent
    BY <1>1, <1>2, <2>1, FS_Subset, FS_CardinalityType
  <2> QED BY <2>3, <2>4, <2>5
<1>9. ASSUME NEW r \in Run, Release(r) PROVE SlotInv'
  <2> DEFINE lease == LeaseOf(r, runGen[r])
  <2>1. /\ pc[r] = "running" /\ guard = Nobody
        /\ leases' = leases \ {lease} /\ locked' = locked \ {lease}
        /\ pc' = [pc EXCEPT ![r] = "idle"]
        /\ UNCHANGED <<try, runGen, guard, runCrashes>>
    BY <1>9 DEF Release
  <2>2. SlotTypeOK'
    BY <2>1
  <2>3. LocksAreRuns' /\ GuardIsSection'
    BY <1>1, <2>1 DEF LeaseOf
  <2>4. IsFiniteSet(leases') /\ Cardinality(leases') <= MaxConcurrent
    BY <1>1, <1>2, <2>1, FS_Subset, FS_CardinalityType
  <2> QED BY <2>2, <2>3, <2>4
<1>10. ASSUME NEW r \in Run, ReleaseBusy(r) PROVE SlotInv'
  <2>1. /\ pc[r] = "running"
        /\ locked' = locked \ {LeaseOf(r, runGen[r])}
        /\ pc' = [pc EXCEPT ![r] = "idle"]
        /\ UNCHANGED <<try, runGen, leases, guard, runCrashes>>
    BY <1>10 DEF ReleaseBusy
  <2>2. SlotTypeOK'
    BY <2>1
  <2>3. LocksAreRuns' /\ GuardIsSection'
    BY <1>1, <2>1 DEF LeaseOf
  <2> QED BY <2>1, <2>2, <2>3
<1>11. ASSUME NEW r \in Run, RunCrash(r) PROVE SlotInv'
  <2>1. /\ locked' = {l \in locked : l.owner # r}
        /\ guard' = IF guard = r THEN Nobody ELSE guard
        /\ pc' = [pc EXCEPT ![r] = "idle"]
        /\ runCrashes < MaxRunCrash /\ runCrashes' = runCrashes + 1
        /\ UNCHANGED <<try, runGen, leases>>
    BY <1>11 DEF RunCrash
  <2>2. SlotTypeOK'
    BY <1>1, <2>1
  <2>3. LocksAreRuns'
    BY <2>1, LeaseFields DEF LeaseOf
  <2>4. GuardIsSection'
    BY <1>1, <2>1 DEF LeaseOf
  <2> QED BY <2>1, <2>2, <2>3, <2>4
<1>12. CASE UNCHANGED slotVars
  BY <1>12 DEF slotVars, LeaseOf
<1> QED BY <1>3, <1>4, <1>5, <1>6, <1>7, <1>8, <1>9, <1>10, <1>11, <1>12 DEF SlotNext

\* The initial directory is empty.
LEMMA SlotBegins ==
  ASSUME SlotInit
  PROVE  SlotInv
<1>1. IsFiniteSet(leases) /\ Cardinality(leases) = 0
  BY FS_EmptySet DEF SlotInit
<1>2. SlotTypeOK
  BY BoundAssumption DEF SlotInit, SlotTypeOK
<1>3. LocksAreRuns /\ GuardIsSection
  BY RunAssumption DEF SlotInit, LocksAreRuns, GuardIsSection, Running
<1> QED BY <1>1, <1>2, <1>3, QuotaAssumption DEF SlotInv, FilesBounded

\* As many runs as lease files that somebody locks.
LEMMA RunsWithinQuota ==
  ASSUME SlotInv
  PROVE  QuotaHeld
<1>1. IsFiniteSet(Running) /\ Cardinality(Running) \in Nat
  BY RunAssumption, FS_Subset, FS_CardinalityType DEF Running
<1>2. IsFiniteSet(locked) /\ Cardinality(locked) \in Nat
  BY PrunedIsLocked
<1>3. Cardinality(locked) <= MaxConcurrent
  BY <1>2, FS_Subset, FS_CardinalityType, QuotaAssumption
     DEF SlotInv, SlotTypeOK, FilesBounded
<1>4. Cardinality(Running) <= Cardinality(locked)
  <2> DEFINE f == [r \in Running |-> LeaseOf(r, runGen[r])]
  <2>1. f \in [Running -> locked]
    BY DEF SlotInv, LocksAreRuns
  <2>2. \A q, r \in Running : f[q] = f[r] => q = r
    BY LeaseFields
  <2> HIDE DEF f
  <2>3. ASSUME Cardinality(locked) < Cardinality(Running) PROVE FALSE
    <3>1. \E q, r \in Running : q # r /\ f[q] = f[r]
      BY <1>1, <1>2, <2>1, <2>3, FS_PigeonHole
    <3> QED BY <2>2, <3>1
  <2> QED BY <1>1, <1>2, <2>3
<1> QED BY <1>1, <1>2, <1>3, <1>4, QuotaAssumption DEF QuotaHeld, SlotInv, LocksAreRuns

\* No more managed runs are alive than the quota allows, and each has its lease
\* file and its lock, however processes die and release (run_concurrency.py:139-289).
THEOREM QuotaAlwaysHeld == SlotSpec => [](QuotaHeld /\ FilesBounded)
<1>1. SlotInv => QuotaHeld /\ FilesBounded
  BY RunsWithinQuota DEF SlotInv
<1> QED BY <1>1, SlotBegins, SlotStep, PTL DEF SlotSpec
==============================================================================
