------------------------ MODULE GenerationSwitch_proofs ----------------------
(***************************************************************************)
(* Theorems about installing a generation, for any runs, generations,      *)
(* policies, profiles and numbers of transactions, faults and deaths.      *)
(*                                                                         *)
(* The installer is a list of steps still to do.  The invariant says which *)
(* lists there are (Plan: what may come after what) and what holds of the  *)
(* journal, the resources and the fence at the points a list can be at.     *)
(***************************************************************************)
EXTENDS GenerationSwitch, RunSlots_proofs, SequenceTheorems, TLAPS

-----------------------------------------------------------------------------
(* What the installer still has to do. *)

Closing == {"readback", "clear_fence", "clear_active"}

Step == [op : {"append", "write", "verify", "fence", "recheck"} \cup Closing,
         arg : ToSet(Stages) \cup Resource \cup {"no_argument"}, gen : Gen \cup {NoGen}]

Installation == [mode : {"off", "forward", "recover", "undo"}, id : Nat, stage : ToSet(Stages),
                 seen : Fence \cup {NoFence}, verified : BOOLEAN, errors : BOOLEAN,
                 todo : Seq(Step)]

\* A stage that says what generation the resources have.
Confirms(s, t) == CASE s \in {"postconditions_verified", "committed"} -> t.to
                    [] s = "rolled_back" -> t.from
                    [] OTHER -> NoGen

\* One step of a plan for the transaction t.
StepFits(a, t) ==
  /\ a.op = "append" => a.arg \in ToSet(Stages) \ {"none"}
  /\ a.op = "write" => a.arg \in Resource
  /\ a.op = "verify" => a.gen \in {t.from, t.to}

\* May b come somewhere after a?  The resources are checked once, what is still
\* written after that leaves them as they were found, and the journal may say
\* so only then; what closes the transaction comes last.
After(a, b, t) ==
  /\ a.op \in {"readback", "clear_fence"} => b.op \in {"clear_fence", "clear_active"}
  /\ a.op # "clear_active"
  /\ a.op = "append" /\ a.arg = "committed" => b.op \in Closing
  /\ a.op = "append" /\ Confirms(a.arg, t) # NoGen => b.op # "verify"
  /\ a.op = "verify" => /\ b.op # "verify"
                        /\ b.op = "write" => b.gen = a.gen
                        /\ b.op = "append" => Confirms(b.arg, t) = a.gen
  /\ b.op = "recheck" => a.op = "fence" \/ (a.op = "append" /\ a.arg = "prepared")
  /\ b.op = "fence" => a.op = "append" /\ a.arg = "prepared"

\* A list of steps that can be carried out for the transaction t.
Plan(todo, t) ==
  /\ todo # <<>> /\ todo[Len(todo)].op \in {"clear_fence", "clear_active"}
  /\ \A i \in DOMAIN todo : StepFits(todo[i], t)
  /\ \A i \in DOMAIN todo :
       todo[i].op = "fence" => i + 1 \in DOMAIN todo /\ todo[i + 1].op = "recheck"
  /\ \A i, j \in DOMAIN todo : i < j => After(todo[i], todo[j], t)
  /\ \A i \in DOMAIN todo :
       todo[i].op = "append" => \E j \in DOMAIN todo : i < j /\ todo[j].op = "readback"

\* Is a step of that kind still to come?
Left(o) == \E i \in DOMAIN Todo : Todo[i].op = o

\* The transaction the installer works on.
Own == txns[inst.id]

\* Nothing but the first journal record has been written.
Unswitched ==
  /\ Own.stage \in {"none", "prepared"}
  /\ Verified(Own.from)

\* The resources have been looked at, and what is still to come leaves them so.
Settled ==
  \E g \in {Own.from, Own.to} :
    /\ Verified(g)
    /\ \A i \in DOMAIN Todo :
         /\ Todo[i].op = "write" => Todo[i].gen = g
         /\ Todo[i].op = "append" => Confirms(Todo[i].arg, Own) = g

\* The installer's list at every moment.
InstallerKeepsPlan ==
  inst.mode # "off" =>
    /\ inst.id \in DOMAIN txns
    /\ Plan(Todo, Own)
    /\ inst.id # active => \A i \in DOMAIN Todo : Todo[i].op \in {"verify", "readback", "clear_fence"}
    /\ ~Left("readback") => Own.stage \in Terminal
    /\ ~Left("verify") => Settled
    /\ Left("recheck") => inst.mode = "forward" /\ Unswitched

\* A forward install believes what the journal says, and has undone nothing.
ForwardBelieves ==
  inst.mode = "forward" =>
    /\ inst.id = active
    /\ inst.stage = Own.stage
    /\ inst.stage \notin {"rollback_started", "rolled_back"}
    /\ \A i \in DOMAIN Todo :
         /\ Todo[i].op = "append" => Todo[i].arg \notin {"rollback_started", "rolled_back"}
         /\ Todo[i].op = "verify" => Todo[i].gen = Own.to
    /\ ~inst.verified => Left("readback")

\* With no transaction open the resources are of one generation.
ClosedIsUniform == active = 0 => \E g \in Gen : Verified(g)

\* A fence is bound to a blocking transaction and admits its target.
FenceBound ==
  fence # NoFence =>
    /\ fence.id \in DOMAIN txns
    /\ fence.to = txns[fence.id].to
    /\ txns[fence.id].block

SwitchTyped ==
  /\ live \in [Resource -> Gen \cup {NoGen}]
  /\ txns \in Seq(Txn) /\ Len(txns) <= MaxInstall
  /\ \A t \in DOMAIN txns : txns[t].from # txns[t].to
  /\ active \in 0..Len(txns)
  /\ fence \in Fence \cup {NoFence}
  /\ fenceLock \in Run \cup {Installer, Nobody}
  /\ inst \in Installation
  /\ inst.mode = "off" => inst = InstOff
  /\ faults \in 0..MaxFault

SwitchInv ==
  /\ SwitchTyped /\ InstallerKeepsPlan /\ ForwardBelieves
  /\ ClosedIsUniform /\ FenceBound /\ FenceHasAuthority

-----------------------------------------------------------------------------
(* What the journal says of the resources. *)

StartOf(res) ==
  CASE res = "registry" -> "registry_remove_started"
    [] res = "launcher" -> "launcher_publish_started"
    [] res = "deployment" -> "deployment_publish_started"
    [] OTHER -> "scheduler_reconcile_started"

\* Every write of the list comes after the journal record that announces it.
WritesAnnounced ==
  inst.mode # "off" =>
    \A j \in DOMAIN Todo : Todo[j].op = "write" =>
      \/ StageRank(Own.stage) >= StageRank(StartOf(Todo[j].arg))
      \/ \E i \in DOMAIN Todo :
           /\ i < j /\ Todo[i].op = "append"
           /\ StageRank(Todo[i].arg) >= StageRank(StartOf(Todo[j].arg))

\* What undoes a verified install comes after the record that it is undone.
UndoAnnounced ==
  inst.mode # "off" /\ Own.stage \in {"postconditions_verified", "committed"} =>
    \A j \in DOMAIN Todo : Todo[j].op = "write" =>
      \/ Todo[j].gen = Own.to /\ inst.mode = "forward"
      \/ \E i \in DOMAIN Todo : i < j /\ Todo[i] = AppendOf("rollback_started")

\* A forward install that has recorded its commit has only to read it back.
CommitIsRead ==
  inst.mode = "forward" /\ inst.stage = "committed" =>
    \A i \in DOMAIN Todo : Todo[i].op \in Closing

\* What is put back or confirmed is recorded as that.
BackwardRecords ==
  inst.mode \in {"recover", "undo"} =>
    \A i \in DOMAIN Todo :
      Todo[i].op = "append" => Todo[i].arg \in {"rollback_started", "rolled_back", "committed"}

\* Only a legacy install undoes itself in its handler.
UndoIsLegacy == inst.mode = "undo" => ~Own.gapFree

ListAnnounced ==
  WritesAnnounced /\ UndoAnnounced /\ CommitIsRead /\ BackwardRecords /\ UndoIsLegacy

\* The same, but for a legacy handler whose undoing is not in the journal.
SaysOrUndoes == BackwardRecords /\ UndoIsLegacy /\ (UndoesUnjournaled \/ ListAnnounced)

\* The journal leads the resources of the transaction that owns recovery.
Leads ==
  active # 0 =>
    /\ \A res \in Resource : live[res] # txns[active].from =>
         StageRank(txns[active].stage) >= StageRank(StartOf(res))
    /\ txns[active].stage \in {"postconditions_verified", "committed"} => Verified(txns[active].to)

-----------------------------------------------------------------------------
(* Which runs are admitted. *)

UnderWay(s) ==
  StageRank(s) \in StageRank("registry_remove_started")..StageRank("committed")

\* The fence lock is held by the run in its admission section, or by the
\* installer from publishing its fence to checking the leases again.
LockIsSection ==
  /\ \A r \in Run : fenceLock = r <=> r \in FencedRun /\ pc[r] = "created"
  /\ fenceLock = Installer <=> At("recheck")
  /\ Left("recheck") => At("recheck") \/ Left("fence")

\* No fenced run of another generation holds a slot or is about to.
OthersOut == \A r \in FencedRun : pc[r] \in {"created", "running"} => runGen[r] = fence.to

\* Whatever needs the others out comes after the check.
NotYet ==
  LET t == txns[active]
  IN /\ ~UnderWay(t.stage)
     /\ \A res \in Resource : live[res] # t.to
     /\ inst.mode # "off" =>
          \/ Left("recheck")
          \/ \A i \in DOMAIN Todo :
               /\ Todo[i].op = "write" => Todo[i].gen # Own.to
               /\ Todo[i].op = "append" => ~UnderWay(Todo[i].arg)

FenceExcludes == fence # NoFence /\ fence.id = active => OthersOut \/ NotYet

ExclusionInv == SwitchInv /\ SlotInv /\ LockIsSection /\ FenceExcludes
-----------------------------------------------------------------------------
(* The order of the stages. *)

\* The list of the stages, written out.
LEMMA StageList ==
  /\ DOMAIN Stages = 1..16
  /\ Stages[1] = "none" /\ Stages[2] = "prepared"
  /\ Stages[3] = "registry_remove_started" /\ Stages[4] = "registry_removed"
  /\ Stages[5] = "registry_add_started" /\ Stages[6] = "registry_added"
  /\ Stages[7] = "launcher_publish_started" /\ Stages[8] = "launcher_published"
  /\ Stages[9] = "deployment_publish_started" /\ Stages[10] = "deployment_published"
  /\ Stages[11] = "scheduler_reconcile_started" /\ Stages[12] = "scheduler_reconciled"
  /\ Stages[13] = "postconditions_verified" /\ Stages[14] = "committed"
  /\ Stages[15] = "rollback_started" /\ Stages[16] = "rolled_back"
  BY DEF Stages

\* The rank of every stage.
LEMMA Ranks ==
  /\ StageRank("none") = 1 /\ StageRank("prepared") = 2
  /\ StageRank("registry_remove_started") = 3 /\ StageRank("registry_removed") = 4
  /\ StageRank("registry_add_started") = 5 /\ StageRank("registry_added") = 6
  /\ StageRank("launcher_publish_started") = 7 /\ StageRank("launcher_published") = 8
  /\ StageRank("deployment_publish_started") = 9 /\ StageRank("deployment_published") = 10
  /\ StageRank("scheduler_reconcile_started") = 11 /\ StageRank("scheduler_reconciled") = 12
  /\ StageRank("postconditions_verified") = 13 /\ StageRank("committed") = 14
  /\ StageRank("rollback_started") = 15 /\ StageRank("rolled_back") = 16
<1>2. \A i, j \in DOMAIN Stages : Stages[i] = Stages[j] => i = j
  BY DEF Stages
<1>3. \A i \in 1..16 : StageRank(Stages[i]) = i
  BY <1>2, StageList DEF StageRank
<1> QED BY <1>3, StageList

\* The stages, named.
LEMMA StagesNamed ==
  /\ ToSet(Stages) =
       {"none", "prepared", "registry_remove_started",
        "registry_removed", "registry_add_started", "registry_added",
        "launcher_publish_started", "launcher_published", "deployment_publish_started",
        "deployment_published", "scheduler_reconcile_started", "scheduler_reconciled",
        "postconditions_verified", "committed", "rollback_started",
        "rolled_back"}
  /\ \A s \in ToSet(Stages) : StageRank(s) \in 1..16
<1>1. ToSet(Stages) =
       {"none", "prepared", "registry_remove_started",
        "registry_removed", "registry_add_started", "registry_added",
        "launcher_publish_started", "launcher_published", "deployment_publish_started",
        "deployment_published", "scheduler_reconcile_started", "scheduler_reconciled",
        "postconditions_verified", "committed", "rollback_started",
        "rolled_back"}
  <2>1. \A x : x \in ToSet(Stages) <=> \E i \in 1..16 : x = Stages[i]
    BY StageList DEF ToSet
  <2> QED BY <2>1, StageList
<1> QED BY <1>1, Ranks

-----------------------------------------------------------------------------
(* Lists of steps. *)

\* What is left of a list after its first step.
LEMMA Rest ==
  ASSUME NEW S, NEW s \in Seq(S), s # <<>>
  PROVE  /\ Tail(s) \in Seq(S) /\ Len(s) \in Nat /\ Len(s) >= 1
         /\ Head(s) = s[1] /\ s[1] \in S /\ Len(Tail(s)) = Len(s) - 1
         /\ DOMAIN s = 1..Len(s) /\ DOMAIN Tail(s) = 1..(Len(s) - 1)
         /\ \A i \in 1..(Len(s) - 1) : i + 1 \in 1..Len(s) /\ Tail(s)[i] = s[i + 1]
         /\ \A i \in 2..Len(s) : i - 1 \in 1..(Len(s) - 1) /\ s[i] = Tail(s)[i - 1]
<1>1. /\ Tail(s) \in Seq(S) /\ Len(s) \in Nat /\ Len(s) >= 1 /\ DOMAIN s = 1..Len(s)
      /\ Head(s) = s[1] /\ Len(Tail(s)) = Len(s) - 1 /\ s[1] \in S
      /\ \A i \in 1..(Len(s) - 1) : Tail(s)[i] = s[i + 1]
  OBVIOUS
<1>2. DOMAIN Tail(s) = 1..(Len(s) - 1)
  BY <1>1
<1> QED BY <1>1, <1>2

\* A plan whose first step is done is a plan, unless that step was its last.
LEMMA PlanGoesOn ==
  ASSUME NEW t, NEW s \in Seq(Step), Plan(s, t),
         s[1].op \notin {"clear_fence", "clear_active"} \/ Len(s) # 1
  PROVE  Plan(Tail(s), t)
<1> DEFINE n == Len(s)
           u == Tail(s)
<1>1. s # <<>>
  BY DEF Plan
<1>2. /\ n \in Nat /\ n >= 1 /\ DOMAIN s = 1..n /\ DOMAIN u = 1..(n - 1) /\ Len(u) = n - 1
      /\ \A i \in 1..(n - 1) : i + 1 \in 1..n /\ u[i] = s[i + 1]
  BY <1>1, Rest
<1>3. n >= 2
  BY <1>2 DEF Plan
<1> HIDE DEF n, u
<1>4. u # <<>> /\ u[Len(u)].op \in {"clear_fence", "clear_active"}
  <2>1. u[n - 1] = s[n] /\ s[n].op \in {"clear_fence", "clear_active"}
    BY <1>2, <1>3 DEF Plan, n
  <2>2. u # <<>>
    BY <1>2, <1>3
  <2> QED BY <1>2, <2>1, <2>2
<1>5. \A i \in DOMAIN u : StepFits(u[i], t)
  BY <1>2 DEF Plan
<1>6. \A i \in DOMAIN u :
        u[i].op = "fence" => i + 1 \in DOMAIN u /\ u[i + 1].op = "recheck"
  <2> SUFFICES ASSUME NEW i \in 1..(n - 1), u[i].op = "fence"
               PROVE  i + 1 \in 1..(n - 1) /\ u[i + 1].op = "recheck"
    BY <1>2
  <2>1. (i + 1) + 1 \in 1..n /\ s[(i + 1) + 1].op = "recheck"
    BY <1>2 DEF Plan
  <2>2. i + 1 \in 1..(n - 1)
    BY <1>2, <2>1
  <2> QED BY <1>2, <2>1, <2>2
<1>7. \A i, j \in DOMAIN u : i < j => After(u[i], u[j], t)
  <2> SUFFICES ASSUME NEW i \in 1..(n - 1), NEW j \in 1..(n - 1), i < j
               PROVE  After(u[i], u[j], t)
    BY <1>2
  <2>1. i + 1 \in 1..n /\ j + 1 \in 1..n /\ i + 1 < j + 1
    BY <1>2
  <2>2. After(s[i + 1], s[j + 1], t)
    BY <1>2, <2>1 DEF Plan
  <2> QED BY <1>2, <2>2
<1>8. \A i \in DOMAIN u :
        u[i].op = "append" => \E j \in DOMAIN u : i < j /\ u[j].op = "readback"
  <2> SUFFICES ASSUME NEW i \in 1..(n - 1), u[i].op = "append"
               PROVE  \E j \in 1..(n - 1) : i < j /\ u[j].op = "readback"
    BY <1>2
  <2>1. PICK j \in 1..n : i + 1 < j /\ s[j].op = "readback"
    BY <1>2 DEF Plan
  <2>2. j - 1 \in 1..(n - 1) /\ i < j - 1 /\ u[j - 1] = s[(j - 1) + 1] /\ (j - 1) + 1 = j
    BY <1>2, <2>1
  <2> QED BY <2>1, <2>2
<1> QED BY <1>4, <1>5, <1>6, <1>7, <1>8 DEF Plan, u

-----------------------------------------------------------------------------
(* The lists that the installer starts. *)

\* Steps are of their type.
LEMMA StepsTyped ==
  /\ \A s \in ToSet(Stages) : AppendOf(s) \in Step
  /\ \A res \in Resource, g \in Gen \cup {NoGen} : WriteOf(res, g) \in Step
  /\ \A g \in Gen \cup {NoGen} : VerifyOf(g) \in Step
  /\ \A o \in Closing \cup {"fence", "recheck"} : StepOf(o) \in Step
BY DEF AppendOf, WriteOf, VerifyOf, StepOf, Step

\* A forward install has 25 steps.
LEMMA ForwardTyped ==
  ASSUME NEW to \in Gen
  PROVE  /\ ForwardScript(to) \in Seq(Step) /\ Len(ForwardScript(to)) = 25
         /\ DOMAIN ForwardScript(to) = 1..25
<1>1. Finish \in Seq(Step)
  BY StepsTyped DEF Finish, Closing
<1>2. ForwardScript(to) \in Seq(Step)
  BY <1>1, StepsTyped, StagesNamed DEF Closing, Resource, ForwardScript
<1>3. Len(ForwardScript(to)) = 25 /\ DOMAIN ForwardScript(to) = 1..25
  BY DEF ForwardScript, Finish
<1> QED BY <1>2, <1>3

\* What they do.
LEMMA ForwardOps ==
  ASSUME NEW to
  PROVE
    /\ ForwardScript(to)[1].op = "append" /\ ForwardScript(to)[2].op = "fence"
    /\ ForwardScript(to)[3].op = "recheck" /\ ForwardScript(to)[4].op = "append"
    /\ ForwardScript(to)[5].op = "write" /\ ForwardScript(to)[6].op = "append"
    /\ ForwardScript(to)[7].op = "append" /\ ForwardScript(to)[8].op = "write"
    /\ ForwardScript(to)[9].op = "append" /\ ForwardScript(to)[10].op = "append"
    /\ ForwardScript(to)[11].op = "write" /\ ForwardScript(to)[12].op = "append"
    /\ ForwardScript(to)[13].op = "append" /\ ForwardScript(to)[14].op = "write"
    /\ ForwardScript(to)[15].op = "append" /\ ForwardScript(to)[16].op = "append"
    /\ ForwardScript(to)[17].op = "write" /\ ForwardScript(to)[18].op = "append"
    /\ ForwardScript(to)[19].op = "verify" /\ ForwardScript(to)[20].op = "append"
    /\ ForwardScript(to)[21].op = "write" /\ ForwardScript(to)[22].op = "append"
    /\ ForwardScript(to)[23].op = "readback" /\ ForwardScript(to)[24].op = "clear_fence"
    /\ ForwardScript(to)[25].op = "clear_active"
BY DEF ForwardScript, Finish, AppendOf, WriteOf, VerifyOf, StepOf

\* What they append, write and verify.
LEMMA ForwardArgs ==
  ASSUME NEW to
  PROVE
    /\ ForwardScript(to)[1].arg = "prepared" /\ ForwardScript(to)[4].arg = "registry_remove_started"
    /\ ForwardScript(to)[5].arg = "registry" /\ ForwardScript(to)[6].arg = "registry_removed"
    /\ ForwardScript(to)[7].arg = "registry_add_started" /\ ForwardScript(to)[8].arg = "registry"
    /\ ForwardScript(to)[9].arg = "registry_added" /\ ForwardScript(to)[10].arg = "launcher_publish_started"
    /\ ForwardScript(to)[11].arg = "launcher" /\ ForwardScript(to)[12].arg = "launcher_published"
    /\ ForwardScript(to)[13].arg = "deployment_publish_started" /\ ForwardScript(to)[14].arg = "deployment"
    /\ ForwardScript(to)[15].arg = "deployment_published"
    /\ ForwardScript(to)[16].arg = "scheduler_reconcile_started"
    /\ ForwardScript(to)[17].arg = "scheduler" /\ ForwardScript(to)[18].arg = "scheduler_reconciled"
    /\ ForwardScript(to)[20].arg = "postconditions_verified" /\ ForwardScript(to)[21].arg = "launcher"
    /\ ForwardScript(to)[22].arg = "committed"
    /\ ForwardScript(to)[8].gen = to /\ ForwardScript(to)[11].gen = to
    /\ ForwardScript(to)[14].gen = to /\ ForwardScript(to)[17].gen = to
    /\ ForwardScript(to)[19].gen = to /\ ForwardScript(to)[21].gen = to
BY DEF ForwardScript, Finish, AppendOf, WriteOf, VerifyOf, StepOf

\* A list that installs the target of the transaction t: it writes nothing its
\* journal has not announced, and undoes nothing.
Forward(F, t) ==
  /\ F \in Seq(Step) /\ Plan(F, t)
  /\ \E i \in DOMAIN F : F[i].op = "recheck"
  /\ \E i \in DOMAIN F : F[i].op = "verify"
  /\ \E i \in DOMAIN F : F[i].op = "readback"
  /\ \E i \in DOMAIN F : F[i].op = "fence"
  /\ F[1].op = "append"
  /\ \A i \in DOMAIN F :
       /\ F[i].op = "append" => F[i].arg \notin {"rollback_started", "rolled_back"}
       /\ F[i].op = "verify" => F[i].gen = t.to
  /\ \A j \in DOMAIN F : F[j].op = "write" =>
       \E i \in DOMAIN F :
         /\ i < j /\ F[i].op = "append"
         /\ StageRank(F[i].arg) >= StageRank(StartOf(F[j].arg))

\* A forward install carries out a plan.
LEMMA ForwardIsPlan ==
  ASSUME NEW t \in Txn, NEW F, F = ForwardScript(t.to)
  PROVE  Forward(F, t)
<1> DEFINE to == t.to
<1>1. to \in Gen
  BY DEF Txn
<1>2. /\ F \in Seq(Step) /\ Len(F) = 25 /\ DOMAIN F = 1..25
  BY <1>1, ForwardTyped
<1>3.
      /\ F[1].op = "append" /\ F[2].op = "fence" /\ F[3].op = "recheck"
      /\ F[4].op = "append" /\ F[5].op = "write" /\ F[6].op = "append"
      /\ F[7].op = "append" /\ F[8].op = "write" /\ F[9].op = "append"
      /\ F[10].op = "append" /\ F[11].op = "write" /\ F[12].op = "append"
      /\ F[13].op = "append" /\ F[14].op = "write" /\ F[15].op = "append"
      /\ F[16].op = "append" /\ F[17].op = "write" /\ F[18].op = "append"
      /\ F[19].op = "verify" /\ F[20].op = "append" /\ F[21].op = "write"
      /\ F[22].op = "append" /\ F[23].op = "readback" /\ F[24].op = "clear_fence"
      /\ F[25].op = "clear_active"
  BY ForwardOps
<1>4.
      /\ F[1].arg = "prepared" /\ F[4].arg = "registry_remove_started"
      /\ F[5].arg = "registry" /\ F[6].arg = "registry_removed"
      /\ F[7].arg = "registry_add_started" /\ F[8].arg = "registry"
      /\ F[9].arg = "registry_added" /\ F[10].arg = "launcher_publish_started"
      /\ F[11].arg = "launcher" /\ F[12].arg = "launcher_published"
      /\ F[13].arg = "deployment_publish_started" /\ F[14].arg = "deployment"
      /\ F[15].arg = "deployment_published" /\ F[16].arg = "scheduler_reconcile_started"
      /\ F[17].arg = "scheduler" /\ F[18].arg = "scheduler_reconciled"
      /\ F[20].arg = "postconditions_verified" /\ F[21].arg = "launcher"
      /\ F[22].arg = "committed"
      /\ F[8].gen = to /\ F[11].gen = to /\ F[14].gen = to /\ F[17].gen = to
      /\ F[19].gen = to /\ F[21].gen = to
  BY ForwardArgs
<1>5. \A i \in 1..25 :
        \/ i = 1 \/ i = 2 \/ i = 3 \/ i = 4 \/ i = 5 \/ i = 6 \/ i = 7
        \/ i = 8 \/ i = 9 \/ i = 10 \/ i = 11 \/ i = 12 \/ i = 13 \/ i = 14
        \/ i = 15 \/ i = 16 \/ i = 17 \/ i = 18 \/ i = 19 \/ i = 20 \/ i = 21
        \/ i = 22 \/ i = 23 \/ i = 24 \/ i = 25
  BY <1>2
<1> HIDE DEF to
<1>6. /\ \A i \in 1..25 : F[i].op = "write" <=> i \in {5, 8, 11, 14, 17, 21}
      /\ \A i \in 1..25 : F[i].op = "fence" <=> i = 2
      /\ \A i \in 1..25 : F[i].op = "recheck" <=> i = 3
      /\ \A i \in 1..25 : F[i].op = "verify" <=> i = 19
      /\ \A i \in 1..25 : F[i].op = "readback" <=> i = 23
      /\ \A i \in 1..25 : F[i].op = "clear_fence" <=> i = 24
      /\ \A i \in 1..25 : F[i].op = "clear_active" <=> i = 25
  BY <1>3, <1>5, SMTT(30)
<1>7. \A i \in 1..25 : F[i].op = "append" =>
        /\ i <= 22 /\ F[i].arg \in ToSet(Stages) \ {"none", "rollback_started", "rolled_back"}
        /\ F[i].arg = "committed" <=> i = 22
        /\ F[i].arg = "postconditions_verified" <=> i = 20
        /\ F[i].arg = "prepared" <=> i = 1
  BY <1>3, <1>4, <1>5, StagesNamed
<1>8. \A i \in {5, 8, 11, 14, 17, 21} : F[i].arg \in Resource
  BY <1>4 DEF Resource
<1>9. \A i \in 1..25 : StepFits(F[i], t)
  <2> TAKE i \in 1..25
  <2>1. F[i].op = "append" => F[i].arg \in ToSet(Stages) \ {"none"}
    BY <1>7
  <2>2. F[i].op = "write" => F[i].arg \in Resource
    BY <1>6, <1>8
  <2>3. F[i].op = "verify" => F[i].gen = F[19].gen
    BY <1>6
  <2>4. F[19].gen = t.to
    BY <1>4 DEF to
  <2> QED BY <2>1, <2>2, <2>3, <2>4 DEF StepFits
<1>10. \A i, j \in 1..25 : i < j => After(F[i], F[j], t)
  <2> SUFFICES ASSUME NEW i \in 1..25, NEW j \in 1..25, i < j
               PROVE  After(F[i], F[j], t)
    OBVIOUS
  <2>1. t.to \in Gen /\ NoGen \notin Gen
    BY GenAssumption DEF Txn
  <2>2. F[i].op = "append" => (Confirms(F[i].arg, t) # NoGen => i >= 20)
    BY <1>7 DEF Confirms
  <2>3. F[j].op = "append" => (j >= 20 => Confirms(F[j].arg, t) = to)
    <3>1. F[j].op = "append" /\ j >= 20 => j \in {20, 22}
      BY <1>6, <1>3, <1>5
    <3> QED BY <3>1, <1>7 DEF Confirms, to
  <2>4. F[j].op = "append" \/ F[j].op = "write" \/ j \in {2, 3, 19, 23, 24, 25}
    BY <1>3, <1>5
  <2>5. F[i].op \in {"readback", "clear_fence"} => F[j].op \in {"clear_fence", "clear_active"}
    BY <1>3, <1>6
  <2>6. F[i].op # "clear_active"
    BY <1>6
  <2>7. F[i].op = "append" /\ F[i].arg = "committed" => F[j].op \in Closing
    BY <1>3, <1>7 DEF Closing
  <2>8. F[i].op = "append" /\ Confirms(F[i].arg, t) # NoGen => F[j].op # "verify"
    BY <1>6, <2>2
  <2>9. F[i].op = "verify" => /\ F[j].op # "verify"
                              /\ F[j].op = "write" => F[j].gen = F[i].gen
                              /\ F[j].op = "append" => Confirms(F[j].arg, t) = F[i].gen
    BY <1>4, <1>6, <2>3
  <2>10. F[j].op = "recheck" => F[i].op = "fence" \/ (F[i].op = "append" /\ F[i].arg = "prepared")
    BY <1>3, <1>4, <1>6, SMTT(30)
  <2>11. F[j].op = "fence" => F[i].op = "append" /\ F[i].arg = "prepared"
    BY <1>3, <1>4, <1>6, SMTT(30)
  <2> QED BY <2>5, <2>6, <2>7, <2>8, <2>9, <2>10, <2>11 DEF After
<1>11. \A j \in 1..25 : F[j].op = "write" =>
         \E i \in 1..25 :
           /\ i < j /\ F[i].op = "append"
           /\ StageRank(F[i].arg) >= StageRank(StartOf(F[j].arg))
  <2> SUFFICES ASSUME NEW j \in 1..25, F[j].op = "write"
               PROVE  \E i \in 1..25 :
                        /\ i < j /\ F[i].op = "append"
                        /\ StageRank(F[i].arg) >= StageRank(StartOf(F[j].arg))
    OBVIOUS
  <2>0. j \in {5, 8, 11, 14, 17, 21}
    BY <1>6
  <2> USE Ranks, <1>3, <1>4 DEF StartOf
  <2>1. CASE j = 5
    <3>1. 4 \in 1..25
      BY <1>2
    <3> QED BY <3>1, <2>1
  <2>2. CASE j = 8
    <3>1. 4 \in 1..25
      BY <1>2
    <3> QED BY <3>1, <2>2
  <2>3. CASE j = 11
    <3>1. 10 \in 1..25
      BY <1>2
    <3> QED BY <3>1, <2>3
  <2>4. CASE j = 14
    <3>1. 13 \in 1..25
      BY <1>2
    <3> QED BY <3>1, <2>4
  <2>5. CASE j = 17
    <3>1. 16 \in 1..25
      BY <1>2
    <3> QED BY <3>1, <2>5
  <2>6. CASE j = 21
    <3>1. 10 \in 1..25
      BY <1>2
    <3> QED BY <3>1, <2>6
  <2> QED BY <2>0, <2>1, <2>2, <2>3, <2>4, <2>5, <2>6
<1>12. F # <<>> /\ F[Len(F)].op \in {"clear_fence", "clear_active"}
  BY <1>2, <1>3
<1>13. /\ \A i \in 1..25 : F[i].op = "fence" => i + 1 \in 1..25 /\ F[i + 1].op = "recheck"
       /\ \A i \in 1..25 :
            F[i].op = "append" => \E j \in 1..25 : i < j /\ F[j].op = "readback"
  <2>1. \A i \in 1..25 : F[i].op = "fence" => i + 1 = 3
    BY <1>6
  <2>2. \A i \in 1..25 : F[i].op = "append" => i < 23
    BY <1>7
  <2>3. 3 \in 1..25 /\ F[3].op = "recheck" /\ 23 \in 1..25 /\ F[23].op = "readback"
    BY <1>3
  <2> QED BY <2>1, <2>2, <2>3
<1>14. Plan(F, t)
  <2>1. DOMAIN F = 1..25
    BY <1>2
  <2>2. \A i \in DOMAIN F : StepFits(F[i], t)
    BY <2>1, <1>9
  <2>3. \A i, j \in DOMAIN F : i < j => After(F[i], F[j], t)
    BY <2>1, <1>10
  <2>4. \A i \in DOMAIN F : F[i].op = "fence" => i + 1 \in DOMAIN F /\ F[i + 1].op = "recheck"
    BY <2>1, <1>13
  <2>5. \A i \in DOMAIN F :
          F[i].op = "append" => \E j \in DOMAIN F : i < j /\ F[j].op = "readback"
    BY <2>1, <1>13, SMTT(30)
  <2> QED BY <2>2, <2>3, <2>4, <2>5, <1>12 DEF Plan
<1>15. /\ F[3].op = "recheck" /\ F[19].op = "verify" /\ F[23].op = "readback"
       /\ F[2].op = "fence" /\ {2, 3, 19, 23} \subseteq 1..25
  BY <1>2, <1>3
<1>16. \A i \in 1..25 :
         /\ F[i].op = "append" => F[i].arg \notin {"rollback_started", "rolled_back"}
         /\ F[i].op = "verify" => F[i].gen = t.to
  <2> TAKE i \in 1..25
  <2>1. F[i].op = "append" => F[i].arg \notin {"rollback_started", "rolled_back"}
    BY <1>7
  <2>2. F[i].op = "verify" => F[i].gen = F[19].gen
    BY <1>6
  <2>3. F[19].gen = t.to
    BY <1>4 DEF to
  <2> QED BY <2>1, <2>2, <2>3
<1>17. F \in Seq(Step) /\ F[1].op = "append"
  BY <1>2, <1>3
<1> QED
  <2>1. DOMAIN F = 1..25
    BY <1>2
  <2>2. \A j \in DOMAIN F : F[j].op = "write" =>
          \E i \in DOMAIN F :
            /\ i < j /\ F[i].op = "append"
            /\ StageRank(F[i].arg) >= StageRank(StartOf(F[j].arg))
    BY <2>1, <1>11
  <2>3. \A i \in DOMAIN F :
          /\ F[i].op = "append" => F[i].arg \notin {"rollback_started", "rolled_back"}
          /\ F[i].op = "verify" => F[i].gen = t.to
    BY <2>1, <1>16
  <2>4. {2, 3, 19, 23} \subseteq DOMAIN F
    BY <2>1
  <2> QED BY <2>2, <2>3, <2>4, <1>14, <1>15, <1>17 DEF Forward

\* A list that puts back what the transaction t found.
Back(S, t) ==
  /\ S \in Seq(Step) /\ Plan(S, t)
  /\ \E i \in DOMAIN S : S[i].op = "verify"
  /\ \E i \in DOMAIN S : S[i].op = "readback"
  /\ \A i \in DOMAIN S :
       /\ S[i].op \notin {"fence", "recheck"}
       /\ S[i].op = "append" => S[i].arg \in {"rollback_started", "rolled_back"}
       /\ S[i].op = "write" => S[i].gen = t.from

\* A list that looks at the resources and closes the transaction t.
Confirm(S, t) ==
  /\ S \in Seq(Step) /\ Plan(S, t)
  /\ \E i \in DOMAIN S : S[i].op = "verify"
  /\ \A i \in DOMAIN S :
       /\ S[i].op \notin {"fence", "recheck", "write"}
       /\ S[i].op = "append" => S[i].arg = "committed"

\* How a rollback ends.
LEMMA UndoneSteps ==
  ASSUME NEW k, NEW t \in Txn, txns[k] = t
  PROVE  /\ Undone(k) \in Seq(Step) /\ Len(Undone(k)) = 5
         /\ Undone(k)[1].op = "verify" /\ Undone(k)[2].op = "append"
         /\ Undone(k)[3].op = "readback" /\ Undone(k)[4].op = "clear_fence"
         /\ Undone(k)[5].op = "clear_active"
         /\ Undone(k)[1].gen = t.from /\ Undone(k)[2].arg = "rolled_back"
<1>1. t.from \in Gen \cup {NoGen}
  BY DEF Txn
<1>2. Finish \in Seq(Step)
  BY StepsTyped DEF Finish, Closing
<1>3. Undone(k) \in Seq(Step)
  BY <1>1, <1>2, StepsTyped, StagesNamed DEF Undone
<1>4. Len(Undone(k)) = 5
  BY DEF Undone, Finish
<1>5. /\ Undone(k)[1].op = "verify" /\ Undone(k)[2].op = "append"
      /\ Undone(k)[3].op = "readback" /\ Undone(k)[4].op = "clear_fence"
      /\ Undone(k)[5].op = "clear_active"
      /\ Undone(k)[1].gen = t.from /\ Undone(k)[2].arg = "rolled_back"
  BY DEF Undone, Finish, AppendOf, VerifyOf, StepOf
<1> QED BY <1>3, <1>4, <1>5

\* The entries of a list put after one step and before another list.
LEMMA JoinThree ==
  ASSUME NEW a \in Step, NEW q \in Seq(Step), NEW u \in Seq(Step)
  PROVE  /\ <<a>> \o q \o u \in Seq(Step)
         /\ Len(<<a>> \o q \o u) = 1 + Len(q) + Len(u)
         /\ Len(q) \in Nat
         /\ (<<a>> \o q \o u)[1] = a
         /\ \A i \in 1..Len(q) : (<<a>> \o q \o u)[1 + i] = q[i]
         /\ \A i \in 1..Len(u) : (<<a>> \o q \o u)[1 + Len(q) + i] = u[i]
<1> DEFINE m == Len(q)
           n == Len(u)
<1>1. <<a>> \in Seq(Step) /\ 1 = Len(<<a>>) /\ <<a>>[1] = a /\ m \in Nat /\ n \in Nat
  OBVIOUS
<1>2. /\ <<a>> \o q \in Seq(Step) /\ Len(<<a>> \o q) = 1 + m 
  BY <1>1
<1>3. \A i \in 1..(1 + m) : (<<a>> \o q)[i] = IF i <= 1 THEN a ELSE q[i - 1]
  BY <1>1
<1>4. /\ <<a>> \o q \o u \in Seq(Step) /\ Len(<<a>> \o q \o u) = 1 + m + n
  BY <1>1
<1>5. \A i \in 1..(1 + m + n) : (<<a>> \o q \o u)[i] = IF i <= 1 + m THEN (<<a>> \o q)[i] ELSE u[i - (1 + m)]
  BY <1>1, <1>2
<1> DEFINE B == <<a>> \o q
           C == <<a>> \o q \o u
<1>6. \A i \in 1..(1 + m) : B[i] = IF i <= 1 THEN a ELSE q[i - 1]
  BY <1>3
<1>7. \A i \in 1..(1 + m + n) : C[i] = IF i <= 1 + m THEN B[i] ELSE u[i - (1 + m)]
  BY <1>5
<1> HIDE DEF B, C, m, n
<1>8. C[1] = a
  <2>1. 1 \in 1..(1 + m + n) /\ 1 <= 1 + m /\ 1 \in 1..(1 + m) /\ 1 <= 1
    BY <1>1
  <2> QED BY <1>6, <1>7, <2>1
<1>9. \A i \in 1..m : C[1 + i] = q[i]
  <2> TAKE i \in 1..m
  <2>1. /\ 1 + i \in 1..(1 + m + n) /\ 1 + i \in 1..(1 + m)
        /\ 1 + i <= 1 + m /\ ~(1 + i <= 1) /\ (1 + i) - 1 = i
    BY <1>1
  <2> QED BY <2>1, <1>6, <1>7
<1>10. \A i \in 1..n : C[1 + m + i] = u[i]
  <2> TAKE i \in 1..n
  <2>1. /\ 1 + m + i \in 1..(1 + m + n)
        /\ ~(1 + m + i <= 1 + m) /\ (1 + m + i) - (1 + m) = i
    BY <1>1
  <2> QED BY <2>1, <1>7
<1> QED BY <1>1, <1>4, <1>8, <1>9, <1>10 DEF C, m, n

\* A rollback, whatever it writes back, is a plan.
LEMMA RollbackIsPlan ==
  ASSUME NEW k, NEW t \in Txn, txns[k] = t, NEW q \in Seq(Step),
         \A i \in 1..Len(q) : q[i].op = "write" /\ q[i].arg \in Resource /\ q[i].gen = t.from
  PROVE  /\ Back(<<AppendOf("rollback_started")>> \o q \o Undone(k), t)
         /\ (<<AppendOf("rollback_started")>> \o q \o Undone(k))[1] = AppendOf("rollback_started")
<1> DEFINE n == Len(q)
           U == Undone(k)
           a == AppendOf("rollback_started")
           T == <<a>> \o q \o U
<1>1. t.from \in Gen /\ t.to \in Gen /\ NoGen \notin Gen
  BY GenAssumption DEF Txn
<1>2. a \in Step /\ a.op = "append" /\ a.arg = "rollback_started"
  BY StepsTyped, StagesNamed DEF AppendOf
<1>3. /\ U \in Seq(Step) /\ 5 = Len(U)
      /\ U[1].op = "verify" /\ U[2].op = "append" /\ U[3].op = "readback"
      /\ U[4].op = "clear_fence" /\ U[5].op = "clear_active"
      /\ U[1].gen = t.from /\ U[2].arg = "rolled_back"
  BY UndoneSteps
<1> HIDE DEF U, a
<1>4. /\ T \in Seq(Step) /\ Len(T) = 1 + Len(q) + 5 /\ Len(q) \in Nat /\ T[1] = a
      /\ \A i \in 1..Len(q) : T[1 + i] = q[i]
      /\ \A i \in 1..5 : T[1 + Len(q) + i] = U[i]
  <2>1. /\ <<a>> \o q \o U \in Seq(Step)
        /\ Len(<<a>> \o q \o U) = 1 + Len(q) + Len(U)
        /\ Len(q) \in Nat
        /\ (<<a>> \o q \o U)[1] = a
        /\ \A i \in 1..Len(q) : (<<a>> \o q \o U)[1 + i] = q[i]
        /\ \A i \in 1..Len(U) : (<<a>> \o q \o U)[1 + Len(q) + i] = U[i]
    BY <1>2, <1>3, JoinThree
  <2> HIDE DEF T
  <2>2. T = <<a>> \o q \o U
    BY DEF T
  <2>3. /\ T \in Seq(Step) /\ Len(T) = 1 + Len(q) + Len(U)
        /\ Len(q) \in Nat /\ T[1] = a
        /\ \A i \in 1..Len(q) : T[1 + i] = q[i]
        /\ \A i \in 1..Len(U) : T[1 + Len(q) + i] = U[i]
    BY <2>1, <2>2, Zenon
  <2> QED BY <2>3, <1>3
<1> HIDE DEF T
<1>5. /\ T \in Seq(Step) /\ Len(T) = n + 6 /\ n \in Nat /\ T[1] = a
      /\ \A i \in 1..n : T[1 + i] = q[i]
      /\ \A i \in 1..5 : T[1 + n + i] = U[i]
  <2>1. 1 + Len(q) + 5 = Len(q) + 6
    BY <1>4
  <2> QED BY <2>1, <1>4 DEF n
<1>n. n \in Nat
  BY <1>5
<1>6. \A i \in 1..n : q[i].op = "write" /\ q[i].arg \in Resource /\ q[i].gen = t.from
  OBVIOUS
<1> HIDE DEF n
<1>7. \A i \in 2..(n + 1) : T[i].op = "write" /\ T[i].arg \in Resource /\ T[i].gen = t.from
  <2> TAKE i \in 2..(n + 1)
  <2>1. i - 1 \in 1..n /\ 1 + (i - 1) = i
    BY <1>5
  <2>2. T[i] = q[i - 1]
    BY <2>1, <1>5
  <2> QED BY <2>1, <2>2, <1>6
<1>8. /\ T[n + 2] = U[1] /\ T[n + 3] = U[2] /\ T[n + 4] = U[3] /\ T[n + 5] = U[4]
      /\ T[n + 6] = U[5]
  <2>1. /\ T[1 + n + 1] = U[1] /\ T[1 + n + 2] = U[2] /\ T[1 + n + 3] = U[3]
        /\ T[1 + n + 4] = U[4] /\ T[1 + n + 5] = U[5]
    BY <1>5
  <2>2. /\ 1 + n + 1 = n + 2 /\ 1 + n + 2 = n + 3 /\ 1 + n + 3 = n + 4
        /\ 1 + n + 4 = n + 5 /\ 1 + n + 5 = n + 6
    BY <1>5
  <2> QED BY <2>1, <2>2
<1>9. /\ T[1].op = "append" /\ T[1].arg = "rollback_started"
      /\ T[n + 2].op = "verify" /\ T[n + 3].op = "append" /\ T[n + 4].op = "readback"
      /\ T[n + 5].op = "clear_fence" /\ T[n + 6].op = "clear_active"
      /\ T[n + 2].gen = t.from /\ T[n + 3].arg = "rolled_back"
  BY <1>2, <1>3, <1>5, <1>8
<1>10. DOMAIN T = 1..(n + 6) /\ T # <<>>
  BY <1>5
<1>11. \A i \in DOMAIN T :
         \/ i = 1 \/ i \in 2..(n + 1) \/ i = n + 2 \/ i = n + 3 \/ i = n + 4 \/ i = n + 5 \/ i = n + 6
  BY <1>5, <1>10
<1>12. Confirms("rolled_back", t) = t.from /\ Confirms("rollback_started", t) = NoGen
  BY DEF Confirms
<1>13. \A i \in DOMAIN T : StepFits(T[i], t)
  BY <1>7, <1>9, <1>11, StagesNamed DEF StepFits
<1>14. \A i, j \in DOMAIN T : i < j => After(T[i], T[j], t)
  <2> SUFFICES ASSUME NEW i \in DOMAIN T, NEW j \in DOMAIN T, i < j
               PROVE  After(T[i], T[j], t)
    OBVIOUS
  <2>1. CASE i = 1
    <3>1. j # 1 /\ T[j].op \notin {"fence", "recheck"}
      BY <2>1, <1>7, <1>9, <1>11
    <3> QED BY <2>1, <3>1, <1>9, <1>12 DEF After
  <2>2. CASE i \in 2..(n + 1)
    <3>1. T[j].op \notin {"fence", "recheck"}
      BY <2>2, <1>7, <1>9, <1>11, <1>n
    <3> QED BY <2>2, <3>1, <1>7 DEF After
  <2>3. CASE i = n + 2
    <3>1. j \in {n + 3, n + 4, n + 5, n + 6}
      BY <2>3, <1>11, <1>n, SMTT(30)
    <3> QED BY <2>3, <3>1, <1>9, <1>12 DEF After
  <2>4. CASE i = n + 3
    <3>1. j \in {n + 4, n + 5, n + 6}
      BY <2>4, <1>11, <1>n, SMTT(30)
    <3> QED BY <2>4, <3>1, <1>9, <1>12 DEF After
  <2>5. CASE i \in {n + 4, n + 5}
    <3>1. j \in {n + 5, n + 6}
      BY <2>5, <1>11, <1>n
    <3> QED BY <2>5, <3>1, <1>9 DEF After
  <2>6. i # n + 6
    BY <1>11, <1>n
  <2> QED BY <1>11, <2>1, <2>2, <2>3, <2>4, <2>5, <2>6
<1>15. \A i \in DOMAIN T :
         /\ T[i].op \notin {"fence", "recheck"}
         /\ T[i].op = "append" => T[i].arg \in {"rollback_started", "rolled_back"}
         /\ T[i].op = "write" => T[i].gen = t.from
  BY <1>7, <1>9, <1>11
<1>16. \A i \in DOMAIN T :
         T[i].op = "append" => \E j \in DOMAIN T : i < j /\ T[j].op = "readback"
  <2>1. \A i \in DOMAIN T : T[i].op = "append" => i < n + 4
    BY <1>n, <1>7, <1>9, <1>11
  <2>2. n + 4 \in DOMAIN T
    BY <1>5, <1>10
  <2> QED BY <2>1, <2>2, <1>9
<1>17. Plan(T, t)
  <2>1. T[Len(T)].op \in {"clear_fence", "clear_active"}
    BY <1>5, <1>9
  <2> QED BY <2>1, <1>10, <1>13, <1>14, <1>15, <1>16 DEF Plan
<1>18. n + 2 \in DOMAIN T /\ n + 4 \in DOMAIN T
  BY <1>5, <1>10
<1>19. Back(T, t)
  BY <1>5, <1>9, <1>15, <1>17, <1>18 DEF Back
<1> QED BY <1>5, <1>19 DEF T, a, U

\* What is left of a verified install.
LEMMA ConfirmCommits ==
  ASSUME NEW t \in Txn, NEW g \in {t.from, t.to}, g = t.to,
         NEW S,
         S = <<VerifyOf(g)>> \o <<AppendOf("committed")>> \o Finish
  PROVE  /\ Confirm(S, t)
         /\ \E i \in DOMAIN S : S[i].op = "readback"
<1> DEFINE T == <<VerifyOf(g)>> \o <<AppendOf("committed")>> \o Finish
<1>1. t.from \in Gen /\ t.to \in Gen /\ NoGen \notin Gen
  BY GenAssumption DEF Txn
<1>2. T \in Seq(Step) /\ Len(T) = 5 /\ T # <<>> /\ DOMAIN T = 1..5
  BY <1>1, StepsTyped, StagesNamed DEF Closing, Finish
<1>3. /\ T[1].op = "verify" /\ T[2].op = "append" /\ T[3].op = "readback"
      /\ T[4].op = "clear_fence" /\ T[5].op = "clear_active"
      /\ T[1].gen = g
      /\ T[2].arg = "committed"
  BY DEF AppendOf, VerifyOf, StepOf, Finish
<1> HIDE DEF T
<1>4. \A i \in DOMAIN T : i = 1 \/ i = 2 \/ i = 3 \/ i = 4 \/ i = 5
  BY <1>2
<1>5. Confirms("committed", t) = t.to
  BY DEF Confirms
<1>6. DOMAIN T = 1..5
  BY <1>2
<1>7. \A i \in DOMAIN T : StepFits(T[i], t)
  BY <1>3, <1>4, StagesNamed DEF StepFits
<1>8. \A i, j \in DOMAIN T : i < j => After(T[i], T[j], t)
  BY <1>1, <1>3, <1>4, <1>5, SMTT(30) DEF After, Closing
<1>9. \A i \in DOMAIN T :
        /\ T[i].op \notin {"fence", "recheck", "write"}
        /\ T[i].op = "append" => T[i].arg = "committed"
  BY <1>3, <1>4
<1>10. \A i \in DOMAIN T :
         T[i].op = "append" => \E j \in DOMAIN T : i < j /\ T[j].op = "readback"
  BY <1>3, <1>4, <1>6
<1>11. T[Len(T)].op \in {"clear_fence", "clear_active"} /\ T # <<>>
  BY <1>2, <1>3
<1>12. Plan(T, t)
  BY <1>7, <1>8, <1>9, <1>10, <1>11 DEF Plan
<1>13. 1 \in DOMAIN T /\ T[1].op = "verify" /\ 3 \in DOMAIN T /\ T[3].op = "readback"
  BY <1>3, <1>6
<1>14. T \in Seq(Step)
  BY <1>2
<1>16. S = T
  BY DEF T
<1> QED BY <1>16, <1>9, <1>12, <1>13, <1>14 DEF Confirm

\* What is left of a committed install.
LEMMA ConfirmReads ==
  ASSUME NEW t \in Txn, NEW g \in {t.from, t.to}, NEW S,
         S = <<VerifyOf(g)>> \o <<>> \o Finish
  PROVE  /\ Confirm(S, t)
         /\ \E i \in DOMAIN S : S[i].op = "readback"
         /\ \A i \in DOMAIN S : S[i].op # "append"
<1> DEFINE T == <<VerifyOf(g)>> \o <<>> \o Finish
<1>1. t.from \in Gen /\ t.to \in Gen /\ NoGen \notin Gen
  BY GenAssumption DEF Txn
<1>2. T \in Seq(Step) /\ Len(T) = 4 /\ T # <<>> /\ DOMAIN T = 1..4
  BY <1>1, StepsTyped, StagesNamed DEF Closing, Finish
<1>3. /\ T[1].op = "verify" /\ T[2].op = "readback" /\ T[3].op = "clear_fence"
      /\ T[4].op = "clear_active"
      /\ T[1].gen = g
  BY DEF AppendOf, VerifyOf, StepOf, Finish
<1> HIDE DEF T
<1>4. \A i \in DOMAIN T : i = 1 \/ i = 2 \/ i = 3 \/ i = 4
  BY <1>2
<1>5. Confirms("committed", t) = t.to
  BY DEF Confirms
<1>6. DOMAIN T = 1..4
  BY <1>2
<1>7. \A i \in DOMAIN T : StepFits(T[i], t)
  BY <1>3, <1>4, StagesNamed DEF StepFits
<1>8. \A i, j \in DOMAIN T : i < j => After(T[i], T[j], t)
  BY <1>1, <1>3, <1>4, <1>5 DEF After, Closing
<1>9. \A i \in DOMAIN T :
        /\ T[i].op \notin {"fence", "recheck", "write"}
        /\ T[i].op = "append" => T[i].arg = "committed"
  BY <1>3, <1>4
<1>10. \A i \in DOMAIN T :
         T[i].op = "append" => \E j \in DOMAIN T : i < j /\ T[j].op = "readback"
  BY <1>3, <1>4, <1>6
<1>11. T[Len(T)].op \in {"clear_fence", "clear_active"} /\ T # <<>>
  BY <1>2, <1>3
<1>12. Plan(T, t)
  BY <1>7, <1>8, <1>9, <1>10, <1>11 DEF Plan
<1>13. 1 \in DOMAIN T /\ T[1].op = "verify" /\ 2 \in DOMAIN T /\ T[2].op = "readback"
  BY <1>3, <1>6
<1>14. T \in Seq(Step)
  BY <1>2
<1>15. \A i \in DOMAIN T : T[i].op # "append"
  BY <1>3, <1>4
<1>16. S = T
  BY DEF T
<1> QED BY <1>16, <1>9, <1>12, <1>13, <1>14, <1>15 DEF Confirm

\* What is left of an install that was rolled back.
LEMMA ConfirmCloses ==
  ASSUME NEW t \in Txn, NEW g \in {t.from, t.to}, NEW S,
         S = <<VerifyOf(g)>> \o Tail(Finish)
  PROVE  /\ Confirm(S, t)
         /\ \A i \in DOMAIN S : S[i].op # "append"
<1> DEFINE T == <<VerifyOf(g)>> \o Tail(Finish)
<1>1. t.from \in Gen /\ t.to \in Gen /\ NoGen \notin Gen
  BY GenAssumption DEF Txn
<1>2. T \in Seq(Step) /\ Len(T) = 3 /\ T # <<>> /\ DOMAIN T = 1..3
  BY <1>1, StepsTyped, StagesNamed DEF Closing, Finish
<1>3. /\ T[1].op = "verify" /\ T[2].op = "clear_fence" /\ T[3].op = "clear_active"
      /\ T[1].gen = g
  BY DEF AppendOf, VerifyOf, StepOf, Finish
<1> HIDE DEF T
<1>4. \A i \in DOMAIN T : i = 1 \/ i = 2 \/ i = 3
  BY <1>2
<1>5. Confirms("committed", t) = t.to
  BY DEF Confirms
<1>6. DOMAIN T = 1..3
  BY <1>2
<1>7. \A i \in DOMAIN T : StepFits(T[i], t)
  BY <1>3, <1>4, StagesNamed DEF StepFits
<1>8. \A i, j \in DOMAIN T : i < j => After(T[i], T[j], t)
  BY <1>1, <1>3, <1>4, <1>5 DEF After, Closing
<1>9. \A i \in DOMAIN T :
        /\ T[i].op \notin {"fence", "recheck", "write"}
        /\ T[i].op = "append" => T[i].arg = "committed"
  BY <1>3, <1>4
<1>10. \A i \in DOMAIN T :
         T[i].op = "append" => \E j \in DOMAIN T : i < j /\ T[j].op = "readback"
  BY <1>3, <1>4, <1>6
<1>11. T[Len(T)].op \in {"clear_fence", "clear_active"} /\ T # <<>>
  BY <1>2, <1>3
<1>12. Plan(T, t)
  BY <1>7, <1>8, <1>9, <1>10, <1>11 DEF Plan
<1>13. 1 \in DOMAIN T /\ T[1].op = "verify"
  BY <1>3, <1>6
<1>14. T \in Seq(Step)
  BY <1>2
<1>15. \A i \in DOMAIN T : T[i].op # "append"
  BY <1>3, <1>4
<1>16. S = T
  BY DEF T
<1> QED BY <1>16, <1>9, <1>12, <1>13, <1>14, <1>15 DEF Confirm

\* A fence whose transaction has ended.
LEMMA ConfirmDetached ==
  ASSUME NEW t \in Txn, NEW g \in {t.from, t.to}, NEW S,
         S = <<VerifyOf(g), StepOf("readback"), StepOf("clear_fence")>>
  PROVE  /\ Confirm(S, t)
         /\ \E i \in DOMAIN S : S[i].op = "readback"
         /\ \A i \in DOMAIN S : S[i].op # "append"
         /\ \A i \in DOMAIN S : S[i].op # "clear_active"
<1> DEFINE T == <<VerifyOf(g), StepOf("readback"), StepOf("clear_fence")>>
<1>1. t.from \in Gen /\ t.to \in Gen /\ NoGen \notin Gen
  BY GenAssumption DEF Txn
<1>2. T \in Seq(Step) /\ Len(T) = 3 /\ T # <<>> /\ DOMAIN T = 1..3
  BY <1>1, StepsTyped, StagesNamed DEF Closing, Finish
<1>3. /\ T[1].op = "verify" /\ T[2].op = "readback" /\ T[3].op = "clear_fence"
      /\ T[1].gen = g
  BY DEF AppendOf, VerifyOf, StepOf, Finish
<1> HIDE DEF T
<1>4. \A i \in DOMAIN T : i = 1 \/ i = 2 \/ i = 3
  BY <1>2
<1>5. Confirms("committed", t) = t.to
  BY DEF Confirms
<1>6. DOMAIN T = 1..3
  BY <1>2
<1>7. \A i \in DOMAIN T : StepFits(T[i], t)
  BY <1>3, <1>4, StagesNamed DEF StepFits
<1>8. \A i, j \in DOMAIN T : i < j => After(T[i], T[j], t)
  BY <1>1, <1>3, <1>4, <1>5 DEF After, Closing
<1>9. \A i \in DOMAIN T :
        /\ T[i].op \notin {"fence", "recheck", "write"}
        /\ T[i].op = "append" => T[i].arg = "committed"
  BY <1>3, <1>4
<1>10. \A i \in DOMAIN T :
         T[i].op = "append" => \E j \in DOMAIN T : i < j /\ T[j].op = "readback"
  BY <1>3, <1>4, <1>6
<1>11. T[Len(T)].op \in {"clear_fence", "clear_active"} /\ T # <<>>
  BY <1>2, <1>3
<1>12. Plan(T, t)
  BY <1>7, <1>8, <1>9, <1>10, <1>11 DEF Plan
<1>13. 1 \in DOMAIN T /\ T[1].op = "verify" /\ 2 \in DOMAIN T /\ T[2].op = "readback"
  BY <1>3, <1>6
<1>14. T \in Seq(Step)
  BY <1>2
<1>15. \A i \in DOMAIN T : T[i].op # "append" /\ T[i].op # "clear_active"
  BY <1>3, <1>4
<1>16. S = T
  BY DEF T
<1> QED BY <1>16, <1>9, <1>12, <1>13, <1>14, <1>15 DEF Confirm


\* What is left of a rollback after its first steps.
LEMMA BackGoesOn ==
  ASSUME NEW t, NEW S, Back(S, t), S[1].op \in {"append", "write"}
  PROVE  Back(Tail(S), t)
<1> DEFINE n == Len(S)
           u == Tail(S)
<1>1. S \in Seq(Step) /\ S # <<>>
  BY DEF Back, Plan
<1>2. /\ u \in Seq(Step) /\ n \in Nat /\ DOMAIN S = 1..n /\ DOMAIN u = 1..(n - 1)
      /\ \A i \in 1..(n - 1) : i + 1 \in 1..n /\ u[i] = S[i + 1]
      /\ \A i \in 2..n : i - 1 \in 1..(n - 1) /\ S[i] = u[i - 1]
  BY <1>1, Rest
<1> HIDE DEF n
<1>3. Plan(u, t)
  BY <1>1, PlanGoesOn DEF Back
<1>4. \A o \in {"verify", "readback"} : \E i \in DOMAIN u : u[i].op = o
  <2> TAKE o \in {"verify", "readback"}
  <2>1. PICK i \in 1..n : S[i].op = o
    BY <1>2 DEF Back
  <2>2. i \in 2..n
    BY <1>2, <2>1
  <2> QED BY <1>2, <2>1, <2>2
<1> HIDE DEF u
<1>5. \A i \in DOMAIN u :
        /\ u[i].op \notin {"fence", "recheck"}
        /\ u[i].op = "append" => u[i].arg \in {"rollback_started", "rolled_back"}
        /\ u[i].op = "write" => u[i].gen = t.from
  BY <1>2 DEF Back
<1> QED BY <1>2, <1>3, <1>4, <1>5 DEF Back, u

\* The first of three joined lists is one step, which is done.
LEMMA TailOfCat ==
  ASSUME NEW S, NEW a \in S, NEW X \in Seq(S), NEW Y \in Seq(S)
  PROVE  Tail(<<a>> \o X \o Y) = <<>> \o X \o Y
<1> DEFINE Z == X \o Y
<1>1. Z \in Seq(S) /\ <<a>> \in Seq(S) /\ <<>> \in Seq(S)
  BY ConcatProperties
<1>2. <<a>> \o X \o Y = <<a>> \o Z
  BY <1>1, ConcatAssociative
<1>3. <<>> \o X = X
  BY ConcatEmptySeq
<1> HIDE DEF Z
<1>4. Tail(<<a>> \o Z) = Z
  <2> DEFINE W == <<a>> \o Z
  <2>1. W \in Seq(S) /\ Len(W) = 1 + Len(Z) /\ Len(<<a>>) = 1 /\ Len(Z) \in Nat
        /\ \A i \in 1..(1 + Len(Z)) : W[i] = IF i <= 1 THEN <<a>>[i] ELSE Z[i - 1]
    BY <1>1, ConcatProperties
  <2> HIDE DEF W
  <2>2. W # <<>>
    BY <2>1
  <2>3. Tail(W) \in Seq(S) /\ Len(Tail(W)) = Len(Z)
        /\ \A i \in 1..Len(Tail(W)) : Tail(W)[i] = W[i + 1]
    BY <2>1, <2>2, HeadTailProperties
  <2>4. \A i \in 1..Len(Tail(W)) : Tail(W)[i] = Z[i]
    <3> SUFFICES ASSUME NEW i \in 1..Len(Z) PROVE Tail(W)[i] = Z[i]
      BY <2>3
    <3>1. i + 1 \in 1..(1 + Len(Z)) /\ ~(i + 1 <= 1) /\ (i + 1) - 1 = i
      BY <2>1
    <3> QED BY <2>1, <2>3, <3>1
  <2>5. Tail(W) = Z
    BY <1>1, <2>3, <2>4, SeqEqual
  <2> QED BY <2>5 DEF W
<1> QED BY <1>2, <1>3, <1>4 DEF Z

\* What a rollback writes back.
LEMMA RestoreIs ==
  ASSUME NEW k, NEW t \in Txn, txns[k] = t, NEW q,
         q = Restore(k) \/ (~t.gapFree /\ q = Tail(Restore(k)))
  PROVE  /\ q \in Seq(Step)
         /\ \A i \in 1..Len(q) : q[i].op = "write" /\ q[i].arg \in Resource /\ q[i].gen = t.from
<1> DEFINE W(res) == WriteOf(res, t.from)
           Writes == {W(res) : res \in Resource}
<1>1. t.from \in Gen \cup {NoGen}
  BY DEF Txn
<1>2. Writes \subseteq Step
  BY <1>1, StepsTyped
<1>3. /\ W("launcher") \in Writes /\ W("deployment") \in Writes
      /\ W("registry") \in Writes /\ W("scheduler") \in Writes
  BY DEF Resource
<1> HIDE DEF Writes
<1>4. q \in Seq(Writes)
  <2>1. CASE t.gapFree
    <3>1. q = <<W("launcher"), W("deployment"), W("registry"), W("scheduler")>>
      BY <2>1 DEF Restore
    <3> HIDE DEF W
    <3> QED BY <3>1, <1>3
  <2>2. CASE ~t.gapFree
    <3>1. Restore(k) = <<W("registry"), W("launcher"), W("deployment"), W("scheduler")>>
      BY <2>2 DEF Restore
    <3>2. Tail(Restore(k)) = <<W("launcher"), W("deployment"), W("scheduler")>>
      BY <3>1
    <3>3. q = Restore(k) \/ q = Tail(Restore(k))
      OBVIOUS
    <3> HIDE DEF W
    <3>4. CASE q = Restore(k)
      <4>1. q = <<W("registry"), W("launcher"), W("deployment"), W("scheduler")>>
        BY <3>1, <3>4
      <4> QED BY <4>1, <1>3
    <3>5. CASE q = Tail(Restore(k))
      <4>1. q = <<W("launcher"), W("deployment"), W("scheduler")>>
        BY <3>2, <3>5
      <4> QED BY <4>1, <1>3
    <3> QED BY <3>3, <3>4, <3>5
  <2> QED BY <2>1, <2>2
<1>5. \A w \in Writes : w.op = "write" /\ w.arg \in Resource /\ w.gen = t.from
  BY DEF Writes, WriteOf
<1> QED BY <1>2, <1>4, <1>5

\* What recovery does, by the stage it finds.
LEMMA RecoveryIs ==
  ASSUME NEW k, NEW t \in Txn, txns[k] = t, NEW s, NEW S, S = RecoveryScript(k, s)
  PROVE  \/ /\ s = "rolled_back"
            /\ Confirm(S, t) /\ \A i \in DOMAIN S : S[i].op # "append"
         \/ /\ s \in {"postconditions_verified", "committed"}
            /\ Confirm(S, t) /\ \E i \in DOMAIN S : S[i].op = "readback"
            /\ s = "committed" => \A i \in DOMAIN S : S[i].op # "append"
         \/ /\ s \notin {"postconditions_verified", "committed", "rolled_back"}
            /\ Back(S, t)
            /\ s = "rollback_started" \/ S[1] = AppendOf("rollback_started")
<1>1. CASE s = "rolled_back"
  <2>1. S = <<VerifyOf(t.from)>> \o Tail(Finish)
    BY <1>1 DEF RecoveryScript
  <2> QED BY <1>1, <2>1, ConfirmCloses
<1>2. CASE s = "committed"
  <2>1. S = <<VerifyOf(t.to)>> \o <<>> \o Finish
    BY <1>2 DEF RecoveryScript, Unless
  <2> QED BY <1>2, <2>1, ConfirmReads
<1>3. CASE s = "postconditions_verified"
  <2>1. S = <<VerifyOf(t.to)>> \o <<AppendOf("committed")>> \o Finish
    BY <1>3 DEF RecoveryScript, Unless
  <2> QED BY <1>3, <2>1, ConfirmCommits
<1>4. CASE s \notin {"postconditions_verified", "committed", "rolled_back"}
  <2> DEFINE R == <<AppendOf("rollback_started")>> \o Restore(k) \o Undone(k)
  <2>1. Back(R, t) /\ R[1] = AppendOf("rollback_started")
    BY RestoreIs, RollbackIsPlan
  <2>2. CASE s # "rollback_started"
    <3>1. S = R
      BY <1>4, <2>2 DEF RecoveryScript, Unless
    <3> QED BY <1>4, <2>1, <2>2, <3>1
  <2>3. CASE s = "rollback_started"
    <3>1. S = <<>> \o Restore(k) \o Undone(k)
      BY <1>4, <2>3 DEF RecoveryScript, Unless
    <3>2. S = Tail(R)
      BY <3>1, RestoreIs, UndoneSteps, StepsTyped, StagesNamed, TailOfCat
    <3>3. R[1].op = "append"
      BY <2>1 DEF AppendOf
    <3>4. Back(Tail(R), t)
      BY <2>1, <3>3, BackGoesOn
    <3> QED BY <1>4, <2>3, <3>2, <3>4
  <2> QED BY <2>2, <2>3
<1> QED BY <1>1, <1>2, <1>3, <1>4

\* What the handler of a legacy install does.
LEMMA UndoIs ==
  ASSUME NEW k, NEW t \in Txn, txns[k] = t, ~t.gapFree, NEW s, NEW switched \in BOOLEAN,
         NEW S, S = UndoScript(k, s, switched)
  PROVE  /\ Back(S, t)
         /\ \/ s \in {"rollback_started", "rolled_back", "committed"}
            \/ S[1] = AppendOf("rollback_started")
<1> DEFINE X == Unwind(k, switched)
           R == <<AppendOf("rollback_started")>> \o X \o Undone(k)
<1>1. Back(R, t) /\ R[1] = AppendOf("rollback_started") /\ X \in Seq(Step)
  <2>1. X = Restore(k) \/ (~t.gapFree /\ X = Tail(Restore(k)))
    BY DEF Unwind
  <2> HIDE DEF X
  <2>2. /\ X \in Seq(Step)
        /\ \A i \in 1..Len(X) : X[i].op = "write" /\ X[i].arg \in Resource /\ X[i].gen = t.from
    BY <2>1, RestoreIs
  <2> QED BY <2>2, RollbackIsPlan
<1>2. CASE s \notin {"rollback_started", "rolled_back", "committed"}
  <2>1. S = R
    BY <1>2 DEF UndoScript, Unless
  <2> QED BY <1>1, <1>2, <2>1
<1>3. CASE s \in {"rollback_started", "rolled_back", "committed"}
  <2>1. S = <<>> \o X \o Undone(k)
    BY <1>3 DEF UndoScript, Unless
  <2> HIDE DEF X
  <2>2. S = Tail(R)
    BY <1>1, <2>1, UndoneSteps, StepsTyped, StagesNamed, TailOfCat
  <2>3. R[1].op = "append"
    BY <1>1 DEF AppendOf
  <2>4. Back(Tail(R), t)
    BY <1>1, <2>3, BackGoesOn
  <2> QED BY <1>3, <2>2, <2>4
<1> QED BY <1>2, <1>3

-----------------------------------------------------------------------------
(* A step of the installer. *)

\* A plan asks nothing of the stage its transaction has reached.
LEMMA PlanSame ==
  ASSUME NEW s, NEW t, NEW u, u.from = t.from, u.to = t.to, Plan(s, t)
  PROVE  Plan(s, u)
<1>1. \A c : Confirms(c, u) = Confirms(c, t)
  BY DEF Confirms
<1>2. \A a : StepFits(a, t) => StepFits(a, u)
  BY DEF StepFits
<1>3. \A a, b : After(a, b, t) => After(a, b, u)
  BY <1>1 DEF After
<1> QED BY <1>2, <1>3 DEF Plan

\* The installer at work, its list and its transaction.
LEMMA AtWork ==
  ASSUME SwitchInv, Todo # <<>>
  PROVE  /\ inst.mode # "off" /\ inst.id \in DOMAIN txns /\ inst.id \in Nat /\ inst.id # 0
         /\ inst.id \in 1..MaxInstall
         /\ Own \in Txn /\ Own.from \in Gen /\ Own.to \in Gen /\ Own.from # Own.to
         /\ inst \in Installation /\ Todo \in Seq(Step) /\ Plan(Todo, Own)
         /\ 1 \in DOMAIN Todo /\ Head(Todo) = Todo[1] /\ Todo[1] \in Step
         /\ StepFits(Todo[1], Own)
         /\ \A i \in DOMAIN Todo : i # 1 => After(Todo[1], Todo[i], Own)
         /\ Todo[1].op \notin {"verify", "readback", "clear_fence"} => inst.id = active
<1>1. inst.mode # "off" /\ inst \in Installation /\ Todo \in Seq(Step)
  BY DEF SwitchInv, SwitchTyped, InstOff, Todo, Installation
<1>2. inst.id \in DOMAIN txns /\ Plan(Todo, Own)
  BY <1>1 DEF SwitchInv, InstallerKeepsPlan
<1>3. txns \in Seq(Txn) /\ Len(txns) <= MaxInstall /\ \A t \in DOMAIN txns : txns[t].from # txns[t].to
  BY DEF SwitchInv, SwitchTyped
<1>4. /\ inst.id \in Nat /\ inst.id # 0 /\ inst.id \in 1..MaxInstall
      /\ Own \in Txn /\ Own.from # Own.to
  BY <1>2, <1>3, SwitchBoundAssumption DEF Own
<1>5. Own.from \in Gen /\ Own.to \in Gen
  BY <1>4 DEF Txn
<1>6. /\ 1 \in DOMAIN Todo /\ Head(Todo) = Todo[1] /\ Todo[1] \in Step
      /\ \A i \in DOMAIN Todo : i # 1 => 1 < i
  BY <1>1
<1>7. \A i \in DOMAIN Todo : i # 1 => After(Todo[1], Todo[i], Own)
  BY <1>2, <1>6 DEF Plan
<1>8. StepFits(Todo[1], Own)
  BY <1>2, <1>6 DEF Plan
<1>9. Todo[1].op \notin {"verify", "readback", "clear_fence"} => inst.id = active
  BY <1>1, <1>6 DEF SwitchInv, InstallerKeepsPlan
<1> QED BY <1>1, <1>2, <1>4, <1>5, <1>6, <1>7, <1>8, <1>9

\* The list once its first step is done.
LEMMA OneDone ==
  ASSUME SwitchInv, Todo # <<>>, Todo' = Tail(Todo)
  PROVE  /\ Todo' \in Seq(Step)
         /\ \A i \in DOMAIN Todo' : \E j \in DOMAIN Todo : j # 1 /\ Todo'[i] = Todo[j]
         /\ \A i \in DOMAIN Todo : i # 1 => \E j \in DOMAIN Todo' : Todo'[j] = Todo[i]
         /\ \A o : Left(o)' => Left(o)
         /\ \A o : Left(o) /\ Todo[1].op # o => Left(o)'
<1> DEFINE s == Todo
           u == Tail(Todo)
<1>1. s \in Seq(Step) /\ s # <<>> /\ Todo' = u
  BY AtWork
<1>2. /\ u \in Seq(Step) /\ Len(s) \in Nat /\ DOMAIN s = 1..Len(s) /\ DOMAIN u = 1..(Len(s) - 1)
      /\ \A i \in 1..(Len(s) - 1) : i + 1 \in 1..Len(s) /\ u[i] = s[i + 1]
      /\ \A i \in 2..Len(s) : i - 1 \in 1..(Len(s) - 1) /\ s[i] = u[i - 1]
  BY <1>1, Rest
<1> HIDE DEF s, u
<1>3. \A i \in DOMAIN u : \E j \in DOMAIN s : j # 1 /\ u[i] = s[j]
  <2> TAKE i \in DOMAIN u
  <2>1. i + 1 \in DOMAIN s /\ u[i] = s[i + 1] /\ i + 1 # 1
    BY <1>2
  <2> QED BY <2>1
<1>4. \A i \in DOMAIN s : i # 1 => \E j \in DOMAIN u : u[j] = s[i]
  <2> SUFFICES ASSUME NEW i \in DOMAIN s, i # 1 PROVE \E j \in DOMAIN u : u[j] = s[i]
    OBVIOUS
  <2>1. i \in 2..Len(s)
    BY <1>2
  <2>2. i - 1 \in DOMAIN u /\ u[i - 1] = s[i]
    BY <2>1, <1>2
  <2> QED BY <2>2
<1>5. \A o : (\E i \in DOMAIN u : u[i].op = o) => \E i \in DOMAIN s : s[i].op = o
  BY <1>3
<1>6. \A o : (\E i \in DOMAIN s : s[i].op = o) /\ s[1].op # o => \E i \in DOMAIN u : u[i].op = o
  BY <1>4
<1> QED
  <2>1. Todo' = u /\ Todo = s
    BY <1>1 DEF s
  <2>2. \A o : Left(o) <=> \E i \in DOMAIN s : s[i].op = o
    BY <2>1 DEF Left
  <2>3. \A o : Left(o)' <=> \E i \in DOMAIN u : u[i].op = o
    BY <2>1 DEF Left
  <2>4. \A o : Left(o)' => Left(o)
    BY <2>2, <2>3, <1>5
  <2>5. \A o : Left(o) /\ Todo[1].op # o => Left(o)'
    BY <2>1, <2>2, <2>3, <1>6
  <2>6. /\ \A i \in DOMAIN Todo' : \E j \in DOMAIN Todo : j # 1 /\ Todo'[i] = Todo[j]
        /\ \A i \in DOMAIN Todo : i # 1 => \E j \in DOMAIN Todo' : Todo'[j] = Todo[i]
    BY <2>1, <1>3, <1>4, SMTT(30)
  <2> QED BY <2>1, <2>4, <2>5, <2>6, <1>2

\* What was found settled stays so, as long as nothing is written.
LEMMA SettledStays ==
  ASSUME SwitchInv, Todo # <<>>, inst'.todo = Tail(Todo), live' = live,
         Own'.from = Own.from, Own'.to = Own.to, Settled
  PROVE  Settled'
<1>1. Todo' = Tail(Todo)
  BY DEF Todo
<1>2. \A i \in DOMAIN Todo' : \E j \in DOMAIN Todo : j # 1 /\ Todo'[i] = Todo[j]
  BY <1>1, OneDone
<1>3. PICK g \in {Own.from, Own.to} :
        /\ Verified(g)
        /\ \A i \in DOMAIN Todo :
             /\ Todo[i].op = "write" => Todo[i].gen = g
             /\ Todo[i].op = "append" => Confirms(Todo[i].arg, Own) = g
  BY DEF Settled
<1>4. \A c : Confirms(c, Own') = Confirms(c, Own)
  BY DEF Confirms
<1>5. Verified(g)'
  BY <1>3 DEF Verified
<1>6. \A i \in DOMAIN Todo' :
        /\ Todo'[i].op = "write" => Todo'[i].gen = g
        /\ Todo'[i].op = "append" => Confirms(Todo'[i].arg, Own') = g
  BY <1>2, <1>3, <1>4
<1>7. g \in {Own'.from, Own'.to}
  BY <1>3
<1> QED BY <1>5, <1>6, <1>7 DEF Settled

\* A list whose first step is done still keeps to the plan.
LEMMA PlanKept ==
  ASSUME SwitchInv, Todo # <<>>, inst'.todo = Tail(Todo), inst'.id = inst.id, inst'.mode = inst.mode,
         active' = active, DOMAIN txns' = DOMAIN txns, Own'.from = Own.from, Own'.to = Own.to,
         Todo[1].op \notin {"clear_fence", "clear_active"} \/ Len(Todo) # 1,
         ~Left("readback")' => Own'.stage \in Terminal,
         ~Left("verify")' => Settled',
         Left("recheck")' => Unswitched'
  PROVE  InstallerKeepsPlan'
<1>1. Todo' = Tail(Todo)
  BY DEF Todo
<1>2. /\ \A i \in DOMAIN Todo' : \E j \in DOMAIN Todo : j # 1 /\ Todo'[i] = Todo[j]
      /\ \A o : Left(o)' => Left(o)
  BY <1>1, OneDone
<1>3. /\ inst.mode # "off" /\ inst.id \in DOMAIN txns /\ Todo \in Seq(Step) /\ Plan(Todo, Own)
  BY AtWork
<1>4. Plan(Tail(Todo), Own)
  BY <1>3, PlanGoesOn
<1>5. Plan(Todo', Own')
  BY <1>1, <1>4, PlanSame
<1>6. inst'.id # active' => \A i \in DOMAIN Todo' : Todo'[i].op \in {"verify", "readback", "clear_fence"}
  BY <1>2, <1>3 DEF SwitchInv, InstallerKeepsPlan
<1>7. Left("recheck")' => inst'.mode = "forward"
  BY <1>2, <1>3 DEF SwitchInv, InstallerKeepsPlan
<1> QED BY <1>3, <1>5, <1>6, <1>7 DEF InstallerKeepsPlan

\* A step that leaves the journal and the resources alone.
LEMMA QuietKeepsPlan ==
  ASSUME SwitchInv, Todo # <<>>, inst'.todo = Tail(Todo), inst'.id = inst.id, inst'.mode = inst.mode,
         UNCHANGED <<live, txns, active>>,
         Todo[1].op \notin {"clear_fence", "clear_active"} \/ Len(Todo) # 1,
         Todo[1].op = "readback" => Own.stage \in Terminal,
         Todo[1].op = "verify" => Verified(Todo[1].gen)
  PROVE  InstallerKeepsPlan'
<1>1. Todo' = Tail(Todo) /\ Own' = Own
  BY DEF Todo, Own
<1>2. /\ \A i \in DOMAIN Todo' : \E j \in DOMAIN Todo : j # 1 /\ Todo'[i] = Todo[j]
      /\ \A o : Left(o)' => Left(o)
      /\ \A o : Left(o) /\ Todo[1].op # o => Left(o)'
  BY <1>1, OneDone
<1>3. /\ inst.mode # "off" /\ StepFits(Todo[1], Own)
      /\ \A i \in DOMAIN Todo : i # 1 => After(Todo[1], Todo[i], Own)
  BY AtWork
<1>4. ~Left("readback")' => Own'.stage \in Terminal
  BY <1>1, <1>2, <1>3 DEF SwitchInv, InstallerKeepsPlan
<1>5. ~Left("verify")' => Settled'
  <2> SUFFICES ASSUME ~Left("verify")' PROVE Settled'
    OBVIOUS
  <2>1. CASE ~Left("verify")
    <3>1. Settled
      BY <2>1, <1>3 DEF SwitchInv, InstallerKeepsPlan
    <3> QED BY <3>1, <1>1, SettledStays
  <2>2. CASE Todo[1].op = "verify"
    <3>0. PICK g : g = Todo[1].gen
      OBVIOUS
    <3>1. g \in {Own'.from, Own'.to} /\ Verified(g)
      BY <2>2, <3>0, <1>1, <1>3 DEF StepFits
    <3>2. Verified(g)'
      BY <3>1 DEF Verified
    <3>3. \A i \in DOMAIN Todo' :
            /\ Todo'[i].op = "write" => Todo'[i].gen = g
            /\ Todo'[i].op = "append" => Confirms(Todo'[i].arg, Own') = g
      BY <2>2, <3>0, <1>1, <1>2, <1>3 DEF After
    <3> QED BY <3>1, <3>2, <3>3, <1>1 DEF Settled
  <2> QED BY <1>2, <2>1, <2>2
<1>6. Left("recheck")' => Unswitched'
  <2>1. Left("recheck")' => Unswitched
    BY <1>2, <1>3 DEF SwitchInv, InstallerKeepsPlan
  <2> QED BY <2>1, <1>1 DEF Unswitched, Verified
<1> QED BY <1>1, <1>4, <1>5, <1>6, PlanKept

\* ... and what a forward install believes.
LEMMA QuietBelieves ==
  ASSUME SwitchInv, Todo # <<>>, inst'.todo = Tail(Todo), inst'.id = inst.id, inst'.mode = inst.mode,
         inst'.stage = inst.stage, UNCHANGED <<txns, active>>,
         inst'.verified = (inst.verified \/ Todo[1].op = "readback")
  PROVE  ForwardBelieves'
<1>1. Todo' = Tail(Todo) /\ Own' = Own
  BY DEF Todo, Own
<1>2. /\ \A i \in DOMAIN Todo' : \E j \in DOMAIN Todo : j # 1 /\ Todo'[i] = Todo[j]
      /\ \A o : Left(o) /\ Todo[1].op # o => Left(o)'
  BY <1>1, OneDone
<1> QED BY <1>1, <1>2, ZenonT(40) DEF SwitchInv, ForwardBelieves

\* A record of the journal.
LEMMA AppendKeeps ==
  ASSUME SwitchInv, AppendStage
  PROVE  SwitchInv'
<1> DEFINE s == Todo[1].arg
<1>1. Todo # <<>> /\ Head(Todo).op = "append"
  BY DEF AppendStage, At
<1>2. /\ inst.mode # "off" /\ inst.id \in DOMAIN txns /\ Own \in Txn /\ Own.from # Own.to
      /\ inst \in Installation /\ Todo \in Seq(Step) /\ Plan(Todo, Own)
      /\ 1 \in DOMAIN Todo /\ Head(Todo) = Todo[1] /\ StepFits(Todo[1], Own)
      /\ \A i \in DOMAIN Todo : i # 1 => After(Todo[1], Todo[i], Own)
      /\ Todo[1].op \notin {"verify", "readback", "clear_fence"} => inst.id = active
      /\ Own.from \in Gen
  BY <1>1, AtWork
<1>3. Todo[1].op = "append" /\ inst.id = active /\ s \in ToSet(Stages) \ {"none"}
  BY <1>1, <1>2 DEF StepFits
<1>4. /\ txns' = [txns EXCEPT ![inst.id].stage = s]
      /\ inst' = [inst EXCEPT !.todo = Tail(@), !.stage = s]
      /\ UNCHANGED <<live, active, fence, fenceLock, faults>>
  BY <1>2 DEF AppendStage, Pop, Todo
<1> HIDE DEF s
<1>5. txns \in Seq(Txn) /\ Len(txns) <= MaxInstall /\ \A t \in DOMAIN txns : txns[t].from # txns[t].to
  BY DEF SwitchInv, SwitchTyped
<1>6. /\ inst'.todo = Tail(Todo) /\ inst'.id = inst.id /\ inst'.mode = inst.mode /\ inst'.stage = s
      /\ inst'.verified = inst.verified /\ inst' \in Installation
  <2>1. Tail(inst.todo) \in Seq(Step)
    BY <1>1, <1>2 DEF Todo
  <2> QED BY <2>1, <1>2, <1>3, <1>4 DEF Todo, Installation
<1>7. /\ DOMAIN txns' = DOMAIN txns /\ Len(txns') = Len(txns) /\ txns' \in Seq(Txn)
      /\ \A k \in DOMAIN txns : /\ txns'[k].from = txns[k].from /\ txns'[k].to = txns[k].to
                                /\ txns'[k].block = txns[k].block
                                /\ k # inst.id => txns'[k] = txns[k]
      /\ txns'[inst.id].stage = s
  <2>1. [Own EXCEPT !.stage = s] \in Txn
    BY <1>2, <1>3 DEF Txn
  <2>2. txns' = [txns EXCEPT ![inst.id] = [Own EXCEPT !.stage = s]]
    BY <1>4 DEF Own
  <2> QED BY <2>1, <2>2, <1>2, <1>5 DEF Own, Txn
<1>8. Own'.from = Own.from /\ Own'.to = Own.to /\ Own'.stage = s
  BY <1>2, <1>6, <1>7 DEF Own
<1>9. Todo' = Tail(Todo)
  BY <1>6 DEF Todo
<1>10. /\ \A i \in DOMAIN Todo' : \E j \in DOMAIN Todo : j # 1 /\ Todo'[i] = Todo[j]
       /\ \A o : Left(o)' => Left(o)
       /\ \A o : Left(o) /\ Todo[1].op # o => Left(o)'
  BY <1>1, <1>9, OneDone
<1>11. Left("readback")'
  <2>1. Left("readback")
    BY <1>2, <1>3 DEF Plan, Left
  <2> QED BY <2>1, <1>3, <1>10
<1>12. ~Left("verify")' => Settled'
  <2>1. ~Left("verify")' => Settled
    BY <1>2, <1>3, <1>10 DEF SwitchInv, InstallerKeepsPlan
  <2> QED BY <2>1, <1>1, <1>4, <1>6, <1>8, SettledStays
<1>13. Left("recheck")' => Unswitched'
  <2> SUFFICES ASSUME Left("recheck")' PROVE Unswitched'
    OBVIOUS
  <2>1. Unswitched
    BY <1>2, <1>10 DEF SwitchInv, InstallerKeepsPlan
  <2>2. PICK i \in DOMAIN Todo' : Todo'[i].op = "recheck"
    BY DEF Left
  <2>3. PICK j \in DOMAIN Todo : j # 1 /\ Todo[j].op = "recheck"
    BY <2>2, <1>10
  <2>4. s = "prepared"
    BY <2>3, <1>2, <1>3 DEF After, s
  <2> QED BY <2>1, <2>4, <1>4, <1>8 DEF Unswitched, Verified
<1>14. InstallerKeepsPlan'
  BY <1>1, <1>3, <1>4, <1>6, <1>7, <1>8, <1>11, <1>12, <1>13, PlanKept
<1>15. ForwardBelieves'
  <2>1. inst.mode = "forward" => s \notin {"rollback_started", "rolled_back"}
    BY <1>2, <1>3 DEF SwitchInv, ForwardBelieves, s
  <2>2. inst.mode = "forward" =>
          \A i \in DOMAIN Todo' :
            /\ Todo'[i].op = "append" => Todo'[i].arg \notin {"rollback_started", "rolled_back"}
            /\ Todo'[i].op = "verify" => Todo'[i].gen = Own'.to
    BY <1>8, <1>10 DEF SwitchInv, ForwardBelieves
  <2> QED BY <2>1, <2>2, <1>3, <1>4, <1>6, <1>8, <1>11 DEF ForwardBelieves
<1>16. ClosedIsUniform'
  <2>1. active' # 0
    BY <1>2, <1>3, <1>4, <1>5
  <2> QED BY <2>1 DEF ClosedIsUniform
<1>17. FenceBound'
  BY <1>4, <1>7 DEF SwitchInv, FenceBound
<1>18. FenceHasAuthority'
  BY <1>3, <1>4, <1>7 DEF SwitchInv, FenceHasAuthority, FenceBound
<1>19. SwitchTyped'
  BY <1>2, <1>4, <1>6, <1>7 DEF SwitchInv, SwitchTyped
<1> QED BY <1>14, <1>15, <1>16, <1>17, <1>18, <1>19 DEF SwitchInv

\* A resource is written.
LEMMA WriteKeeps ==
  ASSUME SwitchInv, WriteResource
  PROVE  SwitchInv'
<1> DEFINE res == Todo[1].arg
           g == Todo[1].gen
<1>1. Todo # <<>> /\ Head(Todo).op = "write"
  BY DEF WriteResource, At
<1>2. /\ inst.mode # "off" /\ inst.id \in DOMAIN txns /\ Own \in Txn
      /\ inst \in Installation /\ Todo \in Seq(Step) /\ inst.id # 0
      /\ 1 \in DOMAIN Todo /\ Head(Todo) = Todo[1] /\ Todo[1] \in Step /\ StepFits(Todo[1], Own)
      /\ \A i \in DOMAIN Todo : i # 1 => After(Todo[1], Todo[i], Own)
      /\ Todo[1].op \notin {"verify", "readback", "clear_fence"} => inst.id = active
  BY <1>1, AtWork
<1>3. Todo[1].op = "write" /\ inst.id = active /\ res \in Resource /\ g \in Gen \cup {NoGen}
  BY <1>1, <1>2 DEF StepFits, Step
<1>4. /\ live' = [live EXCEPT ![res] = g]
      /\ inst' = [inst EXCEPT !.todo = Tail(@)]
      /\ UNCHANGED <<txns, active, fence, fenceLock, faults>>
  BY <1>2 DEF WriteResource, Pop, Todo
<1>5. live \in [Resource -> Gen \cup {NoGen}]
  BY DEF SwitchInv, SwitchTyped
<1>6. /\ inst'.todo = Tail(Todo) /\ inst'.id = inst.id /\ inst'.mode = inst.mode
      /\ inst'.stage = inst.stage
      /\ inst'.verified = inst.verified /\ inst' \in Installation
  <2>1. Tail(inst.todo) \in Seq(Step)
    BY <1>1, <1>2 DEF Todo
  <2> QED BY <2>1, <1>2, <1>4 DEF Todo, Installation
<1>7. Todo' = Tail(Todo) /\ Own' = Own
  BY <1>4, <1>6 DEF Todo, Own
<1>8. /\ \A o : Left(o)' => Left(o)
      /\ \A o : Left(o) /\ Todo[1].op # o => Left(o)'
  BY <1>1, <1>7, OneDone
<1>9. ~Left("readback")' => Own'.stage \in Terminal
  BY <1>2, <1>3, <1>7, <1>8 DEF SwitchInv, InstallerKeepsPlan
<1>10. ~Left("verify")' => Settled'
  <2> SUFFICES ASSUME ~Left("verify")' PROVE Settled'
    OBVIOUS
  <2>1. Settled
    BY <1>2, <1>3, <1>8 DEF SwitchInv, InstallerKeepsPlan
  <2>2. live[res] = g
    BY <2>1, <1>2, <1>3 DEF Settled, Verified
  <2>3. live' = live
    BY <2>2, <1>3, <1>4, <1>5
  <2> QED BY <2>1, <2>3, <1>1, <1>6, <1>7, SettledStays
<1>11. ~Left("recheck")'
  <2>1. \A i \in DOMAIN Todo : Todo[i].op # "recheck"
    BY <1>2, <1>3 DEF After
  <2> QED BY <2>1, <1>8 DEF Left
<1>12. InstallerKeepsPlan'
  BY <1>1, <1>3, <1>4, <1>6, <1>7, <1>9, <1>10, <1>11, PlanKept
<1>13. ForwardBelieves'
  BY <1>1, <1>3, <1>4, <1>6, <1>2, QuietBelieves DEF Installation
<1>14. ClosedIsUniform'
  BY <1>2, <1>3, <1>4 DEF ClosedIsUniform
<1>15. FenceBound' /\ FenceHasAuthority'
  BY <1>4 DEF SwitchInv, FenceBound, FenceHasAuthority
<1>16. SwitchTyped'
  BY <1>2, <1>3, <1>4, <1>5, <1>6 DEF SwitchInv, SwitchTyped
<1> QED BY <1>12, <1>13, <1>14, <1>15, <1>16 DEF SwitchInv

\* A step that leaves the journal and the resources alone and goes on.
LEMMA QuietKeeps ==
  ASSUME SwitchInv, Todo # <<>>,
         inst' \in Installation, inst'.todo = Tail(Todo), inst'.id = inst.id, inst'.mode = inst.mode,
         inst'.stage = inst.stage, inst'.verified = (inst.verified \/ Todo[1].op = "readback"),
         UNCHANGED <<live, txns, active, faults>>,
         fenceLock' \in Run \cup {Installer, Nobody},
         \/ fence' \in {fence, NoFence}
         \/ /\ fence' \in Fence /\ fence'.id = inst.id /\ inst.id = active
            /\ fence'.to = Own.to /\ Own.block,
         Todo[1].op \notin {"clear_fence", "clear_active"} \/ Len(Todo) # 1,
         Todo[1].op = "readback" => Own.stage \in Terminal,
         Todo[1].op = "verify" => Verified(Todo[1].gen)
  PROVE  SwitchInv'
<1>1. inst.mode # "off" /\ inst.id \in DOMAIN txns
  BY AtWork
<1>2. InstallerKeepsPlan'
  BY QuietKeepsPlan
<1>3. ForwardBelieves'
  BY QuietBelieves
<1>4. ClosedIsUniform'
  BY DEF SwitchInv, ClosedIsUniform, Verified
<1>5. FenceBound' /\ FenceHasAuthority'
  BY <1>1 DEF SwitchInv, FenceBound, FenceHasAuthority, Own
<1>6. SwitchTyped'
  BY <1>1 DEF SwitchInv, SwitchTyped
<1> QED BY <1>2, <1>3, <1>4, <1>5, <1>6 DEF SwitchInv

\* The installer's record without its first step, and perhaps more.
LEMMA PopIs ==
  ASSUME SwitchInv, Todo # <<>>
  PROVE  /\ Pop \in Installation /\ Pop.todo = Tail(Todo) /\ Pop.id = inst.id
         /\ Pop.mode = inst.mode /\ Pop.stage = inst.stage /\ Pop.verified = inst.verified
         /\ Pop.seen = inst.seen /\ Pop.errors = inst.errors
<1>1. inst \in Installation /\ Todo \in Seq(Step)
  BY AtWork
<1>2. Tail(inst.todo) \in Seq(Step)
  BY <1>1 DEF Todo
<1> QED BY <1>1, <1>2 DEF Pop, Todo, Installation

\* The resources are looked at.
LEMMA VerifyKeeps ==
  ASSUME SwitchInv, VerifyResources
  PROVE  SwitchInv'
<1>1. Todo # <<>> /\ Head(Todo).op = "verify"
  BY DEF VerifyResources, At
<1>2. Todo[1].op = "verify" /\ Verified(Todo[1].gen)
  BY <1>1, AtWork DEF VerifyResources
<1>3. inst' = Pop /\ UNCHANGED <<live, txns, active, fence, fenceLock, faults>>
  BY DEF VerifyResources
<1>4. /\ inst' \in Installation /\ inst'.todo = Tail(Todo) /\ inst'.id = inst.id
      /\ inst'.mode = inst.mode /\ inst'.stage = inst.stage /\ inst'.verified = inst.verified
  BY <1>1, <1>3, PopIs
<1>5. fenceLock' \in Run \cup {Installer, Nobody} /\ inst'.verified \in BOOLEAN
  BY <1>3, <1>4 DEF SwitchInv, SwitchTyped, Installation
<1> QED BY <1>1, <1>2, <1>3, <1>4, <1>5, QuietKeeps

\* The leases are read again under the fence.
LEMMA RecheckKeeps ==
  ASSUME SwitchInv, Recheck
  PROVE  SwitchInv'
<1>1. Todo # <<>> /\ Head(Todo).op = "recheck"
  BY DEF Recheck, At
<1>2. Todo[1].op = "recheck"
  BY <1>1, AtWork
<1>3. /\ inst' = Pop /\ fenceLock' = Nobody
      /\ UNCHANGED <<live, txns, active, fence, faults>>
  BY DEF Recheck
<1>4. /\ inst' \in Installation /\ inst'.todo = Tail(Todo) /\ inst'.id = inst.id
      /\ inst'.mode = inst.mode /\ inst'.stage = inst.stage /\ inst'.verified = inst.verified
  BY <1>1, <1>3, PopIs
<1>5. inst'.verified \in BOOLEAN
  BY <1>4 DEF Installation
<1> QED BY <1>1, <1>2, <1>3, <1>4, <1>5, QuietKeeps

\* The journal is read back.
LEMMA ReadbackKeeps ==
  ASSUME SwitchInv, Readback
  PROVE  SwitchInv'
<1>1. Todo # <<>> /\ Head(Todo).op = "readback"
  BY DEF Readback, At
<1>2. Todo[1].op = "readback" /\ Own.stage \in Terminal
  BY <1>1, AtWork DEF Readback, Own
<1>3. /\ inst' = [Pop EXCEPT !.verified = TRUE]
      /\ UNCHANGED <<live, txns, active, fence, fenceLock, faults>>
  BY DEF Readback
<1>4. /\ inst' \in Installation /\ inst'.todo = Tail(Todo) /\ inst'.id = inst.id
      /\ inst'.mode = inst.mode /\ inst'.stage = inst.stage /\ inst'.verified = TRUE
  <2> HIDE DEF Pop
  <2>1. /\ Pop \in Installation /\ Pop.todo = Tail(Todo) /\ Pop.id = inst.id
        /\ Pop.mode = inst.mode /\ Pop.stage = inst.stage
    BY <1>1, PopIs
  <2> QED BY <2>1, <1>3 DEF Installation
<1>5. fenceLock' \in Run \cup {Installer, Nobody}
  BY <1>3 DEF SwitchInv, SwitchTyped
<1>6. inst'.verified = (inst.verified \/ Todo[1].op = "readback")
  BY <1>2, <1>4
<1> QED BY <1>1, <1>2, <1>3, <1>4, <1>5, <1>6, QuietKeeps

\* The fence is published, or not needed.
LEMMA PublishKeeps ==
  ASSUME SwitchInv, PublishFence
  PROVE  SwitchInv'
<1>1. Todo # <<>> /\ Head(Todo).op = "fence"
  BY DEF PublishFence, At
<1>2. /\ Todo[1].op = "fence" /\ inst.id = active /\ inst.id \in 1..MaxInstall
      /\ Own \in Txn /\ Own.to \in Gen
  BY <1>1, AtWork
<1>3. /\ fence' = IF Own.block THEN [id |-> inst.id, to |-> Own.to] ELSE fence
      /\ inst' = [Pop EXCEPT !.seen = IF Own.block THEN fence' ELSE NoFence]
      /\ fenceLock' = Installer
      /\ UNCHANGED <<live, txns, active, faults>>
  BY DEF PublishFence, Own
<1>4. Own.block \in BOOLEAN
  BY <1>2 DEF Txn
<1>5. \/ fence' = fence
      \/ fence' \in Fence /\ fence'.id = inst.id /\ fence'.to = Own.to /\ Own.block
  BY <1>2, <1>3, <1>4 DEF Fence
<1>6. IF Own.block THEN fence' \in Fence \cup {NoFence} ELSE TRUE
  BY <1>2, <1>3 DEF Fence
<1>7. /\ inst' \in Installation /\ inst'.todo = Tail(Todo) /\ inst'.id = inst.id
      /\ inst'.mode = inst.mode /\ inst'.stage = inst.stage /\ inst'.verified = inst.verified
  <2>1. /\ Pop \in Installation /\ Pop.todo = Tail(Todo) /\ Pop.id = inst.id
        /\ Pop.mode = inst.mode /\ Pop.stage = inst.stage /\ Pop.verified = inst.verified
    BY <1>1, PopIs
  <2>2. PICK f \in Fence \cup {NoFence} : inst' = [Pop EXCEPT !.seen = f]
    BY <1>3, <1>6
  <2> QED BY <2>1, <2>2 DEF Installation
<1>8. fence' \in {fence, NoFence} \/
        (/\ fence' \in Fence /\ fence'.id = inst.id /\ inst.id = active
         /\ fence'.to = Own.to /\ Own.block)
  BY <1>2, <1>5
<1>9. fenceLock' \in Run \cup {Installer, Nobody} /\ inst'.verified \in BOOLEAN
  BY <1>3, <1>7 DEF Installation
<1> QED BY <1>1, <1>2, <1>3, <1>7, <1>8, <1>9, QuietKeeps

\* Nothing is left to do.
LEMMA OffKeeps ==
  ASSUME SwitchInv, inst' = InstOff
  PROVE  InstallerKeepsPlan' /\ ForwardBelieves' /\ inst' \in Installation
<1>1. inst'.mode = "off" /\ inst' \in Installation
  BY StagesNamed DEF InstOff, Installation
<1> QED BY <1>1 DEF InstallerKeepsPlan, ForwardBelieves

\* The fence is cleared, or was none.
LEMMA ClearFenceKeeps ==
  ASSUME SwitchInv, ClearFence
  PROVE  SwitchInv'
<1>1. Todo # <<>> /\ Head(Todo).op = "clear_fence"
  BY DEF ClearFence, At
<1>2. Todo[1].op = "clear_fence"
  BY <1>1, AtWork
<1>3. /\ inst' = IF Len(Todo) = 1 THEN InstOff ELSE Pop
      /\ fence' \in {fence, NoFence}
      /\ UNCHANGED <<live, txns, active, fenceLock, faults>>
  BY DEF ClearFence
<1>4. CASE Len(Todo) = 1
  <2>1. InstallerKeepsPlan' /\ ForwardBelieves' /\ inst' \in Installation /\ inst' = InstOff
    BY <1>3, <1>4, OffKeeps
  <2>2. ClosedIsUniform' /\ FenceBound' /\ FenceHasAuthority'
    BY <1>3 DEF SwitchInv, ClosedIsUniform, Verified, FenceBound, FenceHasAuthority
  <2>3. SwitchTyped'
    BY <2>1, <1>3 DEF SwitchInv, SwitchTyped
  <2> QED BY <2>1, <2>2, <2>3 DEF SwitchInv
<1>5. CASE Len(Todo) # 1
  <2>1. /\ inst' \in Installation /\ inst'.todo = Tail(Todo) /\ inst'.id = inst.id
        /\ inst'.mode = inst.mode /\ inst'.stage = inst.stage /\ inst'.verified = inst.verified
    BY <1>1, <1>3, <1>5, PopIs
  <2>2. fenceLock' \in Run \cup {Installer, Nobody} /\ inst'.verified \in BOOLEAN
    BY <1>3, <2>1 DEF SwitchInv, SwitchTyped, Installation
  <2> QED BY <1>1, <1>2, <1>3, <1>5, <2>1, <2>2, QuietKeeps
<1> QED BY <1>4, <1>5

\* When only the record of the active transaction is left to clear, all is said
\* and the resources are of one generation.
LEMMA LastStep ==
  ASSUME SwitchInv, Todo # <<>>, Todo[1].op = "clear_active"
  PROVE  Own.stage \in Terminal /\ (\E g \in Gen : Verified(g)) /\ inst.id = active
         /\ (inst.mode = "forward" => inst.verified)
<1>1. /\ inst.mode # "off" /\ Own.from \in Gen /\ Own.to \in Gen
      /\ \A i \in DOMAIN Todo : i # 1 => After(Todo[1], Todo[i], Own)
      /\ Todo[1].op \notin {"verify", "readback", "clear_fence"} => inst.id = active
  BY AtWork
<1>2. ~Left("readback") /\ ~Left("verify")
  BY <1>1 DEF After, Left
<1>3. Settled
  BY <1>1, <1>2 DEF SwitchInv, InstallerKeepsPlan
<1>4. \E g \in Gen : Verified(g)
  BY <1>1, <1>3 DEF Settled
<1> QED BY <1>1, <1>2, <1>4 DEF SwitchInv, InstallerKeepsPlan, ForwardBelieves

\* The transaction ends.
LEMMA ClearActiveKeeps ==
  ASSUME SwitchInv, ClearActive
  PROVE  SwitchInv'
<1>1. Todo # <<>> /\ Head(Todo).op = "clear_active"
  BY DEF ClearActive, At
<1>2. Todo[1].op = "clear_active"
  BY <1>1, AtWork
<1>3. Own.stage \in Terminal /\ (\E g \in Gen : Verified(g)) /\ inst.id = active
  BY <1>1, <1>2, LastStep
<1>4. /\ inst' = InstOff /\ active' = 0
      /\ UNCHANGED <<live, txns, fence, fenceLock, faults>>
  BY DEF ClearActive, Off
<1>5. InstallerKeepsPlan' /\ ForwardBelieves' /\ inst' \in Installation
  BY <1>4, OffKeeps
<1>6. ClosedIsUniform'
  BY <1>3, <1>4 DEF ClosedIsUniform, Verified
<1>7. FenceBound'
  BY <1>4 DEF SwitchInv, FenceBound
<1>8. FenceHasAuthority'
  BY <1>3, <1>4 DEF SwitchInv, FenceHasAuthority, Own
<1>9. SwitchTyped'
  BY <1>4, <1>5 DEF SwitchInv, SwitchTyped
<1> QED BY <1>5, <1>6, <1>7, <1>8, <1>9 DEF SwitchInv

-----------------------------------------------------------------------------
(* Steps that fail. *)

\* What a failing step leaves behind.
FailedStep ==
  /\ live' \in [Resource -> Gen \cup {NoGen}]
  /\ txns' \in Seq(Txn) /\ Len(txns') = Len(txns) /\ DOMAIN txns' = DOMAIN txns
  /\ \A k \in DOMAIN txns : /\ txns'[k].from = txns[k].from /\ txns'[k].to = txns[k].to
                            /\ txns'[k].block = txns[k].block /\ txns'[k].gapFree = txns[k].gapFree
                            /\ k # inst.id => txns'[k] = txns[k]
  /\ txns' # txns => Todo[1].op = "append" /\ txns'[inst.id].stage = Todo[1].arg
  /\ active' # active => active' = 0 /\ Todo[1].op = "clear_active"
  /\ live' # live => Todo[1].op = "write"
  /\ live' # live => live' = [live EXCEPT ![Todo[1].arg] = live'[Todo[1].arg]]
  /\ Todo[1].op = "write" => live'[Todo[1].arg] \in CutShort(Todo[1].arg, Todo[1].gen)
  /\ fence' # fence => \/ fence' = NoFence
                       \/ /\ Todo[1].op = "fence" /\ fence = NoFence /\ Own.block
                          /\ fence' \in Fence /\ fence'.id = inst.id /\ fence'.to = Own.to

\* Nothing is a failed step.
LEMMA RefusedLeaves ==
  ASSUME SwitchInv, Todo # <<>>, UNCHANGED <<live, txns, active, fence>>
  PROVE  FailedStep
<1>1. /\ live \in [Resource -> Gen \cup {NoGen}] /\ txns \in Seq(Txn)
  BY DEF SwitchInv, SwitchTyped
<1> QED BY <1>1 DEF FailedStep, CutShort

\* A step that raises or dies leaves part of its effect.
LEMMA PartialLeaves ==
  ASSUME SwitchInv, Todo # <<>>, PartialEffect
  PROVE  FailedStep
<1> DEFINE a == Todo[1]
<1>1. /\ inst.id \in DOMAIN txns /\ Own \in Txn /\ Own.to \in Gen /\ inst.id \in 1..MaxInstall
      /\ Head(Todo) = a /\ a \in Step /\ StepFits(a, Own)
  BY AtWork
<1>2. /\ live \in [Resource -> Gen \cup {NoGen}] /\ txns \in Seq(Txn)
  BY DEF SwitchInv, SwitchTyped
<1>3. \A o : At(o) <=> a.op = o
  BY <1>1 DEF At
<1> HIDE DEF a
<1>4. /\ live' # live => a.op = "write"
      /\ live' \in [Resource -> Gen \cup {NoGen}]
      /\ live' # live => live' = [live EXCEPT ![a.arg] = live'[a.arg]]
      /\ a.op = "write" => live'[a.arg] \in CutShort(a.arg, a.gen)
  <2>1. CASE a.op = "write"
    <3>1. a.arg \in Resource /\ a.gen \in Gen \cup {NoGen}
      BY <2>1, <1>1 DEF StepFits, Step
    <3>2. PICK g \in CutShort(a.arg, a.gen) : live' = [live EXCEPT ![a.arg] = g]
      BY <2>1, <1>1, <1>3 DEF PartialEffect
    <3>3. g \in Gen \cup {NoGen}
      BY <3>1, <3>2, <1>2 DEF CutShort
    <3> QED BY <2>1, <3>1, <3>2, <3>3, <1>2
  <2>2. CASE a.op # "write"
    <3>1. live' = live
      BY <2>2, <1>3 DEF PartialEffect
    <3> QED BY <2>2, <3>1, <1>2
  <2> QED BY <2>1, <2>2
<1>5. /\ txns' \in Seq(Txn) /\ Len(txns') = Len(txns) /\ DOMAIN txns' = DOMAIN txns
      /\ \A k \in DOMAIN txns : /\ txns'[k].from = txns[k].from /\ txns'[k].to = txns[k].to
                                /\ txns'[k].block = txns[k].block
                                /\ txns'[k].gapFree = txns[k].gapFree
                                /\ k # inst.id => txns'[k] = txns[k]
      /\ txns' # txns => a.op = "append" /\ txns'[inst.id].stage = a.arg
  <2>1. CASE txns' = txns
    BY <2>1, <1>2
  <2>2. CASE txns' # txns
    <3>1. a.op = "append" /\ txns' = [txns EXCEPT ![inst.id].stage = a.arg]
      BY <2>2, <1>1, <1>3 DEF PartialEffect
    <3>2. [Own EXCEPT !.stage = a.arg] \in Txn
      BY <3>1, <1>1 DEF StepFits, Txn
    <3>3. txns' = [txns EXCEPT ![inst.id] = [Own EXCEPT !.stage = a.arg]]
      BY <3>1 DEF Own
    <3> QED BY <3>1, <3>2, <3>3, <1>1, <1>2 DEF Own, Txn
  <2> QED BY <2>1, <2>2
<1>6. active' # active => active' = 0 /\ a.op = "clear_active"
  BY <1>3 DEF PartialEffect
<1>7. fence' # fence => \/ fence' = NoFence
                        \/ /\ a.op = "fence" /\ fence = NoFence /\ Own.block
                           /\ fence' \in Fence /\ fence'.id = inst.id /\ fence'.to = Own.to
  <2> SUFFICES ASSUME fence' # fence, fence' # NoFence
               PROVE  /\ a.op = "fence" /\ fence = NoFence /\ Own.block
                      /\ fence' \in Fence /\ fence'.id = inst.id /\ fence'.to = Own.to
    OBVIOUS
  <2>1. /\ At("fence") /\ fence = NoFence /\ Own.block
        /\ fence' = [id |-> inst.id, to |-> Own.to]
    BY DEF PartialEffect, Own
  <2> QED BY <2>1, <1>1, <1>3 DEF Fence
<1> QED BY <1>4, <1>5, <1>6, <1>7 DEF FailedStep, a

\* ... which breaks nothing that is not the installer's own.
LEMMA FailedKeeps ==
  ASSUME SwitchInv, Todo # <<>>, FailedStep
  PROVE  ClosedIsUniform' /\ FenceBound' /\ FenceHasAuthority'
<1>1. /\ inst.mode # "off" /\ inst.id \in DOMAIN txns /\ inst.id # 0
      /\ Todo[1].op \notin {"verify", "readback", "clear_fence"} => inst.id = active
  BY AtWork
<1>2. FenceBound'
  BY <1>1 DEF SwitchInv, FenceBound, FailedStep, Own
<1>3. ClosedIsUniform'
  <2> SUFFICES ASSUME active' = 0 PROVE \E g \in Gen : Verified(g)'
    BY DEF ClosedIsUniform
  <2>1. CASE active' = active
    <3>1. live' = live
      BY <2>1, <1>1 DEF FailedStep
    <3> QED BY <2>1, <3>1 DEF SwitchInv, ClosedIsUniform, Verified
  <2>2. CASE active' # active
    <3>1. Todo[1].op = "clear_active" /\ live' = live
      BY <2>2 DEF FailedStep
    <3> QED BY <3>1, LastStep DEF Verified
  <2> QED BY <2>1, <2>2
<1>4. FenceHasAuthority'
  <2> SUFFICES ASSUME fence' # NoFence, fence'.id # active' PROVE txns'[fence'.id].stage \in Terminal
    BY DEF FenceHasAuthority
  <2>1. fence' = fence
    BY <1>1 DEF FailedStep
  <2>2. fence.id \in DOMAIN txns
    BY <2>1 DEF SwitchInv, FenceBound
  <2>3. CASE active' = active
    <3>1. txns[fence.id].stage \in Terminal
      BY <2>1, <2>3 DEF SwitchInv, FenceHasAuthority
    <3>2. txns' # txns => inst.id = active
      BY <1>1 DEF FailedStep
    <3> QED BY <3>1, <3>2, <2>1, <2>2, <2>3 DEF FailedStep
  <2>4. CASE active' # active
    <3>1. Todo[1].op = "clear_active" /\ txns' = txns
      BY <2>4 DEF FailedStep
    <3>2. Own.stage \in Terminal /\ inst.id = active
      BY <3>1, LastStep
    <3> QED BY <3>1, <3>2, <2>1 DEF SwitchInv, FenceHasAuthority, Own
  <2> QED BY <2>3, <2>4
<1> QED BY <1>2, <1>3, <1>4

\* A list that confirms or puts back keeps to the plan from the start.
LEMMA FreshList ==
  ASSUME NEW S, NEW t, inst'.todo = S, inst'.mode \in {"recover", "undo"},
         inst'.id \in DOMAIN txns', Own'.from = t.from, Own'.to = t.to,
         Confirm(S, t) \/ Back(S, t),
         \/ \E i \in DOMAIN S : S[i].op = "readback"
         \/ Own'.stage \in Terminal,
         \/ inst'.id = active'
         \/ \A i \in DOMAIN S : S[i].op \in {"verify", "readback", "clear_fence"}
  PROVE  InstallerKeepsPlan' /\ ForwardBelieves'
<1>1. Todo' = S
  BY DEF Todo
<1>2. Plan(S, t) /\ (\E i \in DOMAIN S : S[i].op = "verify") /\ ~\E i \in DOMAIN S : S[i].op = "recheck"
  BY DEF Confirm, Back
<1>3. Plan(S, Own')
  BY <1>2, PlanSame
<1>4. /\ Left("verify")' /\ ~Left("recheck")'
      /\ Left("readback")' <=> \E i \in DOMAIN S : S[i].op = "readback"
  BY <1>1, <1>2 DEF Left
<1>5. inst'.mode # "off" /\ inst'.mode # "forward"
  OBVIOUS
<1> QED BY <1>1, <1>3, <1>4, <1>5 DEF InstallerKeepsPlan, ForwardBelieves

\* What the handler makes of the installer.
Handled ==
  \/ /\ inst.mode = "forward" /\ ~inst.verified /\ Own.gapFree
     /\ inst' = [inst EXCEPT !.mode = "recover", !.todo = RecoveryScript(inst.id, inst.stage)]
  \/ /\ inst.mode = "forward" /\ ~inst.verified /\ ~Own.gapFree
     /\ inst' = [inst EXCEPT !.mode = "undo", !.todo = UndoScript(inst.id, inst.stage, Switched)]
  \/ /\ inst.mode = "undo"
     /\ Todo[1] \in {AppendOf("rollback_started"), WriteOf("registry", Own.from)}
     /\ inst' = [Pop EXCEPT !.errors = TRUE]
  \/ inst' = InstOff

\* The handler's cases.
LEMMA HandleIs ==
  ASSUME SwitchInv, Todo # <<>>, Handle
  PROVE  Handled /\ fenceLock' \in Run \cup {Installer, Nobody}
<1>1. Head(Todo) = Todo[1]
  BY AtWork
<1>2. fenceLock' \in Run \cup {Installer, Nobody}
  BY DEF Handle, SwitchInv, SwitchTyped
<1> DEFINE a == inst.mode = "forward" /\ ~inst.verified /\ txns[inst.id].gapFree
           b == inst.mode = "forward" /\ ~inst.verified /\ ~txns[inst.id].gapFree
           c == inst.mode = "undo" /\ Head(Todo) \in {AppendOf("rollback_started"),
                                               WriteOf("registry", txns[inst.id].from)}
<1>3. ~(a /\ b) /\ ~(a /\ c) /\ ~(b /\ c)
  OBVIOUS
<1>4. CASE a
  BY <1>2, <1>3, <1>4 DEF Handle, Handled, Own
<1>5. CASE b
  BY <1>2, <1>3, <1>5 DEF Handle, Handled, Own
<1>6. CASE c
  BY <1>1, <1>2, <1>3, <1>6 DEF Handle, Handled, Own
<1>7. CASE ~a /\ ~b /\ ~c
  BY <1>2, <1>7 DEF Handle, Handled, Off
<1> QED BY <1>4, <1>5, <1>6, <1>7

\* A failed step leaves everything of its type.
LEMMA FailedTyped ==
  ASSUME SwitchInv, Todo # <<>>, FailedStep, inst' \in Installation,
         inst'.mode = "off" => inst' = InstOff,
         fenceLock' \in Run \cup {Installer, Nobody}, faults' \in 0..MaxFault
  PROVE  SwitchTyped'
<1>1. /\ Len(txns') <= MaxInstall /\ active' \in 0..Len(txns')
      /\ \A t \in DOMAIN txns' : txns'[t].from # txns'[t].to
  BY DEF SwitchInv, SwitchTyped, FailedStep
<1>2. fence' \in Fence \cup {NoFence}
  BY DEF SwitchInv, SwitchTyped, FailedStep
<1> QED BY <1>1, <1>2 DEF SwitchTyped, FailedStep

\* A forward install that fails goes back, or confirms what it did.
LEMMA ForwardHandled ==
  ASSUME SwitchInv, Todo # <<>>, FailedStep, inst.mode = "forward", ~inst.verified,
         NEW m \in {"recover", "undo"}, NEW S, inst' = [inst EXCEPT !.mode = m, !.todo = S],
         \/ m = "recover" /\ S = RecoveryScript(inst.id, inst.stage)
         \/ m = "undo" /\ ~Own.gapFree /\ S = UndoScript(inst.id, inst.stage, Switched)
  PROVE  InstallerKeepsPlan' /\ ForwardBelieves' /\ inst' \in Installation
<1>1. /\ inst.id \in DOMAIN txns /\ Own \in Txn /\ inst \in Installation
      /\ txns[inst.id] = Own
  BY AtWork DEF Own
<1>2. inst.id = active /\ inst.stage \notin {"rollback_started", "rolled_back"} /\ Left("readback")
  BY DEF SwitchInv, ForwardBelieves
<1>3. active' = active
  <2>1. Todo[1].op # "clear_active"
    BY LastStep
  <2> QED BY <2>1 DEF FailedStep
<1>4. /\ Confirm(S, Own) \/ Back(S, Own)
      /\ \E i \in DOMAIN S : S[i].op = "readback"
      /\ S \in Seq(Step)
  <2>1. CASE m = "recover"
    <3>1. S = RecoveryScript(inst.id, inst.stage)
      BY <2>1
    <3>2. \/ inst.stage = "rolled_back"
          \/ Confirm(S, Own) /\ \E i \in DOMAIN S : S[i].op = "readback"
          \/ Back(S, Own)
      BY <3>1, <1>1, RecoveryIs
    <3> QED BY <3>2, <1>2 DEF Back, Confirm
  <2>2. CASE m = "undo"
    <3>1. ~Own.gapFree /\ S = UndoScript(inst.id, inst.stage, Switched) /\ Switched \in BOOLEAN
      BY <2>2 DEF Switched
    <3>2. Back(S, Own)
      BY <3>1, <1>1, UndoIs
    <3> QED BY <3>2 DEF Back
  <2> QED BY <2>1, <2>2
<1>5. /\ inst'.todo = S /\ inst'.mode = m /\ inst'.id = inst.id /\ inst' \in Installation
  BY <1>1, <1>4 DEF Installation
<1>6. inst'.id \in DOMAIN txns' /\ Own'.from = Own.from /\ Own'.to = Own.to
  BY <1>1, <1>5 DEF FailedStep, Own
<1>7. InstallerKeepsPlan' /\ ForwardBelieves'
  BY <1>2, <1>3, <1>4, <1>5, <1>6, FreshList
<1> QED BY <1>5, <1>7

\* The handler of a legacy install notes the error and goes on.
LEMMA UndoHandled ==
  ASSUME SwitchInv, Todo # <<>>, FailedStep, inst.mode = "undo",
         Todo[1] \in {AppendOf("rollback_started"), WriteOf("registry", Own.from)},
         inst' = [Pop EXCEPT !.errors = TRUE]
  PROVE  InstallerKeepsPlan' /\ ForwardBelieves' /\ inst' \in Installation
<1> DEFINE a == Todo[1]
<1>1. \/ a.op = "append" /\ a.arg = "rollback_started"
      \/ a.op = "write" /\ a.arg = "registry" /\ a.gen = Own.from
  BY DEF AppendOf, WriteOf
<1>2. /\ inst.id \in DOMAIN txns /\ Own \in Txn /\ inst.mode # "off" /\ Own.from \in Gen
      /\ Own.to \in Gen /\ Todo \in Seq(Step) /\ Plan(Todo, Own) /\ 1 \in DOMAIN Todo
      /\ a.op \notin {"verify", "readback", "clear_fence"} => inst.id = active
  BY AtWork
<1>3. inst.id = active /\ active' = active /\ a.op \in {"append", "write"}
  BY <1>1, <1>2 DEF FailedStep
<1>4. /\ inst' \in Installation /\ inst'.todo = Tail(Todo) /\ inst'.id = inst.id
      /\ inst'.mode = inst.mode
  <2> HIDE DEF Pop
  <2>1. /\ Pop \in Installation /\ Pop.todo = Tail(Todo) /\ Pop.id = inst.id
        /\ Pop.mode = inst.mode
    BY PopIs
  <2> QED BY <2>1 DEF Installation
<1>5. /\ DOMAIN txns' = DOMAIN txns /\ Own'.from = Own.from /\ Own'.to = Own.to
      /\ a.op = "write" => Own' = Own
  BY <1>2, <1>4 DEF FailedStep, Own
<1>6. Todo' = Tail(Todo)
  BY <1>4 DEF Todo
<1>7. /\ \A o : Left(o)' => Left(o)
      /\ \A o : Left(o) /\ a.op # o => Left(o)'
  BY <1>6, OneDone
<1> HIDE DEF a
<1>8. ~Left("readback")' => Own'.stage \in Terminal
  <2>1. a.op = "append" => Left("readback")
    BY <1>2 DEF Plan, Left, a
  <2> QED BY <2>1, <1>2, <1>3, <1>5, <1>7 DEF SwitchInv, InstallerKeepsPlan
<1>9. ~Left("verify")' => Settled'
  <2> SUFFICES ASSUME ~Left("verify")' PROVE Settled'
    OBVIOUS
  <2>1. Settled
    BY <1>2, <1>3, <1>7 DEF SwitchInv, InstallerKeepsPlan
  <2>2. PICK g \in {Own.from, Own.to} :
          /\ Verified(g)
          /\ a.op = "write" => a.gen = g
    BY <2>1, <1>2 DEF Settled, a
  <2>3. live' = live
    <3>1. CASE a.op = "write"
      <4>1. a.arg = "registry" /\ "registry" \in Resource /\ live["registry"] = g /\ a.gen = g
        BY <3>1, <2>2, <1>1 DEF Verified, Resource
      <4>2. CutShort("registry", g) = {g}
        BY <4>1 DEF CutShort
      <4>3. live'["registry"] = g
        BY <3>1, <4>1, <4>2 DEF FailedStep, a
      <4>4. live' # live => live' = [live EXCEPT !["registry"] = g]
        BY <4>1, <4>3 DEF FailedStep, a
      <4>5. live \in [Resource -> Gen \cup {NoGen}]
        BY DEF SwitchInv, SwitchTyped
      <4> QED BY <4>1, <4>4, <4>5
    <3>2. CASE a.op # "write"
      BY <3>2 DEF FailedStep, a
    <3> QED BY <3>1, <3>2
  <2> QED BY <2>1, <2>3, <1>4, <1>5, SettledStays
<1>10. ~Left("recheck")'
  BY <1>2, <1>7 DEF SwitchInv, InstallerKeepsPlan
<1>11. Todo[1].op \notin {"clear_fence", "clear_active"}
  BY <1>3 DEF a
<1>12. InstallerKeepsPlan'
  BY <1>3, <1>4, <1>5, <1>8, <1>9, <1>10, <1>11, PlanKept
<1>13. ForwardBelieves'
  BY <1>4 DEF ForwardBelieves
<1> QED BY <1>4, <1>12, <1>13

\* A step that fails and is handled.
LEMMA HandleKeeps ==
  ASSUME SwitchInv, Todo # <<>>, FailedStep, Handle, faults' \in 0..MaxFault
  PROVE  SwitchInv'
<1>1. Handled /\ fenceLock' \in Run \cup {Installer, Nobody}
  BY HandleIs
<1>2. InstallerKeepsPlan' /\ ForwardBelieves' /\ inst' \in Installation
      /\ (inst'.mode = "off" => inst' = InstOff)
  <2>1. CASE /\ inst.mode = "forward" /\ ~inst.verified /\ Own.gapFree
             /\ inst' = [inst EXCEPT !.mode = "recover", !.todo = RecoveryScript(inst.id, inst.stage)]
    <3>1. InstallerKeepsPlan' /\ ForwardBelieves' /\ inst' \in Installation
      BY <2>1, ForwardHandled
    <3>2. inst'.mode = "recover"
      BY <2>1, AtWork DEF Installation
    <3> QED BY <3>1, <3>2
  <2>2. CASE /\ inst.mode = "forward" /\ ~inst.verified /\ ~Own.gapFree
             /\ inst' = [inst EXCEPT !.mode = "undo", !.todo = UndoScript(inst.id, inst.stage, Switched)]
    <3>1. InstallerKeepsPlan' /\ ForwardBelieves' /\ inst' \in Installation
      BY <2>2, ForwardHandled
    <3>2. inst'.mode = "undo"
      BY <2>2, AtWork DEF Installation
    <3> QED BY <3>1, <3>2
  <2>3. CASE /\ inst.mode = "undo"
             /\ Todo[1] \in {AppendOf("rollback_started"), WriteOf("registry", Own.from)}
             /\ inst' = [Pop EXCEPT !.errors = TRUE]
    <3>1. InstallerKeepsPlan' /\ ForwardBelieves' /\ inst' \in Installation
      BY <2>3, UndoHandled
    <3>2. inst'.mode = "undo"
      <4> HIDE DEF Pop
      <4>1. Pop \in Installation /\ Pop.mode = "undo"
        BY <2>3, PopIs
      <4> QED BY <2>3, <4>1 DEF Installation
    <3> QED BY <3>1, <3>2
  <2>4. CASE inst' = InstOff
    BY <2>4, OffKeeps
  <2> QED BY <1>1, <2>1, <2>2, <2>3, <2>4 DEF Handled
<1>3. ClosedIsUniform' /\ FenceBound' /\ FenceHasAuthority'
  BY FailedKeeps
<1>4. SwitchTyped'
  BY <1>1, <1>2, FailedTyped
<1> QED BY <1>2, <1>3, <1>4 DEF SwitchInv

\* A check refuses a step.
LEMMA RefusedKeeps ==
  ASSUME SwitchInv, StepRefused
  PROVE  SwitchInv'
<1>1. Todo # <<>> /\ Handle /\ UNCHANGED <<live, txns, active, fence, faults>>
  BY DEF StepRefused, At
<1>2. FailedStep
  BY <1>1, RefusedLeaves
<1>3. faults' \in 0..MaxFault
  BY <1>1 DEF SwitchInv, SwitchTyped
<1> QED BY <1>1, <1>2, <1>3, HandleKeeps

\* A step raises.
LEMMA RaisesKeeps ==
  ASSUME SwitchInv, StepRaises
  PROVE  SwitchInv'
<1>1. Todo # <<>> /\ Handle /\ PartialEffect
  BY DEF StepRaises
<1>2. FailedStep
  BY <1>1, PartialLeaves
<1>3. faults' \in 0..MaxFault
  BY SwitchBoundAssumption DEF StepRaises, SwitchInv, SwitchTyped
<1> QED BY <1>1, <1>2, <1>3, HandleKeeps

\* The installer dies.
LEMMA DiesKeeps ==
  ASSUME SwitchInv, InstallerDies
  PROVE  SwitchInv'
<1>1. Todo # <<>> /\ PartialEffect /\ inst' = InstOff
  BY DEF InstallerDies, Off
<1>2. FailedStep
  BY <1>1, PartialLeaves
<1>3. faults' \in 0..MaxFault /\ fenceLock' \in Run \cup {Installer, Nobody}
  BY SwitchBoundAssumption DEF InstallerDies, SwitchInv, SwitchTyped
<1>4. InstallerKeepsPlan' /\ ForwardBelieves' /\ inst' \in Installation
  BY <1>1, OffKeeps
<1>5. ClosedIsUniform' /\ FenceBound' /\ FenceHasAuthority'
  BY <1>1, <1>2, FailedKeeps
<1>6. SwitchTyped'
  BY <1>1, <1>2, <1>3, <1>4, FailedTyped
<1> QED BY <1>4, <1>5, <1>6 DEF SwitchInv

-----------------------------------------------------------------------------
(* A process starts to work. *)

\* An install begins.
LEMMA InstallKeeps ==
  ASSUME SwitchInv, BeginInstall
  PROVE  SwitchInv'
<1>1. /\ inst.mode = "off" /\ active = 0 /\ Len(txns) < MaxInstall
      /\ active' = Len(txns) + 1
      /\ UNCHANGED <<live, fence, fenceLock, faults>>
  BY DEF BeginInstall
<1>2. PICK to \in Gen \ {live["registry"]}, policy \in Policies, profile \in Profiles :
        /\ txns' = Append(txns, [from |-> live["registry"], to |-> to, block |-> policy = "block",
                                 gapFree |-> profile = "gap_free", stage |-> "none"])
        /\ inst' = [InstOff EXCEPT !.mode = "forward", !.id = Len(txns) + 1,
                                   !.todo = ForwardScript(to)]
  BY ZenonT(40) DEF BeginInstall
<1> DEFINE t == [from |-> live["registry"], to |-> to, block |-> policy = "block",
                 gapFree |-> profile = "gap_free", stage |-> "none"]
           n == Len(txns)
<1>3. PICK g \in Gen : Verified(g)
  BY <1>1 DEF SwitchInv, ClosedIsUniform
<1>4. live["registry"] = g
  BY <1>3 DEF Verified, Resource
<1>5. t \in Txn /\ t.from = g /\ t.to = to /\ t.from # t.to /\ t.stage = "none"
  BY <1>4, StagesNamed DEF Txn
<1>6. txns' = Append(txns, t)
  BY <1>2
<1> HIDE DEF t
<1>7. txns \in Seq(Txn) /\ n \in Nat /\ DOMAIN txns = 1..n /\ n < MaxInstall
      /\ \A k \in DOMAIN txns : txns[k].from # txns[k].to
  BY <1>1 DEF SwitchInv, SwitchTyped
<1>8. /\ txns' \in Seq(Txn) /\ Len(txns') = n + 1 /\ DOMAIN txns' = 1..(n + 1)
      /\ \A k \in DOMAIN txns : txns'[k] = txns[k]
      /\ txns'[n + 1] = t
  BY <1>5, <1>6, <1>7
<1> DEFINE F == ForwardScript(to)
<1>9. /\ F \in Seq(Step) /\ Plan(F, t)
      /\ \E i \in DOMAIN F : F[i].op = "recheck"
      /\ \E i \in DOMAIN F : F[i].op = "verify"
      /\ \E i \in DOMAIN F : F[i].op = "readback"
      /\ \A i \in DOMAIN F :
           /\ F[i].op = "append" => F[i].arg \notin {"rollback_started", "rolled_back"}
           /\ F[i].op = "verify" => F[i].gen = to
  <2>1. F = ForwardScript(t.to)
    BY <1>5
  <2> HIDE DEF F
  <2>2. Forward(F, t)
    BY <2>1, <1>5, ForwardIsPlan
  <2> QED BY <2>2, <1>5 DEF Forward
<1> HIDE DEF F
<1>10. /\ inst'.mode = "forward" /\ inst'.id = n + 1 /\ inst'.todo = F /\ inst'.stage = "none"
       /\ inst'.verified = FALSE /\ inst' \in Installation
  <2>1. inst' = [mode |-> "forward", id |-> n + 1, stage |-> "none", seen |-> NoFence,
                 verified |-> FALSE, errors |-> FALSE, todo |-> F]
    BY <1>2 DEF InstOff, F
  <2> QED BY <2>1, <1>7, <1>9, StagesNamed DEF Installation
<1>11. Todo' = F /\ Own' = t
  BY <1>8, <1>10 DEF Todo, Own
<1>12. Left("verify")' /\ Left("readback")'
  BY <1>9, <1>11 DEF Left
<1>13. Unswitched'
  BY <1>1, <1>3, <1>5, <1>11 DEF Unswitched, Verified
<1>14. InstallerKeepsPlan'
  <2>1. inst'.id \in DOMAIN txns' /\ inst'.id = active'
    BY <1>1, <1>7, <1>8, <1>10
  <2> QED BY <2>1, <1>9, <1>10, <1>11, <1>12, <1>13 DEF InstallerKeepsPlan
<1>15. ForwardBelieves'
  BY <1>1, <1>5, <1>9, <1>10, <1>11, <1>12 DEF ForwardBelieves
<1>16. ClosedIsUniform'
  BY <1>1, <1>7 DEF ClosedIsUniform
<1>17. FenceBound' /\ FenceHasAuthority'
  <2>1. fence # NoFence => /\ fence.id \in 1..n /\ fence.to = txns[fence.id].to
                           /\ txns[fence.id].block /\ txns[fence.id].stage \in Terminal
    BY <1>1, <1>7 DEF SwitchInv, FenceBound, FenceHasAuthority
  <2> QED BY <2>1, <1>1, <1>7, <1>8 DEF FenceBound, FenceHasAuthority
<1>18. SwitchTyped'
  <2>1. \A k \in DOMAIN txns' : txns'[k].from # txns'[k].to
    BY <1>5, <1>7, <1>8
  <2>2. Len(txns') <= MaxInstall /\ active' \in 0..Len(txns')
    BY <1>1, <1>7, <1>8, SwitchBoundAssumption
  <2> QED BY <2>1, <2>2, <1>1, <1>8, <1>10 DEF SwitchInv, SwitchTyped
<1> QED BY <1>14, <1>15, <1>16, <1>17, <1>18 DEF SwitchInv

\* A recovery begins.
LEMMA RecoveryKeeps ==
  ASSUME SwitchInv, BeginRecovery
  PROVE  SwitchInv'
<1> DEFINE t == txns[active]
           S == RecoveryScript(active, t.stage)
<1>1. /\ active # 0
      /\ inst' = [InstOff EXCEPT !.mode = "recover", !.id = active, !.stage = t.stage,
                                 !.seen = BoundFence(active), !.todo = S]
      /\ UNCHANGED <<live, txns, active, fence, fenceLock, faults>>
  BY DEF BeginRecovery
<1>2. active \in DOMAIN txns /\ active \in Nat /\ t \in Txn /\ t.stage \in ToSet(Stages)
      /\ fence \in Fence \cup {NoFence}
  <2>1. txns \in Seq(Txn) /\ active \in 0..Len(txns) /\ fence \in Fence \cup {NoFence}
    BY DEF SwitchInv, SwitchTyped
  <2>2. active \in DOMAIN txns /\ active \in Nat /\ t \in Txn
    BY <1>1, <2>1
  <2> QED BY <2>1, <2>2 DEF Txn
<1>3. \/ t.stage = "rolled_back" /\ Confirm(S, t)
      \/ Confirm(S, t) /\ \E i \in DOMAIN S : S[i].op = "readback"
      \/ Back(S, t)
  BY <1>2, RecoveryIs
<1> HIDE DEF S
<1>4. /\ Confirm(S, t) \/ Back(S, t)
      /\ S \in Seq(Step)
      /\ t.stage = "rolled_back" \/ \E i \in DOMAIN S : S[i].op = "readback"
  BY <1>3 DEF Confirm, Back
<1>5. BoundFence(active) \in Fence \cup {NoFence}
  BY <1>2 DEF BoundFence
<1>6. /\ inst'.mode = "recover" /\ inst'.id = active /\ inst'.todo = S
      /\ inst' \in Installation
  BY <1>1, <1>2, <1>4, <1>5 DEF InstOff, Installation
<1>7. Own' = t /\ inst'.id \in DOMAIN txns' /\ inst'.id = active'
  BY <1>1, <1>2, <1>6 DEF Own
<1>8. Own'.stage \in Terminal \/ \E i \in DOMAIN S : S[i].op = "readback"
  BY <1>4, <1>7 DEF Terminal
<1>9. InstallerKeepsPlan' /\ ForwardBelieves'
  <2>1. Own'.from = t.from /\ Own'.to = t.to
    BY <1>7
  <2> HIDE DEF t
  <2> QED BY <2>1, <1>4, <1>6, <1>7, <1>8, FreshList
<1>10. ClosedIsUniform' /\ FenceBound' /\ FenceHasAuthority'
  BY <1>1 DEF SwitchInv, ClosedIsUniform, Verified, FenceBound, FenceHasAuthority
<1>11. SwitchTyped'
  BY <1>1, <1>6 DEF SwitchInv, SwitchTyped
<1> QED BY <1>9, <1>10, <1>11 DEF SwitchInv

\* A fence that an ended transaction has left is to be cleared.
LEMMA DetachedKeeps ==
  ASSUME SwitchInv, BeginDetachedRecovery
  PROVE  SwitchInv'
<1> DEFINE t == txns[fence.id]
           g == IF t.stage = "committed" THEN t.to ELSE t.from
           S == <<VerifyOf(g), StepOf("readback"), StepOf("clear_fence")>>
<1>1. /\ active = 0 /\ fence # NoFence /\ t.stage \in Terminal
      /\ inst' = [InstOff EXCEPT !.mode = "recover", !.id = fence.id, !.stage = t.stage,
                                 !.seen = fence, !.todo = S]
      /\ UNCHANGED <<live, txns, active, fence, fenceLock, faults>>
  BY DEF BeginDetachedRecovery
<1>2. fence.id \in DOMAIN txns /\ fence.id \in Nat /\ t \in Txn /\ t.stage \in ToSet(Stages)
      /\ fence \in Fence \cup {NoFence}
  <2>1. txns \in Seq(Txn) /\ fence \in Fence \cup {NoFence}
    BY DEF SwitchInv, SwitchTyped
  <2>2. fence.id \in DOMAIN txns
    BY <1>1 DEF SwitchInv, FenceBound
  <2>3. fence.id \in Nat /\ t \in Txn
    BY <2>1, <2>2
  <2> QED BY <2>1, <2>2, <2>3 DEF Txn
<1> HIDE DEF t
<1>3. g \in {t.from, t.to}
  OBVIOUS
<1> HIDE DEF g
<1>4. /\ Confirm(S, t)
      /\ \E i \in DOMAIN S : S[i].op = "readback"
      /\ \A i \in DOMAIN S : S[i].op # "append"
      /\ \A i \in DOMAIN S : S[i].op # "clear_active"
  BY <1>2, <1>3, ConfirmDetached
<1> HIDE DEF S
<1>5. S \in Seq(Step) /\ \A i \in DOMAIN S : S[i].op \in {"verify", "readback", "clear_fence"}
  <2>1. /\ S \in Seq(Step)
        /\ \A i \in DOMAIN S : S[i].op \notin {"fence", "recheck", "write"}
    BY <1>4 DEF Confirm
  <2>2. \A i \in DOMAIN S : S[i] \in Step
    BY <2>1
  <2>3. \A a \in Step : a.op \in {"append", "write", "verify", "fence", "recheck", "readback",
                                "clear_fence", "clear_active"}
    BY DEF Step, Closing
  <2> QED BY <2>1, <2>2, <2>3, <1>4
<1>6. /\ inst'.mode = "recover" /\ inst'.id = fence.id /\ inst'.todo = S
      /\ inst' \in Installation
  BY <1>1, <1>2, <1>5 DEF InstOff, Installation
<1>7. Own' = t /\ inst'.id \in DOMAIN txns'
  BY <1>1, <1>2, <1>6 DEF Own, t
<1>8. Own'.from = t.from /\ Own'.to = t.to
  BY <1>7
<1>9. InstallerKeepsPlan' /\ ForwardBelieves'
  BY <1>4, <1>5, <1>6, <1>7, <1>8, FreshList
<1>10. ClosedIsUniform' /\ FenceBound' /\ FenceHasAuthority'
  BY <1>1 DEF SwitchInv, ClosedIsUniform, Verified, FenceBound, FenceHasAuthority
<1>11. SwitchTyped'
  BY <1>1, <1>6 DEF SwitchInv, SwitchTyped
<1> QED BY <1>9, <1>10, <1>11 DEF SwitchInv

\* A run does nothing to the switch but take and free the fence lock.
LEMMA RunKeeps ==
  ASSUME SwitchInv, RunStep
  PROVE  SwitchInv' /\ UNCHANGED <<live, txns, active, fence, inst, faults>>
<1>1. UNCHANGED <<live, txns, active, fence, inst, faults>>
  BY DEF RunStep, StartRun, Admit, Turned, EndAdmission, EndRun, RunDies, switchVars
<1>2. fenceLock' \in Run \cup {Installer, Nobody}
  BY DEF SwitchInv, SwitchTyped, RunStep, StartRun, Admit, Turned, EndAdmission, EndRun,
         RunDies, switchVars
<1> QED BY <1>1, <1>2
        DEF SwitchInv, SwitchTyped, InstallerKeepsPlan, ForwardBelieves, ClosedIsUniform,
            FenceBound, FenceHasAuthority, Todo, Own, Left, Settled, Unswitched, Verified

\* The invariant of the installer, its journal and its fence.
LEMMA SwitchInvStep ==
  ASSUME SwitchInv, [Next]_vars
  PROVE  SwitchInv'
<1>1. CASE RunStep
  BY <1>1, RunKeeps
<1>2. CASE BeginInstall
  BY <1>2, InstallKeeps
<1>3. CASE InstallerStep
  <2>1. CASE StepRefused
    BY <2>1, RefusedKeeps
  <2> QED BY <1>3, <2>1, AppendKeeps, WriteKeeps, VerifyKeeps, PublishKeeps, RecheckKeeps,
             ReadbackKeeps, ClearFenceKeeps, ClearActiveKeeps DEF InstallerStep
<1>4. CASE StepRaises
  BY <1>4, RaisesKeeps
<1>5. CASE InstallerDies
  BY <1>5, DiesKeeps
<1>6. CASE BeginRecovery
  BY <1>6, RecoveryKeeps
<1>7. CASE BeginDetachedRecovery
  BY <1>7, DetachedKeeps
<1>8. CASE UNCHANGED vars
  BY <1>8
     DEF vars, switchVars, SwitchInv, SwitchTyped, InstallerKeepsPlan, ForwardBelieves,
         ClosedIsUniform, FenceBound, FenceHasAuthority, Todo, Own, Left, Settled, Unswitched,
         Verified
<1> QED BY <1>1, <1>2, <1>3, <1>4, <1>5, <1>6, <1>7, <1>8 DEF Next

\* ... holds at the start, ...
LEMMA SwitchInvInit ==
  ASSUME Init
  PROVE  SwitchInv
<1>1. inst.mode = "off" /\ inst \in Installation /\ inst = InstOff
  BY StagesNamed DEF Init, InstOff, Installation
<1>2. txns = <<>> /\ active = 0 /\ fence = NoFence /\ fenceLock = Nobody /\ faults = 0
      /\ live = [res \in Resource |-> First]
  BY DEF Init
<1>3. InstallerKeepsPlan /\ ForwardBelieves
  BY <1>1 DEF InstallerKeepsPlan, ForwardBelieves
<1>4. ClosedIsUniform /\ FenceBound /\ FenceHasAuthority
  BY <1>2, SwitchBoundAssumption DEF ClosedIsUniform, Verified, FenceBound, FenceHasAuthority
<1>5. SwitchTyped
  BY <1>1, <1>2, SwitchBoundAssumption DEF SwitchTyped
<1> QED BY <1>3, <1>4, <1>5 DEF SwitchInv

\* ... and always.
LEMMA SwitchInvAlways == Spec => []SwitchInv
BY SwitchInvInit, SwitchInvStep, PTL DEF Spec

-----------------------------------------------------------------------------
(* The runs beside the installer. *)

\* What a step of the system is to the slots.
LEMMA SlotsMove ==
  ASSUME SwitchInv, [Next]_vars
  PROVE  [SlotNext]_slotVars
<1>1. CASE RunStep
  <2>1. live["deployment"] \in Gen \cup {NoGen}
    BY DEF SwitchInv, SwitchTyped, Resource
  <2>2. PICK r \in Run :
          StartRun(r) \/ Admit(r) \/ Turned(r) \/ EndAdmission(r) \/ EndRun(r) \/ RunDies(r)
    BY <1>1 DEF RunStep
  <2>3. StartRun(r) => \E g \in Gen \cup {NoGen} : Start(r, g)
    BY <2>1 DEF StartRun
  <2> QED BY <2>2, <2>3 DEF SlotNext, Admit, Turned, EndAdmission, EndRun, RunDies
<1>2. CASE ~RunStep
  BY <1>2
     DEF vars, Next, BeginInstall, InstallerStep, AppendStage, WriteResource, VerifyResources,
         PublishFence, Recheck, Readback, ClearFence, ClearActive, StepRefused, StepRaises,
         InstallerDies, BeginRecovery, BeginDetachedRecovery
<1> QED BY <1>1, <1>2

\* The slots keep their invariant whatever the installer does.
LEMMA SlotsAlways == Spec => []SlotInv
<1>1. Init => SlotInv
  BY SlotBegins DEF Init
<1>2. SwitchInv /\ SlotInv /\ [Next]_vars => SlotInv'
  BY SlotsMove, SlotStep
<1> QED BY <1>1, <1>2, SwitchInvAlways, PTL DEF Spec

-----------------------------------------------------------------------------
(* What is always true. *)

\* Everything keeps its type, the journal included (install_transaction_journal.py:60-130).
THEOREM SwitchTypeCorrect == Spec => []SwitchTypeOK
<1>1. SwitchInv /\ SlotInv => SwitchTypeOK
  <2> SUFFICES ASSUME SwitchInv, SlotInv PROVE SwitchTypeOK
    OBVIOUS
  <2>1. SwitchTyped /\ InstallerKeepsPlan
    BY DEF SwitchInv
  <2>2. inst.id \in 0..Len(txns) /\ inst.mode \in {"off", "forward", "recover", "undo"}
        /\ inst.seen \in Fence \cup {NoFence}
    <3>1. CASE inst.mode = "off"
      BY <2>1, <3>1 DEF SwitchTyped, InstOff
    <3>2. CASE inst.mode # "off"
      BY <2>1, <3>2 DEF SwitchTyped, InstallerKeepsPlan, Installation
    <3> QED BY <3>1, <3>2
  <2> QED BY <2>1, <2>2 DEF SwitchTypeOK, SwitchTyped, SlotInv
<1> QED BY <1>1, SwitchInvAlways, SlotsAlways, PTL

\* A fence is never left without what can clear it: its transaction owns
\* recovery, or its journal is terminal (install_codex_plugin.py:4642-4690).
THEOREM FenceAlwaysOwned == Spec => []FenceHasAuthority
<1>1. SwitchInv => FenceHasAuthority
  BY DEF SwitchInv
<1> QED BY <1>1, SwitchInvAlways, PTL

\* The quota holds for the runs that start, wait at the fence, run and die while
\* generations are switched (run_concurrency.py:214-289).
THEOREM SwitchKeepsQuota == Spec => []QuotaHeld
<1>1. SlotInv => QuotaHeld
  BY RunsWithinQuota
<1> QED BY <1>1, SlotsAlways, PTL

-----------------------------------------------------------------------------
(* The switch is atomic. *)

\* A step that leaves the active transaction alone is none of the switch.
LEMMA SameTransaction ==
  ASSUME active' = active,
         active = 0 => live' = live,
         active # 0 => txns'[active].from = txns[active].from /\ txns'[active].to = txns[active].to
  PROVE  UNCHANGED <<IF active = 0 THEN live ELSE [res \in Resource |-> txns[active].from],
                     IF active = 0 THEN NoGen ELSE txns[active].to>>
OBVIOUS

\* The transaction is over: all resources are as before, or all as it wanted.
LEMMA TransactionOver ==
  ASSUME SwitchInv, Todo # <<>>, Todo[1].op = "clear_active", active' = 0, live' = live
  PROVE  Abstract!Close
<1>1. /\ inst.mode # "off" /\ inst.id = active /\ active # 0 /\ Own.from \in Gen /\ Own.to \in Gen
      /\ \A i \in DOMAIN Todo : i # 1 => After(Todo[1], Todo[i], Own)
  BY AtWork
<1>2. ~Left("verify")
  BY <1>1 DEF After, Left
<1>3. Settled
  BY <1>1, <1>2 DEF SwitchInv, InstallerKeepsPlan
<1>4. PICK g \in {Own.from, Own.to} : Verified(g)
  BY <1>3 DEF Settled
<1>5. live = [res \in Resource |-> g]
  BY <1>4 DEF SwitchInv, SwitchTyped, Verified
<1>6. Own.from = txns[active].from /\ Own.to = txns[active].to /\ NoGen \notin Gen
  BY <1>1, GenAssumption DEF Own
<1> QED BY <1>1, <1>4, <1>5, <1>6 DEF Abstract!Close, Abstract!All

\* A transaction begins.
LEMMA TransactionOpens ==
  ASSUME SwitchInv, BeginInstall
  PROVE  Abstract!Open
<1>1. active = 0 /\ active' = Len(txns) + 1 /\ live' = live
  BY DEF BeginInstall
<1>2. PICK to, t :
        /\ to \in Gen \ {live["registry"]}
        /\ txns' = Append(txns, t) /\ t.from = live["registry"] /\ t.to = to
  <2>1. PICK to \in Gen \ {live["registry"]}, policy \in Policies, profile \in Profiles :
        /\ txns' = Append(txns, [from |-> live["registry"], to |-> to, block |-> policy = "block",
                                 gapFree |-> profile = "gap_free", stage |-> "none"])
    BY DEF BeginInstall
  <2> QED BY <2>1
<1>3. txns \in Seq(Txn) /\ Len(txns) \in Nat
  BY DEF SwitchInv, SwitchTyped
<1>4. txns'[active'] = t /\ active' # 0
  BY <1>1, <1>2, <1>3
<1>5. live = [res \in Resource |-> live["registry"]]
  <2>1. PICK g \in Gen : Verified(g)
    BY <1>1 DEF SwitchInv, ClosedIsUniform
  <2> QED BY <2>1 DEF SwitchInv, SwitchTyped, Verified, Resource
<1> QED BY <1>1, <1>2, <1>4, <1>5 DEF Abstract!Open

\* A failed step leaves the switch open, or closes it like any other.
LEMMA FailureMapped ==
  ASSUME SwitchInv, Todo # <<>>, FailedStep
  PROVE  Abstract!Close
         \/ UNCHANGED <<IF active = 0 THEN live ELSE [res \in Resource |-> txns[active].from],
                        IF active = 0 THEN NoGen ELSE txns[active].to>>
<1>1. CASE active' = active
  <2>1. active # 0 => active \in DOMAIN txns
    BY DEF SwitchInv, SwitchTyped
  <2>2. active = 0 => live' = live
    BY AtWork DEF FailedStep
  <2> QED BY <1>1, <2>1, <2>2, SameTransaction DEF FailedStep
<1>2. CASE active' # active
  BY <1>2, TransactionOver DEF FailedStep
<1> QED BY <1>1, <1>2

\* Every step of the installer, its recovery and the runs is one of a switch that
\* opens and closes, or none.
LEMMA SwitchMapped ==
  ASSUME SwitchInv, [Next]_vars
  PROVE  [Abstract!Next]_<<IF active = 0 THEN live ELSE [res \in Resource |-> txns[active].from],
                           IF active = 0 THEN NoGen ELSE txns[active].to>>
<1> DEFINE Same == UNCHANGED <<IF active = 0 THEN live ELSE [res \in Resource |-> txns[active].from],
                               IF active = 0 THEN NoGen ELSE txns[active].to>>
<1>1. CASE RunStep \/ UNCHANGED vars \/ BeginRecovery \/ BeginDetachedRecovery
           \/ VerifyResources \/ PublishFence \/ Recheck \/ Readback \/ ClearFence
  <2>1. UNCHANGED <<live, txns, active>>
    BY <1>1, RunKeeps
       DEF vars, switchVars, BeginRecovery, BeginDetachedRecovery, VerifyResources, PublishFence,
           Recheck, Readback, ClearFence
  <2>2. Same
    BY <2>1, SameTransaction
  <2> QED BY <2>2
<1>2. CASE BeginInstall
  BY <1>2, TransactionOpens DEF Abstract!Next
<1>3. CASE AppendStage \/ WriteResource
  <2>1. Todo # <<>> /\ Head(Todo).op \in {"append", "write"}
    BY <1>3 DEF AppendStage, WriteResource, At
  <2>2. inst.id = active /\ active # 0 /\ active \in DOMAIN txns /\ active' = active
        /\ txns[active] \in Txn
    BY <1>3, <2>1, AtWork DEF AppendStage, WriteResource, Own
  <2>3. txns'[active].from = txns[active].from /\ txns'[active].to = txns[active].to
    BY <1>3, <2>2 DEF AppendStage, WriteResource, Txn
  <2>4. Same
    BY <2>2, <2>3, SameTransaction
  <2> QED BY <2>4
<1>4. CASE ClearActive
  <2>1. Todo # <<>> /\ Head(Todo).op = "clear_active" /\ active' = 0 /\ live' = live
    BY <1>4 DEF ClearActive, At
  <2>2. Abstract!Close
    BY <2>1, AtWork, TransactionOver
  <2> QED BY <2>2 DEF Abstract!Next
<1>5. CASE StepRefused \/ StepRaises \/ InstallerDies
  <2>1. Todo # <<>>
    BY <1>5 DEF StepRefused, At, StepRaises, InstallerDies
  <2>2. FailedStep
    <3>1. CASE StepRefused
      BY <2>1, <3>1, RefusedLeaves DEF StepRefused
    <3>2. CASE StepRaises \/ InstallerDies
      BY <2>1, <3>2, PartialLeaves DEF StepRaises, InstallerDies
    <3> QED BY <1>5, <3>1, <3>2
  <2>3. Abstract!Close \/ Same
    BY <2>1, <2>2, FailureMapped
  <2> HIDE DEF Same
  <2>4. Abstract!Next \/ Same
    BY <2>3 DEF Abstract!Next
  <2> QED BY <2>4 DEF Same
<1> QED BY <1>1, <1>2, <1>3, <1>4, <1>5 DEF Next, InstallerStep

\* Whatever raises or dies, a switch is atomic: once no transaction owns recovery,
\* every resource has the generation it had, or every resource has the target
\* (install_codex_plugin.py:5205-5905, 5060-5203).
THEOREM SwitchImplementsAtomic == Spec => SwitchIsAtomic
<1>1. Init => Abstract!Init
  BY SwitchBoundAssumption DEF Init, Abstract!Init, Abstract!All
<1> QED BY <1>1, SwitchMapped, SwitchInvAlways, PTL DEF Spec, SwitchIsAtomic, Abstract!Spec

-----------------------------------------------------------------------------
(* The fence lock. *)

\* The list of a failed or a recovering installer has nothing to check again.
LEMMA NoRecheckAfterHandle ==
  ASSUME SwitchInv, Todo # <<>>, FailedStep, Handle, SwitchInv'
  PROVE  ~Left("recheck")' /\ fenceLock' # Installer
         /\ \A r \in Run : fenceLock' = r <=> fenceLock = r
<1>1. Handled
  BY HandleIs
<1>2. fenceLock' = IF fenceLock = Installer THEN Nobody ELSE fenceLock
  BY DEF Handle
<1>3. inst'.mode # "forward"
  <2>1. inst \in Installation /\ Pop \in Installation /\ Pop.mode = inst.mode
    BY AtWork, PopIs
  <2>2. CASE inst' = InstOff
    BY <2>2 DEF InstOff
  <2>3. CASE inst.mode = "undo" /\ inst' = [Pop EXCEPT !.errors = TRUE]
    BY <2>1, <2>3 DEF Installation
  <2>4. CASE \/ inst' = [inst EXCEPT !.mode = "recover", !.todo = RecoveryScript(inst.id, inst.stage)]
             \/ inst' = [inst EXCEPT !.mode = "undo", !.todo = UndoScript(inst.id, inst.stage, Switched)]
    BY <2>1, <2>4 DEF Installation
  <2> QED BY <1>1, <2>2, <2>3, <2>4 DEF Handled
<1>4. ~Left("recheck")'
  <2>1. CASE inst'.mode = "off"
    <3>1. Todo' = <<>>
      BY <2>1 DEF SwitchInv, SwitchTyped, InstOff, Todo
    <3> QED BY <3>1 DEF Left
  <2>2. CASE inst'.mode # "off"
    BY <1>3, <2>2 DEF SwitchInv, InstallerKeepsPlan
  <2> QED BY <2>1, <2>2
<1> QED BY <1>2, <1>4, FencedAssumption, RunAssumption

\* The re-check comes at once after the fence.
LEMMA RecheckFollows ==
  ASSUME SwitchInv, LockIsSection, Todo # <<>>, Todo' = Tail(Todo)
  PROVE  /\ At("recheck")' => Todo[1].op = "fence"
         /\ Left("recheck")' => At("recheck")' \/ Left("fence")'
         /\ Todo[1].op = "fence" => At("recheck")'
         /\ At("recheck") <=> Todo[1].op = "recheck"
<1>1. /\ Todo \in Seq(Step) /\ Plan(Todo, Own) /\ Head(Todo) = Todo[1]
      /\ \A i \in DOMAIN Todo : i # 1 => After(Todo[1], Todo[i], Own)
  BY AtWork
<1>2. /\ \A o : Left(o)' => Left(o)
      /\ \A o : Left(o) /\ Todo[1].op # o => Left(o)'
      /\ Todo' \in Seq(Step)
  BY OneDone
<1>3. At("recheck") <=> Todo[1].op = "recheck"
  BY <1>1 DEF At
<1>4. At("recheck")' <=> 2 \in DOMAIN Todo /\ Todo[2].op = "recheck"
  <2> DEFINE n == Len(Todo)
             u == Tail(Todo)
  <2>1. /\ n \in Nat /\ n >= 1 /\ Len(u) = n - 1 /\ DOMAIN Todo = 1..n
        /\ \A i \in 1..(n - 1) : u[i] = Todo[i + 1]
        /\ u \in Seq(Step)
    BY <1>1, Rest
  <2>2. At("recheck")' <=> u # <<>> /\ Head(u).op = "recheck"
    BY DEF At
  <2> HIDE DEF u, n
  <2>3. CASE n = 1
    BY <2>1, <2>2, <2>3
  <2>4. CASE n # 1
    <3>1. n >= 2 /\ 1 \in 1..(n - 1) /\ 2 \in 1..n
      BY <2>1, <2>4
    <3>2. u # <<>> /\ Head(u) = u[1] /\ u[1] = Todo[1 + 1]
      BY <2>1, <3>1
    <3> QED BY <2>1, <2>2, <3>1, <3>2
  <2> QED BY <2>3, <2>4
<1>5. At("recheck")' => Todo[1].op = "fence"
  <2> SUFFICES ASSUME 2 \in DOMAIN Todo, Todo[2].op = "recheck", Todo[1].op # "fence" PROVE FALSE
    BY <1>4
  <2>1. Left("recheck") /\ Todo[1].op # "recheck"
    BY <1>1 DEF Left, After
  <2>2. Left("fence")
    BY <1>3, <2>1 DEF LockIsSection
  <2>3. PICK i \in DOMAIN Todo : Todo[i].op = "fence"
    BY <2>2 DEF Left
  <2>4. i # 1 /\ i # 2 /\ i > 2
    BY <2>3, <1>1
  <2>5. After(Todo[2], Todo[i], Own)
    BY <2>4, <1>1 DEF Plan
  <2> QED BY <2>3, <2>5 DEF After
<1>6. Todo[1].op = "fence" => At("recheck")'
  <2>1. Todo[1].op = "fence" => 1 + 1 \in DOMAIN Todo /\ Todo[1 + 1].op = "recheck"
    BY <1>1, AtWork DEF Plan
  <2> QED BY <2>1, <1>4
<1>7. Left("recheck")' => At("recheck")' \/ Left("fence")'
  <2> SUFFICES ASSUME Left("recheck")', ~At("recheck")' PROVE Left("fence")'
    OBVIOUS
  <2>1. Left("recheck")
    BY <1>2
  <2>2. Todo[1].op # "recheck"
    <3>1. PICK i \in DOMAIN Todo' : Todo'[i].op = "recheck"
      BY DEF Left
    <3>2. PICK j \in DOMAIN Todo : j # 1 /\ Todo'[i] = Todo[j]
      BY <3>1, OneDone
    <3> QED BY <1>1, <3>1, <3>2 DEF After
  <2>3. Left("fence") /\ Todo[1].op # "fence"
    BY <2>1, <2>2, <1>3, <1>6 DEF LockIsSection
  <2> QED BY <2>3, <1>2
<1> QED BY <1>3, <1>5, <1>6, <1>7

\* The fence lock keeps marking its sections.
LEMMA LockStep ==
  ASSUME SwitchInv, SlotInv, LockIsSection, [Next]_vars, SwitchInv'
  PROVE  LockIsSection'
<1>0. Installer \notin Run /\ Nobody \notin Run /\ FencedRun \subseteq Run /\ Installer # Nobody
  BY FencedAssumption, RunAssumption
<1>1. CASE RunStep
  <2>1. UNCHANGED <<live, txns, active, fence, inst, faults>>
    BY <1>1, RunKeeps
  <2>2. /\ At("recheck")' = At("recheck") /\ Left("recheck")' = Left("recheck")
        /\ Left("fence")' = Left("fence") /\ Own' = Own
    BY <2>1 DEF At, Left, Todo, Own
  <2>3. /\ \A r \in Run : fenceLock' = r <=> r \in FencedRun /\ pc'[r] = "created"
        /\ fenceLock' = Installer <=> fenceLock = Installer
    <3> USE <1>0 DEF LockIsSection
    <3>0. pc \in [Run -> {"idle", "waiting", "created", "running"}]
      BY DEF SlotInv, SlotTypeOK
    <3>1. PICK q \in Run :
            StartRun(q) \/ Admit(q) \/ Turned(q) \/ EndAdmission(q) \/ EndRun(q) \/ RunDies(q)
      BY <1>1 DEF RunStep
    <3>2. CASE StartRun(q)
      BY <3>0, <3>2 DEF StartRun, Start, switchVars
    <3>3. CASE Admit(q)
      BY <3>0, <3>3 DEF Admit, TakeSlot, NoSlot
    <3>4. CASE Turned(q)
      BY <3>0, <3>4 DEF Turned, GiveUp, switchVars
    <3>5. CASE EndAdmission(q)
      BY <3>0, <3>5 DEF EndAdmission, Publish, PublishFails
    <3>6. CASE EndRun(q)
      BY <3>0, <3>6 DEF EndRun, Release, ReleaseBusy, switchVars
    <3>7. CASE RunDies(q)
      BY <3>0, <3>7 DEF RunDies, RunCrash
    <3> QED BY <3>1, <3>2, <3>3, <3>4, <3>5, <3>6, <3>7
  <2>4. fenceLock' = Installer <=> At("recheck")'
    BY <2>2, <2>3 DEF LockIsSection
  <2>5. Left("recheck")' => At("recheck")' \/ Left("fence")'
    BY <2>2 DEF LockIsSection
  <2> QED BY <2>3, <2>4, <2>5 DEF LockIsSection
<1>2. CASE BeginInstall \/ BeginRecovery \/ BeginDetachedRecovery
  <2>1. inst.mode = "off" /\ UNCHANGED <<slotVars, fenceLock>>
    BY <1>2 DEF BeginInstall, BeginRecovery, BeginDetachedRecovery
  <2>2. Todo = <<>>
    BY <2>1 DEF SwitchInv, SwitchTyped, InstOff, Todo
  <2>3. fenceLock # Installer
    BY <2>2 DEF LockIsSection, At
  <2>4. ~At("recheck")' /\ (Left("recheck")' => Left("fence")')
    <3>1. CASE BeginInstall
      <4>1. PICK to \in Gen : Todo' = ForwardScript(to)
        BY <3>1 DEF BeginInstall, InstOff, Todo
      <4>2. /\ ForwardScript(to)[1].op = "append" /\ ForwardScript(to)[2].op = "fence"
            /\ ForwardScript(to) \in Seq(Step) /\ DOMAIN ForwardScript(to) = 1..25
        BY ForwardOps, ForwardTyped
      <4>3. Todo' \in Seq(Step) /\ Todo'[1].op = "append" /\ 2 \in DOMAIN Todo' /\ Todo'[2].op = "fence"
        BY <4>1, <4>2
      <4> QED BY <4>3 DEF At, Left
    <3>2. CASE BeginRecovery \/ BeginDetachedRecovery
      <4>1. inst'.mode = "recover"
        BY <3>2 DEF BeginRecovery, BeginDetachedRecovery, InstOff
      <4>2. ~Left("recheck")'
        BY <4>1 DEF SwitchInv, InstallerKeepsPlan
      <4>3. Todo' # <<>> => Todo' \in Seq(Step)
        BY DEF SwitchInv, SwitchTyped, Installation, Todo
      <4> QED BY <4>2, <4>3 DEF At, Left
    <3> QED BY <1>2, <3>1, <3>2
  <2> QED BY <2>1, <2>3, <2>4 DEF LockIsSection, slotVars
<1>3. CASE ClearActive \/ (ClearFence /\ Len(Todo) = 1)
  <2>1. Todo # <<>> /\ Head(Todo).op \in {"clear_fence", "clear_active"} /\ inst' = InstOff
        /\ UNCHANGED <<slotVars, fenceLock>>
    BY <1>3 DEF ClearActive, ClearFence, At, Off
  <2>2. Todo' = <<>> /\ ~At("recheck")' /\ ~Left("recheck")'
    BY <2>1 DEF InstOff, Todo, At, Left
  <2>3. fenceLock # Installer
    BY <2>1 DEF LockIsSection, At
  <2> QED BY <2>1, <2>2, <2>3 DEF LockIsSection, slotVars
<1>4. CASE StepRefused \/ StepRaises
  <2>1. Todo # <<>> /\ Handle /\ UNCHANGED slotVars
    BY <1>4 DEF StepRefused, At, StepRaises
  <2>2. FailedStep
    BY <1>4, <2>1, RefusedLeaves, PartialLeaves DEF StepRefused, StepRaises
  <2>3. /\ ~Left("recheck")' /\ fenceLock' # Installer
        /\ \A r \in Run : fenceLock' = r <=> fenceLock = r
    BY <2>1, <2>2, NoRecheckAfterHandle
  <2>4. ~At("recheck")'
    <3>1. Todo' \in Seq(Step)
      BY DEF SwitchInv, SwitchTyped, Installation, Todo
    <3> QED BY <2>3, <3>1 DEF At, Left
  <2> QED BY <2>1, <2>3, <2>4 DEF LockIsSection, slotVars
<1>5. CASE InstallerDies
  <2>1. /\ inst' = InstOff /\ UNCHANGED slotVars
        /\ fenceLock' = IF fenceLock = Installer THEN Nobody ELSE fenceLock
    BY <1>5 DEF InstallerDies, Off
  <2>2. Todo' = <<>> /\ ~At("recheck")' /\ ~Left("recheck")'
    BY <2>1 DEF InstOff, Todo, At, Left
  <2> QED BY <1>0, <2>1, <2>2 DEF LockIsSection, slotVars
<1>6. CASE AppendStage \/ WriteResource \/ VerifyResources \/ PublishFence \/ Recheck \/ Readback
           \/ (ClearFence /\ Len(Todo) # 1)
  <2>1. Todo # <<>> /\ UNCHANGED slotVars
    BY <1>6 DEF AppendStage, WriteResource, VerifyResources, PublishFence, Recheck, Readback,
                ClearFence, At
  <2>2. Head(Todo) = Todo[1] /\ inst \in Installation /\ inst.id \in DOMAIN txns
    BY <2>1, AtWork
  <2>3. Todo' = Tail(Todo) /\ inst'.id = inst.id
    BY <1>6, <2>1, <2>2, PopIs DEF AppendStage, WriteResource, VerifyResources, PublishFence,
        Recheck, Readback, ClearFence, Pop, Todo, Installation
  <2>4. /\ At("recheck")' => Todo[1].op = "fence"
        /\ Left("recheck")' => At("recheck")' \/ Left("fence")'
        /\ Todo[1].op = "fence" => At("recheck")'
        /\ At("recheck") <=> Todo[1].op = "recheck"
    BY <2>1, <2>3, RecheckFollows
  <2>5. CASE PublishFence
    <3>1. /\ Todo[1].op = "fence" /\ fenceLock = Nobody /\ fenceLock' = Installer
      BY <2>2, <2>5 DEF PublishFence, At
    <3> QED BY <1>0, <2>1, <2>4, <3>1 DEF LockIsSection, slotVars
  <2>6. CASE Recheck
    <3>1. Todo[1].op = "recheck" /\ fenceLock = Installer /\ fenceLock' = Nobody
      BY <2>2, <2>4, <2>6 DEF Recheck, At, LockIsSection
    <3>2. ~At("recheck")'
      BY <2>4, <3>1
    <3> QED BY <1>0, <2>1, <2>4, <3>1, <3>2 DEF LockIsSection, slotVars
  <2>7. CASE AppendStage \/ WriteResource \/ VerifyResources \/ Readback \/ ClearFence
    <3>1. Todo[1].op \notin {"fence", "recheck"} /\ fenceLock' = fenceLock
      BY <2>2, <2>7 DEF AppendStage, WriteResource, VerifyResources, Readback, ClearFence, At
    <3>2. ~At("recheck")' /\ fenceLock # Installer
      BY <2>4, <3>1 DEF LockIsSection
    <3> QED BY <2>1, <2>4, <3>1, <3>2 DEF LockIsSection, slotVars
  <2> QED BY <1>6, <2>5, <2>6, <2>7
<1>7. CASE UNCHANGED vars
  BY <1>7 DEF vars, slotVars, switchVars, LockIsSection, At, Left, Todo, Own
<1> QED BY <1>1, <1>2, <1>3, <1>4, <1>5, <1>6, <1>7 DEF Next, InstallerStep

-----------------------------------------------------------------------------
(* The runs of other generations are out. *)

\* Which stages count as under way.
LEMMA UnderWayStages ==
  /\ ~UnderWay("none") /\ ~UnderWay("prepared")
  /\ ~UnderWay("rollback_started") /\ ~UnderWay("rolled_back")
  /\ \A s \in ToSet(Stages) : ~UnderWay(s) =>
       s \in {"none", "prepared", "rollback_started", "rolled_back"}
BY Ranks, StagesNamed DEF UnderWay

\* Is what is still to do harmless to the runs of other generations?
Harmless(S, t) ==
  \A i \in DOMAIN S : /\ S[i].op = "write" => S[i].gen # t.to
                      /\ S[i].op = "append" => ~UnderWay(S[i].arg)

\* Putting back brings no run of the target in, and neither does a look at what
\* was rolled back.
LEMMA BackIsHarmless ==
  ASSUME NEW t, t.from # t.to, NEW S,
         \/ Back(S, t)
         \/ Confirm(S, t) /\ \A i \in DOMAIN S : S[i].op # "append"
  PROVE  Harmless(S, t)
BY UnderWayStages DEF Back, Confirm, Harmless

\* While a fence is published no run of another generation gets in.
LEMMA OthersStayOut ==
  ASSUME SwitchInv, SlotInv, RunStep, fence # NoFence, OthersOut
  PROVE  OthersOut'
<1>1. fence' = fence
  BY RunKeeps
<1>2. /\ pc \in [Run -> {"idle", "waiting", "created", "running"}]
      /\ runGen \in [Run -> Gen \cup {NoGen}] /\ FencedRun \subseteq Run
  BY FencedAssumption DEF SlotInv, SlotTypeOK
<1>3. PICK q \in Run :
        StartRun(q) \/ Admit(q) \/ Turned(q) \/ EndAdmission(q) \/ EndRun(q) \/ RunDies(q)
  BY DEF RunStep
<1> USE <1>1, <1>2 DEF OthersOut
<1>4. CASE StartRun(q)
  BY <1>4 DEF StartRun, Start
<1>5. CASE Admit(q)
  <2>1. /\ runGen' = runGen
        /\ \A r \in Run : pc'[r] \in {"created", "running"} => pc[r] \in {"created", "running"} \/ r = q
    BY <1>5 DEF Admit, TakeSlot, NoSlot
  <2>2. q \in FencedRun => runGen[q] = fence.to
    BY <1>5 DEF Admit, Refused
  <2> QED BY <2>1, <2>2
<1>6. CASE Turned(q)
  BY <1>6 DEF Turned, GiveUp
<1>7. CASE EndAdmission(q)
  BY <1>7 DEF EndAdmission, Publish, PublishFails
<1>8. CASE EndRun(q)
  BY <1>8 DEF EndRun, Release, ReleaseBusy
<1>9. CASE RunDies(q)
  BY <1>9 DEF RunDies, RunCrash
<1> QED BY <1>3, <1>4, <1>5, <1>6, <1>7, <1>8, <1>9

\* The re-check under the fence finds them out.
LEMMA RecheckFindsThemOut ==
  ASSUME SwitchInv, SlotInv, LockIsSection, Recheck, fence # NoFence, fence.id = active
  PROVE  OthersOut'
<1>1. Todo # <<>> /\ At("recheck") /\ Head(Todo).op = "recheck"
  BY DEF Recheck, At
<1>2. inst.id = active /\ fenceLock = Installer
  BY <1>1, AtWork DEF LockIsSection
<1>3. Own.block /\ Own.to = fence.to
  BY <1>2 DEF SwitchInv, FenceBound, Own
<1>4. \A l \in leases : l.gen = fence.to
  BY <1>3 DEF Recheck, Compatible, Own
<1>5. \A r \in FencedRun : pc[r] # "created"
  BY <1>2, FencedAssumption DEF LockIsSection
<1>6. \A r \in Running : LeaseOf(r, runGen[r]) \in leases
  BY DEF SlotInv, SlotTypeOK, LocksAreRuns
<1>7. \A r \in FencedRun : pc[r] = "running" => runGen[r] = fence.to
  <2> TAKE r \in FencedRun
  <2> SUFFICES ASSUME pc[r] = "running" PROVE runGen[r] = fence.to
    OBVIOUS
  <2>1. r \in Running
    BY FencedAssumption DEF Running
  <2> QED BY <1>4, <1>6, <2>1, LeaseFields
<1>8. UNCHANGED <<pc, runGen, fence>>
  BY DEF Recheck, slotVars
<1> QED BY <1>5, <1>7, <1>8 DEF OthersOut

\* Before the re-check nothing was switched.
LEMMA NothingYet ==
  ASSUME SwitchInv, Left("recheck"), inst.id = active, inst.mode # "off"
  PROVE  NotYet
<1>1. Unswitched /\ inst.id \in DOMAIN txns
  BY DEF SwitchInv, InstallerKeepsPlan
<1>2. Own = txns[active] /\ Own.from # Own.to
  BY <1>1 DEF Own, SwitchInv, SwitchTyped
<1>3. ~UnderWay(Own.stage)
  BY <1>1, UnderWayStages DEF Unswitched
<1>4. \A res \in Resource : live[res] # Own.to
  BY <1>1, <1>2 DEF Unswitched, Verified
<1> QED BY <1>2, <1>3, <1>4 DEF NotYet

\* What has not been switched yet is not switched by a step that goes on.
LEMMA NotYetGoesOn ==
  ASSUME SwitchInv, NotYet, Todo # <<>>, Todo' = Tail(Todo), inst'.id = inst.id,
         Own'.to = Own.to, active' = active, active # 0, inst.id = active,
         Todo[1].op # "recheck",
         ~UnderWay(Own'.stage), \A res \in Resource : live'[res] # Own.to
  PROVE  NotYet'
<1>1. /\ \A i \in DOMAIN Todo' : \E j \in DOMAIN Todo : j # 1 /\ Todo'[i] = Todo[j]
      /\ \A o : Left(o) /\ Todo[1].op # o => Left(o)'
  BY OneDone
<1>2. Own = txns[active] /\ Own' = txns'[active'] /\ inst.mode # "off"
  BY AtWork DEF Own
<1>3. \/ Left("recheck")'
      \/ \A i \in DOMAIN Todo' : /\ Todo'[i].op = "write" => Todo'[i].gen # Own'.to
                                 /\ Todo'[i].op = "append" => ~UnderWay(Todo'[i].arg)
  BY <1>1, <1>2 DEF NotYet
<1> QED BY <1>2, <1>3 DEF NotYet

\* ... nor right after a step that keeps the re-check to come.
LEMMA NothingYetNext ==
  ASSUME SwitchInv', Left("recheck")', inst'.id = active', inst'.mode # "off"
  PROVE  NotYet'
<1>1. Unswitched' /\ inst'.id \in DOMAIN txns'
  BY DEF SwitchInv, InstallerKeepsPlan
<1>2. Own' = txns'[active'] /\ Own.from' # Own.to'
  BY <1>1 DEF Own, SwitchInv, SwitchTyped
<1>3. ~UnderWay(Own'.stage)
  BY <1>1, UnderWayStages DEF Unswitched
<1>4. \A res \in Resource : live'[res] # Own'.to
  BY <1>1, <1>2 DEF Unswitched, Verified
<1> QED BY <1>2, <1>3, <1>4 DEF NotYet

\* A step that leaves the journal and the resources alone switches nothing.
LEMMA NotYetQuiet ==
  ASSUME SwitchInv, NotYet, Todo # <<>>, Todo' = Tail(Todo), inst'.id = inst.id,
         UNCHANGED <<live, txns, active>>, Todo[1].op # "recheck"
  PROVE  NotYet'
<1>1. /\ \A i \in DOMAIN Todo' : \E j \in DOMAIN Todo : j # 1 /\ Todo'[i] = Todo[j]
      /\ \A o : Left(o) /\ Todo[1].op # o => Left(o)'
  BY OneDone
<1>2. inst.mode # "off" /\ Own' = Own
  BY AtWork DEF Own
<1>3. \/ Left("recheck")'
      \/ \A i \in DOMAIN Todo' : /\ Todo'[i].op = "write" => Todo'[i].gen # Own'.to
                                 /\ Todo'[i].op = "append" => ~UnderWay(Todo'[i].arg)
  BY <1>1, <1>2 DEF NotYet
<1>4. ~UnderWay(txns'[active'].stage) /\ \A res \in Resource : live'[res] # txns'[active'].to
  BY DEF NotYet
<1> QED BY <1>3, <1>4 DEF NotYet

\* As long as nothing was switched, the next record of the journal does not say
\* so, and the next write does not bring the target.
LEMMA NextIsHarmless ==
  ASSUME SwitchInv, NotYet, Todo # <<>>
  PROVE  /\ Todo[1].op = "append" => ~UnderWay(Todo[1].arg)
         /\ Todo[1].op = "write" => Todo[1].gen # Own.to
         /\ Todo[1].op \in {"append", "write"} => inst.id = active /\ Own = txns[active]
<1>1. /\ inst.mode # "off" /\ 1 \in DOMAIN Todo
      /\ \A i \in DOMAIN Todo : i # 1 => After(Todo[1], Todo[i], Own)
      /\ Todo[1].op \notin {"verify", "readback", "clear_fence"} => inst.id = active
  BY AtWork
<1>2. CASE Left("recheck")
  <2>1. PICK i \in DOMAIN Todo : Todo[i].op = "recheck"
    BY <1>2 DEF Left
  <2>2. Todo[1].op \in {"append", "write"} => Todo[1].op = "append" /\ Todo[1].arg = "prepared"
    BY <1>1, <2>1 DEF After
  <2> QED BY <1>1, <2>2, UnderWayStages DEF Own
<1>3. CASE ~Left("recheck")
  BY <1>1, <1>3 DEF NotYet, Own
<1> QED BY <1>2, <1>3

\* What has not been switched yet is not switched by a step that fails.
LEMMA NotYetFails ==
  ASSUME SwitchInv, NotYet, Todo # <<>>, FailedStep, Handled, active' = active, active # 0
  PROVE  NotYet'
<1>1. /\ inst.mode # "off" /\ inst.id \in DOMAIN txns /\ inst \in Installation
      /\ Own \in Txn /\ Own.to \in Gen /\ Own.from # Own.to /\ 1 \in DOMAIN Todo
  BY AtWork
<1>2. /\ Todo[1].op = "append" => ~UnderWay(Todo[1].arg)
      /\ Todo[1].op = "write" => Todo[1].gen # Own.to
      /\ Todo[1].op \in {"append", "write"} => inst.id = active /\ Own = txns[active]
  BY NextIsHarmless
<1>3. active \in DOMAIN txns
  BY DEF SwitchInv, SwitchTyped
<1>4. ~UnderWay(txns'[active].stage) /\ txns'[active].to = txns[active].to
  <2>1. CASE txns' = txns
    BY <2>1 DEF NotYet
  <2>2. CASE txns' # txns
    BY <1>2, <1>3, <2>2 DEF FailedStep
  <2> QED BY <2>1, <2>2
<1>5. \A res \in Resource : live'[res] # txns[active].to
  <2>1. CASE live' = live
    BY <2>1 DEF NotYet
  <2>2. CASE live' # live
    <3>1. /\ Todo[1].op = "write" /\ live' = [live EXCEPT ![Todo[1].arg] = live'[Todo[1].arg]]
          /\ live'[Todo[1].arg] \in CutShort(Todo[1].arg, Todo[1].gen)
      BY <2>2 DEF FailedStep
    <3>2. Todo[1].arg \in Resource
      BY <3>1, AtWork DEF StepFits
    <3>3. live'[Todo[1].arg] \in {live[Todo[1].arg], Todo[1].gen, NoGen}
      BY <3>1 DEF CutShort
    <3>4. live'[Todo[1].arg] # txns[active].to
      BY <1>1, <1>2, <3>1, <3>2, <3>3, GenAssumption DEF NotYet
    <3>5. live \in [Resource -> Gen \cup {NoGen}]
      BY DEF SwitchInv, SwitchTyped
    <3>6. \A res \in Resource : res # Todo[1].arg => live'[res] = live[res]
      BY <3>1, <3>5
    <3> QED BY <3>4, <3>6 DEF NotYet
  <2> QED BY <2>1, <2>2
<1>6. inst'.mode # "off" =>
        /\ inst'.id = inst.id
        /\ Harmless(Todo', Own)
  <2>1. CASE inst' = InstOff
    BY <2>1 DEF InstOff
  <2>2. CASE inst.mode = "undo" /\ inst' = [Pop EXCEPT !.errors = TRUE]
    <3>1. ~Left("recheck")
      BY <2>2 DEF SwitchInv, InstallerKeepsPlan
    <3>2. /\ Pop \in Installation /\ Pop.todo = Tail(Todo) /\ Pop.id = inst.id
      BY PopIs
    <3>3. Todo' = Tail(Todo) /\ inst'.id = inst.id
      BY <2>2, <3>2 DEF Installation, Todo
    <3>4. \A i \in DOMAIN Todo' : \E j \in DOMAIN Todo : j # 1 /\ Todo'[i] = Todo[j]
      BY <3>3, OneDone
    <3>5. \A i \in DOMAIN Todo : /\ Todo[i].op = "write" => Todo[i].gen # Own.to
                                 /\ Todo[i].op = "append" => ~UnderWay(Todo[i].arg)
      BY <1>1, <3>1 DEF NotYet
    <3> QED BY <3>3, <3>4, <3>5 DEF Harmless
  <2>3. CASE inst.mode = "forward"
    <3>1. inst.id = active /\ inst.stage = Own.stage /\ inst.stage \notin {"rollback_started", "rolled_back"}
      BY <2>3 DEF SwitchInv, ForwardBelieves
    <3>2. ~UnderWay(inst.stage)
      BY <3>1 DEF NotYet, Own
    <3>3. inst.stage \notin {"postconditions_verified", "committed", "rolled_back"}
      <4>1. inst.stage \in ToSet(Stages)
        BY <1>1 DEF Installation
      <4> QED BY <3>1, <3>2, <4>1, UnderWayStages
    <3>4. CASE inst' = [inst EXCEPT !.mode = "recover", !.todo = RecoveryScript(inst.id, inst.stage)]
      <4>1. Todo' = RecoveryScript(inst.id, inst.stage) /\ inst'.id = inst.id
        BY <1>1, <3>4 DEF Installation, Todo
      <4>2. Back(Todo', Own)
        BY <1>1, <3>3, <4>1, RecoveryIs DEF Own
      <4> QED BY <1>1, <4>1, <4>2, BackIsHarmless
    <3>5. CASE /\ ~Own.gapFree
               /\ inst' = [inst EXCEPT !.mode = "undo", !.todo = UndoScript(inst.id, inst.stage, Switched)]
      <4>1. Todo' = UndoScript(inst.id, inst.stage, Switched) /\ inst'.id = inst.id
        BY <1>1, <3>5 DEF Installation, Todo
      <4>2. Switched \in BOOLEAN
        BY DEF Switched
      <4>3. Back(Todo', Own)
        BY <1>1, <3>5, <4>1, <4>2, UndoIs DEF Own
      <4> QED BY <1>1, <4>1, <4>3, BackIsHarmless
    <3> QED BY <2>1, <2>3, <3>4, <3>5 DEF Handled
  <2> QED BY <2>1, <2>2, <2>3 DEF Handled
<1>7. inst'.mode # "off" =>
        \A i \in DOMAIN Todo' : /\ Todo'[i].op = "write" => Todo'[i].gen # Own'.to
                                /\ Todo'[i].op = "append" => ~UnderWay(Todo'[i].arg)
  <2>1. inst'.id = inst.id => Own'.to = Own.to
    BY <1>1 DEF FailedStep, Own
  <2> QED BY <1>6, <2>1 DEF Harmless
<1>8. \A res \in Resource : live'[res] # txns'[active].to
  BY <1>4, <1>5
<1> QED BY <1>4, <1>7, <1>8 DEF NotYet

\* What an installer may do to the fence, the runs and what was switched.
LEMMA ExclusionAtWork ==
  ASSUME SwitchInv, SlotInv, LockIsSection, NotYet, InstallerStep, ~StepRefused, SwitchInv',
         fence' # NoFence, fence'.id = active', fence = fence'
  PROVE  OthersOut' \/ NotYet'
<1>1. Todo # <<>>
  BY DEF InstallerStep, AppendStage, WriteResource, VerifyResources, PublishFence, Recheck,
         Readback, ClearFence, ClearActive, At
<1>2. /\ Head(Todo) = Todo[1] /\ inst \in Installation /\ inst.mode # "off" /\ inst.id \in DOMAIN txns
      /\ Todo[1].op \notin {"verify", "readback", "clear_fence"} => inst.id = active
      /\ txns \in Seq(Txn) /\ fence.id # 0
      /\ StepFits(Todo[1], Own) /\ live \in [Resource -> Gen \cup {NoGen}]
      /\ Pop.todo = Tail(Todo) /\ Pop.id = inst.id /\ Pop.mode = inst.mode
      /\ Pop \in Installation
  BY <1>1, AtWork, PopIs DEF SwitchInv, SwitchTyped, Fence
<1>3. CASE AppendStage
  <2>1. /\ Todo[1].op = "append" /\ txns' = [txns EXCEPT ![inst.id].stage = Todo[1].arg]
        /\ active' = active /\ live' = live /\ inst.id = active
      BY <1>2, <1>3 DEF AppendStage, At
  <2>2. Todo' = Tail(Todo) /\ inst'.id = inst.id
    BY <1>2, <1>3 DEF AppendStage, Todo, Installation
  <2>3. Own'.stage = Todo[1].arg /\ Own'.to = Own.to
    <3>1. txns[inst.id] \in Txn
      BY <1>2
    <3>2. txns'[inst.id] = [txns[inst.id] EXCEPT !.stage = Todo[1].arg]
      BY <1>2, <2>1
    <3> QED BY <2>2, <3>1, <3>2 DEF Own, Txn
  <2>4. ~UnderWay(Todo[1].arg)
    BY <1>1, <2>1, NextIsHarmless
  <2>5. active # 0 /\ \A res \in Resource : live'[res] # Own.to
    BY <1>2, <2>1 DEF NotYet, Own
  <2> QED BY <1>1, <2>1, <2>2, <2>3, <2>4, <2>5, NotYetGoesOn
<1>4. CASE WriteResource
  <2>1. /\ Todo[1].op = "write" /\ live' = [live EXCEPT ![Todo[1].arg] = Todo[1].gen]
        /\ active' = active /\ txns' = txns /\ inst.id = active /\ Todo[1].arg \in Resource
    BY <1>2, <1>4 DEF WriteResource, At, StepFits
  <2>2. Todo' = Tail(Todo) /\ inst'.id = inst.id
    BY <1>2, <1>4 DEF WriteResource, Todo
  <2>3. Own' = Own /\ Own = txns[active]
    BY <2>1, <2>2 DEF Own
  <2>4. Todo[1].gen # Own.to
    BY <1>1, <2>1, NextIsHarmless
  <2>5. active # 0 /\ \A res \in Resource : live'[res] # Own.to
    BY <1>2, <2>1, <2>3, <2>4 DEF NotYet
  <2>6. ~UnderWay(Own'.stage)
    BY <2>3 DEF NotYet
  <2> QED BY <1>1, <2>1, <2>2, <2>3, <2>5, <2>6, NotYetGoesOn
<1>5. CASE VerifyResources \/ Readback \/ (ClearFence /\ Len(Todo) # 1)
  <2>1. Todo[1].op # "recheck" /\ UNCHANGED <<live, txns, active>>
    BY <1>2, <1>5 DEF VerifyResources, Readback, ClearFence, At
  <2>2. Todo' = Tail(Todo) /\ inst'.id = inst.id
    BY <1>2, <1>5 DEF VerifyResources, Readback, ClearFence, Todo, Installation
  <2> QED BY <1>1, <2>1, <2>2, NotYetQuiet
<1>6. CASE PublishFence
  <2>1. Todo[1].op = "fence" /\ inst.id = active /\ active' = active
    BY <1>2, <1>6 DEF PublishFence, At
  <2>2. Todo' = Tail(Todo) /\ inst'.id = inst.id /\ inst'.mode = inst.mode
    BY <1>2, <1>6 DEF PublishFence, Todo, Installation
  <2>3. Left("recheck")
    <3>1. 1 + 1 \in DOMAIN Todo /\ Todo[1 + 1].op = "recheck"
      BY <1>1, <2>1, AtWork DEF Plan
    <3> QED BY <3>1 DEF Left
  <2>4. Left("recheck")'
    BY <1>1, <2>1, <2>2, <2>3, OneDone
  <2> QED BY <1>2, <2>1, <2>2, <2>4, NothingYetNext
<1>7. CASE Recheck
  BY <1>7, RecheckFindsThemOut DEF Recheck
<1>8. CASE ClearFence /\ Len(Todo) = 1
  <2>1. UNCHANGED <<live, txns, active>> /\ inst'.mode = "off"
    BY <1>8 DEF ClearFence, InstOff
  <2> QED BY <2>1 DEF NotYet
<1>9. CASE ClearActive
  BY <1>2, <1>9 DEF ClearActive
<1> QED BY <1>3, <1>4, <1>5, <1>6, <1>7, <1>8, <1>9 DEF InstallerStep

\* The fence that is published now is published before the re-check.
LEMMA PublishedBefore ==
  ASSUME SwitchInv, Todo # <<>>, Todo[1].op = "fence"
  PROVE  NotYet
<1>1. 1 + 1 \in DOMAIN Todo /\ Todo[1 + 1].op = "recheck" /\ inst.mode # "off" /\ inst.id = active
  BY AtWork DEF Plan
<1> QED BY <1>1, NothingYet DEF Left

\* Once a blocking switch is under way the runs of other generations stay out.
LEMMA ExclusionStep ==
  ASSUME SwitchInv, SlotInv, LockIsSection, FenceExcludes, [Next]_vars, SwitchInv'
  PROVE  FenceExcludes'
<1> SUFFICES ASSUME fence' # NoFence, fence'.id = active'
             PROVE  OthersOut' \/ NotYet'
  BY DEF FenceExcludes
<1>1. active' # 0
  BY DEF SwitchInv, SwitchTyped, Fence
<1>2. UNCHANGED slotVars /\ fence' = fence /\ OthersOut => OthersOut'
  BY DEF OthersOut, slotVars
<1>3. CASE RunStep
  <2>1. UNCHANGED <<live, txns, active, fence, inst, faults>>
    BY <1>3, RunKeeps
  <2>2. OthersOut => OthersOut'
    BY <1>3, <2>1, OthersStayOut
  <2>3. NotYet => NotYet'
    BY <2>1 DEF NotYet, Left, Todo, Own
  <2> QED BY <2>1, <2>2, <2>3 DEF FenceExcludes
<1>4. CASE BeginInstall
  <2>1. fence' = fence /\ active' = Len(txns) + 1
    BY <1>4 DEF BeginInstall
  <2>2. fence.id \in DOMAIN txns /\ txns \in Seq(Txn)
    BY <2>1 DEF SwitchInv, FenceBound, SwitchTyped
  <2> QED BY <2>1, <2>2
<1>5. CASE BeginDetachedRecovery
  BY <1>1, <1>5 DEF BeginDetachedRecovery
<1>6. CASE BeginRecovery
  <2>1. /\ UNCHANGED <<slotVars, live, txns, active, fence>> /\ active # 0
        /\ inst'.id = active /\ Todo' = RecoveryScript(active, txns[active].stage)
    BY <1>6 DEF BeginRecovery, InstOff, Todo
  <2>2. active \in DOMAIN txns /\ txns[active] \in Txn /\ txns[active].from # txns[active].to
        /\ txns[active].stage \in ToSet(Stages)
    <3>1. active \in 0..Len(txns) /\ txns \in Seq(Txn) /\ Len(txns) \in Nat
      BY DEF SwitchInv, SwitchTyped
    <3>2. active \in DOMAIN txns /\ txns[active] \in Txn
      BY <2>1, <3>1
    <3> QED BY <3>2 DEF SwitchInv, SwitchTyped, Txn
  <2>3. NotYet => NotYet'
    <3> SUFFICES ASSUME NotYet PROVE NotYet'
      OBVIOUS
    <3>1. txns[active].stage \notin {"postconditions_verified", "committed"}
      BY <2>2, UnderWayStages DEF NotYet
    <3>2. \/ Back(Todo', txns[active])
          \/ Confirm(Todo', txns[active]) /\ \A i \in DOMAIN Todo' : Todo'[i].op # "append"
      BY <2>1, <2>2, <3>1, RecoveryIs
    <3>3. Harmless(Todo', txns[active])
      BY <2>2, <3>2, BackIsHarmless
    <3> QED BY <2>1, <3>3 DEF NotYet, Harmless, Own
  <2> QED BY <1>2, <2>1, <2>3 DEF FenceExcludes
<1>7. CASE StepRefused \/ StepRaises \/ InstallerDies
  <2>1. Todo # <<>> /\ UNCHANGED slotVars
    BY <1>7 DEF StepRefused, At, StepRaises, InstallerDies
  <2>2. FailedStep
    BY <1>7, <2>1, RefusedLeaves, PartialLeaves DEF StepRefused, StepRaises, InstallerDies
  <2>3. Handled
    <3>1. CASE StepRefused \/ StepRaises
      BY <2>1, <3>1, HandleIs DEF StepRefused, StepRaises
    <3>2. CASE InstallerDies
      BY <3>2 DEF InstallerDies, Off, Handled
    <3> QED BY <1>7, <3>1, <3>2
  <2>4. active' = active /\ active # 0
    BY <1>1, <2>2 DEF FailedStep
  <2>5. CASE fence' = fence
    BY <1>2, <2>1, <2>2, <2>3, <2>4, <2>5, NotYetFails DEF FenceExcludes
  <2>6. CASE fence' # fence
    <3>1. Todo[1].op = "fence"
      BY <2>2, <2>6 DEF FailedStep
    <3>2. NotYet
      BY <2>1, <3>1, PublishedBefore
    <3> QED BY <2>1, <2>2, <2>3, <2>4, <3>2, NotYetFails
  <2> QED BY <2>5, <2>6
<1>8. CASE InstallerStep /\ ~StepRefused
  <2>1. UNCHANGED slotVars
    BY <1>8 DEF InstallerStep, AppendStage, WriteResource, VerifyResources, PublishFence, Recheck,
                Readback, ClearFence, ClearActive
  <2>2. CASE fence' = fence
    <3>1. active' = active
      BY <1>1, <1>8 DEF InstallerStep, AppendStage, WriteResource, VerifyResources, PublishFence,
                        Recheck, Readback, ClearFence, ClearActive
    <3>2. OthersOut \/ NotYet
      BY <2>2, <3>1 DEF FenceExcludes
    <3> QED BY <1>2, <1>8, <2>1, <2>2, <3>2, ExclusionAtWork
  <2>3. CASE fence' # fence
    <3>1. CASE PublishFence
      <4>1. Todo # <<>> /\ Todo[1].op = "fence"
        <5>1. Todo # <<>> /\ Head(Todo).op = "fence"
          BY <3>1 DEF PublishFence, At
        <5> QED BY <5>1, AtWork
      <4>2. /\ inst.mode # "off" /\ inst.id = active /\ active' = active
            /\ 1 + 1 \in DOMAIN Todo /\ Todo[1 + 1].op = "recheck"
        BY <3>1, <4>1, AtWork DEF PublishFence, Plan
      <4>3. Todo' = Tail(Todo) /\ inst'.id = inst.id /\ inst'.mode = inst.mode
        BY <3>1, <4>1, PopIs DEF PublishFence, Todo, Installation
      <4>4. Left("recheck")'
        BY <4>1, <4>2, <4>3, OneDone DEF Left
      <4> QED BY <4>2, <4>3, <4>4, NothingYetNext
    <3>2. CASE ~PublishFence
      BY <1>8, <2>3, <3>2 DEF InstallerStep, AppendStage, WriteResource, VerifyResources, Recheck,
          Readback, ClearFence, ClearActive
    <3> QED BY <3>1, <3>2
  <2> QED BY <2>2, <2>3
<1>9. CASE UNCHANGED vars
  BY <1>2, <1>9 DEF vars, switchVars, FenceExcludes, NotYet, Left, Todo, Own
<1> QED BY <1>3, <1>4, <1>5, <1>6, <1>7, <1>8, <1>9 DEF Next

\* The fence, its lock and the runs, always.
LEMMA ExclusionAlways == Spec => []ExclusionInv
<1>1. Init => SwitchInv /\ SlotInv
  BY SwitchInvInit, SlotBegins DEF Init
<1>2. Init => LockIsSection /\ FenceExcludes
  BY FencedAssumption, RunAssumption
  DEF Init, SlotInit, InstOff, LockIsSection, FenceExcludes, At, Left, Todo
<1>3. SwitchInv /\ SlotInv /\ LockIsSection /\ FenceExcludes /\ [Next]_vars
        => SwitchInv' /\ LockIsSection' /\ FenceExcludes'
  BY SwitchInvStep, LockStep, ExclusionStep
<1> QED BY <1>1, <1>2, <1>3, SlotsAlways, PTL DEF Spec, ExclusionInv

\* A blocking switch that is under way, or has left the new generation on any
\* resource, has no run of another generation admitted through the fence beside
\* it until its fence is cleared (generation_fence.py:1-21,
\* install_codex_plugin.py:5417-5471).
THEOREM OldRunsExcluded == Spec => []SwitchExcludesOldRuns
<1>1. FenceExcludes => SwitchExcludesOldRuns
  BY DEF FenceExcludes, SwitchExcludesOldRuns, OthersOut, NotYet, UnderWay, Running
<1> QED BY <1>1, ExclusionAlways, PTL DEF ExclusionInv

-----------------------------------------------------------------------------
(* The journal leads the resources. *)

\* No stage announces a write later than a rollback does.
LEMMA StartsEarly ==
  /\ \A x : StageRank(StartOf(x)) \in 3..11
  /\ StageRank("rollback_started") = 15
  /\ \A s \in ToSet(Stages) : StageRank(s) >= 15 =>
       s \notin {"postconditions_verified", "committed"}
BY Ranks, StagesNamed DEF StartOf

\* What the journal says, resource by resource.
LEMMA LeadsIs == Leads <=> JournalLeads
<1> DEFINE Ahead(res) == live[res] # txns[active].from =>
                           StageRank(txns[active].stage) >= StageRank(StartOf(res))
<1>1. (\A res \in Resource : Ahead(res)) <=>
        Ahead("registry") /\ Ahead("launcher") /\ Ahead("deployment") /\ Ahead("scheduler")
  BY DEF Resource
<1>2. /\ StartOf("registry") = "registry_remove_started"
      /\ StartOf("launcher") = "launcher_publish_started"
      /\ StartOf("deployment") = "deployment_publish_started"
      /\ StartOf("scheduler") = "scheduler_reconcile_started"
  BY DEF StartOf
<1> QED BY <1>1, <1>2 DEF Leads, JournalLeads

\* A step of the installer, whole or in part, leaves no resource ahead of the
\* journal.
LEMMA LeadsStep ==
  ASSUME SwitchInv, Leads, ListAnnounced, Todo # <<>>, FailedStep,
         txns' # txns => Appendable(inst.id, Todo[1].arg)
  PROVE  Leads'
<1>1. /\ inst.mode # "off" /\ inst.id \in DOMAIN txns /\ 1 \in DOMAIN Todo
      /\ Own \in Txn /\ Own.from \in Gen /\ Own.to \in Gen /\ Own.from # Own.to
      /\ Todo[1].op \notin {"verify", "readback", "clear_fence"} => inst.id = active
      /\ StepFits(Todo[1], Own) /\ live \in [Resource -> Gen \cup {NoGen}]
      /\ Own.stage \in ToSet(Stages)
      /\ \A i \in DOMAIN Todo : i # 1 => After(Todo[1], Todo[i], Own)
  BY AtWork DEF SwitchInv, SwitchTyped, Txn
<1> SUFFICES ASSUME active' # 0 PROVE Leads'
  BY DEF Leads
<1>2. active' = active /\ active \in DOMAIN txns
      /\ txns'[active].from = txns[active].from /\ txns'[active].to = txns[active].to
  <2>1. active' = active /\ active \in 0..Len(txns) /\ txns \in Seq(Txn)
    BY DEF FailedStep, SwitchInv, SwitchTyped
  <2> QED BY <2>1 DEF FailedStep
<1>3. CASE txns' # txns
  <2>1. /\ Todo[1].op = "append" /\ txns'[active].stage = Todo[1].arg /\ live' = live
        /\ Own = txns[active] /\ StageRank(Todo[1].arg) > StageRank(Own.stage)
        /\ Todo[1].arg \in ToSet(Stages)
    BY <1>1, <1>3 DEF FailedStep, Own, Appendable, StepFits
  <2>2. \A res \in Resource : live'[res] # txns'[active].from =>
          StageRank(txns'[active].stage) >= StageRank(StartOf(res))
    <3>1. StageRank(Own.stage) \in 1..16 /\ StageRank(Todo[1].arg) \in 1..16
          /\ \A x : StageRank(StartOf(x)) \in 3..11
      BY <1>1, <2>1, StagesNamed, StartsEarly
    <3> QED BY <1>2, <2>1, <3>1 DEF Leads
  <2>3. Todo[1].arg \in {"postconditions_verified", "committed"} => Verified(Own.to)
    <3> SUFFICES ASSUME Todo[1].arg \in {"postconditions_verified", "committed"}
                 PROVE  Verified(Own.to)
      OBVIOUS
    <3>1. Confirms(Todo[1].arg, Own) = Own.to /\ Own.to # NoGen
      BY <1>1, GenAssumption DEF Confirms
    <3>2. ~Left("verify")
      BY <1>1, <2>1, <3>1 DEF Left, After
    <3>3. Settled
      BY <1>1, <3>2 DEF SwitchInv, InstallerKeepsPlan
    <3>4. PICK g \in {Own.from, Own.to} : Verified(g) /\ Confirms(Todo[1].arg, Own) = g
      BY <1>1, <2>1, <3>3 DEF Settled
    <3> QED BY <3>1, <3>4
  <2> QED BY <1>2, <2>1, <2>2, <2>3 DEF Leads, Verified
<1>4. CASE txns' = txns /\ live' = live
  BY <1>2, <1>4 DEF Leads, Verified
<1>5. CASE txns' = txns /\ live' # live
  <2>1. /\ Todo[1].op = "write" /\ live' = [live EXCEPT ![Todo[1].arg] = live'[Todo[1].arg]]
        /\ live'[Todo[1].arg] \in CutShort(Todo[1].arg, Todo[1].gen)
        /\ Todo[1].arg \in Resource /\ Own = txns[active]
    BY <1>1, <1>5 DEF FailedStep, StepFits, Own
  <2>2. \A res \in Resource : res # Todo[1].arg => live'[res] = live[res]
    BY <1>1, <2>1
  <2>3. StageRank(Own.stage) >= StageRank(StartOf(Todo[1].arg))
    <3>1. \A i \in DOMAIN Todo : ~(i < 1)
      BY AtWork
    <3> QED BY <1>1, <2>1, <3>1 DEF ListAnnounced, WritesAnnounced
  <2>4. \A res \in Resource : live'[res] # txns'[active].from =>
          StageRank(txns'[active].stage) >= StageRank(StartOf(res))
    BY <1>2, <1>5, <2>1, <2>2, <2>3 DEF Leads
  <2>5. Own.stage \in {"postconditions_verified", "committed"} => \A res \in Resource : live'[res] = Own.to
    <3> SUFFICES ASSUME Own.stage \in {"postconditions_verified", "committed"}
                 PROVE  \A res \in Resource : live'[res] = Own.to
      OBVIOUS
    <3>1. Todo[1].gen = Own.to /\ inst.mode = "forward"
      <4>1. \A i \in DOMAIN Todo : ~(i < 1)
        BY AtWork
      <4> QED BY <1>1, <2>1, <4>1 DEF ListAnnounced, UndoAnnounced
    <3>2. \A res \in Resource : live[res] = Own.to
      BY <1>2, <2>1 DEF Leads, Verified
    <3>3. live'[Todo[1].arg] = Own.to
      BY <2>1, <3>1, <3>2 DEF CutShort
    <3> QED BY <2>2, <3>2, <3>3
  <2> QED BY <1>2, <1>5, <2>1, <2>4, <2>5 DEF Leads, Verified
<1> QED BY <1>3, <1>4, <1>5

\* What is still to do after a step is still announced.
LEMMA AnnouncedGoesOn ==
  ASSUME SwitchInv, ListAnnounced, Todo # <<>>, Todo' = Tail(Todo), inst'.mode = inst.mode,
         Own'.to = Own.to, Own'.gapFree = Own.gapFree, Own'.stage \in ToSet(Stages),
         StageRank(Own'.stage) >= StageRank(Own.stage),
         Todo[1].op = "append" => StageRank(Own'.stage) >= StageRank(Todo[1].arg),
         \/ Own'.stage = Own.stage
         \/ Todo[1].op = "append" /\ Own'.stage = Todo[1].arg,
         \/ inst'.stage = inst.stage
         \/ Todo[1].op = "append" /\ inst'.stage = Todo[1].arg
  PROVE  ListAnnounced'
<1>0. /\ inst.mode # "off" /\ inst.id \in DOMAIN txns /\ 1 \in DOMAIN Todo
      /\ Own \in Txn /\ Own.from \in Gen /\ Own.to \in Gen /\ Own.from # Own.to
      /\ \A i \in DOMAIN Todo : i # 1 => After(Todo[1], Todo[i], Own)
      /\ Own.stage \in ToSet(Stages) /\ StepFits(Todo[1], Own)
      /\ Todo \in Seq(Step)
  BY AtWork DEF Txn
<1> DEFINE n == Len(Todo)
           u == Tail(Todo)
<1>1. /\ n \in Nat /\ DOMAIN Todo = 1..n /\ DOMAIN u = 1..(n - 1)
      /\ \A i \in 1..(n - 1) : i + 1 \in 1..n /\ u[i] = Todo[i + 1]
      /\ \A i \in 2..n : i - 1 \in 1..(n - 1) /\ Todo[i] = u[i - 1]
  BY <1>0, Rest
<1> HIDE DEF n, u
<1>2. /\ StageRank(Own.stage) \in Nat /\ StageRank(Own'.stage) \in Nat
      /\ \A x : StageRank(StartOf(x)) \in Nat
      /\ Todo[1].op = "append" => StageRank(Todo[1].arg) \in Nat
  <2>1. \A s \in ToSet(Stages) : StageRank(s) \in Nat
    BY StagesNamed, SMTT(30)
  <2> QED BY <1>0, <2>1, StartsEarly DEF StepFits
<1>3. WritesAnnounced'
  <2> SUFFICES ASSUME NEW j \in 1..(n - 1), u[j].op = "write"
               PROVE  \/ StageRank(Own'.stage) >= StageRank(StartOf(u[j].arg))
                      \/ \E i \in 1..(n - 1) :
                           /\ i < j /\ u[i].op = "append"
                           /\ StageRank(u[i].arg) >= StageRank(StartOf(u[j].arg))
    BY <1>1 DEF WritesAnnounced, u
  <2>1. j + 1 \in 1..n /\ Todo[j + 1] = u[j] /\ Todo[j + 1].op = "write"
    BY <1>1
  <2>2. CASE StageRank(Own.stage) >= StageRank(StartOf(u[j].arg))
    BY <1>2, <2>2
  <2>3. CASE \E i \in DOMAIN Todo : /\ i < j + 1 /\ Todo[i].op = "append"
                                    /\ StageRank(Todo[i].arg) >= StageRank(StartOf(u[j].arg))
    <3>1. PICK i \in 1..n : /\ i < j + 1 /\ Todo[i].op = "append"
                            /\ StageRank(Todo[i].arg) >= StageRank(StartOf(u[j].arg))
      BY <1>1, <2>3
    <3>2. CASE i = 1
      BY <1>2, <3>1, <3>2
    <3>3. CASE i # 1
      <4>1. i \in 2..n /\ i - 1 < j
        BY <1>1, <3>1, <3>3
      <4>2. i - 1 \in 1..(n - 1) /\ u[i - 1] = Todo[i]
        BY <1>1, <4>1
      <4> QED BY <3>1, <4>1, <4>2
    <3> QED BY <3>2, <3>3
  <2> QED BY <1>0, <1>1, <2>1, <2>2, <2>3 DEF ListAnnounced, WritesAnnounced
<1>4. UndoAnnounced'
  <2> SUFFICES ASSUME Own'.stage \in {"postconditions_verified", "committed"},
                      NEW j \in 1..(n - 1), u[j].op = "write"
               PROVE  \/ u[j].gen = Own'.to /\ inst'.mode = "forward"
                      \/ \E i \in 1..(n - 1) : i < j /\ u[i] = AppendOf("rollback_started")
    BY <1>1 DEF UndoAnnounced, u
  <2>1. j + 1 \in 1..n /\ j + 1 # 1 /\ Todo[j + 1] = u[j] /\ Todo[j + 1].op = "write"
    BY <1>1
  <2>2. CASE Own'.stage = Own.stage
    <3>1. Todo[1] # AppendOf("rollback_started")
      BY <1>0, <2>2, StartsEarly DEF AppendOf
    <3>2. CASE Todo[j + 1].gen = Own.to /\ inst.mode = "forward"
      BY <2>1, <3>2
    <3>3. CASE \E i \in DOMAIN Todo : i < j + 1 /\ Todo[i] = AppendOf("rollback_started")
      <4>1. PICK i \in 1..n : i < j + 1 /\ Todo[i] = AppendOf("rollback_started")
        BY <1>1, <3>3
      <4>2. i \in 2..n /\ i - 1 < j
        BY <1>1, <3>1, <4>1
      <4>3. i - 1 \in 1..(n - 1) /\ u[i - 1] = Todo[i]
        BY <1>1, <4>2
      <4> QED BY <4>1, <4>2, <4>3
    <3> QED BY <1>0, <1>1, <2>1, <2>2, <3>2, <3>3 DEF ListAnnounced, UndoAnnounced
  <2>3. CASE Todo[1].op = "append" /\ Own'.stage = Todo[1].arg
    <3>1. After(Todo[1], Todo[j + 1], Own)
      BY <1>0, <1>1, <2>1
    <3>2. Todo[1].arg = "postconditions_verified"
      BY <2>1, <2>3, <3>1 DEF After, Closing
    <3>3. inst.mode = "forward"
      <4>1. inst.mode \in {"off", "forward", "recover", "undo"}
        BY AtWork DEF Installation
      <4> QED BY <1>0, <2>3, <3>2, <4>1 DEF ListAnnounced, BackwardRecords
    <3>4. Confirms(Todo[1].arg, Own) = Own.to /\ Own.to # NoGen
      BY <1>0, <3>2, GenAssumption DEF Confirms
    <3>5. ~Left("verify")
      BY <1>0, <2>3, <3>4 DEF Left, After
    <3>6. Settled
      BY <1>0, <3>5 DEF SwitchInv, InstallerKeepsPlan
    <3>7. PICK g \in {Own.from, Own.to} :
            \A i \in DOMAIN Todo : /\ Todo[i].op = "write" => Todo[i].gen = g
                                   /\ Todo[i].op = "append" => Confirms(Todo[i].arg, Own) = g
      BY <3>6 DEF Settled
    <3>8. g = Own.to
      BY <1>0, <2>3, <3>4, <3>7
    <3> QED BY <1>1, <2>1, <3>3, <3>7, <3>8
  <2> QED BY <2>2, <2>3
<1>5. CommitIsRead' /\ BackwardRecords'
  <2>1. \A i \in DOMAIN Todo' : \E j \in DOMAIN Todo : j # 1 /\ Todo'[i] = Todo[j]
    BY OneDone
  <2>2. BackwardRecords'
    BY <2>1 DEF ListAnnounced, BackwardRecords
  <2>3. ASSUME inst'.mode = "forward", inst'.stage = "committed", NEW i \in DOMAIN Todo'
        PROVE  Todo'[i].op \in Closing
    <3>1. PICK j \in DOMAIN Todo : j # 1 /\ Todo'[i] = Todo[j]
      BY <2>1
    <3>2. CASE inst'.stage = inst.stage
      BY <2>3, <3>1, <3>2 DEF ListAnnounced, CommitIsRead
    <3>3. CASE Todo[1].op = "append" /\ inst'.stage = Todo[1].arg
      BY <1>0, <2>3, <3>1, <3>3 DEF After
    <3> QED BY <3>2, <3>3
  <2> QED BY <2>2, <2>3 DEF CommitIsRead
<1>6. UndoIsLegacy'
  BY DEF ListAnnounced, UndoIsLegacy
<1> QED BY <1>3, <1>4, <1>5, <1>6 DEF ListAnnounced

\* A list that confirms writes nothing; one that puts back has announced it.
LEMMA AnnouncedFresh ==
  ASSUME NEW S, NEW t, Todo' = S, inst'.mode \in {"recover", "undo"},
         inst'.mode = "undo" => ~Own'.gapFree,
         \/ Confirm(S, t)
         \/ Back(S, t) /\ (S[1] = AppendOf("rollback_started") \/ Own'.stage = "rollback_started")
  PROVE  ListAnnounced'
<1>1. CommitIsRead' /\ BackwardRecords' /\ UndoIsLegacy'
  BY DEF CommitIsRead, BackwardRecords, UndoIsLegacy, Confirm, Back
<1>2. CASE Confirm(S, t)
  BY <1>1, <1>2 DEF ListAnnounced, WritesAnnounced, UndoAnnounced, Confirm
<1>3. CASE Own'.stage = "rollback_started"
  BY <1>1, <1>3, StartsEarly DEF ListAnnounced, WritesAnnounced, UndoAnnounced
<1>4. CASE Back(S, t) /\ S[1] = AppendOf("rollback_started")
  <2>1. 1 \in DOMAIN S /\ S[1].op = "append" /\ S[1].arg = "rollback_started"
        /\ \A j \in DOMAIN S : S[j].op = "write" => 1 < j
    <3>1. S \in Seq(Step) /\ S # <<>>
      BY <1>4 DEF Back, Plan
    <3>2. 1 \in DOMAIN S /\ \A j \in DOMAIN S : j = 1 \/ 1 < j
      BY <3>1
    <3> QED BY <1>4, <3>2 DEF AppendOf
  <2>2. WritesAnnounced'
    BY <2>1, StartsEarly DEF WritesAnnounced
  <2>3. UndoAnnounced'
    BY <1>4, <2>1 DEF UndoAnnounced
  <2> QED BY <1>1, <2>2, <2>3 DEF ListAnnounced
<1> QED BY <1>2, <1>3, <1>4

\* What an install begins with.
LEMMA InstallStarts ==
  ASSUME SwitchInv, BeginInstall
  PROVE  \E t \in Txn : /\ Own' = t /\ t = txns'[active'] /\ Forward(Todo', t)
                        /\ t.stage = "none" /\ Verified(t.from)
                        /\ live' = live /\ inst'.mode = "forward" /\ inst'.stage = "none"
<1>1. PICK to \in Gen \ {live["registry"]}, policy \in Policies, profile \in Profiles :
        /\ txns' = Append(txns, [from |-> live["registry"], to |-> to, block |-> policy = "block",
                                 gapFree |-> profile = "gap_free", stage |-> "none"])
        /\ inst' = [InstOff EXCEPT !.mode = "forward", !.id = Len(txns) + 1,
                                   !.todo = ForwardScript(to)]
  BY ZenonT(40) DEF BeginInstall
<1> DEFINE t == [from |-> live["registry"], to |-> to, block |-> policy = "block",
                 gapFree |-> profile = "gap_free", stage |-> "none"]
<1>2. PICK g \in Gen : Verified(g)
  BY DEF BeginInstall, SwitchInv, ClosedIsUniform
<1>3. t \in Txn /\ t.from = g /\ t.to = to /\ t.stage = "none"
  BY <1>2, StagesNamed DEF Txn, Verified, Resource
<1>4. txns' = Append(txns, t)
  BY <1>1
<1>5. inst'.id = Len(txns) + 1 /\ inst'.mode = "forward" /\ inst'.stage = "none"
      /\ Todo' = ForwardScript(to)
  BY <1>1 DEF InstOff, Todo
<1>6. active' = Len(txns) + 1 /\ live' = live
  BY DEF BeginInstall
<1> HIDE DEF t
<1>7. txns'[Len(txns) + 1] = t
  <2>1. txns \in Seq(Txn)
    BY DEF SwitchInv, SwitchTyped
  <2> QED BY <2>1, <1>3, <1>4
<1>8. Forward(Todo', t)
  BY <1>3, <1>5, ForwardIsPlan
<1>9. Own' = t /\ t = txns'[active']
  BY <1>5, <1>6, <1>7 DEF Own
<1> QED BY <1>2, <1>3, <1>5, <1>6, <1>8, <1>9

\* What a step does is what a step that fails may have done.
LEMMA DoneIsPartial ==
  ASSUME InstallerStep, ~StepRefused
  PROVE  Todo # <<>> /\ PartialEffect /\ (txns' # txns => Appendable(inst.id, Head(Todo).arg))
<1>1. CASE AppendStage
  BY <1>1 DEF AppendStage, PartialEffect, At
<1>2. CASE WriteResource
  BY <1>2 DEF WriteResource, PartialEffect, At, CutShort
<1>3. CASE VerifyResources \/ Recheck \/ Readback
  BY <1>3 DEF VerifyResources, Recheck, Readback, PartialEffect, At
<1>4. CASE PublishFence
  BY <1>4 DEF PublishFence, PartialEffect, At
<1>5. CASE ClearFence \/ ClearActive
  BY <1>5 DEF ClearFence, ClearActive, PartialEffect, At
<1> QED BY <1>1, <1>2, <1>3, <1>4, <1>5 DEF InstallerStep

\* The list after a step that the installer did.
LEMMA AnnouncedAtWork ==
  ASSUME SwitchInv, ListAnnounced, InstallerStep, ~StepRefused, SwitchInv'
  PROVE  ListAnnounced'
<1>1. Todo # <<>>
  BY DoneIsPartial
<1>2. /\ Head(Todo) = Todo[1] /\ inst \in Installation /\ inst.id \in DOMAIN txns
      /\ Own \in Txn /\ Own.stage \in ToSet(Stages) /\ StepFits(Todo[1], Own)
      /\ Pop.todo = Tail(Todo) /\ Pop.id = inst.id /\ Pop.mode = inst.mode /\ Pop.stage = inst.stage
      /\ Pop \in Installation
  BY <1>1, AtWork, PopIs DEF Txn
<1>3. StageRank(Own.stage) \in Nat
  BY <1>2, StagesNamed, SMTT(30)
<1>4. CASE inst' = InstOff
  BY <1>4 DEF InstOff, ListAnnounced, WritesAnnounced, UndoAnnounced, CommitIsRead,
      BackwardRecords, UndoIsLegacy
<1>5. CASE AppendStage
  <2>1. /\ Todo[1].op = "append" /\ txns' = [txns EXCEPT ![inst.id].stage = Todo[1].arg]
        /\ StageRank(Todo[1].arg) > StageRank(Own.stage) /\ Todo[1].arg \in ToSet(Stages)
    BY <1>2, <1>5 DEF AppendStage, At, Appendable, Own, StepFits
  <2>2. Todo' = Tail(Todo) /\ inst'.id = inst.id /\ inst'.mode = inst.mode
        /\ inst'.stage = Todo[1].arg
    BY <1>2, <1>5 DEF AppendStage, Todo, Installation
  <2>3. Own'.stage = Todo[1].arg /\ Own'.to = Own.to /\ Own'.gapFree = Own.gapFree
    <3>1. txns[inst.id] \in Txn /\ txns \in Seq(Txn)
      BY <1>2 DEF Own, SwitchInv, SwitchTyped
    <3>2. txns'[inst.id] = [txns[inst.id] EXCEPT !.stage = Todo[1].arg]
      BY <1>2, <2>1, <3>1
    <3> QED BY <2>2, <3>1, <3>2 DEF Own, Txn
  <2>4. StageRank(Todo[1].arg) \in Nat
    BY <2>1, StagesNamed
  <2>5. StageRank(Own'.stage) >= StageRank(Own.stage) /\ StageRank(Own'.stage) >= StageRank(Todo[1].arg)
    BY <1>3, <2>1, <2>3, <2>4
  <2> QED BY <1>1, <2>1, <2>2, <2>3, <2>5, AnnouncedGoesOn
<1>6. CASE ~AppendStage /\ inst' # InstOff
  <2>1. /\ Todo[1].op # "append" /\ txns' = txns
    BY <1>2, <1>6 DEF InstallerStep, WriteResource, VerifyResources, PublishFence, Recheck, Readback,
                      ClearFence, ClearActive, At
  <2>2. Todo' = Tail(Todo) /\ inst'.id = inst.id /\ inst'.mode = inst.mode /\ inst'.stage = inst.stage
    <3>1. CASE WriteResource \/ VerifyResources \/ Recheck \/ (ClearFence /\ Len(Todo) # 1)
      BY <1>2, <3>1 DEF WriteResource, VerifyResources, Recheck, ClearFence, Todo
    <3>2. CASE PublishFence
      BY <1>2, <3>2 DEF PublishFence, Todo, Installation
    <3>3. CASE Readback
      BY <1>2, <3>3 DEF Readback, Todo, Installation
    <3> QED BY <1>6, <3>1, <3>2, <3>3 DEF InstallerStep, ClearFence, ClearActive, Off
  <2>3. Own' = Own /\ StageRank(Own'.stage) >= StageRank(Own.stage)
    BY <1>3, <2>1, <2>2 DEF Own
  <2> QED BY <1>1, <1>2, <2>1, <2>2, <2>3, AnnouncedGoesOn
<1> QED BY <1>4, <1>5, <1>6

\* Whatever a handler that undoes has still to do: it is legacy, it records only
\* that it undoes, and what it undoes is in the journal or is not.
LEMMA UndoGoesOn ==
  ASSUME SwitchInv, SaysOrUndoes, Todo # <<>>, inst.mode = "undo", inst'.mode = "undo",
         Todo' = Tail(Todo), inst'.id = inst.id, Own'.gapFree = Own.gapFree
  PROVE  SaysOrUndoes'
<1>1. BackwardRecords' /\ UndoIsLegacy'
  <2>1. \A i \in DOMAIN Todo' : \E j \in DOMAIN Todo : j # 1 /\ Todo'[i] = Todo[j]
    BY OneDone
  <2> QED BY <2>1 DEF SaysOrUndoes, BackwardRecords, UndoIsLegacy
<1>2. CASE Own'.stage # "rollback_started"
  BY <1>1, <1>2 DEF SaysOrUndoes, UndoesUnjournaled, Own
<1>3. CASE Own'.stage = "rollback_started"
  BY <1>1, <1>3, StartsEarly
  DEF SaysOrUndoes, ListAnnounced, WritesAnnounced, UndoAnnounced, CommitIsRead
<1> QED BY <1>2, <1>3

\* An installer that has stopped announces nothing and changes nothing.
LEMMA StoppedSays ==
  ASSUME inst' = InstOff
  PROVE  SaysOrUndoes'
BY DEF InstOff, SaysOrUndoes, ListAnnounced, WritesAnnounced, UndoAnnounced, CommitIsRead,
    BackwardRecords, UndoIsLegacy

\* A step that is done takes the head of the list or ends the work.
LEMMA StepPops ==
  ASSUME SwitchInv, InstallerStep, ~StepRefused
  PROVE  \/ inst' = InstOff
         \/ /\ Todo' = Tail(Todo) /\ inst'.id = inst.id /\ inst'.mode = inst.mode
            /\ Own'.gapFree = Own.gapFree
<1>1. Todo # <<>> /\ PartialEffect
  BY DoneIsPartial
<1>2. /\ inst \in Installation /\ inst.id \in DOMAIN txns
      /\ Pop.todo = Tail(Todo) /\ Pop.id = inst.id /\ Pop.mode = inst.mode /\ Pop \in Installation
  BY <1>1, AtWork, PopIs
<1>3. \/ inst' = InstOff
      \/ Todo' = Tail(Todo) /\ inst'.id = inst.id /\ inst'.mode = inst.mode
  <2>1. CASE AppendStage
    BY <1>2, <2>1 DEF AppendStage, Todo, Installation
  <2>2. CASE WriteResource \/ VerifyResources \/ Recheck \/ ClearFence
    BY <1>2, <2>2 DEF WriteResource, VerifyResources, Recheck, ClearFence, Todo
  <2>3. CASE PublishFence
    BY <1>2, <2>3 DEF PublishFence, Todo, Installation
  <2>4. CASE Readback
    BY <1>2, <2>4 DEF Readback, Todo, Installation
  <2>5. CASE ClearActive
    BY <2>5 DEF ClearActive, Off
  <2> QED BY <2>1, <2>2, <2>3, <2>4, <2>5 DEF InstallerStep
<1>4. FailedStep
  BY <1>1, PartialLeaves
<1> QED BY <1>2, <1>3, <1>4 DEF FailedStep, Own

\* The list after a step that failed: a handler that begins to undo says so, unless
\* the process believes that the install is committed.
LEMMA AnnouncedHandled ==
  ASSUME SwitchInv, ListAnnounced, Todo # <<>>, FailedStep, Handled, inst.mode # "undo"
  PROVE  SaysOrUndoes'
<1>1. /\ inst \in Installation /\ inst.id \in DOMAIN txns /\ 1 \in DOMAIN Todo
      /\ Own \in Txn /\ \A i \in DOMAIN Todo : i # 1 => After(Todo[1], Todo[i], Own)
  BY AtWork
<1>2. CASE inst' = InstOff
  BY <1>2, StoppedSays
<1>3. CASE inst' # InstOff
  <2>1. /\ inst.mode = "forward" /\ ~inst.verified
        /\ inst.stage = Own.stage /\ inst.stage \notin {"rollback_started", "rolled_back"}
        /\ Left("readback")
    BY <1>3 DEF Handled, SwitchInv, ForwardBelieves
  <2>2. CASE inst' = [inst EXCEPT !.mode = "recover", !.todo = RecoveryScript(inst.id, inst.stage)]
    <3> DEFINE S == RecoveryScript(inst.id, inst.stage)
    <3>1. Todo' = S /\ inst'.mode = "recover"
      BY <1>1, <2>2 DEF Installation, Todo
    <3>2. Confirm(S, Own) \/ (Back(S, Own) /\ S[1] = AppendOf("rollback_started"))
      <4>1. Own \in Txn /\ txns[inst.id] = Own
        BY <1>1 DEF Own
      <4> QED BY <2>1, <4>1, RecoveryIs
    <3> HIDE DEF S
    <3> QED BY <3>1, <3>2, AnnouncedFresh DEF SaysOrUndoes, ListAnnounced
  <2>3. CASE /\ ~Own.gapFree
             /\ inst' = [inst EXCEPT !.mode = "undo", !.todo = UndoScript(inst.id, inst.stage, Switched)]
    <3> DEFINE S == UndoScript(inst.id, inst.stage, Switched)
    <3>1. Todo' = S /\ inst'.mode = "undo" /\ inst'.id = inst.id /\ Switched \in BOOLEAN
      BY <1>1, <2>3 DEF Installation, Todo, Switched
    <3>2. Own \in Txn /\ txns[inst.id] = Own /\ ~Own'.gapFree
      <4>1. Own'.gapFree = Own.gapFree
        BY <1>1, <3>1 DEF FailedStep, Own
      <4> QED BY <1>1, <2>3, <4>1 DEF Own
    <3>3. Back(S, Own) /\ (inst.stage = "committed" \/ S[1] = AppendOf("rollback_started"))
      BY <2>1, <2>3, <3>1, <3>2, UndoIs
    <3> HIDE DEF S
    <3>4. CASE S[1] = AppendOf("rollback_started")
      BY <3>1, <3>2, <3>3, <3>4, AnnouncedFresh DEF SaysOrUndoes, ListAnnounced
    <3>5. CASE inst.stage = "committed"
      <4>1. \A i \in DOMAIN Todo : Todo[i].op \in Closing
        BY <2>1, <3>5 DEF ListAnnounced, CommitIsRead
      <4>2. PICK i \in DOMAIN Todo : Todo[i].op = "readback"
        BY <2>1 DEF Left
      <4>3. Todo[1].op = "readback"
        BY <1>1, <4>1, <4>2 DEF After, Closing
      <4>4. Own'.stage = "committed"
        BY <2>1, <3>1, <3>5, <4>3 DEF FailedStep, Own
      <4>5. UndoesUnjournaled'
        BY <3>1, <4>4 DEF UndoesUnjournaled, Own
      <4> QED BY <3>1, <3>2, <3>3, <4>5 DEF SaysOrUndoes, BackwardRecords, UndoIsLegacy, Back
    <3> QED BY <3>3, <3>4, <3>5
  <2> QED BY <1>3, <2>1, <2>2, <2>3 DEF Handled
<1> QED BY <1>2, <1>3

\* What a step of the installer is, done, failed or cut off.
LEMMA AStepAtWork ==
  ASSUME SwitchInv, InstallerStep \/ StepRaises \/ InstallerDies
  PROVE  /\ Todo # <<>> /\ FailedStep /\ (txns' # txns => Appendable(inst.id, Todo[1].arg))
         /\ (InstallerStep /\ ~StepRefused) \/ Handled
<1>1. CASE InstallerStep /\ ~StepRefused
  BY <1>1, DoneIsPartial, AtWork, PartialLeaves
<1>2. CASE StepRefused \/ StepRaises \/ InstallerDies
  <2>1. Todo # <<>>
    BY <1>2 DEF StepRefused, At, StepRaises, InstallerDies
  <2>2. FailedStep /\ (txns' # txns => Appendable(inst.id, Todo[1].arg))
    <3>1. Head(Todo) = Todo[1]
      BY <2>1, AtWork
    <3> QED BY <1>2, <2>1, <3>1, RefusedLeaves, PartialLeaves
        DEF StepRefused, StepRaises, InstallerDies, PartialEffect
  <2>3. Handled
    <3>1. CASE StepRefused \/ StepRaises
      BY <2>1, <3>1, HandleIs DEF StepRefused, StepRaises
    <3>2. CASE InstallerDies
      BY <3>2 DEF InstallerDies, Off, Handled
    <3> QED BY <1>2, <3>1, <3>2
  <2> QED BY <2>1, <2>2, <2>3
<1> QED BY <1>1, <1>2

\* The invariant of the journal: what is still to do is announced, or a legacy
\* handler undoes it unannounced.
LEMMA SaysStep ==
  ASSUME SwitchInv, SaysOrUndoes, [Next]_vars, SwitchInv'
  PROVE  SaysOrUndoes'
<1>1. CASE RunStep \/ UNCHANGED vars
  <2>1. UNCHANGED <<live, txns, active, inst>>
    BY <1>1, RunKeeps DEF vars, switchVars
  <2> QED BY <2>1 DEF SaysOrUndoes, ListAnnounced, WritesAnnounced, UndoAnnounced, CommitIsRead,
      BackwardRecords, UndoIsLegacy, UndoesUnjournaled, Own, Todo
<1>2. CASE BeginInstall
  <2>1. PICK t \in Txn : /\ Own' = t /\ t = txns'[active'] /\ Forward(Todo', t)
                         /\ t.stage = "none" /\ Verified(t.from)
                         /\ live' = live /\ inst'.mode = "forward" /\ inst'.stage = "none"
    BY <1>2, InstallStarts
  <2> QED BY <2>1 DEF Forward, SaysOrUndoes, ListAnnounced, WritesAnnounced, UndoAnnounced,
      CommitIsRead, BackwardRecords, UndoIsLegacy
<1>3. CASE BeginRecovery
  <2>1. /\ UNCHANGED <<live, txns, active>> /\ active # 0 /\ inst'.mode = "recover"
        /\ inst'.id = active /\ Todo' = RecoveryScript(active, txns[active].stage)
    BY <1>3 DEF BeginRecovery, InstOff, Todo
  <2>2. active \in DOMAIN txns /\ txns[active] \in Txn
    <3>1. active \in 0..Len(txns) /\ txns \in Seq(Txn) /\ Len(txns) \in Nat
      BY DEF SwitchInv, SwitchTyped
    <3> QED BY <2>1, <3>1
  <2> DEFINE t == txns[active]
             S == RecoveryScript(active, t.stage)
  <2>3. \/ Confirm(S, t)
        \/ Back(S, t) /\ (t.stage = "rollback_started" \/ S[1] = AppendOf("rollback_started"))
    BY <2>2, RecoveryIs
  <2>4. Todo' = S /\ Own' = t
    BY <2>1 DEF Own
  <2> HIDE DEF S, t
  <2> QED BY <2>1, <2>3, <2>4, AnnouncedFresh DEF SaysOrUndoes, ListAnnounced
<1>4. CASE BeginDetachedRecovery
  <2>1. inst'.mode = "recover" /\ fence # NoFence
    BY <1>4 DEF BeginDetachedRecovery, InstOff
  <2>2. PICK g : /\ Todo' = <<VerifyOf(g), StepOf("readback"), StepOf("clear_fence")>>
                 /\ g \in {txns[fence.id].from, txns[fence.id].to}
    BY <1>4 DEF BeginDetachedRecovery, InstOff, Todo
  <2>3. txns[fence.id] \in Txn
    BY <2>1 DEF SwitchInv, SwitchTyped, FenceBound
  <2>4. Confirm(Todo', txns[fence.id])
    BY <2>2, <2>3, ConfirmDetached
  <2> QED BY <2>1, <2>4, AnnouncedFresh DEF SaysOrUndoes, ListAnnounced
<1>5. CASE InstallerStep \/ StepRaises \/ InstallerDies
  <2>1. /\ Todo # <<>> /\ FailedStep
        /\ (InstallerStep /\ ~StepRefused) \/ Handled
    BY <1>5, AStepAtWork
  <2>2. CASE inst' = InstOff
    BY <2>2, StoppedSays
  <2>3. CASE inst.mode = "undo" /\ inst' # InstOff
    <3>1. /\ Todo' = Tail(Todo) /\ inst'.id = inst.id /\ inst'.mode = inst.mode
          /\ Own'.gapFree = Own.gapFree
      <4>1. CASE InstallerStep /\ ~StepRefused
        BY <2>3, <4>1, StepPops
      <4>2. CASE Handled
        <5>1. inst' = [Pop EXCEPT !.errors = TRUE]
          BY <2>3, <4>2 DEF Handled
        <5>2. Pop \in Installation /\ Pop.todo = Tail(Todo) /\ Pop.id = inst.id /\ Pop.mode = inst.mode
          BY <2>1, PopIs
        <5>3. Todo' = Tail(Todo) /\ inst'.id = inst.id /\ inst'.mode = inst.mode
          BY <5>1, <5>2 DEF Installation, Todo
        <5>4. inst.id \in DOMAIN txns
          BY <2>1, AtWork
        <5> QED BY <2>1, <5>3, <5>4 DEF FailedStep, Own
      <4> QED BY <2>1, <4>1, <4>2
    <3> QED BY <2>1, <2>3, <3>1, UndoGoesOn
  <2>4. CASE inst.mode # "undo"
    <3>1. ListAnnounced
      BY <2>4 DEF SaysOrUndoes, UndoesUnjournaled
    <3>2. CASE InstallerStep /\ ~StepRefused
      BY <3>1, <3>2, AnnouncedAtWork DEF SaysOrUndoes, ListAnnounced
    <3>3. CASE Handled
      BY <2>1, <2>4, <3>1, <3>3, AnnouncedHandled
    <3> QED BY <2>1, <3>2, <3>3
  <2> QED BY <2>2, <2>3, <2>4
<1> QED BY <1>1, <1>2, <1>3, <1>4, <1>5 DEF Next, InstallerStep

\* What a step leaves of the lead: all of it, unless it is one of a handler that
\* undoes unannounced.
LEMMA LeadStep ==
  ASSUME SwitchInv, SaysOrUndoes, Leads, [Next]_vars
  PROVE  Leads' \/ UndoesUnjournaled
<1> SUFFICES ASSUME ~UndoesUnjournaled PROVE Leads'
  OBVIOUS
<1>1. CASE RunStep \/ UNCHANGED vars
  <2>1. UNCHANGED <<live, txns, active, inst>>
    BY <1>1, RunKeeps DEF vars, switchVars
  <2> QED BY <2>1 DEF Leads, Verified
<1>2. CASE BeginInstall
  <2>1. PICK t \in Txn : /\ Own' = t /\ t = txns'[active'] /\ Forward(Todo', t)
                         /\ t.stage = "none" /\ Verified(t.from)
                         /\ live' = live /\ inst'.mode = "forward" /\ inst'.stage = "none"
    BY <1>2, InstallStarts
  <2> QED BY <2>1 DEF Leads, Verified
<1>3. CASE BeginRecovery \/ BeginDetachedRecovery
  BY <1>3 DEF BeginRecovery, BeginDetachedRecovery, Leads, Verified
<1>4. CASE InstallerStep \/ StepRaises \/ InstallerDies
  <2>1. Todo # <<>> /\ FailedStep /\ (txns' # txns => Appendable(inst.id, Todo[1].arg))
    BY <1>4, AStepAtWork
  <2> QED BY <2>1, LeadsStep DEF SaysOrUndoes
<1> QED BY <1>1, <1>2, <1>3, <1>4 DEF Next, InstallerStep

\* The lists of the installer, always.
LEMMA SaysAlways == Spec => []SaysOrUndoes
<1>1. Init => SwitchInv /\ SaysOrUndoes
  BY SwitchInvInit DEF Init, InstOff, SaysOrUndoes, ListAnnounced, WritesAnnounced, UndoAnnounced,
      CommitIsRead, BackwardRecords, UndoIsLegacy
<1>2. SwitchInv /\ SaysOrUndoes /\ [Next]_vars => SaysOrUndoes'
  BY SwitchInvStep, SaysStep
<1> QED BY <1>1, <1>2, SwitchInvAlways, PTL DEF Spec

\* The journal leads what is live, and only a legacy handler that undoes a
\* generation its journal does not say it undoes can lose that: whatever is
\* changed, cut short or put back, a recovery that finds only the journal knows
\* what to do (install_codex_plugin.py:5060-5203, 5797-5848).
THEOREM JournalAlwaysLeads == Spec => JournalLeadsLive
<1>1. SwitchInv /\ SaysOrUndoes /\ [Next]_vars =>
        [JournalLeads => JournalLeads' \/ UndoesUnjournaled]_vars
  <2> SUFFICES ASSUME SwitchInv, SaysOrUndoes, [Next]_vars, JournalLeads
               PROVE  JournalLeads' \/ UndoesUnjournaled
    OBVIOUS
  <2>1. Leads' <=> JournalLeads'
    BY LeadsIs, PTL
  <2> QED BY <2>1, LeadsIs, LeadStep
<1> QED BY <1>1, SwitchInvAlways, SaysAlways, PTL DEF Spec, JournalLeadsLive

\* The resources of a gap-free transaction are never ahead of its journal.
GapFreeLeads == active # 0 /\ txns[active].gapFree => Leads

\* No step of anybody's undoes a gap-free install unannounced.
LEMMA GapFreeStep ==
  ASSUME SwitchInv, SaysOrUndoes, GapFreeLeads, [Next]_vars
  PROVE  GapFreeLeads'
<1> SUFFICES ASSUME active' # 0, txns'[active'].gapFree PROVE Leads'
  BY DEF GapFreeLeads
<1>1. CASE BeginInstall
  <2>1. PICK t \in Txn : /\ Own' = t /\ t = txns'[active'] /\ Forward(Todo', t)
                         /\ t.stage = "none" /\ Verified(t.from)
                         /\ live' = live /\ inst'.mode = "forward" /\ inst'.stage = "none"
    BY <1>1, InstallStarts
  <2> QED BY <2>1 DEF Leads, Verified
<1>2. CASE RunStep \/ BeginRecovery \/ BeginDetachedRecovery \/ UNCHANGED vars
  <2>1. UNCHANGED <<live, txns, active>>
    BY <1>2, RunKeeps DEF vars, switchVars, BeginRecovery, BeginDetachedRecovery
  <2> QED BY <2>1 DEF GapFreeLeads, Leads, Verified
<1>3. CASE InstallerStep \/ StepRaises \/ InstallerDies
  <2>1. Todo # <<>> /\ FailedStep /\ (txns' # txns => Appendable(inst.id, Todo[1].arg))
    BY <1>3, AStepAtWork
  <2>2. active' = active /\ active \in DOMAIN txns
    <3>1. active \in 0..Len(txns) /\ txns \in Seq(Txn)
      BY DEF SwitchInv, SwitchTyped
    <3> QED BY <2>1, <3>1 DEF FailedStep
  <2>3. txns[active].gapFree /\ Leads
    BY <2>1, <2>2 DEF FailedStep, GapFreeLeads
  <2>4. CASE ~UndoesUnjournaled
    BY <2>1, <2>3, <2>4, LeadsStep DEF SaysOrUndoes
  <2>5. CASE UndoesUnjournaled
    <3>1. inst.id # active
      BY <2>3, <2>5 DEF UndoesUnjournaled, SaysOrUndoes, UndoIsLegacy, Own
    <3>2. Todo[1].op \in {"verify", "readback", "clear_fence"}
      BY <2>1, <3>1, AtWork
    <3>3. live' = live /\ txns' = txns
      BY <2>1, <3>2 DEF FailedStep
    <3> QED BY <2>2, <2>3, <3>3 DEF Leads, Verified
  <2> QED BY <2>4, <2>5
<1> QED BY <1>1, <1>2, <1>3 DEF Next, InstallerStep

\* A gap-free install changes nothing before its journal announces it, and its
\* journal says verified or committed only over the new generation: in every
\* state, since its handler is the recovery (install_codex_plugin.py:5777-5791).
THEOREM GapFreeAlwaysLeads == Spec => [](active # 0 /\ txns[active].gapFree => JournalLeads)
<1>1. Init => GapFreeLeads
  BY DEF Init, GapFreeLeads
<1>2. SwitchInv /\ SaysOrUndoes /\ GapFreeLeads /\ [Next]_vars => GapFreeLeads'
  BY GapFreeStep
<1>3. GapFreeLeads => (active # 0 /\ txns[active].gapFree => JournalLeads)
  BY LeadsIs DEF GapFreeLeads
<1> QED BY <1>1, <1>2, <1>3, SwitchInvAlways, SaysAlways, PTL DEF Spec

==============================================================================
