--------------------------- MODULE GenerationSwitch ---------------------------
(***************************************************************************)
(* Installing a new runtime generation while managed runs start and end:   *)
(* the installer's transaction (scripts/release/install_codex_plugin.py),  *)
(* its write-ahead journal (install_transaction_journal.py), the admission  *)
(* fence (scripts/kb/generation_fence.py), and the runs that pass the fence *)
(* to take a slot (scripts/kb/agent-runtime.py with RunSlots).              *)
(*                                                                         *)
(* The installer is a list of steps still to do.  A step appends a stage to *)
(* the journal, writes a resource, handles the fence or verifies.  It can   *)
(* raise, which runs the handler, and the process can die, which leaves the *)
(* journal, the fence and the half-written resource for a later recovery.  *)
(***************************************************************************)
EXTENDS RunSlots, Sequences, SequencesExt

CONSTANTS FencedRun,    \* the runs whose admission goes through the fence
          Installer,    \* the installer as holder of the fence lock
          NoFence,
          Policies,     \* a subset of {"observe", "block"}
          Profiles,     \* a subset of {"gap_free", "legacy"}: how an install hands over
          First,        \* the generation installed at the start
          MaxInstall,   \* bound: transactions
          MaxFault,     \* bound: steps of the installer that raise or die
          MaxTrouble    \* bound: transactions, faults and dead runs together

ASSUME FencedAssumption == FencedRun \subseteq Run /\ Installer \notin Run \cup {Nobody}
ASSUME PolicyAssumption ==
  /\ Policies \subseteq {"observe", "block"}
  /\ Profiles \subseteq {"gap_free", "legacy"}
ASSUME GenAssumption == NoGen \notin Gen
ASSUME SwitchBoundAssumption ==
  MaxInstall \in Nat /\ MaxFault \in Nat /\ MaxTrouble \in Nat /\ First \in Gen

VARIABLES live,      \* the generation each resource has; NoGen when gone or half written
          txns,      \* the transactions, their descriptors and the last journal stage
          active,    \* active.json: the transaction that owns recovery, or 0
          fence,     \* the fence file: the transaction it is bound to and its target
          fenceLock, \* the holder of the fence lock
          inst,      \* the installer process
          faults

switchVars == <<live, txns, active, fence, fenceLock, inst, faults>>
vars == <<slotVars, switchVars>>

-----------------------------------------------------------------------------
(* The journal. *)

Resource == {"registry", "launcher", "deployment", "scheduler"}

\* STAGES; the hook-trust stages and cleanup_complete, which no run of this
\* profile appends, are left out.
Stages == <<"none", "prepared",
            "registry_remove_started", "registry_removed",
            "registry_add_started", "registry_added",
            "launcher_publish_started", "launcher_published",
            "deployment_publish_started", "deployment_published",
            "scheduler_reconcile_started", "scheduler_reconciled",
            "postconditions_verified", "committed",
            "rollback_started", "rolled_back">>

StageRank(s) == CHOOSE i \in DOMAIN Stages : Stages[i] = s

Terminal == {"committed", "rolled_back"}

Txn == [from : Gen, to : Gen, block : BOOLEAN, gapFree : BOOLEAN, stage : ToSet(Stages)]

\* Transaction.append refuses a stage that does not come after the last one.
Appendable(t, s) == StageRank(s) > StageRank(txns[t].stage)

Fence == [id : 1..MaxInstall, to : Gen]

\* Slip: the fence is remembered without the target it admits.
BoundFence_Slip(t) ==
  IF fence # NoFence /\ fence.id = t THEN [fence EXCEPT !.to = NoGen] ELSE NoFence

\* The fence of the transaction t, if it is published.
BoundFence(t) == IF fence # NoFence /\ fence.id = t THEN fence ELSE NoFence

-----------------------------------------------------------------------------
(* The steps of the installer. *)

AppendOf(s)   == [op |-> "append", arg |-> s, gen |-> NoGen]
WriteOf(res, g) == [op |-> "write", arg |-> res, gen |-> g]
VerifyOf(g)   == [op |-> "verify", arg |-> "no_argument", gen |-> g]
StepOf(o)     == [op |-> o, arg |-> "no_argument", gen |-> NoGen]

Finish == <<StepOf("readback"), StepOf("clear_fence"), StepOf("clear_active")>>

\* _install_locked from the first journal record to the cleanup.
ForwardScript(to) ==
  <<AppendOf("prepared"), StepOf("fence"), StepOf("recheck"),
    AppendOf("registry_remove_started"), WriteOf("registry", NoGen), AppendOf("registry_removed"),
    AppendOf("registry_add_started"), WriteOf("registry", to), AppendOf("registry_added"),
    AppendOf("launcher_publish_started"), WriteOf("launcher", to), AppendOf("launcher_published"),
    AppendOf("deployment_publish_started"), WriteOf("deployment", to), AppendOf("deployment_published"),
    AppendOf("scheduler_reconcile_started"), WriteOf("scheduler", to), AppendOf("scheduler_reconciled"),
    VerifyOf(to), AppendOf("postconditions_verified"), WriteOf("launcher", to), AppendOf("committed")>>
  \o Finish

\* What _restore puts back: the gap-free profile restores the snapshot before
\* it touches the registry, the other one after.
Restore(t) ==
  LET Back(res) == WriteOf(res, txns[t].from)
  IN IF txns[t].gapFree
     THEN <<Back("launcher"), Back("deployment"), Back("registry"), Back("scheduler")>>
     ELSE <<Back("registry"), Back("launcher"), Back("deployment"), Back("scheduler")>>

\* The handler of a legacy install restores the same, the registry only if it
\* was switched.
Unwind(t, switched) == IF switched THEN Restore(t) ELSE Tail(Restore(t))

\* Slip: the rollback is recorded without looking at what it restored.
Undone_Slip(t) == <<AppendOf("rolled_back")>> \o Finish

Undone(t) == <<VerifyOf(txns[t].from), AppendOf("rolled_back")>> \o Finish

Unless(cond, s) == IF cond THEN <<>> ELSE s

\* Slip: a rollback that had started is taken for one that had finished.
RecoveryScript_Slip(t, stage) ==
  CASE stage \in {"postconditions_verified", "committed"} ->
         <<VerifyOf(txns[t].to)>>
           \o Unless(stage = "committed", <<AppendOf("committed")>>) \o Finish
    [] stage \in {"rollback_started", "rolled_back"} -> Undone(t)
    [] OTHER -> <<AppendOf("rollback_started")>> \o Restore(t) \o Undone(t)

\* Slip: recovery puts things back without saying so first.
RecoveryScript_SlipUnsaid(t, stage) ==
  CASE stage \in {"postconditions_verified", "committed"} ->
         <<VerifyOf(txns[t].to)>>
           \o Unless(stage = "committed", <<AppendOf("committed")>>) \o Finish
    [] stage = "rolled_back" -> <<VerifyOf(txns[t].from)>> \o Tail(Finish)
    [] OTHER -> Restore(t) \o Undone(t)

\* _recover_transaction, at the stage the process believes the journal has.
RecoveryScript(t, stage) ==
  CASE stage \in {"postconditions_verified", "committed"} ->
         <<VerifyOf(txns[t].to)>>
           \o Unless(stage = "committed", <<AppendOf("committed")>>) \o Finish
    [] stage = "rolled_back" -> <<VerifyOf(txns[t].from)>> \o Tail(Finish)
    [] OTHER ->
         Unless(stage = "rollback_started", <<AppendOf("rollback_started")>>)
           \o Restore(t) \o Undone(t)

\* The handler of a failed legacy install: rollback_started unless the process
\* believes the journal passed it.  If that append fails, or "committed" was
\* written but not read back, the rest of the list runs all the same.
UndoScript(t, stage, switched) ==
  Unless(stage \in {"rollback_started", "rolled_back", "committed"}, <<AppendOf("rollback_started")>>)
    \o Unwind(t, switched)
    \o Undone(t)

InstOff == [mode |-> "off", id |-> 0, stage |-> "none", seen |-> NoFence,
            verified |-> FALSE, errors |-> FALSE, todo |-> <<>>]

Todo == inst.todo
At(o) == Todo # <<>> /\ Head(Todo).op = o
Pop == [inst EXCEPT !.todo = Tail(@)]
Off == inst' = InstOff

-----------------------------------------------------------------------------

SwitchTypeOK ==
  /\ SlotTypeOK
  /\ live \in [Resource -> Gen \cup {NoGen}]
  /\ txns \in Seq(Txn) /\ Len(txns) <= MaxInstall
  /\ active \in 0..Len(txns)
  /\ fence \in Fence \cup {NoFence}
  /\ fenceLock \in Run \cup {Installer, Nobody}
  /\ inst.mode \in {"off", "forward", "recover", "undo"}
  /\ inst.id \in 0..Len(txns)
  /\ inst.seen \in Fence \cup {NoFence}
  /\ faults \in 0..MaxFault

Init ==
  /\ SlotInit
  /\ live = [res \in Resource |-> First]
  /\ txns = <<>>
  /\ active = 0
  /\ fence = NoFence
  /\ fenceLock = Nobody
  /\ inst = InstOff
  /\ faults = 0

MoreTrouble == Len(txns) + faults + runCrashes < MaxTrouble

-----------------------------------------------------------------------------
(* Runs. *)

\* fence_refusal: a fence in switch admits only its target.
Refused(g) == fence # NoFence /\ g # fence.to

\* A fenced run reads the installed authority, so a deployment must be there;
\* another provider's run records what its environment says, or nothing.
StartRun(r) ==
  /\ \E g \in {live["deployment"], NoGen} :
       /\ r \in FencedRun => g = live["deployment"] /\ g # NoGen
       /\ Start(r, g)
  /\ UNCHANGED switchVars

\* One admission round.  A fenced run checks the fence and publishes its lease
\* under one hold of the fence lock; it does not wait for quota in there.
Admit(r) ==
  /\ r \in FencedRun => fenceLock = Nobody /\ ~Refused(runGen[r])
  /\ \/ TakeSlot(r) /\ fenceLock' = IF r \in FencedRun THEN r ELSE fenceLock
     \/ NoSlot(r) /\ UNCHANGED fenceLock
  /\ UNCHANGED <<live, txns, active, fence, inst, faults>>

\* The fence refuses the run or its lock is contended, or the guard is.
Turned(r) ==
  /\ \/ r \in FencedRun /\ (fenceLock # Nobody \/ Refused(runGen[r]))
     \/ guard # Nobody
  /\ GiveUp(r)
  /\ UNCHANGED switchVars

\* The lease is published or withdrawn, and the admission section ends.
EndAdmission(r) ==
  /\ Publish(r) \/ PublishFails(r)
  /\ fenceLock' = IF fenceLock = r THEN Nobody ELSE fenceLock
  /\ UNCHANGED <<live, txns, active, fence, inst, faults>>

EndRun(r) ==
  /\ Release(r) \/ ReleaseBusy(r)
  /\ UNCHANGED switchVars

RunDies(r) ==
  /\ MoreTrouble
  /\ RunCrash(r)
  /\ fenceLock' = IF fenceLock = r THEN Nobody ELSE fenceLock
  /\ UNCHANGED <<live, txns, active, fence, inst, faults>>

-----------------------------------------------------------------------------
(* The installer. *)

\* generation_guard: every lease file names the target generation.
Compatible(to) == \A l \in leases : l.gen = to

\* Slip: nobody looks for a transaction that owns recovery.
BeginInstall_Slip ==
  /\ inst.mode = "off"
  /\ Len(txns) < MaxInstall /\ MoreTrouble
  /\ \E to \in Gen \ {live["registry"]}, profile \in Profiles :
       /\ Compatible(to) /\ live["registry"] \in Gen
       /\ txns' = Append(txns, [from |-> live["registry"], to |-> to, block |-> TRUE,
                                gapFree |-> profile = "gap_free", stage |-> "none"])
       /\ inst' = [InstOff EXCEPT !.mode = "forward", !.id = Len(txns) + 1,
                                  !.todo = ForwardScript(to)]
  /\ active' = Len(txns) + 1
  /\ UNCHANGED <<slotVars, live, fence, fenceLock, faults>>

\* install with no pending transaction: the gate, then begin_transaction, which
\* seals the snapshot and the descriptor before it publishes active.json.
BeginInstall ==
  /\ inst.mode = "off"
  /\ active = 0
  /\ Len(txns) < MaxInstall /\ MoreTrouble
  /\ \E to \in Gen \ {live["registry"]}, policy \in Policies, profile \in Profiles :
       /\ policy = "block" => Compatible(to)
       /\ txns' = Append(txns, [from |-> live["registry"], to |-> to, block |-> policy = "block",
                                gapFree |-> profile = "gap_free", stage |-> "none"])
       /\ inst' = [InstOff EXCEPT !.mode = "forward", !.id = Len(txns) + 1,
                                  !.todo = ForwardScript(to)]
  /\ active' = Len(txns) + 1
  /\ UNCHANGED <<slotVars, live, fence, fenceLock, faults>>

\* Transaction.append: durable, then known to the process.
AppendStage ==
  /\ At("append")
  /\ Appendable(inst.id, Head(Todo).arg)
  /\ Head(Todo).arg = "rolled_back" => ~inst.errors
  /\ txns' = [txns EXCEPT ![inst.id].stage = Head(Todo).arg]
  /\ inst' = [Pop EXCEPT !.stage = Head(Todo).arg]
  /\ UNCHANGED <<slotVars, live, active, fence, fenceLock, faults>>

WriteResource ==
  /\ At("write")
  /\ live' = [live EXCEPT ![Head(Todo).arg] = Head(Todo).gen]
  /\ inst' = Pop
  /\ UNCHANGED <<slotVars, txns, active, fence, fenceLock, faults>>

Verified(g) == \A res \in Resource : live[res] = g

VerifyResources ==
  /\ At("verify")
  /\ Verified(Head(Todo).gen)
  /\ inst' = Pop
  /\ UNCHANGED <<slotVars, live, txns, active, fence, fenceLock, faults>>

\* Under the fence lock: a blocking switch publishes its fence, unless one is
\* there already; the lock is kept for the re-check.
PublishFence ==
  /\ At("fence")
  /\ fenceLock = Nobody
  /\ txns[inst.id].block => fence = NoFence
  /\ fenceLock' = Installer
  /\ fence' = IF txns[inst.id].block THEN [id |-> inst.id, to |-> txns[inst.id].to] ELSE fence
  /\ inst' = [Pop EXCEPT !.seen = IF txns[inst.id].block THEN fence' ELSE NoFence]
  /\ UNCHANGED <<slotVars, live, txns, active, faults>>

\* Slip: the leases are not read again under the fence.
Recheck_Slip ==
  /\ At("recheck")
  /\ fenceLock' = Nobody
  /\ inst' = Pop
  /\ UNCHANGED <<slotVars, live, txns, active, fence, faults>>

Recheck ==
  /\ At("recheck")
  /\ txns[inst.id].block => Compatible(txns[inst.id].to)
  /\ fenceLock' = Nobody
  /\ inst' = Pop
  /\ UNCHANGED <<slotVars, live, txns, active, fence, faults>>

\* The journal is read back on its own; from here on a failed install is a
\* failed cleanup and nothing is undone (commit_verified).
Readback ==
  /\ At("readback")
  /\ txns[inst.id].stage \in Terminal
  /\ inst' = [Pop EXCEPT !.verified = TRUE]
  /\ UNCHANGED <<slotVars, live, txns, active, fence, fenceLock, faults>>

\* _clear_verified_generation_fence: compare and clear under the fence lock.
ClearFence ==
  /\ At("clear_fence")
  /\ \/ inst.seen = NoFence /\ UNCHANGED fence
     \/ inst.seen # NoFence /\ fenceLock = Nobody /\ fence = inst.seen /\ fence' = NoFence
  /\ inst' = IF Len(Todo) = 1 THEN InstOff ELSE Pop
  /\ UNCHANGED <<slotVars, live, txns, active, fenceLock, faults>>

ClearActive ==
  /\ At("clear_active")
  /\ txns[inst.id].stage \in Terminal
  /\ active' = 0
  /\ Off
  /\ UNCHANGED <<slotVars, live, txns, fence, fenceLock, faults>>
-----------------------------------------------------------------------------
(* Steps that fail. *)

\* The effect of a write that was cut short: nothing, all of it, or a resource
\* that is gone.  Files replaced in one rename are never half written, the
\* registry is left alone when it already shows the generation to restore, and
\* the last re-pin rewrites the same generation.
CutShort(res, g) ==
  {live[res], g}
    \cup (IF \/ (inst.mode = "forward" /\ res = "deployment")
             \/ (live[res] = g /\ (inst.mode = "forward" \/ res = "registry"))
          THEN {} ELSE {NoGen})

\* What the step at the head of the list may have done when it raised or died.
PartialEffect ==
  /\ live' \in IF At("write")
               THEN {[live EXCEPT ![Head(Todo).arg] = g] :
                       g \in CutShort(Head(Todo).arg, Head(Todo).gen)}
               ELSE {live}
  /\ txns' \in {txns}
       \cup (IF At("append") /\ Appendable(inst.id, Head(Todo).arg)
             THEN {[txns EXCEPT ![inst.id].stage = Head(Todo).arg]} ELSE {})
  /\ fence' \in {fence}
       \cup (IF At("fence") /\ fence = NoFence /\ txns[inst.id].block
             THEN {[id |-> inst.id, to |-> txns[inst.id].to]} ELSE {})
       \cup (IF At("clear_fence") /\ inst.seen # NoFence THEN {NoFence} ELSE {})
  /\ active' \in {active} \cup (IF At("clear_active") THEN {0} ELSE {})

\* Was the registry switched when the step at the head of the list failed?
Switched == AppendOf("registry_removed") \notin ToSet(Tail(Todo))

\* What the process does when the head of its list raises.
Handle ==
  /\ fenceLock' = IF fenceLock = Installer THEN Nobody ELSE fenceLock
  /\ CASE inst.mode = "forward" /\ ~inst.verified /\ txns[inst.id].gapFree ->
            inst' = [inst EXCEPT !.mode = "recover",
                                 !.todo = RecoveryScript(inst.id, inst.stage)]
       [] inst.mode = "forward" /\ ~inst.verified /\ ~txns[inst.id].gapFree ->
            inst' = [inst EXCEPT !.mode = "undo",
                                 !.todo = UndoScript(inst.id, inst.stage, Switched)]
       [] inst.mode = "undo" /\ Head(Todo) \in {AppendOf("rollback_started"),
                                               WriteOf("registry", txns[inst.id].from)} ->
            inst' = [Pop EXCEPT !.errors = TRUE]
       [] OTHER -> Off

\* A check in the code refuses the step.
StepRefused ==
  /\ \/ At("fence") /\ fenceLock = Nobody /\ txns[inst.id].block /\ fence # NoFence
     \/ At("recheck") /\ txns[inst.id].block /\ ~Compatible(txns[inst.id].to)
     \/ At("verify") /\ ~Verified(Head(Todo).gen)
     \/ At("append") /\ ~Appendable(inst.id, Head(Todo).arg)
     \/ At("append") /\ Head(Todo).arg = "rolled_back" /\ inst.errors
  /\ Handle
  /\ UNCHANGED <<slotVars, live, txns, active, fence, faults>>

\* The step raises: an I/O error, a contended lock, a failed command.
StepRaises ==
  /\ Todo # <<>>
  /\ faults < MaxFault /\ MoreTrouble
  /\ faults' = faults + 1
  /\ PartialEffect
  /\ Handle
  /\ UNCHANGED slotVars

\* The process dies: its locks are gone, what it wrote stays.
InstallerDies ==
  /\ Todo # <<>>
  /\ faults < MaxFault /\ MoreTrouble
  /\ faults' = faults + 1
  /\ PartialEffect
  /\ Off
  /\ fenceLock' = IF fenceLock = Installer THEN Nobody ELSE fenceLock
  /\ UNCHANGED slotVars

\* install with a pending transaction, or recover_only: the journal on disk
\* says where to go on, and the fence bound to it is the one to clear.
BeginRecovery ==
  /\ inst.mode = "off"
  /\ active # 0
  /\ inst' = [InstOff EXCEPT !.mode = "recover", !.id = active,
                             !.stage = txns[active].stage, !.seen = BoundFence(active),
                             !.todo = RecoveryScript(active, txns[active].stage)]
  /\ UNCHANGED <<slotVars, live, txns, active, fence, fenceLock, faults>>

\* Slip: only a committed switch is known to leave a fence behind.
BeginDetachedRecovery_Slip ==
  /\ inst.mode = "off"
  /\ active = 0
  /\ fence # NoFence
  /\ txns[fence.id].stage = "committed"
  /\ inst' = [InstOff EXCEPT !.mode = "recover", !.id = fence.id, !.stage = "committed",
                             !.seen = fence,
                             !.todo = <<VerifyOf(fence.to), StepOf("readback"), StepOf("clear_fence")>>]
  /\ UNCHANGED <<slotVars, live, txns, active, fence, fenceLock, faults>>

\* recover_only with no active transaction: a fence whose bound journal is
\* terminal and still describes the machine is cleared.
BeginDetachedRecovery ==
  /\ inst.mode = "off"
  /\ active = 0
  /\ fence # NoFence
  /\ txns[fence.id].stage \in Terminal
  /\ LET t == txns[fence.id]
     IN inst' = [InstOff EXCEPT !.mode = "recover", !.id = fence.id, !.stage = t.stage,
                                !.seen = fence,
                                !.todo = <<VerifyOf(IF t.stage = "committed" THEN t.to ELSE t.from),
                                           StepOf("readback"), StepOf("clear_fence")>>]
  /\ UNCHANGED <<slotVars, live, txns, active, fence, fenceLock, faults>>

-----------------------------------------------------------------------------

RunStep == \E r \in Run :
  StartRun(r) \/ Admit(r) \/ Turned(r) \/ EndAdmission(r) \/ EndRun(r) \/ RunDies(r)

InstallerStep ==
  \/ AppendStage \/ WriteResource \/ VerifyResources \/ PublishFence \/ Recheck
  \/ Readback \/ ClearFence \/ ClearActive \/ StepRefused

Next ==
  \/ RunStep
  \/ BeginInstall \/ InstallerStep \/ StepRaises \/ InstallerDies
  \/ BeginRecovery \/ BeginDetachedRecovery

\* A process that is alive goes on; an admission section is short; and whoever
\* finds an unfinished transaction runs the installer again.
Fairness ==
  /\ WF_vars(InstallerStep)
  /\ WF_vars(BeginRecovery)
  /\ WF_vars(BeginDetachedRecovery)
  /\ \A r \in Run : WF_vars(EndAdmission(r))

Spec == Init /\ [][Next]_vars /\ Fairness
-----------------------------------------------------------------------------
(* Properties. *)

\* The open transaction has changed no resource before its journal said it
\* would, and a journal that says verified or committed has the new generation
\* under it.
JournalLeads ==
  active # 0 =>
    LET t == txns[active]
        Started(s) == StageRank(t.stage) >= StageRank(s)
    IN /\ live["registry"] # t.from => Started("registry_remove_started")
       /\ live["launcher"] # t.from => Started("launcher_publish_started")
       /\ live["deployment"] # t.from => Started("deployment_publish_started")
       /\ live["scheduler"] # t.from => Started("scheduler_reconcile_started")
       /\ t.stage \in {"postconditions_verified", "committed"} => Verified(t.to)

\* The legacy handler is undoing a generation, and its journal does not say so.
UndoesUnjournaled == inst.mode = "undo" /\ txns[inst.id].stage # "rollback_started"

\* The journal leads what is live: whatever is changed or cut short by whichever
\* failure, recovery or death, a later process that finds only the journal knows
\* what to put back or to confirm.  One path of the code loses that: a legacy
\* handler that goes on although it could not record rollback_started, or whose
\* "committed" did not read back (install_codex_plugin.py:5797-5848).  A gap-free
\* install never does, since its handler is the recovery.
JournalLeadsLive == [][JournalLeads => JournalLeads' \/ UndoesUnjournaled]_vars

\* A blocking switch that is under way, or has left the new generation on any
\* resource, has no run of another generation admitted through the fence beside
\* it, until its fence is cleared: also not while it is being undone
\* (generation_fence.py:1-21, install_codex_plugin.py:5417-5471).
SwitchExcludesOldRuns ==
  fence # NoFence /\ fence.id = active =>
    LET t == txns[active]
        underWay == StageRank(t.stage) \in StageRank("registry_remove_started")..StageRank("committed")
    IN (underWay \/ \E res \in Resource : live[res] = t.to)
         => \A r \in FencedRun \cap Running : runGen[r] = fence.to

\* A fence never outlives the evidence that can clear it: its transaction owns
\* recovery, or its journal is terminal (install_codex_plugin.py:4642-4690).
FenceHasAuthority ==
  fence # NoFence => fence.id = active \/ txns[fence.id].stage \in Terminal

\* Can recovery confirm what the journal of the open transaction says, and is no
\* handler of a legacy install still at work that may spoil it?
Recoverable ==
  LET t == txns[active]
  IN \/ t.gapFree
     \/ /\ inst.mode \in {"off", "recover"}
        /\ t.stage \in {"postconditions_verified", "committed"} => Verified(t.to)

\* A gap-free transaction that owns recovery ends, however often the installer
\* raised or died on the way; so does a legacy one, once its process is gone and
\* unless it left a verified journal over a generation it had undone
\* (install_codex_plugin.py:5060-5203, 5797-5848).
EveryTransactionEnds == (active # 0 /\ Recoverable) ~> active = 0

\* The fence of such a transaction, or of one that is over, does not refuse runs
\* for ever, as long as no later install went past it (an observing install
\* leaves a foreign fence alone).
EveryFenceCleared ==
  (fence # NoFence /\ fence.id = Len(txns) /\ (active # 0 => Recoverable))
    ~> (fence = NoFence \/ fence.id # Len(txns))

\* The claim of R3-REPORT.md:51, that commit, rollback and recover_only all clear
\* the fence, so admission resumes and never locks itself out: no fence stands
\* for ever.
FenceNeverSticks == fence # NoFence ~> fence = NoFence

\* Whatever raises or dies, the installer, its journal and its recovery
\* implement AtomicSwitch: once no transaction owns recovery every resource is
\* of one generation, the old or the target (install_codex_plugin.py:5205-5905,
\* 5060-5203).
Abstract == INSTANCE AtomicSwitch
  WITH serving <- IF active = 0 THEN live ELSE [res \in Resource |-> txns[active].from],
       open    <- IF active = 0 THEN NoGen ELSE txns[active].to
SwitchIsAtomic == Abstract!Spec

\* The claim of generation_fence.py:6-8: once the installer has re-checked, no
\* run publishes a lease of the generation the switch supersedes.
Superseded(g) ==
  \E t \in DOMAIN txns :
    txns[t].block /\ txns[t].stage = "committed" /\ txns[t].from = g /\ live["deployment"] # g
NoSupersededLease ==
  [][\A r \in FencedRun : pc[r] = "created" /\ pc'[r] = "running" => ~Superseded(runGen[r])]_vars
==============================================================================
