# Guardian and workspace supervisor: a TLA+ verification project

This directory specifies and verifies the control core of `sulde`: the typed
event reducer that decides what may happen to a task, its approvals, its
external effects and its supervisor; the SQLite-backed single writer that
makes those decisions durable; the installer that switches the runtime
generation beside managed runs; the one-shot grants under which a human lets
a host call act; and the log of external effects whose outcome may be unknown.

## 1. Inventory of the system

`src/` is a host plugin with about two thousand files. Most of them are
generated packages, fixtures, knowledge text and reports. The program's own
logic is Python under `scripts/kb/` and the installer under `scripts/release/`.

| Component | State it keeps | Operations | What makes it correct | Here |
|---|---|---|---|---|
| Guardian reducer (`sulde_state_machine/reducer.py`) | none: a pure function on `GuardianState` | `transition`, `replay` | never a state outside its enums, one terminal event per task, no success over an unverified attempt, unknown effects never retried blindly, generations never mixed | modelled, partly proved |
| Event protocol (`sulde_protocol/`) | none | `EventSubmission`, `EventEnvelope`, `to_envelope` | the writer, not the producer, fixes sequence and head; ids identify content and place | modelled as records |
| Workspace supervisor store (`sulde_supervisor/store.py`) | SQLite tables meta, projection, inbox, ledger | `initialize`, `submit`, `drain`, `audit` | exactly once, in order, all or nothing, bounded inbox, singular generation switch | modelled, partly proved |
| Projection codec (`sulde_supervisor/codec.py`) | none | `state_to_dict`, `state_from_dict` | accepts everything the reducer can produce | its relational checks modelled |
| Run slots (`run_concurrency.py`) | lease files with OS locks, `.guard.lock` | acquire, release, prune, list | never more live runs than slots, a dead run's slot comes back, a live one's is never taken | modelled, proved |
| Generation fence (`generation_fence.py`, installer, `agent-runtime.py`) | fence file, `fence_lock` | write, clear, admit, refuse | no run of a replaced generation is admitted during a blocking switch; a fence never outlives what can clear it | modelled, safety proved |
| Human grants (`grant_broker.py`, `human_grant.py`, `decision_kernel.py`, the guardian's hooks) | grant ledger, hooks and callbacks in flight | ask, show, decide, consume, claim, record, settle | no call acts but under a card a human allowed, each card is spent at most once, settlements are true | modelled but for control routes and the unused `replace_transaction`; proved |
| Task ownership (`task_ownership.py`) | task lanes, critic claims with lifetimes | acquire, renew, claim, release | one owner per lane; a claim is taken over only after it lapsed | planned |
| Intervention effects (`intervention.py`, the guardian's hooks) | effect log per contract, mirrored in the contract's `open_events` and `pending_verifications` | dispatch, complete, rebind, read, decide, review, end a turn, reconcile | one unsettled owner per resource; an unknown outcome is settled or taken over, never forgotten; a retry and an accepted risk are granted once | modelled; batches and old schemas left out |
| Supervisor state (`supervisor_state.py`) | hash-chained JSONL journal | append with compare and swap on the head | the chain never forks | planned |
| Projection cutover (`sulde_projection/`) | none; reads the legacy files | fingerprint, read, fingerprint, initialise | no torn read of the legacy files becomes an initial state | planned |
| Effect router, config layers, decision kernel | none | pure decisions | a narrower layer never widens permissions; reference decision tables | planned as operators |
| Installer (`scripts/release/`) | transaction journal, `active.json`, snapshot, four live resources | stage, switch, undo, recover | a crash at any step leaves a journal from which the old or the new generation is completed | transaction modelled, safety proved |
| Dispatch registry, audit cursor | registry files, cursor files | register, renew, collect; advance | nothing collected twice, nothing skipped | planned |
| Intent guardian (`intent_guardian_parts/`) | the contract: intent, lanes, open and pending events, grants | the hooks before and after a host call, the end of a turn, the reconciler | what the hooks do is what the ledgers say | modelled where it meets grants and effects |
| Event observation, native journals, recovery lanes, memory pipeline, heartbeat, index | various | various | various | not modelled, see section 9 |

`PROJECT.json` lists every component with its sources and the reason when it
is left out.

**How they interact.** Hooks and runtimes produce `EventSubmission`s and call
`submit`. `submit` opens one `BEGIN IMMEDIATE` transaction, compares the
submission with the projection and the meta row and writes a permanent receipt:
`queued` or `rejected`. A writer calls `drain` with the generation it believes
active. `drain` turns the first rows of the inbox into envelopes, runs the
reducer over each, and commits ledger, projection, receipts and generation
switch together. `audit` replays the ledger through the same reducer and
compares. The codec stands between the projection row and the reducer at every
one of these calls.

An installer that switches the generation and the managed runs that start beside
it share the lease directory, the fence file and the fence lock. A host call's
pre-tool hook, the human's callbacks and the completion callback are separate
processes that share the grant ledger under a file lock, one append at a time.

The same hooks write the effect log: a row when a call is released, more when it
completes, is read back or decided on. Which calls are open and which effects
await verification is also kept in two lists of the contract, under the
contract's lock. The log has a lock of its own. A reconciler probes external
state without the contract's lock and takes it only to apply what it found.

**What is hard about it.** Several processes share one database; any of them
may die between two statements; an answer may be lost after the commit, and the
producer then submits again; a generation switch arrives while producers of two
generations go on submitting; a switch may be refused by the reducer after it
was accepted into the inbox; the audit reads five times without a transaction; an installer may die between
any two of some twenty-five steps, again while it recovers, and runs are admitted
meanwhile; hooks of several calls race for one card while the clock passes its
expiry; the effect log and the contract are two files that no crash leaves in
step, and a row that replay refuses makes the whole log unreadable;
long chains of individually legal events lead to states nobody wrote a test
for. `PROJECT.json` lists these hazards with the line each bites at and the
properties that would catch it.

## 2. Modules

| Module | Role |
|---|---|
| `GuardianReducer` | the reducer as operators: per domain `XSources`, `XTarget`, `XAccepts`, `XApply`, then `Accepts`, `Apply`, `Replay`, `Decodable` |
| `GuardianHistory` | every chain of events the reducer accepts; properties over the chain |
| `WorkspaceSupervisor` | the store: committed tables, one open transaction, crashes, lost answers |
| `OrderedExactlyOnce` | abstract: what the store promises a producer |
| `RunSlots` | run slots: guard lock, leases with OS locks, dead holders |
| `GenerationSwitch` | the installer's transaction with journal, fence and recovery, beside the runs of `RunSlots` |
| `AtomicSwitch` | abstract: a switch either happens or does not |
| `GrantBroker` | the grant ledger: what each operation answers and appends |
| `GrantFlow` | hooks, callbacks, clock and world around the ledger |
| `OneShotGrant` | abstract: what a grant promises |
| `EffectRows` | the effect log: its rows, what replay makes of them, what blocks a resource |
| `EffectLog` | the operations on the log and the contract's two lists, with crashes and the reconciler |
| `SupervisorAudit` | `audit()` interleaved SELECT by SELECT with the store |
| `MCGuardianHistory`, `MCWorkspaceSupervisor`, `MCSupervisorAudit`, `MCGenerationSwitch`, `MCGrantFlow`, `MCEffectLog` | event alphabets, initial states and small sets for TLC |
| `GuardianReducer_proofs` | lemmas about the reducer's operators |
| `GuardianHistory_proofs` | theorems about chains of any length |
| `RunSlots_proofs` | the quota, for any processes and deaths |
| `GenerationSwitch_proofs` | theorems about installing a generation beside the runs |
| `GrantFlow_proofs` | lemmas about the ledger's operations, theorems about grants |
| `EffectLog_proofs` | replay row by row, lists of rows cut short anywhere, and theorems about effects |
| `WorkspaceSupervisor_proofs` | theorems about the store, for any submissions and writers |
| `SupervisorAudit_proofs` | an audit of a store that stands still is clean |

`GuardianHistory` and `WorkspaceSupervisor` both extend `GuardianReducer`;
`SupervisorAudit` extends `WorkspaceSupervisor`; `WorkspaceSupervisor`
instantiates `OrderedExactlyOnce` under a refinement mapping.
`GenerationSwitch` extends `RunSlots`: every step of a run is a step of
`RunSlots`, conjoined with what the fence does, and it instantiates
`AtomicSwitch`. `GrantFlow` extends `GrantBroker`, whose `Transact` is the only
way it touches the ledger, and instantiates `OneShotGrant`. `EffectLog` extends
`EffectRows`, whose `replay` is the only way the log changes.

Definitions whose name contains `_Slip` are wrong variants of the definition
that follows them, used to confirm that a property notices the corresponding
mistake. No specification uses them.

## 3. How model and code correspond

**Reducer.** `Accepts(s, e)` is true exactly when `transition` raises no
`TransitionError` and is no idempotent repetition; `Apply(s, e)` is the
returned state. The order of the code's checks decides only which message is
raised, so `Accepts` is their conjunction. The reducer's per-domain tables are
kept as `CASE` operators over the code's event type strings. A state field
holding `None` or the empty identifier is `""`, or `NoEvent` for event ids. The
event id is a hash of sequence, predecessor and content; within one chain two
events share it exactly when they share sequence and content, so it is
modelled as that pair. `marker` stands for everything else the hash covers
(actor, time, payload) and lets two otherwise equal submissions differ.

**Store.** `db` holds the committed tables; `work` is what the transaction
holding SQLite's write lock sees; `txn` is that transaction; `told` are the
receipts that reached a caller. A row's ordinal and a ledger row's sequence are
their positions. `submit` is one of `Resubmit`, `SubmitRejected`, `SubmitQueued`
followed by `Commit` or `Rollback`. `drain` is `DrainBegin`, one `DrainRow` per row of the batch,
then `Commit` or `Rollback`. Every exception inside the transaction, a busy
commit and the death of the process are `Rollback`. `Commit(FALSE)` is a commit
whose answer never arrives. Refusals before the transaction opens and
`SupervisorBusy`, `StaleGeneration` and `InboxFull` change nothing and are not
steps. The strings of `reason` are the code's; the text a reducer error adds to
`transition_rejected` is left out. `QueuedBytes` is the sum the code computes over queued
rows.

**Audit.** Connections are opened in autocommit mode and `audit` opens no
transaction, so each SELECT sees what is committed when it runs.
`SupervisorAudit` has one step per SELECT with the comparisons that follow it.

**Runs and slots.** A process is `waiting` when it has read its generation,
`created` when its lease file exists but is neither written nor locked, and
`running` once `acquire_run_slot` returned. The guard is held from the one to the
other, so acquiring is two steps; `release` is one. A lease is the process and
its attempt (in the code, pid and time), and `locked` are the leases whose OS lock
is held: a crash empties it and leaves `leases`. The second count in
`acquire_run_slot` is not modelled; `QuotaHeld` shows it is redundant.

**Generation switch.** The installer is a list of steps to do (`inst.todo`): append a stage,
write a resource, publish the fence, re-check, verify, read back, clear.
`ForwardScript`, `RecoveryScript` and `UndoScript` are the three orders the code has:
`_install_locked`, `_recover_transaction` and the handler of a legacy install (a
gap-free install's handler calls `_recover_transaction`). The head of the list is
taken (`InstallerStep`), refused by a check of the code (`StepRefused`), raises
(`StepRaises`) or is cut off by the death of the process (`InstallerDies`); in the
last two what it did is nothing, all or, for a write that is not one rename, half
(`CutShort`). `inst.stage` is the last stage the process knows of, which differs from the
journal when an append was durable and raised. Resources are `registry`,
`launcher`, `deployment` and `scheduler`, in the order they are written; launcher
includes the files and aliases that are restored with it. A fence found while
publishing makes the install fail; observing installs publish none and leave a
foreign one alone. A run without the fence (another provider's) takes a slot only.
The legacy handler is modelled with what goes wrong in it: when the append of
`rollback_started` fails, or `committed` was written and did not read back, it undoes
everything all the same (`install_codex_plugin.py:5797-5848`), and after a noted error
it withholds `rolled_back`. The journal may then say `postconditions_verified` or
`committed` over the old generation, which no recovery can confirm. `UndoesUnjournaled`
names these steps, `Recoverable` the transactions they have not spoiled and cannot spoil
any more; `JournalLeadsLive`, `EveryTransactionEnds` and `EveryFenceCleared` say what holds
around them, and `SwitchUnwindFinding` what does not.

**Grants.** A card is its exact action, the world (contract revision, policy,
material sequence) and the time of its request, because `transaction_id` digests
the spec. `GrantBroker` says what each operation answers and the record it
leaves; `Transact` is one locked operation, which appends nothing, appends, or fails with nothing, part of
a row or the whole row written. `GrantFlow` has a process per host call: the pre-tool hook of
`process_hook` (scan, consume, claim, observe, or judge, match, create, publish, each ledger operation a step), then the completion
(mark the attempt, record the effect, the verification, settle). The human's
answers are callbacks that may be late or lost. The calls are external writes the ordinary
policy denies; what the policy thinks of them without a grant is therefore one
outcome. A local write's card names a verifier its receipt never has, so it never settles; those
are left out.

**Effects.** The code keeps rows; the model keeps what replaying them yields: the attempts in
order of creation, the cards in order of opening, and whether replay succeeds. An
attempt's number stands for its idempotency key. `Fits` is what `_apply_event` does not raise on,
`Applied` what it then changes. `_mutate` appends and syncs before it replays, so
a refused row makes the log `Unreadable` and the handler raise. An operation is its
typed resource and the content a read can prove; equal operations have one
fingerprint. A handler holds the contract's lock from load to save, so it is one
step, `Handle`: all of it (`mutate`), cut off after any of its rows
or between log and contract (`CutShort`), or in the middle of a row (`Torn`).
`finalize_lane` writes attempt by attempt in the code; here it is one write in the order of the
attempts, and a crash after any row covers the crashes between them. The reconciler loads the pending list (`StartReconcile`), probes
(`Probe`), computes what has settled (`SettleReconcile`) and takes the lock to
drop it (`ApplyReconcile`); hooks run in between. A card that was acknowledged
counts as open.

A human may accept the risk of a conflict for one call. `AllowRisk` is the card of
`prepare_effect_risk_grant`, asked and allowed: `reviews` keeps for whom, for which
operation, and the debts it showed, which are all unresolved effects and what was decided on them
(`effect_risk_review_context`). The call that uses it names it in its row, and
`RiskFits` is `_validate_risk_grant_link`, which `begin_attempt` evaluates before it writes the row and
`_apply_event` again at every replay: the debts are as they were shown, and no
attempt names the card yet. The debts then join what the call may meet (`Permitted`).
Which of the code's calls can be reviewed (one literal `mkdir -p` over SSH) is the constant
`RiskReviewed`. Between Allow and use lies the grant flow of `GrantFlow`, which is not
joined here: an allowed card may be used at any later time, so every delay and drift is
covered, and a card whose holder died stays usable, which is more than the code permits. `begin_attempt` also
spares debts of figma from blocking; `blocking_attempts` does not hold any.

## 4. What the runs show

| Run | Instance | Shows |
|---|---|---|
| `History` | chains of up to 10 events of 17 task, effect and intervention types, 2 attempts, 2 interventions; chains of up to 6 approval and supervisor events, 2 requests, 3 generations, stray events | `TypeOK`, `StateDecodable`, `OneTerminal`, `SuccessIsVerified`, `UnknownNotRetried`, `DispatchSpendsPreparation`, `InterventionAnswersUnknown`, `ApprovalSettledOnce`, `GenerationsNotMixed` |
| `Store` | two stores: in one 4 submissions of a task, answers delivered or lost; in the other a stop, an activation and work of both generations, with an audit beside them; two writers, an inbox of 2 rows and 3 bytes, batches of 1 or 2 | `TypeOK`, `LedgerReplays`, `AppliedIsLedger`, `NothingOvertakes`, `InboxBounded`, `ToldIsDurable`, `SwitchIsSingular`, `SwitchNotBatched`, `QuietStoreAuditsClean`, `HistoryIsFinal`, and `KeepsPromise`: the store implements `OrderedExactlyOnce` |
| `StoreLive` | a switch and light work that crowds the inbox, in a free and in a context-bound store, with fairness | `QueuedIsSettled`, `SwitchIsDecided`, `BoundContextPinsGeneration` |
| `AuditTorn` | the store of `Store` that switches, one writer | a finding (section 6) |
| `Switch` | 2 generations, 2 installs of either policy and profile, at most 2 installer faults and 3 troubles in all, a fenced and an unfenced run, 1 slot | `SwitchTypeOK`, `QuotaHeld`, `JournalLeadsLive`, `SwitchExcludesOldRuns`, `FenceHasAuthority`, `EveryTransactionEnds`, `EveryFenceCleared` (the last two for transactions recovery can still confirm), and `SwitchIsAtomic`: the switch implements `AtomicSwitch` |
| `SwitchFenceFinding` | as `Switch`, no faults | a finding (section 6) |
| `SwitchUnwindFinding` | as `Switch`, one blocking legacy install, no dead runs | a finding (section 6) |
| `Grants` | 3 alike calls of one action, expiry after 1 tick, 1 drift besides those the calls cause, 1 fault | `GrantTypeOK`, `HumanAllowedEffect`, `SettlementTellsTruth`, and `GrantIsOneShot`: the flow implements `OneShotGrant` |
| `GrantStaleFinding`, `GrantWedgeFinding` | as `Grants`; the second has a longer clock and no fault | findings (section 6) |
| `Effects` | 2 sessions, a resource a read can prove and one nothing can, at most 3 attempts, rebinds, reprobe rounds, reconciler passes and deaths in all, 1 risk card for the second resource | `EffectTypeOK`, `OneOwnerPerResource`, `DebtHasHeir`, `OneShotAuthority`, `TurnEndAsks` |
| `EffectsReadableFinding` | as `Effects`, 2 of them, no risk card and no deaths | a finding (section 6) |

**Why the bounds are enough.** Ten events are enough for a chain that
brings a task from creation through an unknown effect, an intervention, an
abort and a second, verified attempt to a terminal result; every rule of the
effect and intervention tables fires on the way and two attempts and two
interventions are what distinguishes *this* attempt from *another*. Six
approval events cover asking, reassessing, settling and asking again with
another request; three generations cover a switch after a switch. In the store
two queued rows are the least that can be reordered, batched or split by a
crash; four submissions fill an inbox of two and go on after it drained. A heavy
submission of the task meets the byte bound while there is room for its row; the
light ones of `StoreLive` meet the row bound while there is room for their bytes. Two writers matter only where a writer's id is looked at.
`OwnStory` keeps the two stores of `Store` to what each is there for: each hears its own
submissions, the audit reads the store that switches, and the receipts callers hold are followed
in the other.

In `Switch` a second fault hits the recovery from the first, and a second install
starts from what the first one and its recovery left; `MaxTrouble` lets any three
of installs, faults and dead runs combine. Two generations suffice because an
install only tells its target from the rest. One slot makes a stale
lease of a dead run block everybody until it is pruned. In `Grants` two of
the three calls can race for the card a third one asked for; one tick takes
a card from good to expired; one fault is a failed append, a dead hook or a lost
callback at any step. In `Effects` the bound is on what makes a history longer;
completions, reads, decisions and ends of turns are free. Three are an
attempt, its retry or compensation and a death or a reconciler pass between them; a rebind and two
attempts; or an attempt that is reprobed twice. With a risk
card they are an attempt with an unknown outcome, one released past it, and a third that
needs a retry, a compensation or the same card again. `OwnStory` keeps a history in which a risk was
accepted to the resource the card is about, because every unresolved effect is on
the card, of whatever resource.

The runs of the switch, of the grants and of the effects stop when their runs, installs, calls, clock and attempts are at their bounds, so they do not check deadlock.
The histories stop at `MaxEvents` (`MaxLife` for the approval and supervisor alphabet) and may reach states that accept none of the
alphabet, so those configurations switch deadlock checking off. The store's
runs keep it on.

## 5. Fairness

`FairSpec` assumes:

* strong fairness of *some* writer's `Drain`: SQLite's busy timeout lets a
  writer that keeps asking obtain the lock although producers take it in
  between, and writers read the active generation from the store, so one that
  asks for it exists. Weak fairness would not do, because every submit disables
  `Drain` for a moment.
* weak fairness of `DrainRow` and `Commit`: a live process runs its transaction
  to the end.
* rollbacks that undo something cease eventually: neither process deaths nor lock
  failures recur for ever. Without this no database makes progress.

`GenerationSwitch!Spec` assumes weak fairness of:

* `InstallerStep`: an installer that is alive goes on with its list;
* `BeginRecovery` and `BeginDetachedRecovery`: whoever finds an unfinished
  transaction or a fence reruns the installer. The code asks for it (every
  error says to run `--recover-only`) and an install recovers by itself;
* `EndAdmission`: an admission section, milliseconds under two locks, ends.

Faults are bounded, and nothing makes runs start or installs begin. Both liveness
properties begin where the transaction is `Recoverable`: a gap-free install's is whenever it is active, a
legacy one's once its own process is gone and unless it left a verified journal over a
generation it had undone. Without this condition both are false, as
`FenceNeverSticks` is in `SwitchUnwindFinding`. `EveryFenceCleared` is
about fences no later install has gone past: an observing install that
begins while an orphan fence stands leaves it, and once that fence's transaction is
no longer the last generation on the machine its postconditions no longer hold.

In the store, nothing makes a producer submit or stops it from retrying for ever, so neither liveness property depends on new
work arriving.

## 6. Disagreements found

1. `AuditTorn`: the audit reports `StoreCorruption` on a healthy store if a
   transaction commits between two of its SELECTs. `QuietStoreAuditsClean` shows
   that this is the only way it can.
2. `SwitchFenceFinding`: the header of `generation_fence.py` says a run started
   before a switch can never publish a lease of the superseded generation after
   the installer's re-check. A run reads its generation when it starts; if it
   comes to admission after the fence was cleared, nothing compares that
   generation with the one now installed. `SwitchExcludesOldRuns` shows what does
   hold: not while the fence stands.
3. `SwitchUnwindFinding`: the report of the fence says commit, rollback and
   `recover_only` all clear it, so admission never locks itself out. When
   `postconditions_verified` became durable in an append that raised, and the append of
   `rollback_started` raises too, a legacy handler goes on undoing and leaves a verified journal over
   the old generation. Recovery then verifies the new one, fails, and
   does so every time; `active.json` and the fence stay. Two faults suffice.
4. `GrantStaleFinding`: an expired card, or one of a world that has drifted, still grants authority if a hook had
   consumed it and was slow or died before it claimed the dispatch: `already_consumed` is
   answered and accepted without looking at the time or the world, and `claim_dispatch` does not look either.
5. `GrantWedgeFinding`: an allow that expires unspent is never settled. It
   stays a candidate, and from then on the fresh allow for the same action makes two
   of them, of which `claim_human_grant` takes none: the human's Allow does nothing.
6. `EffectsReadableFinding`: the reconciler calls effect transitions compare-and-swap
   operations of the log. They are not: rows are synced before they are replayed, and the end of
   a turn asks for a move to `unknown` from whatever state an attempt is in. When a
   probe has just verified an attempt that the contract still lists as pending, that
   row is refused, and every later load of the log raises. No crash is needed.

One more needs no run to be seen: the reducer's report (`G1-typed-event-reducer.md:43`) says
success stays forbidden after an abort, but `reducer.py:229-232` prepares a new
attempt after one and `reducer.py:177-181` looks at the latest attempt only. What holds, and is
proved, is `SuccessIsVerified`.

## 7. What is proved

The theorems hold for all values of the constants, for histories of any length.
They use only the named assumptions of the modules: `IdAssumption` (`""` is no
identifier), `HistoryAssumption` (the alphabet consists of submissions and the
initial state is one `initial_state` returns),
and `StoreAssumption` (submissions are well formed, bounds and limits are
positive, initial states are as `initialize` makes them), `QuotaAssumption`, `RunAssumption`
and `BoundAssumption` (a finite set of processes, a positive quota), `FencedAssumption`,
`PolicyAssumption`, `GenAssumption` and `SwitchBoundAssumption` of the switch (the
installer is no run, `NoGen` no generation, bounds are numbers), and of the grants
`ActionAssumption`, `TimeAssumption`, `LifeAssumption`, `MaxFaultAssumption` and
`NoCallAssumption` (each call has an action, a life and the clock are numbers, no
call is the absent one), and of the effects `OperationsAreTyped` and `EffectBounds` (an
operation is a resource and a content, the bounds are numbers), and `RiskReviewedOperations`
(what can be reviewed are operations).

* `GuardianReducer_proofs` proves per domain that its handler keeps the type
  and the pairing of a state with its identifier (`XType`, `XIdentified`), that
  exactly one domain handles an event (`OneDomain`), and from these the facts
  about `Apply` the theorems cite: `ApplyType`, `ApplyDecodable`,
  `ApplyTerminal`, `ApplyGeneration`.
* `TypeCorrect`: `Spec => []TypeOK`. Inductive as it stands, by `ApplyType`.
* `AlwaysDecodable`: `Spec => []StateDecodable`. Inductive with `TypeOK`; each
  domain keeps its own equivalence and touches no other's.
* `TerminalOnce`: `Spec => []OneTerminal`. `OneTerminal` is inductive because it
  also says the state names the terminal event: a second terminal event needs
  `terminal_event_id = NoEvent`, which no envelope's id is.
* The other properties of a chain compare pairs of positions, and the reducer sees
  only the state. `Mirrored` ties the two: for each domain the state names
  what the last event of that domain in the chain was (`EffectMirrored`,
  `DispatchMirrored`, `VerifiedWasDispatched`, `UnknownMirrored`, `ApprovalMirrored`, `InterventionMirrored`,
  `GenerationMirrored`, one step lemma each). From `AlwaysMirrored` follow
  `SuccessVerified`, `UnknownSettledFirst`, `DispatchPrepared`, `ApprovalOnce`,
  `InterventionAnswers` and `GenerationFenced`: the new event is the only one to look
  at, and what its handler asks of the state the mirror says of the chain.
* `WorkspaceSupervisor_proofs` proves the properties of the store. Six rest on one
  inductive invariant, `IInv`. What a reader sees is `db`, but `db` becomes
  `work` at a commit, so a statement about `db` alone is not inductive: the open
  transaction must be kept sound row by row. `IInv` says that `db` and `work` are
  each `Sound` (typed, `AppliedOnce`, `SwitchAlone`, and `MetaAgrees`: meta row and
  projection name the same generation and context); that `work` `Extends` `db`
  (rows are added or settled, nothing is rewritten); that the tables `Hold` the receipts
  given and to be given; and that a drain has no more rows left than are queued.
  Each operation has a lemma that it keeps `Sound` (`InsertQueuedSound`,
  `RejectRowSound`, `ApplyRowSound`, `NextEpochSound`), each action one that it
  keeps `IInv` (`ResubmitKeeps` to `RollbackKeeps`). The facts about the reducer
  come from `ApplyType` and `ApplyGeneration`.
* From `IInv`: `StoreTypeCorrect` (`TypeOK`), `ExactlyOnce` (`AppliedIsLedger`),
  `SwitchSingular` (`SwitchIsSingular`), `ContextPinned`
  (`BoundContextPinsGeneration`), `ToldStaysTrue` (`ToldIsDurable`) and, over steps,
  `HistoryFinal` (`HistoryIsFinal`): a step that changes `db` is a commit, and
  `work` extends `db`.
* `OInv` strengthens `IInv` by `Kept`, again of `db` and of `work` (`OrderlyInductive`).
  `Replays`: the recursive function that defines `Replay` accepts every ledger row and
  ends in the projection; an applied row adds one step to it. `Dated`: a waiting
  row has epoch 0, a settled one an epoch up to the present one, an applied
  one an event id up to the present sequence. `InOrder`, `SwitchesApart` and
  `OneWriterEach` are the properties themselves, over positions. They are
  inductive because a drain settles the first row that waits, and because of `InBatch`:
  what the open drain's epoch has written so far is of its writer
  and, while rows are left, of one generation. `InBounds`
  carries the sum of the waiting rows' bytes. `LedgerAlwaysReplays`, `OrderKept`,
  `EpochsUnmixed` and `InboxStaysBounded` follow.
* Recursive functions are reasoned about as the choice they stand for: a
  function satisfying the recursion exists (`ReplayExists`, `BytesExist`,
  `WaitingExists`, `AddedExists`), so the chosen one does, and two that agree below
  agree above (`ReplayAgrees`, `BytesAgree`, `WaitingAgree`). The induction is over
  the set of numbers for which the claim holds (`SetInduction`), which needs no
  theorem with an operator parameter.
* `PromiseImplemented`: the store implements `OrderedExactlyOnce`. The abstract queue is
  `Waiting(db)`. `PInv` says what a commit would do: an open submit has left the
  committed tables alone or answered one new submission (`Answered`), an open drain has
  settled the first `n` of the committed queue and put the applied ones of them on
  the log in that order (`Progress`; `WaitingSettled` and `ProgressStep` for one row
  more). So a committed drain is one abstract `Settle`, and every step that does
  not commit stutters.
* `SupervisorAudit_proofs`: the audit reads at several moments, and the property compares
  the meta row of the first with the tables of now. It would be empty if a store could
  come back to tables it had left, because what was read in between might have been others. `Age`, the
  writer epoch plus the rows of the inbox, excludes it: a submit adds a row or changes nothing, a drain
  begins an epoch, so what is replaced is `Older` than what commits (`CommitAges`). `SInv` is `OInv` with
  that and a readable projection. `AuditInv` says that what the audit holds is at most as
  young as the store and, if it is the same store, is what is in it now. Then each
  comparison holds: by `Replays` and `MetaAgrees` the replay, by a bijection between
  ledger rows and applied rows the count (`AppliedCount`), by `InBounds` the bounds and by `SwitchAlone` the
  pending switch. `QuietAuditIsClean` follows.
* `RunSlots_proofs`: `SlotInv` says that the locked files are exactly those of the
  running processes, that the guard is held exactly in the section between creating a file and
  publishing it, and that there are never more files than slots. The quota
  follows because runs map one to one into locked files; `QuotaAlwaysHeld` is for any finite set
  of processes. Counting uses the library's facts about finite sets.
* `GrantFlow_proofs`: each operation of the ledger either leaves a record
  or moves it along one of the edges `RecordMoves` names, and `Keeps` its
  receipts. `FlowInv` adds what each hook knows of the card it goes on with
  (`HookSound`: the card is about its own action and, once given, stays its own) and whose
  receipt a record carries (`ReceiptSound`). `GrantTypeCorrect`, `HumanAllowed` and
  `SettlementTruth` follow. `OneShotImplemented` maps every step to a step of
  `OneShotGrant` or a stutter, card by card. The refinement speaks of the cards in `CardSpace`,
  whose worlds go up to `MaxWorld` and one per call (`Drift` stops there and a call changes the
  world at most once); the other three theorems speak of every card.
* `GenerationSwitch_proofs`: the installer is a list, so the invariant says which lists there
  are. `Plan` orders any two of its steps (`After`): what verifies comes before what
  records that it verified, nothing but the verified generation is written after it, and
  what closes the transaction comes last. The scripts the code starts are plans
  (`ForwardIsPlan`, `RollbackIsPlan`, `RecoveryIs`, `UndoIs`), and a plan whose first step is done is one
  (`PlanGoesOn`). `SwitchInv` adds what holds at the points a list can be at:
  once nothing is left to verify the resources are `Settled` in one generation, before the re-check
  nothing was switched, a forward install believes what the journal says, a fence is
  bound to a blocking transaction that owns recovery or is terminal. Every failing step is
  `FailedStep`, what it may leave behind, then `Handled`.
  `SwitchTypeCorrect`, `FenceAlwaysOwned` and `SwitchImplementsAtomic` follow; each step of a run is a
  step of `RunSlots` (`SlotsMove`), which carries `SlotInv` over to `SwitchKeepsQuota`.
* `OldRunsExcluded`: `FenceExcludes` says that with the fence of the active
  transaction up, either every fenced run in its admission or in a slot is of the
  target (`OthersOut`), or nothing has been switched and all that could is still
  behind the re-check or will never be (`NotYet`). The re-check turns the second into the
  first, because `LockIsSection` keeps every fenced run out of its admission while the installer holds
  the lock; a rollback keeps whichever holds.
* `JournalAlwaysLeads`: `ListAnnounced` says that every write still to do is announced by
  the journal or by a record before it in the list, and that what undoes a verified install comes
  after `rollback_started`. Only a legacy handler can lose that, when it drops the record
  from its list unwritten and goes on; so `SaysOrUndoes`, which is inductive with `SwitchInv`, says
  that the list is announced or such a handler is at work (`UndoesUnjournaled`). Nothing is assumed of faults. `GapFreeAlwaysLeads` is the invariant for gap-free installs,
  whose handler is the recovery and never goes on after a failed append.
* `EffectLog_proofs`: `EffectInv` is the type, `LogInv` of the log, and that there are no more
  attempts than were paid for. None of the properties is inductive alone, because what frees a
  resource is spread over attempts and cards. `LogInv` adds that a card says settled only of
  a settled attempt and compensated only beside a verified compensation (`CardsTrue`), that a grant and
  the attempt that spent it name each other (`GrantsPaired`), that what is compensated exists
  (`Compensates`), and `OneOwner`: whoever was released beside a debt compensates it or had it accepted,
  and no two attempts name one risk card. A row that replay accepts need not keep it: `Warranted` is what its handler has
  made sure of before, `Persist` what no row takes back (a settled state, a decision, what an
  attempt was released for), and `RowKeeps` shows row type by row type that a warranted row
  leads from `LogInv` to `LogInv`. A handler writes a list, and any prefix of it may be all that is
  written, so a list is `Good` if each prefix leads to `LogInv`; the lists of every handler are
  (`CreatedGood`, `CompletionGood`, `ReadGood`, `DecisionGood`, `ProofRowsGood`, ...), and `Handle`,
  dead or alive, keeps the invariant (`HandleKeeps`). The prefixes make the atomicity of a
  handler irrelevant to the theorems. From `EffectInvAlways` follow `EffectTypeAlways`,
  `OneOwnerAlways`, `DebtAlwaysHasHeir`, `OneShotAlways`; `TurnEndAlwaysAsks` needs in
  addition what the list of the whole turn, attempt by attempt, makes of the log (`Turned`).
  `IsRun` and `IsFlat` unfold the recursions of `replay` and `FlattenSeq` prefix by prefix, by induction
  over a set of numbers.

## 8. Model-checked only

* Liveness and fairness: `QueuedIsSettled`, `SwitchIsDecided`,
  `EveryTransactionEnds`, `EveryFenceCleared`. The prover has no rule for
  fairness. The unconditional `FenceNeverSticks` is false (section 6).
* The audit beside a store that moves: the finding `AuditTorn`.
* `LogReadable` is false, and `EffectsReadableFinding` says why. Whether a turn ends or a card is
  answered is up to the host and the human, so effects have no liveness property:
  `TurnEndAsks` states what ending the turn would do in every reachable state.

## 9. Not modelled

* File modes, symlink checks, schema DDL, canonical JSON and field formats of
  the store and the protocol: they refuse input before any state is read.
* Tampering with the database and disk corruption: `QuietAuditIsClean`
  says an untampered store audits clean, not what is detected in a tampered one.
* SQLite itself: a transaction is atomic, durable once committed, and exclusive
  while it writes.
* The legacy JSON guardian's own state, event observation, host transcript parsing, recovery
  scripts, the memory and knowledge pipeline, heartbeat and packaging:
  text processing, host specifics and I/O with little shared state.
* Of the installer: packaging, staging, validation and smoke tests, retirement
  aliases, hook trust, live session bridges and the reversal of a first
  migration; torn journal lines after a power loss, which every reader refuses.
* Of the fence: a damaged fence file, which fails open by design and which no code writes.
* Of the grants: control routes, `next_step`, the
  unused `replace_transaction`, and cards for local writes.
* Of the effects: batches and system retries, which only tests call; rows of older schemas
  and their replay authority; git, figma and plain reads, which never block; explicit
  dependencies between calls; the consuming and claiming of a risk card (`GrantFlow` has it for
  ordinary ones); semantic retries;
  archiving and restoring a log; which capability may verify which operation (one kind
  that can prove everything and one that can prove nothing stand for them); the
  state `authorized`, which no row in use produces.
* Session continuity: the repository keeps its own specifications of it.

## 10. Plan

In this order, each with its configuration and proofs where they are in reach:

1. `TaskLanes`: lanes and critic claims with lifetimes, compare and swap.
2. Of `EffectLog`: batches, and its risk cards joined to the ledger of `GrantFlow`.
3. `LegacyCutover`: double fingerprint around a read that is not atomic.
4. `SupervisorJournal`, `AuditCursor`, `DispatchRegistry`: append, rotate, crash.
5. Pure algorithms: configuration narrowing, effect routing, decision tables,
   each against a reference definition over bounded inputs.
