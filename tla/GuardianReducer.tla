--------------------------- MODULE GuardianReducer ---------------------------
(***************************************************************************)
(* The pure Guardian reducer of scripts/kb/sulde_state_machine/reducer.py: *)
(* which typed events a GuardianState accepts, and the state each leads    *)
(* to.  An event's identity is the hash of its sequence, its predecessor   *)
(* and its content; inside one chain <<sequence, content>> tells two       *)
(* events apart exactly when the hash does.                                *)
(***************************************************************************)
EXTENDS Naturals, Sequences

CONSTANTS
  Workspace,      \* workspace ids
  Generation,     \* runtime generations
  TaskEpoch,      \* task epochs
  Context,        \* task-epoch context ids, "" allowed
  Request,        \* approval request ids
  Attempt,        \* effect attempt ids
  Intervention,   \* intervention ids
  Marker          \* what else the content hash covers (actor, time, payload)

\* The empty string is the code's "no identifier" and is never an identifier.
ASSUME IdAssumption ==
  /\ "" \notin Generation
  /\ "" \notin Request
  /\ "" \notin Attempt
  /\ "" \notin Intervention

NoEvent == <<>>

ContractStates == {"active", "paused", "closed"}
TaskTerminal   == {"succeeded", "failed", "inconclusive"}
TaskStates     == {"none", "created", "bound", "running", "awaiting_human",
                   "verifying"} \cup TaskTerminal
ApprovalStates == {"none", "asked", "reassessment_due", "decided", "expired"}
EffectStates   == {"none", "prepared", "dispatched", "verifying", "verified",
                   "unknown", "aborted"}
InterventionStates == {"none", "open", "acknowledged", "resolved"}
SupervisorStates == {"starting", "ready", "degraded", "blocked", "stopped"}

IntentEvents == {"intent.activated", "intent.paused", "intent.resumed",
                 "intent.closed"}
TaskEvents == {"task.created", "task.bound", "task.started",
               "task.awaiting_human", "task.verifying", "task.succeeded",
               "task.failed", "task.inconclusive"}
ApprovalEvents == {"approval.asked", "approval.reassessment_due",
                   "approval.decided", "approval.expired"}
EffectEvents == {"effect.prepared", "effect.dispatched", "effect.verifying",
                 "effect.verified", "effect.unknown", "effect.aborted"}
InterventionEvents == {"intervention.opened", "intervention.acknowledged",
                       "intervention.resolved"}
Activation == "supervisor.generation_activated"
SupervisorEvents == {Activation, "supervisor.ready", "supervisor.degraded",
                     "supervisor.blocked", "supervisor.stopped"}
EventTypes == IntentEvents \cup TaskEvents \cup ApprovalEvents
              \cup EffectEvents \cup InterventionEvents \cup SupervisorEvents

\* What a producer may say (EventSubmission): no sequence, head or event id.
Submission ==
  [workspace_id: Workspace, runtime_generation: Generation,
   event_type: EventTypes, task_epoch: TaskEpoch,
   task_epoch_context_id: Context, approval_request_id: Request \cup {""},
   attempt_id: Attempt \cup {""}, intervention_id: Intervention \cup {""},
   marker: Marker]

EventId == Nat \X Submission

\* EventEnvelope: a submission at its place in the chain.
Envelope ==
  [sequence: Nat, event_id: EventId, previous_event_id: EventId \cup {NoEvent},
   body: Submission]

GuardianState ==
  [workspace_id: Workspace, task_epoch: TaskEpoch,
   runtime_generation: Generation, task_epoch_context_id: Context,
   sequence: Nat, last_event_id: EventId \cup {NoEvent},
   contract: ContractStates, task: TaskStates, approval: ApprovalStates,
   effect: EffectStates, intervention: InterventionStates,
   supervisor: SupervisorStates, approval_request_id: Request \cup {""},
   effect_attempt_id: Attempt \cup {""},
   intervention_id: Intervention \cup {""},
   terminal_event_id: EventId \cup {NoEvent}]

initial_state(ws, epoch, gen, ctx) ==
  [workspace_id |-> ws, task_epoch |-> epoch, runtime_generation |-> gen,
   task_epoch_context_id |-> ctx, sequence |-> 0, last_event_id |-> NoEvent,
   contract |-> "active", task |-> "none", approval |-> "none",
   effect |-> "none", intervention |-> "none", supervisor |-> "starting",
   approval_request_id |-> "", effect_attempt_id |-> "",
   intervention_id |-> "", terminal_event_id |-> NoEvent]

\* to_envelope: the writer, never the producer, assigns sequence and head.
ToEnvelope(sub, sequence, previous) ==
  [sequence |-> sequence, event_id |-> <<sequence, sub>>,
   previous_event_id |-> previous, body |-> sub]

NextEnvelope(s, sub) == ToEnvelope(sub, s.sequence + 1, s.last_event_id)
-----------------------------------------------------------------------------
(* Intent *)

IntentSources(type) ==
  CASE type = "intent.activated" -> {"active"}
    [] type = "intent.paused"    -> {"active"}
    [] type = "intent.resumed"   -> {"paused"}
    [] type = "intent.closed"    -> {"active", "paused"}

IntentTarget(type) ==
  CASE type = "intent.paused" -> "paused"
    [] type = "intent.closed" -> "closed"
    [] type \in {"intent.activated", "intent.resumed"} -> "active"

IntentAccepts(s, b) == s.contract \in IntentSources(b.event_type)

IntentApply(s, b) == [s EXCEPT !.contract = IntentTarget(b.event_type)]
-----------------------------------------------------------------------------
(* Task *)

TaskSources(type) ==
  CASE type = "task.created"        -> {"none"}
    [] type = "task.bound"          -> {"created"}
    [] type = "task.started"        -> {"bound", "awaiting_human"}
    [] type = "task.awaiting_human" -> {"running"}
    [] type = "task.verifying"      -> {"running", "awaiting_human"}
    [] type = "task.succeeded"      -> {"running", "verifying"}
    [] type \in {"task.failed", "task.inconclusive"} ->
         {"created", "bound", "running", "awaiting_human", "verifying"}

\* Slip: the state is named after the event.
TaskTarget_Slip(type) ==
  CASE type = "task.created"        -> "created"
    [] type = "task.bound"          -> "bound"
    [] type = "task.started"        -> "started"
    [] type = "task.awaiting_human" -> "awaiting_human"
    [] type = "task.verifying"      -> "verifying"
    [] type = "task.succeeded"      -> "succeeded"
    [] type = "task.failed"         -> "failed"
    [] type = "task.inconclusive"   -> "inconclusive"

TaskTarget(type) ==
  CASE type = "task.created"        -> "created"
    [] type = "task.bound"          -> "bound"
    [] type = "task.started"        -> "running"
    [] type = "task.awaiting_human" -> "awaiting_human"
    [] type = "task.verifying"      -> "verifying"
    [] type = "task.succeeded"      -> "succeeded"
    [] type = "task.failed"         -> "failed"
    [] type = "task.inconclusive"   -> "inconclusive"

\* Slip: success does not look at the effect.
TaskAccepts_Slip(s, b) ==
  /\ s.task \in TaskSources(b.event_type)
  /\ TaskTarget(b.event_type) \in TaskTerminal => s.terminal_event_id = NoEvent

TaskAccepts(s, b) ==
  /\ s.task \in TaskSources(b.event_type)
  /\ TaskTarget(b.event_type) \in TaskTerminal => s.terminal_event_id = NoEvent
  /\ b.event_type = "task.succeeded" => s.effect \in {"none", "verified"}

\* Slip: the terminal event is not recorded.
TaskApply_Slip(s, b, id) == [s EXCEPT !.task = TaskTarget(b.event_type)]

TaskApply(s, b, id) ==
  [s EXCEPT !.task = TaskTarget(b.event_type),
            !.terminal_event_id =
               IF TaskTarget(b.event_type) \in TaskTerminal THEN id ELSE @]
-----------------------------------------------------------------------------
(* Approval *)

\* Slip: an expired request can still be decided.
ApprovalSources_Slip(type) ==
  CASE type = "approval.asked"            -> {"none", "decided", "expired"}
    [] type = "approval.reassessment_due" -> {"asked"}
    [] type \in {"approval.decided", "approval.expired"} ->
         {"asked", "reassessment_due", "expired"}

ApprovalSources(type) ==
  CASE type = "approval.asked"            -> {"none", "decided", "expired"}
    [] type = "approval.reassessment_due" -> {"asked"}
    [] type \in {"approval.decided", "approval.expired"} ->
         {"asked", "reassessment_due"}

ApprovalTarget(type) ==
  CASE type = "approval.asked"            -> "asked"
    [] type = "approval.reassessment_due" -> "reassessment_due"
    [] type = "approval.decided"          -> "decided"
    [] type = "approval.expired"          -> "expired"

ApprovalAccepts(s, b) ==
  /\ b.approval_request_id # ""
  /\ b.event_type # "approval.asked" =>
       b.approval_request_id = s.approval_request_id
  /\ s.approval \in ApprovalSources(b.event_type)

ApprovalApply(s, b) ==
  [s EXCEPT !.approval = ApprovalTarget(b.event_type),
            !.approval_request_id = b.approval_request_id]
-----------------------------------------------------------------------------
(* Effect *)

\* Slip: an unknown effect may be prepared anew without an abort.
EffectSources_SlipUnknown(type) ==
  CASE type = "effect.prepared"   -> {"none", "verified", "aborted", "unknown"}
    [] type = "effect.dispatched" -> {"prepared"}
    [] type = "effect.verifying"  -> {"dispatched"}
    [] type \in {"effect.verified", "effect.unknown"} ->
         {"dispatched", "verifying"}
    [] type = "effect.aborted"    -> {"unknown"}

\* Slip: a dispatch that got no answer is dispatched again.
EffectSources_SlipRedispatch(type) ==
  CASE type = "effect.prepared"   -> {"none", "verified", "aborted"}
    [] type = "effect.dispatched" -> {"prepared", "dispatched"}
    [] type = "effect.verifying"  -> {"dispatched"}
    [] type \in {"effect.verified", "effect.unknown"} ->
         {"dispatched", "verifying"}
    [] type = "effect.aborted"    -> {"unknown"}

EffectSources(type) ==
  CASE type = "effect.prepared"   -> {"none", "verified", "aborted"}
    [] type = "effect.dispatched" -> {"prepared"}
    [] type = "effect.verifying"  -> {"dispatched"}
    [] type \in {"effect.verified", "effect.unknown"} ->
         {"dispatched", "verifying"}
    [] type = "effect.aborted"    -> {"unknown"}

EffectTarget(type) ==
  CASE type = "effect.prepared"   -> "prepared"
    [] type = "effect.dispatched" -> "dispatched"
    [] type = "effect.verifying"  -> "verifying"
    [] type = "effect.verified"   -> "verified"
    [] type = "effect.unknown"    -> "unknown"
    [] type = "effect.aborted"    -> "aborted"

EffectAccepts(s, b) ==
  /\ b.attempt_id # ""
  /\ s.effect \in EffectSources(b.event_type)
  /\ b.event_type # "effect.prepared" => b.attempt_id = s.effect_attempt_id

\* Slip: the intervention ends but its identifier stays.
EffectApply_SlipId(s, b) ==
  [s EXCEPT !.effect = EffectTarget(b.event_type),
            !.effect_attempt_id = b.attempt_id,
            !.intervention =
              IF b.event_type = "effect.prepared" THEN "none" ELSE @]

\* Slip: the intervention of the previous attempt is carried over.
EffectApply_SlipCarry(s, b) ==
  [s EXCEPT !.effect = EffectTarget(b.event_type),
            !.effect_attempt_id = b.attempt_id]

\* Preparing a new attempt closes the book on the previous intervention.
EffectApply(s, b) ==
  LET fresh == b.event_type = "effect.prepared"
  IN  [s EXCEPT !.effect = EffectTarget(b.event_type),
                !.effect_attempt_id = b.attempt_id,
                !.intervention = IF fresh THEN "none" ELSE @,
                !.intervention_id = IF fresh THEN "" ELSE @]
-----------------------------------------------------------------------------
(* Intervention *)

InterventionSources(type) ==
  CASE type = "intervention.opened"       -> {"none", "resolved"}
    [] type = "intervention.acknowledged" -> {"open"}
    [] type = "intervention.resolved"     -> {"open", "acknowledged"}

InterventionTarget(type) ==
  CASE type = "intervention.opened"       -> "open"
    [] type = "intervention.acknowledged" -> "acknowledged"
    [] type = "intervention.resolved"     -> "resolved"

InterventionAccepts(s, b) ==
  /\ b.intervention_id # ""
  /\ b.attempt_id = s.effect_attempt_id
  /\ IF b.event_type = "intervention.opened"
       THEN s.effect = "unknown"
       ELSE b.intervention_id = s.intervention_id
  /\ s.intervention \in InterventionSources(b.event_type)

InterventionApply(s, b) ==
  [s EXCEPT !.intervention = InterventionTarget(b.event_type),
            !.intervention_id = b.intervention_id]
-----------------------------------------------------------------------------
(* Supervisor *)

SupervisorSources(type) ==
  CASE type = Activation            -> {"starting", "stopped"}
    [] type = "supervisor.ready"    -> {"starting", "degraded"}
    [] type = "supervisor.degraded" -> {"starting", "ready"}
    [] type = "supervisor.blocked"  -> {"starting", "ready", "degraded"}
    [] type = "supervisor.stopped"  ->
         {"starting", "ready", "degraded", "blocked"}

SupervisorTarget(type) ==
  CASE type = Activation            -> "starting"
    [] type = "supervisor.ready"    -> "ready"
    [] type = "supervisor.degraded" -> "degraded"
    [] type = "supervisor.blocked"  -> "blocked"
    [] type = "supervisor.stopped"  -> "stopped"

SupervisorAccepts(s, b) == s.supervisor \in SupervisorSources(b.event_type)

\* Every other supervisor event already carries the state's generation.
SupervisorApply(s, b) ==
  [s EXCEPT !.supervisor = SupervisorTarget(b.event_type),
            !.runtime_generation = b.runtime_generation]
-----------------------------------------------------------------------------
(* transition *)

DomainAccepts(s, b) ==
  \/ b.event_type \in IntentEvents       /\ IntentAccepts(s, b)
  \/ b.event_type \in TaskEvents         /\ TaskAccepts(s, b)
  \/ b.event_type \in ApprovalEvents     /\ ApprovalAccepts(s, b)
  \/ b.event_type \in EffectEvents       /\ EffectAccepts(s, b)
  \/ b.event_type \in InterventionEvents /\ InterventionAccepts(s, b)
  \/ b.event_type \in SupervisorEvents   /\ SupervisorAccepts(s, b)

\* Slip: the generation is not compared for any supervisor event.
GenerationAccepted_SlipFence(s, b) ==
  b.runtime_generation = s.runtime_generation
  \/ (b.event_type \in SupervisorEvents /\ s.task_epoch_context_id = "")

\* Slip: a bound context does not stop an activation.
GenerationAccepted_SlipContext(s, b) ==
  b.runtime_generation = s.runtime_generation \/ b.event_type = Activation

\* Only an activation may carry another generation, and only while no
\* task-epoch context is bound.
GenerationAccepted(s, b) ==
  b.runtime_generation = s.runtime_generation
  \/ (b.event_type = Activation /\ s.task_epoch_context_id = "")

\* TRUE iff transition(s, e) raises no TransitionError and changes the state.
Accepts(s, e) ==
  /\ e.body.workspace_id = s.workspace_id
  /\ e.event_id # s.last_event_id
  /\ e.sequence = s.sequence + 1
  /\ e.previous_event_id = s.last_event_id
  /\ e.body.task_epoch = s.task_epoch
  /\ e.body.task_epoch_context_id = s.task_epoch_context_id
  /\ GenerationAccepted(s, e.body)
  /\ DomainAccepts(s, e.body)

DomainApply(s, b, id) ==
  CASE b.event_type \in IntentEvents       -> IntentApply(s, b)
    [] b.event_type \in TaskEvents         -> TaskApply(s, b, id)
    [] b.event_type \in ApprovalEvents     -> ApprovalApply(s, b)
    [] b.event_type \in EffectEvents       -> EffectApply(s, b)
    [] b.event_type \in InterventionEvents -> InterventionApply(s, b)
    [] b.event_type \in SupervisorEvents   -> SupervisorApply(s, b)

Apply(s, e) ==
  [DomainApply(s, e.body, e.event_id) EXCEPT !.sequence = e.sequence,
                                             !.last_event_id = e.event_id]

\* replay: the state after each prefix of a ledger of envelopes.
Replay(s0, ledger) ==
  LET after[n \in 0..Len(ledger)] ==
        IF n = 0 THEN s0 ELSE Apply(after[n - 1], ledger[n])
  IN  after
-----------------------------------------------------------------------------
\* state_from_dict: a persisted projection that fails this cannot be read back.
Decodable(s) ==
  /\ (s.sequence = 0) <=> (s.last_event_id = NoEvent)
  /\ (s.approval = "none") <=> (s.approval_request_id = "")
  /\ (s.effect = "none") <=> (s.effect_attempt_id = "")
  /\ (s.intervention = "none") <=> (s.intervention_id = "")
  /\ (s.task \in TaskTerminal) <=> (s.terminal_event_id # NoEvent)
=============================================================================
