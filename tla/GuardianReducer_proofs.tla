------------------------ MODULE GuardianReducer_proofs ------------------------
(***************************************************************************)
(* What the reducer preserves, for every value of the constants: the types *)
(* of a state, and that its persisted form can be read back.               *)
(***************************************************************************)
EXTENDS GuardianReducer, TLAPS

\* The state a workspace starts in.
LEMMA InitialStateType ==
  ASSUME NEW w \in Workspace, NEW t \in TaskEpoch, NEW g \in Generation,
         NEW c \in Context
  PROVE  initial_state(w, t, g, c) \in GuardianState
BY DEF initial_state, GuardianState, ContractStates, TaskStates, ApprovalStates,
   EffectStates, InterventionStates, SupervisorStates

\* The envelope the writer gives a submission is well formed.
LEMMA NextEnvelopeType ==
  ASSUME NEW s \in GuardianState, NEW b \in Submission
  PROVE  /\ NextEnvelope(s, b) \in Envelope
         /\ NextEnvelope(s, b).body = b
         /\ NextEnvelope(s, b).event_id = <<s.sequence + 1, b>>
         /\ NextEnvelope(s, b).event_id \in EventId
         /\ NextEnvelope(s, b).sequence = s.sequence + 1
         /\ NextEnvelope(s, b).previous_event_id = s.last_event_id
<1>1. s.sequence \in Nat /\ s.last_event_id \in EventId \cup {NoEvent}
  BY DEF GuardianState
<1>2. <<s.sequence + 1, b>> \in EventId
  BY <1>1 DEF EventId
<1> QED BY <1>1, <1>2 DEF NextEnvelope, ToEnvelope, Envelope

\* No event is NoEvent.
LEMMA EventIsSome == NoEvent \notin EventId
BY DEF NoEvent, EventId

\* The intent domain's handler returns a well-typed state.
LEMMA IntentType ==
  ASSUME NEW s \in GuardianState, NEW b \in Submission, b.event_type \in IntentEvents
  PROVE  IntentApply(s, b) \in GuardianState
<1>1. IntentTarget(b.event_type) \in ContractStates
  BY DEF IntentTarget, ContractStates, IntentEvents
<1> QED BY <1>1 DEF IntentApply, GuardianState

\* The task domain's handler returns a well-typed state.
LEMMA TaskType ==
  ASSUME NEW s \in GuardianState, NEW b \in Submission, NEW id \in EventId,
         b.event_type \in TaskEvents
  PROVE  TaskApply(s, b, id) \in GuardianState
<1>1. TaskTarget(b.event_type) \in TaskStates
  BY DEF TaskTarget, TaskStates, TaskTerminal, TaskEvents
<1> QED BY <1>1, ZenonT(40) DEF TaskApply, GuardianState

\* The approval domain's handler returns a well-typed state.
LEMMA ApprovalType ==
  ASSUME NEW s \in GuardianState, NEW b \in Submission,
         b.event_type \in ApprovalEvents
  PROVE  ApprovalApply(s, b) \in GuardianState
<1>1. ApprovalTarget(b.event_type) \in ApprovalStates
  BY DEF ApprovalTarget, ApprovalStates, ApprovalEvents
<1> QED BY <1>1 DEF ApprovalApply, GuardianState, Submission

\* The effect domain's handler returns a well-typed state.
LEMMA EffectType ==
  ASSUME NEW s \in GuardianState, NEW b \in Submission,
         b.event_type \in EffectEvents
  PROVE  EffectApply(s, b) \in GuardianState
<1>1. EffectTarget(b.event_type) \in EffectStates
  BY DEF EffectTarget, EffectStates, EffectEvents
<1>2. b.attempt_id \in Attempt \cup {""}
  BY DEF Submission
<1>3. CASE b.event_type = "effect.prepared"
  <2>1. EffectApply(s, b) =
          [s EXCEPT !.effect = EffectTarget(b.event_type),
                    !.effect_attempt_id = b.attempt_id,
                    !.intervention = "none", !.intervention_id = ""]
    BY <1>3 DEF EffectApply
  <2> QED BY <1>1, <1>2, <2>1, ZenonT(40) DEF GuardianState, InterventionStates
<1>4. CASE b.event_type # "effect.prepared"
  <2>1. EffectApply(s, b) =
          [s EXCEPT !.effect = EffectTarget(b.event_type),
                    !.effect_attempt_id = b.attempt_id,
                    !.intervention = s.intervention,
                    !.intervention_id = s.intervention_id]
    BY <1>4 DEF EffectApply
  <2> QED BY <1>1, <1>2, <2>1, ZenonT(40) DEF GuardianState
<1> QED BY <1>3, <1>4

\* The intervention domain's handler returns a well-typed state.
LEMMA InterventionType ==
  ASSUME NEW s \in GuardianState, NEW b \in Submission,
         b.event_type \in InterventionEvents
  PROVE  InterventionApply(s, b) \in GuardianState
<1>1. InterventionTarget(b.event_type) \in InterventionStates
  BY DEF InterventionTarget, InterventionStates, InterventionEvents
<1> QED BY <1>1 DEF InterventionApply, GuardianState, Submission

\* The supervisor domain's handler returns a well-typed state.
LEMMA SupervisorType ==
  ASSUME NEW s \in GuardianState, NEW b \in Submission,
         b.event_type \in SupervisorEvents
  PROVE  SupervisorApply(s, b) \in GuardianState
<1>1. SupervisorTarget(b.event_type) \in SupervisorStates
  BY DEF SupervisorTarget, SupervisorStates, SupervisorEvents, Activation
<1> QED BY <1>1 DEF SupervisorApply, GuardianState, Submission

\* An event type belongs to one domain only.
LEMMA DomainsDisjoint ==
  /\ \A x \in IntentEvents : x \notin TaskEvents /\ x \notin ApprovalEvents
       /\ x \notin EffectEvents /\ x \notin InterventionEvents
       /\ x \notin SupervisorEvents
  /\ \A x \in TaskEvents : x \notin ApprovalEvents /\ x \notin EffectEvents
       /\ x \notin InterventionEvents /\ x \notin SupervisorEvents
  /\ \A x \in ApprovalEvents : x \notin EffectEvents
       /\ x \notin InterventionEvents /\ x \notin SupervisorEvents
  /\ \A x \in EffectEvents : x \notin InterventionEvents
       /\ x \notin SupervisorEvents
  /\ \A x \in InterventionEvents : x \notin SupervisorEvents
BY DEF IntentEvents, TaskEvents, ApprovalEvents, EffectEvents,
   InterventionEvents, SupervisorEvents, Activation

\* Every event has a domain, and that domain's handler alone decides.
LEMMA OneDomain ==
  ASSUME NEW s \in GuardianState, NEW b \in Submission, NEW id \in EventId
  PROVE  \/ /\ b.event_type \in IntentEvents
            /\ DomainApply(s, b, id) = IntentApply(s, b)
            /\ DomainAccepts(s, b) <=> IntentAccepts(s, b)
         \/ /\ b.event_type \in TaskEvents
            /\ DomainApply(s, b, id) = TaskApply(s, b, id)
            /\ DomainAccepts(s, b) <=> TaskAccepts(s, b)
         \/ /\ b.event_type \in ApprovalEvents
            /\ DomainApply(s, b, id) = ApprovalApply(s, b)
            /\ DomainAccepts(s, b) <=> ApprovalAccepts(s, b)
         \/ /\ b.event_type \in EffectEvents
            /\ DomainApply(s, b, id) = EffectApply(s, b)
            /\ DomainAccepts(s, b) <=> EffectAccepts(s, b)
         \/ /\ b.event_type \in InterventionEvents
            /\ DomainApply(s, b, id) = InterventionApply(s, b)
            /\ DomainAccepts(s, b) <=> InterventionAccepts(s, b)
         \/ /\ b.event_type \in SupervisorEvents
            /\ DomainApply(s, b, id) = SupervisorApply(s, b)
            /\ DomainAccepts(s, b) <=> SupervisorAccepts(s, b)
<1>1. \/ b.event_type \in IntentEvents \/ b.event_type \in TaskEvents
      \/ b.event_type \in ApprovalEvents \/ b.event_type \in EffectEvents
      \/ b.event_type \in InterventionEvents \/ b.event_type \in SupervisorEvents
  BY DEF Submission, EventTypes
<1>2. CASE b.event_type \in IntentEvents
  <2>1. DomainApply(s, b, id) = IntentApply(s, b)
    BY <1>2, DomainsDisjoint DEF DomainApply
  <2>2. DomainAccepts(s, b) <=> IntentAccepts(s, b)
    BY <1>2, DomainsDisjoint DEF DomainAccepts
  <2> QED BY <1>2, <2>1, <2>2
<1>3. CASE b.event_type \in TaskEvents
  <2>1. DomainApply(s, b, id) = TaskApply(s, b, id)
    BY <1>3, DomainsDisjoint DEF DomainApply
  <2>2. DomainAccepts(s, b) <=> TaskAccepts(s, b)
    BY <1>3, DomainsDisjoint DEF DomainAccepts
  <2> QED BY <1>3, <2>1, <2>2
<1>4. CASE b.event_type \in ApprovalEvents
  <2>1. DomainApply(s, b, id) = ApprovalApply(s, b)
    BY <1>4, DomainsDisjoint DEF DomainApply
  <2>2. DomainAccepts(s, b) <=> ApprovalAccepts(s, b)
    BY <1>4, DomainsDisjoint DEF DomainAccepts
  <2> QED BY <1>4, <2>1, <2>2
<1>5. CASE b.event_type \in EffectEvents
  <2>1. DomainApply(s, b, id) = EffectApply(s, b)
    BY <1>5, DomainsDisjoint DEF DomainApply
  <2>2. DomainAccepts(s, b) <=> EffectAccepts(s, b)
    BY <1>5, DomainsDisjoint DEF DomainAccepts
  <2> QED BY <1>5, <2>1, <2>2
<1>6. CASE b.event_type \in InterventionEvents
  <2>1. DomainApply(s, b, id) = InterventionApply(s, b)
    BY <1>6, DomainsDisjoint DEF DomainApply
  <2>2. DomainAccepts(s, b) <=> InterventionAccepts(s, b)
    BY <1>6, DomainsDisjoint DEF DomainAccepts
  <2> QED BY <1>6, <2>1, <2>2
<1>7. CASE b.event_type \in SupervisorEvents
  <2>1. DomainApply(s, b, id) = SupervisorApply(s, b)
    BY <1>7, DomainsDisjoint DEF DomainApply
  <2>2. DomainAccepts(s, b) <=> SupervisorAccepts(s, b)
    BY <1>7, DomainsDisjoint DEF DomainAccepts
  <2> QED BY <1>7, <2>1, <2>2
<1> QED BY <1>1, <1>2, <1>3, <1>4, <1>5, <1>6, <1>7

\* Whichever domain handles an event, its result is well typed.
LEMMA DomainApplyType ==
  ASSUME NEW s \in GuardianState, NEW b \in Submission, NEW id \in EventId
  PROVE  DomainApply(s, b, id) \in GuardianState
<1>1. CASE b.event_type \in IntentEvents
  BY <1>1, OneDomain, DomainsDisjoint, IntentType
<1>2. CASE b.event_type \in TaskEvents
  BY <1>2, OneDomain, DomainsDisjoint, TaskType
<1>3. CASE b.event_type \in ApprovalEvents
  BY <1>3, OneDomain, DomainsDisjoint, ApprovalType
<1>4. CASE b.event_type \in EffectEvents
  BY <1>4, OneDomain, DomainsDisjoint, EffectType
<1>5. CASE b.event_type \in InterventionEvents
  BY <1>5, OneDomain, DomainsDisjoint, InterventionType
<1>6. CASE b.event_type \in SupervisorEvents
  BY <1>6, OneDomain, DomainsDisjoint, SupervisorType
<1> QED BY <1>1, <1>2, <1>3, <1>4, <1>5, <1>6 DEF Submission, EventTypes

\* Applying any well-formed event keeps the state well typed.
LEMMA ApplyType ==
  ASSUME NEW s \in GuardianState, NEW e \in Envelope
  PROVE  Apply(s, e) \in GuardianState
<1>1. e.body \in Submission /\ e.event_id \in EventId /\ e.sequence \in Nat
  BY DEF Envelope
<1>2. DomainApply(s, e.body, e.event_id) \in GuardianState
  BY <1>1, DomainApplyType
<1> QED BY <1>1, <1>2 DEF Apply, GuardianState

\* The part of Decodable that the domains' handlers are answerable for.
Identified(s) ==
  /\ (s.approval = "none") <=> (s.approval_request_id = "")
  /\ (s.effect = "none") <=> (s.effect_attempt_id = "")
  /\ (s.intervention = "none") <=> (s.intervention_id = "")
  /\ (s.task \in TaskTerminal) <=> (s.terminal_event_id # NoEvent)

\* The intent domain's handler keeps a state and its identifier paired.
LEMMA IntentIdentified ==
  ASSUME NEW s \in GuardianState, NEW b \in Submission, Identified(s)
  PROVE  Identified(IntentApply(s, b))
BY DEF Identified, IntentApply, GuardianState

\* The task domain's handler keeps a state and its identifier paired.
LEMMA TaskIdentified ==
  ASSUME NEW s \in GuardianState, NEW b \in Submission, NEW id \in EventId,
         Identified(s), b.event_type \in TaskEvents, TaskAccepts(s, b)
  PROVE  Identified(TaskApply(s, b, id))
<1>1. s.task \notin TaskTerminal
  BY DEF TaskAccepts, TaskSources, TaskTerminal, TaskEvents
<1>2. s.terminal_event_id = NoEvent
  BY <1>1 DEF Identified
<1>3. TaskApply(s, b, id).task = TaskTarget(b.event_type)
  BY DEF TaskApply, GuardianState
<1>4. TaskApply(s, b, id).terminal_event_id =
        IF TaskTarget(b.event_type) \in TaskTerminal THEN id ELSE NoEvent
  BY <1>2 DEF TaskApply, GuardianState
<1>5. /\ TaskApply(s, b, id).approval = s.approval
      /\ TaskApply(s, b, id).approval_request_id = s.approval_request_id
      /\ TaskApply(s, b, id).effect = s.effect
      /\ TaskApply(s, b, id).effect_attempt_id = s.effect_attempt_id
      /\ TaskApply(s, b, id).intervention = s.intervention
      /\ TaskApply(s, b, id).intervention_id = s.intervention_id
  BY DEF TaskApply, GuardianState
<1> QED BY <1>3, <1>4, <1>5, EventIsSome DEF Identified

\* The approval domain's handler keeps a state and its identifier paired.
LEMMA ApprovalIdentified ==
  ASSUME NEW s \in GuardianState, NEW b \in Submission, Identified(s),
         b.event_type \in ApprovalEvents, ApprovalAccepts(s, b)
  PROVE  Identified(ApprovalApply(s, b))
<1>1. ApprovalTarget(b.event_type) # "none"
  BY DEF ApprovalTarget, ApprovalEvents
<1> QED BY <1>1 DEF Identified, ApprovalAccepts, ApprovalApply, GuardianState

\* The effect domain's handler keeps a state and its identifier paired.
LEMMA EffectIdentified ==
  ASSUME NEW s \in GuardianState, NEW b \in Submission, Identified(s),
         b.event_type \in EffectEvents, EffectAccepts(s, b)
  PROVE  Identified(EffectApply(s, b))
<1>1. EffectTarget(b.event_type) # "none" /\ b.attempt_id # ""
  BY DEF EffectTarget, EffectEvents, EffectAccepts
<1>2. CASE b.event_type = "effect.prepared"
  <2>1. EffectApply(s, b) =
          [s EXCEPT !.effect = EffectTarget(b.event_type),
                    !.effect_attempt_id = b.attempt_id,
                    !.intervention = "none", !.intervention_id = ""]
    BY <1>2 DEF EffectApply
  <2> QED BY <1>1, <2>1, ZenonT(40) DEF Identified, GuardianState
<1>3. CASE b.event_type # "effect.prepared"
  <2>1. EffectApply(s, b) =
          [s EXCEPT !.effect = EffectTarget(b.event_type),
                    !.effect_attempt_id = b.attempt_id,
                    !.intervention = s.intervention,
                    !.intervention_id = s.intervention_id]
    BY <1>3 DEF EffectApply
  <2> QED BY <1>1, <2>1, ZenonT(40) DEF Identified, GuardianState
<1> QED BY <1>2, <1>3

\* The intervention domain's handler keeps a state and its identifier paired.
LEMMA InterventionIdentified ==
  ASSUME NEW s \in GuardianState, NEW b \in Submission, Identified(s),
         b.event_type \in InterventionEvents, InterventionAccepts(s, b)
  PROVE  Identified(InterventionApply(s, b))
<1>1. InterventionTarget(b.event_type) # "none"
  BY DEF InterventionTarget, InterventionEvents
<1> QED BY <1>1 DEF Identified, InterventionAccepts, InterventionApply, GuardianState

\* The supervisor domain's handler keeps a state and its identifier paired.
LEMMA SupervisorIdentified ==
  ASSUME NEW s \in GuardianState, NEW b \in Submission, Identified(s)
  PROVE  Identified(SupervisorApply(s, b))
BY DEF Identified, SupervisorApply, GuardianState

\* An accepted event leaves a state whose persisted form can be read back.
LEMMA ApplyDecodable ==
  ASSUME NEW s \in GuardianState, NEW b \in Submission, Decodable(s),
         Accepts(s, NextEnvelope(s, b))
  PROVE  Decodable(Apply(s, NextEnvelope(s, b)))
<1> DEFINE e == NextEnvelope(s, b)
           d == DomainApply(s, b, e.event_id)
<1>1. /\ e.body = b /\ e.event_id \in EventId
      /\ e.sequence = s.sequence + 1 /\ s.sequence \in Nat
  BY NextEnvelopeType DEF GuardianState
<1>2. DomainAccepts(s, b)
  BY <1>1 DEF Accepts
<1>3. Identified(s)
  BY DEF Decodable, Identified
<1>4. Identified(d)
  BY <1>1, <1>2, <1>3, OneDomain, IntentIdentified, TaskIdentified,
     ApprovalIdentified, EffectIdentified, InterventionIdentified,
     SupervisorIdentified
<1>5. d \in GuardianState
  BY <1>1, DomainApplyType
<1>6. Apply(s, e) = [d EXCEPT !.sequence = e.sequence, !.last_event_id = e.event_id]
  BY <1>1 DEF Apply
<1> HIDE DEF e, d
<1>7. Identified(Apply(s, e))
  <2>1. /\ Apply(s, e).approval = d.approval
        /\ Apply(s, e).approval_request_id = d.approval_request_id
        /\ Apply(s, e).effect = d.effect
        /\ Apply(s, e).effect_attempt_id = d.effect_attempt_id
        /\ Apply(s, e).intervention = d.intervention
        /\ Apply(s, e).intervention_id = d.intervention_id
        /\ Apply(s, e).task = d.task
        /\ Apply(s, e).terminal_event_id = d.terminal_event_id
    BY <1>5, <1>6 DEF GuardianState
  <2> QED BY <1>4, <2>1 DEF Identified
<1>8. Apply(s, e).sequence = s.sequence + 1 /\ Apply(s, e).last_event_id # NoEvent
  <2>1. Apply(s, e).sequence = e.sequence /\ Apply(s, e).last_event_id = e.event_id
    BY <1>5, <1>6 DEF GuardianState
  <2> QED BY <1>1, <2>1, EventIsSome
<1>9. Apply(s, e).sequence # 0
  BY <1>1, <1>8
<1> QED BY <1>7, <1>8, <1>9 DEF e, Decodable, Identified

TerminalEvents == {"task.succeeded", "task.failed", "task.inconclusive"}

\* An accepted terminal event finds no earlier one and is remembered; every
\* other event leaves what is remembered alone.
LEMMA ApplyTerminal ==
  ASSUME NEW s \in GuardianState, NEW b \in Submission,
         Accepts(s, NextEnvelope(s, b))
  PROVE  LET e == NextEnvelope(s, b)
         IN  IF b.event_type \in TerminalEvents
               THEN /\ s.terminal_event_id = NoEvent
                    /\ Apply(s, e).terminal_event_id = e.event_id
               ELSE Apply(s, e).terminal_event_id = s.terminal_event_id
<1> DEFINE e == NextEnvelope(s, b)
           d == DomainApply(s, b, e.event_id)
<1>1. e.body = b /\ e.event_id \in EventId
  BY NextEnvelopeType
<1>2. DomainAccepts(s, b)
  BY <1>1 DEF Accepts
<1>3. d \in GuardianState
  BY <1>1, DomainApplyType
<1>4. Apply(s, e) = [d EXCEPT !.sequence = e.sequence, !.last_event_id = e.event_id]
  BY <1>1 DEF Apply
<1>5. Apply(s, e).terminal_event_id = d.terminal_event_id
  <2> HIDE DEF d, e
  <2> QED BY <1>3, <1>4 DEF GuardianState
<1>6. CASE b.event_type \in TaskEvents
  <2>1. d = TaskApply(s, b, e.event_id) /\ TaskAccepts(s, b)
    BY <1>1, <1>2, <1>6, OneDomain, DomainsDisjoint
  <2>2. TaskTarget(b.event_type) \in TaskTerminal <=> b.event_type \in TerminalEvents
    BY <1>6 DEF TaskTarget, TaskTerminal, TerminalEvents, TaskEvents
  <2>3. TaskApply(s, b, e.event_id).terminal_event_id =
          IF TaskTarget(b.event_type) \in TaskTerminal THEN e.event_id
          ELSE s.terminal_event_id
    BY DEF TaskApply, GuardianState
  <2> QED BY <1>5, <2>1, <2>2, <2>3 DEF TaskAccepts
<1>7. CASE b.event_type \notin TaskEvents
  <2>1. b.event_type \notin TerminalEvents
    BY <1>7 DEF TerminalEvents, TaskEvents
  <2>2. \/ d = IntentApply(s, b) \/ d = ApprovalApply(s, b)
        \/ d = EffectApply(s, b) \/ d = InterventionApply(s, b)
        \/ d = SupervisorApply(s, b)
    BY <1>1, <1>7, OneDomain
  <2>3. d.terminal_event_id = s.terminal_event_id
    BY <2>2 DEF IntentApply, ApprovalApply, EffectApply, InterventionApply,
       SupervisorApply, GuardianState
  <2> QED BY <1>5, <2>1, <2>3
<1> QED BY <1>6, <1>7

\* An accepted event leaves the state in its workspace, epoch and context; only
\* an activation changes the generation, and only when no context is bound.
LEMMA ApplyGeneration ==
  ASSUME NEW s \in GuardianState, NEW b \in Submission,
         Accepts(s, NextEnvelope(s, b))
  PROVE  LET t == Apply(s, NextEnvelope(s, b))
         IN  /\ t.task_epoch_context_id = s.task_epoch_context_id
             /\ b.event_type # Activation =>
                  t.runtime_generation = s.runtime_generation
             /\ b.event_type = Activation =>
                  t.runtime_generation = b.runtime_generation
             /\ s.task_epoch_context_id # "" =>
                  t.runtime_generation = s.runtime_generation
<1> DEFINE e == NextEnvelope(s, b)
           d == DomainApply(s, b, e.event_id)
<1>1. e.body = b /\ e.event_id \in EventId
  BY NextEnvelopeType
<1>2. GenerationAccepted(s, b)
  BY <1>1 DEF Accepts
<1>3. d \in GuardianState
  BY <1>1, DomainApplyType
<1>4. Apply(s, e) = [d EXCEPT !.sequence = e.sequence, !.last_event_id = e.event_id]
  BY <1>1 DEF Apply
<1>5. /\ Apply(s, e).task_epoch_context_id = d.task_epoch_context_id
      /\ Apply(s, e).runtime_generation = d.runtime_generation
  <2> HIDE DEF d, e
  <2> QED BY <1>3, <1>4 DEF GuardianState
<1>6. CASE b.event_type \in SupervisorEvents
  <2>1. d = SupervisorApply(s, b)
    BY <1>1, <1>6, OneDomain, DomainsDisjoint
  <2>2. /\ d.task_epoch_context_id = s.task_epoch_context_id
        /\ d.runtime_generation = b.runtime_generation
    BY <2>1 DEF SupervisorApply, GuardianState
  <2> QED BY <1>2, <1>5, <2>2 DEF GenerationAccepted
<1>7. CASE b.event_type \notin SupervisorEvents
  <2>1. b.event_type # Activation
    BY <1>7 DEF SupervisorEvents
  <2>2. \/ d = IntentApply(s, b) \/ d = ApprovalApply(s, b)
        \/ d = EffectApply(s, b) \/ d = InterventionApply(s, b)
        \/ d = TaskApply(s, b, e.event_id)
    BY <1>1, <1>7, OneDomain
  <2>3. /\ d.task_epoch_context_id = s.task_epoch_context_id
        /\ d.runtime_generation = s.runtime_generation
    BY <2>2 DEF IntentApply, ApprovalApply, EffectApply, InterventionApply,
       TaskApply, GuardianState
  <2> QED BY <1>5, <2>1, <2>3
<1> QED BY <1>6, <1>7

\* What an accepted event makes of the approval, effect and intervention fields:
\* its own domain's target and identifier, and nothing in the other domains but
\* that a new attempt closes the book on the previous intervention.
LEMMA ApplyFields ==
  ASSUME NEW s \in GuardianState, NEW b \in Submission,
         Accepts(s, NextEnvelope(s, b))
  PROVE  LET t == Apply(s, NextEnvelope(s, b))
             x == b.event_type
         IN  /\ IF x \in ApprovalEvents
                  THEN /\ ApprovalAccepts(s, b)
                       /\ t.approval = ApprovalTarget(x)
                       /\ t.approval_request_id = b.approval_request_id
                  ELSE /\ t.approval = s.approval
                       /\ t.approval_request_id = s.approval_request_id
             /\ IF x \in EffectEvents
                  THEN /\ EffectAccepts(s, b)
                       /\ t.effect = EffectTarget(x)
                       /\ t.effect_attempt_id = b.attempt_id
                  ELSE /\ t.effect = s.effect
                       /\ t.effect_attempt_id = s.effect_attempt_id
             /\ IF x \in InterventionEvents
                  THEN /\ InterventionAccepts(s, b)
                       /\ t.intervention = InterventionTarget(x)
                       /\ t.intervention_id = b.intervention_id
                  ELSE IF x = "effect.prepared"
                  THEN t.intervention = "none"
                  ELSE /\ t.intervention = s.intervention
                       /\ t.intervention_id = s.intervention_id
<1> DEFINE e == NextEnvelope(s, b)
           d == DomainApply(s, b, e.event_id)
           x == b.event_type
<1>1. e.body = b /\ e.event_id \in EventId
  BY NextEnvelopeType
<1>2. DomainAccepts(s, b)
  BY <1>1 DEF Accepts
<1>3. d \in GuardianState
  BY <1>1, DomainApplyType
<1>4. Apply(s, e) = [d EXCEPT !.sequence = e.sequence, !.last_event_id = e.event_id]
  BY <1>1 DEF Apply
<1>5. LET t == Apply(s, e)
      IN  /\ t.approval = d.approval /\ t.approval_request_id = d.approval_request_id
          /\ t.effect = d.effect /\ t.effect_attempt_id = d.effect_attempt_id
          /\ t.intervention = d.intervention
          /\ t.intervention_id = d.intervention_id
  <2> HIDE DEF d, e
  <2> QED BY <1>3, <1>4 DEF GuardianState
<1>6. x = "effect.prepared" => x \in EffectEvents
  BY DEF EffectEvents
<1>7. CASE x \in ApprovalEvents
  <2>1. d = ApprovalApply(s, b) /\ ApprovalAccepts(s, b)
    BY <1>1, <1>2, <1>7, OneDomain, DomainsDisjoint
  <2>2. /\ d.approval = ApprovalTarget(x)
        /\ d.approval_request_id = b.approval_request_id
        /\ d.effect = s.effect /\ d.effect_attempt_id = s.effect_attempt_id
        /\ d.intervention = s.intervention /\ d.intervention_id = s.intervention_id
    BY <2>1 DEF ApprovalApply, GuardianState
  <2> QED BY <1>5, <1>6, <1>7, <2>1, <2>2, DomainsDisjoint
<1>8. CASE x \in EffectEvents
  <2>1. d = EffectApply(s, b) /\ EffectAccepts(s, b)
    BY <1>1, <1>2, <1>8, OneDomain, DomainsDisjoint
  <2>2. /\ d.approval = s.approval
        /\ d.approval_request_id = s.approval_request_id
        /\ d.effect = EffectTarget(x) /\ d.effect_attempt_id = b.attempt_id
        /\ d.intervention = IF x = "effect.prepared" THEN "none" ELSE s.intervention
        /\ x # "effect.prepared" => d.intervention_id = s.intervention_id
    BY <2>1 DEF EffectApply, GuardianState
  <2> QED BY <1>5, <1>8, <2>1, <2>2, DomainsDisjoint
<1>9. CASE x \in InterventionEvents
  <2>1. d = InterventionApply(s, b) /\ InterventionAccepts(s, b)
    BY <1>1, <1>2, <1>9, OneDomain, DomainsDisjoint
  <2>2. /\ d.approval = s.approval
        /\ d.approval_request_id = s.approval_request_id
        /\ d.effect = s.effect /\ d.effect_attempt_id = s.effect_attempt_id
        /\ d.intervention = InterventionTarget(x)
        /\ d.intervention_id = b.intervention_id
    BY <2>1 DEF InterventionApply, GuardianState
  <2> QED BY <1>5, <1>9, <2>1, <2>2, DomainsDisjoint
<1>10. CASE x \notin ApprovalEvents \cup EffectEvents \cup InterventionEvents
  <2>1. \/ d = IntentApply(s, b) \/ d = TaskApply(s, b, e.event_id)
        \/ d = SupervisorApply(s, b)
    BY <1>1, <1>10, OneDomain
  <2>2. /\ d.approval = s.approval
        /\ d.approval_request_id = s.approval_request_id
        /\ d.effect = s.effect /\ d.effect_attempt_id = s.effect_attempt_id
        /\ d.intervention = s.intervention /\ d.intervention_id = s.intervention_id
    BY <2>1 DEF IntentApply, TaskApply, SupervisorApply, GuardianState
  <2> QED BY <1>5, <1>6, <1>10, <2>2
<1> QED BY <1>7, <1>8, <1>9, <1>10
=============================================================================
