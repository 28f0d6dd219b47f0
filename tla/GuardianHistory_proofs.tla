------------------------ MODULE GuardianHistory_proofs ------------------------
(***************************************************************************)
(* Theorems about every chain of events the reducer accepts, of any length *)
(* and over any identifiers.                                               *)
(***************************************************************************)
EXTENDS GuardianHistory, GuardianReducer_proofs

\* The chain starts in a well-typed state the codec can read back.
LEMMA InitialType == Initial \in GuardianState /\ Decodable(Initial)
<1>1. PICK w \in Workspace, t \in TaskEpoch, g \in Generation, c \in Context :
        Initial = initial_state(w, t, g, c)
  BY HistoryAssumption
<1>2. Initial \in GuardianState
  BY <1>1, InitialStateType
<1>3. Decodable(Initial)
  BY <1>1 DEF initial_state, Decodable, TaskTerminal, NoEvent
<1> QED BY <1>2, <1>3

\* The state and the ledger keep their types: reducer.py's transition never
\* leaves the sets its enums declare.
THEOREM TypeCorrect == Spec => []TypeOK
<1>1. Init => TypeOK
  BY InitialType DEF Init, TypeOK
<1>2. TypeOK /\ [Next]_vars => TypeOK'
  <2> SUFFICES ASSUME TypeOK, [Next]_vars PROVE TypeOK'
    OBVIOUS
  <2>1. ASSUME NEW b \in Bodies, Append1(b) PROVE TypeOK'
    <3>1. state \in GuardianState /\ ledger \in Seq(Envelope) /\ b \in Submission
      BY HistoryAssumption DEF TypeOK
    <3>2. NextEnvelope(state, b) \in Envelope
      BY <3>1, NextEnvelopeType
    <3>3. Apply(state, NextEnvelope(state, b)) \in GuardianState
      BY <3>1, <3>2, ApplyType
    <3> QED BY <2>1, <3>1, <3>2, <3>3 DEF Append1, TypeOK
  <2>2. CASE UNCHANGED vars
    BY <2>2 DEF vars, TypeOK
  <2> QED BY <2>1, <2>2 DEF Next
<1> QED BY <1>1, <1>2, PTL DEF Spec

\* Every reachable projection passes the checks of codec.py's state_from_dict,
\* so no history of accepted events can brick the store.
THEOREM AlwaysDecodable == Spec => []StateDecodable
<1>1. Init => StateDecodable
  BY InitialType DEF Init, StateDecodable
<1>2. TypeOK /\ StateDecodable /\ [Next]_vars => StateDecodable'
  <2> SUFFICES ASSUME TypeOK, StateDecodable, [Next]_vars PROVE StateDecodable'
    OBVIOUS
  <2>1. ASSUME NEW b \in Bodies, Append1(b) PROVE StateDecodable'
    <3>1. state \in GuardianState /\ b \in Submission
      BY HistoryAssumption DEF TypeOK
    <3> QED BY <2>1, <3>1, ApplyDecodable DEF Append1, StateDecodable
  <2>2. CASE UNCHANGED vars
    BY <2>2 DEF vars, StateDecodable
  <2> QED BY <2>1, <2>2 DEF Next
<1> QED BY <1>1, <1>2, TypeCorrect, PTL DEF Spec

\* A chain holds at most one terminal task event and the state names it.
THEOREM TerminalOnce == Spec => []OneTerminal
<1>1. Init => OneTerminal
  BY DEF Init, OneTerminal
<1>2. TypeOK /\ OneTerminal /\ [Next]_vars => OneTerminal'
  <2> SUFFICES ASSUME TypeOK, OneTerminal, [Next]_vars PROVE OneTerminal'
    OBVIOUS
  <2>1. ASSUME NEW b \in Bodies, Append1(b) PROVE OneTerminal'
    <3> DEFINE e == NextEnvelope(state, b)
               n == Len(ledger)
    <3>1. /\ state \in GuardianState /\ ledger \in Seq(Envelope)
          /\ b \in Submission /\ e \in Envelope /\ e.body = b
      BY HistoryAssumption, NextEnvelopeType DEF TypeOK
    <3>2. /\ Accepts(state, e) /\ state' = Apply(state, e)
          /\ ledger' = Append(ledger, e)
      BY <2>1 DEF Append1
    <3> HIDE DEF e
    <3>3. /\ n \in Nat /\ DOMAIN ledger = 1..n /\ DOMAIN ledger' = 1..(n + 1)
          /\ \A k \in 1..n : ledger'[k] = ledger[k]
          /\ ledger'[n + 1] = e
      <4>1. n \in Nat /\ DOMAIN ledger = 1..n
        BY <3>1
      <4>2. ledger' \in Seq(Envelope) /\ Len(ledger') = n + 1
        BY <3>1, <3>2
      <4>3. DOMAIN ledger' = 1..(n + 1)
        BY <4>2
      <4>4. \A k \in 1..n : Append(ledger, e)[k] = ledger[k]
        BY <3>1, <4>1
      <4>5. Append(ledger, e)[n + 1] = e
        BY <3>1, <4>1
      <4> QED BY <3>2, <4>1, <4>3, <4>4, <4>5
    <3>4. \A k \in 1..n : ledger[k].event_id # NoEvent
      <4>1. \A k \in 1..n : ledger[k] \in Envelope
        BY <3>1
      <4> QED BY <4>1, EventIsSome DEF Envelope
    <3>5. CASE b.event_type \in TerminalEvents
      <4>1. state.terminal_event_id = NoEvent /\ state'.terminal_event_id = e.event_id
        BY <3>1, <3>2, <3>5, ApplyTerminal DEF e
      <4>2. \A k \in 1..n : ledger[k].body.event_type \notin TerminalEvents
        BY <3>3, <3>4, <4>1 DEF OneTerminal, Type, TerminalEvents
      <4> QED BY <3>1, <3>3, <4>1, <4>2 DEF OneTerminal, Type, TerminalEvents
    <3>6. CASE b.event_type \notin TerminalEvents
      <4>1. state'.terminal_event_id = state.terminal_event_id
        BY <3>1, <3>2, <3>6, ApplyTerminal DEF e
      <4> QED BY <3>1, <3>3, <3>6, <4>1 DEF OneTerminal, Type, TerminalEvents
    <3> QED BY <3>5, <3>6
  <2>2. CASE UNCHANGED vars
    BY <2>2 DEF vars, OneTerminal, Type
  <2> QED BY <2>1, <2>2 DEF Next
<1> QED BY <1>1, <1>2, TypeCorrect, PTL DEF Spec
-----------------------------------------------------------------------------
(* The state mirrors the chain: what a domain's fields say is what the last    *)
(* events of that domain did.  The properties over pairs of positions follow:  *)
(* an event is accepted because of the fields, hence because of those events.  *)

\* i is the last position that holds an event of one of the types.
LastOf(i, types) ==
  /\ i \in DOMAIN ledger /\ Type(i) \in types
  /\ \A j \in DOMAIN ledger : j > i => Type(j) \notin types

EffectMirrored ==
  IF state.effect = "none" THEN \A j \in DOMAIN ledger : Type(j) \notin EffectEvents
  ELSE \E i \in DOMAIN ledger :
         /\ LastOf(i, EffectEvents)
         /\ state.effect = EffectTarget(Type(i))
         /\ state.effect_attempt_id = ledger[i].body.attempt_id

DispatchMirrored ==
  state.effect \in {"dispatched", "verifying"} =>
    \E d \in DOMAIN ledger :
      /\ LastOf(d, {"effect.dispatched"})
      /\ state.effect_attempt_id = ledger[d].body.attempt_id

\* Every verified attempt is the one dispatched last.
VerifiedWasDispatched ==
  \A i \in DOMAIN ledger : Type(i) = "effect.verified" =>
    \E d \in DOMAIN ledger :
      /\ IsLastBefore(d, i, {"effect.dispatched"})
      /\ ledger[d].body.attempt_id = ledger[i].body.attempt_id

\* An unknown outcome is still the state's, or its attempt was aborted since.
UnknownMirrored ==
  \A j \in DOMAIN ledger : Type(j) = "effect.unknown" =>
    \/ /\ state.effect = "unknown"
       /\ state.effect_attempt_id = ledger[j].body.attempt_id
    \/ \E i \in DOMAIN ledger :
         /\ i > j /\ Type(i) = "effect.aborted"
         /\ ledger[i].body.attempt_id = ledger[j].body.attempt_id

ApprovalMirrored ==
  state.approval \in {"asked", "reassessment_due"} =>
    \E i \in DOMAIN ledger :
      /\ LastOf(i, {"approval.asked", "approval.decided", "approval.expired"})
      /\ Type(i) = "approval.asked"
      /\ state.approval_request_id = ledger[i].body.approval_request_id

InterventionMirrored ==
  state.intervention \in {"open", "acknowledged"} =>
    \E u, o \in DOMAIN ledger :
      /\ u < o /\ Type(u) = "effect.unknown" /\ Type(o) = "intervention.opened"
      /\ \A j \in DOMAIN ledger : j > u => Type(j) # "effect.prepared"
      /\ LastOf(o, {"intervention.opened", "intervention.resolved"})
      /\ state.effect_attempt_id = ledger[u].body.attempt_id
      /\ state.intervention_id = ledger[o].body.intervention_id

GenerationMirrored ==
  /\ (\A j \in DOMAIN ledger : Type(j) # Activation) =>
       state.runtime_generation = Initial.runtime_generation
  /\ \A i \in DOMAIN ledger : LastOf(i, {Activation}) =>
       state.runtime_generation = ledger[i].body.runtime_generation

\* What a step of the chain is: one accepted event more, at the end.
LEMMA Grows ==
  ASSUME TypeOK, NEW b \in Bodies, Append1(b), NEW n, n = Len(ledger)
  PROVE  /\ state \in GuardianState /\ b \in Submission
         /\ Accepts(state, NextEnvelope(state, b))
         /\ state' = Apply(state, NextEnvelope(state, b))
         /\ n \in Nat /\ DOMAIN ledger = 1..n /\ DOMAIN ledger' = 1..(n + 1)
         /\ \A k \in 1..n : ledger'[k] = ledger[k]
         /\ ledger'[n + 1].body = b
<1> DEFINE e == NextEnvelope(state, b)
<1>1. /\ state \in GuardianState /\ ledger \in Seq(Envelope)
      /\ b \in Submission /\ e \in Envelope /\ e.body = b
  BY HistoryAssumption, NextEnvelopeType DEF TypeOK
<1>2. /\ Accepts(state, e) /\ state' = Apply(state, e) /\ ledger' = Append(ledger, e)
  BY DEF Append1
<1> HIDE DEF e
<1>3. n \in Nat /\ DOMAIN ledger = 1..n
  BY <1>1
<1>4. ledger' \in Seq(Envelope) /\ Len(ledger') = n + 1
  BY <1>1, <1>2
<1>5. DOMAIN ledger' = 1..(n + 1)
  BY <1>4
<1>6. \A k \in 1..n : Append(ledger, e)[k] = ledger[k]
  BY <1>1, <1>3
<1>7. Append(ledger, e)[n + 1] = e
  BY <1>1, <1>3
<1> QED BY <1>1, <1>2, <1>3, <1>5, <1>6, <1>7 DEF e

\* How the last position of some types moves when the chain grows, and that
\* what holds between old positions stays as it was.
LEMMA LastGrows ==
  ASSUME TypeOK, NEW b \in Bodies, Append1(b), NEW n, n = Len(ledger), NEW types
  PROVE  /\ n + 1 \in DOMAIN ledger' /\ Type(n + 1)' = b.event_type
         /\ \A i \in DOMAIN ledger :
              /\ i \in DOMAIN ledger' /\ i < n + 1 /\ Type(i)' = Type(i)
              /\ LastOf(i, types) => IsLastBefore(i, n + 1, types)'
              /\ LastOf(i, types) /\ b.event_type \notin types => LastOf(i, types)'
              /\ \A k \in DOMAIN ledger :
                   IsLastBefore(i, k, types) => IsLastBefore(i, k, types)'
         /\ b.event_type \in types => LastOf(n + 1, types)'
<1>1. /\ n \in Nat /\ DOMAIN ledger = 1..n /\ DOMAIN ledger' = 1..(n + 1)
      /\ \A k \in 1..n : ledger'[k] = ledger[k]
      /\ ledger'[n + 1].body = b
  BY Grows
<1>2. Type(n + 1)' = b.event_type /\ \A i \in 1..n : Type(i)' = Type(i)
  BY <1>1 DEF Type
<1> QED
  <2>1. ASSUME NEW i \in DOMAIN ledger, LastOf(i, types)
        PROVE  IsLastBefore(i, n + 1, types)'
    BY <1>1, <1>2, <2>1 DEF LastOf, IsLastBefore, Between
  <2>2. ASSUME NEW i \in DOMAIN ledger, LastOf(i, types), b.event_type \notin types
        PROVE  LastOf(i, types)'
    BY <1>1, <1>2, <2>2 DEF LastOf
  <2>3. ASSUME NEW i \in DOMAIN ledger, NEW k \in DOMAIN ledger,
               IsLastBefore(i, k, types)
        PROVE  IsLastBefore(i, k, types)'
    BY <1>1, <1>2, <2>3 DEF IsLastBefore, Between
  <2>4. ASSUME b.event_type \in types PROVE LastOf(n + 1, types)'
    BY <1>1, <1>2, <2>4 DEF LastOf
  <2> QED BY <1>1, <1>2, <2>1, <2>2, <2>3, <2>4

\* What a step does to the fields of the effect, approval and intervention
\* domains (ApplyFields), and to the generation.
LEMMA StepFields ==
  ASSUME TypeOK, NEW b \in Bodies, Append1(b)
  PROVE  /\ IF b.event_type \in ApprovalEvents
              THEN /\ ApprovalAccepts(state, b)
                   /\ state'.approval = ApprovalTarget(b.event_type)
                   /\ state'.approval_request_id = b.approval_request_id
              ELSE /\ state'.approval = state.approval
                   /\ state'.approval_request_id = state.approval_request_id
         /\ IF b.event_type \in EffectEvents
              THEN /\ EffectAccepts(state, b)
                   /\ state'.effect = EffectTarget(b.event_type)
                   /\ state'.effect_attempt_id = b.attempt_id
              ELSE /\ state'.effect = state.effect
                   /\ state'.effect_attempt_id = state.effect_attempt_id
         /\ IF b.event_type \in InterventionEvents
              THEN /\ InterventionAccepts(state, b)
                   /\ state'.intervention = InterventionTarget(b.event_type)
                   /\ state'.intervention_id = b.intervention_id
              ELSE IF b.event_type = "effect.prepared"
              THEN state'.intervention = "none"
              ELSE /\ state'.intervention = state.intervention
                   /\ state'.intervention_id = state.intervention_id
         /\ state'.runtime_generation =
              IF b.event_type = Activation THEN b.runtime_generation
              ELSE state.runtime_generation
         /\ b.event_type # Activation =>
              b.runtime_generation = state.runtime_generation
         /\ b.event_type = "task.succeeded" => state.effect \in {"none", "verified"}
<1>1. /\ state \in GuardianState /\ b \in Submission
      /\ Accepts(state, NextEnvelope(state, b))
      /\ state' = Apply(state, NextEnvelope(state, b))
  BY Grows
<1>2. NextEnvelope(state, b).body = b /\ NextEnvelope(state, b).event_id \in EventId
  BY <1>1, NextEnvelopeType
<1>3. b.event_type # Activation => b.runtime_generation = state.runtime_generation
  BY <1>1, <1>2 DEF Accepts, GenerationAccepted
<1>4. b.event_type = "task.succeeded" => state.effect \in {"none", "verified"}
  <2> SUFFICES ASSUME b.event_type = "task.succeeded"
               PROVE  state.effect \in {"none", "verified"}
    OBVIOUS
  <2>1. b.event_type \in TaskEvents
    BY DEF TaskEvents
  <2>2. DomainAccepts(state, b) <=> TaskAccepts(state, b)
    BY <1>1, <1>2, <2>1, OneDomain, DomainsDisjoint
  <2> QED BY <1>1, <1>2, <2>2 DEF Accepts, TaskAccepts
<1> QED BY <1>1, <1>3, <1>4, ApplyFields, ApplyGeneration

\* The effect's state and attempt are those of the last effect event.
LEMMA EffectMirroredStep ==
  ASSUME TypeOK, EffectMirrored, NEW b \in Bodies, Append1(b)
  PROVE  EffectMirrored'
<1> SUFFICES ASSUME NEW n, n = Len(ledger) PROVE EffectMirrored'
  OBVIOUS
<1>1. /\ n \in Nat /\ DOMAIN ledger = 1..n /\ DOMAIN ledger' = 1..(n + 1)
      /\ \A k \in 1..n : ledger'[k] = ledger[k]
      /\ ledger'[n + 1].body = b
  BY Grows
<1>2. Type(n + 1)' = b.event_type /\ \A i \in 1..n : Type(i)' = Type(i)
  BY <1>1 DEF Type
<1>3. CASE b.event_type \in EffectEvents
  <2>1. /\ state'.effect = EffectTarget(b.event_type)
        /\ state'.effect_attempt_id = b.attempt_id
    BY <1>3, StepFields
  <2>2. EffectTarget(b.event_type) # "none"
    BY <1>3 DEF EffectTarget, EffectEvents
  <2>3. LastOf(n + 1, EffectEvents)'
    BY <1>3, LastGrows
  <2> QED BY <1>1, <1>2, <2>1, <2>2, <2>3 DEF EffectMirrored
<1>4. CASE b.event_type \notin EffectEvents
  <2>1. state'.effect = state.effect /\ state'.effect_attempt_id = state.effect_attempt_id
    BY <1>4, StepFields
  <2>2. \A i \in DOMAIN ledger : LastOf(i, EffectEvents) => LastOf(i, EffectEvents)'
    BY <1>4, LastGrows
  <2> QED BY <1>1, <1>2, <1>4, <2>1, <2>2 DEF EffectMirrored
<1> QED BY <1>3, <1>4

\* While an attempt is out, the last dispatch is its own.
LEMMA DispatchMirroredStep ==
  ASSUME TypeOK, DispatchMirrored, NEW b \in Bodies, Append1(b)
  PROVE  DispatchMirrored'
<1> SUFFICES ASSUME NEW n, n = Len(ledger) PROVE DispatchMirrored'
  OBVIOUS
<1>1. /\ n \in Nat /\ DOMAIN ledger = 1..n /\ DOMAIN ledger' = 1..(n + 1)
      /\ \A k \in 1..n : ledger'[k] = ledger[k]
      /\ ledger'[n + 1].body = b
  BY Grows
<1>2. CASE b.event_type = "effect.dispatched"
  <2>1. LastOf(n + 1, {"effect.dispatched"})'
    BY <1>2, LastGrows
  <2>2. state'.effect_attempt_id = b.attempt_id
    BY <1>2, StepFields DEF EffectEvents
  <2> QED BY <1>1, <2>1, <2>2 DEF DispatchMirrored
<1>3. CASE b.event_type # "effect.dispatched"
  <2>1. \A d \in DOMAIN ledger :
          LastOf(d, {"effect.dispatched"}) => LastOf(d, {"effect.dispatched"})'
    BY <1>3, LastGrows
  <2>2. CASE b.event_type \in EffectEvents
    <3>1. state'.effect = EffectTarget(b.event_type) /\ EffectAccepts(state, b)
          /\ state'.effect_attempt_id = b.attempt_id
      BY <2>2, StepFields
    <3>2. CASE b.event_type = "effect.verifying"
      <4>1. state.effect = "dispatched" /\ b.attempt_id = state.effect_attempt_id
        BY <3>1, <3>2 DEF EffectAccepts, EffectSources
      <4> QED BY <1>1, <2>1, <3>1, <4>1 DEF DispatchMirrored
    <3>3. CASE b.event_type # "effect.verifying"
      <4>1. state'.effect \notin {"dispatched", "verifying"}
        BY <1>3, <2>2, <3>1, <3>3 DEF EffectTarget, EffectEvents
      <4> QED BY <4>1 DEF DispatchMirrored
    <3> QED BY <3>2, <3>3
  <2>3. CASE b.event_type \notin EffectEvents
    <3>1. state'.effect = state.effect
          /\ state'.effect_attempt_id = state.effect_attempt_id
      BY <2>3, StepFields
    <3> QED BY <1>1, <2>1, <3>1 DEF DispatchMirrored
  <2> QED BY <2>2, <2>3
<1> QED BY <1>2, <1>3

\* A verification answers the last dispatch.
LEMMA VerifiedWasDispatchedStep ==
  ASSUME TypeOK, DispatchMirrored, VerifiedWasDispatched, NEW b \in Bodies, Append1(b)
  PROVE  VerifiedWasDispatched'
<1> DEFINE D == {"effect.dispatched"}
<1> SUFFICES ASSUME NEW n, n = Len(ledger) PROVE VerifiedWasDispatched'
  OBVIOUS
<1>1. /\ n \in Nat /\ DOMAIN ledger = 1..n /\ DOMAIN ledger' = 1..(n + 1)
      /\ \A k \in 1..n : ledger'[k] = ledger[k]
      /\ ledger'[n + 1].body = b
  BY Grows
<1>2. /\ Type(n + 1)' = b.event_type
      /\ \A i \in DOMAIN ledger :
           /\ Type(i)' = Type(i)
           /\ LastOf(i, D) => IsLastBefore(i, n + 1, D)'
           /\ \A k \in DOMAIN ledger : IsLastBefore(i, k, D) => IsLastBefore(i, k, D)'
  BY LastGrows
<1> HIDE DEF D
<1> SUFFICES ASSUME NEW i \in DOMAIN ledger', Type(i)' = "effect.verified"
             PROVE  \E d \in DOMAIN ledger' :
                      /\ IsLastBefore(d, i, D)'
                      /\ ledger'[d].body.attempt_id = ledger'[i].body.attempt_id
  BY DEF VerifiedWasDispatched, D
<1>3. CASE i = n + 1
  <2>1. b.event_type = "effect.verified"
    BY <1>2, <1>3
  <2>2. EffectAccepts(state, b)
    BY <2>1, StepFields DEF EffectEvents
  <2>3. state.effect \in {"dispatched", "verifying"} /\ b.attempt_id = state.effect_attempt_id
    BY <2>1, <2>2 DEF EffectAccepts, EffectSources
  <2>4. PICK d \in DOMAIN ledger :
          LastOf(d, D) /\ state.effect_attempt_id = ledger[d].body.attempt_id
    BY <2>3 DEF DispatchMirrored, D
  <2> QED BY <1>1, <1>2, <1>3, <2>3, <2>4
<1>4. CASE i # n + 1
  <2>1. i \in DOMAIN ledger /\ Type(i) = "effect.verified"
    BY <1>1, <1>2, <1>4
  <2>2. PICK d \in DOMAIN ledger :
          IsLastBefore(d, i, D) /\ ledger[d].body.attempt_id = ledger[i].body.attempt_id
    BY <2>1 DEF VerifiedWasDispatched, D
  <2> QED BY <1>1, <1>2, <2>1, <2>2
<1> QED BY <1>3, <1>4

\* An unknown outcome stays the state's until its attempt is aborted.
LEMMA UnknownMirroredStep ==
  ASSUME TypeOK, UnknownMirrored, NEW b \in Bodies, Append1(b)
  PROVE  UnknownMirrored'
<1> SUFFICES ASSUME NEW n, n = Len(ledger) PROVE UnknownMirrored'
  OBVIOUS
<1>1. /\ n \in Nat /\ DOMAIN ledger = 1..n /\ DOMAIN ledger' = 1..(n + 1)
      /\ \A k \in 1..n : ledger'[k] = ledger[k]
      /\ ledger'[n + 1].body = b
  BY Grows
<1>2. Type(n + 1)' = b.event_type /\ \A i \in 1..n : Type(i)' = Type(i)
  BY <1>1 DEF Type
<1> SUFFICES ASSUME NEW j \in DOMAIN ledger', Type(j)' = "effect.unknown"
             PROVE  \/ /\ state'.effect = "unknown"
                       /\ state'.effect_attempt_id = ledger'[j].body.attempt_id
                    \/ \E i \in DOMAIN ledger' :
                         /\ i > j /\ Type(i)' = "effect.aborted"
                         /\ ledger'[i].body.attempt_id = ledger'[j].body.attempt_id
  BY DEF UnknownMirrored
<1>3. CASE j = n + 1
  <2>1. b.event_type = "effect.unknown"
    BY <1>2, <1>3
  <2>2. state'.effect = "unknown" /\ state'.effect_attempt_id = b.attempt_id
    BY <2>1, StepFields DEF EffectEvents, EffectTarget
  <2> QED BY <1>1, <1>3, <2>2
<1>4. CASE j # n + 1
  <2>1. j \in DOMAIN ledger /\ Type(j) = "effect.unknown"
    BY <1>1, <1>2, <1>4
  <2>2. CASE \E i \in DOMAIN ledger :
               /\ i > j /\ Type(i) = "effect.aborted"
               /\ ledger[i].body.attempt_id = ledger[j].body.attempt_id
    BY <1>1, <1>2, <2>1, <2>2
  <2>3. CASE /\ state.effect = "unknown"
             /\ state.effect_attempt_id = ledger[j].body.attempt_id
    <3>1. CASE b.event_type \in EffectEvents
      <4>1. b.event_type = "effect.aborted" /\ b.attempt_id = state.effect_attempt_id
        BY <2>3, <3>1, StepFields DEF EffectAccepts, EffectSources, EffectEvents
      <4> QED BY <1>1, <1>2, <2>1, <2>3, <4>1
    <3>2. CASE b.event_type \notin EffectEvents
      <4>1. /\ state'.effect = state.effect
            /\ state'.effect_attempt_id = state.effect_attempt_id
        BY <3>2, StepFields
      <4> QED BY <1>1, <2>1, <2>3, <4>1
    <3> QED BY <3>1, <3>2
  <2> QED BY <2>1, <2>2, <2>3 DEF UnknownMirrored
<1> QED BY <1>3, <1>4

\* While a request is out it is the one asked last, and nothing settled it.
LEMMA ApprovalMirroredStep ==
  ASSUME TypeOK, ApprovalMirrored, NEW b \in Bodies, Append1(b)
  PROVE  ApprovalMirrored'
<1> DEFINE S == {"approval.asked", "approval.decided", "approval.expired"}
<1> SUFFICES ASSUME NEW n, n = Len(ledger),
                    state'.approval \in {"asked", "reassessment_due"}
             PROVE  \E i \in DOMAIN ledger' :
                      /\ LastOf(i, S)'
                      /\ Type(i)' = "approval.asked"
                      /\ state'.approval_request_id = ledger'[i].body.approval_request_id
  BY DEF ApprovalMirrored
<1>1. /\ n \in Nat /\ DOMAIN ledger = 1..n /\ DOMAIN ledger' = 1..(n + 1)
      /\ \A k \in 1..n : ledger'[k] = ledger[k]
      /\ ledger'[n + 1].body = b
  BY Grows
<1>2. Type(n + 1)' = b.event_type /\ \A i \in 1..n : Type(i)' = Type(i)
  BY <1>1 DEF Type
<1>3. CASE b.event_type = "approval.asked"
  <2>1. LastOf(n + 1, S)'
    BY <1>3, LastGrows
  <2>2. state'.approval_request_id = b.approval_request_id
    BY <1>3, StepFields DEF ApprovalEvents
  <2> QED BY <1>1, <1>2, <1>3, <2>1, <2>2
<1>4. CASE b.event_type # "approval.asked"
  <2>1. /\ state.approval \in {"asked", "reassessment_due"}
        /\ state'.approval_request_id = state.approval_request_id
        /\ b.event_type \notin S
    <3>1. CASE b.event_type \in ApprovalEvents
      <4>1. b.event_type = "approval.reassessment_due"
        BY <1>4, <3>1, StepFields DEF ApprovalEvents, ApprovalTarget
      <4> QED BY <3>1, <4>1, StepFields DEF ApprovalAccepts, ApprovalSources
    <3>2. CASE b.event_type \notin ApprovalEvents
      BY <3>2, StepFields DEF ApprovalEvents
    <3> QED BY <3>1, <3>2
  <2>2. PICK i \in DOMAIN ledger :
          /\ LastOf(i, S) /\ Type(i) = "approval.asked"
          /\ state.approval_request_id = ledger[i].body.approval_request_id
    BY <2>1 DEF ApprovalMirrored
  <2>3. LastOf(i, S)'
    BY <2>1, <2>2, LastGrows
  <2> QED BY <1>1, <1>2, <2>1, <2>2, <2>3
<1> QED BY <1>3, <1>4

\* An open intervention answers an attempt that became unknown and was not
\* replaced since.
LEMMA InterventionMirroredStep ==
  ASSUME TypeOK, EffectMirrored, InterventionMirrored, NEW b \in Bodies, Append1(b)
  PROVE  InterventionMirrored'
<1> DEFINE S == {"intervention.opened", "intervention.resolved"}
<1> SUFFICES ASSUME NEW n, n = Len(ledger),
                    state'.intervention \in {"open", "acknowledged"}
             PROVE  \E u, o \in DOMAIN ledger' :
                      /\ u < o /\ Type(u)' = "effect.unknown"
                      /\ Type(o)' = "intervention.opened"
                      /\ \A j \in DOMAIN ledger' : j > u => Type(j)' # "effect.prepared"
                      /\ LastOf(o, S)'
                      /\ state'.effect_attempt_id = ledger'[u].body.attempt_id
                      /\ state'.intervention_id = ledger'[o].body.intervention_id
  BY DEF InterventionMirrored
<1>1. /\ n \in Nat /\ DOMAIN ledger = 1..n /\ DOMAIN ledger' = 1..(n + 1)
      /\ \A k \in 1..n : ledger'[k] = ledger[k]
      /\ ledger'[n + 1].body = b
  BY Grows
<1>2. Type(n + 1)' = b.event_type /\ \A i \in 1..n : Type(i)' = Type(i)
  BY <1>1 DEF Type
<1>3. CASE b.event_type = "intervention.opened"
  <2>1. /\ state.effect = "unknown" /\ state'.effect_attempt_id = state.effect_attempt_id
        /\ state'.intervention_id = b.intervention_id
    BY <1>3, StepFields, DomainsDisjoint DEF InterventionEvents, InterventionAccepts
  <2>2. PICK u \in DOMAIN ledger :
          /\ LastOf(u, EffectEvents)
          /\ state.effect = EffectTarget(Type(u))
          /\ state.effect_attempt_id = ledger[u].body.attempt_id
    BY <2>1 DEF EffectMirrored
  <2>3. Type(u) = "effect.unknown"
    BY <2>1, <2>2 DEF LastOf, EffectTarget, EffectEvents
  <2>4. \A j \in DOMAIN ledger' : j > u => Type(j)' # "effect.prepared"
    BY <1>1, <1>2, <1>3, <2>2 DEF LastOf, EffectEvents
  <2>5. LastOf(n + 1, S)'
    BY <1>3, LastGrows
  <2>6. Type(u)' = "effect.unknown" /\ u < n + 1 /\ ledger'[u] = ledger[u]
        /\ u \in DOMAIN ledger' /\ n + 1 \in DOMAIN ledger'
    BY <1>1, <1>2, <2>3
  <2> QED BY <1>1, <1>2, <1>3, <2>1, <2>2, <2>4, <2>5, <2>6
<1>4. CASE b.event_type # "intervention.opened"
  <2>1. /\ state.intervention \in {"open", "acknowledged"}
        /\ state'.intervention_id = state.intervention_id
        /\ b.event_type \notin S /\ b.event_type # "effect.prepared"
        /\ state'.effect_attempt_id = state.effect_attempt_id
    <3>1. CASE b.event_type \in InterventionEvents
      <4>1. b.event_type = "intervention.acknowledged"
        BY <1>4, <3>1, StepFields DEF InterventionEvents, InterventionTarget
      <4> QED BY <3>1, <4>1, StepFields, DomainsDisjoint
              DEF InterventionAccepts, InterventionSources
    <3>2. CASE b.event_type \notin InterventionEvents
      <4>1. b.event_type # "effect.prepared"
        BY <3>2, StepFields
      <4>2. b.event_type \in EffectEvents => b.attempt_id = state.effect_attempt_id
        BY <4>1, StepFields DEF EffectAccepts
      <4> QED BY <3>2, <4>1, <4>2, StepFields DEF InterventionEvents
    <3> QED BY <3>1, <3>2
  <2>2. PICK u \in DOMAIN ledger, o \in DOMAIN ledger :
          /\ u < o /\ Type(u) = "effect.unknown" /\ Type(o) = "intervention.opened"
          /\ \A j \in DOMAIN ledger : j > u => Type(j) # "effect.prepared"
          /\ LastOf(o, S)
          /\ state.effect_attempt_id = ledger[u].body.attempt_id
          /\ state.intervention_id = ledger[o].body.intervention_id
    BY <2>1 DEF InterventionMirrored
  <2>3. LastOf(o, S)'
    BY <2>1, <2>2, LastGrows
  <2>4. \A j \in DOMAIN ledger' : j > u => Type(j)' # "effect.prepared"
    BY <1>1, <1>2, <2>1, <2>2
  <2> QED BY <1>1, <1>2, <2>1, <2>2, <2>3, <2>4
<1> QED BY <1>3, <1>4

\* The state's generation is that of the last activation, or the initial one.
LEMMA GenerationMirroredStep ==
  ASSUME TypeOK, GenerationMirrored, NEW b \in Bodies, Append1(b)
  PROVE  GenerationMirrored'
<1> SUFFICES ASSUME NEW n, n = Len(ledger) PROVE GenerationMirrored'
  OBVIOUS
<1>1. /\ n \in Nat /\ DOMAIN ledger = 1..n /\ DOMAIN ledger' = 1..(n + 1)
      /\ \A k \in 1..n : ledger'[k] = ledger[k]
      /\ ledger'[n + 1].body = b
  BY Grows
<1>2. Type(n + 1)' = b.event_type /\ \A i \in 1..n : Type(i)' = Type(i)
  BY <1>1 DEF Type
<1>3. CASE b.event_type = Activation
  <2>1. state'.runtime_generation = b.runtime_generation
    BY <1>3, StepFields
  <2>2. \A i \in DOMAIN ledger' : LastOf(i, {Activation})' => i = n + 1
    BY <1>1, <1>2, <1>3 DEF LastOf
  <2>3. ~ \A j \in DOMAIN ledger' : Type(j)' # Activation
    BY <1>1, <1>2, <1>3
  <2>4. \A i \in DOMAIN ledger' : LastOf(i, {Activation})' =>
          state'.runtime_generation = ledger'[i].body.runtime_generation
    BY <1>1, <2>1, <2>2
  <2> QED BY <2>3, <2>4 DEF GenerationMirrored
<1>4. CASE b.event_type # Activation
  <2>1. state'.runtime_generation = state.runtime_generation
    BY <1>4, StepFields
  <2>2. \A i \in DOMAIN ledger' :
          LastOf(i, {Activation})' => i \in DOMAIN ledger /\ LastOf(i, {Activation})
    BY <1>1, <1>2, <1>4 DEF LastOf
  <2>3. (\A j \in DOMAIN ledger' : Type(j)' # Activation) =>
          state'.runtime_generation = Initial.runtime_generation
    BY <1>1, <1>2, <2>1 DEF GenerationMirrored
  <2>4. \A i \in DOMAIN ledger' : LastOf(i, {Activation})' =>
          state'.runtime_generation = ledger'[i].body.runtime_generation
    BY <1>1, <2>1, <2>2 DEF GenerationMirrored
  <2> QED BY <2>3, <2>4 DEF GenerationMirrored
<1> QED BY <1>3, <1>4

\* The mirrors together: the inductive invariant of the theorems below.
Mirrored ==
  /\ EffectMirrored /\ DispatchMirrored /\ VerifiedWasDispatched /\ UnknownMirrored
  /\ ApprovalMirrored /\ InterventionMirrored /\ GenerationMirrored

\* Every reachable state mirrors its chain.
LEMMA AlwaysMirrored == Spec => []Mirrored
<1>1. Init => Mirrored
  <2>1. /\ Initial.effect = "none" /\ Initial.approval = "none"
        /\ Initial.intervention = "none"
    <3>1. PICK w \in Workspace, t \in TaskEpoch, g \in Generation, c \in Context :
            Initial = initial_state(w, t, g, c)
      BY HistoryAssumption
    <3> QED BY <3>1 DEF initial_state
  <2> SUFFICES ASSUME Init PROVE Mirrored
    OBVIOUS
  <2>2. ledger = <<>> /\ DOMAIN ledger = {} /\ state = Initial
    BY DEF Init
  <2> QED BY <2>1, <2>2 DEF Mirrored, EffectMirrored, DispatchMirrored,
             VerifiedWasDispatched, UnknownMirrored, ApprovalMirrored,
             InterventionMirrored, GenerationMirrored
<1>2. TypeOK /\ Mirrored /\ [Next]_vars => Mirrored'
  <2> SUFFICES ASSUME TypeOK, Mirrored, [Next]_vars PROVE Mirrored'
    OBVIOUS
  <2>1. ASSUME NEW b \in Bodies, Append1(b) PROVE Mirrored'
    BY <2>1, EffectMirroredStep, DispatchMirroredStep, VerifiedWasDispatchedStep,
       UnknownMirroredStep, ApprovalMirroredStep, InterventionMirroredStep,
       GenerationMirroredStep DEF Mirrored
  <2>2. CASE UNCHANGED vars
    BY <2>2 DEF vars, Mirrored, EffectMirrored, DispatchMirrored,
       VerifiedWasDispatched, UnknownMirrored, ApprovalMirrored,
       InterventionMirrored, GenerationMirrored, LastOf, Type, IsLastBefore, Between
  <2> QED BY <2>1, <2>2 DEF Next
<1> QED BY <1>1, <1>2, TypeCorrect, PTL DEF Spec

\* When a task succeeds, either no effect was ever prepared or the last thing
\* that happened to an effect is that a dispatched attempt was verified
\* (reducer.py:177-181).
THEOREM SuccessVerified == Spec => []SuccessIsVerified
<1>1. Init => SuccessIsVerified
  BY DEF Init, SuccessIsVerified
<1>2. TypeOK /\ Mirrored /\ SuccessIsVerified /\ [Next]_vars => SuccessIsVerified'
  <2> SUFFICES ASSUME TypeOK, Mirrored, SuccessIsVerified, [Next]_vars PROVE SuccessIsVerified'
    OBVIOUS
  <2>1. ASSUME NEW b \in Bodies, Append1(b) PROVE SuccessIsVerified'
    <3> SUFFICES ASSUME NEW n, n = Len(ledger) PROVE SuccessIsVerified'
      OBVIOUS
    <3>1. /\ n \in Nat /\ DOMAIN ledger = 1..n /\ DOMAIN ledger' = 1..(n + 1)
          /\ \A j \in 1..n : ledger'[j] = ledger[j]
          /\ ledger'[n + 1].body = b
      BY <2>1, Grows
    <3>2. Type(n + 1)' = b.event_type /\ \A j \in 1..n : Type(j)' = Type(j)
      BY <3>1 DEF Type
    <3>3. ASSUME NEW k \in DOMAIN ledger', Type(k)' = "task.succeeded"
          PROVE  \/ \A i \in 1..(k - 1) : Type(i)' \notin EffectEvents
                 \/ \E i, d \in 1..(k - 1) :
                      /\ IsLastBefore(i, k, EffectEvents)' /\ Type(i)' = "effect.verified"
                      /\ IsLastBefore(d, i, {"effect.dispatched"})'
                      /\ ledger'[d].body.attempt_id = ledger'[i].body.attempt_id
      <4>1. CASE k = n + 1
        <5>1. state.effect \in {"none", "verified"}
          BY <2>1, <3>2, <3>3, <4>1, StepFields
        <5>2. CASE state.effect = "none"
          BY <3>1, <3>2, <4>1, <5>2 DEF Mirrored, EffectMirrored
        <5>3. CASE state.effect = "verified"
          <6>1. PICK i \in DOMAIN ledger :
                  /\ LastOf(i, EffectEvents)
                  /\ state.effect = EffectTarget(Type(i))
            BY <5>3 DEF Mirrored, EffectMirrored
          <6>2. Type(i) = "effect.verified"
            BY <5>3, <6>1 DEF LastOf, EffectTarget, EffectEvents
          <6>3. PICK d \in DOMAIN ledger :
                  /\ IsLastBefore(d, i, {"effect.dispatched"})
                  /\ ledger[d].body.attempt_id = ledger[i].body.attempt_id
            BY <6>2 DEF Mirrored, VerifiedWasDispatched
          <6>4. IsLastBefore(i, n + 1, EffectEvents)'
            BY <2>1, <6>1, LastGrows
          <6>5. IsLastBefore(d, i, {"effect.dispatched"})'
            BY <2>1, <6>3, LastGrows
          <6>6. i \in 1..(k - 1) /\ d \in 1..(k - 1)
            BY <3>1, <4>1
          <6> QED BY <3>1, <3>2, <4>1, <6>2, <6>3, <6>4, <6>5, <6>6
        <5> QED BY <5>1, <5>2, <5>3
      <4>2. CASE k # n + 1
        <5>1. k \in DOMAIN ledger /\ Type(k) = "task.succeeded"
          BY <3>1, <3>2, <3>3, <4>2
        <5>2. CASE \A i \in 1..(k - 1) : Type(i) \notin EffectEvents
          BY <3>1, <3>2, <5>1, <5>2
        <5>3. CASE \E i, d \in 1..(k - 1) :
                     /\ IsLastBefore(i, k, EffectEvents) /\ Type(i) = "effect.verified"
                     /\ IsLastBefore(d, i, {"effect.dispatched"})
                     /\ ledger[d].body.attempt_id = ledger[i].body.attempt_id
          <6>1. PICK i \in 1..(k - 1), d \in 1..(k - 1) :
                  /\ IsLastBefore(i, k, EffectEvents) /\ Type(i) = "effect.verified"
                  /\ IsLastBefore(d, i, {"effect.dispatched"})
                  /\ ledger[d].body.attempt_id = ledger[i].body.attempt_id
            BY <5>3
          <6>2. i \in DOMAIN ledger /\ d \in DOMAIN ledger
            BY <3>1, <5>1
          <6>3. IsLastBefore(i, k, EffectEvents)'
            BY <2>1, <5>1, <6>1, <6>2, LastGrows
          <6>4. IsLastBefore(d, i, {"effect.dispatched"})'
            BY <2>1, <6>1, <6>2, LastGrows
          <6> QED BY <3>1, <3>2, <6>1, <6>2, <6>3, <6>4
        <5> QED BY <5>1, <5>2, <5>3 DEF SuccessIsVerified
      <4> QED BY <4>1, <4>2
    <3> QED BY <3>3 DEF SuccessIsVerified
  <2>2. CASE UNCHANGED vars
    BY <2>2 DEF vars, SuccessIsVerified, Type, IsLastBefore, Between
  <2> QED BY <2>1, <2>2 DEF Next
<1> QED BY <1>1, <1>2, TypeCorrect, AlwaysMirrored, PTL DEF Spec

\* An unknown outcome is never dispatched or prepared again before that very
\* attempt was aborted (reducer.py:215-240).
THEOREM UnknownSettledFirst == Spec => []UnknownNotRetried
<1>1. Init => UnknownNotRetried
  BY DEF Init, UnknownNotRetried
<1>2. TypeOK /\ Mirrored /\ UnknownNotRetried /\ [Next]_vars => UnknownNotRetried'
  <2> SUFFICES ASSUME TypeOK, Mirrored, UnknownNotRetried, [Next]_vars PROVE UnknownNotRetried'
    OBVIOUS
  <2>1. ASSUME NEW b \in Bodies, Append1(b) PROVE UnknownNotRetried'
    <3> SUFFICES ASSUME NEW n, n = Len(ledger) PROVE UnknownNotRetried'
      OBVIOUS
    <3>1. /\ n \in Nat /\ DOMAIN ledger = 1..n /\ DOMAIN ledger' = 1..(n + 1)
          /\ \A j \in 1..n : ledger'[j] = ledger[j]
          /\ ledger'[n + 1].body = b
      BY <2>1, Grows
    <3>2. Type(n + 1)' = b.event_type /\ \A j \in 1..n : Type(j)' = Type(j)
      BY <3>1 DEF Type
    <3>3. ASSUME NEW j \in DOMAIN ledger', NEW k \in DOMAIN ledger',
                 j < k, Type(j)' = "effect.unknown",
                 Type(k)' \in {"effect.prepared", "effect.dispatched"}
          PROVE  \E i \in Between(j, k, {"effect.aborted"})' :
                   ledger'[i].body.attempt_id = ledger'[j].body.attempt_id
      <4>1. j \in DOMAIN ledger /\ Type(j) = "effect.unknown"
        BY <3>1, <3>2, <3>3
      <4>2. CASE k = n + 1
        <5>1. b.event_type \in {"effect.prepared", "effect.dispatched"}
          BY <3>2, <3>3, <4>2
        <5>2. b.event_type \in EffectEvents
          BY <5>1 DEF EffectEvents
        <5>3. state.effect # "unknown"
          BY <2>1, <5>1, <5>2, StepFields DEF EffectAccepts, EffectSources
        <5>4. PICK i \in DOMAIN ledger :
                /\ i > j /\ Type(i) = "effect.aborted"
                /\ ledger[i].body.attempt_id = ledger[j].body.attempt_id
          BY <4>1, <5>3 DEF Mirrored, UnknownMirrored
        <5>5. i \in (j + 1)..(k - 1) /\ Type(i)' = "effect.aborted"
          BY <3>1, <3>2, <4>1, <4>2, <5>4
        <5> QED BY <3>1, <4>1, <5>4, <5>5 DEF Between
      <4>3. CASE k # n + 1
        <5>1. k \in DOMAIN ledger /\ Type(k) \in {"effect.prepared", "effect.dispatched"}
          BY <3>1, <3>2, <3>3, <4>3
        <5>2. PICK i \in Between(j, k, {"effect.aborted"}) :
                ledger[i].body.attempt_id = ledger[j].body.attempt_id
          BY <3>3, <4>1, <5>1 DEF UnknownNotRetried
        <5>3. i \in (j + 1)..(k - 1) /\ Type(i) = "effect.aborted" /\ i \in DOMAIN ledger
          BY <3>1, <4>1, <5>1, <5>2 DEF Between
        <5> QED BY <3>1, <3>2, <4>1, <5>2, <5>3 DEF Between
      <4> QED BY <4>2, <4>3
    <3> QED BY <3>3 DEF UnknownNotRetried
  <2>2. CASE UNCHANGED vars
    BY <2>2 DEF vars, UnknownNotRetried, Type, IsLastBefore, Between
  <2> QED BY <2>1, <2>2 DEF Next
<1> QED BY <1>1, <1>2, TypeCorrect, AlwaysMirrored, PTL DEF Spec

\* Every dispatch spends a preparation of the same attempt that nothing has
\* touched since (reducer.py:215-240).
THEOREM DispatchPrepared == Spec => []DispatchSpendsPreparation
<1>1. Init => DispatchSpendsPreparation
  BY DEF Init, DispatchSpendsPreparation
<1>2. TypeOK /\ Mirrored /\ DispatchSpendsPreparation /\ [Next]_vars => DispatchSpendsPreparation'
  <2> SUFFICES ASSUME TypeOK, Mirrored, DispatchSpendsPreparation, [Next]_vars PROVE DispatchSpendsPreparation'
    OBVIOUS
  <2>1. ASSUME NEW b \in Bodies, Append1(b) PROVE DispatchSpendsPreparation'
    <3> SUFFICES ASSUME NEW n, n = Len(ledger) PROVE DispatchSpendsPreparation'
      OBVIOUS
    <3>1. /\ n \in Nat /\ DOMAIN ledger = 1..n /\ DOMAIN ledger' = 1..(n + 1)
          /\ \A j \in 1..n : ledger'[j] = ledger[j]
          /\ ledger'[n + 1].body = b
      BY <2>1, Grows
    <3>2. Type(n + 1)' = b.event_type /\ \A j \in 1..n : Type(j)' = Type(j)
      BY <3>1 DEF Type
    <3>3. ASSUME NEW k \in DOMAIN ledger', Type(k)' = "effect.dispatched"
          PROVE  \E i \in 1..(k - 1) :
                   /\ IsLastBefore(i, k, EffectEvents)'
                   /\ Type(i)' = "effect.prepared"
                   /\ ledger'[i].body.attempt_id = ledger'[k].body.attempt_id
      <4>1. CASE k = n + 1
        <5>1. b.event_type = "effect.dispatched"
          BY <3>2, <3>3, <4>1
        <5>2. b.event_type \in EffectEvents
          BY <5>1 DEF EffectEvents
        <5>3. state.effect = "prepared" /\ b.attempt_id = state.effect_attempt_id
          BY <2>1, <5>1, <5>2, StepFields DEF EffectAccepts, EffectSources
        <5>4. PICK i \in DOMAIN ledger :
                /\ LastOf(i, EffectEvents)
                /\ state.effect = EffectTarget(Type(i))
                /\ state.effect_attempt_id = ledger[i].body.attempt_id
          BY <5>3 DEF Mirrored, EffectMirrored
        <5>5. Type(i) = "effect.prepared"
          BY <5>3, <5>4 DEF LastOf, EffectTarget, EffectEvents
        <5>6. IsLastBefore(i, n + 1, EffectEvents)'
          BY <2>1, <5>4, LastGrows
        <5> QED BY <3>1, <3>2, <4>1, <5>3, <5>4, <5>5, <5>6
      <4>2. CASE k # n + 1
        <5>1. k \in DOMAIN ledger /\ Type(k) = "effect.dispatched"
          BY <3>1, <3>2, <3>3, <4>2
        <5>2. PICK i \in 1..(k - 1) :
                /\ IsLastBefore(i, k, EffectEvents)
                /\ Type(i) = "effect.prepared"
                /\ ledger[i].body.attempt_id = ledger[k].body.attempt_id
          BY <5>1 DEF DispatchSpendsPreparation
        <5>3. i \in DOMAIN ledger
          BY <3>1, <5>1
        <5>4. IsLastBefore(i, k, EffectEvents)'
          BY <2>1, <5>1, <5>2, <5>3, LastGrows
        <5> QED BY <3>1, <3>2, <5>1, <5>2, <5>3, <5>4
      <4> QED BY <4>1, <4>2
    <3> QED BY <3>3 DEF DispatchSpendsPreparation
  <2>2. CASE UNCHANGED vars
    BY <2>2 DEF vars, DispatchSpendsPreparation, Type, IsLastBefore, Between
  <2> QED BY <2>1, <2>2 DEF Next
<1> QED BY <1>1, <1>2, TypeCorrect, AlwaysMirrored, PTL DEF Spec

\* An approval is decided or expires at most once per asking, and only for the
\* request asked last (reducer.py:189-212).
THEOREM ApprovalOnce == Spec => []ApprovalSettledOnce
<1>1. Init => ApprovalSettledOnce
  BY DEF Init, ApprovalSettledOnce
<1>2. TypeOK /\ Mirrored /\ ApprovalSettledOnce /\ [Next]_vars => ApprovalSettledOnce'
  <2> SUFFICES ASSUME TypeOK, Mirrored, ApprovalSettledOnce, [Next]_vars PROVE ApprovalSettledOnce'
    OBVIOUS
  <2>1. ASSUME NEW b \in Bodies, Append1(b) PROVE ApprovalSettledOnce'
    <3> SUFFICES ASSUME NEW n, n = Len(ledger) PROVE ApprovalSettledOnce'
      OBVIOUS
    <3>1. /\ n \in Nat /\ DOMAIN ledger = 1..n /\ DOMAIN ledger' = 1..(n + 1)
          /\ \A j \in 1..n : ledger'[j] = ledger[j]
          /\ ledger'[n + 1].body = b
      BY <2>1, Grows
    <3>2. Type(n + 1)' = b.event_type /\ \A j \in 1..n : Type(j)' = Type(j)
      BY <3>1 DEF Type
    <3> DEFINE S == {"approval.asked", "approval.decided", "approval.expired"}
    <3>3. ASSUME NEW k \in DOMAIN ledger',
                 Type(k)' \in {"approval.decided", "approval.expired"}
          PROVE  \E i \in 1..(k - 1) :
                   /\ IsLastBefore(i, k, S)'
                   /\ Type(i)' = "approval.asked"
                   /\ ledger'[i].body.approval_request_id
                        = ledger'[k].body.approval_request_id
      <4>1. CASE k = n + 1
        <5>1. b.event_type \in {"approval.decided", "approval.expired"}
          BY <3>2, <3>3, <4>1
        <5>2. b.event_type \in ApprovalEvents
          BY <5>1 DEF ApprovalEvents
        <5>3. /\ state.approval \in {"asked", "reassessment_due"}
              /\ b.approval_request_id = state.approval_request_id
          BY <2>1, <5>1, <5>2, StepFields DEF ApprovalAccepts, ApprovalSources
        <5>4. PICK i \in DOMAIN ledger :
                /\ LastOf(i, S) /\ Type(i) = "approval.asked"
                /\ state.approval_request_id = ledger[i].body.approval_request_id
          BY <5>3 DEF Mirrored, ApprovalMirrored
        <5>5. IsLastBefore(i, n + 1, S)'
          BY <2>1, <5>4, LastGrows
        <5> QED BY <3>1, <3>2, <4>1, <5>3, <5>4, <5>5
      <4>2. CASE k # n + 1
        <5>1. k \in DOMAIN ledger /\ Type(k) \in {"approval.decided", "approval.expired"}
          BY <3>1, <3>2, <3>3, <4>2
        <5>2. PICK i \in 1..(k - 1) :
                /\ IsLastBefore(i, k, S) /\ Type(i) = "approval.asked"
                /\ ledger[i].body.approval_request_id = ledger[k].body.approval_request_id
          BY <5>1 DEF ApprovalSettledOnce
        <5>3. i \in DOMAIN ledger
          BY <3>1, <5>1
        <5>4. IsLastBefore(i, k, S)'
          BY <2>1, <5>1, <5>2, <5>3, LastGrows
        <5> QED BY <3>1, <3>2, <5>1, <5>2, <5>3, <5>4
      <4> QED BY <4>1, <4>2
    <3> QED BY <3>3 DEF ApprovalSettledOnce
  <2>2. CASE UNCHANGED vars
    BY <2>2 DEF vars, ApprovalSettledOnce, Type, IsLastBefore, Between
  <2> QED BY <2>1, <2>2 DEF Next
<1> QED BY <1>1, <1>2, TypeCorrect, AlwaysMirrored, PTL DEF Spec

\* An intervention is acknowledged or resolved only after it was opened for an
\* attempt that had become unknown and was not replaced since (reducer.py:243-275).
THEOREM InterventionAnswers == Spec => []InterventionAnswersUnknown
<1>1. Init => InterventionAnswersUnknown
  BY DEF Init, InterventionAnswersUnknown
<1>2. TypeOK /\ Mirrored /\ InterventionAnswersUnknown /\ [Next]_vars => InterventionAnswersUnknown'
  <2> SUFFICES ASSUME TypeOK, Mirrored, InterventionAnswersUnknown, [Next]_vars PROVE InterventionAnswersUnknown'
    OBVIOUS
  <2>1. ASSUME NEW b \in Bodies, Append1(b) PROVE InterventionAnswersUnknown'
    <3> SUFFICES ASSUME NEW n, n = Len(ledger) PROVE InterventionAnswersUnknown'
      OBVIOUS
    <3>1. /\ n \in Nat /\ DOMAIN ledger = 1..n /\ DOMAIN ledger' = 1..(n + 1)
          /\ \A j \in 1..n : ledger'[j] = ledger[j]
          /\ ledger'[n + 1].body = b
      BY <2>1, Grows
    <3>2. Type(n + 1)' = b.event_type /\ \A j \in 1..n : Type(j)' = Type(j)
      BY <3>1 DEF Type
    <3>3. ASSUME NEW k \in DOMAIN ledger',
                 Type(k)' \in {"intervention.acknowledged", "intervention.resolved"}
          PROVE  \E u, o \in 1..(k - 1) :
                   /\ u < o
                   /\ Type(u)' = "effect.unknown" /\ Type(o)' = "intervention.opened"
                   /\ Between(u, k, {"effect.prepared"})' = {}
                   /\ Between(o, k, {"intervention.opened", "intervention.resolved"})' = {}
                   /\ ledger'[u].body.attempt_id = ledger'[k].body.attempt_id
                   /\ ledger'[o].body.intervention_id = ledger'[k].body.intervention_id
      <4>1. CASE k = n + 1
        <5>1. b.event_type \in {"intervention.acknowledged", "intervention.resolved"}
          BY <3>2, <3>3, <4>1
        <5>2. b.event_type \in InterventionEvents
          BY <5>1 DEF InterventionEvents
        <5>3. /\ state.intervention \in {"open", "acknowledged"}
              /\ b.attempt_id = state.effect_attempt_id
              /\ b.intervention_id = state.intervention_id
          BY <2>1, <5>1, <5>2, StepFields DEF InterventionAccepts, InterventionSources
        <5>4. PICK u \in DOMAIN ledger, o \in DOMAIN ledger :
                /\ u < o /\ Type(u) = "effect.unknown" /\ Type(o) = "intervention.opened"
                /\ \A j \in DOMAIN ledger : j > u => Type(j) # "effect.prepared"
                /\ LastOf(o, {"intervention.opened", "intervention.resolved"})
                /\ state.effect_attempt_id = ledger[u].body.attempt_id
                /\ state.intervention_id = ledger[o].body.intervention_id
          BY <5>3 DEF Mirrored, InterventionMirrored
        <5>5. Between(u, k, {"effect.prepared"})' = {}
          BY <3>1, <3>2, <4>1, <5>4 DEF Between
        <5>6. Between(o, k, {"intervention.opened", "intervention.resolved"})' = {}
          BY <3>1, <3>2, <4>1, <5>4 DEF Between, LastOf
        <5>7. u \in 1..(k - 1) /\ o \in 1..(k - 1)
          BY <3>1, <4>1
        <5> QED BY <3>1, <3>2, <4>1, <5>3, <5>4, <5>5, <5>6, <5>7
      <4>2. CASE k # n + 1
        <5>1. /\ k \in DOMAIN ledger
              /\ Type(k) \in {"intervention.acknowledged", "intervention.resolved"}
          BY <3>1, <3>2, <3>3, <4>2
        <5>2. PICK u \in 1..(k - 1), o \in 1..(k - 1) :
                /\ u < o
                /\ Type(u) = "effect.unknown" /\ Type(o) = "intervention.opened"
                /\ Between(u, k, {"effect.prepared"}) = {}
                /\ Between(o, k, {"intervention.opened", "intervention.resolved"}) = {}
                /\ ledger[u].body.attempt_id = ledger[k].body.attempt_id
                /\ ledger[o].body.intervention_id = ledger[k].body.intervention_id
          BY <5>1 DEF InterventionAnswersUnknown
        <5>3. \A i \in 1..(k - 1) : i \in 1..n /\ i \in DOMAIN ledger
          BY <3>1, <5>1
        <5>4. Between(u, k, {"effect.prepared"})' = {}
          BY <3>1, <3>2, <5>1, <5>2, <5>3 DEF Between
        <5>5. Between(o, k, {"intervention.opened", "intervention.resolved"})' = {}
          BY <3>1, <3>2, <5>1, <5>2, <5>3 DEF Between
        <5> QED BY <3>1, <3>2, <5>1, <5>2, <5>3, <5>4, <5>5
      <4> QED BY <4>1, <4>2
    <3> QED BY <3>3 DEF InterventionAnswersUnknown
  <2>2. CASE UNCHANGED vars
    BY <2>2 DEF vars, InterventionAnswersUnknown, Type, IsLastBefore, Between
  <2> QED BY <2>1, <2>2 DEF Next
<1> QED BY <1>1, <1>2, TypeCorrect, AlwaysMirrored, PTL DEF Spec

\* No event of a replaced generation follows the activation that replaced it
\* (reducer.py:286-320).
THEOREM GenerationFenced == Spec => []GenerationsNotMixed
<1>1. Init => GenerationsNotMixed
  BY DEF Init, GenerationsNotMixed
<1>2. TypeOK /\ Mirrored /\ GenerationsNotMixed /\ [Next]_vars => GenerationsNotMixed'
  <2> SUFFICES ASSUME TypeOK, Mirrored, GenerationsNotMixed, [Next]_vars PROVE GenerationsNotMixed'
    OBVIOUS
  <2>1. ASSUME NEW b \in Bodies, Append1(b) PROVE GenerationsNotMixed'
    <3> SUFFICES ASSUME NEW n, n = Len(ledger) PROVE GenerationsNotMixed'
      OBVIOUS
    <3>1. /\ n \in Nat /\ DOMAIN ledger = 1..n /\ DOMAIN ledger' = 1..(n + 1)
          /\ \A j \in 1..n : ledger'[j] = ledger[j]
          /\ ledger'[n + 1].body = b
      BY <2>1, Grows
    <3>2. Type(n + 1)' = b.event_type /\ \A j \in 1..n : Type(j)' = Type(j)
      BY <3>1 DEF Type
    <3>3. ASSUME NEW k \in DOMAIN ledger'
          PROVE  /\ (\A i \in 1..k : Type(i)' # Activation) =>
                      ledger'[k].body.runtime_generation = Initial.runtime_generation
                 /\ \A i \in 1..k :
                      /\ Type(i)' = Activation
                      /\ Between(i, k + 1, {Activation})' = {}
                      => ledger'[i].body.runtime_generation
                           = ledger'[k].body.runtime_generation
      <4>1. CASE k = n + 1
        <5>1. CASE b.event_type = Activation
          <6>1. \A i \in 1..k : Between(i, k + 1, {Activation})' = {} => i = k
            BY <3>1, <3>2, <4>1, <5>1 DEF Between
          <6> QED BY <3>1, <3>2, <4>1, <5>1, <6>1
        <5>2. CASE b.event_type # Activation
          <6>1. b.runtime_generation = state.runtime_generation
            BY <2>1, <5>2, StepFields
          <6>2. (\A i \in 1..k : Type(i)' # Activation) =>
                  b.runtime_generation = Initial.runtime_generation
            BY <3>1, <3>2, <4>1, <6>1 DEF Mirrored, GenerationMirrored
          <6>3. ASSUME NEW i \in 1..k, Type(i)' = Activation,
                       Between(i, k + 1, {Activation})' = {}
                PROVE  ledger'[i].body.runtime_generation = b.runtime_generation
            <7>1. i \in DOMAIN ledger /\ Type(i) = Activation /\ ledger'[i] = ledger[i]
              BY <3>1, <3>2, <4>1, <5>2, <6>3
            <7>2. LastOf(i, {Activation})
              BY <3>1, <3>2, <4>1, <6>3, <7>1 DEF LastOf, Between
            <7> QED BY <6>1, <7>1, <7>2 DEF Mirrored, GenerationMirrored
          <6> QED BY <3>1, <4>1, <6>2, <6>3
        <5> QED BY <5>1, <5>2
      <4>2. CASE k # n + 1
        <5>1. k \in DOMAIN ledger /\ \A i \in 1..k : i \in 1..n
          BY <3>1, <4>2
        <5>2. (\A i \in 1..k : Type(i) # Activation) =>
                ledger[k].body.runtime_generation = Initial.runtime_generation
          BY <5>1 DEF GenerationsNotMixed
        <5>3. ASSUME NEW i \in 1..k, Type(i)' = Activation,
                     Between(i, k + 1, {Activation})' = {}
              PROVE  ledger[i].body.runtime_generation = ledger[k].body.runtime_generation
          <6>1. Type(i) = Activation
            BY <3>2, <5>1, <5>3
          <6>2. Between(i, k + 1, {Activation}) = {}
            BY <3>1, <3>2, <5>1, <5>3 DEF Between
          <6> QED BY <5>1, <6>1, <6>2 DEF GenerationsNotMixed
        <5> QED BY <3>1, <3>2, <5>1, <5>2, <5>3
      <4> QED BY <4>1, <4>2
    <3> QED BY <3>3 DEF GenerationsNotMixed
  <2>2. CASE UNCHANGED vars
    BY <2>2 DEF vars, GenerationsNotMixed, Type, IsLastBefore, Between
  <2> QED BY <2>1, <2>2 DEF Next
<1> QED BY <1>1, <1>2, TypeCorrect, AlwaysMirrored, PTL DEF Spec
=============================================================================
