--------------------------- MODULE GuardianHistory ---------------------------
(***************************************************************************)
(* The reducer driven by every chain of events it accepts: the ledger is   *)
(* the chain so far and the state is its projection.  A refused event      *)
(* (TransitionError) changes nothing and is no step.                       *)
(***************************************************************************)
EXTENDS GuardianReducer

CONSTANTS
  Bodies,      \* the submissions producers may make
  Initial,     \* the initial GuardianState
  MaxEvents    \* bound on the length of the chain (TLC only)

ASSUME HistoryAssumption ==
  /\ Bodies \subseteq Submission
  /\ Initial \in {initial_state(w, t, g, c) : w \in Workspace, t \in TaskEpoch,
                                              g \in Generation, c \in Context}
  /\ MaxEvents \in Nat

VARIABLES state, ledger
vars == <<state, ledger>>

Init == state = Initial /\ ledger = <<>>

Append1(b) ==
  LET e == NextEnvelope(state, b)
  IN  /\ Accepts(state, e)
      /\ state' = Apply(state, e)
      /\ ledger' = Append(ledger, e)

Next == Len(ledger) < MaxEvents /\ \E b \in Bodies : Append1(b)

Spec == Init /\ [][Next]_vars
-----------------------------------------------------------------------------
Type(k) == ledger[k].body.event_type

\* Positions strictly between j and k that hold an event of one of the types.
Between(j, k, types) == {i \in (j + 1)..(k - 1) : Type(i) \in types}

\* i is the last position before k with an event of one of the types.
IsLastBefore(i, k, types) ==
  i \in 1..(k - 1) /\ Type(i) \in types /\ Between(i, k, types) = {}

TypeOK == state \in GuardianState /\ ledger \in Seq(Envelope)

\* The persisted form of every reachable state can be read back: identifiers
\* are present exactly when their domain is in use.  A state that breaks this
\* makes every later drain and submit of the store fail.
StateDecodable == Decodable(state)

\* A chain holds at most one terminal task event, and the state names it.
OneTerminal ==
  \A j, k \in DOMAIN ledger :
    /\ Type(j) \in {"task.succeeded", "task.failed", "task.inconclusive"}
    /\ Type(k) \in {"task.succeeded", "task.failed", "task.inconclusive"}
    => j = k /\ state.terminal_event_id = ledger[k].event_id

\* When a task succeeds, either no effect was ever prepared or the last thing
\* that happened to an effect is that a dispatched attempt was verified.
SuccessIsVerified ==
  \A k \in DOMAIN ledger : Type(k) = "task.succeeded" =>
    \/ \A i \in 1..(k - 1) : Type(i) \notin EffectEvents
    \/ \E i, d \in 1..(k - 1) :
         /\ IsLastBefore(i, k, EffectEvents) /\ Type(i) = "effect.verified"
         /\ IsLastBefore(d, i, {"effect.dispatched"})
         /\ ledger[d].body.attempt_id = ledger[i].body.attempt_id

\* An effect whose outcome is unknown is never dispatched or prepared again
\* before someone has aborted that very attempt.
UnknownNotRetried ==
  \A j, k \in DOMAIN ledger :
    /\ j < k /\ Type(j) = "effect.unknown"
    /\ Type(k) \in {"effect.prepared", "effect.dispatched"}
    => \E i \in Between(j, k, {"effect.aborted"}) :
         ledger[i].body.attempt_id = ledger[j].body.attempt_id

\* Every dispatch spends one preparation of the same attempt: between two
\* dispatches there is a preparation.
DispatchSpendsPreparation ==
  \A k \in DOMAIN ledger : Type(k) = "effect.dispatched" =>
    \E i \in 1..(k - 1) :
      /\ IsLastBefore(i, k, EffectEvents)
      /\ Type(i) = "effect.prepared"
      /\ ledger[i].body.attempt_id = ledger[k].body.attempt_id

\* An approval is decided or expires at most once per asking, and only for the
\* request asked last; a reassessment in between neither decides nor expires it.
ApprovalSettledOnce ==
  \A k \in DOMAIN ledger :
    Type(k) \in {"approval.decided", "approval.expired"} =>
      \E i \in 1..(k - 1) :
        /\ IsLastBefore(i, k, {"approval.asked", "approval.decided",
                               "approval.expired"})
        /\ Type(i) = "approval.asked"
        /\ ledger[i].body.approval_request_id
             = ledger[k].body.approval_request_id

\* Acknowledging or resolving an intervention answers one that was opened, for
\* the same attempt, after that attempt became unknown and before a new attempt
\* was prepared.
InterventionAnswersUnknown ==
  \A k \in DOMAIN ledger :
    Type(k) \in {"intervention.acknowledged", "intervention.resolved"} =>
      \E u, o \in 1..(k - 1) :
        /\ u < o
        /\ Type(u) = "effect.unknown" /\ Type(o) = "intervention.opened"
        /\ Between(u, k, {"effect.prepared"}) = {}
        /\ Between(o, k, {"intervention.opened", "intervention.resolved"}) = {}
        /\ ledger[u].body.attempt_id = ledger[k].body.attempt_id
        /\ ledger[o].body.intervention_id = ledger[k].body.intervention_id

\* No event of a replaced generation follows the activation that replaced it.
GenerationsNotMixed ==
  \A k \in DOMAIN ledger :
    LET gen == ledger[k].body.runtime_generation
        acts == {i \in 1..k : Type(i) = Activation}
    IN  /\ acts = {} => gen = Initial.runtime_generation
        /\ \A i \in acts :
             Between(i, k + 1, {Activation}) = {} =>
               ledger[i].body.runtime_generation = gen
=============================================================================
