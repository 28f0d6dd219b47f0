----------------------------- MODULE EffectRows -----------------------------
(***************************************************************************)
(* The effect log of a contract (scripts/kb/intervention.py).  Rows are    *)
(* only ever appended, and what is true of an external effect is what      *)
(* _apply_event makes of the rows from the first to the last.  A row it    *)
(* refuses makes every later replay raise: the log is then unreadable.     *)
(*                                                                         *)
(* The value of a log is a projection: the attempts in order of creation   *)
(* (a fresh idempotency key makes the next one), the cards (interventions) *)
(* in order of opening, and whether replay succeeds.                       *)
(***************************************************************************)
EXTENDS Integers, Sequences, FiniteSets, SequencesExt

CONSTANTS
  Sessions,      \* host sessions, all of one provider
  Operations,    \* what an effect can be about
  Unsupported,   \* the verification kind that nothing can prove
  RiskReviewed   \* operations whose conflict with a debt a human may accept

\* An operation names its typed resource and the postcondition an independent
\* read can prove; equal operations have one operation fingerprint.
ASSUME OperationsAreTyped ==
  \A i \in Operations : DOMAIN i = {"res", "content"}
ASSUME RiskReviewedOperations == RiskReviewed \subseteq Operations

ATTEMPT_STATES ==
  {"dispatched", "accepted", "verifying", "unknown", "system_verified",
   "human_attested_success", "confirmed_failed"}
InFlight == {"dispatched", "accepted", "verifying"}
ACTIVE_ATTEMPT_STATES == InFlight \cup {"unknown"}
SettledStates == ATTEMPT_STATES \ ACTIVE_ATTEMPT_STATES
Takeovers == {"reprobe_authorized", "retry_authorized"}
Attestations == {"human_attested_success", "confirmed_failed"}
HUMAN_DECISIONS == Attestations \cup Takeovers \cup {"abort"}
RESOLUTION_DECISIONS == HUMAN_DECISIONS \cup {"system_verified", "system_compensated"}

TRANSITIONS ==
  {<<"dispatched", "accepted">>, <<"accepted", "verifying">>,
   <<"verifying", "system_verified">>}
    \cup (InFlight \X {"unknown"}) \cup ({"unknown"} \X SettledStates)

\* An open card has not been decided; an acknowledged one counts as open.
Attempt ==
  [state : ATTEMPT_STATES, session : Sessions, ident : Operations,
   past : Seq(Operations), compensates : Nat, retry : Nat, risk : Nat,
   accepted : SUBSET Nat]
Card ==
  [call : Nat, decision : RESOLUTION_DECISIONS \cup {"open"}, sealed : Operations,
   lane : Sessions, consumer : Nat, probed : BOOLEAN, basis : Operations]

\* What a risk card shows: the unresolved attempts and their cards.
Debt == [attempts : SUBSET (Nat \X Attempt), cards : SUBSET (Nat \X Card)]
NoDebt == [attempts |-> {}, cards |-> {}]
accepted_attempt_ids(debt) == {shown[1] : shown \in debt.attempts}

EmptyLog == [attempts |-> <<>>, cards |-> <<>>, readable |-> TRUE]
Unreadable == [EmptyLog EXCEPT !.readable = FALSE]

-----------------------------------------------------------------------------
Known(p) == DOMAIN p.attempts
State(p, k) == IF k \in Known(p) THEN p.attempts[k].state ELSE "absent"
CardsOf(p, k) == {c \in DOMAIN p.cards : p.cards[c].call = k}
OpenCards(p, k) == {c \in CardsOf(p, k) : p.cards[c].decision = "open"}
\* history[-1]: the decision on the call's latest card.
LatestDecision(p, k) ==
  IF CardsOf(p, k) = {} THEN "none" ELSE p.cards[Max(CardsOf(p, k))].decision

SameResource(a, b) == a.res = b.res

-----------------------------------------------------------------------------
\* Attempts whose external truth still forbids a write to what they touch.
Blocks(p, k) ==
  \/ State(p, k) \in InFlight
  \/ /\ State(p, k) = "unknown"
     /\ \/ LatestDecision(p, k) \in {"none", "open", "reprobe_authorized", "abort"}
        \/ /\ LatestDecision(p, k) = "retry_authorized"
           /\ p.cards[Max(CardsOf(p, k))].consumer = 0
\* Slip: a debt whose conflict a human accepted for another call is forgiven.
blocking_attempts_SlipForgiven(p) ==
  {k \in Known(p) : Blocks(p, k) /\ \A h \in Known(p) : k \notin p.attempts[h].accepted}
blocking_attempts(p) == {k \in Known(p) : Blocks(p, k)}

\* The card is closed by an abort; the attempt still blocks its resource.
terminal_quarantined_attempts(p) ==
  {k \in Known(p) : State(p, k) = "unknown" /\ LatestDecision(p, k) = "abort"}

\* Slip: only the present identity is compared.
blocker_resource_match_Slip(attempt, ident) == SameResource(attempt.ident, ident)

\* A blocker is met under its present identity and every earlier one.
blocker_resource_match(attempt, ident) ==
  \E i \in Range(attempt.past) \cup {attempt.ident} : SameResource(i, ident)

\* The latest unspent retry grant for this very operation from this session.
RetryGrants(p, session, ident) ==
  {c \in DOMAIN p.cards :
     LET card == p.cards[c] IN
       /\ c = Max(CardsOf(p, card.call))
       /\ card.decision = "retry_authorized" /\ card.consumer = 0
       /\ card.sealed = ident
       /\ card.lane = session
       /\ State(p, card.call) = "unknown"}
matching_retry(p, session, ident) == Max(RetryGrants(p, session, ident) \cup {0})

\* A human may be asked to accept a conflict when nothing in its way is still
\* on its way, and no retry authority already answers for it.
RiskReviewable(p, session, ident) ==
  /\ ident \in RiskReviewed
  /\ matching_retry(p, session, ident) = 0
  /\ \E k \in blocking_attempts(p) : blocker_resource_match(p.attempts[k], ident)
  /\ \A k \in blocking_attempts(p) : State(p, k) \in {"unknown", "verifying"}

\* Every unresolved effect, of whatever resource, and all that was decided on it.
effect_risk_review_context(p) ==
  [attempts |-> {<<k, p.attempts[k]>> : k \in blocking_attempts(p)},
   cards |-> {<<c, p.cards[c]>> :
                c \in {c \in DOMAIN p.cards : p.cards[c].call \in blocking_attempts(p)}}]

-----------------------------------------------------------------------------
\* Settlement links need the same resource as it is now known.
Compensable(p, k, ident) ==
  /\ State(p, k) = "unknown"
  /\ SameResource(p.attempts[k].ident, ident)
  /\ OpenCards(p, k) # {}

Created(session, ident, compensates, retry, risk, debt) ==
  [type |-> "attempt_created", session |-> session, ident |-> ident,
   compensates |-> compensates, retry |-> retry, risk |-> risk, debt |-> debt]
Moved(k, state) == [type |-> "attempt_transitioned", call |-> k, state |-> state]
Rebound(k, ident) == [type |-> "attempt_target_resolved", call |-> k, ident |-> ident]
Opened(k, recovery) == [type |-> "intervention_opened", call |-> k, recovery |-> recovery]
Resolved(c, decision, lane, compensator) ==
  [type |-> "intervention_resolved", card |-> c, decision |-> decision, lane |-> lane,
   compensator |-> compensator]
Probed(c) == [type |-> "reprobe_consumed", card |-> c]

RetryFits(p, row) ==
  /\ row.retry \in DOMAIN p.cards
  /\ LET card == p.cards[row.retry] IN
       /\ card.decision = "retry_authorized"
       /\ card.consumer = 0
       /\ State(p, card.call) = "unknown"
       /\ card.lane = row.session
       /\ p.attempts[card.call].ident = row.ident

\* A review is reopened on new evidence only, and only after an abort.
NewEvidence(p, k) ==
  /\ LatestDecision(p, k) = "abort"
  /\ p.attempts[k].ident.content # Unsupported
  /\ \A c \in CardsOf(p, k) :
       p.cards[c].decision = "abort" => p.cards[c].basis # p.attempts[k].ident

\* Slip: an accepted card may be linked again once its debts look the same.
RiskFits_SlipRelinked(p, row) ==
  /\ row.retry = 0 /\ row.compensates = 0
  /\ RiskReviewable(p, row.session, row.ident)
  /\ row.debt = effect_risk_review_context(p)

\* An accepted card is linked to one attempt, and to the debts it showed.
RiskFits(p, row) ==
  /\ row.retry = 0 /\ row.compensates = 0
  /\ RiskReviewable(p, row.session, row.ident)
  /\ row.debt = effect_risk_review_context(p)
  /\ \A k \in Known(p) : p.attempts[k].risk # row.risk

CreationFits(p, row) ==
  /\ row.compensates # 0 => Compensable(p, row.compensates, row.ident)
  /\ row.retry # 0 => RetryFits(p, row)
  /\ row.risk # 0 => RiskFits(p, row)
CompensationFits(p, row) ==
  LET k == p.cards[row.card].call IN
  /\ State(p, k) = "unknown"
  /\ State(p, row.compensator) = "system_verified"
  /\ p.attempts[row.compensator].compensates = k
  /\ SameResource(p.attempts[k].ident, p.attempts[row.compensator].ident)
ResolutionFits(p, row) ==
  /\ p.cards[row.card].decision = "open"
  /\ row.decision = "system_compensated" => CompensationFits(p, row)

\* The rows _apply_event does not raise on.
Fits(p, row) ==
  CASE row.type = "attempt_created" -> CreationFits(p, row)
    [] row.type = "attempt_transitioned" -> <<State(p, row.call), row.state>> \in TRANSITIONS
    [] row.type = "attempt_target_resolved" -> State(p, row.call) \in ACTIVE_ATTEMPT_STATES
    [] row.type = "intervention_opened" ->
         State(p, row.call) = "unknown" /\ (row.recovery => NewEvidence(p, row.call))
    [] row.type = "intervention_resolved" -> ResolutionFits(p, row)
    [] row.type = "reprobe_consumed" ->
         p.cards[row.card].decision = "reprobe_authorized" /\ ~p.cards[row.card].probed

\* Slip: the grant is not marked as spent.
Consumed_SlipUnspent(p, row) == p.cards

\* Slip: the grant is marked with the session instead of the attempt.
Consumed_SlipSession(p, row) ==
  IF row.retry = 0 THEN p.cards
  ELSE [p.cards EXCEPT ![row.retry].consumer = row.session]

\* The created retry is itself the consumption of its grant.
Consumed(p, row) ==
  IF row.retry = 0 THEN p.cards
  ELSE [p.cards EXCEPT ![row.retry].consumer = Len(p.attempts) + 1]

NewAttempt(row) ==
  [state |-> "dispatched", session |-> row.session, ident |-> row.ident, past |-> <<>>,
   compensates |-> row.compensates, retry |-> row.retry, risk |-> row.risk,
   accepted |-> accepted_attempt_ids(row.debt)]
NewCard(p, k) ==
  [call |-> k, decision |-> "open", sealed |-> p.attempts[k].ident,
   lane |-> p.attempts[k].session, consumer |-> 0, probed |-> FALSE,
   basis |-> p.attempts[k].ident]
Retargeted(attempt, ident) ==
  [attempt EXCEPT !.ident = ident, !.past = Append(@, attempt.ident)]
Decided(p, row) ==
  [p.cards[row.card] EXCEPT !.decision = row.decision, !.lane = row.lane,
                            !.basis = p.attempts[p.cards[row.card].call].ident]

Applied(p, row) ==
  CASE row.type = "attempt_created" ->
         [p EXCEPT !.attempts = Append(@, NewAttempt(row)), !.cards = Consumed(p, row)]
    [] row.type = "attempt_transitioned" -> [p EXCEPT !.attempts[row.call].state = row.state]
    [] row.type = "attempt_target_resolved" ->
         [p EXCEPT !.attempts[row.call] = Retargeted(@, row.ident)]
    [] row.type = "intervention_opened" -> [p EXCEPT !.cards = Append(@, NewCard(p, row.call))]
    [] row.type = "intervention_resolved" -> [p EXCEPT !.cards[row.card] = Decided(p, row)]
    [] row.type = "reprobe_consumed" -> [p EXCEPT !.cards[row.card].probed = TRUE]

apply_event(p, row) ==
  IF ~p.readable THEN p
  ELSE IF Fits(p, row) THEN Applied(p, row)
  ELSE Unreadable

replay(p, rows) ==
  LET after[n \in 0..Len(rows)] ==
        IF n = 0 THEN p ELSE apply_event(after[n - 1], rows[n])
  IN  after[Len(rows)]
=============================================================================
