----------------------------- MODULE EffectLog ------------------------------
(***************************************************************************)
(* The operations on the effect log and the two lists of the contract that *)
(* shadow it: the calls whose completion is awaited (open_events) and the  *)
(* calls whose effect is not verified yet (pending_verifications).         *)
(*                                                                         *)
(* A handler holds the contract's lock from loading the contract to saving *)
(* it, and the log's own lock around each append, so a handler is one step *)
(* here.  The reconciler is not: it probes without the contract's lock and *)
(* takes it only to write down what it found.                              *)
(***************************************************************************)
EXTENDS EffectRows

CONSTANTS
  MaxSpent,   \* bound on what a history may do, see Cost
  MaxReviews, \* bound on the risk cards a human allows
  Crashes     \* whether a process may die in the middle of a write

ASSUME EffectBounds == MaxSpent \in Nat /\ MaxReviews \in Nat /\ Crashes \in BOOLEAN

VARIABLES
  log,       \* replay of the rows on disk
  open,      \* runtime.open_events: calls released and not completed
  pending,   \* runtime.pending_verifications
  recon,     \* the reconciler: its phase, snapshot and findings
  reviews,   \* the risk cards a human allowed, in the grant ledger
  spent      \* attempts, rebinds, reprobe rounds, reconciler passes, deaths so far
vars == <<log, open, pending, recon, reviews, spent>>

Calls == 1..MaxSpent
Review == [session : Sessions, ident : RiskReviewed, debt : Debt]
Idle == [phase |-> "idle", snapshot |-> {}, drop |-> {}]

EffectTypeOK ==
  /\ log.attempts \in Seq(Attempt)
  /\ log.cards \in Seq(Card)
  /\ log.readable \in BOOLEAN
  /\ open \subseteq Calls /\ pending \subseteq Calls
  /\ recon \in [phase : {"idle", "probing", "settled"}, snapshot : SUBSET Calls,
                drop : SUBSET Calls]
  /\ reviews \in Seq(Review) /\ Len(reviews) <= MaxReviews
  /\ spent \in 0..MaxSpent

Init ==
  /\ log = EmptyLog
  /\ open = {} /\ pending = {}
  /\ recon = Idle
  /\ reviews = <<>>
  /\ spent = 0

-----------------------------------------------------------------------------
\* What a history may do MaxSpent times in all.
Costly(row) ==
  \/ row.type \in {"attempt_created", "attempt_target_resolved"}
  \/ row.type = "intervention_resolved" /\ row.decision = "reprobe_authorized"
Cost(rows) == Cardinality({n \in DOMAIN rows : Costly(rows[n])})

(* A write appends its rows and syncs them before it replays them, so a row
   that replay refuses is on disk all the same; the handler then raises and
   leaves the contract as it was. *)
mutate(rows, open1, pending1) ==
  /\ log' = replay(log, rows)
  /\ IF log'.readable THEN open' = open1 /\ pending' = pending1
     ELSE UNCHANGED <<open, pending>>
  /\ spent' = spent + Cost(rows)

\* The process dies after some of the rows, or between the log and the contract.
CutShort(rows) ==
  /\ Crashes
  /\ spent + Cost(rows) < MaxSpent
  /\ \E n \in DOMAIN rows : log' = replay(log, SubSeq(rows, 1, n))
  /\ spent' = spent + Cost(rows) + 1
  /\ UNCHANGED <<open, pending>>

\* The last row is half written: no later read of the log gets past it.
Torn(rows) ==
  /\ Crashes
  /\ rows # <<>>
  /\ spent + Cost(rows) < MaxSpent
  /\ log' = Unreadable
  /\ spent' = spent + Cost(rows) + 1
  /\ UNCHANGED <<open, pending>>

Handle(rows, open1, pending1) ==
  /\ spent + Cost(rows) <= MaxSpent
  /\ \/ mutate(rows, open1, pending1)
     \/ CutShort(rows)
     \/ Torn(rows)
  /\ UNCHANGED <<recon, reviews>>

-----------------------------------------------------------------------------
Blockers(ident) ==
  {k \in blocking_attempts(log) : blocker_resource_match(log.attempts[k], ident)}

\* A risk card is shown the debts of the moment and allowed by a human; later
\* changes are found when it is used.
AllowRisk(session, ident) ==
  /\ log.readable
  /\ Len(reviews) < MaxReviews
  /\ RiskReviewable(log, session, ident)
  /\ reviews' = Append(reviews, [session |-> session, ident |-> ident,
                                 debt |-> effect_risk_review_context(log)])
  /\ UNCHANGED <<log, open, pending, recon, spent>>

\* No card, or one this session was granted for this operation.
RiskGrants(session, ident) ==
  {0} \cup {n \in DOMAIN reviews : reviews[n].session = session /\ reviews[n].ident = ident}
DebtShown(risk) == IF risk = 0 THEN NoDebt ELSE reviews[risk].debt

\* Slip: a right to retry one call lets it pass every other in its way.
Permitted_SlipRetry(row) ==
  (IF row.retry = 0 THEN {} ELSE blocking_attempts(log))
    \cup ({row.compensates} \ {0})
    \cup accepted_attempt_ids(row.debt)

\* What a new call may meet: the call it retries, the one it compensates, and
\* those whose conflict a human accepted.
Permitted(row) ==
  (IF row.retry = 0 THEN {} ELSE {log.cards[row.retry].call})
    \cup ({row.compensates} \ {0})
    \cup accepted_attempt_ids(row.debt)

MayBegin(row) ==
  /\ row.retry = 0 \/ row.compensates = 0
  /\ row.compensates # 0 => Compensable(log, row.compensates, row.ident)
  /\ row.risk # 0 => RiskFits(log, row)
  /\ Blockers(row.ident) \subseteq Permitted(row)

\* A call is about to be released to the host.
Dispatch(session, ident, compensates, risk) ==
  LET row == Created(session, ident, compensates, matching_retry(log, session, ident),
                     risk, DebtShown(risk)) IN
  /\ log.readable
  /\ risk \in RiskGrants(session, ident)
  /\ MayBegin(row)
  /\ Handle(<<row>>, open \cup {Len(log.attempts) + 1}, pending)

-----------------------------------------------------------------------------
\* An unknown outcome needs one card that is open, or a decision on the last.
unknown_specs(p, k) ==
  IF LatestDecision(p, k) \notin {"none", "reprobe_authorized"} THEN <<>>
  ELSE (IF State(p, k) = "unknown" THEN <<>> ELSE <<Moved(k, "unknown")>>)
         \o <<Opened(k, FALSE)>>

ResultRows(p, k, success) ==
  IF State(p, k) \in SettledStates THEN <<>>
  ELSE IF ~success THEN unknown_specs(p, k)
  ELSE (IF State(p, k) = "dispatched" THEN <<Moved(k, "accepted")>> ELSE <<>>)
         \o (IF State(p, k) \in {"dispatched", "accepted"}
             THEN <<Moved(k, "verifying")>> ELSE <<>>)

OwnLane(p, k, session) == p.attempts[k].session = session
\* A read on another lane settles only what a decision handed to that lane.
TakenOver(p, k, session) ==
  /\ LatestDecision(p, k) \in Takeovers
  /\ LET card == p.cards[Max(CardsOf(p, k))] IN
       /\ card.lane = session
       /\ card.decision = "reprobe_authorized" => ~card.probed

Eligible(p, session, seen, named) ==
  LET found == {k \in Known(p) :
        /\ State(p, k) \in {"verifying", "unknown"}
        /\ OwnLane(p, k, session) \/ (named # 0 /\ TakenOver(p, k, session))
        /\ SameResource(p.attempts[k].ident, seen)}
  IN IF named # 0 THEN found \cap {named}
     ELSE IF Cardinality(found) = 1 THEN found ELSE {}

Proves(p, k, seen) == seen.content # Unsupported /\ p.attempts[k].ident = seen

ResolvedBySystem(p, k, decision, compensator) ==
  IF k = 0 \/ OpenCards(p, k) = {} THEN <<>>
  ELSE LET c == Min(OpenCards(p, k)) IN
         <<Resolved(c, decision, p.cards[c].lane, compensator)>>

ProofRows(p, k) ==
  <<Moved(k, "system_verified")>>
    \o ResolvedBySystem(p, k, "system_verified", 0)
    \o ResolvedBySystem(p, p.attempts[k].compensates, "system_compensated", k)

ReadRows(p, k, session, seen) ==
  (IF ~OwnLane(p, k, session) /\ LatestDecision(p, k) = "reprobe_authorized"
   THEN <<Probed(Max(CardsOf(p, k)))>> ELSE <<>>)
    \o (IF Proves(p, k, seen) THEN ProofRows(p, k) ELSE <<>>)

\* What a proof of k takes off the list of pending verifications.
Cleared(p, k) == {k, p.attempts[k].compensates} \ {0}

-----------------------------------------------------------------------------
\* The completion names the target it found; another one than the attempt's
\* replaces the attempt's identity.
RebindRows(k, ident) ==
  IF SameResource(ident, log.attempts[k].ident) THEN <<>> ELSE <<Rebound(k, ident)>>
Outcomes == {"failed", "returned", "proved"}

\* Rebinding, result and, with a local verifier, the proof of one completion.
CompletionRows(k, ident, outcome) ==
  LET first == RebindRows(k, ident) \o ResultRows(log, k, outcome # "failed")
      after == replay(log, first)
  IN IF outcome = "proved" /\ after.readable /\ State(after, k) = "verifying"
     THEN first \o ProofRows(after, k) ELSE first

\* A released call completes.
Complete(k, ident, outcome) ==
  LET rows == CompletionRows(k, ident, outcome) IN
  /\ log.readable
  /\ k \in open
  /\ SameResource(ident, log.attempts[k].ident) => ident = log.attempts[k].ident
  /\ outcome = "proved" => ident.content # Unsupported
  /\ Handle(rows, open \ {k},
            IF outcome = "proved" /\ Moved(k, "system_verified") \in Range(rows)
            THEN pending \ Cleared(log, k) ELSE pending \cup {k})

\* A completion no open event matches is recorded as a dispatch seen late.
CompleteUnmatched(session, ident, success) ==
  LET k == Len(log.attempts) + 1
      row == Created(session, ident, 0, matching_retry(log, session, ident), 0, NoDebt)
  IN
  /\ log.readable
  /\ MayBegin(row)
  /\ Handle(<<row>> \o ResultRows(replay(log, <<row>>), k, success), open, pending \cup {k})

\* A read observes `seen`, perhaps in the name of one attempt.
Read(session, seen, named) ==
  \E k \in Eligible(log, session, seen, named) :
    LET rows == ReadRows(log, k, session, seen) IN
    /\ log.readable
    /\ rows # <<>>
    /\ Handle(rows, open,
              IF Proves(log, k, seen) THEN pending \ Cleared(log, k) ELSE pending)

-----------------------------------------------------------------------------
\* Slip: the card is closed before the attempt is settled.
DecisionRows_Slip(c, decision, lane) ==
  <<Resolved(c, decision, lane, 0)>>
    \o (IF decision \in Attestations THEN <<Moved(log.cards[c].call, decision)>> ELSE <<>>)

\* A human answers a card; retry and reprobe may be handed to another session.
DecisionRows(c, decision, lane) ==
  (IF decision \in Attestations THEN <<Moved(log.cards[c].call, decision)>> ELSE <<>>)
    \o <<Resolved(c, decision, lane, 0)>>

Decide(c, decision, lane) ==
  LET k == log.cards[c].call IN
  /\ log.readable
  /\ log.cards[c].decision = "open"
  /\ decision = "reprobe_authorized" =>
       log.attempts[k].ident.content # Unsupported
  /\ decision \notin Takeovers => lane = log.cards[c].lane
  /\ Handle(DecisionRows(c, decision, lane), open,
            IF decision = "reprobe_authorized" THEN pending ELSE pending \ {k})

\* New evidence about an aborted effect asks for a new review.
Recover(k) ==
  /\ log.readable
  /\ State(log, k) = "unknown"
  /\ NewEvidence(log, k)
  /\ Handle(<<Opened(k, TRUE)>>, open, pending)

\* The turn of a session ends: whatever it left in flight becomes unknown.
Interrupted(session) == {k \in open : OwnLane(log, k, session)}
Unverified(session) == {k \in pending \ Interrupted(session) : OwnLane(log, k, session)}
\* Slip: only what the contract's lists still name is asked about.
Orphans_Slip(session) == {}
Orphans(session) ==
  {k \in Known(log) \ (pending \cup Interrupted(session)) :
     /\ OwnLane(log, k, session)
     /\ State(log, k) \in ACTIVE_ATTEMPT_STATES
     /\ ~ /\ State(log, k) = "unknown"
          /\ CardsOf(log, k) # {}
          /\ log.cards[Min(CardsOf(log, k))].decision # "open"}

TurnEndRows(session) ==
  LET marked == Interrupted(session) \cup Unverified(session) \cup Orphans(session)
  IN FlattenSeq([k \in 1..Len(log.attempts) |->
                   IF k \in marked THEN unknown_specs(log, k) ELSE <<>>])

finalize_lane(session) ==
  /\ log.readable
  /\ Handle(TurnEndRows(session), open \ Interrupted(session),
            pending \cup Interrupted(session) \cup Orphans(session))

-----------------------------------------------------------------------------
\* The reconciler works from the list it loaded, outside the contract's lock.
StartReconcile ==
  /\ log.readable
  /\ recon.phase = "idle" /\ pending # {}
  /\ spent < MaxSpent
  /\ recon' = [Idle EXCEPT !.phase = "probing", !.snapshot = pending]
  /\ spent' = spent + 1
  /\ UNCHANGED <<log, open, pending, reviews>>

\* A registered verifier proves one attempt, in the attempt's own lane.
Probe(k) ==
  LET rows == ProofRows(log, k) IN
  /\ log.readable
  /\ recon.phase = "probing" /\ k \in recon.snapshot
  /\ State(log, k) \in {"verifying", "unknown"}
  /\ log.attempts[k].ident.content # Unsupported
  /\ \/ /\ log' = replay(log, rows)
        /\ recon' = [recon EXCEPT !.drop =
                       IF log'.readable THEN @ \cup Cleared(log, k) ELSE @]
        /\ UNCHANGED spent
     \/ /\ CutShort(rows)
        /\ recon' = Idle
     \/ /\ Torn(rows)
        /\ recon' = Idle
  /\ UNCHANGED <<open, pending, reviews>>

\* What no longer blocks, and what an abort took off the verifier's hands; an
\* unreadable log settles nothing.
settled_pending_verification_ids ==
  {k \in recon.snapshot \cap Known(log) :
     k \notin blocking_attempts(log) \/ k \in terminal_quarantined_attempts(log)}
SettleReconcile ==
  /\ recon.phase = "probing"
  /\ recon' = [recon EXCEPT !.phase = "settled", !.drop = @ \cup settled_pending_verification_ids]
  /\ UNCHANGED <<log, open, pending, reviews, spent>>

ApplyReconcile ==
  /\ recon.phase = "settled"
  /\ pending' = pending \ recon.drop
  /\ recon' = Idle
  /\ UNCHANGED <<log, open, reviews, spent>>

-----------------------------------------------------------------------------
Next ==
  \/ \E s \in Sessions, i \in RiskReviewed : AllowRisk(s, i)
  \/ \E s \in Sessions, i \in Operations, k \in 0..Len(log.attempts),
        n \in 0..Len(reviews) : Dispatch(s, i, k, n)
  \/ \E k \in open, i \in Operations, o \in Outcomes : Complete(k, i, o)
  \/ \E s \in Sessions, i \in Operations, b \in BOOLEAN : CompleteUnmatched(s, i, b)
  \/ \E s \in Sessions, i \in Operations, k \in 0..Len(log.attempts) : Read(s, i, k)
  \/ \E c \in DOMAIN log.cards, d \in HUMAN_DECISIONS, s \in Sessions : Decide(c, d, s)
  \/ \E k \in Known(log) : Recover(k)
  \/ \E s \in Sessions : finalize_lane(s)
  \/ StartReconcile
  \/ \E k \in Known(log) : Probe(k)
  \/ SettleReconcile
  \/ ApplyReconcile

Spec == Init /\ [][Next]_vars

-----------------------------------------------------------------------------
\* The operation a call was released for.
Released(k) ==
  LET a == log.attempts[k] IN IF a.past = <<>> THEN a.ident ELSE a.past[1]

\* Two calls released for one resource are never both unsettled, unless the
\* later one compensates the earlier or a human accepted its conflict with that
\* very call: whatever failed, was rebound, handed over or decided in between,
\* begin_attempt finds the blocker.
OneOwnerPerResource ==
  \A a, b \in blocking_attempts(log) :
    a < b /\ SameResource(Released(a), Released(b)) =>
      log.attempts[b].compensates = a \/ a \in log.attempts[b].accepted

\* An unknown outcome stops blocking only when another attempt has taken it
\* over: the retry that spent its grant, or a compensation that was verified.
\* A death between the rows of a decision or a proof frees nothing.
DebtHasHeir ==
  \A k \in Known(log) \ blocking_attempts(log) :
    State(log, k) = "unknown" =>
      \E h \in Known(log) :
        \/ log.attempts[h].retry \in CardsOf(log, k)
        \/ log.attempts[h].compensates = k /\ State(log, h) = "system_verified"

\* A human's authority releases at most one call.  A retry authorisation does,
\* also when its first use was written by a process that died, or by a completion
\* seen late; and a risk card does, also when the call it released is settled and
\* the debts look again as they did on the card.
OneShotAuthority ==
  \A a, b \in Known(log) :
    LET x == log.attempts[a] y == log.attempts[b] IN
    (x.retry = y.retry /\ x.retry # 0) \/ (x.risk = y.risk /\ x.risk # 0) => a = b

\* Whatever a session left behind, the end of its turn (finalize_lane) would
\* leave each of its effects settled or in front of a human, also an effect that
\* a death between the log and the contract took off both of the contract's lists.
TurnEndAsks ==
  \A s \in Sessions :
    LET after == replay(log, TurnEndRows(s)) IN
      log.readable /\ after.readable =>
        \A k \in Known(log) :
          OwnLane(log, k, s) => State(after, k) \in SettledStates \/ CardsOf(after, k) # {}

\* Without a death in the middle of a write the log stays readable: a handler
\* appends only rows that replay accepts.
LogReadable == log.readable
=============================================================================
