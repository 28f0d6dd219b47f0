----------------------------- MODULE GrantBroker -----------------------------
(***************************************************************************)
(* The grant ledger of grant_broker.py: one append-only journal, replayed    *)
(* under a file lock by every operation, each of which appends at most one   *)
(* row.  A card is named by what it asks for, the state of the world it was  *)
(* asked in and the time it was asked (transaction_id digests the spec).     *)
(***************************************************************************)
EXTENDS Naturals

CONSTANTS Actions,   \* the exact actions cards are about
          Calls,     \* host calls: the consumers of a dispatch
          NoCall,
          Life,      \* ticks from a card's request to its expiry
          MaxFault   \* bound on faults: failed appends and dead processes

ASSUME LifeAssumption == Life \in Nat \ {0}
ASSUME MaxFaultAssumption == MaxFault \in Nat
ASSUME NoCallAssumption == NoCall \notin Calls

VARIABLES ledger,  \* what replaying the journal gives: card -> its record
          torn,    \* the journal ends in part of a row
          faults,
          clock

brokerVars == <<ledger, torn, faults>>

Cards == [action : Actions, world : Nat, at : Nat]

Expires(c) == c.at + Life

CardRecord ==
  [question : BOOLEAN, displayed : BOOLEAN,
   decision : {"none", "allow", "deny"}, decidedAt : Nat,
   consumed : BOOLEAN, dispatch : Calls \cup {NoCall},
   effect : {"none", "succeeded", "failed", "unknown"},
   verifier : {"none", "passed", "failed", "inconclusive"},
   settlement : {"none", "denied", "expired", "fresh_decision_required",
                 "effect_failed", "effect_unknown", "succeeded",
                 "verification_failed", "verification_inconclusive"}]

Blank == [question |-> FALSE, displayed |-> FALSE,
          decision |-> "none", decidedAt |-> 0, consumed |-> FALSE,
          dispatch |-> NoCall, effect |-> "none", verifier |-> "none",
          settlement |-> "none"]

BrokerInit == ledger = [c \in {} |-> Blank] /\ torn = FALSE /\ faults = 0

Created == DOMAIN ledger

Pending == {c \in Created : ledger[c].settlement = "none"}

Fault == faults < MaxFault /\ faults' = faults + 1

-----------------------------------------------------------------------------
(* What each operation says, and the record it leaves.  An operation that     *)
(* leaves the record as it was appends nothing.                               *)

Says(status, record) == [status |-> status, record |-> record]

CreateAnswer(c) ==
  IF c \in Created THEN Says("already_created", ledger[c])
  ELSE Says("created", Blank)

PublishAnswer(r) ==
  IF r.question THEN Says("already_published", r)
  ELSE IF r.settlement # "none" THEN Says("terminal", r)
  ELSE Says("published", [r EXCEPT !.question = TRUE])

\* Only the observation that matters is kept: the question was displayed.
DisplayAnswer(r) ==
  IF ~r.question THEN Says("rejected", r)
  ELSE IF r.displayed THEN Says("already_displayed", r)
  ELSE Says("recorded", [r EXCEPT !.displayed = TRUE])

DecideAnswer(c, r, outcome, at) ==
  IF ~r.question THEN Says("error", r)
  ELSE IF ~r.displayed THEN Says("rejected", r)
  ELSE IF r.decision # "none" THEN
         Says(IF <<r.decision, r.decidedAt>> = <<outcome, at>>
              THEN "duplicate" ELSE "conflict", r)
  ELSE IF r.settlement # "none" THEN Says("terminal", r)
  ELSE IF outcome = "allow" /\ at >= Expires(c) THEN Says("expired", r)
  ELSE Says("decided", [r EXCEPT !.decision = outcome, !.decidedAt = at])

\* A world that differs settles the card with a status outside the closed set.
ConsumeAnswer_Slip(c, r, action, world, now) ==
  IF r.settlement # "none" THEN Says("terminal", r)
  ELSE IF r.decision # "allow" THEN Says("rejected", r)
  ELSE IF r.consumed THEN Says("already_consumed", r)
  ELSE IF now < r.decidedAt \/ now >= Expires(c) \/ action # c.action THEN
         Says("rejected", r)
  ELSE IF world # c.world THEN
         Says("fresh_decision_required", [r EXCEPT !.settlement = "drifted"])
  ELSE Says("consumed", [r EXCEPT !.consumed = TRUE])

\* consume_human_grant refuses a decision of the future and an expired one,
\* then compares the world the human saw with the one the caller sees.
ConsumeAnswer(c, r, action, world, now) ==
  IF r.settlement # "none" THEN Says("terminal", r)
  ELSE IF r.decision # "allow" THEN Says("rejected", r)
  ELSE IF r.consumed THEN Says("already_consumed", r)
  ELSE IF now < r.decidedAt \/ now >= Expires(c) \/ action # c.action THEN
         Says("rejected", r)
  ELSE IF world # c.world THEN
         Says("fresh_decision_required",
              [r EXCEPT !.settlement = "fresh_decision_required"])
  ELSE Says("consumed", [r EXCEPT !.consumed = TRUE])

\* A later claimant takes the dispatch over.
ClaimAnswer_Slip(r, call) ==
  IF r.settlement # "none" THEN Says("terminal", r)
  ELSE IF ~r.consumed THEN Says("rejected", r)
  ELSE Says("claimed", [r EXCEPT !.dispatch = call])

ClaimAnswer(r, call) ==
  IF r.settlement # "none" THEN Says("terminal", r)
  ELSE IF ~r.consumed THEN Says("rejected", r)
  ELSE IF r.dispatch # NoCall THEN
         Says(IF r.dispatch = call THEN "already_claimed" ELSE "lost_race", r)
  ELSE Says("claimed", [r EXCEPT !.dispatch = call])

\* A receipt is an error unless its source is in the ledger.
EffectAnswer(r, status) ==
  IF r.dispatch = NoCall THEN Says("error", r)
  ELSE IF r.effect # "none" THEN
         Says(IF r.effect = status THEN "duplicate" ELSE "conflict", r)
  ELSE IF r.settlement # "none" THEN Says("terminal", r)
  ELSE Says("recorded", [r EXCEPT !.effect = status])

VerifierAnswer(r, status) ==
  IF r.effect = "none" THEN Says("error", r)
  ELSE IF r.verifier # "none" THEN
         Says(IF r.verifier = status THEN "duplicate" ELSE "conflict", r)
  ELSE IF r.settlement # "none" THEN Says("terminal", r)
  ELSE Says("recorded", [r EXCEPT !.verifier = status])

\* Expiry outranks a consumed allow.
Earned_Slip(c, r, now) ==
  IF r.decision = "deny" THEN "denied"
  ELSE IF now >= Expires(c) THEN "expired"
  ELSE IF r.effect = "failed" THEN "effect_failed"
  ELSE IF r.verifier = "passed" THEN "succeeded"
  ELSE "none"

\* The settlement the record has earned by now, or "none".
Earned(c, r, now) ==
  IF r.decision = "deny" THEN "denied"
  ELSE IF now >= Expires(c) /\ ~r.consumed THEN "expired"
  ELSE IF r.effect = "failed" THEN "effect_failed"
  ELSE IF r.effect = "unknown" THEN "effect_unknown"
  ELSE IF r.verifier = "passed" THEN "succeeded"
  ELSE IF r.verifier = "failed" THEN "verification_failed"
  ELSE IF r.verifier = "inconclusive" THEN "verification_inconclusive"
  ELSE "none"

SettleAnswer(c, r, now) ==
  IF r.settlement # "none" THEN Says("already_settled", r)
  ELSE IF Earned(c, r, now) = "none" THEN Says("not_ready", r)
  ELSE Says(Earned(c, r, now),
            [r EXCEPT !.settlement = Earned(c, r, now)])

-----------------------------------------------------------------------------
(* One locked operation on card c: replay, answer, and at most one append.     *)
(* `status' is what the caller learns.                                         *)

Durable(c, record) ==
  ledger' = [d \in Created \cup {c} |-> IF d = c THEN record ELSE ledger[d]]

\* The append fails before the row is written, within it, or after it is
\* durable (an fsync or a pathname check that raises): the caller sees an error.
FailedAppend(c, record) ==
  /\ Fault
  /\ \/ UNCHANGED <<ledger, torn>>
     \/ torn' = TRUE /\ UNCHANGED ledger
     \/ Durable(c, record) /\ UNCHANGED torn

Wrote(c, answer) == c \in Created => answer.record # ledger[c]

Transact(c, answer, status) ==
  \/ /\ ~torn => ~Wrote(c, answer)
     /\ status = (IF torn THEN "error" ELSE answer.status)
     /\ UNCHANGED brokerVars
  \/ /\ ~torn /\ Wrote(c, answer)
     /\ status = answer.status
     /\ Durable(c, answer.record)
     /\ UNCHANGED <<torn, faults>>
  \/ /\ ~torn /\ Wrote(c, answer)
     /\ status = "error"
     /\ FailedAppend(c, answer.record)
=============================================================================
