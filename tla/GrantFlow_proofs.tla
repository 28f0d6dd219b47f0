--------------------------- MODULE GrantFlow_proofs ---------------------------
(***************************************************************************)
(* Theorems about human grants, for any calls, actions, life of a card and *)
(* number of faults.                                                        *)
(***************************************************************************)
EXTENDS GrantFlow, FiniteSetTheorems, TLAPS
-----------------------------------------------------------------------------
(* What the operations of the grant ledger leave behind, for any card, any  *)
(* record and any answer                                                    *)

\* What the journal's replay gives, whatever was appended and failed.
BrokerTypeOK ==
  /\ Created \subseteq Cards /\ ledger \in [Created -> CardRecord]
  /\ torn \in BOOLEAN /\ faults \in 0..MaxFault

\* A record's history is a path of the life of a card: shown after it is asked,
\* decided after it is shown and in time, committed after it is allowed, given
\* after it is committed, receipted after it is given; and its settlement is the
\* one the rest of it earned.
RecordSound(c, r) ==
  /\ r.displayed => r.question
  /\ r.decision # "none" => r.displayed
  /\ r.decision = "allow" => r.decidedAt \in c.at..(Expires(c) - 1)
  /\ r.consumed => r.decision = "allow"
  /\ r.dispatch # NoCall => r.consumed
  /\ r.effect # "none" => r.dispatch # NoCall
  /\ r.effect # "unknown"
  /\ r.verifier # "none" => r.effect # "none"
  /\ r.verifier \in {"none", "passed"}
  /\ r.settlement \in {"none", "denied", "expired", "fresh_decision_required",
                       "effect_failed", "succeeded"}
  /\ r.settlement = "denied" => r.decision = "deny"
  /\ r.settlement \in {"expired", "fresh_decision_required"} => ~r.consumed
  /\ r.settlement = "effect_failed" => r.effect = "failed"
  /\ r.settlement = "succeeded" => r.verifier = "passed"

\* What an operation that is not about the world outside leaves alone: a dispatch
\* once given, and the receipts.
Keeps(r, s) ==
  /\ r.dispatch # NoCall => s.dispatch = r.dispatch
  /\ s.effect = r.effect /\ s.verifier = r.verifier

-----------------------------------------------------------------------------
(* One locked operation.                                                      *)

\* Writing card c's record leaves the others.
LEMMA DurableWrites ==
  ASSUME NEW c, NEW record, Durable(c, record)
  PROVE  /\ Created' = Created \cup {c}
         /\ ledger'[c] = record
         /\ \A d \in Created \ {c} : ledger'[d] = ledger[d]
         /\ ledger' = [d \in Created \cup {c} |-> IF d = c THEN record ELSE ledger[d]]
BY DEF Durable, Created

\* Whatever fails, the ledger after an operation on c is the old one or has the
\* answer's record at c, and a caller that hears anything but an error knows that
\* the record is there.
LEMMA TransactWrites ==
  ASSUME BrokerTypeOK, NEW c \in Cards, NEW answer, answer.record \in CardRecord,
         NEW status, Transact(c, answer, status)
  PROVE  /\ BrokerTypeOK'
         /\ Created \subseteq Created' /\ Created' \subseteq Created \cup {c}
         /\ \A d \in Created \ {c} : ledger'[d] = ledger[d]
         /\ c \in Created' => \/ ledger'[c] = answer.record
                              \/ c \in Created /\ ledger'[c] = ledger[c]
         /\ status # "error" => /\ status = answer.status
                                /\ c \in Created' /\ ledger'[c] = answer.record
<1>1. \/ ledger' = ledger
      \/ Durable(c, answer.record)
  BY DEF Transact, FailedAppend, brokerVars
<1>2. torn' \in BOOLEAN /\ faults' \in 0..MaxFault
  <2>1. torn' = torn \/ torn' = TRUE
    BY DEF Transact, FailedAppend, brokerVars
  <2>2. faults' = faults \/ Fault
    BY DEF Transact, FailedAppend, brokerVars
  <2>3. faults \in 0..MaxFault
    BY DEF BrokerTypeOK
  <2>4. faults' \in 0..MaxFault
    BY <2>2, <2>3, MaxFaultAssumption DEF Fault
  <2> QED BY <2>1, <2>4 DEF BrokerTypeOK
<1>3. CASE ledger' = ledger
  <2>1. Created' = Created
    BY <1>3 DEF Created
  <2>2. status # "error" => /\ status = answer.status
                            /\ c \in Created /\ ledger[c] = answer.record
    <3>1. CASE /\ ~torn => ~Wrote(c, answer)
               /\ status = (IF torn THEN "error" ELSE answer.status)
      BY <3>1 DEF Wrote
    <3>2. CASE Wrote(c, answer) /\ Durable(c, answer.record)
      BY <1>3, <2>1, <3>2, DurableWrites DEF Wrote
    <3> QED BY <3>1, <3>2 DEF Transact
  <2> QED BY <1>2, <1>3, <2>1, <2>2 DEF BrokerTypeOK
<1>4. CASE Durable(c, answer.record)
  <2>1. /\ Created' = Created \cup {c}
        /\ ledger'[c] = answer.record
        /\ \A d \in Created \ {c} : ledger'[d] = ledger[d]
        /\ ledger' = [d \in Created \cup {c} |->
                        IF d = c THEN answer.record ELSE ledger[d]]
    BY <1>4, DurableWrites
  <2>2. ledger' \in [Created' -> CardRecord] /\ Created' \subseteq Cards
    BY <2>1 DEF BrokerTypeOK
  <2>3. status # "error" => status = answer.status
    BY DEF Transact
  <2> QED BY <1>2, <2>1, <2>2, <2>3 DEF BrokerTypeOK
<1> QED BY <1>1, <1>3, <1>4
-----------------------------------------------------------------------------
(* The record each operation leaves is of its type and a sound history again,  *)
(* and all but the receipts keep dispatch and receipts.                        *)

\* A new card has no history.
LEMMA BlankSound ==
  ASSUME NEW c \in Cards
  PROVE  Blank \in CardRecord /\ RecordSound(c, Blank)
BY NoCallAssumption DEF Blank, CardRecord, RecordSound

\* The shape of what an operation says.
LEMMA SaysFields ==
  ASSUME NEW status, NEW record
  PROVE  Says(status, record).status = status /\ Says(status, record).record = record
BY DEF Says

\* publish_grant_question.
LEMMA PublishSound ==
  ASSUME NEW c \in Cards, NEW r \in CardRecord, RecordSound(c, r)
  PROVE  LET s == PublishAnswer(r).record
         IN  s \in CardRecord /\ RecordSound(c, s) /\ Keeps(r, s)
<1>1. PublishAnswer(r).record \in {r, [r EXCEPT !.question = TRUE]}
  BY DEF PublishAnswer, Says
<1> QED BY <1>1, ZenonT(40) DEF CardRecord, RecordSound, Keeps

\* record_question_display.
LEMMA DisplaySound ==
  ASSUME NEW c \in Cards, NEW r \in CardRecord, RecordSound(c, r)
  PROVE  LET s == DisplayAnswer(r).record
         IN  s \in CardRecord /\ RecordSound(c, s) /\ Keeps(r, s)
<1>1. \/ DisplayAnswer(r).record = r
      \/ r.question /\ DisplayAnswer(r).record = [r EXCEPT !.displayed = TRUE]
  BY DEF DisplayAnswer, Says
<1> QED BY <1>1, ZenonT(40) DEF CardRecord, RecordSound, Keeps

\* record_human_decision: a decision is for a card on the screen, and an allow is
\* for one that has not expired.
LEMMA DecideSound ==
  ASSUME NEW c \in Cards, NEW r \in CardRecord, RecordSound(c, r),
         NEW outcome \in {"allow", "deny"}, NEW at \in Nat, c.at <= at
  PROVE  LET s == DecideAnswer(c, r, outcome, at).record
         IN  s \in CardRecord /\ RecordSound(c, s) /\ Keeps(r, s)
<1> DEFINE s == DecideAnswer(c, r, outcome, at).record
<1>1. \/ s = r
      \/ /\ r.question /\ r.displayed /\ r.decision = "none" /\ r.settlement = "none"
         /\ outcome = "allow" => at < Expires(c)
         /\ s = [r EXCEPT !.decision = outcome, !.decidedAt = at]
  <2>1. Expires(c) \in Nat
    BY LifeAssumption DEF Cards, Expires
  <2>2. CASE /\ r.question /\ r.displayed /\ r.decision = "none"
             /\ r.settlement = "none" /\ ~(outcome = "allow" /\ at >= Expires(c))
    <3>1. s = [r EXCEPT !.decision = outcome, !.decidedAt = at]
      BY <2>2 DEF DecideAnswer, Says
    <3> QED BY <2>1, <2>2, <3>1
  <2>3. CASE ~(/\ r.question /\ r.displayed /\ r.decision = "none"
               /\ r.settlement = "none" /\ ~(outcome = "allow" /\ at >= Expires(c)))
    <3>1. CASE ~r.question \/ ~r.displayed
      BY <3>1 DEF DecideAnswer, Says
    <3>2. CASE r.question /\ r.displayed /\ r.decision # "none"
      <4>1. PICK status : DecideAnswer(c, r, outcome, at) = Says(status, r)
        BY <3>2 DEF DecideAnswer
      <4> QED BY <4>1, SaysFields
    <3>3. CASE r.question /\ r.displayed /\ r.decision = "none"
      BY <2>3, <3>3 DEF DecideAnswer, Says
    <3> QED BY <3>1, <3>2, <3>3
  <2> QED BY <2>2, <2>3
<1>2. s \in CardRecord /\ Keeps(r, s)
  BY <1>1 DEF CardRecord, Keeps
<1>3. RecordSound(c, s)
  <2>1. c.at \in Nat /\ Expires(c) \in Nat
    BY LifeAssumption DEF Cards, Expires
  <2>2. outcome = "allow" /\ at < Expires(c) => at \in c.at..(Expires(c) - 1)
    BY <2>1
  <2>3. CASE /\ r.question /\ r.displayed /\ r.decision = "none" /\ r.settlement = "none"
             /\ outcome = "allow" => at < Expires(c)
             /\ s = [r EXCEPT !.decision = outcome, !.decidedAt = at]
    <3>1. /\ s.decision = outcome /\ s.decidedAt = at
          /\ s.question = r.question /\ s.displayed = r.displayed
          /\ s.consumed = r.consumed /\ s.dispatch = r.dispatch
          /\ s.effect = r.effect /\ s.verifier = r.verifier
          /\ s.settlement = r.settlement
      BY <2>3 DEF CardRecord
    <3>2. ~r.consumed
      BY <2>3 DEF RecordSound
    <3> HIDE DEF s
    <3> QED BY <2>2, <2>3, <3>1, <3>2 DEF RecordSound
  <2> QED BY <1>1, <2>3
<1> QED BY <1>2, <1>3

\* consume_human_grant.
LEMMA ConsumeSound ==
  ASSUME NEW c \in Cards, NEW r \in CardRecord, RecordSound(c, r),
         NEW action, NEW observed, NEW now
  PROVE  LET s == ConsumeAnswer(c, r, action, observed, now).record
         IN  s \in CardRecord /\ RecordSound(c, s) /\ Keeps(r, s)
<1> DEFINE s == ConsumeAnswer(c, r, action, observed, now).record
<1>1. \/ s = r
      \/ /\ r.decision = "allow" /\ ~r.consumed
         /\ s = [r EXCEPT !.settlement = "fresh_decision_required"]
      \/ r.decision = "allow" /\ s = [r EXCEPT !.consumed = TRUE]
  <2>1. CASE r.settlement # "none" \/ r.decision # "allow" \/ r.consumed
    BY <2>1 DEF ConsumeAnswer, Says
  <2>2. CASE r.settlement = "none" /\ r.decision = "allow" /\ ~r.consumed
    <3>1. CASE now < r.decidedAt \/ now >= Expires(c) \/ action # c.action
      BY <2>2, <3>1 DEF ConsumeAnswer, Says
    <3>2. CASE ~(now < r.decidedAt \/ now >= Expires(c) \/ action # c.action)
      BY <2>2, <3>2 DEF ConsumeAnswer, Says
    <3> QED BY <3>1, <3>2
  <2> QED BY <2>1, <2>2
<1>2. r.settlement \in {"expired", "fresh_decision_required"} => s = r
  <2> SUFFICES ASSUME r.settlement \in {"expired", "fresh_decision_required"}
               PROVE  s = r
    OBVIOUS
  <2>1. r.settlement # "none"
    OBVIOUS
  <2> QED BY <2>1 DEF ConsumeAnswer, Says
<1> QED BY <1>1, <1>2, ZenonT(40) DEF CardRecord, RecordSound, Keeps

\* claim_grant_dispatch.
LEMMA ClaimSound ==
  ASSUME NEW c \in Cards, NEW r \in CardRecord, RecordSound(c, r), NEW call \in Calls
  PROVE  LET s == ClaimAnswer(r, call).record
         IN  s \in CardRecord /\ RecordSound(c, s) /\ Keeps(r, s)
<1> DEFINE s == ClaimAnswer(r, call).record
<1>1. \/ s = r
      \/ r.consumed /\ r.dispatch = NoCall /\ s = [r EXCEPT !.dispatch = call]
  BY DEF ClaimAnswer, Says
<1> QED BY <1>1, NoCallAssumption DEF CardRecord, RecordSound, Keeps

\* record_effect_receipt: the only receipt of an effect, for a given card.
LEMMA EffectSound ==
  ASSUME NEW c \in Cards, NEW r \in CardRecord, RecordSound(c, r),
         NEW result \in {"succeeded", "failed"}
  PROVE  LET s == EffectAnswer(r, result).record
         IN  /\ s \in CardRecord /\ RecordSound(c, s)
             /\ \/ s = r
                \/ /\ r.dispatch # NoCall /\ r.effect = "none" /\ r.settlement = "none"
                   /\ s = [r EXCEPT !.effect = result]
<1> DEFINE s == EffectAnswer(r, result).record
<1>1. \/ s = r
      \/ /\ r.dispatch # NoCall /\ r.effect = "none" /\ r.settlement = "none"
         /\ s = [r EXCEPT !.effect = result]
  BY DEF EffectAnswer, Says
<1> QED BY <1>1 DEF CardRecord, RecordSound

\* record_verifier_receipt: only after the effect's.
LEMMA VerifierSound ==
  ASSUME NEW c \in Cards, NEW r \in CardRecord, RecordSound(c, r)
  PROVE  LET s == VerifierAnswer(r, "passed").record
         IN  /\ s \in CardRecord /\ RecordSound(c, s)
             /\ \/ s = r
                \/ /\ r.effect # "none" /\ r.verifier = "none" /\ r.settlement = "none"
                   /\ s = [r EXCEPT !.verifier = "passed"]
<1> DEFINE s == VerifierAnswer(r, "passed").record
<1>1. \/ s = r
      \/ /\ r.effect # "none" /\ r.verifier = "none" /\ r.settlement = "none"
         /\ s = [r EXCEPT !.verifier = "passed"]
  BY DEF VerifierAnswer, Says
<1> QED BY <1>1 DEF CardRecord, RecordSound

\* settle_grant: what a record has earned agrees with it, and a committed card is
\* closed by a receipt only.
LEMMA SettleSound ==
  ASSUME NEW c \in Cards, NEW r \in CardRecord, RecordSound(c, r), NEW now
  PROVE  LET s == SettleAnswer(c, r, now).record
         IN  /\ s \in CardRecord /\ RecordSound(c, s) /\ Keeps(r, s)
             /\ \/ s = r
                \/ /\ r.settlement = "none"
                   /\ r.consumed => r.effect # "none"
                   /\ s = [r EXCEPT !.settlement = s.settlement]
                   /\ s.settlement # "none"
<1> DEFINE s == SettleAnswer(c, r, now).record
           e == Earned(c, r, now)
<1>1. \/ s = r
      \/ r.settlement = "none" /\ e # "none" /\ s = [r EXCEPT !.settlement = e]
  BY DEF SettleAnswer, Says
<1>2. /\ e \in {"none", "denied", "expired", "effect_failed", "succeeded"}
      /\ e = "denied" => r.decision = "deny"
      /\ e = "expired" => ~r.consumed
      /\ e = "effect_failed" => r.effect = "failed"
      /\ e = "succeeded" => r.verifier = "passed"
  BY DEF Earned, RecordSound
<1>3. e # "none" /\ r.consumed => r.effect # "none"
  BY <1>2 DEF RecordSound
<1>4. s \in CardRecord /\ Keeps(r, s)
  BY <1>1, <1>2 DEF CardRecord, Keeps
<1>5. RecordSound(c, s)
  BY <1>1, <1>2 DEF CardRecord, RecordSound
<1>6. s # r => r.settlement = "none" /\ s = [r EXCEPT !.settlement = s.settlement]
               /\ s.settlement # "none"
  BY <1>1 DEF CardRecord
<1> QED BY <1>1, <1>3, <1>4, <1>5, <1>6
-----------------------------------------------------------------------------
(* The life of a card, as its record tells it, takes one step at a time.       *)

RecordStatus(r) ==
  IF r.settlement # "none" THEN "over"
  ELSE IF r.consumed THEN "committed"
  ELSE IF r.decision = "allow" THEN "allowed"
  ELSE "asked"

\* The steps of the life, with what the dispatch does meanwhile; a committed card
\* is over only when a receipt is in.
RecordMoves(r, s) ==
  LET from == RecordStatus(r)
      to == RecordStatus(s)
  IN  \/ /\ s.dispatch = r.dispatch
         /\ \/ to = from
            \/ from = "asked" /\ to = "allowed"
            \/ from = "allowed" /\ to = "committed"
            \/ from \in {"asked", "allowed"} /\ to = "over"
            \/ from = "committed" /\ to = "over" /\ r.effect # "none"
      \/ /\ from = "committed" /\ to = "committed"
         /\ r.dispatch = NoCall /\ s.dispatch \in Calls

\* publish_grant_question and record_question_display: a question makes no step.
LEMMA QuestionMoves ==
  ASSUME NEW r \in CardRecord
  PROVE  RecordMoves(r, PublishAnswer(r).record) /\ RecordMoves(r, DisplayAnswer(r).record)
<1>1. PublishAnswer(r).record \in {r, [r EXCEPT !.question = TRUE]}
  BY DEF PublishAnswer, Says
<1>2. DisplayAnswer(r).record \in {r, [r EXCEPT !.displayed = TRUE]}
  BY DEF DisplayAnswer, Says
<1>3. \A s \in {r, [r EXCEPT !.question = TRUE], [r EXCEPT !.displayed = TRUE]} :
        RecordMoves(r, s)
  BY DEF CardRecord, RecordMoves, RecordStatus
<1> QED BY <1>1, <1>2, <1>3

\* record_human_decision: an undecided card may be allowed.
LEMMA DecideMoves ==
  ASSUME NEW c, NEW r \in CardRecord, RecordSound(c, r),
         NEW outcome \in {"allow", "deny"}, NEW at
  PROVE  RecordMoves(r, DecideAnswer(c, r, outcome, at).record)
<1> DEFINE s == DecideAnswer(c, r, outcome, at).record
<1>1. \/ s = r
      \/ /\ r.decision = "none" /\ r.settlement = "none"
         /\ s = [r EXCEPT !.decision = outcome, !.decidedAt = at]
  <2>1. CASE r.decision # "none"
    <3>1. PICK status : \/ DecideAnswer(c, r, outcome, at) = Says(status, r)
      BY <2>1 DEF DecideAnswer
    <3> QED BY <3>1, SaysFields
  <2>2. CASE r.decision = "none"
    BY <2>2 DEF DecideAnswer, Says
  <2> QED BY <2>1, <2>2
<1>2. r.decision = "none" => ~r.consumed
  BY DEF RecordSound
<1> SUFFICES RecordMoves(r, s)
  OBVIOUS
<1> HIDE DEF s
<1>3. CASE s = r
  BY <1>3 DEF RecordMoves
<1>4. CASE /\ r.decision = "none" /\ r.settlement = "none"
           /\ s = [r EXCEPT !.decision = outcome, !.decidedAt = at]
  <2>1. /\ s.decision = outcome /\ s.settlement = "none" /\ s.consumed = r.consumed
        /\ s.dispatch = r.dispatch
    BY <1>4 DEF CardRecord
  <2>2. ~s.consumed
    BY <1>2, <1>4, <2>1
  <2> QED BY <1>2, <1>4, <2>1, <2>2 DEF RecordMoves, RecordStatus
<1> QED BY <1>1, <1>3, <1>4

\* consume_human_grant: an allowed card is committed, or over when the world moved.
LEMMA ConsumeMoves ==
  ASSUME NEW c, NEW r \in CardRecord, NEW action, NEW observed, NEW now
  PROVE  RecordMoves(r, ConsumeAnswer(c, r, action, observed, now).record)
<1> DEFINE s == ConsumeAnswer(c, r, action, observed, now).record
<1>1. CASE r.settlement # "none" \/ r.decision # "allow" \/ r.consumed
  <2>1. s = r
    BY <1>1 DEF ConsumeAnswer, Says
  <2> QED BY <2>1 DEF RecordMoves
<1>2. CASE r.settlement = "none" /\ r.decision = "allow" /\ ~r.consumed
  <2>1. \/ s = r
        \/ s = [r EXCEPT !.settlement = "fresh_decision_required"]
        \/ s = [r EXCEPT !.consumed = TRUE]
    <3>1. CASE now < r.decidedAt \/ now >= Expires(c) \/ action # c.action
      BY <1>2, <3>1 DEF ConsumeAnswer, Says
    <3>2. CASE ~(now < r.decidedAt \/ now >= Expires(c) \/ action # c.action)
      BY <1>2, <3>2 DEF ConsumeAnswer, Says
    <3> QED BY <3>1, <3>2
  <2> SUFFICES RecordMoves(r, s)
    OBVIOUS
  <2> HIDE DEF s
  <2>2. CASE s = r
    BY <2>2 DEF RecordMoves
  <2>3. CASE s = [r EXCEPT !.settlement = "fresh_decision_required"]
    <3>1. s.settlement # "none" /\ s.dispatch = r.dispatch
      BY <2>3 DEF CardRecord
    <3> QED BY <1>2, <3>1 DEF RecordMoves, RecordStatus
  <2>4. CASE s = [r EXCEPT !.consumed = TRUE]
    <3>1. s.settlement = "none" /\ s.consumed /\ s.dispatch = r.dispatch
      BY <1>2, <2>4 DEF CardRecord
    <3> QED BY <1>2, <3>1 DEF RecordMoves, RecordStatus
  <2> QED BY <2>1, <2>2, <2>3, <2>4
<1> QED BY <1>1, <1>2

\* claim_grant_dispatch: a committed card is given to one call.
LEMMA ClaimMoves ==
  ASSUME NEW r \in CardRecord, NEW call \in Calls
  PROVE  RecordMoves(r, ClaimAnswer(r, call).record)
<1> DEFINE s == ClaimAnswer(r, call).record
<1>1. \/ s = r
      \/ /\ r.settlement = "none" /\ r.consumed /\ r.dispatch = NoCall
         /\ s = [r EXCEPT !.dispatch = call]
  BY DEF ClaimAnswer, Says
<1> SUFFICES RecordMoves(r, s)
  OBVIOUS
<1> HIDE DEF s
<1>2. CASE s = r
  BY <1>2 DEF RecordMoves
<1>3. CASE /\ r.settlement = "none" /\ r.consumed /\ r.dispatch = NoCall
           /\ s = [r EXCEPT !.dispatch = call]
  <2>1. s.settlement = "none" /\ s.consumed /\ s.dispatch = call
    BY <1>3 DEF CardRecord
  <2> QED BY <1>3, <2>1 DEF RecordMoves, RecordStatus
<1> QED BY <1>1, <1>2, <1>3

\* A receipt closes nothing by itself.
LEMMA ReceiptMoves ==
  ASSUME NEW r \in CardRecord, NEW result
  PROVE  /\ RecordMoves(r, EffectAnswer(r, result).record)
         /\ RecordMoves(r, VerifierAnswer(r, result).record)
<1>1. EffectAnswer(r, result).record \in {r, [r EXCEPT !.effect = result]}
  BY DEF EffectAnswer, Says
<1>2. VerifierAnswer(r, result).record \in {r, [r EXCEPT !.verifier = result]}
  BY DEF VerifierAnswer, Says
<1>3. \A s \in {r, [r EXCEPT !.effect = result], [r EXCEPT !.verifier = result]} :
        RecordMoves(r, s)
  BY DEF CardRecord, RecordMoves, RecordStatus
<1> QED BY <1>1, <1>2, <1>3

\* settle_grant: a card is over, a committed one by its receipt.
LEMMA SettleMoves ==
  ASSUME NEW c \in Cards, NEW r \in CardRecord, RecordSound(c, r), NEW now
  PROVE  RecordMoves(r, SettleAnswer(c, r, now).record)
<1> DEFINE s == SettleAnswer(c, r, now).record
<1>1. /\ s \in CardRecord /\ Keeps(r, s)
      /\ \/ s = r
         \/ /\ r.settlement = "none"
            /\ r.consumed => r.effect # "none"
            /\ s = [r EXCEPT !.settlement = s.settlement]
            /\ s.settlement # "none"
  BY SettleSound
<1> SUFFICES RecordMoves(r, s)
  OBVIOUS
<1> HIDE DEF s
<1>2. CASE s = r
  BY <1>2 DEF RecordMoves
<1>3. CASE /\ r.settlement = "none"
           /\ r.consumed => r.effect # "none"
           /\ s = [r EXCEPT !.settlement = s.settlement]
           /\ s.settlement # "none"
  <2>1. s.dispatch = r.dispatch
    BY <1>3 DEF CardRecord
  <2>2. CASE r.consumed
    BY <1>3, <2>1, <2>2 DEF RecordMoves, RecordStatus
  <2>3. CASE ~r.consumed
    BY <1>3, <2>1, <2>3 DEF RecordMoves, RecordStatus
  <2> QED BY <2>2, <2>3
<1> QED BY <1>1, <1>2, <1>3
-----------------------------------------------------------------------------
(* Whole flows *)

\* Where a hook may stand, in the pre-tool process, outside it and after it.
Places == {"idle", "tool", "done", "deferred", "refused"} \cup PreTool \cup PostTool

\* From here on a hook has been given its card's dispatch.
GivenPlaces == {"observe", "tool", "done"} \cup PostTool

\* Only from here may a card's record carry the receipts of the hook's effect.
ReceiptPlaces == {"verify", "settle", "done"}

HookRecord == [pc : Places, world : Nat, at : 0..MaxTime, card : Cards \cup {NoCard},
               result : {"none", "failed", "returned", "verified"}]

FlowTypeOK ==
  /\ BrokerTypeOK
  /\ clock \in 0..MaxTime /\ world \in Nat
  /\ hook \in [Calls -> HookRecord]
  /\ callbacks \subseteq [card : Created, outcome : {"allow", "deny"},
                          step : {"record", "settle"}]

\* No card is of the future, and its record is a sound history.
LedgerSound == \A c \in Created : c.at <= clock /\ RecordSound(c, ledger[c])

\* What a hook knows of the card it goes on with: it is about its own action, and
\* once given stays its own.
HookSound(k) ==
  /\ hook[k].at <= clock /\ hook[k].card \in Created \cup {NoCard}
  /\ hook[k].pc \in {"consume", "claim"} \cup GivenPlaces =>
       hook[k].card \in Created /\ hook[k].card.action = ActionOf[k]
  /\ hook[k].pc \in GivenPlaces => ledger[hook[k].card].dispatch = k
  /\ hook[k].pc = "publish" => OwnCard(k) \in Created
  /\ hook[k].pc = "verify" => hook[k].result = "verified"

\* A receipt is of the one call that was given the card, of what came of it.
ReceiptSound(c) ==
  LET r == ledger[c]
  IN  /\ r.effect # "none" => /\ hook[r.dispatch].pc \in ReceiptPlaces
                              /\ hook[r.dispatch].card = c
                              /\ r.effect = Effect(r.dispatch)
      /\ r.verifier # "none" => hook[r.dispatch].result = "verified"

FlowInv ==
  /\ FlowTypeOK /\ LedgerSound
  /\ \A k \in Calls : HookSound(k)
  /\ \A c \in Created : ReceiptSound(c)
-----------------------------------------------------------------------------
(* What steps leave of the invariant.                                         *)

\* The ledger only grows, and keeps dispatches and receipts.
LedgerKept ==
  /\ \A d \in Created : d \in Created' /\ Keeps(ledger[d], ledger'[d])
  /\ \A d \in Created' \ Created :
       ledger'[d].effect = "none" /\ ledger'[d].verifier = "none"

\* A hook that stands still knows what it knew, while dispatches are kept.
LEMMA HookKept ==
  ASSUME FlowInv, FlowTypeOK', clock <= clock', NEW j \in Calls, hook'[j] = hook[j],
         \A d \in Created : /\ d \in Created'
                            /\ ledger[d].dispatch # NoCall =>
                                 ledger'[d].dispatch = ledger[d].dispatch
  PROVE  HookSound(j)'
<1>1. /\ hook'[j].pc = hook[j].pc /\ hook'[j].card = hook[j].card
      /\ hook'[j].at = hook[j].at /\ hook'[j].result = hook[j].result
      /\ OwnCard(j)' = OwnCard(j)
  BY DEF OwnCard
<1>2. hook[j].at \in Nat /\ clock \in Nat /\ clock' \in Nat
  BY TimeAssumption DEF FlowInv, FlowTypeOK, HookRecord
<1>3. j # NoCall
  BY NoCallAssumption
<1> QED BY <1>1, <1>2, <1>3 DEF FlowInv, HookSound

\* Hooks that go on soundly, and leave what a receipt says of them, keep the
\* invariant over a ledger that keeps its dispatches and receipts.
LEMMA FlowKept ==
  ASSUME FlowInv, FlowTypeOK', LedgerSound', clock <= clock', LedgerKept,
         \A j \in Calls : hook'[j] = hook[j] \/ HookSound(j)',
         \A j \in Calls : hook[j].pc \in ReceiptPlaces =>
           /\ hook'[j].pc \in ReceiptPlaces
           /\ hook'[j].card = hook[j].card /\ hook'[j].result = hook[j].result
  PROVE  FlowInv'
<1>1. ASSUME NEW j \in Calls PROVE HookSound(j)'
  BY HookKept DEF LedgerKept, Keeps
<1>2. ASSUME NEW c \in Created' PROVE ReceiptSound(c)'
  <2>1. CASE c \in Created
    <3>1. ledger[c].effect # "none" => ledger[c].dispatch # NoCall
      BY <2>1 DEF FlowInv, LedgerSound, RecordSound
    <3>2. ledger[c].verifier # "none" => ledger[c].effect # "none"
      BY <2>1 DEF FlowInv, LedgerSound, RecordSound
    <3>3. ledger[c].dispatch \in Calls \cup {NoCall}
      BY <2>1 DEF FlowInv, FlowTypeOK, BrokerTypeOK, CardRecord, Created
    <3>4. Keeps(ledger[c], ledger'[c])
      BY <2>1 DEF LedgerKept
    <3>5. ReceiptSound(c)
      BY <2>1 DEF FlowInv
    <3> QED BY <3>1, <3>2, <3>3, <3>4, <3>5 DEF ReceiptSound, Keeps, Effect
  <2>2. CASE c \notin Created
    BY <2>2 DEF LedgerKept, ReceiptSound
  <2> QED BY <2>1, <2>2
<1> QED BY <1>1, <1>2 DEF FlowInv

\* A step that leaves the ledger leaves it sound.
LEMMA LedgerStands ==
  ASSUME FlowInv, ledger' = ledger, clock' \in Nat, clock <= clock'
  PROVE  LedgerSound' /\ LedgerKept /\ Created' = Created
<1>1. Created' = Created
  BY DEF Created
<1>2. \A c \in Created : c.at \in Nat /\ clock \in Nat
  BY DEF FlowInv, FlowTypeOK, BrokerTypeOK, Cards
<1> QED BY <1>1, <1>2 DEF FlowInv, LedgerSound, LedgerKept, Keeps

\* One operation on a card whose answer leaves a sound record of its card.
LEMMA TransactKeeps ==
  ASSUME FlowInv, NEW c \in Cards, c.at <= clock, clock' = clock,
         NEW answer, answer.record \in CardRecord, RecordSound(c, answer.record),
         c \in Created => Keeps(ledger[c], answer.record),
         c \notin Created =>
           answer.record.effect = "none" /\ answer.record.verifier = "none",
         NEW status, Transact(c, answer, status)
  PROVE  BrokerTypeOK' /\ LedgerSound' /\ LedgerKept
<1>1. BrokerTypeOK
  BY DEF FlowInv, FlowTypeOK
<1>2. /\ BrokerTypeOK'
      /\ Created \subseteq Created' /\ Created' \subseteq Created \cup {c}
      /\ \A d \in Created \ {c} : ledger'[d] = ledger[d]
      /\ c \in Created' => \/ ledger'[c] = answer.record
                           \/ c \in Created /\ ledger'[c] = ledger[c]
  BY <1>1, TransactWrites
<1>3. LedgerSound'
  BY <1>2 DEF LedgerSound, FlowInv
<1>4. LedgerKept
  BY <1>2 DEF LedgerKept, Keeps
<1> QED BY <1>2, <1>3, <1>4

\* A hook's step that appends nothing.
LEMMA HookAlone ==
  ASSUME FlowInv, NEW k \in Calls,
         UNCHANGED <<ledger, torn, callbacks, clock>>,
         faults' \in 0..MaxFault, world' \in Nat,
         hook' \in [Calls -> HookRecord],
         \A j \in Calls \ {k} : hook'[j] = hook[j],
         HookSound(k)',
         hook[k].pc \in ReceiptPlaces =>
           /\ hook'[k].pc \in ReceiptPlaces
           /\ hook'[k].card = hook[k].card /\ hook'[k].result = hook[k].result
  PROVE  FlowInv'
<1>1. clock \in Nat
  BY TimeAssumption DEF FlowInv, FlowTypeOK
<1>2. LedgerSound' /\ LedgerKept /\ Created' = Created
  BY <1>1, LedgerStands
<1>3. FlowTypeOK'
  BY <1>2 DEF FlowInv, FlowTypeOK, BrokerTypeOK
<1> QED BY <1>1, <1>2, <1>3, FlowKept

\* A hook's step on a card of the ledger, or on the one it creates, whose answer
\* leaves a sound record that keeps the card's dispatch and receipts.
LEMMA HookTransacts ==
  ASSUME FlowInv, NEW k \in Calls, NEW c \in Cards, c.at <= clock,
         UNCHANGED <<callbacks, clock, world>>,
         NEW answer, answer.record \in CardRecord, RecordSound(c, answer.record),
         c \in Created => Keeps(ledger[c], answer.record),
         c \notin Created =>
           answer.record.effect = "none" /\ answer.record.verifier = "none",
         NEW status, Transact(c, answer, status),
         hook' \in [Calls -> HookRecord],
         \A j \in Calls \ {k} : hook'[j] = hook[j],
         HookSound(k)',
         hook[k].pc \in ReceiptPlaces =>
           /\ hook'[k].pc \in ReceiptPlaces
           /\ hook'[k].card = hook[k].card /\ hook'[k].result = hook[k].result
  PROVE  FlowInv'
<1>1. clock \in Nat
  BY TimeAssumption DEF FlowInv, FlowTypeOK
<1>2. BrokerTypeOK' /\ LedgerSound' /\ LedgerKept
  BY TransactKeeps
<1>3. FlowTypeOK'
  BY <1>2 DEF FlowInv, FlowTypeOK, LedgerKept
<1> QED BY <1>1, <1>2, <1>3, FlowKept

\* Go moves one hook and changes nothing else of it.
LEMMA GoFields ==
  ASSUME FlowInv, NEW k \in Calls, NEW pc \in Places, Go(k, pc)
  PROVE  /\ hook' \in [Calls -> HookRecord]
         /\ \A j \in Calls \ {k} : hook'[j] = hook[j]
         /\ hook'[k].pc = pc
         /\ hook'[k].card = hook[k].card /\ hook'[k].result = hook[k].result
         /\ hook'[k].at = hook[k].at /\ hook'[k].world = hook[k].world
         /\ hook'[k].at <= clock
BY DEF FlowInv, FlowTypeOK, HookRecord, Go, HookSound

\* Finish leaves a hook that knows nothing.
LEMMA FinishFields ==
  ASSUME FlowInv, NEW k \in Calls, NEW pc \in {"refused", "deferred"}, Finish(k, pc),
         clock' \in Nat
  PROVE  /\ hook' \in [Calls -> HookRecord]
         /\ \A j \in Calls \ {k} : hook'[j] = hook[j]
         /\ hook'[k].pc = pc
         /\ HookSound(k)'
<1>1. [Idle EXCEPT !.pc = pc] \in HookRecord
  BY TimeAssumption DEF HookRecord, Idle, Places
<1>2. /\ hook' \in [Calls -> HookRecord]
      /\ \A j \in Calls \ {k} : hook'[j] = hook[j]
      /\ hook'[k] = [Idle EXCEPT !.pc = pc]
  BY <1>1 DEF FlowInv, FlowTypeOK, Finish
<1>3. hook'[k].pc = pc /\ hook'[k].at = 0 /\ hook'[k].card = NoCard
  BY <1>2 DEF Idle
<1> QED BY <1>2, <1>3 DEF HookSound, GivenPlaces, PostTool

\* The steps of a hook that leave the ledger alone.
LEMMA QuietHookStep ==
  ASSUME FlowInv, NEW k \in Calls,
         \/ Begin(k) \/ Scan(k) \/ ObserveDispatch(k) \/ Judge(k) \/ Match(k)
         \/ DiePreTool(k) \/ Complete(k) \/ DiePostTool(k)
  PROVE  FlowInv'
<1>1. /\ hook[k] \in HookRecord /\ hook[k].at <= clock
      /\ hook \in [Calls -> HookRecord]
      /\ clock \in 0..MaxTime /\ clock \in Nat /\ world \in Nat
      /\ faults \in 0..MaxFault
      /\ HookSound(k)
  BY TimeAssumption DEF FlowInv, FlowTypeOK, BrokerTypeOK, HookSound
<1>2. Idle \in HookRecord
  BY TimeAssumption DEF Idle, Places, HookRecord
<1> USE DEF HookSound
<1>3. CASE Begin(k)
  <2>1. /\ hook[k].pc = "idle"
        /\ hook' = [hook EXCEPT ![k] = [Idle EXCEPT !.pc = "scan", !.world = world,
                                                   !.at = clock]]
        /\ UNCHANGED <<ledger, torn, faults, callbacks, world, clock>>
    BY <1>3 DEF Begin, OnlyHook, brokerVars
  <2>2. /\ hook' \in [Calls -> HookRecord]
        /\ \A j \in Calls \ {k} : hook'[j] = hook[j]
        /\ hook'[k].pc = "scan" /\ hook'[k].at = clock
        /\ hook'[k].card = NoCard
    BY <1>1, <1>2, <2>1 DEF HookRecord, Idle, Places, PreTool
  <2>3. HookSound(k)'
    BY <1>1, <2>1, <2>2 DEF GivenPlaces, PostTool
  <2> QED BY <1>1, <2>1, <2>2, <2>3, HookAlone DEF ReceiptPlaces
<1>4. CASE Scan(k)
  <2>1. hook[k].pc = "scan" /\ UNCHANGED <<ledger, torn, faults, callbacks, world, clock>>
    BY <1>4 DEF Scan, OnlyHook, brokerVars
  <2>2. CASE Go(k, "judge")
    <3>1. HookSound(k)'
      BY <1>1, <2>1, <2>2, GoFields DEF GivenPlaces, PostTool, Places, PreTool, Created
    <3> QED BY <1>1, <2>1, <2>2, <3>1, GoFields, HookAlone
            DEF ReceiptPlaces, Places, PreTool
  <2>3. CASE ~Go(k, "judge")
    <3> DEFINE c == CHOOSE c \in Candidates(k) : TRUE
    <3>1. /\ Cardinality(Candidates(k)) = 1
          /\ hook' = [hook EXCEPT ![k].pc = "consume", ![k].card = c]
      BY <1>4, <2>3 DEF Scan
    <3>2. Candidates(k) # {}
      BY <3>1, FS_EmptySet
    <3>3. c \in Created /\ c.action = ActionOf[k]
      BY <3>2 DEF Candidates, Pending
    <3>4. c \in Cards
      BY <3>3 DEF FlowInv, FlowTypeOK, BrokerTypeOK
    <3> HIDE DEF c
    <3>5. /\ hook' \in [Calls -> HookRecord]
          /\ \A j \in Calls \ {k} : hook'[j] = hook[j]
          /\ hook'[k].pc = "consume" /\ hook'[k].at = hook[k].at /\ hook'[k].card = c
      BY <1>1, <3>1, <3>4 DEF HookRecord, Places, PreTool
    <3>6. HookSound(k)'
      BY <1>1, <2>1, <3>3, <3>5 DEF GivenPlaces, PostTool, Created
    <3> QED BY <1>1, <2>1, <3>5, <3>6, HookAlone DEF ReceiptPlaces
  <2> QED BY <2>2, <2>3
<1>5. CASE ObserveDispatch(k)
  <2>1. /\ hook[k].pc = "observe" /\ UNCHANGED <<ledger, torn, faults, callbacks, clock>>
        /\ world' \in Nat
        /\ Go(k, "tool") \/ Finish(k, "refused")
    BY <1>1, <1>5 DEF ObserveDispatch, brokerVars
  <2>2. CASE Go(k, "tool")
    <3>1. HookSound(k)'
      BY <1>1, <2>1, <2>2, GoFields DEF GivenPlaces, PostTool, Places, Created
    <3> QED BY <1>1, <2>1, <2>2, <3>1, GoFields, HookAlone DEF ReceiptPlaces, Places
  <2>3. CASE Finish(k, "refused")
    BY <1>1, <2>1, <2>3, FinishFields, HookAlone DEF ReceiptPlaces
  <2> QED BY <2>1, <2>2, <2>3
<1>6. CASE Judge(k)
  <2>1. /\ hook[k].pc = "judge"
        /\ hook' = [hook EXCEPT ![k].pc = "match", ![k].world = world, ![k].at = clock]
        /\ UNCHANGED <<ledger, torn, faults, callbacks, world, clock>>
    BY <1>6 DEF Judge, OnlyHook, brokerVars
  <2>2. /\ hook' \in [Calls -> HookRecord]
        /\ \A j \in Calls \ {k} : hook'[j] = hook[j]
        /\ hook'[k].pc = "match" /\ hook'[k].at = clock
        /\ hook'[k].card = hook[k].card
    BY <1>1, <2>1 DEF HookRecord, Places, PreTool, Asking
  <2>3. HookSound(k)'
    BY <1>1, <2>1, <2>2 DEF GivenPlaces, PostTool, Created
  <2> QED BY <1>1, <2>1, <2>2, <2>3, HookAlone DEF ReceiptPlaces
<1>7. CASE Match(k)
  <2>1. hook[k].pc = "match" /\ UNCHANGED <<ledger, torn, faults, callbacks, world, clock>>
    BY <1>7 DEF Match, OnlyHook, brokerVars
  <2>2. CASE Go(k, "create")
    <3>1. HookSound(k)'
      BY <1>1, <2>1, <2>2, GoFields
         DEF GivenPlaces, PostTool, Places, PreTool, Asking, Created
    <3> QED BY <1>1, <2>1, <2>2, <3>1, GoFields, HookAlone
            DEF ReceiptPlaces, Places, PreTool, Asking
  <2>3. CASE Finish(k, "refused") \/ Finish(k, "deferred")
    BY <1>1, <2>1, <2>3, FinishFields, HookAlone DEF ReceiptPlaces
  <2> QED BY <1>7, <2>2, <2>3 DEF Match
<1>8. CASE DiePreTool(k)
  <2>1. /\ hook[k].pc \in PreTool /\ hook' = [hook EXCEPT ![k] = Idle]
        /\ UNCHANGED <<ledger, torn, callbacks, world, clock>>
        /\ faults' \in 0..MaxFault
    BY <1>1, <1>8, MaxFaultAssumption DEF DiePreTool, OnlyHook, Fault
  <2>2. /\ hook' \in [Calls -> HookRecord]
        /\ \A j \in Calls \ {k} : hook'[j] = hook[j]
        /\ hook'[k].pc = "idle" /\ hook'[k].at = 0 /\ hook'[k].card = NoCard
    BY <1>1, <1>2, <2>1 DEF Idle
  <2>3. HookSound(k)'
    BY <1>1, <2>1, <2>2 DEF GivenPlaces, PostTool
  <2> QED BY <1>1, <2>1, <2>2, <2>3, HookAlone DEF ReceiptPlaces, PreTool, Asking
<1>9. CASE Complete(k)
  <2>1. PICK result \in {"failed", "returned", "verified"} :
          hook' = [hook EXCEPT ![k].pc = "receipt", ![k].result = result]
    BY <1>9 DEF Complete
  <2>2. hook[k].pc = "tool" /\ UNCHANGED <<ledger, torn, faults, callbacks, world, clock>>
    BY <1>9 DEF Complete, OnlyHook, brokerVars
  <2>3. /\ hook' \in [Calls -> HookRecord]
        /\ \A j \in Calls \ {k} : hook'[j] = hook[j]
        /\ hook'[k].pc = "receipt" /\ hook'[k].at = hook[k].at
        /\ hook'[k].card = hook[k].card
    BY <1>1, <2>1 DEF HookRecord, Places, PostTool
  <2>4. HookSound(k)'
    BY <1>1, <2>2, <2>3 DEF GivenPlaces, PostTool, Created
  <2> QED BY <1>1, <2>2, <2>3, <2>4, HookAlone DEF ReceiptPlaces
<1>10. CASE DiePostTool(k)
  <2>1. /\ hook[k].pc \in PostTool /\ Go(k, "done")
        /\ UNCHANGED <<ledger, torn, callbacks, world, clock>>
        /\ faults' \in 0..MaxFault
    BY <1>1, <1>10, MaxFaultAssumption DEF DiePostTool, OnlyHook, Fault
  <2>2. HookSound(k)'
    BY <1>1, <2>1, GoFields DEF GivenPlaces, PostTool, Places, Created
  <2> QED BY <1>1, <2>1, <2>2, GoFields, HookAlone DEF ReceiptPlaces, Places
<1> QED BY <1>3, <1>4, <1>5, <1>6, <1>7, <1>8, <1>9, <1>10

\* What the invariant says of a card in the ledger.
LEMMA CardFacts ==
  ASSUME FlowInv, NEW c \in Created
  PROVE  /\ c \in Cards /\ ledger[c] \in CardRecord /\ RecordSound(c, ledger[c])
         /\ c.at <= clock
BY DEF FlowInv, FlowTypeOK, BrokerTypeOK, LedgerSound, Created

\* A hook whose claim fails forgets its card.
LEMMA UnclaimedFields ==
  ASSUME FlowInv, NEW k \in Calls, Unclaimed(k), clock' = clock
  PROVE  /\ hook' \in [Calls -> HookRecord]
         /\ \A j \in Calls \ {k} : hook'[j] = hook[j]
         /\ hook'[k].pc = "judge"
         /\ HookSound(k)'
<1>1. /\ hook' \in [Calls -> HookRecord]
      /\ \A j \in Calls \ {k} : hook'[j] = hook[j]
      /\ hook'[k].pc = "judge" /\ hook'[k].at = hook[k].at
      /\ hook'[k].card = NoCard
  BY ZenonT(40) DEF FlowInv, FlowTypeOK, HookRecord, Unclaimed, Places, PreTool
<1> QED BY <1>1 DEF HookSound, GivenPlaces, PostTool, FlowInv

\* The steps of a hook before its tool that append.
LEMMA PreToolAppends ==
  ASSUME FlowInv, NEW k \in Calls,
         Consume(k) \/ Claim(k) \/ Create(k) \/ Publish(k)
  PROVE  FlowInv'
<1>1. /\ hook[k] \in HookRecord /\ hook \in [Calls -> HookRecord]
      /\ clock \in Nat /\ HookSound(k) /\ BrokerTypeOK
      /\ UNCHANGED <<callbacks, world, clock>>
  BY TimeAssumption DEF FlowInv, FlowTypeOK, Consume, Claim, Create, Publish, OnlyHook
<1>2. CASE Consume(k)
  <2> DEFINE c == hook[k].card
             answer == ConsumeAnswer(c, ledger[c], ActionOf[k], hook[k].world, clock)
  <2>1. PICK status \in Heard(answer) :
          /\ Transact(c, answer, status)
          /\ Go(k, "claim") \/ Unclaimed(k)
    BY <1>2 DEF Consume
  <2>2. hook[k].pc = "consume" /\ c \in Created /\ c.action = ActionOf[k]
    BY <1>1, <1>2 DEF Consume, HookSound
  <2>3. /\ answer.record \in CardRecord /\ RecordSound(c, answer.record)
        /\ Keeps(ledger[c], answer.record)
        /\ c \in Cards /\ c.at <= clock
    BY <2>2, CardFacts, ConsumeSound
  <2> HIDE DEF answer
  <2>4. c \in Created'
    BY <1>1, <2>1, <2>2, <2>3, TransactWrites
  <2>5. CASE Go(k, "claim")
    <3>1. HookSound(k)'
      BY <1>1, <2>2, <2>4, <2>5, GoFields
         DEF HookSound, GivenPlaces, PostTool, Places, PreTool
    <3> QED BY <1>1, <2>1, <2>2, <2>3, <2>5, <3>1, GoFields, HookTransacts
            DEF ReceiptPlaces, Places, PreTool
  <2>6. CASE Unclaimed(k)
    BY <1>1, <2>1, <2>2, <2>3, <2>6, UnclaimedFields, HookTransacts
       DEF ReceiptPlaces
  <2> QED BY <2>1, <2>5, <2>6
<1>3. CASE Claim(k)
  <2> DEFINE c == hook[k].card
             answer == ClaimAnswer(ledger[c], k)
  <2>1. PICK status \in Heard(answer) :
          /\ Transact(c, answer, status)
          /\ IF status = "claimed" THEN Go(k, "observe") ELSE Unclaimed(k)
    BY <1>3 DEF Claim
  <2>2. hook[k].pc = "claim" /\ c \in Created /\ c.action = ActionOf[k]
    BY <1>1, <1>3 DEF Claim, HookSound
  <2>3. /\ answer.record \in CardRecord /\ RecordSound(c, answer.record)
        /\ Keeps(ledger[c], answer.record)
        /\ c \in Cards /\ c.at <= clock
    BY <2>2, CardFacts, ClaimSound
  <2>4. answer.status = "claimed" => answer.record.dispatch = k
    <3>1. ledger[c] \in CardRecord
      BY <2>2, CardFacts
    <3> QED BY <3>1 DEF ClaimAnswer, Says, CardRecord
  <2> HIDE DEF answer
  <2>5. c \in Created' /\ (status = "claimed" => ledger'[c].dispatch = k)
    BY <1>1, <2>1, <2>2, <2>3, <2>4, TransactWrites
  <2>6. CASE status = "claimed"
    <3>1. HookSound(k)'
      BY <1>1, <2>1, <2>2, <2>5, <2>6, GoFields
         DEF HookSound, GivenPlaces, PostTool, Places, PreTool
    <3> QED BY <1>1, <2>1, <2>2, <2>3, <2>6, <3>1, GoFields, HookTransacts
            DEF ReceiptPlaces, Places, PreTool
  <2>7. CASE status # "claimed"
    BY <1>1, <2>1, <2>2, <2>3, <2>7, UnclaimedFields, HookTransacts
       DEF ReceiptPlaces
  <2> QED BY <2>6, <2>7
<1>4. CASE Create(k)
  <2> DEFINE c == OwnCard(k)
             answer == CreateAnswer(c)
  <2>1. PICK status \in Heard(answer) :
          /\ Transact(c, answer, status)
          /\ IF status = "error" THEN Finish(k, "refused") ELSE Go(k, "publish")
    BY <1>4 DEF Create
  <2>2. hook[k].pc = "create" /\ c \in Cards /\ c.at <= clock
    BY <1>1, <1>4, ActionAssumption DEF Create, OwnCard, Cards, HookRecord, HookSound
  <2>3. /\ answer.record \in CardRecord /\ RecordSound(c, answer.record)
        /\ c \in Created => Keeps(ledger[c], answer.record)
        /\ c \notin Created =>
             answer.record.effect = "none" /\ answer.record.verifier = "none"
    <3>1. CASE c \in Created
      BY <3>1, CardFacts DEF CreateAnswer, Says, Keeps
    <3>2. CASE c \notin Created
      BY <2>2, <3>2, BlankSound DEF CreateAnswer, Says, Blank
    <3> QED BY <3>1, <3>2
  <2> HIDE DEF answer
  <2>4. Created \subseteq Created' /\ (status # "error" => c \in Created')
    BY <1>1, <2>1, <2>2, <2>3, TransactWrites
  <2>5. CASE status # "error"
    <3>1. OwnCard(k)' = c
      BY <2>1, <2>5, GoFields DEF OwnCard, Places, PreTool, Asking
    <3>2. HookSound(k)'
      BY <1>1, <2>1, <2>2, <2>4, <2>5, <3>1, GoFields
         DEF HookSound, GivenPlaces, PostTool, Places, PreTool, Asking
    <3> HIDE DEF c
    <3> QED BY <1>1, <2>1, <2>2, <2>3, <2>5, <3>2, GoFields, HookTransacts
            DEF ReceiptPlaces, Places, PreTool, Asking
  <2>6. CASE status = "error"
    BY <1>1, <2>1, <2>2, <2>3, <2>6, FinishFields, HookTransacts
       DEF ReceiptPlaces
  <2> QED BY <2>5, <2>6
<1>5. CASE Publish(k)
  <2> DEFINE c == OwnCard(k)
             answer == PublishAnswer(ledger[c])
  <2>1. PICK status \in Heard(answer) :
          /\ Transact(c, answer, status)
          /\ Finish(k, "refused") \/ Finish(k, "deferred")
    BY <1>5 DEF Publish
  <2>2. hook[k].pc = "publish" /\ c \in Created
    BY <1>1, <1>5 DEF Publish, HookSound
  <2>3. /\ answer.record \in CardRecord /\ RecordSound(c, answer.record)
        /\ Keeps(ledger[c], answer.record)
        /\ c \in Cards /\ c.at <= clock
    BY <2>2, CardFacts, PublishSound
  <2> HIDE DEF answer, c
  <2> QED BY <1>1, <2>1, <2>2, <2>3, FinishFields, HookTransacts
          DEF ReceiptPlaces
<1> QED BY <1>2, <1>3, <1>4, <1>5

\* The completion's steps: two receipts and the settlement.
LEMMA PostToolAppends ==
  ASSUME FlowInv, NEW k \in Calls, RecordEffect(k) \/ RecordVerifier(k) \/ Settle(k)
  PROVE  FlowInv'
<1>1. /\ hook[k] \in HookRecord /\ hook \in [Calls -> HookRecord]
      /\ clock \in Nat /\ HookSound(k) /\ BrokerTypeOK
      /\ UNCHANGED <<callbacks, world, clock>>
  BY TimeAssumption
     DEF FlowInv, FlowTypeOK, RecordEffect, RecordVerifier, Settle, OnlyHook
<1>2. CASE Settle(k)
  <2> DEFINE c == hook[k].card
             answer == SettleAnswer(c, ledger[c], clock)
  <2>1. PICK status \in Heard(answer) : Transact(c, answer, status)
    BY <1>2 DEF Settle
  <2>2. hook[k].pc = "settle" /\ c \in Created /\ Go(k, "done")
        /\ ledger[c].dispatch = k /\ c.action = ActionOf[k]
    BY <1>1, <1>2 DEF Settle, HookSound, GivenPlaces, PostTool
  <2>3. /\ answer.record \in CardRecord /\ RecordSound(c, answer.record)
        /\ Keeps(ledger[c], answer.record)
        /\ c \in Cards /\ c.at <= clock
    BY <2>2, CardFacts, SettleSound
  <2> HIDE DEF answer
  <2>4. c \in Created' /\ ledger'[c].dispatch = k
    BY <1>1, <2>1, <2>2, <2>3, NoCallAssumption, TransactWrites DEF Keeps
  <2>5. HookSound(k)'
    BY <1>1, <2>2, <2>4, GoFields DEF HookSound, GivenPlaces, PostTool, Places
  <2>6. /\ hook' \in [Calls -> HookRecord]
        /\ \A j \in Calls \ {k} : hook'[j] = hook[j]
        /\ hook'[k].pc = "done"
        /\ hook'[k].card = hook[k].card /\ hook'[k].result = hook[k].result
    BY <2>2, GoFields DEF Places
  <2> HIDE DEF c
  <2> QED BY <1>1, <2>1, <2>2, <2>3, <2>5, <2>6, HookTransacts DEF ReceiptPlaces
<1> DEFINE c == hook[k].card
           r == ledger[c]
<1>3. ASSUME NEW answer, NEW status, Transact(c, answer, status),
             hook[k].pc \in GivenPlaces,
             answer.record \in CardRecord, RecordSound(c, answer.record),
             answer.record.dispatch = r.dispatch,
             NEW pc \in ReceiptPlaces, Go(k, pc),
             pc = "verify" => hook[k].result = "verified",
             \/ ledger'[c] = r /\ (r.effect # "none" => hook[k].pc \in ReceiptPlaces)
             \/ /\ ledger'[c] = answer.record
                /\ answer.record.effect # "none" => answer.record.effect = Effect(k)
                /\ answer.record.verifier # "none" => hook[k].result = "verified"
      PROVE  FlowInv'
  <2>1. /\ hook' \in [Calls -> HookRecord]
        /\ \A j \in Calls \ {k} : hook'[j] = hook[j]
        /\ hook'[k].pc = pc /\ hook'[k].at <= clock
        /\ hook'[k].card = hook[k].card /\ hook'[k].result = hook[k].result
    BY <1>3, GoFields DEF Places, ReceiptPlaces, PostTool
  <2>2. c \in Created /\ r.dispatch = k /\ c.action = ActionOf[k]
    BY <1>1, <1>3 DEF HookSound
  <2>3. /\ BrokerTypeOK'
        /\ Created' = Created
        /\ \A d \in Created \ {c} : ledger'[d] = ledger[d]
        /\ ledger'[c] = answer.record \/ ledger'[c] = r
    <3>1. c \in Cards
      BY <2>2, CardFacts
    <3>2. /\ BrokerTypeOK'
          /\ Created \subseteq Created' /\ Created' \subseteq Created \cup {c}
          /\ \A d \in Created \ {c} : ledger'[d] = ledger[d]
          /\ c \in Created' => \/ ledger'[c] = answer.record
                               \/ c \in Created /\ ledger'[c] = ledger[c]
      BY <1>1, <1>3, <3>1, TransactWrites
    <3> QED BY <2>2, <3>2
  <2>4. FlowTypeOK'
    BY <1>1, <2>1, <2>3 DEF FlowInv, FlowTypeOK
  <2>5. LedgerSound'
    BY <1>1, <1>3, <2>2, <2>3 DEF LedgerSound, FlowInv
  <2>6. \A d \in Created : ledger'[d].dispatch = ledger[d].dispatch
    BY <1>3, <2>2, <2>3
  <2>7. ASSUME NEW j \in Calls PROVE HookSound(j)'
    <3>1. CASE j # k
      BY <1>1, <2>1, <2>3, <2>4, <2>6, <3>1, HookKept
    <3>2. CASE j = k
      BY <1>1, <1>3, <2>1, <2>2, <2>3, <2>6, <3>2
         DEF HookSound, ReceiptPlaces
    <3> QED BY <3>1, <3>2
  <2>8. ASSUME NEW d \in Created' PROVE ReceiptSound(d)'
    <3>1. CASE d # c
      <4>1. d \in Created /\ ledger'[d] = ledger[d] /\ ReceiptSound(d)
        BY <2>3, <3>1 DEF FlowInv
      <4>2. /\ ledger[d].dispatch \in Calls \cup {NoCall}
            /\ ledger[d].effect # "none" => ledger[d].dispatch # NoCall
            /\ ledger[d].verifier # "none" => ledger[d].effect # "none"
        BY <4>1, CardFacts DEF CardRecord, RecordSound
      <4>3. ledger[d].effect # "none" => hook'[ledger[d].dispatch] = hook[ledger[d].dispatch]
        BY <2>1, <3>1, <4>1, <4>2 DEF ReceiptSound
      <4> QED BY <4>1, <4>2, <4>3 DEF ReceiptSound, Effect
    <3>2. CASE d = c
      <4>1. ledger'[d].dispatch = k /\ ReceiptSound(c)
        BY <2>2, <2>6, <3>2 DEF FlowInv
      <4>2. hook'[k].pc \in ReceiptPlaces /\ hook'[k].card = c /\ Effect(k)' = Effect(k)
        BY <1>3, <2>1 DEF Effect
      <4>3. ledger'[d].effect # "none" => ledger'[d].effect = Effect(k)
        BY <1>3, <2>2, <3>2, <4>1 DEF ReceiptSound
      <4>4. ledger'[d].verifier # "none" => hook[k].result = "verified"
        BY <1>3, <2>2, <3>2, <4>1 DEF ReceiptSound
      <4>5. hook'[k].result = hook[k].result
        BY <2>1
      <4> HIDE DEF c
      <4> QED BY <3>2, <4>1, <4>2, <4>3, <4>4, <4>5 DEF ReceiptSound
    <3> QED BY <3>1, <3>2
  <2> QED BY <2>4, <2>5, <2>7, <2>8 DEF FlowInv
<1>4. CASE RecordEffect(k)
  <2> DEFINE answer == EffectAnswer(r, Effect(k))
  <2>1. PICK status \in Heard(answer) :
          /\ Transact(c, answer, status)
          /\ Go(k, CASE status = "error" -> "done"
                     [] status # "error" /\ hook[k].result = "verified" -> "verify"
                     [] OTHER -> "settle")
    BY <1>4 DEF RecordEffect
  <2>2. PICK pc \in ReceiptPlaces :
          Go(k, pc) /\ (pc = "verify" => hook[k].result = "verified")
    BY <2>1 DEF ReceiptPlaces
  <2>3. hook[k].pc = "receipt" /\ c \in Created /\ r.dispatch = k
    BY <1>1, <1>4 DEF RecordEffect, HookSound, GivenPlaces, PostTool
  <2>4. /\ answer.record \in CardRecord /\ RecordSound(c, answer.record)
        /\ \/ answer.record = r
           \/ r.effect = "none" /\ answer.record = [r EXCEPT !.effect = Effect(k)]
        /\ c \in Cards /\ r \in CardRecord /\ RecordSound(c, r)
    BY <2>3, CardFacts, EffectSound, ZenonT(40) DEF Effect
  <2>5. r.effect = "none" /\ r.verifier = "none"
    <3>1. ReceiptSound(c)
      BY <2>3 DEF FlowInv
    <3> QED BY <2>3, <2>4, <3>1 DEF ReceiptSound, RecordSound, ReceiptPlaces
  <2>6. /\ answer.record.dispatch = r.dispatch
        /\ answer.record.effect \in {"none", Effect(k)}
        /\ answer.record.verifier = "none"
    BY <2>4, <2>5 DEF CardRecord
  <2> HIDE DEF answer
  <2>7. ledger'[c] = answer.record \/ ledger'[c] = r
    BY <1>1, <2>1, <2>3, <2>4, TransactWrites
  <2> QED BY <1>3, <2>1, <2>2, <2>3, <2>4, <2>5, <2>6, <2>7 DEF GivenPlaces, PostTool
<1>5. CASE RecordVerifier(k)
  <2> DEFINE answer == VerifierAnswer(r, "passed")
  <2>1. PICK status \in Heard(answer) :
          /\ Transact(c, answer, status)
          /\ Go(k, IF status = "error" THEN "done" ELSE "settle")
    BY <1>5 DEF RecordVerifier
  <2>2. PICK pc \in ReceiptPlaces : Go(k, pc) /\ pc # "verify"
    BY <2>1 DEF ReceiptPlaces
  <2>3. /\ hook[k].pc = "verify" /\ c \in Created /\ r.dispatch = k
        /\ hook[k].result = "verified"
    BY <1>1, <1>5 DEF RecordVerifier, HookSound, GivenPlaces, PostTool
  <2>4. /\ answer.record \in CardRecord /\ RecordSound(c, answer.record)
        /\ \/ answer.record = r
           \/ answer.record = [r EXCEPT !.verifier = "passed"]
        /\ c \in Cards /\ r \in CardRecord
    BY <2>3, CardFacts, VerifierSound
  <2>5. /\ answer.record.dispatch = r.dispatch
        /\ answer.record.effect = r.effect
    BY <2>4 DEF CardRecord
  <2>6. r.effect # "none" => r.effect = Effect(k)
    BY <2>3 DEF FlowInv, ReceiptSound
  <2> HIDE DEF answer
  <2>7. ledger'[c] = answer.record \/ ledger'[c] = r
    BY <1>1, <2>1, <2>3, <2>4, TransactWrites
  <2> QED BY <1>3, <2>1, <2>2, <2>3, <2>4, <2>5, <2>6, <2>7
          DEF GivenPlaces, PostTool, ReceiptPlaces
<1> QED BY <1>2, <1>4, <1>5

\* What the human's side or a callback does to a card of the ledger.
LEMMA HumanTransacts ==
  ASSUME FlowInv, NEW c \in Created, UNCHANGED <<hook, world, clock>>,
         callbacks' \subseteq [card : Created, outcome : {"allow", "deny"},
                              step : {"record", "settle"}],
         NEW answer, answer.record \in CardRecord, RecordSound(c, answer.record),
         Keeps(ledger[c], answer.record),
         NEW status, Transact(c, answer, status)
  PROVE  FlowInv'
<1>1. clock \in Nat
  BY TimeAssumption DEF FlowInv, FlowTypeOK
<1>2. BrokerTypeOK' /\ LedgerSound' /\ LedgerKept
  BY CardFacts, TransactKeeps
<1>3. FlowTypeOK'
  BY <1>2 DEF FlowInv, FlowTypeOK, LedgerKept
<1> QED BY <1>1, <1>2, <1>3, FlowKept

\* The human's answers and their way into the ledger.
LEMMA HumanStepKeeps ==
  ASSUME FlowInv, HumanStep
  PROVE  FlowInv'
<1> DEFINE Callback == [card : Created, outcome : {"allow", "deny"},
                        step : {"record", "settle"}]
<1>1. /\ UNCHANGED <<hook, world, clock>> /\ callbacks \subseteq Callback
      /\ clock \in Nat /\ BrokerTypeOK
  BY TimeAssumption DEF FlowInv, FlowTypeOK, HumanStep, Display, Answer,
     RecordDecision, SettleDenial, LoseCallback, OnlyHuman
<1>2. ASSUME ledger' = ledger, torn' = torn, faults' \in 0..MaxFault,
             callbacks' \subseteq Callback
      PROVE  FlowInv'
  <2>1. LedgerSound' /\ LedgerKept /\ Created' = Created
    BY <1>1, <1>2, LedgerStands
  <2>2. FlowTypeOK'
    BY <1>1, <1>2, <2>1 DEF FlowInv, FlowTypeOK, BrokerTypeOK
  <2> QED BY <1>1, <2>1, <2>2, FlowKept
<1>3. ASSUME NEW c \in Created, Display(c) PROVE FlowInv'
  <2>1. PICK status : Transact(c, DisplayAnswer(ledger[c]), status)
    BY <1>3 DEF Display
  <2>2. LET s == DisplayAnswer(ledger[c]).record
        IN  s \in CardRecord /\ RecordSound(c, s) /\ Keeps(ledger[c], s)
    BY CardFacts, DisplaySound
  <2> QED BY <1>1, <1>3, <2>1, <2>2, HumanTransacts DEF Display
<1>4. ASSUME NEW c \in Created, Answer(c) PROVE FlowInv'
  <2>1. UNCHANGED <<ledger, torn, faults>>
    BY <1>4 DEF Answer, brokerVars
  <2>2. callbacks' \subseteq Callback
    BY <1>1, <1>4 DEF Answer
  <2>3. faults \in 0..MaxFault
    BY <1>1 DEF BrokerTypeOK
  <2> QED BY <1>2, <2>1, <2>2, <2>3
<1>5. ASSUME NEW cb \in callbacks, RecordDecision(cb) PROVE FlowInv'
  <2>1. cb \in Callback
    BY <1>1
  <2> DEFINE answer == DecideAnswer(cb.card, ledger[cb.card], cb.outcome, clock)
  <2>2. PICK status : Transact(cb.card, answer, status)
    BY <1>5 DEF RecordDecision
  <2>3. callbacks' \subseteq Callback
    BY <1>1, <1>5, <2>1 DEF RecordDecision
  <2>4. answer.record \in CardRecord /\ RecordSound(cb.card, answer.record)
        /\ Keeps(ledger[cb.card], answer.record)
    BY <1>1, <2>1, CardFacts, DecideSound
  <2> HIDE DEF answer
  <2> QED BY <1>1, <2>1, <2>2, <2>3, <2>4, HumanTransacts
<1>6. ASSUME NEW cb \in callbacks, SettleDenial(cb) PROVE FlowInv'
  <2>1. cb \in Callback
    BY <1>1
  <2> DEFINE answer == SettleAnswer(cb.card, ledger[cb.card], clock)
  <2>2. PICK status : Transact(cb.card, answer, status)
    BY <1>6 DEF SettleDenial
  <2>3. callbacks' \subseteq Callback
    BY <1>1, <1>6, <2>1 DEF SettleDenial
  <2>4. answer.record \in CardRecord /\ RecordSound(cb.card, answer.record)
        /\ Keeps(ledger[cb.card], answer.record)
    BY <1>1, <2>1, CardFacts, SettleSound
  <2> HIDE DEF answer
  <2> QED BY <1>1, <2>1, <2>2, <2>3, <2>4, HumanTransacts
<1>7. ASSUME NEW cb \in callbacks, LoseCallback(cb) PROVE FlowInv'
  <2>1. ledger' = ledger /\ torn' = torn /\ callbacks' \subseteq Callback
    BY <1>1, <1>7 DEF LoseCallback
  <2>2. faults' \in 0..MaxFault
    BY <1>1, <1>7, MaxFaultAssumption DEF LoseCallback, Fault, BrokerTypeOK
  <2> QED BY <1>2, <2>1, <2>2
<1> QED BY <1>3, <1>4, <1>5, <1>6, <1>7 DEF HumanStep

\* Time passes and the world drifts.
LEMMA EnvironmentKeeps ==
  ASSUME FlowInv, Tick \/ Drift
  PROVE  FlowInv'
<1>1. /\ UNCHANGED <<ledger, torn, faults, hook, callbacks>>
      /\ clock' \in 0..MaxTime /\ clock <= clock' /\ world' \in Nat
  BY TimeAssumption DEF FlowInv, FlowTypeOK, Tick, Drift, brokerVars
<1>2. LedgerSound' /\ LedgerKept /\ Created' = Created
  BY <1>1, TimeAssumption, LedgerStands
<1>3. FlowTypeOK'
  BY <1>1, <1>2 DEF FlowInv, FlowTypeOK, BrokerTypeOK
<1> QED BY <1>1, <1>2, <1>3, FlowKept

\* The invariant is inductive.
LEMMA FlowAlways == Spec => []FlowInv
<1>1. Init => FlowInv
  <2> SUFFICES ASSUME Init PROVE FlowInv
    OBVIOUS
  <2>1. Created = {} /\ ledger \in [Created -> CardRecord]
    BY DEF Init, BrokerInit, Created
  <2>2. BrokerTypeOK
    <3>1. faults \in 0..MaxFault
      BY MaxFaultAssumption DEF Init, BrokerInit
    <3>2. torn \in BOOLEAN
      BY DEF Init, BrokerInit
    <3> QED BY <2>1, <3>1, <3>2 DEF BrokerTypeOK
  <2>3. Idle \in HookRecord
    BY TimeAssumption DEF Idle, Places, HookRecord
  <2>4. FlowTypeOK
    BY <2>2, <2>3, TimeAssumption DEF Init, FlowTypeOK
  <2>5. \A k \in Calls : HookSound(k)
    BY DEF Init, Idle, HookSound, GivenPlaces, PostTool
  <2> QED BY <2>1, <2>4, <2>5 DEF FlowInv, LedgerSound
<1>2. FlowInv /\ [Next]_vars => FlowInv'
  <2> SUFFICES ASSUME FlowInv, [Next]_vars PROVE FlowInv'
    OBVIOUS
  <2>1. ASSUME NEW k \in Calls, HookStep(k) PROVE FlowInv'
    BY <2>1, QuietHookStep, PreToolAppends, PostToolAppends DEF HookStep
  <2>2. CASE UNCHANGED vars
    <3>1. UNCHANGED <<ledger, torn, faults, hook, callbacks, world, clock>>
      BY <2>2 DEF vars, brokerVars, flowVars
    <3>2. clock \in Nat
      BY TimeAssumption DEF FlowInv, FlowTypeOK
    <3>3. LedgerSound' /\ LedgerKept /\ Created' = Created
      BY <3>1, <3>2, LedgerStands
    <3>4. FlowTypeOK'
      BY <3>1, <3>3 DEF FlowInv, FlowTypeOK, BrokerTypeOK
    <3> QED BY <3>1, <3>2, <3>3, <3>4, FlowKept
  <2> QED BY <2>1, <2>2, HumanStepKeeps, EnvironmentKeeps DEF Next
<1> QED BY <1>1, <1>2, PTL DEF Spec
-----------------------------------------------------------------------------
\* The ledger and the processes around it keep their types, whatever races,
\* fails or dies (grant_broker.py:381-640).
THEOREM GrantTypeCorrect == Spec => []GrantTypeOK
<1>1. FlowInv => GrantTypeOK
  <2> SUFFICES ASSUME FlowInv PROVE GrantTypeOK
    OBVIOUS
  <2>1. ASSUME NEW k \in Calls
        PROVE  /\ hook[k].world \in Nat /\ hook[k].at \in 0..MaxTime
               /\ hook[k].card \in Created \cup {NoCard}
               /\ hook[k].result \in {"none", "failed", "returned", "verified"}
               /\ hook[k].pc \in {"idle", "tool", "done", "deferred", "refused"}
                                 \cup PreTool \cup PostTool
    BY DEF FlowInv, FlowTypeOK, HookRecord, Places, HookSound
  <2> QED BY <2>1 DEF FlowInv, FlowTypeOK, BrokerTypeOK, GrantTypeOK
<1> QED BY <1>1, FlowAlways, PTL

\* No call runs its tool but under a card that asked for exactly its action, was
\* on the screen and that a human allowed while it was good, and whose dispatch is
\* the call's alone (grant_broker.py:919-1090, audit.py:508-640).
THEOREM HumanAllowed == Spec => []HumanAllowedEffect
<1>1. FlowInv => HumanAllowedEffect
  <2> SUFFICES ASSUME FlowInv, NEW k \in Ran
               PROVE  LET c == hook[k].card
                      IN  /\ c \in Created /\ c.action = ActionOf[k]
                          /\ ledger[c].question /\ ledger[c].displayed
                          /\ ledger[c].decision = "allow"
                          /\ ledger[c].decidedAt \in c.at..(Expires(c) - 1)
                          /\ ledger[c].consumed /\ ledger[c].dispatch = k
    BY DEF HumanAllowedEffect
  <2>1. k \in Calls /\ hook[k].pc \in GivenPlaces /\ k # NoCall
    BY NoCallAssumption DEF Ran, GivenPlaces
  <2>2. /\ hook[k].card \in Created /\ hook[k].card.action = ActionOf[k]
        /\ ledger[hook[k].card].dispatch = k
    BY <2>1 DEF FlowInv, HookSound
  <2>3. RecordSound(hook[k].card, ledger[hook[k].card])
    BY <2>2, CardFacts
  <2> QED BY <2>1, <2>2, <2>3 DEF RecordSound
<1> QED BY <1>1, FlowAlways, PTL

\* Settlements agree with what happened outside the ledger, then and ever after
\* (grant_broker.py:1250-1330).
THEOREM SettlementTruth == Spec => []SettlementTellsTruth
<1>1. FlowInv => SettlementTellsTruth
  <2> SUFFICES ASSUME FlowInv, NEW c \in Created
               PROVE  LET ran == Doers(c)
                          results == {hook[k].result : k \in ran}
                      IN  CASE ledger[c].settlement
                                 \in {"denied", "expired", "fresh_decision_required"} ->
                                 ran = {} /\ ~ledger[c].consumed
                            [] ledger[c].settlement = "effect_failed" ->
                                 results = {"failed"}
                            [] ledger[c].settlement = "succeeded" ->
                                 results = {"verified"}
                            [] OTHER -> ledger[c].settlement = "none"
    BY DEF SettlementTellsTruth
  <2> DEFINE ran == Doers(c)
             results == {hook[k].result : k \in ran}
             r == ledger[c]
  <2>1. \A k \in ran : k \in Calls /\ r.dispatch = k
    BY DEF FlowInv, HookSound, Doers, Ran, GivenPlaces
  <2>2. RecordSound(c, r) /\ r \in CardRecord /\ ReceiptSound(c)
    BY CardFacts DEF FlowInv
  <2>3. ~r.consumed => ran = {}
    BY <2>1, <2>2, NoCallAssumption DEF RecordSound
  <2>4. r.effect # "none" => r.dispatch \in ran
    <3> SUFFICES ASSUME r.effect # "none" PROVE r.dispatch \in ran
      OBVIOUS
    <3>1. r.dispatch \in Calls
      BY <2>2 DEF RecordSound, CardRecord
    <3>2. hook[r.dispatch].pc \in ReceiptPlaces /\ hook[r.dispatch].card = c
      BY <2>2 DEF ReceiptSound
    <3> QED BY <3>1, <3>2 DEF Doers, Ran, ReceiptPlaces, PostTool
  <2>5. r.effect # "none" => results = {hook[r.dispatch].result}
    BY <2>1, <2>4
  <2>6. CASE r.settlement \in {"denied", "expired", "fresh_decision_required"}
    <3>1. ~r.consumed
      BY <2>2, <2>6 DEF RecordSound
    <3> QED BY <2>3, <2>6, <3>1
  <2>7. CASE r.settlement = "effect_failed"
    <3>1. r.effect = "failed" /\ Effect(r.dispatch) = "failed"
      BY <2>2, <2>7 DEF RecordSound, ReceiptSound
    <3>2. hook[r.dispatch].result = "failed"
      BY <3>1 DEF Effect
    <3> QED BY <2>5, <2>7, <3>1, <3>2
  <2>8. CASE r.settlement = "succeeded"
    <3>1. r.verifier = "passed" /\ r.effect # "none"
      BY <2>2, <2>8 DEF RecordSound
    <3>2. hook[r.dispatch].result = "verified"
      BY <2>2, <3>1 DEF ReceiptSound
    <3> QED BY <2>5, <2>8, <3>1, <3>2
  <2>9. CASE r.settlement = "none"
    BY <2>9
  <2> QED BY <2>2, <2>6, <2>7, <2>8, <2>9 DEF RecordSound
<1> QED BY <1>1, FlowAlways, PTL
-----------------------------------------------------------------------------
(* The hooks and the ledger implement OneShotGrant.                           *)

\* At most the call that holds a card acts under it.
LEMMA DoersHold ==
  ASSUME FlowInv, NEW c
  PROVE  /\ \A k \in Doers(c) : c \in Created /\ ledger[c].dispatch = k
         /\ Doers(c) = {} => Cardinality(Doers(c)) = 0
         /\ Doers(c) # {} => Cardinality(Doers(c)) = 1
<1>1. \A k \in Doers(c) : c \in Created /\ ledger[c].dispatch = k
  BY DEF FlowInv, HookSound, Doers, Ran, GivenPlaces
<1>2. Doers(c) # {} => Doers(c) = {ledger[c].dispatch}
  BY <1>1
<1> QED BY <1>1, <1>2, FS_EmptySet, FS_Singleton

\* What a step does to card c, as OneShotGrant sees it.
CardMove(c, from, to) ==
  /\ CardStatus(c) \in from /\ CardStatus(c)' = to
  /\ CardHolder(c)' = CardHolder(c) /\ Doers(c)' = Doers(c)

CardStep(c) ==
  \/ CardStatus(c)' = CardStatus(c) /\ CardHolder(c)' = CardHolder(c) /\ Doers(c)' = Doers(c)
  \/ CardMove(c, {"absent"}, "asked")
  \/ CardMove(c, {"asked"}, "allowed")
  \/ CardMove(c, {"allowed"}, "committed")
  \/ CardMove(c, {"asked", "allowed"}, "over")
  \/ Doers(c) # {} /\ CardMove(c, {"committed"}, "over")
  \/ /\ CardStatus(c) = "committed" /\ CardStatus(c)' = "committed"
     /\ CardHolder(c) = NoCall /\ CardHolder(c)' \in Calls
     /\ Doers(c)' = Doers(c)
  \/ /\ CardStatus(c) = "committed" /\ CardStatus(c)' = "committed"
     /\ CardHolder(c)' = CardHolder(c) /\ CardHolder(c) # NoCall
     /\ Doers(c) = {} /\ Doers(c)' # {}

\* A card's step is one the specification of one-shot grants allows it.
LEMMA CardStepMapped ==
  ASSUME FlowInv, FlowInv', \A c \in CardSpace : CardStep(c)
  PROVE  OneShot!Next
<1> SUFFICES ASSUME NEW c \in CardSpace
             PROVE  \/ OneShot!Rest(c) \/ OneShot!Ask(c) \/ OneShot!Allow(c)
                    \/ OneShot!Commit(c) \/ OneShot!Refuse(c)
                    \/ OneShot!Give(c) \/ OneShot!Perform(c) \/ OneShot!Close(c)
  BY DEF OneShot!Next
<1>1. CardStep(c)
  OBVIOUS
<1>2. /\ Doers(c) = {} => Cardinality(Doers(c)) = 0
      /\ Doers(c) # {} => Cardinality(Doers(c)) = 1
      /\ Doers(c)' = {} => Cardinality(Doers(c))' = 0
      /\ Doers(c)' # {} => Cardinality(Doers(c))' = 1
  <2>1. \A k \in Doers(c)' : ledger'[c].dispatch = k
    BY DEF FlowInv, HookSound, Doers, Ran, GivenPlaces
  <2>2. Doers(c)' # {} => Doers(c)' = {ledger'[c].dispatch}
    BY <2>1
  <2> QED BY <2>2, DoersHold, FS_EmptySet, FS_Singleton
<1>3. CASE /\ CardStatus(c)' = CardStatus(c) /\ CardHolder(c)' = CardHolder(c)
           /\ Doers(c)' = Doers(c)
  BY <1>3 DEF OneShot!Rest
<1>4. CASE CardMove(c, {"absent"}, "asked")
  BY <1>4 DEF CardMove, OneShot!Ask, OneShot!Move
<1>5. CASE CardMove(c, {"asked"}, "allowed")
  BY <1>5 DEF CardMove, OneShot!Allow, OneShot!Move
<1>6. CASE CardMove(c, {"allowed"}, "committed")
  BY <1>6 DEF CardMove, OneShot!Commit, OneShot!Move
<1>7. CASE CardMove(c, {"asked", "allowed"}, "over")
  BY <1>7 DEF CardMove, OneShot!Refuse, OneShot!Move
<1>8. CASE Doers(c) # {} /\ CardMove(c, {"committed"}, "over")
  BY <1>2, <1>8 DEF CardMove, OneShot!Close, OneShot!Move
<1>9. CASE /\ CardStatus(c) = "committed" /\ CardStatus(c)' = "committed"
           /\ CardHolder(c) = NoCall /\ CardHolder(c)' \in Calls
           /\ Doers(c)' = Doers(c)
  BY <1>9 DEF OneShot!Give
<1>10. CASE /\ CardStatus(c) = "committed" /\ CardStatus(c)' = "committed"
            /\ CardHolder(c)' = CardHolder(c) /\ CardHolder(c) # NoCall
            /\ Doers(c) = {} /\ Doers(c)' # {}
  BY <1>2, <1>10 DEF OneShot!Perform
<1> QED BY <1>1, <1>3, <1>4, <1>5, <1>6, <1>7, <1>8, <1>9, <1>10 DEF CardStep

\* A card's status is its record's.
LEMMA StatusOfRecord ==
  ASSUME FlowInv, NEW c \in Created
  PROVE  CardStatus(c) = RecordStatus(ledger[c]) /\ CardHolder(c) = ledger[c].dispatch
<1>1. ledger[c].consumed \in BOOLEAN
  BY CardFacts DEF CardRecord
<1> QED BY <1>1 DEF CardStatus, RecordStatus, CardHolder, Pending

\* ... and after a step.
LEMMA StatusOfRecordNext ==
  ASSUME FlowInv', NEW c \in Created'
  PROVE  CardStatus(c)' = RecordStatus(ledger'[c]) /\ CardHolder(c)' = ledger'[c].dispatch
<1>1. ledger'[c].consumed \in BOOLEAN
  BY DEF FlowInv, FlowTypeOK, BrokerTypeOK, CardRecord, Created
<1> QED BY <1>1 DEF CardStatus, RecordStatus, CardHolder, Pending

\* One operation moves at most its own card, a step.
LEMMA TransactStep ==
  ASSUME FlowInv, FlowInv', NEW c0 \in Cards,
         NEW answer, answer.record \in CardRecord,
         c0 \in Created => RecordMoves(ledger[c0], answer.record),
         c0 \notin Created => answer.record = Blank,
         NEW status, Transact(c0, answer, status),
         \A c : Doers(c)' = Doers(c)
  PROVE  \A c : CardStep(c)
<1> SUFFICES ASSUME NEW c PROVE CardStep(c)
  OBVIOUS
<1>1. /\ Created \subseteq Created' /\ Created' \subseteq Created \cup {c0}
      /\ \A d \in Created \ {c0} : ledger'[d] = ledger[d]
      /\ c0 \in Created' => \/ ledger'[c0] = answer.record
                            \/ c0 \in Created /\ ledger'[c0] = ledger[c0]
  BY TransactWrites DEF FlowInv, FlowTypeOK
<1>2. CASE c \in Created
  <2>1. /\ CardStatus(c) = RecordStatus(ledger[c])
        /\ CardHolder(c) = ledger[c].dispatch
        /\ CardStatus(c)' = RecordStatus(ledger'[c])
        /\ CardHolder(c)' = ledger'[c].dispatch
    BY <1>1, <1>2, StatusOfRecord, StatusOfRecordNext
  <2>2. CASE ledger'[c] = ledger[c]
    BY <2>1, <2>2 DEF CardStep
  <2>3. CASE ledger'[c] # ledger[c]
    <3>1. RecordMoves(ledger[c], ledger'[c])
      BY <1>1, <1>2, <2>3
    <3>2. ledger[c].effect # "none" => Doers(c) # {}
      <4>1. ledger[c].effect # "none" =>
              /\ ledger[c].dispatch \in Calls
              /\ hook[ledger[c].dispatch].pc \in ReceiptPlaces
              /\ hook[ledger[c].dispatch].card = c
        BY <1>2, CardFacts DEF FlowInv, ReceiptSound, RecordSound, CardRecord
      <4> QED BY <4>1 DEF Doers, Ran, ReceiptPlaces, PostTool
    <3> QED BY <2>1, <3>1, <3>2 DEF RecordMoves, CardStep, CardMove
  <2> QED BY <2>2, <2>3
<1>3. CASE c \notin Created /\ c \in Created'
  <2>1. ledger'[c] = Blank
    BY <1>1, <1>3
  <2>2. CardStatus(c) = "absent" /\ CardHolder(c) = NoCall
    BY <1>3 DEF CardStatus, CardHolder, Pending
  <2>3. CardStatus(c)' = "asked" /\ CardHolder(c)' = NoCall
    BY <1>3, <2>1, StatusOfRecordNext DEF Blank, RecordStatus
  <2> QED BY <2>2, <2>3 DEF CardStep, CardMove
<1>4. CASE c \notin Created /\ c \notin Created'
  <2>1. CardStatus(c) = "absent" /\ CardHolder(c) = NoCall
    BY <1>4 DEF CardStatus, CardHolder, Pending
  <2>2. CardStatus(c)' = "absent" /\ CardHolder(c)' = NoCall
    BY <1>4 DEF CardStatus, CardHolder, Pending
  <2> QED BY <2>1, <2>2 DEF CardStep
<1> QED BY <1>1, <1>2, <1>3, <1>4

\* Without an append no card moves, unless a call begins to act.
LEMMA StandingCards ==
  ASSUME ledger' = ledger, NEW c, Doers(c)' = Doers(c)
  PROVE  CardStep(c)
<1>1. CardStatus(c)' = CardStatus(c) /\ CardHolder(c)' = CardHolder(c)
  BY DEF CardStatus, CardHolder, Pending, Created
<1> QED BY <1>1 DEF CardStep

RanPlaces == {"tool", "done"} \cup PostTool

\* Who acts under which card changes only when a hook lets its call run.
LEMMA DoersStand ==
  ASSUME NEW k \in Calls, \A j \in Calls \ {k} : hook'[j] = hook[j],
         hook[k].pc \in RanPlaces <=> hook'[k].pc \in RanPlaces,
         hook[k].pc \in RanPlaces => hook'[k].card = hook[k].card,
         NEW c
  PROVE  Doers(c)' = Doers(c)
BY DEF Doers, Ran, RanPlaces

\* A hook's step is a step of every card.
LEMMA HookCardStep ==
  ASSUME FlowInv, FlowInv', NEW k \in Calls, HookStep(k)
  PROVE  \A c : CardStep(c)
<1> DEFINE Others == \A j \in Calls \ {k} : hook'[j] = hook[j]
           Stays == /\ Others
                    /\ hook[k].pc \in RanPlaces <=> hook'[k].pc \in RanPlaces
                    /\ hook[k].pc \in RanPlaces => hook'[k].card = hook[k].card
<1>1. /\ hook \in [Calls -> HookRecord] /\ HookSound(k) /\ hook[k] \in HookRecord
      /\ clock \in Nat
  BY TimeAssumption DEF FlowInv, FlowTypeOK
<1>2. Stays => \A c : Doers(c)' = Doers(c)
  BY DoersStand
<1>3. ledger' = ledger /\ Stays => \A c : CardStep(c)
  BY <1>2, StandingCards
<1>4. ASSUME NEW pc \in Places, Go(k, pc),
             hook[k].pc \in RanPlaces <=> pc \in RanPlaces
      PROVE  Stays
  BY <1>4, GoFields
<1>5. ASSUME NEW pc \in {"refused", "deferred"}, Finish(k, pc), clock' = clock,
             hook[k].pc \notin RanPlaces
      PROVE  Stays
  BY <1>1, <1>5, FinishFields DEF RanPlaces, PostTool
<1>6. ASSUME Unclaimed(k), clock' = clock, hook[k].pc \notin RanPlaces
      PROVE  Stays
  BY <1>6, UnclaimedFields DEF RanPlaces, PostTool
<1> USE DEF RanPlaces, PostTool
<1>7. CASE Begin(k)
  <2>1. Stays
    BY <1>1, <1>7 DEF Begin, Idle
  <2> QED BY <1>3, <1>7, <2>1 DEF Begin, brokerVars
<1>8. CASE Scan(k)
  <2>1. CASE Go(k, "judge")
    BY <1>3, <1>4, <1>8, <2>1 DEF Scan, brokerVars, Places, PreTool
  <2>2. CASE hook' = [hook EXCEPT ![k].pc = "consume",
                                  ![k].card = CHOOSE c \in Candidates(k) : TRUE]
    <3>1. Stays
      BY <1>1, <1>8, <2>2 DEF Scan, HookRecord
    <3> QED BY <1>3, <1>8, <3>1 DEF Scan, brokerVars
  <2> QED BY <1>8, <2>1, <2>2 DEF Scan
<1>9. CASE ObserveDispatch(k)
  <2>1. hook[k].pc = "observe" /\ ledger' = ledger /\ clock' = clock
    BY <1>9 DEF ObserveDispatch, brokerVars
  <2>2. CASE Finish(k, "refused")
    BY <1>3, <1>5, <2>1, <2>2
  <2>3. CASE Go(k, "tool")
    <3> SUFFICES ASSUME NEW c PROVE CardStep(c)
      OBVIOUS
    <3>1. /\ \A j \in Calls \ {k} : hook'[j] = hook[j]
          /\ hook'[k].pc = "tool" /\ hook'[k].card = hook[k].card
      BY <2>3, GoFields DEF Places
    <3>2. CASE c # hook[k].card
      <4>1. Doers(c)' = Doers(c)
        BY <2>1, <3>1, <3>2 DEF Doers, Ran
      <4> QED BY <2>1, <4>1, StandingCards
    <3>3. CASE c = hook[k].card
      <4>1. /\ c \in Created /\ ledger[c].dispatch = k /\ k # NoCall
            /\ RecordSound(c, ledger[c])
        BY <1>1, <2>1, <3>3, NoCallAssumption, CardFacts DEF HookSound, GivenPlaces
      <4>2. ledger[c].consumed /\ ledger[c].effect = "none"
        BY <2>1, <4>1 DEF RecordSound, FlowInv, ReceiptSound, ReceiptPlaces
      <4>3. RecordStatus(ledger[c]) = "committed"
        BY <4>1, <4>2 DEF RecordSound, RecordStatus
      <4>4. Doers(c) = {}
        BY <2>1, <4>1, DoersHold DEF Doers, Ran
      <4>5. Doers(c)' # {}
        BY <3>1, <3>3 DEF Doers, Ran
      <4>6. CardStatus(c)' = CardStatus(c) /\ CardHolder(c)' = CardHolder(c)
        BY <2>1 DEF CardStatus, CardHolder, Pending, Created
      <4> QED BY <4>1, <4>3, <4>4, <4>5, <4>6, StatusOfRecord DEF CardStep
    <3> QED BY <3>2, <3>3
  <2> QED BY <1>9, <2>2, <2>3 DEF ObserveDispatch
<1>10. CASE Judge(k)
  <2>1. Stays
    BY <1>1, <1>10 DEF Judge, HookRecord
  <2> QED BY <1>3, <1>10, <2>1 DEF Judge, brokerVars
<1>11. CASE Match(k)
  <2>1. hook[k].pc = "match" /\ ledger' = ledger /\ clock' = clock
    BY <1>11 DEF Match, brokerVars, OnlyHook
  <2>2. CASE Go(k, "create")
    BY <1>3, <1>4, <2>1, <2>2 DEF Places, PreTool, Asking
  <2>3. CASE Finish(k, "refused") \/ Finish(k, "deferred")
    BY <1>3, <1>5, <2>1, <2>3
  <2> QED BY <1>11, <2>2, <2>3 DEF Match
<1>12. CASE DiePreTool(k)
  <2>1. Stays
    BY <1>1, <1>12 DEF DiePreTool, Idle, PreTool, Asking
  <2> QED BY <1>3, <1>12, <2>1 DEF DiePreTool
<1>13. CASE Complete(k)
  <2>1. Stays
    BY <1>1, <1>13 DEF Complete, HookRecord
  <2> QED BY <1>3, <1>13, <2>1 DEF Complete, brokerVars
<1>14. CASE DiePostTool(k)
  BY <1>3, <1>4, <1>14 DEF DiePostTool, Places
<1>15. CASE Consume(k)
  <2> DEFINE c == hook[k].card
             answer == ConsumeAnswer(c, ledger[c], ActionOf[k], hook[k].world, clock)
  <2>1. PICK status \in Heard(answer) :
          Transact(c, answer, status) /\ (Go(k, "claim") \/ Unclaimed(k))
    BY <1>15 DEF Consume
  <2>2. hook[k].pc = "consume" /\ c \in Created /\ clock' = clock
    BY <1>1, <1>15 DEF Consume, HookSound, OnlyHook
  <2>3. /\ answer.record \in CardRecord /\ c \in Cards
        /\ RecordMoves(ledger[c], answer.record)
    BY <2>2, CardFacts, ConsumeSound, ConsumeMoves
  <2>4. Stays
    BY <1>4, <1>6, <2>1, <2>2 DEF Places, PreTool
  <2> HIDE DEF answer
  <2> QED BY <1>2, <2>1, <2>2, <2>3, <2>4, TransactStep
<1>16. CASE Claim(k)
  <2> DEFINE c == hook[k].card
             answer == ClaimAnswer(ledger[c], k)
  <2>1. PICK status \in Heard(answer) :
          Transact(c, answer, status) /\ (Go(k, "observe") \/ Unclaimed(k))
    BY <1>16 DEF Claim
  <2>2. hook[k].pc = "claim" /\ c \in Created /\ clock' = clock
    BY <1>1, <1>16 DEF Claim, HookSound, OnlyHook
  <2>3. /\ answer.record \in CardRecord /\ c \in Cards
        /\ RecordMoves(ledger[c], answer.record)
    BY <2>2, CardFacts, ClaimSound, ClaimMoves
  <2>4. Stays
    BY <1>4, <1>6, <2>1, <2>2 DEF Places, PreTool
  <2> HIDE DEF answer
  <2> QED BY <1>2, <2>1, <2>2, <2>3, <2>4, TransactStep
<1>17. CASE Create(k)
  <2> DEFINE c == OwnCard(k)
             answer == CreateAnswer(c)
  <2>1. PICK status \in Heard(answer) :
          Transact(c, answer, status) /\ (Finish(k, "refused") \/ Go(k, "publish"))
    BY <1>17 DEF Create
  <2>2. hook[k].pc = "create" /\ clock' = clock /\ c \in Cards
    BY <1>1, <1>17, ActionAssumption DEF Create, OnlyHook, OwnCard, Cards, HookRecord
  <2>3. /\ answer.record \in CardRecord
        /\ c \in Created => RecordMoves(ledger[c], answer.record)
        /\ c \notin Created => answer.record = Blank
    <3>1. CASE c \in Created
      BY <3>1, CardFacts DEF CreateAnswer, Says, RecordMoves
    <3>2. CASE c \notin Created
      BY <2>2, <3>2, BlankSound DEF CreateAnswer, Says
    <3> QED BY <3>1, <3>2
  <2>4. Stays
    BY <1>4, <1>5, <2>1, <2>2 DEF Places, PreTool, Asking
  <2> HIDE DEF answer, c
  <2> QED BY <1>2, <2>1, <2>2, <2>3, <2>4, TransactStep
<1>18. CASE Publish(k)
  <2> DEFINE c == OwnCard(k)
             answer == PublishAnswer(ledger[c])
  <2>1. PICK status \in Heard(answer) :
          Transact(c, answer, status) /\ (Finish(k, "refused") \/ Finish(k, "deferred"))
    BY <1>18 DEF Publish
  <2>2. hook[k].pc = "publish" /\ clock' = clock /\ c \in Created
    BY <1>1, <1>18 DEF Publish, OnlyHook, HookSound
  <2>3. /\ answer.record \in CardRecord /\ c \in Cards
        /\ RecordMoves(ledger[c], answer.record)
    BY <2>2, CardFacts, PublishSound, QuestionMoves
  <2>4. Stays
    BY <1>5, <2>1, <2>2
  <2> HIDE DEF answer, c
  <2> QED BY <1>2, <2>1, <2>2, <2>3, <2>4, TransactStep
<1>19. CASE RecordEffect(k)
  <2> DEFINE c == hook[k].card
             answer == EffectAnswer(ledger[c], Effect(k))
  <2>1. PICK status \in Heard(answer) :
          /\ Transact(c, answer, status)
          /\ Go(k, "done") \/ Go(k, "verify") \/ Go(k, "settle")
    BY <1>19 DEF RecordEffect
  <2>2. hook[k].pc = "receipt" /\ c \in Created
    BY <1>1, <1>19 DEF RecordEffect, HookSound, GivenPlaces
  <2>3. /\ answer.record \in CardRecord /\ c \in Cards
        /\ RecordMoves(ledger[c], answer.record)
    BY <2>2, CardFacts, EffectSound, ReceiptMoves DEF Effect
  <2>4. Stays
    BY <1>4, <2>1, <2>2 DEF Places
  <2> HIDE DEF answer
  <2> QED BY <1>2, <2>1, <2>2, <2>3, <2>4, TransactStep
<1>20. CASE RecordVerifier(k)
  <2> DEFINE c == hook[k].card
             answer == VerifierAnswer(ledger[c], "passed")
  <2>1. PICK status \in Heard(answer) :
          Transact(c, answer, status) /\ (Go(k, "done") \/ Go(k, "settle"))
    BY <1>20 DEF RecordVerifier
  <2>2. hook[k].pc = "verify" /\ c \in Created
    BY <1>1, <1>20 DEF RecordVerifier, HookSound, GivenPlaces
  <2>3. /\ answer.record \in CardRecord /\ c \in Cards
        /\ RecordMoves(ledger[c], answer.record)
    BY <2>2, CardFacts, VerifierSound, ReceiptMoves
  <2>4. Stays
    BY <1>4, <2>1, <2>2 DEF Places
  <2> HIDE DEF answer
  <2> QED BY <1>2, <2>1, <2>2, <2>3, <2>4, TransactStep
<1>21. CASE Settle(k)
  <2> DEFINE c == hook[k].card
             answer == SettleAnswer(c, ledger[c], clock)
  <2>1. PICK status \in Heard(answer) : Transact(c, answer, status)
    BY <1>21 DEF Settle
  <2>2. hook[k].pc = "settle" /\ c \in Created /\ Go(k, "done")
    BY <1>1, <1>21 DEF Settle, HookSound, GivenPlaces
  <2>3. /\ answer.record \in CardRecord /\ c \in Cards
        /\ RecordMoves(ledger[c], answer.record)
    BY <2>2, CardFacts, SettleSound, SettleMoves
  <2>4. Stays
    BY <1>4, <2>2 DEF Places
  <2> HIDE DEF answer
  <2> QED BY <1>2, <2>1, <2>2, <2>3, <2>4, TransactStep
<1> QED BY <1>7, <1>8, <1>9, <1>10, <1>11, <1>12, <1>13, <1>14, <1>15, <1>16, <1>17,
           <1>18, <1>19, <1>20, <1>21 DEF HookStep

\* A step of the human's side or of a callback is a step of every card.
LEMMA HumanCardStep ==
  ASSUME FlowInv, FlowInv', HumanStep
  PROVE  \A c : CardStep(c)
<1>1. hook' = hook /\ clock' = clock
  BY DEF HumanStep, Display, Answer, RecordDecision, SettleDenial, LoseCallback, OnlyHuman
<1>2. \A c : Doers(c)' = Doers(c)
  BY <1>1 DEF Doers, Ran
<1>3. ledger' = ledger => \A c : CardStep(c)
  BY <1>2, StandingCards
<1>4. \A cb \in callbacks : cb.card \in Created /\ cb.outcome \in {"allow", "deny"}
  BY DEF FlowInv, FlowTypeOK
<1>5. clock \in Nat
  BY TimeAssumption DEF FlowInv, FlowTypeOK
<1>6. ASSUME NEW c \in Created, Display(c) PROVE \A d : CardStep(d)
  <2> DEFINE answer == DisplayAnswer(ledger[c])
  <2>1. PICK status : Transact(c, answer, status)
    BY <1>6 DEF Display
  <2>2. /\ answer.record \in CardRecord /\ c \in Cards
        /\ RecordMoves(ledger[c], answer.record)
    BY CardFacts, DisplaySound, QuestionMoves
  <2> HIDE DEF answer
  <2> QED BY <1>2, <2>1, <2>2, TransactStep
<1>7. ASSUME NEW cb \in callbacks, RecordDecision(cb) PROVE \A d : CardStep(d)
  <2> DEFINE answer == DecideAnswer(cb.card, ledger[cb.card], cb.outcome, clock)
  <2>1. PICK status : Transact(cb.card, answer, status)
    BY <1>7 DEF RecordDecision
  <2>2. /\ answer.record \in CardRecord /\ cb.card \in Cards
        /\ RecordMoves(ledger[cb.card], answer.record)
    BY <1>4, <1>5, CardFacts, DecideSound, DecideMoves
  <2> HIDE DEF answer
  <2> QED BY <1>2, <1>4, <2>1, <2>2, TransactStep
<1>8. ASSUME NEW cb \in callbacks, SettleDenial(cb) PROVE \A d : CardStep(d)
  <2> DEFINE answer == SettleAnswer(cb.card, ledger[cb.card], clock)
  <2>1. PICK status : Transact(cb.card, answer, status)
    BY <1>8 DEF SettleDenial
  <2>2. /\ answer.record \in CardRecord /\ cb.card \in Cards
        /\ RecordMoves(ledger[cb.card], answer.record)
    BY <1>4, CardFacts, SettleSound, SettleMoves
  <2> HIDE DEF answer
  <2> QED BY <1>2, <1>4, <2>1, <2>2, TransactStep
<1> QED BY <1>3, <1>6, <1>7, <1>8 DEF HumanStep, Answer, LoseCallback, brokerVars

\* Every behaviour of hooks, callbacks, faults and the clock is one of one-shot
\* grants: committed once, given to one call, which acts at most once, and never
\* again good for anything once over (grant_broker.py:640-1330, audit.py:508-640).
THEOREM OneShotImplemented == Spec => GrantIsOneShot
<1>1. Init => OneShot!Init
  <2> SUFFICES ASSUME Init PROVE OneShot!Init
    OBVIOUS
  <2>1. Created = {}
    BY DEF Init, BrokerInit, Created
  <2>2. \A c : CardStatus(c) = "absent" /\ CardHolder(c) = NoCall
    BY <2>1 DEF CardStatus, CardHolder, Pending
  <2>3. \A c : Doers(c) = {}
    BY DEF Init, Idle, Doers, Ran, PostTool
  <2>4. \A c : Cardinality(Doers(c)) = 0
    BY <2>3, FS_EmptySet
  <2> QED BY <2>2, <2>4 DEF OneShot!Init
<1>2. FlowInv /\ FlowInv' /\ [Next]_vars => OneShot!Next
  <2> SUFFICES ASSUME FlowInv, FlowInv', [Next]_vars PROVE OneShot!Next
    OBVIOUS
  <2>1. CASE \E k \in Calls : HookStep(k)
    BY <2>1, HookCardStep, CardStepMapped
  <2>2. CASE HumanStep
    BY <2>2, HumanCardStep, CardStepMapped
  <2>3. CASE Tick \/ Drift \/ UNCHANGED vars
    <3>1. ledger' = ledger /\ hook' = hook
      BY <2>3 DEF Tick, Drift, vars, brokerVars, flowVars
    <3>2. \A c : Doers(c)' = Doers(c)
      BY <3>1 DEF Doers, Ran
    <3> QED BY <3>1, <3>2, StandingCards, CardStepMapped
  <2> QED BY <2>1, <2>2, <2>3 DEF Next
<1> QED BY <1>1, <1>2, FlowAlways, PTL DEF Spec, GrantIsOneShot, OneShot!Spec
=============================================================================
