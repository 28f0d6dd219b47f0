------------------------------ MODULE GrantFlow ------------------------------
(***************************************************************************)
(* How a one-shot human grant is asked, decided, spent and closed.  Every    *)
(* host call runs a pre-tool hook (intent_guardian_parts/audit.py), which    *)
(* looks for an allowed card, commits it and claims its dispatch before the  *)
(* ordinary policy judges, and asks with a card of its own when the policy   *)
(* denies the call.  The human's answers arrive as callbacks.  The hooks and *)
(* the callbacks are processes of their own: between any two of their steps  *)
(* others run, the clock ticks, the world drifts and a process may die.      *)
(* The calls are external writes that the ordinary policy denies.            *)
(***************************************************************************)
EXTENDS GrantBroker, FiniteSets

CONSTANTS ActionOf,  \* the exact action of each call
          MaxTime, MaxWorld  \* bounds on the clock and on the drifts

ASSUME ActionAssumption == ActionOf \in [Calls -> Actions]
ASSUME TimeAssumption == MaxTime \in Nat

VARIABLES world,     \* the contract's revision, policy and material sequence
          hook,      \* call -> where its hooks stand
          callbacks  \* the human's answers on their way to the ledger

flowVars == <<hook, callbacks, world, clock>>
vars == <<brokerVars, flowVars>>

NoCard == [action |-> "none"]

Asking == {"match", "create", "publish"}
PreTool == {"scan", "consume", "claim", "observe", "judge"} \cup Asking
PostTool == {"receipt", "verify", "settle"}

\* The calls whose tool was let run.
Ran == {k \in Calls : hook[k].pc \in {"tool", "done"} \cup PostTool}

Idle == [pc |-> "idle", world |-> 0, at |-> 0, card |-> NoCard, result |-> "none"]

Init == /\ BrokerInit
        /\ clock = 0 /\ world = 0
        /\ hook = [k \in Calls |-> Idle]
        /\ callbacks = {}

Go(k, pc) == hook' = [hook EXCEPT ![k].pc = pc]
Finish(k, pc) == hook' = [hook EXCEPT ![k] = [Idle EXCEPT !.pc = pc]]

OnlyHook == UNCHANGED <<callbacks, world, clock>>
OnlyHuman == UNCHANGED <<hook, world, clock>>

\* What the caller of an operation may hear.
Heard(answer) == {answer.status, "error"}

-----------------------------------------------------------------------------
(* The pre-tool hook.  `at' is when it began and, from the judgment on, the    *)
(* time its question is requested at; `world' is the contract it has loaded.   *)

Begin(k) ==
  /\ hook[k].pc = "idle"
  /\ hook' = [hook EXCEPT ![k] = [Idle EXCEPT !.pc = "scan", !.world = world,
                                              !.at = clock]]
  /\ OnlyHook /\ UNCHANGED brokerVars

\* The unsettled cards that allow k's action, in whatever world.  A dispatched
\* card hides its subject from readers and matches nothing.
Candidates(k) ==
  {c \in Pending : /\ ledger[c].decision = "allow"
                   /\ ledger[c].dispatch = NoCall
                   /\ c.action = ActionOf[k]}

Scan(k) ==
  /\ hook[k].pc = "scan"
  /\ IF ~torn /\ Cardinality(Candidates(k)) = 1
     THEN hook' = [hook EXCEPT ![k].pc = "consume",
                               ![k].card = CHOOSE c \in Candidates(k) : TRUE]
     ELSE Go(k, "judge")
  /\ OnlyHook /\ UNCHANGED brokerVars

Unclaimed(k) == hook' = [hook EXCEPT ![k].pc = "judge", ![k].card = NoCard]

Consume(k) ==
  LET c == hook[k].card
      answer == ConsumeAnswer(c, ledger[c], ActionOf[k], hook[k].world, clock)
  IN  /\ hook[k].pc = "consume"
      /\ \E status \in Heard(answer) :
           /\ Transact(c, answer, status)
           /\ IF status \in {"consumed", "already_consumed"}
              THEN Go(k, "claim") ELSE Unclaimed(k)
      /\ OnlyHook

\* The hook goes ahead though another call's claim won.
Claim_Slip(k) ==
  LET answer == ClaimAnswer(ledger[hook[k].card], k)
  IN  /\ hook[k].pc = "claim"
      /\ \E status \in Heard(answer) :
           /\ Transact(hook[k].card, answer, status)
           /\ IF status \in {"claimed", "lost_race"}
              THEN Go(k, "observe") ELSE Unclaimed(k)
      /\ OnlyHook

Claim(k) ==
  LET answer == ClaimAnswer(ledger[hook[k].card], k)
  IN  /\ hook[k].pc = "claim"
      /\ \E status \in Heard(answer) :
           /\ Transact(hook[k].card, answer, status)
           /\ IF status = "claimed" THEN Go(k, "observe") ELSE Unclaimed(k)
      /\ OnlyHook

\* GuardianSession.observe with a dispatch in hand: an effect barrier denies the
\* call, or the call is let run and the world has moved.
ObserveDispatch(k) ==
  /\ hook[k].pc = "observe"
  /\ \/ Go(k, "tool") /\ world' = world + 1
     \/ Finish(k, "refused") /\ UNCHANGED world
  /\ UNCHANGED <<brokerVars, callbacks, clock>>

\* The ordinary policy denies the call on the contract as it now is.
Judge(k) ==
  /\ hook[k].pc = "judge"
  /\ hook' = [hook EXCEPT ![k].pc = "match", ![k].world = world, ![k].at = clock]
  /\ OnlyHook /\ UNCHANGED brokerVars

\* The undecided cards with exactly k's binding that are still good.
Matches(k) ==
  {c \in Pending : /\ ledger[c].decision = "none"
                   /\ Expires(c) > hook[k].at
                   /\ c.action = ActionOf[k] /\ c.world = hook[k].world}

Asked(c) == ledger[c].question

Match(k) ==
  /\ hook[k].pc = "match"
  /\ LET n == Cardinality(Matches(k))
     IN  CASE torn \/ n > 1 -> Finish(k, "refused")
           [] ~torn /\ n = 1 /\ \A c \in Matches(k) : Asked(c) -> Finish(k, "deferred")
           [] OTHER -> Go(k, "create")
  /\ OnlyHook /\ UNCHANGED brokerVars

OwnCard(k) == [action |-> ActionOf[k], world |-> hook[k].world, at |-> hook[k].at]

Create(k) ==
  LET answer == CreateAnswer(OwnCard(k))
  IN  /\ hook[k].pc = "create"
      /\ \E status \in Heard(answer) :
           /\ Transact(OwnCard(k), answer, status)
           /\ IF status = "error" THEN Finish(k, "refused") ELSE Go(k, "publish")
      /\ OnlyHook

Publish(k) ==
  LET answer == PublishAnswer(ledger[OwnCard(k)])
  IN  /\ hook[k].pc = "publish"
      /\ \E status \in Heard(answer) :
           /\ Transact(OwnCard(k), answer, status)
           /\ Finish(k, IF status = "error" THEN "refused" ELSE "deferred")
      /\ OnlyHook

\* The hook dies before it has answered; the host may deliver the call again.
DiePreTool(k) ==
  /\ hook[k].pc \in PreTool
  /\ Fault
  /\ hook' = [hook EXCEPT ![k] = Idle]
  /\ OnlyHook /\ UNCHANGED <<ledger, torn>>

-----------------------------------------------------------------------------
(* The completion callback: the effect attempt is marked, then three appends.  *)

\* A recovery that finds the callback's evidence later takes the same step.
Complete(k) ==
  /\ hook[k].pc = "tool"
  /\ \E result \in {"failed", "returned", "verified"} :
       hook' = [hook EXCEPT ![k].pc = "receipt", ![k].result = result]
  /\ OnlyHook /\ UNCHANGED brokerVars

Effect(k) == IF hook[k].result = "failed" THEN "failed" ELSE "succeeded"

RecordEffect(k) ==
  LET answer == EffectAnswer(ledger[hook[k].card], Effect(k))
  IN  /\ hook[k].pc = "receipt"
      /\ \E status \in Heard(answer) :
           /\ Transact(hook[k].card, answer, status)
           /\ Go(k, CASE status = "error" -> "done"
                      [] status # "error" /\ hook[k].result = "verified" -> "verify"
                      [] OTHER -> "settle")
      /\ OnlyHook

RecordVerifier(k) ==
  LET answer == VerifierAnswer(ledger[hook[k].card], "passed")
  IN  /\ hook[k].pc = "verify"
      /\ \E status \in Heard(answer) :
           /\ Transact(hook[k].card, answer, status)
           /\ Go(k, IF status = "error" THEN "done" ELSE "settle")
      /\ OnlyHook

Settle(k) ==
  LET answer == SettleAnswer(hook[k].card, ledger[hook[k].card], clock)
  IN  /\ hook[k].pc = "settle"
      /\ \E status \in Heard(answer) : Transact(hook[k].card, answer, status)
      /\ Go(k, "done")
      /\ OnlyHook

\* The attempt has left `dispatched', so no recovery takes the rest up again.
DiePostTool(k) ==
  hook[k].pc \in PostTool /\ Fault /\ Go(k, "done")
  /\ OnlyHook /\ UNCHANGED <<ledger, torn>>

-----------------------------------------------------------------------------
(* The human's side.                                                          *)

\* grant_transaction_context, asked for card c by name.
InContext(c) == /\ ~torn /\ Asked(c)
                /\ ledger[c].decision = "none"
                /\ Expires(c) > clock

\* PermissionRequest: the card is shown.
Display(c) ==
  /\ InContext(c)
  /\ \E status \in Heard(DisplayAnswer(ledger[c])) :
       Transact(c, DisplayAnswer(ledger[c]), status)
  /\ OnlyHuman /\ UNCHANGED callbacks

\* The human answers a card on the screen and the callback resolves it.
Answer(c) ==
  /\ InContext(c) /\ ledger[c].displayed
  /\ \E outcome \in {"allow", "deny"} :
       callbacks' = callbacks \cup
                      {[card |-> c, outcome |-> outcome, step |-> "record"]}
  /\ OnlyHuman /\ UNCHANGED brokerVars

\* A recorded denial goes on to settle its card, in an append of its own.
RecordDecision(cb) ==
  LET answer == DecideAnswer(cb.card, ledger[cb.card], cb.outcome, clock)
      rest(status) ==
        IF cb.outcome = "deny" /\ status \in {"decided", "duplicate"}
        THEN {[cb EXCEPT !.step = "settle"]} ELSE {}
  IN  /\ cb.step = "record"
      /\ \E status \in Heard(answer) :
           /\ Transact(cb.card, answer, status)
           /\ callbacks' = (callbacks \ {cb}) \cup rest(status)
      /\ OnlyHuman

SettleDenial(cb) ==
  LET answer == SettleAnswer(cb.card, ledger[cb.card], clock)
  IN  /\ cb.step = "settle"
      /\ \E status \in Heard(answer) : Transact(cb.card, answer, status)
      /\ callbacks' = callbacks \ {cb}
      /\ OnlyHuman

LoseCallback(cb) ==
  /\ Fault
  /\ callbacks' = callbacks \ {cb}
  /\ OnlyHuman /\ UNCHANGED <<ledger, torn>>

-----------------------------------------------------------------------------
Tick == /\ clock < MaxTime /\ clock' = clock + 1
        /\ UNCHANGED <<brokerVars, hook, callbacks, world>>

\* A correction, a new revision or another material action.
Drift == /\ world < MaxWorld /\ world' = world + 1
         /\ UNCHANGED <<brokerVars, hook, callbacks, clock>>

HookStep(k) ==
  \/ Begin(k) \/ Scan(k) \/ Consume(k) \/ Claim(k) \/ ObserveDispatch(k)
  \/ Judge(k) \/ Match(k) \/ Create(k) \/ Publish(k) \/ DiePreTool(k)
  \/ Complete(k) \/ RecordEffect(k) \/ RecordVerifier(k) \/ Settle(k)
  \/ DiePostTool(k)

HumanStep ==
  \/ \E c \in Created : Display(c) \/ Answer(c)
  \/ \E cb \in callbacks :
       RecordDecision(cb) \/ SettleDenial(cb) \/ LoseCallback(cb)

Next == (\E k \in Calls : HookStep(k)) \/ HumanStep \/ Tick \/ Drift

Spec == Init /\ [][Next]_vars
-----------------------------------------------------------------------------
\* Types, for the ledger and for the processes around it.
GrantTypeOK ==
  /\ Created \subseteq Cards /\ ledger \in [Created -> CardRecord]
  /\ torn \in BOOLEAN /\ faults \in 0..MaxFault
  /\ clock \in 0..MaxTime /\ world \in Nat
  /\ \A k \in Calls :
       /\ hook[k].world \in Nat /\ hook[k].at \in 0..MaxTime
       /\ hook[k].card \in Created \cup {NoCard}
       /\ hook[k].result \in {"none", "failed", "returned", "verified"}
       /\ hook[k].pc \in {"idle", "tool", "done", "deferred", "refused"}
                         \cup PreTool \cup PostTool
  /\ \A cb \in callbacks : cb.card \in Created /\ cb.step \in {"record", "settle"}

\* No call runs its tool, whatever dies, is retried or races, but under a card
\* that asked for exactly its action, was on the screen, and that a human allowed
\* while it was good; the card's dispatch is the call's, and no other call's.
HumanAllowedEffect ==
  \A k \in Ran :
    LET c == hook[k].card
    IN  /\ c \in Created /\ c.action = ActionOf[k]
        /\ ledger[c].question /\ ledger[c].displayed
        /\ ledger[c].decision = "allow"
        /\ ledger[c].decidedAt \in c.at..(Expires(c) - 1)
        /\ ledger[c].consumed /\ ledger[c].dispatch = k

\* The calls whose tool was let run under card c.
Doers(c) == {k \in Ran : hook[k].card = c}

\* A settlement says what happened outside the ledger, and is never contradicted
\* later: `denied', `expired' and `fresh_decision_required' cards never ran,
\* `effect_failed' ran and failed, `succeeded' ran and was read back.
SettlementTellsTruth ==
  \A c \in Created :
    LET ran == Doers(c)
        results == {hook[k].result : k \in ran}
    IN  CASE ledger[c].settlement \in {"denied", "expired", "fresh_decision_required"} ->
               ran = {} /\ ~ledger[c].consumed
          [] ledger[c].settlement = "effect_failed" -> results = {"failed"}
          [] ledger[c].settlement = "succeeded" -> results = {"verified"}
          [] OTHER -> ledger[c].settlement = "none"

\* What a card is to the promise of a one-shot grant.
CardStatus(c) ==
  CASE c \notin Created -> "absent"
    [] c \in Created /\ ledger[c].settlement # "none" -> "over"
    [] c \in Pending /\ ledger[c].consumed -> "committed"
    [] c \in Pending /\ ledger[c].decision = "allow" /\ ~ledger[c].consumed -> "allowed"
    [] OTHER -> "asked"

CardSpace == [action : Actions, world : 0..(MaxWorld + Cardinality(Calls)),
              at : 0..MaxTime]

CardHolder(c) == IF c \in Created THEN ledger[c].dispatch ELSE NoCall

OneShot == INSTANCE OneShotGrant WITH
  Card <- CardSpace, Call <- Calls,
  status <- [c \in CardSpace |-> CardStatus(c)],
  holder <- [c \in CardSpace |-> CardHolder(c)],
  performed <- [c \in CardSpace |-> Cardinality(Doers(c))]

\* Every behaviour of the hooks, callbacks and faults is one of one-shot grants:
\* a card is committed once and given to one call, which acts at most once, and
\* a card that is over never authorizes anything again.
GrantIsOneShot == OneShot!Spec

\* "the old card cannot grant authority": a hook that obtains a dispatch began
\* before the card expired and had loaded the world the human saw on it.
OldCardGrantsNothing ==
  \A k \in Calls :
    hook[k].pc = "observe" =>
      /\ hook[k].at < Expires(hook[k].card)
      /\ hook[k].world = hook[k].card.world

\* "Allow: this exact action, once": a hook is not left to the ordinary policy
\* while the ledger holds one allowed, unspent and still good card for its action,
\* allowed before the hook began and of the world the hook has loaded.
AllowIsHonoured ==
  \A k \in Calls :
    hook[k].pc = "judge" =>
      LET good == {c \in Pending : /\ c.action = ActionOf[k]
                                   /\ ledger[c].decision = "allow"
                                   /\ ~ledger[c].consumed
                                   /\ clock < Expires(c)}
      IN  Cardinality(good) = 1 =>
            \A c \in good : \/ c.world # hook[k].world
                            \/ ledger[c].decidedAt >= hook[k].at
=============================================================================
