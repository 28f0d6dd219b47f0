-------------------------- MODULE EffectLog_proofs --------------------------
(***************************************************************************)
(* Theorems about the effect log, for any sessions, operations, length of   *)
(* the history and number of deaths.                                        *)
(*                                                                          *)
(* Every step appends rows, writes a prefix of them and dies, or tears a    *)
(* line. So what is shown of a handler is that its rows are Good: whatever  *)
(* prefix of them is written, replay makes of the log one that keeps LogInv *)
(* and takes nothing back (Persist), or refuses it. A row is good when its  *)
(* handler has made sure of what the row says (Warranted).                  *)
(***************************************************************************)
EXTENDS EffectLog, FiniteSetTheorems, SequenceTheorems, WellFoundedInduction, TLAPS

\* The rows the handlers append.
EventRow ==
  [type : {"attempt_created"}, session : Sessions, ident : Operations,
   compensates : Nat, retry : Nat, risk : Nat, debt : Debt]
    \cup [type : {"attempt_transitioned"}, call : Nat, state : ATTEMPT_STATES]
    \cup [type : {"attempt_target_resolved"}, call : Nat, ident : Operations]
    \cup [type : {"intervention_opened"}, call : Nat, recovery : BOOLEAN]
    \cup [type : {"intervention_resolved"}, card : Nat,
          decision : RESOLUTION_DECISIONS, lane : Sessions, compensator : Nat]
    \cup [type : {"reprobe_consumed"}, card : Nat]

\* What replay can yield.
Projection ==
  [attempts : Seq(Attempt), cards : Seq(Card), readable : BOOLEAN]

\* A decision that says the attempt is settled.
Settling == Attestations \cup {"system_verified"}

\* The operation k was released for, in any projection.
ReleasedIn(p, k) ==
  LET a == p.attempts[k] IN IF a.past = <<>> THEN a.ident ELSE a.past[1]

\* Every card is of an attempt, and says it is settled only if it is.
CardsTrue(p) ==
  \A c \in DOMAIN p.cards :
    /\ p.cards[c].call \in Known(p)
    /\ p.cards[c].decision \in Settling => State(p, p.cards[c].call) \in SettledStates
    /\ p.cards[c].decision = "system_compensated" =>
         \E h \in Known(p) : /\ p.attempts[h].compensates = p.cards[c].call
                             /\ State(p, h) = "system_verified"

\* Grants and the attempts that spent them name each other.
GrantsPaired(p) ==
  /\ \A k \in Known(p) : p.attempts[k].retry # 0 =>
       /\ p.attempts[k].retry \in DOMAIN p.cards
       /\ p.cards[p.attempts[k].retry].consumer = k
  /\ \A c \in DOMAIN p.cards : p.cards[c].consumer # 0 =>
       /\ p.cards[c].consumer \in Known(p)
       /\ p.attempts[p.cards[c].consumer].retry = c

\* What an attempt compensates is an attempt.
Compensates(p) ==
  \A k \in Known(p) : p.attempts[k].compensates # 0 =>
                        p.attempts[k].compensates \in Known(p)

\* OneOwnerPerResource and the cards of OneShotAuthority, of any projection.
OneOwner(p) ==
  /\ \A a, b \in Known(p) :
       /\ a < b /\ Blocks(p, a) /\ Blocks(p, b)
       /\ SameResource(ReleasedIn(p, a), ReleasedIn(p, b))
       => p.attempts[b].compensates = a \/ a \in p.attempts[b].accepted
  /\ \A a, b \in Known(p) :
       p.attempts[a].risk = p.attempts[b].risk /\ p.attempts[a].risk # 0 => a = b

\* What holds of every projection the log has had or would have had after a
\* death between two rows.
LogInv(p) ==
  /\ p \in Projection
  /\ CardsTrue(p) /\ GrantsPaired(p) /\ Compensates(p) /\ OneOwner(p)

\* FiniteSetsExt's Min of naturals is a member and no other is less.
LEMMA MinIsLeast ==
  ASSUME NEW S \in SUBSET Nat, S # {}
  PROVE  Min(S) \in S /\ \A y \in S : Min(S) <= y
<1>1. PICK x \in S : \A y \in S : ~(<<y, x>> \in OpToRel(<, Nat))
  BY WFMin, NatLessThanWellFounded
<1>2. \A y \in S : ~(y < x)
  BY <1>1 DEF OpToRel
<1>3. \A y \in S : x =< y
  BY <1>2
<1> QED BY <1>3 DEF Min

\* FiniteSetsExt's Max of bounded naturals is a member and no other is greater.
LEMMA MaxIsGreatest ==
  ASSUME NEW n \in Nat, NEW S \in SUBSET (0..n), S # {}
  PROVE  Max(S) \in S /\ \A y \in S : y <= Max(S)
<1> DEFINE T == {n - x : x \in S}
<1>1. T \in SUBSET Nat /\ T # {}
  <2>1. \A x \in S : n - x \in Nat
    OBVIOUS
  <2>2. T # {}
    BY Zenon
  <2> QED BY <2>1, <2>2, Zenon
<1>2. Min(T) \in T /\ \A y \in T : Min(T) <= y
  <2> HIDE DEF T
  <2> QED BY <1>1, MinIsLeast
<1>3. PICK x \in S : Min(T) = n - x
  BY <1>2
<1>4. \A y \in S : n - x <= n - y
  BY <1>2, <1>3
<1>5. \A y \in S : x >= y
  BY <1>4
<1> QED BY <1>5 DEF Max

\* Induction over the naturals, for a set.
LEMMA SetInduction ==
  ASSUME NEW S, 0 \in S, \A n \in Nat : n \in S => n + 1 \in S
  PROVE  Nat \subseteq S
<1> DEFINE T == Nat \ S
<1> SUFFICES ASSUME T # {} PROVE FALSE
  OBVIOUS
<1>1. T \in SUBSET Nat
  OBVIOUS
<1>2. Min(T) \in T /\ \A y \in T : Min(T) <= y
  <2> HIDE DEF T
  <2> QED BY <1>1, MinIsLeast
<1> DEFINE m == Min(T)
<1>3. m \in Nat /\ m \notin S /\ m # 0
  BY <1>2
<1>4. m - 1 \in Nat
  BY <1>3
<1>5. m - 1 \in S
  <2>1. m - 1 \notin T
    BY <1>2, <1>3
  <2> QED BY <1>4, <2>1
<1>6. m = (m - 1) + 1
  BY <1>3
<1> QED BY <1>3, <1>4, <1>5, <1>6, Zenon
-----------------------------------------------------------------------------
(* Replaying rows *)

\* f is the replay of rows from p, prefix by prefix.
IsRun(f, p, rows, m) ==
  f = [n \in 0..m |-> IF n = 0 THEN p ELSE apply_event(f[n - 1], rows[n])]

\* The recursion has a solution.
LEMMA RunExists ==
  ASSUME NEW p, NEW rows, NEW m \in Nat
  PROVE  \E f : IsRun(f, p, rows, m)
<1> DEFINE S == {k \in Nat : \E f : IsRun(f, p, rows, k)}
<1>1. 0 \in S
  <2> DEFINE f == [n \in 0..0 |-> p]
  <2>1. \A n \in 0..0 : n = 0
    OBVIOUS
  <2>2. IsRun(f, p, rows, 0)
    BY <2>1 DEF IsRun
  <2> QED BY <2>2
<1>2. ASSUME NEW k \in Nat, k \in S PROVE k + 1 \in S
  <2>1. PICK f : IsRun(f, p, rows, k)
    BY <1>2
  <2> DEFINE t == [n \in 0..(k + 1) |-> IF n = 0 THEN p ELSE apply_event(f[n - 1], rows[n])]
  <2>2. \A n \in 0..k : t[n] = f[n]
    BY <2>1 DEF IsRun
  <2>3. \A n \in 0..(k + 1) : n # 0 => n - 1 \in 0..k
    OBVIOUS
  <2>4. IsRun(t, p, rows, k + 1)
    BY <2>2, <2>3 DEF IsRun
  <2> QED BY <2>4
<1> HIDE DEF S
<1>3. Nat \subseteq S
  BY <1>1, <1>2, SetInduction
<1> QED BY <1>3 DEF S

\* Two runs agree as far as their rows do.
LEMMA RunsAgree ==
  ASSUME NEW p, NEW r1, NEW r2, NEW m \in Nat, NEW k \in Nat, k <= m, NEW f, NEW g,
         IsRun(f, p, r1, m), IsRun(g, p, r2, k), \A n \in 1..k : r1[n] = r2[n]
  PROVE  f[k] = g[k]
<1>1. /\ \A n \in 0..m : f[n] = IF n = 0 THEN p ELSE apply_event(f[n - 1], r1[n])
      /\ \A n \in 0..k : g[n] = IF n = 0 THEN p ELSE apply_event(g[n - 1], r2[n])
  BY DEF IsRun
<1> DEFINE S == {n \in Nat : n <= k => f[n] = g[n]}
<1>2. 0 \in S
  BY <1>1
<1>3. ASSUME NEW n \in Nat, n \in S PROVE n + 1 \in S
  <2> SUFFICES ASSUME n + 1 <= k PROVE f[n + 1] = g[n + 1]
    OBVIOUS
  <2>1. f[n] = g[n]
    BY <1>3
  <2>2. n + 1 \in 0..m /\ n + 1 \in 0..k /\ n + 1 \in 1..k /\ n + 1 # 0 /\ (n + 1) - 1 = n
    OBVIOUS
  <2>3. f[n + 1] = apply_event(f[n], r1[n + 1]) /\ g[n + 1] = apply_event(g[n], r2[n + 1])
    BY <1>1, <2>2
  <2>4. r1[n + 1] = r2[n + 1]
    BY <2>2
  <2> QED BY <2>1, <2>3, <2>4
<1> HIDE DEF S
<1>4. Nat \subseteq S
  BY <1>2, <1>3, SetInduction
<1> QED BY <1>4 DEF S

\* replay is the last value of the run.
LEMMA ReplayRun ==
  ASSUME NEW p, NEW rows, Len(rows) \in Nat
  PROVE  \E f : IsRun(f, p, rows, Len(rows)) /\ replay(p, rows) = f[Len(rows)]
<1>1. \E f : IsRun(f, p, rows, Len(rows))
  BY RunExists
<1> DEFINE f == CHOOSE g : IsRun(g, p, rows, Len(rows))
<1>2. IsRun(f, p, rows, Len(rows))
  BY <1>1
<1>3. replay(p, rows) = f[Len(rows)]
  BY Zenon DEF replay, IsRun
<1> QED BY <1>2, <1>3

\* No rows change nothing.
LEMMA ReplayNone ==
  ASSUME NEW p
  PROVE  replay(p, <<>>) = p
<1>1. Len(<<>>) = 0
  OBVIOUS
<1>2. PICK f : IsRun(f, p, <<>>, 0) /\ replay(p, <<>>) = f[0]
  BY <1>1, ReplayRun
<1>3. f[0] = p
  <2>1. 0 \in 0..0
    OBVIOUS
  <2> QED BY <1>2, <2>1 DEF IsRun
<1> QED BY <1>2, <1>3

\* The last row is applied last.
LEMMA ReplayAppend ==
  ASSUME NEW T, NEW p, NEW rows \in Seq(T), NEW row \in T
  PROVE  replay(p, Append(rows, row)) = apply_event(replay(p, rows), row)
<1> DEFINE k == Len(rows)
           long == Append(rows, row)
<1>1. /\ k = Len(rows) /\ k \in Nat /\ Len(long) = k + 1 /\ long[k + 1] = row
      /\ \A n \in 1..k : long[n] = rows[n]
  OBVIOUS
<1> HIDE DEF k, long
<1>2. PICK g : IsRun(g, p, rows, k) /\ replay(p, rows) = g[k]
  BY <1>1, ReplayRun
<1>3. PICK f : IsRun(f, p, long, k + 1) /\ replay(p, long) = f[k + 1]
  BY <1>1, ReplayRun
<1>4. f[k] = g[k]
  <2>1. k + 1 \in Nat /\ k <= k + 1
    BY <1>1
  <2> QED BY <1>1, <1>2, <1>3, <2>1, RunsAgree
<1>5. f[k + 1] = apply_event(f[k], long[k + 1])
  <2>1. k + 1 \in 0..(k + 1) /\ k + 1 # 0 /\ (k + 1) - 1 = k
    BY <1>1
  <2> QED BY <1>3, <2>1 DEF IsRun
<1>6. replay(p, long) = apply_event(replay(p, rows), row)
  BY <1>1, <1>2, <1>3, <1>4, <1>5
<1> QED BY <1>6 DEF long

\* One row is one event.
LEMMA ReplayOne ==
  ASSUME NEW T, NEW p, NEW row \in T
  PROVE  replay(p, <<row>>) = apply_event(p, row)
<1>1. Append(<<>>, row) = <<row>> /\ <<>> \in Seq(T)
  OBVIOUS
<1>2. replay(p, Append(<<>>, row)) = apply_event(replay(p, <<>>), row)
  <2> DEFINE none == <<>>
  <2>1. none \in Seq(T)
    BY <1>1
  <2> HIDE DEF none
  <2>2. replay(p, Append(none, row)) = apply_event(replay(p, none), row)
    BY <2>1, ReplayAppend
  <2> QED BY <2>2 DEF none
<1> QED BY <1>1, <1>2, ReplayNone

\* A sequence of n + 1 rows is n rows and one more.
LEMMA SplitLast ==
  ASSUME NEW T, NEW r \in Seq(T), NEW n \in Nat, Len(r) = n + 1
  PROVE  LET f == SubSeq(r, 1, n)
         IN  /\ f \in Seq(T) /\ Len(f) = n /\ r[n + 1] \in T
             /\ r = Append(f, r[n + 1])
             /\ \A j \in 1..n : f[j] = r[j]
OBVIOUS

\* Replaying two lists one after the other.
LEMMA ReplayConcat ==
  ASSUME NEW T, NEW p, NEW r1 \in Seq(T), NEW r2 \in Seq(T)
  PROVE  replay(p, r1 \o r2) = replay(replay(p, r1), r2)
<1> DEFINE S == {n \in Nat : \A r \in Seq(T) :
                   Len(r) = n => replay(p, r1 \o r) = replay(replay(p, r1), r)}
<1>1. 0 \in S
  <2> SUFFICES ASSUME NEW r \in Seq(T), Len(r) = 0
               PROVE  replay(p, r1 \o r) = replay(replay(p, r1), r)
    OBVIOUS
  <2>1. r = <<>>
    OBVIOUS
  <2>2. r1 \o <<>> = r1
    OBVIOUS
  <2> QED BY <2>1, <2>2, ReplayNone
<1>2. ASSUME NEW n \in Nat, n \in S PROVE n + 1 \in S
  <2> SUFFICES ASSUME NEW r \in Seq(T), Len(r) = n + 1
               PROVE  replay(p, r1 \o r) = replay(replay(p, r1), r)
    OBVIOUS
  <2> DEFINE f == SubSeq(r, 1, n)
             e == r[n + 1]
  <2>1. f \in Seq(T) /\ Len(f) = n /\ e \in T /\ r = Append(f, e)
    BY SplitLast
  <2>2. replay(p, r1 \o f) = replay(replay(p, r1), f)
    BY <1>2, <2>1
  <2> HIDE DEF f, e
  <2>3. r1 \o Append(f, e) = Append(r1 \o f, e) /\ r1 \o f \in Seq(T)
    BY <2>1
  <2>4. replay(p, Append(r1 \o f, e)) = apply_event(replay(p, r1 \o f), e)
    <3> DEFINE w == r1 \o f
    <3>1. w \in Seq(T) /\ e \in T
      BY <2>1, <2>3
    <3> HIDE DEF w
    <3>2. replay(p, Append(w, e)) = apply_event(replay(p, w), e)
      BY <3>1, ReplayAppend
    <3> QED BY <3>2 DEF w
  <2>5. replay(replay(p, r1), Append(f, e)) = apply_event(replay(replay(p, r1), f), e)
    BY <2>1, ReplayAppend
  <2> QED BY <2>1, <2>2, <2>3, <2>4, <2>5
<1> HIDE DEF S
<1>3. Nat \subseteq S
  BY <1>1, <1>2, SetInduction
<1> QED BY <1>3 DEF S

\* Prefixes of a concatenation.
LEMMA PrefixOfConcat ==
  ASSUME NEW T, NEW r1 \in Seq(T), NEW r2 \in Seq(T), NEW n \in 0..Len(r1 \o r2)
  PROVE  \/ n \in 0..Len(r1) /\ SubSeq(r1 \o r2, 1, n) = SubSeq(r1, 1, n)
         \/ /\ n - Len(r1) \in 0..Len(r2)
            /\ SubSeq(r2, 1, n - Len(r1)) \in Seq(T)
            /\ SubSeq(r1 \o r2, 1, n) = r1 \o SubSeq(r2, 1, n - Len(r1))
<1> DEFINE m == n - Len(r1)
           A == SubSeq(r1 \o r2, 1, n)
           B == r1 \o SubSeq(r2, 1, m)
<1>1. Len(r1) \in Nat /\ Len(r2) \in Nat /\ Len(r1 \o r2) = Len(r1) + Len(r2)
  OBVIOUS
<1>2. CASE n <= Len(r1)
  <2>1. n \in 0..Len(r1)
    BY <1>1, <1>2
  <2>2. SubSeq(r1 \o r2, 1, n) = SubSeq(r1, 1, n)
    BY <1>1, <2>1
  <2> QED BY <2>1, <2>2
<1>3. CASE n > Len(r1)
  <2>1. m \in 0..Len(r2)
    BY <1>1, <1>3
  <2>2. SubSeq(r2, 1, m) \in Seq(T) /\ Len(SubSeq(r2, 1, m)) = m
    BY <1>1, <2>1
  <2>3. A = B
    BY <1>1, <2>1, <2>2
  <2> QED BY <2>1, <2>2, <2>3
<1> QED BY <1>1, <1>2, <1>3

\* What the handlers make sure of before they append a row: a new attempt meets
\* no blocker but one it retries, compensates or was accepted beside, a card is opened for an
\* outcome nobody answers for, and says settled of a settled attempt only.
Warranted(p, row) ==
  /\ row.type = "attempt_created" =>
       \A a \in blocking_attempts(p) :
         blocker_resource_match(p.attempts[a], row.ident) =>
           \/ a = row.compensates
           \/ a \in accepted_attempt_ids(row.debt)
           \/ row.retry # 0 /\ a = p.cards[row.retry].call /\ row.retry = Max(CardsOf(p, a))
  /\ row.type = "intervention_opened" /\ ~row.recovery =>
       LatestDecision(p, row.call) \in {"none", "reprobe_authorized"}
  /\ row.type = "intervention_resolved" =>
       /\ row.card \in DOMAIN p.cards
       /\ row.decision \in Settling => State(p, p.cards[row.card].call) \in SettledStates
  /\ row.type = "reprobe_consumed" => row.card \in DOMAIN p.cards

\* What no later row takes back, as long as the log is readable.
Persist(p, q) ==
  q.readable =>
    /\ p.readable
    /\ Known(p) \subseteq Known(q)
    /\ DOMAIN p.cards \subseteq DOMAIN q.cards
    /\ \A k \in Known(p) :
         /\ q.attempts[k].session = p.attempts[k].session
         /\ q.attempts[k].compensates = p.attempts[k].compensates
         /\ q.attempts[k].retry = p.attempts[k].retry
         /\ p.attempts[k].state \in SettledStates => q.attempts[k].state = p.attempts[k].state
    /\ \A c \in DOMAIN p.cards : q.cards[c].call = p.cards[c].call

\* Nothing that had stopped blocking blocks again, and a call keeps what it was
\* released for.
NoRevival(p, q) ==
  \A k \in Known(p) : /\ Blocks(q, k) => Blocks(p, k)
                      /\ ReleasedIn(q, k) = ReleasedIn(p, k)

\* The fields of a projection.
LEMMA ProjectionType ==
  ASSUME NEW p \in Projection
  PROVE  /\ p.attempts \in Seq(Attempt) /\ p.cards \in Seq(Card) /\ p.readable \in BOOLEAN
         /\ Len(p.attempts) \in Nat /\ Len(p.cards) \in Nat
         /\ Known(p) = 1..Len(p.attempts) /\ DOMAIN p.cards = 1..Len(p.cards)
         /\ \A k \in Known(p) : p.attempts[k] \in Attempt
         /\ \A c \in DOMAIN p.cards : p.cards[c] \in Card
<1>1. p.attempts \in Seq(Attempt) /\ p.cards \in Seq(Card) /\ p.readable \in BOOLEAN
  BY DEF Projection
<1> QED BY <1>1 DEF Known

\* The fields of an attempt and of a card.
LEMMA AttemptType ==
  ASSUME NEW a \in Attempt
  PROVE  /\ a.state \in ATTEMPT_STATES /\ a.session \in Sessions /\ a.ident \in Operations
         /\ a.past \in Seq(Operations) /\ a.compensates \in Nat /\ a.retry \in Nat
         /\ a.risk \in Nat /\ a.accepted \in SUBSET Nat
BY DEF Attempt

\* The fields of a card.
LEMMA CardType ==
  ASSUME NEW c \in Card
  PROVE  /\ c.call \in Nat /\ c.decision \in RESOLUTION_DECISIONS \cup {"open"}
         /\ c.sealed \in Operations /\ c.lane \in Sessions /\ c.consumer \in Nat
         /\ c.probed \in BOOLEAN /\ c.basis \in Operations
BY DEF Card

\* What a risk card shows names calls.
LEMMA AcceptedType ==
  ASSUME NEW d \in Debt
  PROVE  accepted_attempt_ids(d) \in SUBSET Nat
BY DEF Debt, accepted_attempt_ids

\* A risk card shows rows of the log.
LEMMA ContextType ==
  ASSUME NEW p \in Projection
  PROVE  effect_risk_review_context(p) \in Debt
<1> DEFINE A == {<<k, p.attempts[k]>> : k \in blocking_attempts(p)}
           D == {c \in DOMAIN p.cards : p.cards[c].call \in blocking_attempts(p)}
           C == {<<c, p.cards[c]>> : c \in D}
<1>1. /\ Known(p) \subseteq Nat /\ DOMAIN p.cards \subseteq Nat
      /\ \A k \in Known(p) : p.attempts[k] \in Attempt
      /\ \A c \in DOMAIN p.cards : p.cards[c] \in Card
  BY ProjectionType
<1>2. blocking_attempts(p) \subseteq Known(p) /\ D \subseteq DOMAIN p.cards
  BY DEF blocking_attempts
<1>3. A \in SUBSET (Nat \X Attempt)
  BY <1>1, <1>2
<1>4. C \in SUBSET (Nat \X Card)
  <2> HIDE DEF D
  <2> QED BY <1>1, <1>2
<1>5. effect_risk_review_context(p) = [attempts |-> A, cards |-> C]
  BY Zenon DEF effect_risk_review_context
<1> HIDE DEF A, C
<1> QED BY <1>3, <1>4, <1>5 DEF Debt

\* The latest card of a call is one of its cards.
LEMMA LatestCard ==
  ASSUME NEW p \in Projection, NEW k, CardsOf(p, k) # {}
  PROVE  /\ Max(CardsOf(p, k)) \in CardsOf(p, k)
         /\ \A c \in CardsOf(p, k) : c <= Max(CardsOf(p, k))
         /\ Max(CardsOf(p, k)) \in DOMAIN p.cards
         /\ p.cards[Max(CardsOf(p, k))].call = k
<1>1. CardsOf(p, k) \in SUBSET (0..Len(p.cards))
  BY ProjectionType DEF CardsOf
<1>2. Len(p.cards) \in Nat
  BY ProjectionType
<1>3. Max(CardsOf(p, k)) \in CardsOf(p, k) /\ \A c \in CardsOf(p, k) : c <= Max(CardsOf(p, k))
  BY <1>1, <1>2, MaxIsGreatest
<1> QED BY <1>3 DEF CardsOf

\* The same cards of a call say the same about it.
LEMMA SameCards ==
  ASSUME NEW p, NEW q, NEW k, CardsOf(q, k) = CardsOf(p, k), p \in Projection,
         \A c \in CardsOf(p, k) : /\ q.cards[c].decision = p.cards[c].decision
                                  /\ q.cards[c].consumer = p.cards[c].consumer
  PROVE  /\ LatestDecision(q, k) = LatestDecision(p, k)
         /\ State(q, k) = State(p, k) => (Blocks(q, k) <=> Blocks(p, k))
<1>1. CASE CardsOf(p, k) = {}
  BY <1>1 DEF LatestDecision, Blocks
<1>2. CASE CardsOf(p, k) # {}
  <2>1. Max(CardsOf(p, k)) \in CardsOf(p, k)
    BY <1>2, LatestCard
  <2> QED BY <1>2, <2>1 DEF LatestDecision, Blocks
<1> QED BY <1>1, <1>2

\* When no attempt is added, one owner stays one owner.
LEMMA OwnerKept ==
  ASSUME NEW p, NEW q, OneOwner(p), Compensates(p), Known(q) = Known(p), NoRevival(p, q),
         \A k \in Known(p) : /\ q.attempts[k].compensates = p.attempts[k].compensates
                              /\ q.attempts[k].accepted = p.attempts[k].accepted
                              /\ q.attempts[k].risk = p.attempts[k].risk
  PROVE  OneOwner(q) /\ Compensates(q)
<1>1. Compensates(q)
  BY DEF Compensates
<1>2. OneOwner(q)
  BY DEF OneOwner, NoRevival
<1> QED BY <1>1, <1>2

\* A sequence with one element replaced.
LEMMA ReplaceOne ==
  ASSUME NEW T, NEW r \in Seq(T), NEW k \in DOMAIN r, NEW x \in T
  PROVE  LET u == [r EXCEPT ![k] = x]
         IN  /\ u \in Seq(T) /\ DOMAIN u = DOMAIN r /\ Len(u) = Len(r) /\ u[k] = x
             /\ \A j \in DOMAIN r : j # k => u[j] = r[j]
OBVIOUS

\* A projection with one attempt or one card replaced.
WithAttempt(p, k, a) ==
  [attempts |-> [p.attempts EXCEPT ![k] = a], cards |-> p.cards, readable |-> p.readable]
WithCard(p, c, d) ==
  [attempts |-> p.attempts, cards |-> [p.cards EXCEPT ![c] = d], readable |-> p.readable]

\* What the handlers' EXCEPTs are.
LEMMA Replaced ==
  ASSUME NEW p \in Projection, NEW k, NEW a
  PROVE  /\ [p EXCEPT !.attempts[k] = a] = WithAttempt(p, k, a)
         /\ [p EXCEPT !.cards[k] = a] = WithCard(p, k, a)
<1> DEFINE u == [p.attempts EXCEPT ![k] = a]
           v == [p.cards EXCEPT ![k] = a]
<1>1. [p EXCEPT !.attempts[k] = a] = WithAttempt(p, k, a)
  <2>1. [p EXCEPT !.attempts[k] = a] = [p EXCEPT !.attempts = u]
    BY Zenon
  <2>2. WithAttempt(p, k, a) = [attempts |-> u, cards |-> p.cards, readable |-> p.readable]
    BY DEF WithAttempt
  <2> HIDE DEF u
  <2>3. [p EXCEPT !.attempts = u] = [attempts |-> u, cards |-> p.cards, readable |-> p.readable]
    BY DEF Projection
  <2> QED BY <2>1, <2>2, <2>3, Zenon
<1>2. [p EXCEPT !.cards[k] = a] = WithCard(p, k, a)
  <2>1. [p EXCEPT !.cards[k] = a] = [p EXCEPT !.cards = v]
    BY Zenon
  <2>2. WithCard(p, k, a) = [attempts |-> p.attempts, cards |-> v, readable |-> p.readable]
    BY DEF WithCard
  <2> HIDE DEF v
  <2>3. [p EXCEPT !.cards = v] = [attempts |-> p.attempts, cards |-> v, readable |-> p.readable]
    BY DEF Projection
  <2> QED BY <2>1, <2>2, <2>3, Zenon
<1> QED BY <1>1, <1>2, Zenon

AttemptChanged(p, q, k, a) ==
  /\ q \in Projection /\ q.readable = p.readable
  /\ Known(q) = Known(p) /\ q.cards = p.cards
  /\ q.attempts[k] = a
  /\ \A j \in Known(p) : j # k => q.attempts[j] = p.attempts[j]
CardChanged(p, q, c, d) ==
  /\ q \in Projection /\ q.readable = p.readable
  /\ DOMAIN q.cards = DOMAIN p.cards /\ q.attempts = p.attempts
  /\ q.cards[c] = d
  /\ \A j \in DOMAIN p.cards : j # c => q.cards[j] = p.cards[j]

\* One attempt is replaced.
LEMMA OneAttempt ==
  ASSUME NEW p \in Projection, NEW k \in Known(p), NEW a \in Attempt,
         NEW q, q = WithAttempt(p, k, a)
  PROVE  AttemptChanged(p, q, k, a)
<1> DEFINE r == p.attempts
           u == [r EXCEPT ![k] = a]
<1>1. r \in Seq(Attempt) /\ k \in DOMAIN r
  BY ProjectionType DEF Known
<1>2. q = [attempts |-> u, cards |-> p.cards, readable |-> p.readable]
  BY DEF WithAttempt
<1> HIDE DEF r
<1>3. /\ u \in Seq(Attempt) /\ DOMAIN u = DOMAIN r /\ u[k] = a
      /\ \A j \in DOMAIN r : j # k => u[j] = r[j]
  BY <1>1, ReplaceOne
<1> HIDE DEF u
<1>4. q \in Projection
  BY <1>2, <1>3 DEF Projection
<1> QED BY <1>2, <1>3, <1>4 DEF Known, r, AttemptChanged

\* One card is replaced.
LEMMA OneCard ==
  ASSUME NEW p \in Projection, NEW c \in DOMAIN p.cards, NEW d \in Card,
         NEW q, q = WithCard(p, c, d)
  PROVE  CardChanged(p, q, c, d)
<1> DEFINE r == p.cards
           u == [r EXCEPT ![c] = d]
<1>1. r \in Seq(Card) /\ c \in DOMAIN r
  BY ProjectionType
<1>2. q = [attempts |-> p.attempts, cards |-> u, readable |-> p.readable]
  BY DEF WithCard
<1> HIDE DEF r
<1>3. /\ u \in Seq(Card) /\ DOMAIN u = DOMAIN r /\ u[c] = d
      /\ \A j \in DOMAIN r : j # c => u[j] = r[j]
  BY <1>1, ReplaceOne
<1> HIDE DEF u
<1>4. q \in Projection
  BY <1>2, <1>3 DEF Projection
<1> QED BY <1>2, <1>3, <1>4 DEF r, CardChanged

\* A move of an attempt's state.
LEMMA MoveKeeps ==
  ASSUME NEW p, LogInv(p), p.readable, NEW k \in Nat, NEW s \in ATTEMPT_STATES,
         Fits(p, Moved(k, s))
  PROVE  LET q == Applied(p, Moved(k, s))
         IN  /\ LogInv(q) /\ Persist(p, q) /\ q.readable /\ Len(q.attempts) = Len(p.attempts)
             /\ q.cards = p.cards /\ q.attempts[k].state = s
             /\ \A j : j # k => State(q, j) = State(p, j)
<1> DEFINE old == p.attempts[k]
           a == [old EXCEPT !.state = s]
           q == Applied(p, Moved(k, s))
<1>1. q = WithAttempt(p, k, a)
  <2>1. q = [p EXCEPT !.attempts[k].state = s]
    BY Zenon DEF Applied, Moved
  <2>2. [p EXCEPT !.attempts[k].state = s] = [p EXCEPT !.attempts[k] = a]
    BY Zenon
  <2>3. p \in Projection
    BY DEF LogInv
  <2> HIDE DEF q, a
  <2>4. [p EXCEPT !.attempts[k] = a] = WithAttempt(p, k, a)
    BY <2>3, Replaced
  <2> QED BY <2>1, <2>2, <2>4, Zenon
<1>2. <<State(p, k), s>> \in TRANSITIONS
  BY DEF Fits, Moved
<1>3. /\ k \in Known(p) /\ State(p, k) = old.state
      /\ old.state \in ACTIVE_ATTEMPT_STATES
      /\ old.state = "unknown" => s \in SettledStates
  BY <1>2 DEF TRANSITIONS, State, ACTIVE_ATTEMPT_STATES, SettledStates, InFlight, ATTEMPT_STATES
<1>4. p \in Projection /\ CardsTrue(p) /\ GrantsPaired(p) /\ Compensates(p) /\ OneOwner(p)
  BY DEF LogInv
<1>5. old \in Attempt
  BY <1>3, <1>4, ProjectionType
<1>6. /\ a \in Attempt /\ a.state = s /\ a.session = old.session /\ a.ident = old.ident
      /\ a.past = old.past /\ a.compensates = old.compensates /\ a.retry = old.retry
      /\ a.risk = old.risk /\ a.accepted = old.accepted
  BY <1>5 DEF Attempt
<1>7. /\ q \in Projection /\ q.readable = p.readable /\ Known(q) = Known(p)
      /\ q.cards = p.cards /\ q.attempts[k] = a
      /\ \A j \in Known(p) : j # k => q.attempts[j] = p.attempts[j]
  <2>1. p \in Projection /\ k \in Known(p) /\ a \in Attempt
    BY <1>3, <1>4, <1>6
  <2> HIDE DEF a, q, old
  <2>2. AttemptChanged(p, q, k, a)
    BY <1>1, <2>1, OneAttempt
  <2> QED BY <2>2 DEF AttemptChanged
<1> HIDE DEF old, a, q
<1>8. \A j : j # k => State(q, j) = State(p, j)
  BY <1>7 DEF State
<1>9. \A j \in Known(p) : /\ q.attempts[j].session = p.attempts[j].session
                          /\ q.attempts[j].compensates = p.attempts[j].compensates
                          /\ q.attempts[j].retry = p.attempts[j].retry
                          /\ q.attempts[j].risk = p.attempts[j].risk
                          /\ q.attempts[j].accepted = p.attempts[j].accepted
                          /\ q.attempts[j].ident = p.attempts[j].ident
                          /\ q.attempts[j].past = p.attempts[j].past
                          /\ p.attempts[j].state \in SettledStates =>
                               q.attempts[j].state = p.attempts[j].state
  <2> TAKE j \in Known(p)
  <2>1. CASE j = k
    <3>1. old.state \notin SettledStates
      BY <1>3 DEF SettledStates
    <3> QED BY <1>6, <1>7, <2>1, <3>1 DEF old
  <2>2. CASE j # k
    BY <1>7, <2>2
  <2> QED BY <2>1, <2>2
<1>10. Persist(p, q)
  BY <1>7, <1>9 DEF Persist
<1>11. \A j : CardsOf(q, j) = CardsOf(p, j) /\ LatestDecision(q, j) = LatestDecision(p, j)
  BY <1>7 DEF CardsOf, LatestDecision
<1>12. NoRevival(p, q)
  <2> SUFFICES ASSUME NEW j \in Known(p)
               PROVE  (Blocks(q, j) => Blocks(p, j)) /\ ReleasedIn(q, j) = ReleasedIn(p, j)
    BY DEF NoRevival
  <2>1. ReleasedIn(q, j) = ReleasedIn(p, j)
    BY <1>9 DEF ReleasedIn
  <2>2. CASE j # k
    BY <1>7, <1>8, <1>11, <2>1, <2>2 DEF Blocks
  <2>3. CASE j = k /\ old.state = "unknown"
    <3>1. State(q, k) \in SettledStates
      BY <1>3, <1>6, <1>7, <2>3 DEF State
    <3>2. ~Blocks(q, k)
      BY <3>1 DEF Blocks, SettledStates, ACTIVE_ATTEMPT_STATES
    <3> QED BY <2>1, <2>3, <3>2
  <2>4. CASE j = k /\ old.state # "unknown"
    <3>1. State(p, k) \in InFlight
      BY <1>3, <2>4 DEF ACTIVE_ATTEMPT_STATES
    <3> QED BY <2>1, <2>4, <3>1 DEF Blocks
  <2> QED BY <2>2, <2>3, <2>4
<1>13. OneOwner(q) /\ Compensates(q)
  BY <1>4, <1>7, <1>9, <1>12, OwnerKept
<1>14. \A j : State(p, j) \in SettledStates => State(q, j) = State(p, j)
  BY <1>7, <1>9 DEF State, SettledStates, ACTIVE_ATTEMPT_STATES, ATTEMPT_STATES
<1>15. CardsTrue(q)
  <2> SUFFICES ASSUME NEW c \in DOMAIN p.cards
               PROVE  /\ p.cards[c].call \in Known(q)
                      /\ p.cards[c].decision \in Settling =>
                           State(q, p.cards[c].call) \in SettledStates
                      /\ p.cards[c].decision = "system_compensated" =>
                           \E h \in Known(q) : /\ q.attempts[h].compensates = p.cards[c].call
                                               /\ State(q, h) = "system_verified"
    BY <1>7 DEF CardsTrue
  <2>1. p.cards[c].call \in Known(q)
    BY <1>4, <1>7 DEF CardsTrue
  <2>2. p.cards[c].decision \in Settling => State(q, p.cards[c].call) \in SettledStates
    BY <1>4, <1>14 DEF CardsTrue
  <2>3. ASSUME p.cards[c].decision = "system_compensated"
        PROVE  \E h \in Known(q) : /\ q.attempts[h].compensates = p.cards[c].call
                                   /\ State(q, h) = "system_verified"
    <3>1. PICK h \in Known(p) : /\ p.attempts[h].compensates = p.cards[c].call
                                /\ State(p, h) = "system_verified"
      BY <1>4, <2>3 DEF CardsTrue
    <3>2. State(q, h) = "system_verified"
      BY <1>14, <3>1 DEF SettledStates, ATTEMPT_STATES, ACTIVE_ATTEMPT_STATES, InFlight
    <3> QED BY <1>7, <1>9, <3>1, <3>2
  <2> QED BY <2>1, <2>2, <2>3
<1>16. GrantsPaired(q)
  BY <1>4, <1>7, <1>9 DEF GrantsPaired
<1>17. Len(q.attempts) = Len(p.attempts)
  BY <1>4, <1>7, ProjectionType
<1>18. q.attempts[k].state = s
  BY <1>6, <1>7
<1> QED BY <1>4, <1>7, <1>8, <1>10, <1>13, <1>15, <1>16, <1>17, <1>18 DEF LogInv, q

\* What every row leaves of a log that stays readable.
Keeps(p, q) == LogInv(q) /\ Persist(p, q) /\ q.readable

\* The attempts and cards of q say what those of p say.
SayTheSame(p, q) ==
  /\ Known(q) = Known(p) /\ DOMAIN q.cards = DOMAIN p.cards
  /\ \A k \in Known(p) :
       /\ q.attempts[k].state = p.attempts[k].state
       /\ q.attempts[k].session = p.attempts[k].session
       /\ q.attempts[k].compensates = p.attempts[k].compensates
       /\ q.attempts[k].retry = p.attempts[k].retry
       /\ q.attempts[k].risk = p.attempts[k].risk
       /\ q.attempts[k].accepted = p.attempts[k].accepted
       /\ ReleasedIn(q, k) = ReleasedIn(p, k)
  /\ \A c \in DOMAIN p.cards :
       /\ q.cards[c].call = p.cards[c].call
       /\ q.cards[c].decision = p.cards[c].decision
       /\ q.cards[c].consumer = p.cards[c].consumer

\* A row that changes nothing the invariant reads keeps it.
LEMMA QuietKeeps ==
  ASSUME NEW p, NEW q, LogInv(p), p.readable, q \in Projection, q.readable, SayTheSame(p, q)
  PROVE  Keeps(p, q)
<1>1. p \in Projection /\ CardsTrue(p) /\ GrantsPaired(p) /\ Compensates(p) /\ OneOwner(p)
  BY DEF LogInv
<1>2. \A j : State(q, j) = State(p, j)
  BY DEF State, SayTheSame
<1>3. \A j : CardsOf(q, j) = CardsOf(p, j)
  BY DEF CardsOf, SayTheSame
<1>4. NoRevival(p, q)
  <2> SUFFICES ASSUME NEW j \in Known(p)
               PROVE  (Blocks(q, j) => Blocks(p, j)) /\ ReleasedIn(q, j) = ReleasedIn(p, j)
    BY DEF NoRevival
  <2>1. \A c \in CardsOf(p, j) : /\ q.cards[c].decision = p.cards[c].decision
                                 /\ q.cards[c].consumer = p.cards[c].consumer
    BY DEF CardsOf, SayTheSame
  <2>2. Blocks(q, j) <=> Blocks(p, j)
    BY <1>1, <1>2, <1>3, <2>1, SameCards
  <2> QED BY <2>2 DEF SayTheSame
<1>5. OneOwner(q) /\ Compensates(q)
  BY <1>1, <1>4, OwnerKept DEF SayTheSame
<1>6. CardsTrue(q)
  BY <1>1, <1>2 DEF SayTheSame, CardsTrue
<1>7. GrantsPaired(q)
  BY <1>1 DEF SayTheSame, GrantsPaired
<1>8. Persist(p, q)
  BY DEF Persist, SayTheSame
<1> QED BY <1>5, <1>6, <1>7, <1>8 DEF Keeps, LogInv

\* A completion that names another target.
LEMMA RebindKeeps ==
  ASSUME NEW p, LogInv(p), p.readable, NEW k \in Nat, NEW i \in Operations,
         Fits(p, Rebound(k, i))
  PROVE  LET q == Applied(p, Rebound(k, i))
         IN  Keeps(p, q) /\ Len(q.attempts) = Len(p.attempts) /\ q.cards = p.cards
<1> DEFINE old == p.attempts[k]
           a == Retargeted(old, i)
           q == Applied(p, Rebound(k, i))
<1>1. p \in Projection
  BY DEF LogInv
<1>2. q = WithAttempt(p, k, a)
  <2>1. q = [p EXCEPT !.attempts[k] = Retargeted(@, i)]
    BY Zenon DEF Applied, Rebound
  <2>2. [p EXCEPT !.attempts[k] = Retargeted(@, i)] = [p EXCEPT !.attempts[k] = a]
    BY Zenon
  <2> HIDE DEF q, a
  <2>3. [p EXCEPT !.attempts[k] = a] = WithAttempt(p, k, a)
    BY <1>1, Replaced
  <2> QED BY <2>1, <2>2, <2>3, Zenon
<1>3. k \in Known(p)
  BY DEF Fits, Rebound, State, ACTIVE_ATTEMPT_STATES, InFlight
<1>4. old \in Attempt
  BY <1>1, <1>3, ProjectionType
<1>5. old.past \in Seq(Operations) /\ old.ident \in Operations
  BY <1>4, AttemptType
<1> DEFINE past == Append(old.past, old.ident)
<1>6. /\ a \in Attempt /\ a.state = old.state /\ a.session = old.session
      /\ a.compensates = old.compensates /\ a.retry = old.retry /\ a.past = past
      /\ a.risk = old.risk /\ a.accepted = old.accepted
  <2>1. past \in Seq(Operations)
    BY <1>5
  <2>2. a = [old EXCEPT !.ident = i, !.past = past]
    BY Zenon DEF Retargeted
  <2> HIDE DEF past, a
  <2> QED BY <1>4, <2>1, <2>2 DEF Attempt
<1>7. a.past # <<>> /\ a.past[1] = IF old.past = <<>> THEN old.ident ELSE old.past[1]
  <2> DEFINE r == old.past
             e == old.ident
  <2>1. r \in Seq(Operations) /\ e \in Operations
    BY <1>5
  <2>2. past = Append(r, e)
    OBVIOUS
  <2> HIDE DEF r, e, past
  <2>3. past # <<>> /\ past[1] = IF r = <<>> THEN e ELSE r[1]
    BY <2>1, <2>2
  <2> QED BY <1>6, <2>3 DEF r, e
<1>8. AttemptChanged(p, q, k, a)
  <2> HIDE DEF q, a
  <2> QED BY <1>1, <1>2, <1>3, <1>6, OneAttempt
<1> HIDE DEF q, a
<1>9. ReleasedIn(q, k) = ReleasedIn(p, k)
  BY <1>7, <1>8 DEF ReleasedIn, AttemptChanged, old
<1>10. SayTheSame(p, q)
  <2>1. \A j \in Known(p) : j # k => ReleasedIn(q, j) = ReleasedIn(p, j)
    BY <1>8 DEF ReleasedIn, AttemptChanged
  <2> QED BY <1>6, <1>8, <1>9, <2>1 DEF SayTheSame, AttemptChanged, old
<1>11. Keeps(p, q)
  BY <1>8, <1>10, QuietKeeps DEF AttemptChanged
<1>12. Len(q.attempts) = Len(p.attempts)
  BY <1>1, <1>8, ProjectionType DEF AttemptChanged
<1> QED BY <1>8, <1>11, <1>12 DEF q, AttemptChanged

\* A reprobe grant used by a read.
LEMMA ProbeKeeps ==
  ASSUME NEW p, LogInv(p), p.readable, NEW c \in Nat, c \in DOMAIN p.cards
  PROVE  LET q == Applied(p, Probed(c))
         IN  Keeps(p, q) /\ Len(q.attempts) = Len(p.attempts)
<1> DEFINE d == [p.cards[c] EXCEPT !.probed = TRUE]
           q == Applied(p, Probed(c))
<1>1. p \in Projection
  BY DEF LogInv
<1>2. q = WithCard(p, c, d)
  <2>1. q = [p EXCEPT !.cards[c].probed = TRUE]
    BY Zenon DEF Applied, Probed
  <2>2. [p EXCEPT !.cards[c].probed = TRUE] = [p EXCEPT !.cards[c] = d]
    BY Zenon
  <2> HIDE DEF q, d
  <2>3. [p EXCEPT !.cards[c] = d] = WithCard(p, c, d)
    BY <1>1, Replaced
  <2> QED BY <2>1, <2>2, <2>3, Zenon
<1>3. p.cards[c] \in Card
  BY <1>1, ProjectionType
<1>4. /\ d \in Card /\ d.call = p.cards[c].call /\ d.decision = p.cards[c].decision
      /\ d.consumer = p.cards[c].consumer
  BY <1>3 DEF Card
<1>5. CardChanged(p, q, c, d)
  <2> HIDE DEF q, d
  <2> QED BY <1>1, <1>2, <1>4, OneCard
<1> HIDE DEF q, d
<1>6. SayTheSame(p, q)
  BY <1>4, <1>5 DEF SayTheSame, CardChanged, Known, ReleasedIn
<1>7. Keeps(p, q)
  BY <1>5, <1>6, QuietKeeps DEF CardChanged
<1>8. Len(q.attempts) = Len(p.attempts)
  BY <1>5 DEF CardChanged
<1> QED BY <1>7, <1>8 DEF q

\* A card is closed.
LEMMA ResolveKeeps ==
  ASSUME NEW p, LogInv(p), p.readable, NEW row, row \in EventRow,
         row.type = "intervention_resolved", Fits(p, row), Warranted(p, row)
  PROVE  LET q == Applied(p, row)
         IN  Keeps(p, q) /\ Len(q.attempts) = Len(p.attempts)
<1> DEFINE c == row.card
           d == Decided(p, row)
           k == p.cards[row.card].call
           q == Applied(p, row)
<1>1. p \in Projection /\ CardsTrue(p) /\ GrantsPaired(p) /\ Compensates(p) /\ OneOwner(p)
  BY DEF LogInv
<1>2. /\ c \in DOMAIN p.cards /\ p.cards[c].decision = "open"
      /\ row.decision \in RESOLUTION_DECISIONS /\ row.lane \in Sessions
      /\ row.decision = "system_compensated" => CompensationFits(p, row)
      /\ row.decision \in Settling => State(p, k) \in SettledStates
  BY DEF Fits, Warranted, ResolutionFits, EventRow
<1>3. q = WithCard(p, c, d)
  <2>1. q = [p EXCEPT !.cards[c] = d]
    BY Zenon DEF Applied
  <2> HIDE DEF q, d
  <2>3. [p EXCEPT !.cards[c] = d] = WithCard(p, c, d)
    BY <1>1, Replaced
  <2> QED BY <2>1, <2>3, Zenon
<1>4. p.cards[c] \in Card /\ k \in Known(p) /\ p.attempts[k] \in Attempt
  BY <1>1, <1>2, ProjectionType DEF CardsTrue
<1>5. p.attempts[k].ident \in Operations
  BY <1>4, AttemptType
<1>6. /\ d \in Card /\ d.call = k /\ d.decision = row.decision
      /\ d.consumer = p.cards[c].consumer
  BY <1>2, <1>4, <1>5 DEF Card, Decided
<1>7. CardChanged(p, q, c, d)
  <2> HIDE DEF q, d
  <2> QED BY <1>1, <1>2, <1>3, <1>6, OneCard
<1> HIDE DEF q, d
<1>8. /\ q \in Projection /\ q.readable /\ q.attempts = p.attempts
      /\ DOMAIN q.cards = DOMAIN p.cards /\ q.cards[c] = d
      /\ \A j \in DOMAIN p.cards : j # c => q.cards[j] = p.cards[j]
  BY <1>7 DEF CardChanged
<1>9. \A j \in DOMAIN p.cards : /\ q.cards[j].call = p.cards[j].call
                                /\ q.cards[j].consumer = p.cards[j].consumer
  BY <1>6, <1>8
<1>10. Known(q) = Known(p) /\ \A j : State(q, j) = State(p, j) /\ ReleasedIn(q, j) = ReleasedIn(p, j)
  BY <1>8 DEF Known, State, ReleasedIn
<1>11. \A j : CardsOf(q, j) = CardsOf(p, j)
  BY <1>8, <1>9 DEF CardsOf
<1>12. NoRevival(p, q)
  <2> SUFFICES ASSUME NEW j \in Known(p), Blocks(q, j), ~Blocks(p, j)
               PROVE  FALSE
    BY <1>10 DEF NoRevival
  <2>1. State(p, j) = "unknown" /\ State(q, j) = "unknown"
    BY <1>10 DEF Blocks
  <2>2. CardsOf(p, j) # {}
    BY <2>1 DEF Blocks, LatestDecision
  <2> DEFINE m == Max(CardsOf(p, j))
  <2>3. m \in CardsOf(p, j) /\ m \in DOMAIN p.cards
    BY <1>1, <2>2, LatestCard
  <2>4. m # c
    <3>1. LatestDecision(p, j) # "open"
      BY <2>1 DEF Blocks
    <3> QED BY <1>2, <2>2, <3>1 DEF LatestDecision
  <2> HIDE DEF m
  <2>5. q.cards[m] = p.cards[m]
    BY <1>8, <2>3, <2>4
  <2>6. LatestDecision(q, j) = LatestDecision(p, j)
    BY <1>11, <2>2, <2>5 DEF LatestDecision, m
  <2>7. Blocks(q, j) <=> Blocks(p, j)
    BY <1>10, <1>11, <2>5, <2>6 DEF Blocks, m
  <2> QED BY <2>7
<1>13. OneOwner(q) /\ Compensates(q)
  BY <1>1, <1>8, <1>10, <1>12, OwnerKept
<1>14. CardsTrue(q)
  <2> SUFFICES ASSUME NEW j \in DOMAIN p.cards
               PROVE  /\ q.cards[j].call \in Known(p)
                      /\ q.cards[j].decision \in Settling =>
                           State(p, q.cards[j].call) \in SettledStates
                      /\ q.cards[j].decision = "system_compensated" =>
                           \E h \in Known(p) : /\ p.attempts[h].compensates = q.cards[j].call
                                               /\ State(p, h) = "system_verified"
    BY <1>8, <1>10 DEF CardsTrue
  <2>1. CASE j # c
    BY <1>1, <1>8, <2>1 DEF CardsTrue
  <2>2. CASE j = c
    <3>1. q.cards[j].call = k /\ q.cards[j].decision = row.decision
      BY <1>6, <1>8, <2>2
    <3>2. ASSUME row.decision = "system_compensated"
          PROVE  \E h \in Known(p) : /\ p.attempts[h].compensates = k
                                     /\ State(p, h) = "system_verified"
      <4>1. /\ State(p, row.compensator) = "system_verified"
            /\ p.attempts[row.compensator].compensates = k
        BY <1>2, <3>2 DEF CompensationFits
      <4>2. row.compensator \in Known(p)
        BY <4>1 DEF State
      <4> QED BY <4>1, <4>2
    <3> QED BY <1>2, <1>4, <3>1, <3>2
  <2> QED BY <2>1, <2>2
<1>15. GrantsPaired(q)
  BY <1>1, <1>8, <1>9, <1>10 DEF GrantsPaired
<1>16. Persist(p, q)
  BY <1>8, <1>9, <1>10 DEF Persist
<1>17. Keeps(p, q)
  BY <1>8, <1>13, <1>14, <1>15, <1>16 DEF Keeps, LogInv
<1> QED BY <1>8, <1>17 DEF q

\* Appending to a sequence.
LEMMA AppendSeq ==
  ASSUME NEW T, NEW r \in Seq(T), NEW x \in T
  PROVE  LET u == Append(r, x)
         IN  /\ u \in Seq(T) /\ Len(u) = Len(r) + 1 /\ Len(r) \in Nat
             /\ DOMAIN r = 1..Len(r) /\ DOMAIN u = 1..(Len(r) + 1)
             /\ u[Len(r) + 1] = x
             /\ \A j \in DOMAIN r : u[j] = r[j]
OBVIOUS

\* A card of k is opened, and nothing else changes.
CardOpened(p, q, k) ==
  /\ CardsOf(q, k) # {}
  /\ q.attempts = p.attempts
  /\ \A j : j # k => CardsOf(q, j) = CardsOf(p, j)
  /\ \A c \in DOMAIN p.cards : q.cards[c] = p.cards[c]

\* The opening of a card keeps the invariant: what blocked still does.
LEMMA OpenKeeps ==
  ASSUME NEW p, LogInv(p), p.readable, NEW k \in Nat, NEW recovery \in BOOLEAN,
         Fits(p, Opened(k, recovery)), Warranted(p, Opened(k, recovery))
  PROVE  LET q == Applied(p, Opened(k, recovery))
         IN  Keeps(p, q) /\ Len(q.attempts) = Len(p.attempts) /\ CardOpened(p, q, k)
<1> DEFINE n == Len(p.cards)
           d == NewCard(p, k)
           u == Append(p.cards, d)
           q == Applied(p, Opened(k, recovery))
<1>1. p \in Projection /\ CardsTrue(p) /\ GrantsPaired(p) /\ Compensates(p) /\ OneOwner(p)
  BY DEF LogInv
<1>2. /\ State(p, k) = "unknown" /\ k \in Known(p)
      /\ LatestDecision(p, k) \in {"none", "reprobe_authorized", "abort"}
  BY DEF Fits, Opened, Warranted, NewEvidence, State
<1>3. q = [attempts |-> p.attempts, cards |-> u, readable |-> p.readable]
  <2>1. q = [p EXCEPT !.cards = u]
    BY Zenon DEF Applied, Opened
  <2> HIDE DEF q, u
  <2> QED BY <1>1, <2>1 DEF Projection
<1>4. p.attempts[k] \in Attempt /\ p.attempts[k].ident \in Operations
      /\ p.attempts[k].session \in Sessions
  BY <1>1, <1>2, ProjectionType, AttemptType
<1>5. d \in Card /\ d.call = k /\ d.decision = "open" /\ d.consumer = 0
  BY <1>4 DEF Card, NewCard
<1>6. /\ u \in Seq(Card) /\ n \in Nat /\ DOMAIN p.cards = 1..n /\ DOMAIN u = 1..(n + 1)
      /\ u[n + 1] = d /\ \A j \in DOMAIN p.cards : u[j] = p.cards[j]
  <2> DEFINE r == p.cards
  <2>1. r \in Seq(Card)
    BY <1>1, ProjectionType
  <2> HIDE DEF d, r
  <2>2. LET w == Append(r, d)
        IN  /\ w \in Seq(Card) /\ Len(w) = Len(r) + 1 /\ Len(r) \in Nat
            /\ DOMAIN r = 1..Len(r) /\ DOMAIN w = 1..(Len(r) + 1)
            /\ w[Len(r) + 1] = d
            /\ \A j \in DOMAIN r : w[j] = r[j]
    BY <1>5, <2>1
  <2> QED BY <2>2 DEF r
<1>7. q \in Projection
  <2> HIDE DEF u, q
  <2> QED BY <1>1, <1>3, <1>6 DEF Projection
<1> HIDE DEF n, u, d
<1>8. /\ q.attempts = p.attempts /\ q.readable = p.readable
      /\ DOMAIN p.cards = 1..n /\ DOMAIN q.cards = 1..(n + 1) /\ q.cards[n + 1] = d
      /\ \A j \in DOMAIN p.cards : q.cards[j] = p.cards[j]
  <2> HIDE DEF q
  <2> QED BY <1>3, <1>6
<1> HIDE DEF q
<1>9. Known(q) = Known(p) /\ \A j : State(q, j) = State(p, j) /\ ReleasedIn(q, j) = ReleasedIn(p, j)
  BY <1>8 DEF Known, State, ReleasedIn
<1>10. \A j : j # k => CardsOf(q, j) = CardsOf(p, j)
  BY <1>5, <1>6, <1>8 DEF CardsOf
<1>11. CardsOf(q, k) # {}
  BY <1>5, <1>6, <1>8 DEF CardsOf
<1>12. NoRevival(p, q)
  <2> SUFFICES ASSUME NEW j \in Known(p)
               PROVE  Blocks(q, j) => Blocks(p, j)
    BY <1>9 DEF NoRevival
  <2>1. CASE j = k
    BY <1>2, <2>1 DEF Blocks
  <2>2. CASE j # k
    <3>1. CardsOf(q, j) = CardsOf(p, j) /\ State(q, j) = State(p, j)
      BY <1>9, <1>10, <2>2
    <3>2. \A c \in CardsOf(p, j) : /\ q.cards[c].decision = p.cards[c].decision
                                   /\ q.cards[c].consumer = p.cards[c].consumer
      BY <1>8 DEF CardsOf
    <3> QED BY <1>1, <3>1, <3>2, SameCards
  <2> QED BY <2>1, <2>2
<1>13. OneOwner(q) /\ Compensates(q)
  BY <1>1, <1>8, <1>9, <1>12, OwnerKept
<1>14. CardsTrue(q)
  <2> SUFFICES ASSUME NEW j \in DOMAIN q.cards
               PROVE  /\ q.cards[j].call \in Known(p)
                      /\ q.cards[j].decision \in Settling =>
                           State(p, q.cards[j].call) \in SettledStates
                      /\ q.cards[j].decision = "system_compensated" =>
                           \E h \in Known(p) : /\ p.attempts[h].compensates = q.cards[j].call
                                               /\ State(p, h) = "system_verified"
    BY <1>8, <1>9 DEF CardsTrue
  <2>1. CASE j \in DOMAIN p.cards
    BY <1>1, <1>8, <2>1 DEF CardsTrue
  <2>2. CASE j = n + 1
    BY <1>2, <1>5, <1>8, <2>2 DEF Settling, Attestations
  <2> QED BY <1>6, <1>8, <2>1, <2>2
<1>15. GrantsPaired(q)
  <2>1. \A c \in DOMAIN q.cards : q.cards[c].consumer # 0 => c \in DOMAIN p.cards
    BY <1>5, <1>6, <1>8
  <2>2. DOMAIN p.cards \subseteq DOMAIN q.cards
    BY <1>6, <1>8
  <2>3. \A i \in Known(q) : q.attempts[i].retry # 0 =>
          /\ q.attempts[i].retry \in DOMAIN q.cards
          /\ q.cards[q.attempts[i].retry].consumer = i
    BY <1>1, <1>8, <1>9, <2>2 DEF GrantsPaired
  <2>4. \A c \in DOMAIN q.cards : q.cards[c].consumer # 0 =>
          /\ q.cards[c].consumer \in Known(q)
          /\ q.attempts[q.cards[c].consumer].retry = c
    BY <1>1, <1>8, <1>9, <2>1 DEF GrantsPaired
  <2> QED BY <2>3, <2>4 DEF GrantsPaired
<1>16. Persist(p, q)
  <2>1. DOMAIN p.cards \subseteq DOMAIN q.cards
    BY <1>6, <1>8
  <2> QED BY <1>8, <1>9, <2>1 DEF Persist
<1>17. Keeps(p, q)
  BY <1>7, <1>8, <1>13, <1>14, <1>15, <1>16 DEF Keeps, LogInv
<1> QED BY <1>8, <1>10, <1>11, <1>17 DEF q, CardOpened

\* The grant a retry is created under is marked with it, and nothing else.
LEMMA ConsumedIs ==
  ASSUME NEW p \in Projection, NEW row, row.retry \in Nat, row.retry # 0 => row.retry \in DOMAIN p.cards
  PROVE  LET u == Consumed(p, row)
         IN  /\ u \in Seq(Card) /\ DOMAIN u = DOMAIN p.cards
             /\ \A c \in DOMAIN p.cards :
                  /\ c # row.retry => u[c] = p.cards[c]
                  /\ u[c].call = p.cards[c].call /\ u[c].decision = p.cards[c].decision
                  /\ c = row.retry => u[c].consumer = Len(p.attempts) + 1
<1> DEFINE r == p.cards
           b == Len(p.attempts) + 1
           u == Consumed(p, row)
<1>1. /\ r \in Seq(Card) /\ b \in Nat /\ DOMAIN r = 1..Len(r) /\ Len(r) \in Nat
      /\ \A c \in DOMAIN r : r[c] \in Card
  BY ProjectionType
<1>2. CASE row.retry = 0
  <2>1. u = r
    BY <1>2 DEF Consumed
  <2>2. \A c \in DOMAIN r : c # row.retry
    BY <1>1, <1>2
  <2> HIDE DEF u, r, b
  <2>3. /\ u \in Seq(Card) /\ DOMAIN u = DOMAIN r
        /\ \A c \in DOMAIN r : /\ c # row.retry /\ u[c] = r[c]
    BY <1>1, <2>1, <2>2
  <2> QED BY <2>3 DEF u, r, b
<1>3. CASE row.retry # 0
  <2> DEFINE g == row.retry
             d == [r[g] EXCEPT !.consumer = b]
  <2>1. g \in DOMAIN r /\ r[g] \in Card
    BY <1>1, <1>3
  <2> HIDE DEF b
  <2>2. d \in Card /\ d.call = r[g].call /\ d.decision = r[g].decision /\ d.consumer = b
    BY <1>1, <2>1 DEF Card
  <2>3. u = [r EXCEPT ![g] = d]
    <3>1. u = [r EXCEPT ![g].consumer = b]
      BY <1>3, Zenon DEF Consumed, b
    <3> QED BY <3>1, Zenon
  <2> HIDE DEF d, r, u, g
  <2>4. LET w == [r EXCEPT ![g] = d]
        IN  /\ w \in Seq(Card) /\ DOMAIN w = DOMAIN r /\ Len(w) = Len(r) /\ w[g] = d
            /\ \A j \in DOMAIN r : j # g => w[j] = r[j]
    BY <1>1, <2>1, <2>2, ReplaceOne
  <2>5. /\ u \in Seq(Card) /\ DOMAIN u = DOMAIN r /\ u[g] = d
        /\ \A j \in DOMAIN r : j # g => u[j] = r[j]
    BY <2>3, <2>4
  <2>6. \A c \in DOMAIN r : /\ c # g => u[c] = r[c]
                            /\ u[c].call = r[c].call /\ u[c].decision = r[c].decision
                            /\ c = g => u[c].consumer = b
    <3> TAKE c \in DOMAIN r
    <3>1. CASE c = g
      BY <2>2, <2>5, <3>1
    <3>2. CASE c # g
      BY <2>5, <3>2
    <3> QED BY <3>1, <3>2
  <2> QED BY <2>5, <2>6 DEF r, u, g, b
<1> QED BY <1>2, <1>3

\* An attempt is created.
LEMMA CreateKeeps ==
  ASSUME NEW p, LogInv(p), p.readable, NEW row \in EventRow,
         row.type = "attempt_created", Fits(p, row), Warranted(p, row)
  PROVE  LET q == Applied(p, row)
         IN  Keeps(p, q) /\ Len(q.attempts) = Len(p.attempts) + 1
<1> DEFINE n == Len(p.attempts)
           b == n + 1
           a == NewAttempt(row)
           g == row.retry
           u == Append(p.attempts, a)
           v == Consumed(p, row)
           q == Applied(p, row)
<1>1. p \in Projection /\ CardsTrue(p) /\ GrantsPaired(p) /\ Compensates(p) /\ OneOwner(p)
  BY DEF LogInv
<1>2. /\ row.session \in Sessions /\ row.ident \in Operations
      /\ row.compensates \in Nat /\ g \in Nat /\ row.risk \in Nat /\ row.debt \in Debt
  BY DEF EventRow
<1>3. /\ row.compensates # 0 => Compensable(p, row.compensates, row.ident)
      /\ g # 0 => RetryFits(p, row)
      /\ row.risk # 0 => \A j \in Known(p) : p.attempts[j].risk # row.risk
  BY DEF RiskFits, Fits, CreationFits
<1>4. g # 0 => /\ g \in DOMAIN p.cards /\ p.cards[g].decision = "retry_authorized"
               /\ p.cards[g].consumer = 0 /\ State(p, p.cards[g].call) = "unknown"
  BY <1>3 DEF RetryFits
<1>5. row.compensates # 0 => row.compensates \in Known(p)
  BY <1>3 DEF Compensable, State
<1>6. q = [attempts |-> u, cards |-> v, readable |-> p.readable]
  <2>1. q = [p EXCEPT !.attempts = u, !.cards = v]
    BY Zenon DEF Applied
  <2> HIDE DEF q, u, v
  <2> QED BY <1>1, <2>1 DEF Projection
<1>7. /\ a \in Attempt /\ a.state = "dispatched" /\ a.session = row.session
      /\ a.ident = row.ident /\ a.past = <<>> /\ a.compensates = row.compensates /\ a.retry = g
      /\ a.risk = row.risk /\ a.accepted = accepted_attempt_ids(row.debt)
  <2>1. accepted_attempt_ids(row.debt) \in SUBSET Nat
    BY <1>2, AcceptedType
  <2> DEFINE w == accepted_attempt_ids(row.debt)
  <2>2. a = [state |-> "dispatched", session |-> row.session, ident |-> row.ident, past |-> <<>>,
             compensates |-> row.compensates, retry |-> g, risk |-> row.risk, accepted |-> w]
    BY DEF NewAttempt
  <2>3. <<>> \in Seq(Operations) /\ "dispatched" \in ATTEMPT_STATES
    BY DEF ATTEMPT_STATES
  <2> HIDE DEF w, a
  <2> QED BY <1>2, <2>1, <2>2, <2>3 DEF Attempt, w
<1>8. /\ u \in Seq(Attempt) /\ n \in Nat /\ Len(u) = b
      /\ DOMAIN p.attempts = 1..n /\ DOMAIN u = 1..b
      /\ u[b] = a /\ \A j \in DOMAIN p.attempts : u[j] = p.attempts[j]
  <2> DEFINE r == p.attempts
  <2>1. r \in Seq(Attempt)
    BY <1>1, ProjectionType
  <2> HIDE DEF a, r
  <2>2. LET w == Append(r, a)
        IN  /\ w \in Seq(Attempt) /\ Len(w) = Len(r) + 1 /\ Len(r) \in Nat
            /\ DOMAIN r = 1..Len(r) /\ DOMAIN w = 1..(Len(r) + 1)
            /\ w[Len(r) + 1] = a
            /\ \A j \in DOMAIN r : w[j] = r[j]
    BY <1>7, <2>1, AppendSeq
  <2> QED BY <2>2 DEF r
<1>9. /\ v \in Seq(Card) /\ DOMAIN v = DOMAIN p.cards
      /\ \A c \in DOMAIN p.cards :
           /\ c # g => v[c] = p.cards[c]
           /\ v[c].call = p.cards[c].call /\ v[c].decision = p.cards[c].decision
           /\ c = g => v[c].consumer = b
  BY <1>1, <1>2, <1>4, ConsumedIs
<1>10. q \in Projection
  <2> HIDE DEF u, v, q
  <2> QED BY <1>1, <1>6, <1>8, <1>9 DEF Projection
<1> HIDE DEF n, u, v, a
<1>11. q.attempts = u /\ q.cards = v /\ q.readable = p.readable
  <2> HIDE DEF q
  <2> QED BY <1>6
<1> HIDE DEF q, g
<1>12. /\ Known(p) = 1..n /\ Known(q) = 1..(n + 1) /\ b \notin Known(p)
       /\ Known(p) \subseteq Known(q) /\ b \in Known(q)
       /\ \A j \in Known(q) : j \in Known(p) \/ j = b
       /\ q.attempts[b] = a
       /\ \A j \in Known(p) : q.attempts[j] = p.attempts[j]
  BY <1>8, <1>11 DEF Known
<1>13. \A j : j \in Known(p) => State(q, j) = State(p, j) /\ ReleasedIn(q, j) = ReleasedIn(p, j)
  BY <1>12 DEF State, ReleasedIn
<1>14. \A j : CardsOf(q, j) = CardsOf(p, j)
  BY <1>9, <1>11 DEF CardsOf
<1>15. \A j : LatestDecision(q, j) = LatestDecision(p, j)
  <2> TAKE j
  <2>1. CASE CardsOf(p, j) = {}
    BY <1>14, <2>1 DEF LatestDecision
  <2>2. CASE CardsOf(p, j) # {}
    <3>1. Max(CardsOf(p, j)) \in DOMAIN p.cards
      BY <1>1, <2>2, LatestCard
    <3> QED BY <1>9, <1>11, <1>14, <2>2, <3>1 DEF LatestDecision
  <2> QED BY <2>1, <2>2
<1>16. \A j \in Known(p) : Blocks(q, j) => Blocks(p, j)
  <2> SUFFICES ASSUME NEW j \in Known(p), Blocks(q, j), ~Blocks(p, j) PROVE FALSE
    OBVIOUS
  <2>1. /\ State(p, j) = "unknown" /\ State(q, j) = "unknown"
        /\ LatestDecision(p, j) = "retry_authorized"
        /\ q.cards[Max(CardsOf(p, j))].consumer = 0
        /\ p.cards[Max(CardsOf(p, j))].consumer # 0
    BY <1>13, <1>14, <1>15 DEF Blocks
  <2>2. CardsOf(p, j) # {}
    BY <2>1 DEF LatestDecision
  <2>3. Max(CardsOf(p, j)) \in DOMAIN p.cards
    BY <1>1, <2>2, LatestCard
  <2> DEFINE m == Max(CardsOf(p, j))
  <2> HIDE DEF m
  <2>4. m = g
    BY <1>9, <1>11, <2>1, <2>3 DEF m
  <2>5. b # 0
    BY <1>8
  <2> QED BY <1>9, <1>11, <2>1, <2>3, <2>4, <2>5 DEF m
<1>17. \A j \in Known(p) : Blocks(q, j) /\ SameResource(ReleasedIn(q, j), ReleasedIn(q, b))
                             => row.compensates = j \/ j \in accepted_attempt_ids(row.debt)
  <2> SUFFICES ASSUME NEW j \in Known(p), Blocks(q, j),
                      SameResource(ReleasedIn(q, j), ReleasedIn(q, b)),
                      row.compensates # j, j \notin accepted_attempt_ids(row.debt)
               PROVE FALSE
    OBVIOUS
  <2>1. j \in blocking_attempts(p)
    BY <1>16 DEF blocking_attempts
  <2>2. ReleasedIn(q, b) = row.ident
    BY <1>7, <1>12 DEF ReleasedIn
  <2>3. SameResource(ReleasedIn(p, j), row.ident)
    BY <1>13, <2>2
  <2>4. ReleasedIn(p, j) \in Range(p.attempts[j].past) \cup {p.attempts[j].ident}
    <3>1. p.attempts[j].past \in Seq(Operations)
      BY <1>1, ProjectionType, AttemptType
    <3> DEFINE r == p.attempts[j].past
    <3> HIDE DEF r
    <3>2. r \in Seq(Operations) => r = <<>> \/ 1 \in DOMAIN r
      OBVIOUS
    <3> QED BY <3>1, <3>2 DEF ReleasedIn, Range, r
  <2>5. blocker_resource_match(p.attempts[j], row.ident)
    BY <2>3, <2>4 DEF blocker_resource_match
  <2>6. g # 0 /\ j = p.cards[g].call /\ g = Max(CardsOf(p, j))
    BY <2>1, <2>5 DEF Warranted, g
  <2>7. CardsOf(p, j) # {}
    BY <1>4, <2>6 DEF CardsOf
  <2>8. LatestDecision(q, j) = "retry_authorized"
    BY <1>4, <1>15, <2>6, <2>7 DEF LatestDecision
  <2>9. State(q, j) = "unknown"
    BY <1>4, <1>13, <2>6
  <2>10. q.cards[Max(CardsOf(q, j))].consumer = b /\ b # 0
    <3>1. Max(CardsOf(q, j)) = g
      BY <1>14, <2>6
    <3>2. v[g].consumer = b
      BY <1>4, <1>9, <2>6
    <3>3. b # 0
      BY <1>8
    <3> QED BY <1>11, <3>1, <3>2, <3>3
  <2> QED BY <2>8, <2>9, <2>10 DEF Blocks, InFlight
<1>18. OneOwner(q)
  <2>4. ASSUME NEW x \in Known(q), NEW y \in Known(q),
               q.attempts[x].risk = q.attempts[y].risk, q.attempts[x].risk # 0
        PROVE  x = y
    <3>1. ASSUME NEW j \in Known(p), q.attempts[j].risk = row.risk, row.risk # 0 PROVE FALSE
      BY <1>3, <1>12, <3>1
    <3>2. CASE x \in Known(p) /\ y \in Known(p)
      BY <1>1, <1>12, <2>4, <3>2 DEF OneOwner
    <3>3. q.attempts[b].risk = row.risk
      BY <1>7, <1>12
    <3> QED BY <1>12, <2>4, <3>1, <3>2, <3>3
  <2> SUFFICES ASSUME NEW x \in Known(q), NEW y \in Known(q), x < y, Blocks(q, x), Blocks(q, y),
                      SameResource(ReleasedIn(q, x), ReleasedIn(q, y))
               PROVE  q.attempts[y].compensates = x \/ x \in q.attempts[y].accepted
    BY <2>4 DEF OneOwner
  <2>1. x \in Known(p)
    BY <1>8, <1>12
  <2>2. CASE y = b
    BY <1>7, <1>12, <1>17, <2>1, <2>2
  <2>3. CASE y \in Known(p)
    <3>1. Blocks(p, x) /\ Blocks(p, y)
      BY <1>16, <2>1, <2>3
    <3>2. SameResource(ReleasedIn(p, x), ReleasedIn(p, y))
      BY <1>13, <2>1, <2>3
    <3>3. p.attempts[y].compensates = x \/ x \in p.attempts[y].accepted
      BY <1>1, <2>1, <2>3, <3>1, <3>2 DEF OneOwner
    <3> QED BY <1>12, <2>3, <3>3
  <2> QED BY <1>12, <2>2, <2>3
<1>19. Compensates(q)
  <2> SUFFICES ASSUME NEW y \in Known(q), q.attempts[y].compensates # 0
               PROVE  q.attempts[y].compensates \in Known(q)
    BY DEF Compensates
  <2>1. CASE y = b
    BY <1>5, <1>7, <1>12, <2>1
  <2>2. CASE y \in Known(p)
    BY <1>1, <1>12, <2>2 DEF Compensates
  <2> QED BY <1>12, <2>1, <2>2
<1>20. CardsTrue(q)
  <2> SUFFICES ASSUME NEW c \in DOMAIN p.cards
               PROVE  /\ p.cards[c].call \in Known(q)
                      /\ p.cards[c].decision \in Settling =>
                           State(q, p.cards[c].call) \in SettledStates
                      /\ p.cards[c].decision = "system_compensated" =>
                           \E h \in Known(q) : /\ q.attempts[h].compensates = p.cards[c].call
                                               /\ State(q, h) = "system_verified"
    BY <1>9, <1>11 DEF CardsTrue
  <2>1. p.cards[c].call \in Known(p)
    BY <1>1 DEF CardsTrue
  <2>2. p.cards[c].decision \in Settling => State(p, p.cards[c].call) \in SettledStates
    BY <1>1 DEF CardsTrue
  <2>3. ASSUME p.cards[c].decision = "system_compensated"
        PROVE  \E h \in Known(q) : /\ q.attempts[h].compensates = p.cards[c].call
                                   /\ State(q, h) = "system_verified"
    <3>1. PICK h \in Known(p) : /\ p.attempts[h].compensates = p.cards[c].call
                                /\ State(p, h) = "system_verified"
      BY <1>1, <2>3 DEF CardsTrue
    <3> QED BY <1>12, <1>13, <3>1
  <2> QED BY <1>12, <1>13, <2>1, <2>2, <2>3
<1>21. GrantsPaired(q)
  <2>1. \A k \in Known(q) : q.attempts[k].retry # 0 =>
          /\ q.attempts[k].retry \in DOMAIN q.cards
          /\ q.cards[q.attempts[k].retry].consumer = k
    <3> SUFFICES ASSUME NEW k \in Known(q), q.attempts[k].retry # 0
                 PROVE  /\ q.attempts[k].retry \in DOMAIN q.cards
                        /\ q.cards[q.attempts[k].retry].consumer = k
      OBVIOUS
    <3>1. CASE k = b
      BY <1>4, <1>7, <1>9, <1>11, <1>12, <3>1
    <3>2. CASE k \in Known(p)
      <4> DEFINE c == p.attempts[k].retry
      <4>1. c # 0 /\ q.attempts[k].retry = c
        BY <1>12, <3>2
      <4>2. c \in DOMAIN p.cards /\ p.cards[c].consumer = k
        BY <1>1, <3>2, <4>1 DEF GrantsPaired
      <4>3. k # 0
        BY <1>8, <1>12, <3>2
      <4>4. c # g
        BY <1>4, <4>1, <4>2, <4>3
      <4> HIDE DEF c
      <4> QED BY <1>9, <1>11, <4>1, <4>2, <4>4
    <3> QED BY <1>12, <3>1, <3>2
  <2>2. \A c \in DOMAIN q.cards : q.cards[c].consumer # 0 =>
          /\ q.cards[c].consumer \in Known(q)
          /\ q.attempts[q.cards[c].consumer].retry = c
    <3> SUFFICES ASSUME NEW c \in DOMAIN p.cards, q.cards[c].consumer # 0
                 PROVE  /\ q.cards[c].consumer \in Known(q)
                        /\ q.attempts[q.cards[c].consumer].retry = c
      BY <1>9, <1>11
    <3>1. CASE c = g
      BY <1>7, <1>9, <1>11, <1>12, <3>1
    <3>2. CASE c # g
      <4>1. q.cards[c].consumer = p.cards[c].consumer
        BY <1>9, <1>11, <3>2
      <4>2. p.cards[c].consumer \in Known(p) /\ p.attempts[p.cards[c].consumer].retry = c
        BY <1>1, <4>1 DEF GrantsPaired
      <4> QED BY <1>12, <4>1, <4>2
    <3> QED BY <3>1, <3>2
  <2> QED BY <2>1, <2>2 DEF GrantsPaired
<1>22. Persist(p, q)
  <2>1. DOMAIN q.cards = DOMAIN p.cards /\ \A c \in DOMAIN p.cards : q.cards[c].call = p.cards[c].call
    BY <1>9, <1>11
  <2> QED BY <1>11, <1>12, <2>1 DEF Persist
<1>23. Keeps(p, q)
  BY <1>10, <1>11, <1>18, <1>19, <1>20, <1>21, <1>22 DEF Keeps, LogInv
<1>24. Len(q.attempts) = Len(p.attempts) + 1
  BY <1>8, <1>11 DEF n
<1> QED BY <1>23, <1>24 DEF q

\* The types of row, one by one.
LEMMA RowTypes ==
  ASSUME NEW row \in EventRow
  PROVE  \/ row.type = "attempt_created"
         \/ \E k \in Nat, s \in ATTEMPT_STATES : row = Moved(k, s)
         \/ \E k \in Nat, i \in Operations : row = Rebound(k, i)
         \/ \E k \in Nat, b \in BOOLEAN : row = Opened(k, b)
         \/ row.type = "intervention_resolved"
         \/ \E c \in Nat : row = Probed(c)
<1>1. CASE row \in [type : {"attempt_created"}, session : Sessions, ident : Operations,
                    compensates : Nat, retry : Nat, risk : Nat, debt : Debt]
  BY <1>1
<1>2. CASE row \in [type : {"attempt_transitioned"}, call : Nat, state : ATTEMPT_STATES]
  <2>1. row = Moved(row.call, row.state) /\ row.call \in Nat /\ row.state \in ATTEMPT_STATES
    BY <1>2 DEF Moved
  <2> QED BY <2>1, Zenon
<1>3. CASE row \in [type : {"attempt_target_resolved"}, call : Nat, ident : Operations]
  <2>1. row = Rebound(row.call, row.ident) /\ row.call \in Nat /\ row.ident \in Operations
    BY <1>3 DEF Rebound
  <2> QED BY <2>1, Zenon
<1>4. CASE row \in [type : {"intervention_opened"}, call : Nat, recovery : BOOLEAN]
  <2>1. row = Opened(row.call, row.recovery) /\ row.call \in Nat /\ row.recovery \in BOOLEAN
    BY <1>4 DEF Opened
  <2> QED BY <2>1, Zenon
<1>5. CASE row \in [type : {"intervention_resolved"}, card : Nat,
                    decision : RESOLUTION_DECISIONS, lane : Sessions, compensator : Nat]
  BY <1>5
<1>6. CASE row \in [type : {"reprobe_consumed"}, card : Nat]
  <2>1. row = Probed(row.card) /\ row.card \in Nat
    BY <1>6 DEF Probed
  <2> QED BY <2>1, Zenon
<1> QED BY <1>1, <1>2, <1>3, <1>4, <1>5, <1>6 DEF EventRow

\* What a row is appended under.
Allowed(p, row) == p.readable /\ Fits(p, row) => Warranted(p, row)

\* q may be reached from p by rows of which at most g create an attempt.
Reached(p, q, g) ==
  LogInv(q) /\ Persist(p, q) /\ Len(q.attempts) <= Len(p.attempts) + g

\* A log that cannot be read.
LEMMA UnreadableInv ==
  LogInv(Unreadable) /\ ~Unreadable.readable /\ Len(Unreadable.attempts) = 0
<1> DEFINE u == Unreadable
<1> DEFINE e == EmptyLog
<1>1. e \in Projection /\ e.attempts = <<>> /\ e.cards = <<>>
  <2>1. <<>> \in Seq(Attempt) /\ <<>> \in Seq(Card)
    OBVIOUS
  <2> QED BY <2>1 DEF Projection, EmptyLog
<1>2. u = [e EXCEPT !.readable = FALSE]
  BY DEF Unreadable
<1> HIDE DEF u, e
<1>3. u \in Projection /\ u.attempts = <<>> /\ u.cards = <<>> /\ ~u.readable
  BY <1>1, <1>2 DEF Projection
<1>4. Known(u) = {} /\ DOMAIN u.cards = {} /\ Len(u.attempts) = 0
  BY <1>3 DEF Known
<1>5. LogInv(u)
  BY <1>3, <1>4 DEF LogInv, CardsTrue, GrantsPaired, Compensates, OneOwner
<1> QED BY <1>3, <1>4, <1>5 DEF u

\* As many attempts as before, one more, or none at all.
LEMMA SameReached ==
  ASSUME NEW p, LogInv(p), NEW q, LogInv(q), Persist(p, q),
         Len(q.attempts) = Len(p.attempts), NEW g \in Nat
  PROVE  Reached(p, q, g)
<1>1. Len(p.attempts) \in Nat
  BY ProjectionType DEF LogInv
<1>2. \A n \in Nat : n <= n + g
  OBVIOUS
<1>3. Len(q.attempts) <= Len(p.attempts) + g
  BY <1>1, <1>2, Zenon
<1> QED BY <1>3 DEF Reached

\* One more attempt is within any budget but 0.
LEMMA NewReached ==
  ASSUME NEW p, LogInv(p), NEW q, LogInv(q), Persist(p, q),
         Len(q.attempts) = Len(p.attempts) + 1, NEW g \in Nat, g # 0
  PROVE  Reached(p, q, g)
<1>1. Len(p.attempts) \in Nat
  BY ProjectionType DEF LogInv
<1>2. \A n \in Nat : n + 1 <= n + g
  OBVIOUS
<1>3. Len(q.attempts) <= Len(p.attempts) + g
  BY <1>1, <1>2, Zenon
<1> QED BY <1>3 DEF Reached

\* A line that cannot be read is within every budget.
LEMMA LostReached ==
  ASSUME NEW p, LogInv(p), NEW g \in Nat
  PROVE  Reached(p, Unreadable, g)
<1>1. Len(p.attempts) \in Nat
  BY ProjectionType DEF LogInv
<1>2. \A n \in Nat : 0 <= n + g
  OBVIOUS
<1>3. Len(Unreadable.attempts) <= Len(p.attempts) + g
  BY <1>1, <1>2, UnreadableInv, Zenon
<1>4. Persist(p, Unreadable)
  BY UnreadableInv DEF Persist
<1> QED BY <1>3, <1>4, UnreadableInv DEF Reached

\* Every row keeps the invariant, and takes nothing back.
LEMMA RowKeeps ==
  ASSUME NEW p, LogInv(p), NEW row \in EventRow, Allowed(p, row), NEW g \in Nat,
         row.type = "attempt_created" => g # 0
  PROVE  Reached(p, apply_event(p, row), g)
<1> DEFINE q == apply_event(p, row)
<1>1. CASE ~p.readable
  <2>1. q = p
    BY <1>1 DEF apply_event
  <2>2. Persist(p, p)
    BY DEF Persist
  <2>3. Reached(p, p, g)
    BY <2>2, SameReached
  <2> QED BY <2>1, <2>3
<1>2. CASE p.readable /\ ~Fits(p, row)
  <2>1. q = Unreadable
    BY <1>2 DEF apply_event
  <2> QED BY <2>1, LostReached
<1>3. CASE p.readable /\ Fits(p, row)
  <2>1. q = Applied(p, row) /\ Warranted(p, row)
    BY <1>3 DEF apply_event, Allowed
  <2>2. ASSUME Keeps(p, q), Len(q.attempts) = Len(p.attempts)
        PROVE  Reached(p, q, g)
    <3> HIDE DEF q
    <3> QED BY <2>2, SameReached DEF Keeps
  <2>3. CASE row.type = "attempt_created"
    <3>1. Keeps(p, q) /\ Len(q.attempts) = Len(p.attempts) + 1
      BY <1>3, <2>1, <2>3, CreateKeeps
    <3>2. g # 0
      BY <2>3
    <3> HIDE DEF q
    <3>3. LogInv(q) /\ Persist(p, q)
      BY <3>1 DEF Keeps
    <3>4. Reached(p, q, g)
      BY <3>1, <3>2, <3>3, NewReached
    <3> QED BY <3>4 DEF q
  <2>4. ASSUME NEW k \in Nat, NEW s \in ATTEMPT_STATES, row = Moved(k, s)
        PROVE  Reached(p, q, g)
    <3>1. q = Applied(p, Moved(k, s)) /\ Fits(p, Moved(k, s))
      BY <1>3, <2>1, <2>4
    <3> HIDE DEF q
    <3> QED BY <1>3, <2>2, <3>1, MoveKeeps DEF Keeps
  <2>5. ASSUME NEW k \in Nat, NEW i \in Operations, row = Rebound(k, i)
        PROVE  Reached(p, q, g)
    <3>1. q = Applied(p, Rebound(k, i)) /\ Fits(p, Rebound(k, i))
      BY <1>3, <2>1, <2>5
    <3> HIDE DEF q
    <3> QED BY <1>3, <2>2, <3>1, RebindKeeps
  <2>6. ASSUME NEW k \in Nat, NEW b \in BOOLEAN, row = Opened(k, b)
        PROVE  Reached(p, q, g)
    <3>1. q = Applied(p, Opened(k, b)) /\ Fits(p, Opened(k, b)) /\ Warranted(p, Opened(k, b))
      BY <1>3, <2>1, <2>6
    <3> HIDE DEF q
    <3> QED BY <1>3, <2>2, <3>1, OpenKeeps
  <2>7. CASE row.type = "intervention_resolved"
    <3>1. Keeps(p, q) /\ Len(q.attempts) = Len(p.attempts)
      BY <1>3, <2>1, <2>7, ResolveKeeps
    <3> QED BY <2>2, <3>1
  <2>8. ASSUME NEW c \in Nat, row = Probed(c)
        PROVE  Reached(p, q, g)
    <3>1. q = Applied(p, Probed(c))
      BY <1>3, <2>1, <2>8
    <3>2. c \in DOMAIN p.cards
      BY <2>1, <2>8 DEF Warranted, Probed
    <3> HIDE DEF q
    <3> QED BY <1>3, <2>2, <3>1, <3>2, ProbeKeeps
  <2> HIDE DEF q
  <2> QED BY <2>3, <2>4, <2>5, <2>6, <2>7, <2>8, RowTypes, Zenon DEF q
<1> HIDE DEF q
<1>4. Reached(p, q, g)
  BY <1>1, <1>2, <1>3, Zenon DEF q
<1> QED BY <1>4 DEF q
-----------------------------------------------------------------------------
(* Lists of rows *)

\* What is taken back by none of several rows is kept by all.
LEMMA PersistTrans ==
  ASSUME NEW p, NEW q, NEW r, Persist(p, q), Persist(q, r)
  PROVE  Persist(p, r)
<1> SUFFICES ASSUME r.readable PROVE Persist(p, r)
  BY DEF Persist
<1>1. q.readable /\ p.readable
  BY DEF Persist
<1>2. Known(p) \subseteq Known(q) /\ Known(q) \subseteq Known(r)
  BY <1>1 DEF Persist
<1>3. DOMAIN p.cards \subseteq DOMAIN q.cards /\ DOMAIN q.cards \subseteq DOMAIN r.cards
  BY <1>1 DEF Persist
<1>4. ASSUME NEW k \in Known(p)
      PROVE  /\ r.attempts[k].session = p.attempts[k].session
             /\ r.attempts[k].compensates = p.attempts[k].compensates
             /\ r.attempts[k].retry = p.attempts[k].retry
             /\ p.attempts[k].state \in SettledStates => r.attempts[k].state = p.attempts[k].state
  BY <1>1, <1>2 DEF Persist
<1>5. ASSUME NEW c \in DOMAIN p.cards
      PROVE  r.cards[c].call = p.cards[c].call
  BY <1>1, <1>3 DEF Persist
<1> QED BY <1>1, <1>2, <1>3, <1>4, <1>5 DEF Persist

\* A log that stays as it is takes nothing back.
LEMMA PersistSelf ==
  ASSUME NEW p
  PROVE  Persist(p, p)
BY DEF Persist

\* However many of the rows are written, what they make of p is reached from it.
Good(p, rows, g) ==
  /\ rows \in Seq(EventRow)
  /\ \A n \in 0..Len(rows) : Reached(p, replay(p, SubSeq(rows, 1, n)), g)

\* All of the rows may be written.
LEMMA GoodEnd ==
  ASSUME NEW p, NEW rows, NEW g, Good(p, rows, g)
  PROVE  Reached(p, replay(p, rows), g)
<1>1. rows \in Seq(EventRow)
  BY DEF Good
<1>2. Len(rows) \in 0..Len(rows) /\ SubSeq(rows, 1, Len(rows)) = rows
  BY <1>1
<1> QED BY <1>2 DEF Good

\* No rows are good.
LEMMA GoodNone ==
  ASSUME NEW p, LogInv(p), NEW g \in Nat
  PROVE  Good(p, <<>>, g)
<1>1. <<>> \in Seq(EventRow) /\ Len(<<>>) = 0 /\ SubSeq(<<>>, 1, 0) = <<>>
  OBVIOUS
<1>4. Reached(p, replay(p, <<>>), g)
  BY PersistSelf, ReplayNone, SameReached
<1>5. \A n \in 0..0 : n = 0
  OBVIOUS
<1> QED BY <1>1, <1>4, <1>5 DEF Good

\* The prefixes of a list of one.
LEMMA OneRow ==
  ASSUME NEW T, NEW x \in T
  PROVE  /\ <<x>> \in Seq(T) /\ Len(<<x>>) = 1
         /\ SubSeq(<<x>>, 1, 0) = <<>> /\ SubSeq(<<x>>, 1, 1) = <<x>>
<1>1. <<x>> \in Seq(T) /\ Len(<<x>>) = 1
  OBVIOUS
<1>2. SubSeq(<<x>>, 1, 0) = <<>>
  OBVIOUS
<1>3. SubSeq(<<x>>, 1, 1) = <<x>>
  <2> DEFINE r == <<x>>
  <2>1. r \in Seq(T) /\ Len(r) = 1
    OBVIOUS
  <2> HIDE DEF r
  <2>2. SubSeq(r, 1, Len(r)) = r
    BY <2>1
  <2> QED BY <2>1, <2>2 DEF r
<1> QED BY <1>1, <1>2, <1>3

\* A row that is warranted is good.
LEMMA GoodOne ==
  ASSUME NEW p, LogInv(p), NEW row \in EventRow, Allowed(p, row), NEW g \in Nat,
         row.type = "attempt_created" => g # 0
  PROVE  Good(p, <<row>>, g)
<1> DEFINE one == <<row>>
<1>1. /\ one \in Seq(EventRow) /\ Len(one) = 1
      /\ SubSeq(one, 1, 0) = <<>> /\ SubSeq(one, 1, 1) = one
  BY OneRow
<1>2. Good(p, <<>>, g)
  BY GoodNone
<1>3. Reached(p, replay(p, <<>>), g)
  BY <1>2, GoodEnd
<1> DEFINE q == apply_event(p, row)
<1>4. replay(p, one) = q
  BY ReplayOne
<1>5. Reached(p, q, g)
  BY RowKeeps
<1> HIDE DEF q, one
<1>6. \A n \in 0..1 : n = 0 \/ n = 1
  OBVIOUS
<1>7. Good(p, one, g)
  BY <1>1, <1>3, <1>4, <1>5, <1>6 DEF Good
<1> QED BY <1>7 DEF one

\* Reaching on from what was reached.
LEMMA ReachedOn ==
  ASSUME NEW p, NEW q, NEW r, NEW g \in Nat, LogInv(p), Reached(p, q, g), Reached(q, r, 0)
  PROVE  Reached(p, r, g)
<1>1. Persist(p, r)
  BY PersistTrans DEF Reached
<1>2. Len(p.attempts) \in Nat /\ Len(q.attempts) \in Nat /\ Len(r.attempts) \in Nat
  BY ProjectionType DEF LogInv, Reached
<1> QED BY <1>1, <1>2 DEF Reached

\* Good rows after good rows are good, if only the first create attempts.
LEMMA GoodConcat ==
  ASSUME NEW p, LogInv(p), NEW r1, NEW r2, NEW g \in Nat,
         Good(p, r1, g), Good(replay(p, r1), r2, 0)
  PROVE  Good(p, r1 \o r2, g)
<1>1. r1 \in Seq(EventRow) /\ r2 \in Seq(EventRow)
  BY DEF Good
<1> DEFINE q == replay(p, r1)
           w == r1 \o r2
<1>2. w \in Seq(EventRow)
  BY <1>1
<1>3. Reached(p, q, g)
  BY GoodEnd
<1>4. ASSUME NEW n \in 0..Len(w)
      PROVE  Reached(p, replay(p, SubSeq(w, 1, n)), g)
  <2>1. CASE n \in 0..Len(r1) /\ SubSeq(w, 1, n) = SubSeq(r1, 1, n)
    BY <2>1 DEF Good
  <2> DEFINE m == n - Len(r1)
             f == SubSeq(r2, 1, m)
  <2>2. CASE m \in 0..Len(r2) /\ f \in Seq(EventRow) /\ SubSeq(w, 1, n) = r1 \o f
    <3>1. replay(p, r1 \o f) = replay(q, f)
      <4> HIDE DEF f
      <4> QED BY <1>1, <2>2, ReplayConcat
    <3>2. Reached(q, replay(q, f), 0)
      <4> HIDE DEF q
      <4> QED BY <2>2 DEF Good, q
    <3> HIDE DEF f, w, q
    <3> QED BY <1>3, <2>2, <3>1, <3>2, ReachedOn
  <2> QED BY <1>1, <2>1, <2>2, PrefixOfConcat
<1> HIDE DEF w
<1>5. Good(p, w, g)
  BY <1>2, <1>4 DEF Good
<1> QED BY <1>5 DEF w

\* One more row.
LEMMA GoodThen ==
  ASSUME NEW p, LogInv(p), NEW rows, NEW g \in Nat, Good(p, rows, g),
         NEW row \in EventRow, row.type # "attempt_created", Allowed(replay(p, rows), row)
  PROVE  Good(p, rows \o <<row>>, g)
<1>1. LogInv(replay(p, rows))
  BY GoodEnd DEF Reached
<1>2. Good(replay(p, rows), <<row>>, 0)
  BY <1>1, GoodOne
<1> QED BY <1>2, GoodConcat

\* What a move that was accepted leaves.
LEMMA MovedOn ==
  ASSUME NEW p, LogInv(p), NEW k \in Nat, NEW s \in ATTEMPT_STATES
  PROVE  LET q == replay(p, <<Moved(k, s)>>)
         IN  /\ Good(p, <<Moved(k, s)>>, 0)
             /\ LogInv(q) /\ Persist(p, q)
             /\ q.readable => /\ State(q, k) = s /\ q.cards = p.cards
                              /\ LatestDecision(q, k) = LatestDecision(p, k)
<1> DEFINE row == Moved(k, s)
           q == replay(p, <<row>>)
<1>1. row \in EventRow /\ row.type = "attempt_transitioned"
  BY DEF EventRow, Moved
<1>2. Allowed(p, row)
  BY <1>1 DEF Allowed, Warranted
<1>3. Good(p, <<row>>, 0)
  BY <1>1, <1>2, GoodOne
<1>4. LogInv(q) /\ Persist(p, q)
  BY <1>3, GoodEnd DEF Reached
<1>5. q = apply_event(p, row)
  BY ReplayOne
<1>6. ASSUME q.readable
      PROVE  /\ State(q, k) = s /\ q.cards = p.cards
             /\ LatestDecision(q, k) = LatestDecision(p, k)
  <2>1. p.readable
    BY <1>4, <1>6 DEF Persist
  <2>2. Fits(p, row)
    BY <1>5, <1>6, <2>1, UnreadableInv DEF apply_event
  <2>3. q = Applied(p, row)
    BY <1>5, <2>1, <2>2 DEF apply_event
  <2>4. q.cards = p.cards /\ q.attempts[k].state = s
    <3> HIDE DEF q
    <3> QED BY <2>1, <2>2, <2>3, MoveKeeps
  <2>5. k \in Known(p)
    BY <2>2 DEF Fits, Moved, TRANSITIONS, State, InFlight
  <2>6. k \in Known(q)
    BY <1>4, <1>6, <2>5 DEF Persist
  <2> HIDE DEF q
  <2> QED BY <2>4, <2>6 DEF State, LatestDecision, CardsOf
<1> HIDE DEF q, row
<1>7. /\ Good(p, <<row>>, 0) /\ LogInv(q) /\ Persist(p, q)
      /\ q.readable => /\ State(q, k) = s /\ q.cards = p.cards
                       /\ LatestDecision(q, k) = LatestDecision(p, k)
  BY <1>3, <1>4, <1>6
<1> QED BY <1>7 DEF q, row

\* The specs of an unknown outcome, appended where the call's cards are still
\* what they were when the specs were made.
LEMMA UnknownSpecsGood ==
  ASSUME NEW p, NEW q, LogInv(q), NEW k \in Nat,
         q.readable => LatestDecision(q, k) = LatestDecision(p, k)
  PROVE  Good(q, unknown_specs(p, k), 0)
<1>1. CASE LatestDecision(p, k) \notin {"none", "reprobe_authorized"}
  BY <1>1, GoodNone DEF unknown_specs
<1>2. CASE LatestDecision(p, k) \in {"none", "reprobe_authorized"}
  <2> DEFINE row == Opened(k, FALSE)
  <2>1. row \in EventRow /\ row.type = "intervention_opened"
    BY DEF EventRow, Opened
  <2>2. ASSUME NEW r, r.readable => LatestDecision(r, k) \in {"none", "reprobe_authorized"}
        PROVE  Allowed(r, row)
    BY <2>1, <2>2 DEF Allowed, Warranted, Opened
  <2>3. CASE State(p, k) = "unknown"
    <3>1. unknown_specs(p, k) = <<>> \o <<row>>
      BY <1>2, <2>3 DEF unknown_specs
    <3>2. <<>> \o <<row>> = <<row>>
      OBVIOUS
    <3>3. Allowed(q, row)
      BY <1>2, <2>2
    <3>4. Good(q, <<row>>, 0)
      <4> HIDE DEF row
      <4> QED BY <2>1, <3>3, GoodOne
    <3> QED BY <3>1, <3>2, <3>4
  <2>4. CASE State(p, k) # "unknown"
    <3> DEFINE first == <<Moved(k, "unknown")>>
               r == replay(q, first)
    <3>1. unknown_specs(p, k) = first \o <<row>>
      BY <1>2, <2>4 DEF unknown_specs
    <3>2. /\ Good(q, first, 0) /\ Persist(q, r)
          /\ r.readable => LatestDecision(r, k) = LatestDecision(q, k)
      <4>1. "unknown" \in ATTEMPT_STATES
        BY DEF ATTEMPT_STATES
      <4> QED BY <4>1, MovedOn
    <3>3. r.readable => q.readable
      BY <3>2 DEF Persist
    <3>4. Allowed(r, row)
      BY <1>2, <2>2, <3>2, <3>3
    <3> HIDE DEF row, first
    <3>5. Good(q, first \o <<row>>, 0)
      BY <2>1, <3>2, <3>4, GoodThen
    <3> QED BY <3>1, <3>5
  <2> QED BY <2>3, <2>4
<1> QED BY <1>1, <1>2

\* A move that is or is not appended.
LEMMA MaybeMoved ==
  ASSUME NEW p, LogInv(p), NEW k \in Nat, NEW s \in ATTEMPT_STATES, NEW rows,
         rows \in {<<>>, <<Moved(k, s)>>}
  PROVE  Good(p, rows, 0)
BY GoodNone, MovedOn

\* The rows of a result.
LEMMA ResultRowsGood ==
  ASSUME NEW p, NEW q, LogInv(q), NEW k \in Nat, NEW success \in BOOLEAN,
         q.readable => LatestDecision(q, k) = LatestDecision(p, k)
  PROVE  Good(q, ResultRows(p, k, success), 0)
<1>1. CASE State(p, k) \in SettledStates
  BY <1>1, GoodNone DEF ResultRows
<1>2. CASE State(p, k) \notin SettledStates /\ ~success
  BY <1>2, UnknownSpecsGood DEF ResultRows
<1>3. CASE State(p, k) \notin SettledStates /\ success
  <2> DEFINE A == IF State(p, k) = "dispatched" THEN <<Moved(k, "accepted")>> ELSE <<>>
             B == IF State(p, k) \in {"dispatched", "accepted"}
                  THEN <<Moved(k, "verifying")>> ELSE <<>>
  <2>1. ResultRows(p, k, success) = A \o B
    BY <1>3 DEF ResultRows
  <2>2. "accepted" \in ATTEMPT_STATES /\ "verifying" \in ATTEMPT_STATES
    BY DEF ATTEMPT_STATES
  <2>3. A \in {<<>>, <<Moved(k, "accepted")>>} /\ B \in {<<>>, <<Moved(k, "verifying")>>}
    OBVIOUS
  <2> HIDE DEF A, B
  <2>4. Good(q, A, 0)
    BY <2>2, <2>3, MaybeMoved
  <2>5. LogInv(replay(q, A))
    BY <2>4, GoodEnd DEF Reached
  <2>6. Good(replay(q, A), B, 0)
    BY <2>2, <2>3, <2>5, MaybeMoved
  <2>7. Good(q, A \o B, 0)
    BY <2>4, <2>6, GoodConcat
  <2> QED BY <2>1, <2>7
<1> QED BY <1>1, <1>2, <1>3

\* The system closes the oldest open card of a call, if it has one.
LEMMA SystemResolvesGood ==
  ASSUME NEW p, LogInv(p), NEW q, LogInv(q), Persist(p, q), NEW k \in Nat,
         NEW decision \in {"system_verified", "system_compensated"}, NEW h \in Nat,
         decision = "system_verified" /\ q.readable => State(q, k) \in SettledStates
  PROVE  Good(q, ResolvedBySystem(p, k, decision, h), 0)
<1>1. CASE k = 0 \/ OpenCards(p, k) = {}
  BY <1>1, GoodNone DEF ResolvedBySystem
<1>2. CASE k # 0 /\ OpenCards(p, k) # {}
  <2> DEFINE c == Min(OpenCards(p, k))
             row == Resolved(c, decision, p.cards[c].lane, h)
  <2>1. ResolvedBySystem(p, k, decision, h) = <<row>>
    BY <1>2 DEF ResolvedBySystem
  <2>2. OpenCards(p, k) \in SUBSET Nat
    BY ProjectionType DEF OpenCards, CardsOf, LogInv
  <2>3. c \in OpenCards(p, k)
    BY <1>2, <2>2, MinIsLeast
  <2> HIDE DEF c
  <2>4. c \in Nat /\ c \in DOMAIN p.cards /\ p.cards[c].call = k
    BY <2>2, <2>3 DEF OpenCards, CardsOf
  <2>5. p.cards[c].lane \in Sessions
    BY <2>4, ProjectionType, CardType DEF LogInv
  <2>6. /\ row \in EventRow /\ row.type = "intervention_resolved"
        /\ row.card = c /\ row.decision = decision
    BY <2>4, <2>5 DEF EventRow, Resolved, RESOLUTION_DECISIONS
  <2>7. q.readable => c \in DOMAIN q.cards /\ q.cards[c].call = k
    BY <2>4 DEF Persist
  <2>8. Allowed(q, row)
    BY <2>6, <2>7 DEF Allowed, Warranted, Settling, Attestations
  <2> HIDE DEF row
  <2>9. Good(q, <<row>>, 0)
    BY <2>6, <2>8, GoodOne
  <2> QED BY <2>1, <2>9
<1> QED BY <1>1, <1>2

\* The rows of a proof, made in p and appended in q.
LEMMA ProofRowsGood ==
  ASSUME NEW p, LogInv(p), NEW q, LogInv(q), Persist(p, q), NEW k \in Known(p)
  PROVE  Good(q, ProofRows(p, k), 0)
<1> DEFINE A == <<Moved(k, "system_verified")>>
           B == ResolvedBySystem(p, k, "system_verified", 0)
           e == p.attempts[k].compensates
           C == ResolvedBySystem(p, e, "system_compensated", k)
           qa == replay(q, A)
           qb == replay(q, A \o B)
<1>1. k \in Nat /\ e \in Nat
  BY ProjectionType, AttemptType DEF LogInv
<1>2. "system_verified" \in ATTEMPT_STATES /\ "system_verified" \in SettledStates
  BY DEF ATTEMPT_STATES, SettledStates, ACTIVE_ATTEMPT_STATES, InFlight
<1>3. /\ Good(q, A, 0) /\ LogInv(qa) /\ Persist(q, qa)
      /\ qa.readable => State(qa, k) = "system_verified"
  BY <1>1, <1>2, MovedOn
<1> HIDE DEF A, qa
<1>4. Persist(p, qa)
  BY <1>3, PersistTrans
<1>5. Good(qa, B, 0)
  BY <1>1, <1>2, <1>3, <1>4, SystemResolvesGood
<1> HIDE DEF B
<1>6. Good(q, A \o B, 0)
  BY <1>3, <1>5, GoodConcat DEF qa
<1>7. LogInv(qb) /\ Persist(q, qb)
  BY <1>6, GoodEnd DEF Reached
<1> HIDE DEF qb
<1>8. Persist(p, qb)
  BY <1>7, PersistTrans
<1>9. Good(qb, C, 0)
  <2> HIDE DEF e
  <2> QED BY <1>1, <1>7, <1>8, SystemResolvesGood
<1> HIDE DEF C
<1>10. Good(q, (A \o B) \o C, 0)
  BY <1>6, <1>9, GoodConcat DEF qb
<1>11. ProofRows(p, k) = (A \o B) \o C
  BY DEF ProofRows, A, B, C
<1> QED BY <1>10, <1>11

\* The inductive invariant: the log's, and that there are no more attempts than
\* were paid for, which keeps the contract's lists within Calls.
EffectInv ==
  /\ EffectTypeOK
  /\ LogInv(log)
  /\ Len(log.attempts) <= spent

\* The rows that cost are finitely many; one that costs is counted.
LEMMA CostType ==
  ASSUME NEW rows \in Seq(EventRow)
  PROVE  Cost(rows) \in Nat /\ \A n \in DOMAIN rows : Costly(rows[n]) => 1 <= Cost(rows)
<1> DEFINE S == {n \in DOMAIN rows : Costly(rows[n])}
<1>1. DOMAIN rows = 1..Len(rows) /\ Len(rows) \in Nat
  OBVIOUS
<1>2. IsFiniteSet(S)
  <2>1. IsFiniteSet(1..Len(rows))
    BY <1>1, FS_Interval
  <2> QED BY <1>1, <2>1, FS_Subset
<1>3. Cardinality(S) \in Nat /\ (Cardinality(S) = 0 <=> S = {})
  <2> HIDE DEF S
  <2> QED BY <1>2, FS_CardinalityType, FS_EmptySet
<1>4. Cost(rows) = Cardinality(S)
  BY DEF Cost
<1>5. \A n \in DOMAIN rows : Costly(rows[n]) => S # {}
  OBVIOUS
<1> HIDE DEF S
<1> QED BY <1>3, <1>4, <1>5

\* What rows of cost c that are paid for may leave behind.
LEMMA WriteKeeps ==
  ASSUME EffectInv, NEW q, NEW g \in Nat, Reached(log, q, g), NEW c \in Nat, g <= c,
         spent + c <= MaxSpent
  PROVE  /\ LogInv(q) /\ spent + c \in 0..MaxSpent
         /\ Len(q.attempts) \in Nat /\ Len(q.attempts) <= spent + c
<1>1. Len(log.attempts) \in Nat /\ Len(q.attempts) \in Nat
  BY ProjectionType DEF EffectInv, LogInv, Reached
<1>2. spent \in Nat /\ MaxSpent \in Nat
  BY EffectBounds DEF EffectInv, EffectTypeOK
<1>3. LogInv(q)
  BY DEF Reached
<1> DEFINE n == Len(log.attempts)
           m == Len(q.attempts)
<1>4. n <= spent /\ m <= n + g
  BY DEF EffectInv, Reached
<1>5. m \in Nat /\ n \in Nat
  BY <1>1
<1> HIDE DEF n, m
<1>6. m <= spent + c /\ spent + c \in 0..MaxSpent
  BY <1>2, <1>4, <1>5
<1> QED BY <1>3, <1>5, <1>6 DEF m

\* A handler, whether its write ends, is cut short or is torn.
LEMMA HandleKeeps ==
  ASSUME EffectInv, NEW rows, NEW g \in Nat, Good(log, rows, g), g <= Cost(rows),
         NEW open1, NEW pending1, Handle(rows, open1, pending1)
  PROVE  /\ LogInv(log') /\ spent' \in 0..MaxSpent /\ Len(log'.attempts) <= spent'
         /\ spent + Cost(rows) <= MaxSpent
         /\ \/ open' = open1 /\ pending' = pending1
            \/ open' = open /\ pending' = pending
         /\ recon' = recon /\ reviews' = reviews
<1> DEFINE c == Cost(rows)
<1>1. c \in Nat /\ g <= c
  BY CostType DEF Good
<1>2. spent + c <= MaxSpent /\ recon' = recon /\ reviews' = reviews
  BY DEF Handle
<1>3. spent \in Nat /\ MaxSpent \in Nat
  BY EffectBounds DEF EffectInv, EffectTypeOK
<1>4. CASE mutate(rows, open1, pending1)
  <2>1. log' = replay(log, rows) /\ spent' = spent + c
    BY <1>4 DEF mutate
  <2>2. Reached(log, log', g)
    BY <2>1, GoodEnd
  <2>3. \/ open' = open1 /\ pending' = pending1
        \/ open' = open /\ pending' = pending
    BY <1>4 DEF mutate
  <2> HIDE DEF c
  <2>4. LogInv(log') /\ spent + c \in 0..MaxSpent /\ Len(log'.attempts) <= spent + c
    BY <1>1, <1>2, <2>2, WriteKeeps
  <2> QED BY <1>2, <2>1, <2>3, <2>4 DEF c
<1>5. CASE CutShort(rows) \/ Torn(rows)
  <2>1. spent + c < MaxSpent /\ spent' = spent + c + 1 /\ open' = open /\ pending' = pending
    BY <1>5 DEF CutShort, Torn
  <2>2. Reached(log, log', g)
    <3>1. CASE CutShort(rows)
      <4>1. PICK n \in DOMAIN rows : log' = replay(log, SubSeq(rows, 1, n))
        BY <3>1 DEF CutShort
      <4>2. n \in 0..Len(rows)
        BY DEF Good
      <4> QED BY <4>1, <4>2 DEF Good
    <3>2. CASE Torn(rows)
      BY <3>2, LostReached DEF Torn, EffectInv
    <3> QED BY <1>5, <3>1, <3>2
  <2> DEFINE e == c + 1
  <2> HIDE DEF c
  <2>3. e \in Nat /\ g <= e /\ spent + e <= MaxSpent /\ spent' = spent + e
    BY <1>1, <1>3, <2>1 DEF EffectInv
  <2> HIDE DEF e
  <2>4. LogInv(log') /\ spent + e \in 0..MaxSpent /\ Len(log'.attempts) <= spent + e
    BY <2>2, <2>3, WriteKeeps
  <2> QED BY <1>2, <2>1, <2>3, <2>4 DEF c
<1> QED BY <1>4, <1>5 DEF Handle

\* The retry grant that is used is one of those that match, and is the latest
\* card of its call.
LEMMA RetryFound ==
  ASSUME LogInv(log), NEW s, NEW i
  PROVE  LET r == matching_retry(log, s, i)
         IN  /\ r \in Nat
             /\ r # 0 => r \in DOMAIN log.cards /\ r = Max(CardsOf(log, log.cards[r].call))
<1> DEFINE S == RetryGrants(log, s, i) \cup {0}
           n == Len(log.cards)
<1>1. n \in Nat /\ DOMAIN log.cards = 1..n
  BY ProjectionType DEF LogInv
<1>2. RetryGrants(log, s, i) \subseteq DOMAIN log.cards
  BY DEF RetryGrants
<1>3. S \in SUBSET (0..n) /\ S # {}
  <2> HIDE DEF n
  <2> QED BY <1>1, <1>2
<1>4. Max(S) \in S
  <2> HIDE DEF S, n
  <2> QED BY <1>1, <1>3, MaxIsGreatest
<1>5. matching_retry(log, s, i) = Max(S)
  BY DEF matching_retry
<1> DEFINE r == Max(S)
<1>6. r \in Nat /\ (r # 0 => r \in RetryGrants(log, s, i))
  <2>1. 0..n \subseteq Nat
    BY <1>1
  <2> HIDE DEF n
  <2> QED BY <1>3, <1>4, <2>1
<1> HIDE DEF r
<1>7. r # 0 => r \in DOMAIN log.cards /\ r = Max(CardsOf(log, log.cards[r].call))
  BY <1>6 DEF RetryGrants
<1> QED BY <1>5, <1>6, <1>7 DEF r

\* The row of a dispatch, with a card or without one.
LEMMA CreatedRow ==
  ASSUME EffectInv, NEW s \in Sessions, NEW i \in Operations, NEW k \in Nat,
         NEW n \in RiskGrants(s, i)
  PROVE  LET row == Created(s, i, k, matching_retry(log, s, i), n, DebtShown(n))
         IN  /\ row \in EventRow /\ row.type = "attempt_created"
             /\ row.retry = matching_retry(log, s, i)
<1> DEFINE r == matching_retry(log, s, i)
           d == DebtShown(n)
<1>1. r \in Nat
  BY RetryFound DEF EffectInv
<1>2. reviews \in Seq(Review)
  BY DEF EffectInv, EffectTypeOK
<1>3. NoDebt \in Debt
  BY DEF NoDebt, Debt
<1>4. n = 0 \/ n \in DOMAIN reviews
  BY DEF RiskGrants
<1>5. n \in DOMAIN reviews => n \in Nat /\ reviews[n].debt \in Debt
  <2>1. n \in DOMAIN reviews => n \in Nat /\ reviews[n] \in Review
    BY <1>2
  <2>2. \A x \in Review : x.debt \in Debt
    BY DEF Review
  <2> QED BY <2>1, <2>2, Zenon
<1>6. n \in Nat /\ d \in Debt
  BY <1>3, <1>4, <1>5 DEF DebtShown
<1> HIDE DEF r, d
<1> QED BY <1>1, <1>6 DEF EventRow, Created, r, d

\* A dispatch, seen in time or late.
LEMMA CreatedGood ==
  ASSUME LogInv(log), NEW s, NEW i, NEW row \in EventRow, row.type = "attempt_created",
         row.retry = matching_retry(log, s, i), MayBegin(row)
  PROVE  Good(log, <<row>>, 1)
<1> DEFINE r == row.retry
<1>1. r \in Nat /\ (r # 0 => r \in DOMAIN log.cards /\ r = Max(CardsOf(log, log.cards[r].call)))
  BY RetryFound
<1>2. Allowed(log, row)
  <2> SUFFICES ASSUME NEW a \in blocking_attempts(log),
                      blocker_resource_match(log.attempts[a], row.ident)
               PROVE  \/ a = row.compensates
                      \/ a \in accepted_attempt_ids(row.debt)
                      \/ r # 0 /\ a = log.cards[r].call /\ r = Max(CardsOf(log, a))
    BY DEF Allowed, Warranted
  <2>1. a \in Permitted(row)
    BY DEF MayBegin, Blockers
  <2>2. \/ a = row.compensates \/ a \in accepted_attempt_ids(row.debt)
        \/ r # 0 /\ a = log.cards[r].call
    BY <2>1 DEF Permitted
  <2> QED BY <1>1, <2>2
<1> QED BY <1>2, GoodOne

\* A completion.
LEMMA CompletionGood ==
  ASSUME LogInv(log), NEW k \in Nat, NEW i \in Operations, NEW o \in Outcomes
  PROVE  Good(log, CompletionRows(k, i, o), 0)
<1> DEFINE A == RebindRows(k, i)
           B == ResultRows(log, k, o # "failed")
           q == replay(log, A)
           after == replay(log, A \o B)
<1>1. Good(log, A, 0) /\ (q.readable => LatestDecision(q, k) = LatestDecision(log, k))
  <2>1. CASE A = <<>>
    BY <2>1, GoodNone, ReplayNone
  <2>2. CASE A = <<Rebound(k, i)>>
    <3> DEFINE row == Rebound(k, i)
    <3>1. row \in EventRow /\ row.type = "attempt_target_resolved"
      BY DEF EventRow, Rebound
    <3>2. Allowed(log, row)
      BY <3>1 DEF Allowed, Warranted
    <3>3. Good(log, <<row>>, 0)
      <4> HIDE DEF row
      <4> QED BY <3>1, <3>2, GoodOne
    <3>4. q = apply_event(log, row)
      BY <2>2, ReplayOne
    <3>5. ASSUME q.readable PROVE LatestDecision(q, k) = LatestDecision(log, k)
      <4>1. Persist(log, q)
        BY <2>2, <3>3, GoodEnd DEF Reached
      <4>2. log.readable
        BY <3>5, <4>1 DEF Persist
      <4>3. Fits(log, row)
        BY <3>4, <3>5, <4>2, UnreadableInv DEF apply_event
      <4>4. q = Applied(log, row)
        BY <3>4, <4>2, <4>3 DEF apply_event
      <4> HIDE DEF q
      <4>5. q.cards = log.cards
        BY <4>2, <4>3, <4>4, RebindKeeps
      <4> QED BY <4>5 DEF LatestDecision, CardsOf
    <3> QED BY <2>2, <3>3, <3>5
  <2> QED BY <2>1, <2>2 DEF RebindRows
<1>2. LogInv(q)
  BY <1>1, GoodEnd DEF Reached
<1>3. (o # "failed") \in BOOLEAN
  OBVIOUS
<1> HIDE DEF A, q
<1>4. Good(q, B, 0)
  BY <1>1, <1>2, <1>3, ResultRowsGood
<1> HIDE DEF B
<1>5. Good(log, A \o B, 0)
  BY <1>1, <1>4, GoodConcat DEF q
<1>6. LogInv(after)
  BY <1>5, GoodEnd DEF Reached
<1>7. CASE o = "proved" /\ after.readable /\ State(after, k) = "verifying"
  <2>1. CompletionRows(k, i, o) = (A \o B) \o ProofRows(after, k)
    BY <1>7 DEF CompletionRows, A, B
  <2>2. k \in Known(after)
    BY <1>7 DEF State
  <2>3. Good(after, ProofRows(after, k), 0)
    <3> HIDE DEF after
    <3> QED BY <1>6, <2>2, PersistSelf, ProofRowsGood
  <2>4. Good(log, (A \o B) \o ProofRows(after, k), 0)
    BY <1>5, <2>3, GoodConcat
  <2> QED BY <2>1, <2>4
<1>8. CASE ~(o = "proved" /\ after.readable /\ State(after, k) = "verifying")
  <2>1. CompletionRows(k, i, o) = A \o B
    BY <1>8 DEF CompletionRows, A, B
  <2> QED BY <1>5, <2>1
<1> QED BY <1>7, <1>8

\* A completion that is the first to be heard of its call.
LEMMA UnmatchedGood ==
  ASSUME LogInv(log), NEW created, Good(log, created, 1), NEW k \in Nat, NEW b \in BOOLEAN
  PROVE  Good(log, created \o ResultRows(replay(log, created), k, b), 1)
<1> DEFINE q == replay(log, created)
<1>1. LogInv(q)
  BY GoodEnd DEF Reached
<1> HIDE DEF q
<1>2. Good(q, ResultRows(q, k, b), 0)
  BY <1>1, ResultRowsGood
<1> QED BY <1>2, GoodConcat DEF q

\* A read.
LEMMA ReadGood ==
  ASSUME LogInv(log), NEW k \in Known(log), NEW s, NEW seen
  PROVE  Good(log, ReadRows(log, k, s, seen), 0)
<1> DEFINE c == Max(CardsOf(log, k))
           A == IF ~OwnLane(log, k, s) /\ LatestDecision(log, k) = "reprobe_authorized"
                THEN <<Probed(c)>> ELSE <<>>
           B == IF Proves(log, k, seen) THEN ProofRows(log, k) ELSE <<>>
           q == replay(log, A)
<1>1. Good(log, A, 0)
  <2>1. CASE A = <<>>
    BY <2>1, GoodNone
  <2>2. CASE LatestDecision(log, k) = "reprobe_authorized" /\ A = <<Probed(c)>>
    <3> DEFINE row == Probed(c)
    <3>1. CardsOf(log, k) # {}
      BY <2>2 DEF LatestDecision
    <3>2. c \in DOMAIN log.cards /\ c \in Nat
      BY <3>1, LatestCard, ProjectionType DEF LogInv
    <3> HIDE DEF c
    <3>3. row \in EventRow /\ row.type = "reprobe_consumed" /\ row.card = c
      BY <3>2 DEF EventRow, Probed
    <3>4. Allowed(log, row)
      BY <3>2, <3>3 DEF Allowed, Warranted
    <3>5. Good(log, <<row>>, 0)
      <4> HIDE DEF row
      <4> QED BY <3>3, <3>4, GoodOne
    <3> QED BY <2>2, <3>5 DEF c
  <2> QED BY <2>1, <2>2
<1>2. LogInv(q) /\ Persist(log, q)
  BY <1>1, GoodEnd DEF Reached
<1> HIDE DEF A, q, c
<1>3. Good(q, B, 0)
  <2>1. Good(q, <<>>, 0)
    BY <1>2, GoodNone
  <2>2. Good(q, ProofRows(log, k), 0)
    BY <1>2, ProofRowsGood
  <2> QED BY <2>1, <2>2
<1>4. Good(log, A \o B, 0)
  <2> HIDE DEF B
  <2> QED BY <1>1, <1>3, GoodConcat DEF q
<1>5. ReadRows(log, k, s, seen) = A \o B
  BY DEF ReadRows, A, c
<1> QED BY <1>4, <1>5

\* A human's answer.
LEMMA DecisionGood ==
  ASSUME LogInv(log), NEW c \in DOMAIN log.cards, NEW d \in HUMAN_DECISIONS, NEW s \in Sessions
  PROVE  Good(log, DecisionRows(c, d, s), 0)
<1> DEFINE k == log.cards[c].call
           row == Resolved(c, d, s, 0)
           A == IF d \in Attestations THEN <<Moved(k, d)>> ELSE <<>>
           q == replay(log, A)
<1>1. c \in Nat /\ k \in Nat /\ log.cards[c] \in Card
  BY ProjectionType, CardType DEF LogInv
<1>2. d \in RESOLUTION_DECISIONS /\ (d \in Settling => d \in Attestations)
  BY DEF RESOLUTION_DECISIONS, HUMAN_DECISIONS, Settling, Attestations, Takeovers
<1>3. Good(log, A, 0) /\ (d \in Attestations /\ q.readable => State(q, k) = d)
  <2>1. CASE d \in Attestations
    <3>1. d \in ATTEMPT_STATES
      BY <2>1 DEF Attestations, ATTEMPT_STATES
    <3> QED BY <1>1, <2>1, <3>1, MovedOn
  <2>2. CASE d \notin Attestations
    BY <2>2, GoodNone
  <2> QED BY <2>1, <2>2
<1>4. LogInv(q) /\ Persist(log, q)
  BY <1>3, GoodEnd DEF Reached
<1> HIDE DEF A, q
<1>5. row \in EventRow /\ row.type = "intervention_resolved" /\ row.card = c /\ row.decision = d
  BY <1>1, <1>2 DEF EventRow, Resolved
<1>6. q.readable => c \in DOMAIN q.cards /\ q.cards[c].call = k
  BY <1>4 DEF Persist
<1>7. d \in Attestations => d \in SettledStates
  BY DEF Attestations, SettledStates, ATTEMPT_STATES, ACTIVE_ATTEMPT_STATES, InFlight
<1> HIDE DEF row
<1>8. Allowed(q, row)
  BY <1>2, <1>3, <1>5, <1>6, <1>7 DEF Allowed, Warranted
<1>9. Good(log, A \o <<row>>, 0)
  BY <1>3, <1>5, <1>8, GoodThen DEF q
<1>10. DecisionRows(c, d, s) = A \o <<row>>
  BY DEF DecisionRows, A, row
<1> QED BY <1>9, <1>10

\* A review reopened on new evidence.
LEMMA RecoverGood ==
  ASSUME LogInv(log), NEW k \in Known(log)
  PROVE  Good(log, <<Opened(k, TRUE)>>, 0)
<1> DEFINE row == Opened(k, TRUE)
<1>1. k \in Nat
  BY ProjectionType DEF LogInv
<1>2. row \in EventRow /\ row.type = "intervention_opened" /\ row.recovery
  BY <1>1 DEF EventRow, Opened
<1> HIDE DEF row
<1>3. Allowed(log, row)
  BY <1>2 DEF Allowed, Warranted
<1>4. Good(log, <<row>>, 0)
  BY <1>2, <1>3, GoodOne
<1> QED BY <1>4 DEF row

\* Cards stay cards of their call.
LEMMA CardsStay ==
  ASSUME NEW p, NEW q, Persist(p, q), q.readable, NEW k, CardsOf(p, k) # {}
  PROVE  CardsOf(q, k) # {}
BY DEF Persist, CardsOf

\* In r, k has a card, and the others are decided as in q.
OnlyAsks(q, r, k) ==
  /\ CardsOf(r, k) # {}
  /\ \A j : j # k => LatestDecision(r, j) = LatestDecision(q, j)

\* What the opening of a card leaves.
LEMMA OpenedOn ==
  ASSUME NEW q, LogInv(q), NEW k \in Nat, Allowed(q, Opened(k, FALSE)),
         NEW r, r = replay(q, <<Opened(k, FALSE)>>), r.readable
  PROVE  OnlyAsks(q, r, k)
<1> DEFINE row == Opened(k, FALSE)
<1>1. row \in EventRow /\ row.type # "attempt_created"
  BY DEF EventRow, Opened
<1>2. r = apply_event(q, row)
  <2> HIDE DEF row
  <2>1. replay(q, <<row>>) = apply_event(q, row)
    BY <1>1, ReplayOne
  <2> QED BY <2>1 DEF row
<1>3. q.readable
  BY <1>2 DEF apply_event
<1>4. Fits(q, row) /\ Warranted(q, row) /\ r = Applied(q, row)
  BY <1>2, <1>3, UnreadableInv DEF apply_event, Allowed
<1>5. FALSE \in BOOLEAN
  OBVIOUS
<1>6. /\ CardsOf(r, k) # {}
      /\ \A j : j # k => CardsOf(r, j) = CardsOf(q, j)
      /\ \A c \in DOMAIN q.cards : r.cards[c] = q.cards[c]
  <2>1. CardOpened(q, Applied(q, Opened(k, FALSE)), k)
    BY <1>3, <1>4, <1>5, OpenKeeps
  <2> QED BY <1>4, <2>1 DEF CardOpened
<1>7. ASSUME NEW j, j # k PROVE LatestDecision(r, j) = LatestDecision(q, j)
  <2>1. CardsOf(r, j) = CardsOf(q, j)
    BY <1>6, <1>7
  <2>2. CASE CardsOf(q, j) = {}
    BY <2>1, <2>2 DEF LatestDecision
  <2>3. CASE CardsOf(q, j) # {}
    <3>1. Max(CardsOf(q, j)) \in DOMAIN q.cards
      BY <2>3, LatestCard DEF LogInv
    <3> QED BY <1>6, <2>1, <3>1 DEF LatestDecision
  <2> QED BY <2>2, <2>3
<1> QED BY <1>6, <1>7 DEF OnlyAsks

\* What the specs of an unknown outcome leave: a card of the call, and the cards
\* of the others as they were.
LEMMA UnknownSpecsDo ==
  ASSUME NEW p, NEW q, LogInv(q), NEW k \in Nat,
         q.readable => LatestDecision(q, k) = LatestDecision(p, k),
         NEW r, r = replay(q, unknown_specs(p, k)), r.readable
  PROVE  OnlyAsks(q, r, k)
<1>1. CASE LatestDecision(p, k) \notin {"none", "reprobe_authorized"}
  <2>1. r = q
    BY <1>1, ReplayNone DEF unknown_specs
  <2>2. CardsOf(q, k) # {}
    BY <1>1, <2>1 DEF LatestDecision
  <2> QED BY <2>1, <2>2 DEF OnlyAsks
<1>2. CASE LatestDecision(p, k) \in {"none", "reprobe_authorized"}
  <2> DEFINE row == Opened(k, FALSE)
             last == <<row>>
  <2>1. row \in EventRow /\ row.type = "intervention_opened"
    BY DEF EventRow, Opened
  <2>2. ASSUME NEW x, x.readable => LatestDecision(x, k) \in {"none", "reprobe_authorized"}
        PROVE  Allowed(x, row)
    BY <2>1, <2>2 DEF Allowed, Warranted, Opened
  <2>3. CASE State(p, k) = "unknown"
    <3>1. unknown_specs(p, k) = <<>> \o last
      BY <1>2, <2>3 DEF unknown_specs
    <3>2. <<>> \o last = last
      OBVIOUS
    <3>3. Allowed(q, row)
      BY <1>2, <2>2
    <3>4. r = replay(q, <<Opened(k, FALSE)>>)
      BY <3>1, <3>2
    <3> QED BY <3>3, <3>4, OpenedOn
  <2>4. CASE State(p, k) # "unknown"
    <3> DEFINE first == <<Moved(k, "unknown")>>
               x == replay(q, first)
    <3>1. unknown_specs(p, k) = first \o last
      BY <1>2, <2>4 DEF unknown_specs
    <3>2. first \in Seq(EventRow) /\ last \in Seq(EventRow)
      <4>1. Moved(k, "unknown") \in EventRow
        BY DEF EventRow, Moved, ATTEMPT_STATES
      <4> DEFINE m == Moved(k, "unknown")
      <4> HIDE DEF row, m
      <4>2. <<m>> \in Seq(EventRow) /\ <<row>> \in Seq(EventRow)
        BY <2>1, <4>1 DEF m
      <4> QED BY <4>2 DEF m
    <3>3. r = replay(x, last)
      <4> HIDE DEF first, last
      <4>1. replay(q, first \o last) = replay(replay(q, first), last)
        BY <3>2, ReplayConcat
      <4> QED BY <3>1, <4>1
    <3>4. LogInv(x) /\ Persist(q, x)
          /\ (x.readable => x.cards = q.cards /\ LatestDecision(x, k) = LatestDecision(q, k))
      <4>1. "unknown" \in ATTEMPT_STATES
        BY DEF ATTEMPT_STATES
      <4> QED BY <4>1, MovedOn
    <3>5. x.readable => q.readable
      BY <3>4 DEF Persist
    <3>6. Allowed(x, row)
      BY <1>2, <2>2, <3>4, <3>5
    <3> HIDE DEF x, first
    <3>7. OnlyAsks(x, r, k)
      <4>1. r = replay(x, <<Opened(k, FALSE)>>) /\ Allowed(x, Opened(k, FALSE)) /\ LogInv(x)
        BY <3>3, <3>4, <3>6
      <4> HIDE DEF row, last
      <4> QED BY <4>1, OpenedOn
    <3>8. x.readable
      <4>1. Good(x, <<row>>, 0)
        BY <2>1, <3>4, <3>6, GoodOne
      <4>2. Persist(x, r)
        BY <3>3, <4>1, GoodEnd DEF Reached
      <4> QED BY <4>2 DEF Persist
    <3>9. \A j : LatestDecision(x, j) = LatestDecision(q, j)
      BY <3>4, <3>8 DEF LatestDecision, CardsOf
    <3> QED BY <3>7, <3>9 DEF OnlyAsks
  <2> QED BY <2>3, <2>4
<1> QED BY <1>1, <1>2
-----------------------------------------------------------------------------
(* The end of a turn *)

\* f is the concatenation of the lists in l, prefix by prefix.
IsFlat(f, l, m) ==
  f = [i \in 1..m |-> IF i = 1 THEN l[i] ELSE f[i - 1] \o l[i]]

\* There is such a function.
LEMMA FlatExists ==
  ASSUME NEW l, NEW m \in Nat
  PROVE  \E f : IsFlat(f, l, m)
<1> DEFINE S == {k \in Nat : \E f : IsFlat(f, l, k)}
<1>1. 0 \in S
  <2> DEFINE f == [i \in 1..0 |-> 0]
  <2>1. \A i : i \notin 1..0
    OBVIOUS
  <2>2. IsFlat(f, l, 0)
    BY <2>1 DEF IsFlat
  <2> QED BY <2>2
<1>2. ASSUME NEW k \in Nat, k \in S PROVE k + 1 \in S
  <2>1. PICK f : IsFlat(f, l, k)
    BY <1>2
  <2> DEFINE t == [i \in 1..(k + 1) |-> IF i = 1 THEN l[i] ELSE f[i - 1] \o l[i]]
  <2>2. \A i \in 1..k : t[i] = f[i]
    <3>1. \A i \in 1..k : f[i] = IF i = 1 THEN l[i] ELSE f[i - 1] \o l[i]
      BY <2>1 DEF IsFlat
    <3>2. \A i \in 1..k : i \in 1..(k + 1)
      OBVIOUS
    <3>3. \A i \in 1..(k + 1) : t[i] = IF i = 1 THEN l[i] ELSE f[i - 1] \o l[i]
      OBVIOUS
    <3> HIDE DEF t
    <3> QED BY <3>1, <3>2, <3>3, Zenon
  <2>3. \A i \in 1..(k + 1) : i # 1 => i - 1 \in 1..k
    OBVIOUS
  <2>4. IsFlat(t, l, k + 1)
    BY <2>2, <2>3 DEF IsFlat
  <2> QED BY <2>4
<1> HIDE DEF S
<1>3. Nat \subseteq S
  BY <1>1, <1>2, SetInduction
<1> QED BY <1>3 DEF S

\* FlattenSeq is its last value.
LEMMA FlattenIs ==
  ASSUME NEW l, Len(l) \in Nat, Len(l) # 0
  PROVE  \E f : IsFlat(f, l, Len(l)) /\ FlattenSeq(l) = f[Len(l)]
<1>1. \E f : IsFlat(f, l, Len(l))
  BY FlatExists
<1> DEFINE f == CHOOSE g : IsFlat(g, l, Len(l))
<1>2. IsFlat(f, l, Len(l))
  BY <1>1
<1>3. FlattenSeq(l) = f[Len(l)]
  BY Zenon DEF FlattenSeq, IsFlat
<1> QED BY <1>2, <1>3

\* The calls finalize_lane asks about, and what it writes for each.
Marked(s) == Interrupted(s) \cup Unverified(s) \cup Orphans(s)
SpecsOf(s, k) == IF k \in Marked(s) THEN unknown_specs(log, k) ELSE <<>>

\* What the rows for the first i calls have done.
Turned(s, rows, i) ==
  /\ Good(log, rows, 0)
  /\ LET q == replay(log, rows) IN
       q.readable =>
         \A k \in Known(log) :
           /\ i < k => LatestDecision(q, k) = LatestDecision(log, k)
           /\ k <= i /\ k \in Marked(s) => CardsOf(q, k) # {}

\* One more call of the turn's list.
LEMMA TurnOn ==
  ASSUME LogInv(log), NEW s, NEW i \in Nat, i + 1 \in Known(log), NEW rows, Turned(s, rows, i)
  PROVE  Turned(s, rows \o SpecsOf(s, i + 1), i + 1)
<1> DEFINE k == i + 1
           more == SpecsOf(s, k)
           q == replay(log, rows)
           r == replay(log, rows \o more)
<1>1. /\ Good(log, rows, 0)
      /\ q.readable => LatestDecision(q, k) = LatestDecision(log, k)
  BY DEF Turned
<1>2. LogInv(q) /\ Persist(log, q)
  BY <1>1, GoodEnd DEF Reached
<1>3. k \in Nat /\ k \in Known(log)
  OBVIOUS
<1>4. Known(log) \subseteq Nat
  BY ProjectionType DEF LogInv
<1> HIDE DEF q
<1>5. Good(q, more, 0)
  <2> HIDE DEF k
  <2>1. CASE k \in Marked(s)
    BY <1>1, <1>2, <1>3, <2>1, UnknownSpecsGood DEF SpecsOf
  <2>2. CASE k \notin Marked(s)
    BY <1>2, <2>2, GoodNone DEF SpecsOf
  <2> QED BY <2>1, <2>2
<1>6. Good(log, rows \o more, 0)
  <2> HIDE DEF more
  <2> QED BY <1>1, <1>5, GoodConcat DEF q
<1>7. r = replay(q, more)
  <2>1. rows \in Seq(EventRow) /\ more \in Seq(EventRow)
    BY <1>1, <1>5 DEF Good
  <2> HIDE DEF more
  <2> QED BY <2>1, ReplayConcat DEF q
<1>8. ASSUME r.readable, NEW j \in Known(log)
      PROVE  /\ k < j => LatestDecision(r, j) = LatestDecision(log, j)
             /\ j <= k /\ j \in Marked(s) => CardsOf(r, j) # {}
  <2>1. Persist(q, r)
    BY <1>5, <1>7, GoodEnd DEF Reached
  <2>2. q.readable
    BY <1>8, <2>1 DEF Persist
  <2>3. /\ k \in Marked(s) => CardsOf(r, k) # {}
        /\ j # k => LatestDecision(r, j) = LatestDecision(q, j)
    <3> HIDE DEF k, r
    <3>1. CASE k \in Marked(s)
      <4>1. r = replay(q, unknown_specs(log, k))
        BY <1>7, <3>1 DEF SpecsOf
      <4> QED BY <1>1, <1>2, <1>3, <1>8, <4>1, UnknownSpecsDo DEF OnlyAsks
    <3>2. CASE k \notin Marked(s)
      <4>1. r = q
        BY <1>7, <3>2, ReplayNone DEF SpecsOf
      <4> QED BY <3>2, <4>1
    <3> QED BY <3>1, <3>2
  <2>4. ASSUME k < j PROVE LatestDecision(r, j) = LatestDecision(log, j)
    <3>1. i < j /\ j # k
      BY <1>4, <2>4
    <3>2. LatestDecision(q, j) = LatestDecision(log, j)
      BY <2>2, <3>1 DEF Turned, q
    <3> QED BY <2>3, <3>1, <3>2
  <2>5. ASSUME j <= k, j \in Marked(s) PROVE CardsOf(r, j) # {}
    <3>1. CASE j = k
      BY <2>3, <2>5, <3>1
    <3>2. CASE j # k
      <4>1. j <= i
        BY <1>4, <2>5, <3>2
      <4>2. CardsOf(q, j) # {}
        BY <2>2, <2>5, <4>1 DEF Turned, q
      <4> HIDE DEF r
      <4> QED BY <1>8, <2>1, <4>2, CardsStay
    <3> QED BY <3>1, <3>2
  <2> QED BY <2>4, <2>5
<1> HIDE DEF k, more, r
<1>9. Turned(s, rows \o more, k)
  BY <1>6, <1>8 DEF Turned, r
<1> QED BY <1>9 DEF k, more

\* The rows of the end of a turn, one call after the other.
LEMMA TurnedAll ==
  ASSUME LogInv(log), NEW s
  PROVE  Turned(s, TurnEndRows(s), Len(log.attempts))
<1> DEFINE n == Len(log.attempts)
           l == [k \in 1..n |-> SpecsOf(s, k)]
<1>1. n \in Nat /\ Known(log) = 1..n
  BY ProjectionType DEF LogInv
<1>2. TurnEndRows(s) = FlattenSeq(l)
  BY DEF TurnEndRows, SpecsOf, Marked
<1>3. Turned(s, <<>>, 0)
  <2>1. Good(log, <<>>, 0) /\ replay(log, <<>>) = log
    BY GoodNone, ReplayNone
  <2>2. \A k \in Known(log) : ~(k <= 0)
    <3> HIDE DEF n
    <3> QED BY <1>1
  <2> QED BY <2>1, <2>2 DEF Turned
<1>4. \A k \in 1..n : SpecsOf(s, k) \in Seq(EventRow)
  <2> SUFFICES ASSUME NEW k \in 1..n PROVE SpecsOf(s, k) \in Seq(EventRow)
    OBVIOUS
  <2>1. k \in Nat
    BY <1>1
  <2>2. Good(log, unknown_specs(log, k), 0)
    BY <2>1, UnknownSpecsGood
  <2>3. <<>> \in Seq(EventRow)
    OBVIOUS
  <2> QED BY <2>2, <2>3 DEF SpecsOf, Good
<1>5. l \in Seq(Seq(EventRow)) /\ Len(l) = n
  <2>1. l \in [1..n -> Seq(EventRow)]
    BY <1>4
  <2> DEFINE T == Seq(EventRow)
  <2>2. l \in [1..n -> T]
    BY <2>1
  <2> HIDE DEF l, n, T
  <2>3. l \in Seq(T) /\ Len(l) = n
    <3>1. n \in Nat
      BY <1>1
    <3> QED BY <2>2, <3>1
  <2> QED BY <2>3 DEF T
<1>6. \A k \in 1..n : l[k] = SpecsOf(s, k)
  OBVIOUS
<1> HIDE DEF n, l
<1>7. CASE n = 0
  <2>1. FlattenSeq(l) = l
    BY <1>5, <1>7 DEF FlattenSeq
  <2>2. l = <<>>
    BY <1>5, <1>7
  <2> QED BY <1>2, <1>3, <1>7, <2>1, <2>2 DEF n
<1>8. CASE n # 0
  <2>1. PICK f : IsFlat(f, l, n) /\ FlattenSeq(l) = f[n]
    BY <1>1, <1>5, <1>8, FlattenIs
  <2>2. \A i \in 1..n : f[i] = IF i = 1 THEN l[i] ELSE f[i - 1] \o l[i]
    BY <2>1 DEF IsFlat
  <2> DEFINE S == {i \in Nat : i # 0 /\ i <= n => Turned(s, f[i], i)}
  <2>3. 0 \in S
    OBVIOUS
  <2>4. ASSUME NEW i \in Nat, i \in S PROVE i + 1 \in S
    <3> SUFFICES ASSUME i + 1 <= n PROVE Turned(s, f[i + 1], i + 1)
      OBVIOUS
    <3>1. i + 1 \in 1..n /\ i + 1 \in Known(log) /\ (i + 1) - 1 = i /\ (i # 0 => i <= n /\ i + 1 # 1)
      BY <1>1
    <3>2. l[i + 1] = SpecsOf(s, i + 1) /\ SpecsOf(s, i + 1) \in Seq(EventRow)
      BY <1>4, <1>6, <3>1
    <3>3. CASE i = 0
      <4>1. f[1] = SpecsOf(s, 1)
        BY <2>2, <3>1, <3>2, <3>3
      <4>2. <<>> \o SpecsOf(s, 1) = SpecsOf(s, 1)
        BY <3>2, <3>3
      <4>3. Turned(s, <<>> \o SpecsOf(s, i + 1), i + 1)
        BY <1>3, <3>1, <3>3, TurnOn
      <4> QED BY <3>3, <4>1, <4>2, <4>3
    <3>4. CASE i # 0
      <4>1. Turned(s, f[i], i)
        BY <2>4, <3>1, <3>4
      <4>2. f[i + 1] = f[i] \o SpecsOf(s, i + 1)
        BY <2>2, <3>1, <3>2, <3>4
      <4>3. Turned(s, f[i] \o SpecsOf(s, i + 1), i + 1)
        BY <3>1, <4>1, TurnOn
      <4> QED BY <4>2, <4>3
    <3> QED BY <3>3, <3>4
  <2> HIDE DEF S
  <2>5. Nat \subseteq S
    BY <2>3, <2>4, SetInduction
  <2>6. Turned(s, f[n], n)
    BY <1>1, <1>8, <2>5 DEF S
  <2> QED BY <1>2, <2>1, <2>6 DEF n
<1> QED BY <1>7, <1>8

\* The calls there are.
LEMMA CallsKnown ==
  ASSUME EffectInv
  PROVE  Known(log) \subseteq Calls /\ Known(log) \subseteq Nat /\ spent \in Nat /\ MaxSpent \in Nat
<1>1. Known(log) = 1..Len(log.attempts) /\ Len(log.attempts) \in Nat
  BY ProjectionType DEF EffectInv, LogInv
<1>2. Len(log.attempts) <= spent /\ spent \in 0..MaxSpent /\ MaxSpent \in Nat
  BY EffectBounds DEF EffectInv, EffectTypeOK
<1> DEFINE n == Len(log.attempts)
<1> HIDE DEF n
<1>3. n \in Nat /\ n <= spent /\ spent \in 0..MaxSpent /\ MaxSpent \in Nat /\ Known(log) = 1..n
  BY <1>1, <1>2 DEF n
<1> QED BY <1>3 DEF Calls

\* The type of the log follows from its invariant.
LEMMA TypeFromLog ==
  ASSUME LogInv(log), open \subseteq Calls, pending \subseteq Calls,
         recon \in [phase : {"idle", "probing", "settled"}, snapshot : SUBSET Calls,
                    drop : SUBSET Calls],
         reviews \in Seq(Review), Len(reviews) <= MaxReviews, spent \in 0..MaxSpent
  PROVE  EffectTypeOK
BY ProjectionType DEF LogInv, EffectTypeOK

\* What a handler that keeps to the calls there are leaves of the invariant.
LEMMA HandledInv ==
  ASSUME EffectInv, NEW rows, NEW g \in Nat, Good(log, rows, g), g <= Cost(rows),
         NEW open1, NEW pending1, Handle(rows, open1, pending1),
         spent + Cost(rows) <= MaxSpent => open1 \subseteq Calls /\ pending1 \subseteq Calls
  PROVE  EffectInv'
<1>1. /\ LogInv(log') /\ spent' \in 0..MaxSpent /\ Len(log'.attempts) <= spent'
      /\ spent + Cost(rows) <= MaxSpent
      /\ \/ open' = open1 /\ pending' = pending1
         \/ open' = open /\ pending' = pending
      /\ recon' = recon /\ reviews' = reviews
  BY HandleKeeps
<1>2. LogInv(log)'
  BY <1>1
<1>3. open' \subseteq Calls /\ pending' \subseteq Calls
  BY <1>1 DEF EffectInv, EffectTypeOK
<1>4. recon' \in [phase : {"idle", "probing", "settled"}, snapshot : SUBSET Calls,
                  drop : SUBSET Calls]
  BY <1>1 DEF EffectInv, EffectTypeOK
<1>5. log'.attempts \in Seq(Attempt) /\ log'.cards \in Seq(Card) /\ log'.readable \in BOOLEAN
  BY <1>1, ProjectionType DEF LogInv
<1> QED BY <1>1, <1>2, <1>3, <1>4, <1>5 DEF EffectInv, EffectTypeOK

\* Init.
LEMMA InitInv ==
  Init => EffectInv
<1> SUFFICES ASSUME Init PROVE EffectInv
  OBVIOUS
<1>1. /\ log = EmptyLog /\ open = {} /\ pending = {} /\ recon = Idle /\ reviews = <<>>
      /\ spent = 0
  BY DEF Init
<1>2. log \in Projection /\ log.attempts = <<>> /\ log.cards = <<>>
  <2>1. <<>> \in Seq(Attempt) /\ <<>> \in Seq(Card)
    OBVIOUS
  <2> QED BY <1>1, <2>1 DEF Projection, EmptyLog
<1>3. Known(log) = {} /\ DOMAIN log.cards = {} /\ Len(log.attempts) = 0
  BY <1>2 DEF Known
<1>4. LogInv(log)
  BY <1>2, <1>3 DEF LogInv, CardsTrue, GrantsPaired, Compensates, OneOwner
<1>5. spent \in 0..MaxSpent
  BY <1>1, EffectBounds
<1>6. reviews \in Seq(Review) /\ Len(reviews) <= MaxReviews
  BY <1>1, EffectBounds
<1>7. EffectTypeOK
  BY <1>1, <1>4, <1>5, <1>6, TypeFromLog DEF Idle
<1> QED BY <1>1, <1>3, <1>4, <1>7 DEF EffectInv

\* Dispatch keeps the invariant: MayBegin has seen every blocker.
LEMMA DispatchInv ==
  ASSUME EffectInv, NEW s \in Sessions, NEW i \in Operations, NEW k \in 0..Len(log.attempts),
         NEW m \in 0..Len(reviews), Dispatch(s, i, k, m)
  PROVE  EffectInv'
<1> DEFINE row == Created(s, i, k, matching_retry(log, s, i), m, DebtShown(m))
           rows == <<row>>
           n == Len(log.attempts)
<1>1. m \in RiskGrants(s, i) /\ MayBegin(row) /\ Handle(rows, open \cup {n + 1}, pending)
  BY DEF Dispatch
<1>2. n \in Nat /\ k \in Nat
  BY ProjectionType DEF EffectInv, LogInv
<1>3. Good(log, rows, 1) /\ row.type = "attempt_created"
  <2>1. /\ row \in EventRow /\ row.type = "attempt_created"
        /\ row.retry = matching_retry(log, s, i)
    BY <1>1, <1>2, CreatedRow
  <2> HIDE DEF row
  <2> QED BY <1>1, <2>1, CreatedGood DEF EffectInv
<1>4. 1 <= Cost(rows)
  <2>1. Costly(row)
    BY <1>3 DEF Costly
  <2> HIDE DEF row
  <2>2. 1 \in DOMAIN rows /\ rows[1] = row
    OBVIOUS
  <2>3. rows \in Seq(EventRow)
    BY <1>3 DEF Good
  <2> HIDE DEF rows
  <2> QED BY <2>1, <2>2, <2>3, CostType
<1>5. spent + Cost(rows) <= MaxSpent => n + 1 \in Calls
  <2>1. Cost(rows) \in Nat
    BY <1>3, CostType DEF Good
  <2>2. n <= spent /\ spent \in Nat /\ MaxSpent \in Nat
    BY CallsKnown DEF EffectInv
  <2> DEFINE c == Cost(rows)
  <2>3. c \in Nat /\ 1 <= c
    BY <1>4, <2>1
  <2> HIDE DEF c, n, rows
  <2>4. spent + c <= MaxSpent => n + 1 \in 1..MaxSpent
    BY <1>2, <2>2, <2>3
  <2> QED BY <2>4 DEF c, Calls
<1>6. spent + Cost(rows) <= MaxSpent => open \cup {n + 1} \subseteq Calls /\ pending \subseteq Calls
  BY <1>5 DEF EffectInv, EffectTypeOK
<1> HIDE DEF rows, n
<1> QED BY <1>1, <1>3, <1>4, <1>6, HandledInv

\* A card is allowed: nothing of the log changes.
LEMMA AllowInv ==
  ASSUME EffectInv, NEW s \in Sessions, NEW i \in RiskReviewed, AllowRisk(s, i)
  PROVE  EffectInv'
<1> DEFINE d == effect_risk_review_context(log)
           v == [session |-> s, ident |-> i, debt |-> d]
<1>1. /\ reviews' = Append(reviews, v) /\ Len(reviews) < MaxReviews
      /\ UNCHANGED <<log, open, pending, recon, spent>>
  BY DEF AllowRisk
<1>2. d \in Debt
  BY ContextType DEF EffectInv, LogInv
<1> HIDE DEF d
<1>3. v \in Review
  BY <1>2 DEF Review
<1> HIDE DEF v
<1>4. reviews \in Seq(Review) /\ MaxReviews \in Nat
  BY EffectBounds DEF EffectInv, EffectTypeOK
<1>5. reviews' \in Seq(Review) /\ Len(reviews') <= MaxReviews
  BY <1>1, <1>3, <1>4
<1> QED BY <1>1, <1>5 DEF EffectInv, EffectTypeOK

\* What is created is paid for, and is a call there is.
LEMMA CreatedCosts ==
  ASSUME EffectInv, NEW row \in EventRow, row.type = "attempt_created",
         NEW more \in Seq(EventRow), NEW rows, rows = <<row>> \o more
  PROVE  /\ 1 <= Cost(rows)
         /\ spent + Cost(rows) <= MaxSpent => Len(log.attempts) + 1 \in Calls
<1> DEFINE n == Len(log.attempts)
           c == Cost(rows)
<1>1. rows \in Seq(EventRow) /\ 1 \in DOMAIN rows /\ rows[1] = row
  OBVIOUS
<1>2. Costly(row)
  BY DEF Costly
<1>3. c \in Nat /\ 1 <= c
  BY <1>1, <1>2, CostType
<1>4. n \in Nat /\ n <= spent /\ spent \in Nat /\ MaxSpent \in Nat
  BY CallsKnown, ProjectionType DEF EffectInv, LogInv
<1> HIDE DEF n, c
<1>5. spent + c <= MaxSpent => n + 1 \in 1..MaxSpent
  BY <1>3, <1>4
<1> QED BY <1>3, <1>5 DEF n, c, Calls

\* So does a completion nothing was dispatched for.
LEMMA UnmatchedInv ==
  ASSUME EffectInv, NEW s \in Sessions, NEW i \in Operations, NEW b \in BOOLEAN,
         CompleteUnmatched(s, i, b)
  PROVE  EffectInv'
<1> DEFINE row == Created(s, i, 0, matching_retry(log, s, i), 0, NoDebt)
           created == <<row>>
           k == Len(log.attempts) + 1
           more == ResultRows(replay(log, created), k, b)
           rows == created \o more
<1>1. MayBegin(row) /\ Handle(rows, open, pending \cup {k})
  BY DEF CompleteUnmatched
<1>2. k \in Nat
  BY ProjectionType DEF EffectInv, LogInv
<1>4. /\ row \in EventRow /\ row.type = "attempt_created"
      /\ row.retry = matching_retry(log, s, i)
  <2>1. 0 \in RiskGrants(s, i) /\ DebtShown(0) = NoDebt
    BY DEF RiskGrants, DebtShown
  <2> QED BY <2>1, CreatedRow
<1> HIDE DEF row
<1>3. Good(log, created, 1)
  BY <1>1, <1>4, CreatedGood DEF EffectInv
<1> HIDE DEF k
<1>5. Good(log, rows, 1)
  <2> HIDE DEF created
  <2> QED BY <1>2, <1>3, UnmatchedGood DEF EffectInv
<1>6. more \in Seq(EventRow)
  <2>1. LogInv(replay(log, created))
    BY <1>3, GoodEnd DEF Reached
  <2> DEFINE q == replay(log, created)
  <2> HIDE DEF q
  <2>2. Good(q, ResultRows(q, k, b), 0)
    BY <1>2, <2>1, ResultRowsGood DEF q
  <2> QED BY <2>2 DEF Good, q
<1> HIDE DEF more
<1>7. 1 <= Cost(rows) /\ (spent + Cost(rows) <= MaxSpent => k \in Calls)
  BY <1>4, <1>6, CreatedCosts DEF k
<1> HIDE DEF rows
<1>8. spent + Cost(rows) <= MaxSpent => open \subseteq Calls /\ pending \cup {k} \subseteq Calls
  BY <1>7 DEF EffectInv, EffectTypeOK
<1> QED BY <1>1, <1>5, <1>7, <1>8, HandledInv

\* A handler that creates nothing.
LEMMA PlainInv ==
  ASSUME EffectInv, NEW rows, Good(log, rows, 0), NEW open1, NEW pending1,
         Handle(rows, open1, pending1), open1 \subseteq Calls, pending1 \subseteq Calls
  PROVE  EffectInv'
<1>1. Cost(rows) \in Nat
  BY CostType DEF Good
<1>2. 0 <= Cost(rows) /\ 0 \in Nat
  BY <1>1
<1> QED BY <1>2, HandledInv

\* A completion creates no attempt, and moves only what it may.
LEMMA CompleteInv ==
  ASSUME EffectInv, NEW k \in open, NEW i \in Operations, NEW o \in Outcomes, Complete(k, i, o)
  PROVE  EffectInv'
<1> DEFINE rows == CompletionRows(k, i, o)
           pending1 == IF o = "proved" /\ Moved(k, "system_verified") \in Range(rows)
                       THEN pending \ Cleared(log, k) ELSE pending \cup {k}
<1>1. Handle(rows, open \ {k}, pending1)
  BY DEF Complete
<1>2. open \subseteq Calls /\ pending \subseteq Calls
  BY DEF EffectInv, EffectTypeOK
<1>3. k \in Nat /\ k \in Calls
  BY <1>2, CallsKnown DEF Calls
<1>4. Good(log, rows, 0)
  BY <1>3, CompletionGood DEF EffectInv
<1>5. open \ {k} \subseteq Calls /\ pending1 \subseteq Calls
  <2> HIDE DEF rows
  <2> QED BY <1>2, <1>3
<1> HIDE DEF rows, pending1
<1> QED BY <1>1, <1>4, <1>5, PlainInv

\* A read proves what it moves.
LEMMA ReadInv ==
  ASSUME EffectInv, NEW s \in Sessions, NEW i \in Operations, NEW named, Read(s, i, named)
  PROVE  EffectInv'
<1>1. PICK k \in Eligible(log, s, i, named) :
        Handle(ReadRows(log, k, s, i), open,
               IF Proves(log, k, i) THEN pending \ Cleared(log, k) ELSE pending)
  BY DEF Read
<1>2. k \in Known(log)
  BY DEF Eligible
<1> DEFINE rows == ReadRows(log, k, s, i)
           pending1 == IF Proves(log, k, i) THEN pending \ Cleared(log, k) ELSE pending
<1>3. Good(log, rows, 0)
  BY <1>2, ReadGood DEF EffectInv
<1>4. open \subseteq Calls /\ pending1 \subseteq Calls
  BY DEF EffectInv, EffectTypeOK
<1>5. Handle(rows, open, pending1)
  BY <1>1
<1> HIDE DEF rows, pending1
<1> QED BY <1>3, <1>4, <1>5, PlainInv

\* A decision settles only what the human attests, or hands it over.
LEMMA DecideInv ==
  ASSUME EffectInv, NEW c \in DOMAIN log.cards, NEW d \in HUMAN_DECISIONS, NEW s \in Sessions,
         Decide(c, d, s)
  PROVE  EffectInv'
<1> DEFINE rows == DecisionRows(c, d, s)
           pending1 == IF d = "reprobe_authorized" THEN pending
                       ELSE pending \ {log.cards[c].call}
<1>1. Handle(rows, open, pending1)
  BY DEF Decide
<1>2. Good(log, rows, 0)
  BY DecisionGood DEF EffectInv
<1>3. open \subseteq Calls /\ pending1 \subseteq Calls
  BY DEF EffectInv, EffectTypeOK
<1> HIDE DEF rows, pending1
<1> QED BY <1>1, <1>2, <1>3, PlainInv

\* A recovery review opens a card of an unknown effect.
LEMMA RecoverInv ==
  ASSUME EffectInv, NEW k \in Known(log), Recover(k)
  PROVE  EffectInv'
<1> DEFINE rows == <<Opened(k, TRUE)>>
<1>1. Handle(rows, open, pending)
  BY DEF Recover
<1>2. Good(log, rows, 0)
  BY RecoverGood DEF EffectInv
<1>3. open \subseteq Calls /\ pending \subseteq Calls
  BY DEF EffectInv, EffectTypeOK
<1> HIDE DEF rows
<1> QED BY <1>1, <1>2, <1>3, PlainInv

\* The end of a turn asks about what the session left.
LEMMA TurnEndInv ==
  ASSUME EffectInv, NEW s \in Sessions, finalize_lane(s)
  PROVE  EffectInv'
<1> DEFINE rows == TurnEndRows(s)
           open1 == open \ Interrupted(s)
           pending1 == pending \cup Interrupted(s) \cup Orphans(s)
<1>1. Handle(rows, open1, pending1)
  BY DEF finalize_lane
<1>2. Good(log, rows, 0)
  BY TurnedAll DEF EffectInv, Turned
<1>3. open \subseteq Calls /\ pending \subseteq Calls
  BY DEF EffectInv, EffectTypeOK
<1>4. Interrupted(s) \subseteq open /\ Orphans(s) \subseteq Known(log)
  BY DEF Interrupted, Orphans
<1>5. open1 \subseteq Calls /\ pending1 \subseteq Calls
  BY <1>3, <1>4, CallsKnown
<1> HIDE DEF rows, open1, pending1
<1> QED BY <1>1, <1>2, <1>5, PlainInv
-----------------------------------------------------------------------------
(* The reconciler *)

\* What the reconciler carries between its steps.
LEMMA ReconType ==
  ASSUME EffectInv
  PROVE  /\ recon.phase \in {"idle", "probing", "settled"}
         /\ recon.snapshot \subseteq Calls /\ recon.drop \subseteq Calls
         /\ recon \in [phase : {"idle", "probing", "settled"}, snapshot : SUBSET Calls,
                       drop : SUBSET Calls]
BY DEF EffectInv, EffectTypeOK

\* The reconciler takes its list.
LEMMA StartInv ==
  ASSUME EffectInv, StartReconcile
  PROVE  EffectInv'
<1>1. /\ log' = log /\ open' = open /\ pending' = pending /\ spent' = spent + 1
      /\ reviews' = reviews
      /\ spent < MaxSpent
      /\ recon' = [Idle EXCEPT !.phase = "probing", !.snapshot = pending]
  BY DEF StartReconcile
<1>2. pending \subseteq Calls
  BY DEF EffectInv, EffectTypeOK
<1>3. recon' \in [phase : {"idle", "probing", "settled"}, snapshot : SUBSET Calls,
                  drop : SUBSET Calls]
  BY <1>1, <1>2 DEF Idle
<1>4. spent \in Nat /\ MaxSpent \in Nat /\ Len(log.attempts) \in Nat /\ Len(log.attempts) <= spent
  BY CallsKnown, ProjectionType DEF EffectInv, LogInv
<1> DEFINE n == Len(log.attempts)
<1>5. n \in Nat /\ n <= spent
  BY <1>4
<1> HIDE DEF n
<1>6. spent' \in 0..MaxSpent /\ n <= spent'
  BY <1>1, <1>4, <1>5
<1>7. LogInv(log)' /\ Len(log.attempts)' <= spent'
  BY <1>1, <1>6 DEF EffectInv, n
<1> QED BY <1>1, <1>3, <1>6, <1>7 DEF EffectInv, EffectTypeOK

\* A probe appends what a completion does, or dies with some of it.
LEMMA ProbeInv ==
  ASSUME EffectInv, NEW k \in Known(log), Probe(k)
  PROVE  EffectInv'
<1> DEFINE rows == ProofRows(log, k)
<1>1. Good(log, rows, 0)
  BY PersistSelf, ProofRowsGood DEF EffectInv
<1>2. open' = open /\ pending' = pending /\ reviews' = reviews
  BY DEF Probe
<1>3. Cleared(log, k) \subseteq Calls
  <2>1. log.attempts[k].compensates # 0 => log.attempts[k].compensates \in Known(log)
    BY DEF EffectInv, LogInv, Compensates
  <2> QED BY <2>1, CallsKnown DEF Cleared
<1>4. CASE /\ log' = replay(log, rows)
           /\ recon' = [recon EXCEPT !.drop = IF log'.readable THEN @ \cup Cleared(log, k) ELSE @]
           /\ spent' = spent
  <2>1. Reached(log, log', 0)
    BY <1>1, <1>4, GoodEnd
  <2>2. spent \in Nat /\ MaxSpent \in Nat /\ spent <= MaxSpent
    BY CallsKnown DEF EffectInv, EffectTypeOK
  <2>3. spent + 0 <= MaxSpent /\ spent + 0 = spent /\ 0 \in Nat /\ 0 <= 0
    BY <2>2
  <2>4. /\ LogInv(log') /\ spent + 0 \in 0..MaxSpent
        /\ Len(log'.attempts) \in Nat /\ Len(log'.attempts) <= spent + 0
    BY <2>1, <2>3, WriteKeeps
  <2> DEFINE drop == IF log'.readable THEN recon.drop \cup Cleared(log, k) ELSE recon.drop
  <2>5. drop \subseteq Calls
    BY <1>3, ReconType
  <2>6. recon' = [recon EXCEPT !.drop = drop]
    BY <1>4, Zenon
  <2> HIDE DEF drop
  <2>7. recon' \in [phase : {"idle", "probing", "settled"}, snapshot : SUBSET Calls,
                    drop : SUBSET Calls]
    BY <2>5, <2>6, ReconType
  <2>8. log'.attempts \in Seq(Attempt) /\ log'.cards \in Seq(Card) /\ log'.readable \in BOOLEAN
    BY <2>4, ProjectionType DEF LogInv
  <2> QED BY <1>2, <1>4, <2>3, <2>4, <2>7, <2>8 DEF EffectInv, EffectTypeOK
<1>5. CASE (CutShort(rows) \/ Torn(rows)) /\ recon' = Idle
  <2> DEFINE c == Cost(rows)
  <2>1. c \in Nat /\ spent + c < MaxSpent /\ spent' = spent + c + 1 /\ spent \in Nat /\ MaxSpent \in Nat
    BY <1>1, <1>5, CostType, CallsKnown DEF CutShort, Torn, Good
  <2>2. Reached(log, log', 0)
    <3>1. CASE CutShort(rows)
      <4>1. PICK n \in DOMAIN rows : log' = replay(log, SubSeq(rows, 1, n))
        BY <3>1 DEF CutShort
      <4> HIDE DEF rows
      <4>2. n \in 0..Len(rows)
        BY <1>1 DEF Good
      <4> QED BY <1>1, <4>1, <4>2 DEF Good
    <3>2. CASE Torn(rows)
      BY <3>2, LostReached DEF Torn, EffectInv
    <3> QED BY <1>5, <3>1, <3>2
  <2> DEFINE e == c + 1
  <2> HIDE DEF c
  <2>3. e \in Nat /\ 0 <= e /\ 0 \in Nat /\ spent + e <= MaxSpent /\ spent' = spent + e
    BY <2>1
  <2> HIDE DEF e
  <2>4. LogInv(log') /\ spent + e \in 0..MaxSpent /\ Len(log'.attempts) <= spent + e
    BY <2>2, <2>3, WriteKeeps
  <2>5. recon' \in [phase : {"idle", "probing", "settled"}, snapshot : SUBSET Calls,
                    drop : SUBSET Calls]
    BY <1>5 DEF Idle
  <2>6. log'.attempts \in Seq(Attempt) /\ log'.cards \in Seq(Card) /\ log'.readable \in BOOLEAN
    BY <2>4, ProjectionType DEF LogInv
  <2> QED BY <1>2, <2>3, <2>4, <2>5, <2>6 DEF EffectInv, EffectTypeOK
<1>6. \/ /\ log' = replay(log, rows)
         /\ recon' = [recon EXCEPT !.drop = IF log'.readable THEN @ \cup Cleared(log, k) ELSE @]
         /\ spent' = spent
      \/ (CutShort(rows) \/ Torn(rows)) /\ recon' = Idle
  BY Zenon DEF Probe
<1> QED BY <1>4, <1>5, <1>6, Zenon

\* The reconciler sees what is settled.
LEMMA SettleInv ==
  ASSUME EffectInv, SettleReconcile
  PROVE  EffectInv'
<1> DEFINE drop == recon.drop \cup settled_pending_verification_ids
<1>1. /\ log' = log /\ open' = open /\ pending' = pending /\ spent' = spent
      /\ reviews' = reviews
      /\ recon' = [recon EXCEPT !.phase = "settled", !.drop = drop]
  BY Zenon DEF SettleReconcile
<1>2. drop \subseteq Calls
  BY ReconType DEF settled_pending_verification_ids
<1> HIDE DEF drop
<1>3. recon' \in [phase : {"idle", "probing", "settled"}, snapshot : SUBSET Calls,
                  drop : SUBSET Calls]
  BY <1>1, <1>2, ReconType
<1> QED BY <1>1, <1>3 DEF EffectInv, EffectTypeOK

\* The reconciler takes off the list what it found.
LEMMA ApplyInv ==
  ASSUME EffectInv, ApplyReconcile
  PROVE  EffectInv'
<1>1. /\ log' = log /\ open' = open /\ pending' = pending \ recon.drop /\ spent' = spent /\ recon' = Idle
      /\ reviews' = reviews
  BY DEF ApplyReconcile
<1>2. pending' \subseteq Calls
  BY <1>1 DEF EffectInv, EffectTypeOK
<1>3. recon' \in [phase : {"idle", "probing", "settled"}, snapshot : SUBSET Calls,
                  drop : SUBSET Calls]
  BY <1>1 DEF Idle
<1> QED BY <1>1, <1>2, <1>3 DEF EffectInv, EffectTypeOK

\* Nothing changes.
LEMMA StutterInv ==
  ASSUME EffectInv, UNCHANGED vars
  PROVE  EffectInv'
BY DEF EffectInv, EffectTypeOK, vars

\* Every step keeps the invariant.
LEMMA StepInv ==
  EffectInv /\ [Next]_vars => EffectInv'
<1> SUFFICES ASSUME EffectInv, [Next]_vars PROVE EffectInv'
  OBVIOUS
<1> USE CallsKnown
<1>1. CASE \E s \in Sessions, i \in Operations, k \in 0..Len(log.attempts),
              n \in 0..Len(reviews) : Dispatch(s, i, k, n)
  BY <1>1, DispatchInv
<1>2. CASE \E k \in open, i \in Operations, o \in Outcomes : Complete(k, i, o)
  BY <1>2, CompleteInv
<1>3. CASE \E s \in Sessions, i \in Operations, b \in BOOLEAN : CompleteUnmatched(s, i, b)
  BY <1>3, UnmatchedInv
<1>4. CASE \E s \in Sessions, i \in Operations, k \in 0..Len(log.attempts) : Read(s, i, k)
  BY <1>4, ReadInv
<1>5. CASE \E c \in DOMAIN log.cards, d \in HUMAN_DECISIONS, s \in Sessions : Decide(c, d, s)
  BY <1>5, DecideInv
<1>6. CASE \E k \in Known(log) : Recover(k)
  BY <1>6, RecoverInv
<1>7. CASE \E s \in Sessions : finalize_lane(s)
  BY <1>7, TurnEndInv
<1>8. CASE StartReconcile
  BY <1>8, StartInv
<1>9. CASE \E k \in Known(log) : Probe(k)
  BY <1>9, ProbeInv
<1>10. CASE SettleReconcile
  BY <1>10, SettleInv
<1>11. CASE ApplyReconcile
  BY <1>11, ApplyInv
<1>12. CASE UNCHANGED vars
  BY <1>12, StutterInv
<1>13. CASE \E s \in Sessions, i \in RiskReviewed : AllowRisk(s, i)
  BY <1>13, AllowInv
<1> QED BY <1>1, <1>2, <1>3, <1>4, <1>5, <1>6, <1>7, <1>8, <1>9, <1>10, <1>11, <1>12, <1>13
    DEF Next

\* The invariant holds of every state.
LEMMA EffectInvAlways ==
  Spec => []EffectInv
BY InitInv, StepInv, PTL DEF Spec
-----------------------------------------------------------------------------
(* Theorems *)

\* EffectTypeOK: the projection that replay makes of the effect log
\* (intervention.py replay), the contract's two lists and the reconciler's copy of
\* them have their types, for any sessions, operations and length of the history.
THEOREM EffectTypeAlways ==
  Spec => []EffectTypeOK
<1>1. EffectInv => EffectTypeOK
  BY DEF EffectInv
<1> QED BY <1>1, EffectInvAlways, PTL

\* OneOwnerPerResource: begin_attempt finds the blocker. Two calls released for
\* one resource are never both unsettled unless the later one compensates the
\* earlier or a human accepted its conflict with that call, whatever was rebound,
\* handed over, decided, torn or cut short between.
THEOREM OneOwnerAlways ==
  Spec => []OneOwnerPerResource
<1>1. EffectInv => OneOwnerPerResource
  <2> SUFFICES ASSUME EffectInv, NEW a \in blocking_attempts(log), NEW b \in blocking_attempts(log),
                      a < b, SameResource(Released(a), Released(b))
               PROVE  log.attempts[b].compensates = a \/ a \in log.attempts[b].accepted
    BY DEF OneOwnerPerResource
  <2>1. OneOwner(log)
    BY DEF EffectInv, LogInv
  <2>2. a \in Known(log) /\ b \in Known(log) /\ Blocks(log, a) /\ Blocks(log, b)
    BY DEF blocking_attempts
  <2>3. Released(a) = ReleasedIn(log, a) /\ Released(b) = ReleasedIn(log, b)
    BY DEF Released, ReleasedIn
  <2> QED BY <2>1, <2>2, <2>3 DEF OneOwner
<1> QED BY <1>1, EffectInvAlways, PTL

\* DebtHasHeir: an attempt whose outcome is unknown stops blocking only when the
\* retry that spent its grant or a verified compensation has taken it over; no
\* prefix of the rows of a decision (resolve_by_human) or a proof frees anything else.
THEOREM DebtAlwaysHasHeir ==
  Spec => []DebtHasHeir
<1>1. EffectInv => DebtHasHeir
  <2> SUFFICES ASSUME EffectInv, NEW k \in Known(log) \ blocking_attempts(log),
                      State(log, k) = "unknown"
               PROVE  \E h \in Known(log) :
                        \/ log.attempts[h].retry \in CardsOf(log, k)
                        \/ log.attempts[h].compensates = k /\ State(log, h) = "system_verified"
    BY DEF DebtHasHeir
  <2> DEFINE m == Max(CardsOf(log, k))
  <2>1. log \in Projection /\ CardsTrue(log) /\ GrantsPaired(log)
    BY DEF EffectInv, LogInv
  <2>2. ~Blocks(log, k)
    BY DEF blocking_attempts
  <2>3. CardsOf(log, k) # {}
    BY <2>2 DEF Blocks, LatestDecision
  <2>4. /\ log.cards[m].decision \notin {"open", "reprobe_authorized", "abort"}
        /\ log.cards[m].decision = "retry_authorized" => log.cards[m].consumer # 0
    BY <2>2, <2>3 DEF Blocks, LatestDecision
  <2>5. m \in CardsOf(log, k) /\ m \in DOMAIN log.cards /\ log.cards[m].call = k
    BY <2>1, <2>3, LatestCard
  <2> HIDE DEF m
  <2>6. log.cards[m].decision \in RESOLUTION_DECISIONS \cup {"open"}
    BY <2>1, <2>5, ProjectionType, CardType
  <2>7. log.cards[m].decision \notin Settling
    BY <2>1, <2>5 DEF CardsTrue, SettledStates, ACTIVE_ATTEMPT_STATES
  <2>8. CASE log.cards[m].decision = "retry_authorized"
    BY <2>1, <2>4, <2>5, <2>8 DEF GrantsPaired
  <2>9. CASE log.cards[m].decision = "system_compensated"
    BY <2>1, <2>5, <2>9 DEF CardsTrue
  <2> QED BY <2>4, <2>6, <2>7, <2>8, <2>9
        DEF RESOLUTION_DECISIONS, HUMAN_DECISIONS, Takeovers, Settling
<1> QED BY <1>1, EffectInvAlways, PTL

\* OneShotAuthority: a retry authorisation is consumed by the row that creates the
\* attempt, and a risk card is linked to one attempt (_validate_risk_grant_link):
\* each releases at most one, however many completions and dispatches look for it
\* (matching_retry), however often the debts look alike, and wherever a process dies.
THEOREM OneShotAlways ==
  Spec => []OneShotAuthority
<1>1. EffectInv => OneShotAuthority
  BY DEF EffectInv, LogInv, GrantsPaired, OneOwner, OneShotAuthority
<1> QED BY <1>1, EffectInvAlways, PTL

\* TurnEndAsks: whatever state a session leaves, the rows that finalize_lane would
\* append leave each effect of its lane settled or in front of a human, also one that
\* a death between log and contract took off both lists.
THEOREM TurnEndAlwaysAsks ==
  Spec => []TurnEndAsks
<1>1. EffectInv => TurnEndAsks
  <2> SUFFICES ASSUME EffectInv, NEW s \in Sessions, log.readable,
                      replay(log, TurnEndRows(s)).readable,
                      NEW k \in Known(log), OwnLane(log, k, s)
               PROVE  LET after == replay(log, TurnEndRows(s)) IN
                        State(after, k) \in SettledStates \/ CardsOf(after, k) # {}
    BY Zenon DEF TurnEndAsks
  <2> DEFINE after == replay(log, TurnEndRows(s))
             n == Len(log.attempts)
  <2>1. LogInv(log) /\ n \in Nat /\ Known(log) = 1..n
    BY ProjectionType DEF EffectInv, LogInv
  <2>2. Turned(s, TurnEndRows(s), n)
    BY <2>1, TurnedAll
  <2>3. Persist(log, after)
    BY <2>2, GoodEnd DEF Turned, Reached
  <2>4. k <= n
    <3> HIDE DEF n
    <3> QED BY <2>1
  <2>5. CASE k \in Marked(s)
    <3>1. CardsOf(after, k) # {}
      BY <2>2, <2>4, <2>5 DEF Turned
    <3> QED BY <3>1
  <2>6. CASE k \notin Marked(s)
    <3>1. k \notin Interrupted(s) /\ k \notin Unverified(s) /\ k \notin Orphans(s)
      BY <2>6 DEF Marked
    <3>2. k \notin pending
      BY <3>1 DEF Unverified
    <3>3. \/ State(log, k) \notin ACTIVE_ATTEMPT_STATES
          \/ CardsOf(log, k) # {}
      BY <3>1, <3>2 DEF Orphans
    <3>4. State(log, k) \in ATTEMPT_STATES /\ State(log, k) = log.attempts[k].state
      BY <2>1, ProjectionType, AttemptType DEF State, LogInv
    <3>5. CASE State(log, k) \notin ACTIVE_ATTEMPT_STATES
      <4>1. log.attempts[k].state \in SettledStates
        BY <3>4, <3>5 DEF SettledStates
      <4>2. State(after, k) \in SettledStates
        BY <2>3, <4>1 DEF Persist, State
      <4> QED BY <4>2
    <3>6. CASE CardsOf(log, k) # {}
      <4>1. CardsOf(after, k) # {}
        BY <2>3, <3>6, CardsStay
      <4> QED BY <4>1
    <3> QED BY <3>3, <3>5, <3>6
  <2> QED BY <2>5, <2>6
<1> QED BY <1>1, EffectInvAlways, PTL
=============================================================================
