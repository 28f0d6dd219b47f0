---------------------- MODULE WorkspaceSupervisor_proofs ----------------------
(***************************************************************************)
(* Theorems about the workspace supervisor's store, for any submissions,   *)
(* writers, batch limits and inbox bounds.                                 *)
(***************************************************************************)
EXTENDS WorkspaceSupervisor, GuardianReducer_proofs, FiniteSetTheorems,
        WellFoundedInduction, SequenceTheorems

\* FiniteSetsExt's Min of naturals is a member and no other is less.
LEMMA MinIsLeast ==
  ASSUME NEW S \in SUBSET Nat, S # {}
  PROVE  Min(S) \in S /\ \A y \in S : Min(S) <= y
<1>1. PICK x \in S : \A y \in S : ~(<<y, x>> \in OpToRel(<, Nat))
  BY WFMin, NatLessThanWellFounded
<1>2. \A y \in S : ~(y < x)
  BY <1>1 DEF OpToRel
<1>3. \A y \in S : x =< y
  BY <1>2
<1> QED BY <1>3 DEF Min

\* The columns of the meta, projection, inbox and ledger tables.
LEMMA TablesType ==
  ASSUME NEW t \in Tables
  PROVE  /\ t.initial \in GuardianState /\ t.projection \in GuardianState
         /\ t.active_generation \in Generation
         /\ t.pending_generation \in Generation \cup {""}
         /\ t.writer_epoch \in Nat
         /\ t.inbox \in Seq(Row) /\ t.ledger \in Seq(LedgerRow)
BY DEF Tables

\* The queued rows are finitely many positions of the inbox.
LEMMA QueuedType ==
  ASSUME NEW t \in Tables
  PROVE  /\ Len(t.inbox) \in Nat
         /\ DOMAIN t.inbox = 1..Len(t.inbox)
         /\ Queued(t) \subseteq 1..Len(t.inbox)
         /\ Queued(t) \in SUBSET Nat
         /\ IsFiniteSet(Queued(t))
<1>1. t.inbox \in Seq(Row)
  BY TablesType
<1>2. Len(t.inbox) \in Nat /\ DOMAIN t.inbox = 1..Len(t.inbox)
  BY <1>1
<1>3. Queued(t) \subseteq 1..Len(t.inbox)
  BY <1>2 DEF Queued
<1>4. IsFiniteSet(1..Len(t.inbox))
  BY <1>2, FS_Interval
<1>5. IsFiniteSet(Queued(t))
  BY <1>3, <1>4, FS_Subset
<1> QED BY <1>2, <1>3, <1>5

\* drain's ORDER BY ordinal takes the earliest queued row.
LEMMA NextRowIsFirst ==
  ASSUME work \in Tables, Queued(work) # {}
  PROVE  NextRow \in Queued(work) /\ \A j \in Queued(work) : NextRow <= j
BY QueuedType, MinIsLeast DEF NextRow
-----------------------------------------------------------------------------
(* What each operation on the tables does to each of them *)

\* A row as submit inserts it.
LEMMA NewRowType ==
  ASSUME NEW s \in Submissions, NEW status \in {"queued", "applied", "rejected"},
         NEW reason \in Refusals \cup {"", "transition_rejected"}
  PROVE  /\ NewRow(s, status, reason) \in Row
         /\ NewRow(s, status, reason).submission = s
         /\ NewRow(s, status, reason).status = status
BY DEF NewRow, Row, NoEvent

\* Appending to a sequence.
LEMMA AppendSeq ==
  ASSUME NEW S, NEW q \in Seq(S), NEW r \in S
  PROVE  LET u == Append(q, r)
         IN  /\ u \in Seq(S) /\ Len(u) = Len(q) + 1 /\ Len(q) \in Nat
             /\ u[Len(q) + 1] = r
             /\ \A j \in 1..Len(q) : u[j] = q[j]
OBVIOUS

\* An element of a sequence, and a sequence with one element replaced.
LEMMA ElementType ==
  ASSUME NEW S, NEW q \in Seq(S), NEW i \in 1..Len(q)
  PROVE  q[i] \in S
OBVIOUS

\* q with row i replaced.
Put(q, i, r) == [q EXCEPT ![i] = r]

\* Replacing one row of the inbox leaves the others.
LEMMA PutRow ==
  ASSUME NEW q \in Seq(Row), NEW i \in 1..Len(q), NEW r \in Row
  PROVE  /\ Put(q, i, r) \in Seq(Row) /\ Len(Put(q, i, r)) = Len(q)
         /\ Put(q, i, r)[i] = r
         /\ \A j \in 1..Len(q) : j # i => Put(q, i, r)[j] = q[j]
BY DEF Put

\* A submission is refused with one of submit's reasons.
LEMMA RejectionIsRefusal ==
  ASSUME NEW t, NEW s, Rejection(t, s) # ""
  PROVE  Rejection(t, s) \in Refusals
<1>1. ActivationRejection(t, s) \in Refusals \cup {""}
  BY DEF ActivationRejection, Refusals
<1> QED BY <1>1 DEF Rejection, Refusals

\* The producers' submissions are well formed.
LEMMA SubmissionType ==
  ASSUME NEW s \in Submissions
  PROVE  s \in Submission
BY StoreAssumption

\* A refused submission adds a row and changes nothing else.
LEMMA InsertRejectedFields ==
  ASSUME NEW t \in Tables, NEW s \in Submissions, Rejection(t, s) # ""
  PROVE  LET u == InsertRejected(t, s)
         IN  /\ u \in Tables
             /\ u.inbox = Append(t.inbox, NewRow(s, "rejected", Rejection(t, s)))
             /\ u.ledger = t.ledger /\ u.projection = t.projection
             /\ u.active_generation = t.active_generation
             /\ u.pending_generation = t.pending_generation
             /\ u.writer_epoch = t.writer_epoch /\ u.initial = t.initial
<1> DEFINE q == Append(t.inbox, NewRow(s, "rejected", Rejection(t, s)))
<1>1. Rejection(t, s) \in Refusals
  BY RejectionIsRefusal
<1>2. NewRow(s, "rejected", Rejection(t, s)) \in Row
  BY <1>1, NewRowType
<1>3. t.inbox \in Seq(Row)
  BY TablesType
<1>4. q \in Seq(Row)
  BY <1>2, <1>3, AppendSeq
<1>5. InsertRejected(t, s) = [t EXCEPT !.inbox = q]
  BY DEF InsertRejected
<1> HIDE DEF q
<1>6. LET u == InsertRejected(t, s)
      IN  /\ u \in Tables /\ u.inbox = q
          /\ u.ledger = t.ledger /\ u.projection = t.projection
          /\ u.active_generation = t.active_generation
          /\ u.pending_generation = t.pending_generation
          /\ u.writer_epoch = t.writer_epoch /\ u.initial = t.initial
  BY <1>4, <1>5 DEF Tables
<1> QED BY <1>6 DEF q

\* A queued submission adds a row, and an activation claims the switch.
LEMMA InsertQueuedFields ==
  ASSUME NEW t \in Tables, NEW s \in Submissions
  PROVE  LET u == InsertQueued(t, s)
         IN  /\ u \in Tables
             /\ u.inbox = Append(t.inbox, NewRow(s, "queued", ""))
             /\ u.pending_generation =
                  IF s.event_type = Activation THEN s.runtime_generation
                  ELSE t.pending_generation
             /\ u.ledger = t.ledger /\ u.projection = t.projection
             /\ u.active_generation = t.active_generation
             /\ u.writer_epoch = t.writer_epoch /\ u.initial = t.initial
<1> DEFINE q == Append(t.inbox, NewRow(s, "queued", ""))
           g == IF s.event_type = Activation THEN s.runtime_generation
                ELSE t.pending_generation
<1>1. NewRow(s, "queued", "") \in Row
  BY NewRowType
<1>2. t.inbox \in Seq(Row) /\ t.pending_generation \in Generation \cup {""}
  BY TablesType
<1>3. q \in Seq(Row)
  BY <1>1, <1>2, AppendSeq
<1>4. s.runtime_generation \in Generation
  <2>1. s \in Submission
    BY SubmissionType, Zenon
  <2> QED BY <2>1 DEF Submission
<1>5. g \in Generation \cup {""}
  BY <1>2, <1>4
<1>6. InsertQueued(t, s) = [t EXCEPT !.inbox = q, !.pending_generation = g]
  BY DEF InsertQueued
<1> HIDE DEF q, g
<1>7. LET u == InsertQueued(t, s)
      IN  /\ u \in Tables /\ u.inbox = q /\ u.pending_generation = g
          /\ u.ledger = t.ledger /\ u.projection = t.projection
          /\ u.active_generation = t.active_generation
          /\ u.writer_epoch = t.writer_epoch /\ u.initial = t.initial
  BY <1>3, <1>5, <1>6 DEF Tables
<1> QED BY <1>7 DEF q, g

\* What a terminal update may write.
Terminal(status, reason, id) ==
  /\ status \in {"queued", "applied", "rejected"}
  /\ reason \in {"", "transition_rejected"}
  /\ id \in EventId \cup {NoEvent}

\* q is the inbox of t after row i was settled.
InboxSettled(t, q, i, status, id) ==
  /\ Len(q) = Len(t.inbox)
  /\ \A j \in 1..Len(t.inbox) : j # i => q[j] = t.inbox[j]
  /\ q[i].submission = t.inbox[i].submission
  /\ q[i].status = status /\ q[i].event_id = id
  /\ q[i].writer_epoch = t.writer_epoch

\* Settling a row keeps what was submitted and dates it with the epoch.
LEMMA SettleFields ==
  ASSUME NEW t \in Tables, NEW i \in 1..Len(t.inbox),
         NEW status, NEW reason, NEW id, Terminal(status, reason, id)
  PROVE  /\ Settle(t, i, status, reason, id) \in Seq(Row)
         /\ InboxSettled(t, Settle(t, i, status, reason, id), i, status, id)
<1> DEFINE q == t.inbox
           n == t.writer_epoch
           o == q[i]
           r == [o EXCEPT !.status = status, !.reason = reason,
                          !.event_id = id, !.writer_epoch = n]
           u == Settle(t, i, status, reason, id)
<1>1. q \in Seq(Row) /\ n \in Nat /\ i \in 1..Len(q)
  BY TablesType
<1>2. u = Put(q, i, r)
  BY DEF Settle, Put
<1> HIDE DEF q, n, u
<1>3. o \in Row
  BY <1>1, ElementType, Zenon
<1> HIDE DEF o
<1>4. /\ r \in Row /\ r.submission = o.submission
      /\ r.status = status /\ r.event_id = id /\ r.writer_epoch = n
  BY <1>1, <1>3 DEF Row, Terminal
<1> HIDE DEF r
<1>5. r \in Row
  BY <1>4
<1>6. /\ u \in Seq(Row) /\ Len(u) = Len(q) /\ u[i] = r
      /\ \A j \in 1..Len(q) : j # i => u[j] = q[j]
  <2>1. /\ Put(q, i, r) \in Seq(Row) /\ Len(Put(q, i, r)) = Len(q)
        /\ Put(q, i, r)[i] = r
        /\ \A j \in 1..Len(q) : j # i => Put(q, i, r)[j] = q[j]
    BY <1>1, <1>5, PutRow, Zenon
  <2> QED BY <1>2, <2>1, Zenon
<1>7. /\ u \in Seq(Row) /\ Len(u) = Len(q)
      /\ \A j \in 1..Len(q) : j # i => u[j] = q[j]
      /\ u[i].submission = q[i].submission
      /\ u[i].status = status /\ u[i].event_id = id
      /\ u[i].writer_epoch = n
  BY <1>4, <1>6 DEF o
<1> QED BY <1>7 DEF q, n, u, InboxSettled

\* A row the reducer refuses is settled; an activation gives the switch up.
LEMMA RejectRowFields ==
  ASSUME NEW t \in Tables, NEW i \in 1..Len(t.inbox)
  PROVE  LET u == RejectRow(t, i)
             q == Settle(t, i, "rejected", "transition_rejected", NoEvent)
         IN  /\ u \in Tables /\ u.inbox = q
             /\ u.pending_generation =
                  IF t.inbox[i].submission.event_type = Activation THEN ""
                  ELSE t.pending_generation
             /\ u.ledger = t.ledger /\ u.projection = t.projection
             /\ u.active_generation = t.active_generation
             /\ u.writer_epoch = t.writer_epoch /\ u.initial = t.initial
<1> DEFINE q == Settle(t, i, "rejected", "transition_rejected", NoEvent)
           g == IF t.inbox[i].submission.event_type = Activation THEN ""
                ELSE t.pending_generation
<1>1. q \in Seq(Row)
  <2>1. Terminal("rejected", "transition_rejected", NoEvent)
    BY DEF Terminal
  <2> QED BY <2>1, SettleFields, Zenon
<1>2. g \in Generation \cup {""}
  BY TablesType
<1>3. RejectRow(t, i) = [t EXCEPT !.inbox = q, !.pending_generation = g]
  BY DEF RejectRow
<1> HIDE DEF q, g
<1>4. LET u == RejectRow(t, i)
      IN  /\ u \in Tables /\ u.inbox = q /\ u.pending_generation = g
          /\ u.ledger = t.ledger /\ u.projection = t.projection
          /\ u.active_generation = t.active_generation
          /\ u.writer_epoch = t.writer_epoch /\ u.initial = t.initial
  BY <1>1, <1>2, <1>3 DEF Tables
<1> QED BY <1>4 DEF q, g

\* The ledger row drain inserts for an envelope.
LedgerRowOf(t, e, w) ==
  [envelope |-> e, writer_id |-> w, writer_epoch |-> t.writer_epoch]

\* An applied row extends the ledger and moves the projection.
LEMMA ApplyRowFields ==
  ASSUME NEW t \in Tables, NEW i \in 1..Len(t.inbox), NEW e \in Envelope,
         NEW w \in Writers
  PROVE  LET u == ApplyRow(t, i, e, w)
             after == Apply(t.projection, e)
         IN  /\ u \in Tables
             /\ u.inbox = Settle(t, i, "applied", "", e.event_id)
             /\ u.ledger = Append(t.ledger, LedgerRowOf(t, e, w))
             /\ u.projection = after
             /\ u.active_generation =
                  IF e.body.event_type = Activation
                    THEN after.runtime_generation ELSE t.active_generation
             /\ u.pending_generation =
                  IF e.body.event_type = Activation THEN ""
                  ELSE t.pending_generation
             /\ u.writer_epoch = t.writer_epoch /\ u.initial = t.initial
<1> DEFINE after == Apply(t.projection, e)
           q == Settle(t, i, "applied", "", e.event_id)
           l == Append(t.ledger, LedgerRowOf(t, e, w))
           a == IF e.body.event_type = Activation
                  THEN after.runtime_generation ELSE t.active_generation
           g == IF e.body.event_type = Activation THEN ""
                ELSE t.pending_generation
<1>1. e.event_id \in EventId
  BY DEF Envelope
<1>2. q \in Seq(Row)
  <2>1. Terminal("applied", "", e.event_id)
    BY <1>1 DEF Terminal
  <2> QED BY <2>1, SettleFields, Zenon
<1>3. after \in GuardianState
  BY TablesType, ApplyType, Zenon
<1>4. a \in Generation /\ g \in Generation \cup {""}
  <2>1. after.runtime_generation \in Generation
    BY <1>3 DEF GuardianState
  <2> QED BY <2>1, TablesType
<1>5. LedgerRowOf(t, e, w) \in LedgerRow
  BY TablesType DEF LedgerRowOf, LedgerRow
<1>6. l \in Seq(LedgerRow)
  BY <1>5, TablesType, AppendSeq
<1>7. ApplyRow(t, i, e, w) =
        [t EXCEPT !.ledger = l, !.projection = after, !.inbox = q,
                  !.active_generation = a, !.pending_generation = g]
  BY DEF ApplyRow, LedgerRowOf
<1> HIDE DEF after, q, l, a, g
<1>8. LET u == ApplyRow(t, i, e, w)
      IN  /\ u \in Tables /\ u.inbox = q /\ u.ledger = l /\ u.projection = after
          /\ u.active_generation = a /\ u.pending_generation = g
          /\ u.writer_epoch = t.writer_epoch /\ u.initial = t.initial
  BY <1>2, <1>3, <1>4, <1>6, <1>7, ZenonT(40) DEF Tables
<1> QED BY <1>8 DEF after, q, l, a, g
-----------------------------------------------------------------------------
(* The two things that happen to the inbox *)

\* u's inbox is t's with one more row.
InboxAppended(t, u, row) ==
  /\ Len(u.inbox) = Len(t.inbox) + 1
  /\ u.inbox[Len(t.inbox) + 1] = row
  /\ \A j \in 1..Len(t.inbox) : u.inbox[j] = t.inbox[j]

\* Queued, element by element.
LEMMA QueuedIs ==
  ASSUME NEW t \in Tables, NEW j
  PROVE  j \in Queued(t) <=> /\ j \in 1..Len(t.inbox)
                             /\ t.inbox[j].status = "queued"
BY QueuedType DEF Queued

\* Inserting a row adds it to the queue if it is queued.
LEMMA QueuedAppended ==
  ASSUME NEW t \in Tables, NEW u \in Tables, NEW row, InboxAppended(t, u, row)
  PROVE  Queued(u) = Queued(t) \cup (IF row.status = "queued"
                                       THEN {Len(t.inbox) + 1} ELSE {})
<1> DEFINE n == Len(t.inbox)
<1>1. n \in Nat
  BY QueuedType
<1>2. \A j : j \in Queued(t) <=> j \in 1..n /\ t.inbox[j].status = "queued"
  BY QueuedIs
<1>3. \A j : j \in Queued(u) <=> j \in 1..(n + 1) /\ u.inbox[j].status = "queued"
  BY QueuedIs DEF InboxAppended
<1>4. u.inbox[n + 1] = row /\ \A j \in 1..n : u.inbox[j] = t.inbox[j]
  BY DEF InboxAppended
<1> HIDE DEF n
<1>5. \A j : j \in 1..(n + 1) <=> j \in 1..n \/ j = n + 1
  BY <1>1
<1>6. n + 1 \notin 1..n
  BY <1>1
<1> QED BY <1>2, <1>3, <1>4, <1>5, <1>6 DEF n

\* Settling a row takes it, and no other, out of the queue.
LEMMA QueuedSettled ==
  ASSUME NEW t \in Tables, NEW u \in Tables, NEW i \in Queued(t), NEW status, NEW id,
         InboxSettled(t, u.inbox, i, status, id), status # "queued"
  PROVE  Queued(u) = Queued(t) \ {i}
<1>1. \A j : j \in Queued(t) <=> /\ j \in 1..Len(t.inbox)
                                 /\ t.inbox[j].status = "queued"
  BY QueuedIs
<1>2. \A j : j \in Queued(u) <=> /\ j \in 1..Len(t.inbox)
                                 /\ u.inbox[j].status = "queued"
  BY QueuedIs DEF InboxSettled
<1>3. u.inbox[i].status # "queued"
  BY DEF InboxSettled
<1>4. \A j \in 1..Len(t.inbox) : j # i => u.inbox[j] = t.inbox[j]
  BY DEF InboxSettled
<1> QED BY <1>1, <1>2, <1>3, <1>4, SMT
\* Append, as the later lemmas look at it.
LEMMA AppendIsAppended ==
  ASSUME NEW t \in Tables, NEW u, NEW row \in Row, u.inbox = Append(t.inbox, row)
  PROVE  InboxAppended(t, u, row)
<1> DEFINE q == t.inbox
           v == u.inbox
<1>1. q \in Seq(Row) /\ v = Append(q, row)
  BY TablesType
<1> HIDE DEF q, v
<1>2. /\ Len(v) = Len(q) + 1 /\ v[Len(q) + 1] = row
      /\ \A j \in 1..Len(q) : v[j] = q[j]
  BY <1>1
<1> QED BY <1>2, Zenon DEF InboxAppended, q, v

\* The inbox after a refusal.
LEMMA InsertRejectedInbox ==
  ASSUME NEW t \in Tables, NEW s \in Submissions, Rejection(t, s) # ""
  PROVE  LET row == NewRow(s, "rejected", Rejection(t, s))
         IN  /\ InboxAppended(t, InsertRejected(t, s), row)
             /\ row \in Row /\ row.submission = s /\ row.status = "rejected"
<1> DEFINE row == NewRow(s, "rejected", Rejection(t, s))
<1>1. row \in Row /\ row.submission = s /\ row.status = "rejected"
  <2> DEFINE reason == Rejection(t, s)
  <2>1. reason \in Refusals \cup {"", "transition_rejected"}
    BY RejectionIsRefusal, Zenon
  <2>2. "rejected" \in {"queued", "applied", "rejected"}
    OBVIOUS
  <2>3. row = NewRow(s, "rejected", reason)
    OBVIOUS
  <2> HIDE DEF reason, row
  <2> QED BY <2>1, <2>2, <2>3, NewRowType, ZenonT(40)
<1>2. InsertRejected(t, s).inbox = Append(t.inbox, row)
  BY InsertRejectedFields
<1> HIDE DEF row
<1>3. InboxAppended(t, InsertRejected(t, s), row)
  BY <1>1, <1>2, AppendIsAppended, Zenon
<1> QED BY <1>1, <1>3 DEF row

\* The inbox after an acceptance.
LEMMA InsertQueuedInbox ==
  ASSUME NEW t \in Tables, NEW s \in Submissions
  PROVE  LET row == NewRow(s, "queued", "")
         IN  /\ InboxAppended(t, InsertQueued(t, s), row)
             /\ row \in Row /\ row.submission = s /\ row.status = "queued"
<1> DEFINE row == NewRow(s, "queued", "")
<1>1. row \in Row /\ row.submission = s /\ row.status = "queued"
  <2>1. "" \in Refusals \cup {"", "transition_rejected"}
    OBVIOUS
  <2>2. "queued" \in {"queued", "applied", "rejected"}
    OBVIOUS
  <2> QED BY <2>1, <2>2, NewRowType, ZenonT(40)
<1>2. InsertQueued(t, s).inbox = Append(t.inbox, row)
  BY InsertQueuedFields
<1> HIDE DEF row
<1>3. InboxAppended(t, InsertQueued(t, s), row)
  BY <1>1, <1>2, AppendIsAppended, Zenon
<1> QED BY <1>1, <1>3 DEF row

\* The inbox after the reducer refused a row.
LEMMA RejectRowInbox ==
  ASSUME NEW t \in Tables, NEW i \in 1..Len(t.inbox)
  PROVE  InboxSettled(t, RejectRow(t, i).inbox, i, "rejected", NoEvent)
<1>1. RejectRow(t, i).inbox
        = Settle(t, i, "rejected", "transition_rejected", NoEvent)
  BY RejectRowFields, Zenon
<1>2. Terminal("rejected", "transition_rejected", NoEvent)
  BY DEF Terminal
<1> QED BY <1>1, <1>2, SettleFields, Zenon

\* The inbox after the reducer accepted a row.
LEMMA ApplyRowInbox ==
  ASSUME NEW t \in Tables, NEW i \in 1..Len(t.inbox), NEW e \in Envelope,
         NEW w \in Writers
  PROVE  InboxSettled(t, ApplyRow(t, i, e, w).inbox, i, "applied", e.event_id)
<1>1. ApplyRow(t, i, e, w).inbox = Settle(t, i, "applied", "", e.event_id)
  BY ApplyRowFields, Zenon
<1>2. Terminal("applied", "", e.event_id)
  BY DEF Envelope, Terminal
<1> QED BY <1>1, <1>2, SettleFields, Zenon
-----------------------------------------------------------------------------
(* SwitchAlone *)

\* A refusal leaves a pending switch alone in the queue.
LEMMA InsertRejectedSwitch ==
  ASSUME NEW t \in Tables, NEW s \in Submissions, Rejection(t, s) # "",
         SwitchAlone(t)
  PROVE  SwitchAlone(InsertRejected(t, s))
<1> DEFINE u == InsertRejected(t, s)
           row == NewRow(s, "rejected", Rejection(t, s))
<1>1. /\ u \in Tables /\ u.projection = t.projection
      /\ u.active_generation = t.active_generation
      /\ u.pending_generation = t.pending_generation
  BY InsertRejectedFields, Zenon
<1>2. InboxAppended(t, u, row) /\ row.status = "rejected"
  BY InsertRejectedInbox, Zenon
<1> HIDE DEF u, row
<1>3. Queued(u) = Queued(t)
  BY <1>1, <1>2, QueuedAppended
<1>4. \A j \in 1..Len(t.inbox) : u.inbox[j] = t.inbox[j]
  BY <1>2 DEF InboxAppended
<1>5. Queued(t) \subseteq 1..Len(t.inbox)
  BY QueuedType
<1> SUFFICES SwitchAlone(u)
  BY DEF u
<1>6. CASE t.pending_generation = ""
  BY <1>1, <1>3, <1>4, <1>5, <1>6 DEF SwitchAlone
<1>7. CASE t.pending_generation # ""
  <2>1. PICK i \in 1..Len(t.inbox) :
          /\ Queued(t) = {i}
          /\ t.inbox[i].submission.event_type = Activation
          /\ t.inbox[i].submission.runtime_generation = t.pending_generation
    BY <1>7, QueuedType DEF SwitchAlone
  <2>2. i \in DOMAIN u.inbox
    <3>1. i \in Queued(u)
      BY <1>3, <2>1
    <3> QED BY <3>1 DEF Queued
  <2>3. t.projection.supervisor = "stopped"
    BY <1>7 DEF SwitchAlone
  <2>4. u.inbox[i] = t.inbox[i]
    BY <1>4, <2>1
  <2> QED BY <1>1, <1>3, <1>7, <2>1, <2>2, <2>3, <2>4, Zenon DEF SwitchAlone
<1> QED BY <1>6, <1>7

\* What submit has checked of a submission it does not refuse.
LEMMA NotRejected ==
  ASSUME NEW t, NEW s, Rejection(t, s) = ""
  PROVE  /\ t.pending_generation = ""
         /\ s.event_type = Activation =>
              t.projection.supervisor = "stopped" /\ Queued(t) = {}
         /\ s.event_type # Activation =>
              s.runtime_generation = t.active_generation
<1>1. ActivationRejection(t, s) = "" =>
        t.projection.supervisor = "stopped" /\ Queued(t) = {}
  BY Zenon DEF ActivationRejection
<1>2. t.pending_generation = ""
  BY DEF Rejection
<1>3. s.event_type = Activation => ActivationRejection(t, s) = ""
  BY DEF Rejection
<1>4. s.event_type # Activation => s.runtime_generation = t.active_generation
  BY DEF Rejection
<1> QED BY <1>1, <1>2, <1>3, <1>4

\* An activation is queued into an empty inbox of a stopped supervisor, and
\* nothing is queued behind it.
LEMMA InsertQueuedSwitch ==
  ASSUME NEW t \in Tables, NEW s \in Submissions, Rejection(t, s) = "",
         SwitchAlone(t)
  PROVE  SwitchAlone(InsertQueued(t, s))
<1> DEFINE u == InsertQueued(t, s)
           row == NewRow(s, "queued", "")
           n == Len(t.inbox)
<1>1. /\ u \in Tables /\ u.projection = t.projection
      /\ u.active_generation = t.active_generation
      /\ u.pending_generation = IF s.event_type = Activation
                                  THEN s.runtime_generation
                                  ELSE t.pending_generation
  BY InsertQueuedFields, Zenon
<1>2. InboxAppended(t, u, row) /\ row.status = "queued" /\ row.submission = s
  BY InsertQueuedInbox, Zenon
<1> HIDE DEF u, row
<1>3. Queued(u) = Queued(t) \cup {n + 1}
  BY <1>1, <1>2, QueuedAppended
<1>4. u.inbox[n + 1] = row /\ \A j \in 1..n : u.inbox[j] = t.inbox[j]
  BY <1>2 DEF InboxAppended
<1>5. Queued(t) \subseteq 1..n
  BY QueuedType
<1> HIDE DEF n
<1> SUFFICES SwitchAlone(u)
  BY DEF u
<1>6. CASE s.event_type = Activation
  <2>1. s.runtime_generation # ""
    <3>1. s \in Submission
      BY SubmissionType, Zenon
    <3>2. s.runtime_generation \in Generation
      BY <3>1 DEF Submission
    <3> QED BY <3>2, IdAssumption
  <2>2. u.pending_generation = s.runtime_generation
    BY <1>1, <1>6
  <2>3. t.projection.supervisor = "stopped" /\ Queued(u) = {n + 1}
    BY <1>3, <1>6, NotRejected
  <2>4. n + 1 \in DOMAIN u.inbox
    <3>1. n + 1 \in Queued(u)
      BY <1>3
    <3> QED BY <3>1 DEF Queued
  <2>5. u.inbox[n + 1].submission = s
    BY <1>2, <1>4
  <2> QED BY <1>1, <1>6, <2>1, <2>2, <2>3, <2>4, <2>5 DEF SwitchAlone
<1>7. CASE s.event_type # Activation
  <2>1. u.pending_generation = "" /\ t.pending_generation = ""
    BY <1>1, <1>7, NotRejected
  <2>2. s.runtime_generation = t.active_generation
    BY <1>7, NotRejected
  <2>3. \A j \in Queued(t) :
          /\ t.inbox[j].submission.event_type # Activation
          /\ t.inbox[j].submission.runtime_generation = t.active_generation
    BY <2>1 DEF SwitchAlone
  <2>4. \A j \in Queued(u) :
          /\ u.inbox[j].submission.event_type # Activation
          /\ u.inbox[j].submission.runtime_generation = u.active_generation
    BY <1>1, <1>2, <1>3, <1>4, <1>5, <1>7, <2>2, <2>3
  <2> QED BY <2>1, <2>4 DEF SwitchAlone
<1> QED BY <1>6, <1>7

\* Settling the row of a pending activation ends the switch; settling any
\* other row leaves the rest of the queue as it was.
LEMMA SettledSwitch ==
  ASSUME NEW t \in Tables, NEW u \in Tables, NEW i \in Queued(t),
         NEW status, NEW id, InboxSettled(t, u.inbox, i, status, id),
         status # "queued", SwitchAlone(t),
         t.inbox[i].submission.event_type = Activation =>
           u.pending_generation = "",
         t.inbox[i].submission.event_type # Activation =>
           /\ u.pending_generation = t.pending_generation
           /\ u.active_generation = t.active_generation
  PROVE  SwitchAlone(u)
<1>1. Queued(u) = Queued(t) \ {i}
  BY QueuedSettled, Zenon
<1>2. \A j \in 1..Len(t.inbox) : j # i => u.inbox[j] = t.inbox[j]
  BY DEF InboxSettled
<1>3. Queued(t) \subseteq 1..Len(t.inbox)
  BY QueuedType
<1>4. CASE t.pending_generation = ""
  <2>1. \A j \in Queued(t) :
          /\ t.inbox[j].submission.event_type # Activation
          /\ t.inbox[j].submission.runtime_generation = t.active_generation
    BY <1>4 DEF SwitchAlone
  <2>2. u.pending_generation = "" /\ u.active_generation = t.active_generation
    BY <1>4, <2>1
  <2>3. \A j \in Queued(u) :
          /\ u.inbox[j].submission.event_type # Activation
          /\ u.inbox[j].submission.runtime_generation = u.active_generation
    BY <1>1, <1>2, <1>3, <2>1, <2>2
  <2> QED BY <2>2, <2>3 DEF SwitchAlone
<1>5. CASE t.pending_generation # ""
  <2>1. PICK k \in DOMAIN t.inbox :
          /\ Queued(t) = {k}
          /\ t.inbox[k].submission.event_type = Activation
    BY <1>5, Zenon DEF SwitchAlone
  <2>2. k = i
    BY <2>1
  <2>3. u.pending_generation = "" /\ Queued(u) = {}
    BY <1>1, <2>1, <2>2
  <2> QED BY <2>3 DEF SwitchAlone
<1> QED BY <1>4, <1>5
-----------------------------------------------------------------------------
(* AppliedOnce, in parts: n is the length of the inbox, m of the ledger *)

\* Among the first n rows a submission has at most one.
OneRow(t, n) == \A i, j \in 1..n :
  t.inbox[i].submission = t.inbox[j].submission => i = j

\* Among the first m ledger rows a submission has at most one.
OnePlace(t, m) == \A j, k \in 1..m :
  t.ledger[j].envelope.body = t.ledger[k].envelope.body => j = k

\* Each applied row is in the ledger.
HasPlace(t, n, m) == \A i \in 1..n : t.inbox[i].status = "applied" =>
  \E k \in 1..m : t.ledger[k].envelope.body = t.inbox[i].submission

\* Inbox row i is the receipt of ledger row k.
IsRowOf(t, i, k) ==
  /\ t.inbox[i].status = "applied"
  /\ t.inbox[i].submission = t.ledger[k].envelope.body
  /\ t.inbox[i].event_id = t.ledger[k].envelope.event_id
  /\ t.inbox[i].writer_epoch = t.ledger[k].writer_epoch

\* Each ledger row has its receipt.
HasRow(t, n, m) == \A k \in 1..m : \E i \in 1..n : IsRowOf(t, i, k)

\* The ledger's positions.
LEMMA LedgerType ==
  ASSUME NEW t \in Tables
  PROVE  Len(t.ledger) \in Nat /\ DOMAIN t.ledger = 1..Len(t.ledger)
<1> DEFINE l == t.ledger
<1>1. l \in Seq(LedgerRow)
  BY TablesType
<1> HIDE DEF l
<1>2. Len(l) \in Nat /\ DOMAIN l = 1..Len(l)
  BY <1>1
<1> QED BY <1>2 DEF l

\* AppliedOnce by parts, over intervals of positions.
LEMMA AppliedOnceIs ==
  ASSUME NEW t \in Tables
  PROVE  AppliedOnce(t) <=> LET n == Len(t.inbox)
                                m == Len(t.ledger)
                            IN  /\ OneRow(t, n) /\ OnePlace(t, m)
                                /\ HasPlace(t, n, m) /\ HasRow(t, n, m)
<1>1. DOMAIN t.inbox = 1..Len(t.inbox)
  BY QueuedType
<1>2. DOMAIN t.ledger = 1..Len(t.ledger)
  BY LedgerType
<1> QED BY <1>1, <1>2, SMT DEF AppliedOnce, OneRow, OnePlace, HasPlace,
        HasRow, IsRowOf

\* A new row that is not applied, of a submission that has none yet.
LEMMA AppendedOnce ==
  ASSUME NEW t \in Tables, NEW u \in Tables, NEW row, InboxAppended(t, u, row),
         row.status # "applied", RowsOf(t, row.submission) = {},
         u.ledger = t.ledger, AppliedOnce(t)
  PROVE  AppliedOnce(u)
<1> DEFINE n == Len(t.inbox)
           m == Len(t.ledger)
<1>1. n \in Nat /\ DOMAIN t.inbox = 1..n
  BY QueuedType
<1>2. /\ Len(u.inbox) = n + 1 /\ u.inbox[n + 1] = row
      /\ \A j \in 1..n : u.inbox[j] = t.inbox[j]
  BY DEF InboxAppended
<1>3. \A j \in 1..n : t.inbox[j].submission # row.submission
  BY <1>1 DEF RowsOf
<1>4. /\ OneRow(t, n) /\ OnePlace(t, m)
      /\ HasPlace(t, n, m) /\ HasRow(t, n, m)
  BY AppliedOnceIs, Zenon
<1>5. Len(u.ledger) = m /\ \A k : u.ledger[k] = t.ledger[k]
  OBVIOUS
<1> HIDE DEF n, m
<1>6. \A j : j \in 1..(n + 1) <=> j \in 1..n \/ j = n + 1
  BY <1>1
<1>7. OneRow(u, n + 1)
  BY <1>2, <1>3, <1>4, <1>6 DEF OneRow
<1>8. OnePlace(u, m)
  BY <1>4, <1>5, Zenon DEF OnePlace
<1>9. HasPlace(u, n + 1, m)
  BY <1>2, <1>4, <1>5, <1>6 DEF HasPlace
<1>10. HasRow(u, n + 1, m)
  <2> SUFFICES ASSUME NEW k \in 1..m PROVE \E i \in 1..(n + 1) : IsRowOf(u, i, k)
    BY DEF HasRow
  <2>1. PICK i \in 1..n : IsRowOf(t, i, k)
    BY <1>4 DEF HasRow
  <2>2. IsRowOf(u, i, k)
    BY <1>2, <1>5, <2>1, Zenon DEF IsRowOf
  <2> QED BY <1>6, <2>2
<1> QED BY <1>2, <1>5, <1>7, <1>8, <1>9, <1>10, AppliedOnceIs, Zenon

\* The same, for a queued row of t.
RowSettled(t, u, i, status, id) ==
  /\ i \in 1..Len(t.inbox) /\ t.inbox[i].status = "queued"
  /\ Len(u.inbox) = Len(t.inbox)
  /\ \A j \in 1..Len(t.inbox) : u.inbox[j].submission = t.inbox[j].submission
  /\ \A j \in 1..Len(t.inbox) : j # i => u.inbox[j] = t.inbox[j]
  /\ u.inbox[i].status = status /\ u.inbox[i].event_id = id
  /\ u.inbox[i].writer_epoch = t.writer_epoch

\* Settle turns a queued row into a settled one.
LEMMA QueuedRowSettled ==
  ASSUME NEW t \in Tables, NEW u, NEW i \in Queued(t),
         NEW status, NEW id, InboxSettled(t, u.inbox, i, status, id)
  PROVE  RowSettled(t, u, i, status, id)
<1>1. i \in 1..Len(t.inbox) /\ t.inbox[i].status = "queued"
  BY QueuedIs
<1>2. /\ Len(u.inbox) = Len(t.inbox)
      /\ \A j \in 1..Len(t.inbox) : j # i => u.inbox[j] = t.inbox[j]
      /\ u.inbox[i].submission = t.inbox[i].submission
      /\ u.inbox[i].status = status
      /\ u.inbox[i].event_id = id
      /\ u.inbox[i].writer_epoch = t.writer_epoch
  BY DEF InboxSettled
<1>3. \A j \in 1..Len(t.inbox) :
        u.inbox[j].submission = t.inbox[j].submission
  BY <1>2
<1> QED BY <1>1, <1>2, <1>3 DEF RowSettled

\* A rejected row has no place in the ledger and needs none.
LEMMA RejectedOnce ==
  ASSUME NEW t \in Tables, NEW u \in Tables, NEW i \in Queued(t), NEW id,
         InboxSettled(t, u.inbox, i, "rejected", id),
         u.ledger = t.ledger, AppliedOnce(t)
  PROVE  AppliedOnce(u)
<1> DEFINE n == Len(t.inbox)
           m == Len(t.ledger)
<1>1. /\ i \in 1..n /\ t.inbox[i].status = "queued" /\ Len(u.inbox) = n
      /\ \A j \in 1..n : u.inbox[j].submission = t.inbox[j].submission
      /\ \A j \in 1..n : j # i => u.inbox[j] = t.inbox[j]
      /\ u.inbox[i].status = "rejected"
  <2>1. RowSettled(t, u, i, "rejected", id)
    BY QueuedRowSettled, Zenon
  <2> QED BY <2>1 DEF RowSettled
<1>2. /\ OneRow(t, n) /\ OnePlace(t, m)
      /\ HasPlace(t, n, m) /\ HasRow(t, n, m)
  BY AppliedOnceIs, Zenon
<1>3. Len(u.ledger) = m /\ \A k : u.ledger[k] = t.ledger[k]
  OBVIOUS
<1> HIDE DEF n, m
<1>4. OneRow(u, n)
  BY <1>1, <1>2 DEF OneRow
<1>5. OnePlace(u, m)
  BY <1>2, <1>3 DEF OnePlace
<1>6. HasPlace(u, n, m)
  BY <1>1, <1>2, <1>3 DEF HasPlace
<1>7. HasRow(u, n, m)
  <2> SUFFICES ASSUME NEW k \in 1..m PROVE \E j \in 1..n : IsRowOf(u, j, k)
    BY DEF HasRow
  <2>1. PICK j \in 1..n : IsRowOf(t, j, k)
    BY <1>2 DEF HasRow
  <2>2. j # i
    BY <1>1, <2>1 DEF IsRowOf
  <2>3. IsRowOf(u, j, k)
    BY <1>1, <1>3, <2>1, <2>2, Zenon DEF IsRowOf
  <2> QED BY <2>3
<1> QED BY <1>1, <1>3, <1>4, <1>5, <1>6, <1>7, AppliedOnceIs, Zenon

\* An applied row gets the new last place of the ledger, and it alone.
LEMMA AppliedRowOnce ==
  ASSUME NEW t \in Tables, NEW u \in Tables, NEW i \in Queued(t),
         NEW e \in Envelope, NEW w \in Writers,
         InboxSettled(t, u.inbox, i, "applied", e.event_id),
         u.ledger = Append(t.ledger, LedgerRowOf(t, e, w)),
         e.body = t.inbox[i].submission, AppliedOnce(t)
  PROVE  AppliedOnce(u)
<1> DEFINE n == Len(t.inbox)
           m == Len(t.ledger)
           new == LedgerRowOf(t, e, w)
<1>1. /\ i \in 1..n /\ t.inbox[i].status = "queued" /\ Len(u.inbox) = n
      /\ \A j \in 1..n : u.inbox[j].submission = t.inbox[j].submission
      /\ \A j \in 1..n : j # i => u.inbox[j] = t.inbox[j]
      /\ u.inbox[i].status = "applied" /\ u.inbox[i].event_id = e.event_id
      /\ u.inbox[i].writer_epoch = t.writer_epoch
  <2>1. RowSettled(t, u, i, "applied", e.event_id)
    BY QueuedRowSettled, Zenon
  <2> QED BY <2>1 DEF RowSettled
<1>2. /\ OneRow(t, n) /\ OnePlace(t, m)
      /\ HasPlace(t, n, m) /\ HasRow(t, n, m)
  BY AppliedOnceIs, Zenon
<1>3. new \in LedgerRow /\ new.envelope = e /\ new.writer_epoch = t.writer_epoch
  BY TablesType DEF LedgerRowOf, LedgerRow
<1>4. /\ Len(u.ledger) = m + 1 /\ m \in Nat /\ u.ledger[m + 1] = new
      /\ \A k \in 1..m : u.ledger[k] = t.ledger[k]
  <2> DEFINE l == t.ledger
  <2>1. l \in Seq(LedgerRow) /\ u.ledger = Append(l, new)
    BY TablesType
  <2> HIDE DEF l, new
  <2>2. /\ Len(Append(l, new)) = Len(l) + 1 /\ Len(l) \in Nat
        /\ Append(l, new)[Len(l) + 1] = new
        /\ \A k \in 1..Len(l) : Append(l, new)[k] = l[k]
    BY <1>3, <2>1
  <2> QED BY <2>1, <2>2 DEF l
<1> HIDE DEF n, m, new
<1>5. \A k : k \in 1..(m + 1) <=> k \in 1..m \/ k = m + 1
  BY <1>4
<1>6. \A k \in 1..m : t.ledger[k].envelope.body # e.body
  <2> SUFFICES ASSUME NEW k \in 1..m, t.ledger[k].envelope.body = e.body
               PROVE FALSE
    OBVIOUS
  <2>1. PICK j \in 1..n : IsRowOf(t, j, k)
    BY <1>2 DEF HasRow
  <2>2. j = i
    BY <1>1, <1>2, <2>1 DEF IsRowOf, OneRow
  <2> QED BY <1>1, <2>1, <2>2 DEF IsRowOf
<1>7. OneRow(u, n)
  BY <1>1, <1>2 DEF OneRow
<1>8. OnePlace(u, m + 1)
  BY <1>2, <1>3, <1>4, <1>5, <1>6 DEF OnePlace
<1>9. HasPlace(u, n, m + 1)
  <2> SUFFICES ASSUME NEW j \in 1..n, u.inbox[j].status = "applied"
               PROVE  \E k \in 1..(m + 1) :
                        u.ledger[k].envelope.body = u.inbox[j].submission
    BY DEF HasPlace
  <2>1. CASE j = i
    BY <1>1, <1>3, <1>4, <1>5, <2>1
  <2>2. CASE j # i
    <3>1. PICK k \in 1..m : t.ledger[k].envelope.body = t.inbox[j].submission
      BY <1>1, <1>2, <2>2 DEF HasPlace
    <3> QED BY <1>1, <1>4, <1>5, <3>1
  <2> QED BY <2>1, <2>2
<1>10. HasRow(u, n, m + 1)
  <2> SUFFICES ASSUME NEW k \in 1..(m + 1) PROVE \E j \in 1..n : IsRowOf(u, j, k)
    BY DEF HasRow
  <2>1. CASE k = m + 1
    <3>1. IsRowOf(u, i, m + 1)
      BY <1>1, <1>3, <1>4 DEF IsRowOf
    <3> QED BY <1>1, <2>1, <3>1
  <2>2. CASE k \in 1..m
    <3>1. PICK j \in 1..n : IsRowOf(t, j, k)
      BY <1>2, <2>2 DEF HasRow
    <3>2. j # i
      BY <1>1, <3>1 DEF IsRowOf
    <3>3. IsRowOf(u, j, k)
      BY <1>1, <1>4, <2>2, <3>1, <3>2, Zenon DEF IsRowOf
    <3> QED BY <3>3
  <2> QED BY <1>5, <2>1, <2>2
<1> QED BY <1>1, <1>4, <1>7, <1>8, <1>9, <1>10, AppliedOnceIs, Zenon
-----------------------------------------------------------------------------
(* History only grows, and what was true of a receipt stays true *)

\* u continues t: rows are added or settled, nothing is rewritten.
Extends(t, u) ==
  /\ Len(t.inbox) <= Len(u.inbox)
  /\ \A j \in 1..Len(t.inbox) :
       /\ u.inbox[j].submission = t.inbox[j].submission
       /\ t.inbox[j].status # "queued" => u.inbox[j] = t.inbox[j]
  /\ Len(t.ledger) <= Len(u.ledger)
  /\ \A k \in 1..Len(t.ledger) : u.ledger[k] = t.ledger[k]

\* The receipts are true of the tables.
Holds(t, receipts) ==
  \A r \in receipts : \E i \in 1..Len(t.inbox) :
    /\ t.inbox[i].submission = r.submission
    /\ r.status # "queued" => t.inbox[i].status = r.status

\* Tables continue themselves.
LEMMA ExtendsReflexive ==
  ASSUME NEW t \in Tables
  PROVE  Extends(t, t)
<1>1. Len(t.inbox) \in Nat /\ Len(t.ledger) \in Nat
  BY QueuedType, LedgerType
<1> QED BY <1>1 DEF Extends

\* Continuing is transitive: a batch is a chain of row steps.
LEMMA ExtendsTransitive ==
  ASSUME NEW t \in Tables, NEW u \in Tables, NEW v \in Tables,
         Extends(t, u), Extends(u, v)
  PROVE  Extends(t, v)
<1>1. /\ Len(t.inbox) \in Nat /\ Len(t.ledger) \in Nat
      /\ Len(u.inbox) \in Nat /\ Len(u.ledger) \in Nat
      /\ Len(v.inbox) \in Nat /\ Len(v.ledger) \in Nat
  BY QueuedType, LedgerType
<1>2. \A j \in 1..Len(t.inbox) : j \in 1..Len(u.inbox)
  BY <1>1 DEF Extends
<1>3. \A k \in 1..Len(t.ledger) : k \in 1..Len(u.ledger)
  BY <1>1 DEF Extends
<1>4. Len(t.inbox) <= Len(v.inbox) /\ Len(t.ledger) <= Len(v.ledger)
  BY <1>1 DEF Extends
<1>5. \A j \in 1..Len(t.inbox) :
        /\ v.inbox[j].submission = t.inbox[j].submission
        /\ t.inbox[j].status # "queued" => v.inbox[j] = t.inbox[j]
  <2> TAKE j \in 1..Len(t.inbox)
  <2>1. j \in 1..Len(u.inbox)
    BY <1>2
  <2>2. /\ u.inbox[j].submission = t.inbox[j].submission
        /\ t.inbox[j].status # "queued" => u.inbox[j] = t.inbox[j]
    BY DEF Extends
  <2>3. /\ v.inbox[j].submission = u.inbox[j].submission
        /\ u.inbox[j].status # "queued" => v.inbox[j] = u.inbox[j]
    BY <2>1 DEF Extends
  <2> QED BY <2>2, <2>3
<1>6. \A k \in 1..Len(t.ledger) : v.ledger[k] = t.ledger[k]
  BY <1>3 DEF Extends
<1> QED BY <1>4, <1>5, <1>6 DEF Extends

\* Inserting a row continues the tables.
LEMMA AppendedExtends ==
  ASSUME NEW t \in Tables, NEW u, NEW row, InboxAppended(t, u, row),
         u.ledger = t.ledger
  PROVE  Extends(t, u)
<1>1. Len(t.inbox) \in Nat /\ Len(t.ledger) \in Nat
  BY QueuedType, LedgerType
<1>2. Len(t.inbox) <= Len(u.inbox)
  BY <1>1 DEF InboxAppended
<1>3. \A j \in 1..Len(t.inbox) : u.inbox[j] = t.inbox[j]
  BY DEF InboxAppended
<1> QED BY <1>1, <1>2, <1>3 DEF Extends

\* Settling a queued row continues the tables.
LEMMA SettledExtends ==
  ASSUME NEW t \in Tables, NEW u, NEW i, NEW status, NEW id,
         RowSettled(t, u, i, status, id),
         Len(t.ledger) <= Len(u.ledger),
         \A k \in 1..Len(t.ledger) : u.ledger[k] = t.ledger[k]
  PROVE  Extends(t, u)
<1>1. Len(t.inbox) \in Nat /\ Len(u.inbox) = Len(t.inbox)
  BY QueuedType DEF RowSettled
<1>2. \A j \in 1..Len(t.inbox) :
        /\ u.inbox[j].submission = t.inbox[j].submission
        /\ t.inbox[j].status # "queued" => u.inbox[j] = t.inbox[j]
  <2> TAKE j \in 1..Len(t.inbox)
  <2>1. CASE j = i
    BY <2>1 DEF RowSettled
  <2>2. CASE j # i
    BY <2>2 DEF RowSettled
  <2> QED BY <2>1, <2>2
<1> QED BY <1>1, <1>2 DEF Extends

\* A receipt that is true of the tables is true of what continues them.
LEMMA HoldsExtends ==
  ASSUME NEW t \in Tables, NEW u \in Tables, NEW R, Holds(t, R), Extends(t, u)
  PROVE  Holds(u, R)
<1> SUFFICES ASSUME NEW r \in R
             PROVE  \E i \in 1..Len(u.inbox) :
                      /\ u.inbox[i].submission = r.submission
                      /\ r.status # "queued" => u.inbox[i].status = r.status
  BY DEF Holds
<1>1. PICK i \in 1..Len(t.inbox) :
        /\ t.inbox[i].submission = r.submission
        /\ r.status # "queued" => t.inbox[i].status = r.status
  BY DEF Holds
<1>2. Len(t.inbox) \in Nat /\ Len(u.inbox) \in Nat
  BY QueuedType
<1>3. i \in 1..Len(u.inbox)
  BY <1>2 DEF Extends
<1>4. /\ u.inbox[i].submission = t.inbox[i].submission
      /\ t.inbox[i].status # "queued" => u.inbox[i] = t.inbox[i]
  BY DEF Extends
<1>5. r.status # "queued" => u.inbox[i].status = r.status
  BY <1>1, <1>4
<1> QED BY <1>1, <1>3, <1>4, <1>5
-----------------------------------------------------------------------------
(* What every operation on the tables keeps *)

\* The meta row and the projection name the same generation and context, and a
\* bound context pins the generation.
MetaAgrees(t) ==
  /\ t.active_generation = t.projection.runtime_generation
  /\ t.projection.task_epoch_context_id = t.initial.task_epoch_context_id
  /\ t.initial.task_epoch_context_id # "" =>
       t.active_generation = t.initial.runtime_generation

\* Tables a store may hold.
Sound(t) ==
  t \in Tables /\ MetaAgrees(t) /\ SwitchAlone(t) /\ AppliedOnce(t)

\* What submit or drain answers.
ReceiptFor(s, status) == [submission |-> s, status |-> status]

\* The receipt of a new row is true.
LEMMA AppendedHolds ==
  ASSUME NEW t \in Tables, NEW u, NEW row, InboxAppended(t, u, row)
  PROVE  Holds(u, {ReceiptFor(row.submission, row.status)})
<1>1. Len(t.inbox) \in Nat
  BY QueuedType
<1>2. /\ Len(u.inbox) = Len(t.inbox) + 1
      /\ u.inbox[Len(t.inbox) + 1] = row
  BY DEF InboxAppended
<1>3. Len(t.inbox) + 1 \in 1..Len(u.inbox)
  BY <1>1, <1>2
<1>4. /\ ReceiptFor(row.submission, row.status).submission = row.submission
      /\ ReceiptFor(row.submission, row.status).status = row.status
  BY DEF ReceiptFor
<1>5. /\ u.inbox[Len(t.inbox) + 1].submission = row.submission
      /\ u.inbox[Len(t.inbox) + 1].status = row.status
  BY <1>2
<1> QED BY <1>3, <1>4, <1>5, Zenon DEF Holds

\* An unchanged ledger keeps its type.
LEMMA SameLedger ==
  ASSUME NEW t \in Tables, NEW u, u.ledger = t.ledger
  PROVE  /\ Len(t.ledger) <= Len(u.ledger)
         /\ \A k \in 1..Len(t.ledger) : u.ledger[k] = t.ledger[k]
<1>1. Len(t.ledger) \in Nat
  BY LedgerType
<1>2. Len(t.ledger) <= Len(u.ledger)
  BY <1>1
<1> QED BY <1>2

\* submit's refusal keeps the tables sound.
LEMMA InsertRejectedSound ==
  ASSUME NEW t, Sound(t), NEW s \in Submissions,
         Rejection(t, s) # "", RowsOf(t, s) = {}
  PROVE  LET u == InsertRejected(t, s)
         IN  Sound(u) /\ Extends(t, u) /\ Holds(u, {ReceiptFor(s, "rejected")})
<1> DEFINE u == InsertRejected(t, s)
           row == NewRow(s, "rejected", Rejection(t, s))
<1>1. t \in Tables /\ MetaAgrees(t) /\ SwitchAlone(t) /\ AppliedOnce(t)
  BY DEF Sound
<1>2. /\ u \in Tables /\ u.ledger = t.ledger /\ u.projection = t.projection
      /\ u.active_generation = t.active_generation /\ u.initial = t.initial
  BY <1>1, InsertRejectedFields, Zenon
<1>3. /\ InboxAppended(t, u, row)
      /\ row.submission = s /\ row.status = "rejected"
  BY <1>1, InsertRejectedInbox, Zenon
<1>4. SwitchAlone(u)
  BY <1>1, InsertRejectedSwitch, Zenon
<1> HIDE DEF u, row
<1>5. AppliedOnce(u)
  <2>1. row.status # "applied" /\ RowsOf(t, row.submission) = {}
    BY <1>3
  <2> QED BY <1>1, <1>2, <1>3, <2>1, AppendedOnce, Zenon
<1>6. MetaAgrees(u)
  BY <1>1, <1>2, Zenon DEF MetaAgrees
<1>7. Extends(t, u)
  BY <1>1, <1>2, <1>3, AppendedExtends, Zenon
<1>8. Holds(u, {ReceiptFor(s, "rejected")})
  BY <1>1, <1>3, AppendedHolds, Zenon
<1> QED BY <1>2, <1>4, <1>5, <1>6, <1>7, <1>8, Zenon DEF Sound, u

\* submit's acceptance keeps the tables sound.
LEMMA InsertQueuedSound ==
  ASSUME NEW t, Sound(t), NEW s \in Submissions,
         Rejection(t, s) = "", RowsOf(t, s) = {}
  PROVE  LET u == InsertQueued(t, s)
         IN  Sound(u) /\ Extends(t, u) /\ Holds(u, {ReceiptFor(s, "queued")})
<1> DEFINE u == InsertQueued(t, s)
           row == NewRow(s, "queued", "")
<1>1. t \in Tables /\ MetaAgrees(t) /\ SwitchAlone(t) /\ AppliedOnce(t)
  BY DEF Sound
<1>2. /\ u \in Tables /\ u.ledger = t.ledger /\ u.projection = t.projection
      /\ u.active_generation = t.active_generation /\ u.initial = t.initial
  BY <1>1, InsertQueuedFields, Zenon
<1>3. /\ InboxAppended(t, u, row)
      /\ row.submission = s /\ row.status = "queued"
  BY <1>1, InsertQueuedInbox, Zenon
<1>4. SwitchAlone(u)
  BY <1>1, InsertQueuedSwitch, Zenon
<1> HIDE DEF u, row
<1>5. AppliedOnce(u)
  <2>1. row.status # "applied" /\ RowsOf(t, row.submission) = {}
    BY <1>3
  <2> QED BY <1>1, <1>2, <1>3, <2>1, AppendedOnce, Zenon
<1>6. MetaAgrees(u)
  BY <1>1, <1>2, Zenon DEF MetaAgrees
<1>7. Extends(t, u)
  BY <1>1, <1>2, <1>3, AppendedExtends, Zenon
<1>8. Holds(u, {ReceiptFor(s, "queued")})
  BY <1>1, <1>3, AppendedHolds, Zenon
<1> QED BY <1>2, <1>4, <1>5, <1>6, <1>7, <1>8, Zenon DEF Sound, u

\* A refused row of a batch keeps the tables sound.
LEMMA RejectRowSound ==
  ASSUME NEW t, Sound(t), NEW i \in Queued(t)
  PROVE  LET u == RejectRow(t, i)
         IN  /\ Sound(u) /\ Extends(t, u) /\ Queued(u) = Queued(t) \ {i}
             /\ Holds(u, {ReceiptFor(t.inbox[i].submission, "rejected")})
<1> DEFINE u == RejectRow(t, i)
           sub == t.inbox[i].submission
<1>1. /\ t \in Tables /\ MetaAgrees(t) /\ SwitchAlone(t) /\ AppliedOnce(t)
      /\ i \in 1..Len(t.inbox)
  BY QueuedIs DEF Sound
<1>2. /\ u \in Tables /\ u.ledger = t.ledger /\ u.projection = t.projection
      /\ u.active_generation = t.active_generation /\ u.initial = t.initial
      /\ u.pending_generation = IF sub.event_type = Activation THEN ""
                                ELSE t.pending_generation
  BY <1>1, RejectRowFields, Zenon
<1>3. InboxSettled(t, u.inbox, i, "rejected", NoEvent)
  BY <1>1, RejectRowInbox, Zenon
<1> HIDE DEF u
<1>4. RowSettled(t, u, i, "rejected", NoEvent)
  BY <1>1, <1>3, QueuedRowSettled, Zenon
<1>5. SwitchAlone(u)
  <2>1. /\ t.inbox[i].submission.event_type = Activation =>
             u.pending_generation = ""
        /\ t.inbox[i].submission.event_type # Activation =>
             /\ u.pending_generation = t.pending_generation
             /\ u.active_generation = t.active_generation
        /\ "rejected" # "queued"
    BY <1>2
  <2> QED BY <1>1, <1>2, <1>3, <2>1, SettledSwitch, Zenon
<1>6. AppliedOnce(u)
  BY <1>1, <1>2, <1>3, RejectedOnce, Zenon
<1>7. MetaAgrees(u)
  BY <1>1, <1>2, Zenon DEF MetaAgrees
<1>8. Extends(t, u)
  BY <1>1, <1>2, <1>4, SameLedger, SettledExtends, Zenon
<1>9. Queued(u) = Queued(t) \ {i}
  <2>1. "rejected" # "queued"
    OBVIOUS
  <2> QED BY <1>1, <1>2, <1>3, <2>1, QueuedSettled, Zenon
<1>10. Holds(u, {ReceiptFor(sub, "rejected")})
  BY <1>1, <1>4 DEF Holds, ReceiptFor, RowSettled
<1> QED BY <1>2, <1>5, <1>6, <1>7, <1>8, <1>9, <1>10, Zenon DEF Sound, u

\* An applied row of a batch keeps the tables sound.
LEMMA ApplyRowSound ==
  ASSUME NEW t, Sound(t), NEW i \in Queued(t), NEW w \in Writers,
         Accepts(t.projection,
                 NextEnvelope(t.projection, t.inbox[i].submission))
  PROVE  LET e == NextEnvelope(t.projection, t.inbox[i].submission)
             u == ApplyRow(t, i, e, w)
         IN  /\ Sound(u) /\ Extends(t, u) /\ Queued(u) = Queued(t) \ {i}
             /\ Holds(u, {ReceiptFor(t.inbox[i].submission, "applied")})
<1> DEFINE sub == t.inbox[i].submission
           e == NextEnvelope(t.projection, sub)
           u == ApplyRow(t, i, e, w)
           after == Apply(t.projection, e)
<1>1. /\ t \in Tables /\ MetaAgrees(t) /\ SwitchAlone(t) /\ AppliedOnce(t)
      /\ i \in 1..Len(t.inbox)
  BY QueuedIs DEF Sound
<1>2. t.projection \in GuardianState /\ sub \in Submission
  <2>1. t.projection \in GuardianState /\ t.inbox \in Seq(Row)
    BY <1>1, TablesType
  <2>2. t.inbox[i] \in Row
    BY <1>1, <2>1, ElementType, Zenon
  <2>3. sub \in Submissions
    BY <2>2 DEF Row
  <2> QED BY <2>1, <2>3, SubmissionType, Zenon
<1>3. e \in Envelope /\ e.body = sub
  BY <1>2, NextEnvelopeType, Zenon
<1>4. /\ after.task_epoch_context_id = t.projection.task_epoch_context_id
      /\ sub.event_type # Activation =>
           after.runtime_generation = t.projection.runtime_generation
      /\ sub.event_type = Activation =>
           after.runtime_generation = sub.runtime_generation
  BY <1>2, ApplyGeneration, Zenon
<1>5. \/ sub.runtime_generation = t.projection.runtime_generation
      \/ t.projection.task_epoch_context_id = ""
  <2>1. GenerationAccepted(t.projection, e.body)
    BY Zenon DEF Accepts
  <2>2. e.body = sub
    BY <1>3
  <2> HIDE DEF e, sub
  <2> QED BY <2>1, <2>2 DEF GenerationAccepted
<1> HIDE DEF e
<1>6. /\ u \in Tables /\ u.ledger = Append(t.ledger, LedgerRowOf(t, e, w))
      /\ u.projection = after /\ u.initial = t.initial
      /\ u.active_generation = IF e.body.event_type = Activation
                                 THEN after.runtime_generation
                                 ELSE t.active_generation
      /\ u.pending_generation = IF e.body.event_type = Activation THEN ""
                                ELSE t.pending_generation
  BY <1>1, <1>3, ApplyRowFields, Zenon
<1>7. InboxSettled(t, u.inbox, i, "applied", e.event_id)
  BY <1>1, <1>3, ApplyRowInbox, Zenon
<1> HIDE DEF u, after
<1>8. RowSettled(t, u, i, "applied", e.event_id)
  BY <1>1, <1>7, QueuedRowSettled, Zenon
<1>9. SwitchAlone(u)
  <2>1. /\ sub.event_type = Activation => u.pending_generation = ""
        /\ sub.event_type # Activation =>
             /\ u.pending_generation = t.pending_generation
             /\ u.active_generation = t.active_generation
        /\ "applied" # "queued"
    BY <1>3, <1>6
  <2> QED BY <1>1, <1>6, <1>7, <2>1, SettledSwitch, Zenon
<1>10. AppliedOnce(u)
  BY <1>1, <1>3, <1>6, <1>7, AppliedRowOnce, Zenon
<1>11. MetaAgrees(u)
  <2> HIDE DEF sub
  <2>1. CASE sub.event_type = Activation
    BY <1>1, <1>3, <1>4, <1>5, <1>6, <2>1 DEF MetaAgrees
  <2>2. CASE sub.event_type # Activation
    BY <1>1, <1>3, <1>4, <1>6, <2>2 DEF MetaAgrees
  <2> QED BY <2>1, <2>2
<1>12. Extends(t, u)
  <2> DEFINE l == t.ledger
             new == LedgerRowOf(t, e, w)
  <2>1. l \in Seq(LedgerRow) /\ u.ledger = Append(l, new)
    BY <1>1, <1>6, TablesType
  <2>2. new \in LedgerRow
    BY <1>1, <1>3, TablesType DEF LedgerRowOf, LedgerRow
  <2> HIDE DEF l, new
  <2>3. /\ Len(l) <= Len(Append(l, new))
        /\ \A k \in 1..Len(l) : Append(l, new)[k] = l[k]
    BY <2>1, <2>2
  <2>4. /\ Len(l) <= Len(u.ledger)
        /\ \A k \in 1..Len(l) : u.ledger[k] = l[k]
    BY <2>1, <2>3
  <2> QED BY <1>1, <1>8, <2>4, SettledExtends, Zenon DEF l
<1>13. Queued(u) = Queued(t) \ {i}
  <2>1. "applied" # "queued"
    OBVIOUS
  <2> QED BY <1>1, <1>6, <1>7, <2>1, QueuedSettled, Zenon
<1>14. Holds(u, {ReceiptFor(sub, "applied")})
  BY <1>1, <1>8 DEF Holds, ReceiptFor, RowSettled
<1> QED BY <1>6, <1>9, <1>10, <1>11, <1>12, <1>13, <1>14, Zenon DEF Sound, e, u

\* drain's new writer epoch keeps the tables sound.
LEMMA NextEpochSound ==
  ASSUME NEW t, Sound(t), NEW u, u = [t EXCEPT !.writer_epoch = @ + 1]
  PROVE  Sound(u) /\ Extends(t, u) /\ Queued(u) = Queued(t)
<1>1. t \in Tables /\ MetaAgrees(t) /\ SwitchAlone(t) /\ AppliedOnce(t)
  BY DEF Sound
<1>2. /\ u \in Tables /\ u.inbox = t.inbox /\ u.ledger = t.ledger
      /\ u.projection = t.projection /\ u.initial = t.initial
      /\ u.active_generation = t.active_generation
      /\ u.pending_generation = t.pending_generation
  <2> DEFINE n == t.writer_epoch + 1
  <2>1. n \in Nat
    <3>1. t.writer_epoch \in Nat
      BY <1>1, TablesType
    <3> QED BY <3>1
  <2>2. u = [t EXCEPT !.writer_epoch = n]
    OBVIOUS
  <2> HIDE DEF n
  <2> QED BY <1>1, <2>1, <2>2 DEF Tables
<1>3. Queued(u) = Queued(t)
  BY <1>2, Zenon DEF Queued
<1>4. SwitchAlone(u)
  BY <1>1, <1>2, <1>3, Zenon DEF SwitchAlone
<1>5. AppliedOnce(u)
  <2> DEFINE n == Len(t.inbox)
             m == Len(t.ledger)
  <2>1. /\ OneRow(t, n) /\ OnePlace(t, m)
        /\ HasPlace(t, n, m) /\ HasRow(t, n, m)
    BY <1>1, AppliedOnceIs, Zenon
  <2>2. Len(u.inbox) = n /\ Len(u.ledger) = m
    BY <1>2
  <2> HIDE DEF n, m
  <2>3. OneRow(u, n) /\ OnePlace(u, m)
    BY <1>2, <2>1 DEF OneRow, OnePlace
  <2>4. HasPlace(u, n, m)
    BY <1>2, <2>1 DEF HasPlace
  <2>5. HasRow(u, n, m)
    BY <1>2, <2>1 DEF HasRow, IsRowOf
  <2> QED BY <1>2, <2>2, <2>3, <2>4, <2>5, AppliedOnceIs, Zenon
<1>6. MetaAgrees(u)
  BY <1>1, <1>2, Zenon DEF MetaAgrees
<1>7. Extends(t, u)
  <2>1. Extends(t, t)
    BY <1>1, ExtendsReflexive, Zenon
  <2> QED BY <1>2, <2>1, Zenon DEF Extends
<1> QED BY <1>2, <1>3, <1>4, <1>5, <1>6, <1>7, Zenon DEF Sound

\* A store as initialize leaves it.
LEMMA FreshSound ==
  ASSUME NEW s \in Initials
  PROVE  Sound([initial |-> s, active_generation |-> s.runtime_generation,
                pending_generation |-> "", writer_epoch |-> 0,
                projection |-> s, inbox |-> <<>>, ledger |-> <<>>])
<1> DEFINE t == [initial |-> s, active_generation |-> s.runtime_generation,
                 pending_generation |-> "", writer_epoch |-> 0,
                 projection |-> s, inbox |-> <<>>, ledger |-> <<>>]
<1>1. PICK w \in Workspace, e \in TaskEpoch, g \in Generation, c \in Context :
        s = initial_state(w, e, g, c)
  BY StoreAssumption
<1>2. s \in GuardianState
  BY <1>1, InitialStateType
<1>3. s.runtime_generation \in Generation
  BY <1>2 DEF GuardianState
<1>4. t \in Tables
  BY <1>2, <1>3 DEF Tables
<1>5. /\ t.inbox = <<>> /\ t.ledger = <<>> /\ t.pending_generation = ""
      /\ t.initial = s /\ t.projection = s
      /\ t.active_generation = s.runtime_generation
  OBVIOUS
<1> HIDE DEF t
<1>6. DOMAIN t.inbox = {} /\ DOMAIN t.ledger = {}
  <2>1. DOMAIN <<>> = {}
    OBVIOUS
  <2> QED BY <1>5, <2>1, Zenon
<1>7. SwitchAlone(t)
  <2>1. Queued(t) = {}
    BY <1>6, Zenon DEF Queued
  <2> QED BY <1>5, <2>1, Zenon DEF SwitchAlone
<1>8. AppliedOnce(t)
  BY <1>6, Zenon DEF AppliedOnce
<1>9. MetaAgrees(t)
  BY <1>5, Zenon DEF MetaAgrees
<1> QED BY <1>4, <1>7, <1>8, <1>9, Zenon DEF Sound, t
-----------------------------------------------------------------------------
(* The inductive invariant *)

\* What is committed and what the open transaction has made of it are sound,
\* the second continues the first, every receipt that was or will be given is
\* true, and a drain's remaining rows are queued.
IInv ==
  /\ TypeOK
  /\ Sound(db) /\ Sound(work) /\ Extends(db, work)
  /\ Holds(db, told) /\ Holds(work, txn.receipts)
  /\ txn.op = "none" => work = db
  /\ txn.op # "drain" => txn.left = 0
  /\ txn.op = "drain" => /\ txn.writer \in Writers
                         /\ txn.left <= Cardinality(Queued(work))

\* The store as initialize leaves it.
LEMMA InitIInv == Init => IInv
<1> SUFFICES ASSUME Init PROVE IInv
  OBVIOUS
<1>1. Sound(db)
  BY FreshSound DEF Init
<1>2. db \in Tables
  BY <1>1 DEF Sound
<1>3. work = db /\ txn = Idle /\ told = {}
  BY DEF Init
<1>4. TypeOK
  BY <1>2, <1>3 DEF TypeOK, Idle
<1>5. Extends(db, work)
  BY <1>2, <1>3, ExtendsReflexive
<1>6. Holds(db, told) /\ Holds(work, txn.receipts)
  BY <1>3 DEF Holds, Idle
<1>7. txn.op = "none" /\ txn.left = 0
  BY <1>3 DEF Idle
<1> QED BY <1>1, <1>3, <1>4, <1>5, <1>6, <1>7 DEF IInv

\* What IInv says while no transaction is open.
LEMMA IdleFacts ==
  ASSUME IInv, txn = Idle
  PROVE  /\ Sound(db) /\ Sound(work) /\ work = db
         /\ db \in Tables /\ work \in Tables /\ told \subseteq Receipt
         /\ Holds(db, told)
<1>1. work = db
  BY DEF IInv, Idle
<1>2. Sound(db) /\ Holds(db, told) /\ db \in Tables /\ told \subseteq Receipt
  BY DEF IInv, TypeOK
<1> QED BY <1>1, <1>2

\* A submit that has done its work: u is what it has made of the tables.
LEMMA SubmitKeeps ==
  ASSUME IInv, txn = Idle, UNCHANGED <<db, told>>,
         NEW R \in SUBSET Receipt,
         txn' = [op |-> "submit", writer |-> "", left |-> 0, receipts |-> R],
         Sound(work'), Extends(work, work'), Holds(work', R)
  PROVE  IInv'
<1>1. /\ Sound(db) /\ work = db /\ db \in Tables /\ told \subseteq Receipt
      /\ Holds(db, told)
  BY IdleFacts
<1>2. work' \in Tables
  BY DEF Sound
<1>3. db' = db /\ told' = told
  OBVIOUS
<1>4. /\ txn'.op = "submit" /\ txn'.left = 0 /\ txn'.receipts = R
      /\ txn' \in [op: {"none", "submit", "drain"}, writer: Writers \cup {""},
                   left: Nat, receipts: SUBSET Receipt]
  OBVIOUS
<1>5. TypeOK'
  BY <1>1, <1>2, <1>3, <1>4 DEF TypeOK
<1>6. Sound(db') /\ Holds(db', told')
  BY <1>1, <1>3
<1>7. Extends(db', work')
  BY <1>1, <1>3
<1>8. Holds(work', txn'.receipts)
  BY <1>4
<1> QED BY <1>4, <1>5, <1>6, <1>7, <1>8 DEF IInv

\* A row's receipt is well typed.
LEMMA ReceiptOfType ==
  ASSUME NEW row \in Row
  PROVE  ReceiptOf(row) \in Receipt
BY DEF Row, ReceiptOf, Receipt

\* A retried submission reads its receipt back.
LEMMA ResubmitKeeps ==
  ASSUME IInv, NEW s \in Submissions, Resubmit(s)
  PROVE  IInv'
<1> DEFINE R == {ReceiptOf(row) : row \in {work.inbox[i] : i \in RowsOf(work, s)}}
<1>1. /\ txn = Idle /\ UNCHANGED <<db, told>> /\ work' = work
      /\ txn' = [op |-> "submit", writer |-> "", left |-> 0, receipts |-> R]
  BY DEF Resubmit, SubmitDone
<1>2. Sound(work) /\ work \in Tables
  BY <1>1, IdleFacts
<1>3. \A i \in RowsOf(work, s) : i \in 1..Len(work.inbox)
  BY <1>2, QueuedType DEF RowsOf
<1>4. \A i \in RowsOf(work, s) : work.inbox[i] \in Row
  <2> TAKE i \in RowsOf(work, s)
  <2>1. work.inbox \in Seq(Row) /\ i \in 1..Len(work.inbox)
    BY <1>2, <1>3, TablesType
  <2> QED BY <2>1, ElementType, Zenon
<1>5. R \in SUBSET Receipt
  <2>1. \A i \in RowsOf(work, s) : ReceiptOf(work.inbox[i]) \in Receipt
    BY <1>4, ReceiptOfType, Zenon
  <2> QED BY <2>1
<1>6. Holds(work, R)
  <2> SUFFICES ASSUME NEW i \in RowsOf(work, s)
               PROVE  LET r == ReceiptOf(work.inbox[i])
                      IN  /\ work.inbox[i].submission = r.submission
                          /\ r.status # "queued" => work.inbox[i].status = r.status
    BY <1>3 DEF Holds
  <2> QED BY DEF ReceiptOf
<1> HIDE DEF R
<1>7. Extends(work, work')
  BY <1>1, <1>2, ExtendsReflexive
<1>8. Sound(work') /\ Holds(work', R)
  BY <1>1, <1>2, <1>6
<1> QED BY <1>1, <1>5, <1>7, <1>8, SubmitKeeps

\* A receipt is a submission and a status.
LEMMA ReceiptForType ==
  ASSUME NEW s \in Submissions, NEW status \in {"queued", "applied", "rejected"}
  PROVE  ReceiptFor(s, status) \in Receipt
BY DEF ReceiptFor, Receipt

\* A refused submission.
LEMMA SubmitRejectedKeeps ==
  ASSUME IInv, NEW s \in Submissions, SubmitRejected(s)
  PROVE  IInv'
<1> DEFINE R == {ReceiptFor(s, "rejected")}
<1>1. /\ txn = Idle /\ UNCHANGED <<db, told>> /\ work' = InsertRejected(work, s)
      /\ txn' = [op |-> "submit", writer |-> "", left |-> 0, receipts |-> R]
      /\ RowsOf(work, s) = {} /\ Rejection(work, s) # ""
  <2>1. ReceiptOf(NewRow(s, "rejected", "")) = ReceiptFor(s, "rejected")
    BY DEF ReceiptOf, NewRow, ReceiptFor
  <2>2. {ReceiptOf(row) : row \in {NewRow(s, "rejected", "")}} = R
    BY <2>1
  <2>3. SubmitDone({NewRow(s, "rejected", "")})
    BY DEF SubmitRejected
  <2>4. txn' = [op |-> "submit", writer |-> "", left |-> 0, receipts |-> R]
    BY <2>2, <2>3, Zenon DEF SubmitDone
  <2> HIDE DEF R
  <2> QED BY <2>4 DEF SubmitRejected
<1>2. Sound(work)
  BY <1>1, IdleFacts
<1>3. Sound(work') /\ Extends(work, work') /\ Holds(work', R)
  BY <1>1, <1>2, InsertRejectedSound, Zenon
<1>4. R \in SUBSET Receipt
  BY ReceiptForType
<1> HIDE DEF R
<1> QED BY <1>1, <1>3, <1>4, SubmitKeeps

\* An accepted submission.
LEMMA SubmitQueuedKeeps ==
  ASSUME IInv, NEW s \in Submissions, SubmitQueued(s)
  PROVE  IInv'
<1> DEFINE R == {ReceiptFor(s, "queued")}
<1>1. /\ txn = Idle /\ UNCHANGED <<db, told>> /\ work' = InsertQueued(work, s)
      /\ txn' = [op |-> "submit", writer |-> "", left |-> 0, receipts |-> R]
      /\ RowsOf(work, s) = {} /\ Rejection(work, s) = ""
  <2>1. ReceiptOf(NewRow(s, "queued", "")) = ReceiptFor(s, "queued")
    BY DEF ReceiptOf, NewRow, ReceiptFor
  <2>2. {ReceiptOf(row) : row \in {NewRow(s, "queued", "")}} = R
    BY <2>1
  <2>3. SubmitDone({NewRow(s, "queued", "")})
    BY DEF SubmitQueued
  <2>4. txn' = [op |-> "submit", writer |-> "", left |-> 0, receipts |-> R]
    BY <2>2, <2>3, Zenon DEF SubmitDone
  <2> HIDE DEF R
  <2> QED BY <2>4 DEF SubmitQueued
<1>2. Sound(work)
  BY <1>1, IdleFacts
<1>3. Sound(work') /\ Extends(work, work') /\ Holds(work', R)
  BY <1>1, <1>2, InsertQueuedSound, Zenon
<1>4. R \in SUBSET Receipt
  BY ReceiptForType
<1> HIDE DEF R
<1> QED BY <1>1, <1>3, <1>4, SubmitKeeps

\* The head of a drain: a new epoch and the size of the batch.
LEMMA DrainBeginKeeps ==
  ASSUME IInv, NEW w \in Writers, NEW g \in Generation, NEW n \in Limits,
         DrainBegin(w, g, n)
  PROVE  IInv'
<1>1. /\ txn = Idle /\ db' = db /\ told' = told
      /\ work' = [work EXCEPT !.writer_epoch = @ + 1]
  BY DEF DrainBegin
<1>2. /\ Sound(db) /\ Sound(work) /\ work = db /\ db \in Tables
      /\ work \in Tables /\ told \subseteq Receipt /\ Holds(db, told)
  BY <1>1, IdleFacts
<1>3. /\ Sound(work') /\ Extends(work, work') /\ Queued(work') = Queued(work)
  BY <1>1, <1>2, NextEpochSound, Zenon
<1> DEFINE c == Cardinality(Queued(work))
           left == Min({n, c})
<1>4. c \in Nat /\ n \in Nat
  <2>1. c \in Nat
    BY <1>2, QueuedType, FS_CardinalityType
  <2>2. n \in Nat
    BY StoreAssumption
  <2> QED BY <2>1, <2>2
<1>5. left \in Nat /\ left <= c
  <2> HIDE DEF c
  <2> DEFINE S == {n, c}
  <2>1. S \in SUBSET Nat /\ S # {}
    BY <1>4
  <2> HIDE DEF S
  <2>2. Min(S) \in S /\ \A y \in S : Min(S) <= y
    BY <2>1, MinIsLeast
  <2> QED BY <1>4, <2>2 DEF S
<1>6. txn' = [op |-> "drain", writer |-> w, left |-> left, receipts |-> {}]
  BY DEF DrainBegin
<1> HIDE DEF left
<1>7. /\ txn'.op = "drain" /\ txn'.writer = w /\ txn'.left = left
      /\ txn'.receipts = {}
      /\ txn' \in [op: {"none", "submit", "drain"}, writer: Writers \cup {""},
                   left: Nat, receipts: SUBSET Receipt]
  BY <1>5, <1>6
<1>8. TypeOK'
  BY <1>1, <1>2, <1>3, <1>7 DEF TypeOK, Sound
<1>9. txn'.left <= Cardinality(Queued(work'))
  BY <1>3, <1>5, <1>7
<1>10. Sound(db') /\ Holds(db', told') /\ Extends(db', work')
  BY <1>1, <1>2, <1>3
<1>11. Holds(work', txn'.receipts)
  BY <1>7 DEF Holds
<1> QED BY <1>3, <1>7, <1>8, <1>9, <1>10, <1>11 DEF IInv

\* A row of the batch is settled either way.
LEMMA SettledBatchRow ==
  ASSUME IInv, DrainRow
  PROVE  LET i == NextRow
             sub == work.inbox[i].submission
         IN  /\ i \in Queued(work) /\ sub \in Submissions
             /\ Sound(work') /\ Extends(work, work')
             /\ Queued(work') = Queued(work) \ {i}
             /\ \E status \in {"applied", "rejected"} :
                  /\ Holds(work', {ReceiptFor(sub, status)})
                  /\ txn' = [txn EXCEPT !.left = @ - 1,
                               !.receipts = @ \cup {ReceiptFor(sub, status)}]
<1> DEFINE i == NextRow
           sub == work.inbox[i].submission
           e == NextEnvelope(work.projection, sub)
           ok == Accepts(work.projection, e)
           status == IF ok THEN "applied" ELSE "rejected"
<1>1. /\ txn.op = "drain" /\ txn.left > 0 /\ txn.left \in Nat
      /\ txn.writer \in Writers /\ txn.left <= Cardinality(Queued(work))
      /\ Sound(work) /\ work \in Tables
  BY DEF IInv, TypeOK, DrainRow
<1>2. Queued(work) # {}
  BY <1>1, FS_EmptySet
<1>3. i \in Queued(work)
  BY <1>1, <1>2, NextRowIsFirst
<1>4. sub \in Submissions
  <2>1. i \in 1..Len(work.inbox) /\ work.inbox \in Seq(Row)
    BY <1>1, <1>3, QueuedType, TablesType
  <2>2. work.inbox[i] \in Row
    BY <2>1, ElementType, Zenon
  <2> QED BY <2>2 DEF Row
<1>5. /\ work' = IF ok THEN ApplyRow(work, i, e, txn.writer)
                 ELSE RejectRow(work, i)
      /\ txn' = [txn EXCEPT !.left = @ - 1,
                            !.receipts = @ \cup {ReceiptFor(sub, status)}]
  BY DEF DrainRow, ReceiptFor
<1>6. CASE ok
  <2>1. work' = ApplyRow(work, i, e, txn.writer) /\ status = "applied"
    BY <1>5, <1>6
  <2>2. /\ Sound(work') /\ Extends(work, work')
        /\ Queued(work') = Queued(work) \ {i}
        /\ Holds(work', {ReceiptFor(sub, "applied")})
    BY <1>1, <1>3, <1>6, <2>1, ApplyRowSound, Zenon
  <2>3. txn' = [txn EXCEPT !.left = @ - 1,
                           !.receipts = @ \cup {ReceiptFor(sub, "applied")}]
    BY <1>5, <2>1
  <2> HIDE DEF i, sub, ok, e, status
  <2> QED BY <1>3, <1>4, <2>2, <2>3, Zenon DEF i, sub
<1>7. CASE ~ok
  <2>1. work' = RejectRow(work, i) /\ status = "rejected"
    BY <1>5, <1>7
  <2>2. /\ Sound(work') /\ Extends(work, work')
        /\ Queued(work') = Queued(work) \ {i}
        /\ Holds(work', {ReceiptFor(sub, "rejected")})
    BY <1>1, <1>3, <2>1, RejectRowSound, Zenon
  <2>3. txn' = [txn EXCEPT !.left = @ - 1,
                           !.receipts = @ \cup {ReceiptFor(sub, "rejected")}]
    BY <1>5, <2>1
  <2> HIDE DEF i, sub, ok, e, status
  <2> QED BY <1>3, <1>4, <2>2, <2>3, Zenon DEF i, sub
<1> QED BY <1>6, <1>7

\* Receipts true apart are true together.
LEMMA HoldsBoth ==
  ASSUME NEW t, NEW R, NEW S, Holds(t, R), Holds(t, S)
  PROVE  Holds(t, R \cup S)
BY Zenon DEF Holds

\* One row of a batch.
LEMMA DrainRowKeeps ==
  ASSUME IInv, DrainRow
  PROVE  IInv'
<1> DEFINE i == NextRow
           sub == work.inbox[i].submission
<1>1. /\ i \in Queued(work) /\ sub \in Submissions
      /\ Sound(work') /\ Extends(work, work')
      /\ Queued(work') = Queued(work) \ {i}
  BY SettledBatchRow, Zenon
<1>2. PICK status \in {"applied", "rejected"} :
        /\ Holds(work', {ReceiptFor(sub, status)})
        /\ txn' = [txn EXCEPT !.left = @ - 1,
                     !.receipts = @ \cup {ReceiptFor(sub, status)}]
  BY SettledBatchRow, Zenon
<1>3. /\ db' = db /\ told' = told /\ txn.op = "drain" /\ txn.left > 0
      /\ txn.left \in Nat /\ txn.receipts \in SUBSET Receipt
      /\ txn \in [op: {"none", "submit", "drain"}, writer: Writers \cup {""},
                  left: Nat, receipts: SUBSET Receipt]
      /\ txn.writer \in Writers /\ txn.left <= Cardinality(Queued(work))
      /\ Sound(db) /\ db \in Tables /\ work \in Tables /\ told \subseteq Receipt
      /\ Extends(db, work) /\ Holds(db, told) /\ Holds(work, txn.receipts)
  BY DEF DrainRow, IInv, TypeOK
<1>4. /\ txn.left \in Nat /\ txn.left > 0
       /\ txn.left <= Cardinality(Queued(work))
  BY <1>3, Zenon
<1> DEFINE r == ReceiptFor(sub, status)
<1>5. r \in Receipt
  BY <1>1, ReceiptForType
<1> HIDE DEF i, sub, r
<1>6. /\ txn'.op = "drain" /\ txn'.writer = txn.writer
      /\ txn'.left = txn.left - 1 /\ txn'.receipts = txn.receipts \cup {r}
      /\ txn' \in [op: {"none", "submit", "drain"}, writer: Writers \cup {""},
                   left: Nat, receipts: SUBSET Receipt]
  <2>1. txn' = [txn EXCEPT !.left = @ - 1, !.receipts = @ \cup {r}]
    BY <1>2 DEF r
  <2>2. txn.left - 1 \in Nat
    BY <1>4
  <2> QED BY <1>3, <1>5, <2>1, <2>2
<1>7. work' \in Tables
  BY <1>1 DEF Sound
<1>8. TypeOK'
  BY <1>3, <1>6, <1>7 DEF TypeOK
<1>9. Extends(db', work')
  <2>1. Extends(db, work')
    BY <1>1, <1>3, <1>7, ExtendsTransitive, Zenon
  <2> QED BY <1>3, <2>1
<1>10. Holds(work', txn'.receipts)
  <2>1. Holds(work', txn.receipts)
    BY <1>1, <1>3, <1>7, HoldsExtends, Zenon
  <2>2. Holds(work', {r})
    BY <1>2 DEF r
  <2>3. Holds(work', txn.receipts \cup {r})
    BY <2>1, <2>2, HoldsBoth, Zenon
  <2> QED BY <1>6, <2>3
<1>11. txn'.left <= Cardinality(Queued(work'))
  <2>1. IsFiniteSet(Queued(work))
    BY <1>3, QueuedType
  <2>2. Cardinality(Queued(work) \ {i}) = Cardinality(Queued(work)) - 1
    BY <1>1, <2>1, FS_RemoveElement, Zenon
  <2>3. Cardinality(Queued(work)) \in Nat
    BY <2>1, FS_CardinalityType
  <2>4. Cardinality(Queued(work')) = Cardinality(Queued(work)) - 1
    BY <1>1, <2>2, Zenon
  <2>5. txn'.left = txn.left - 1
    BY <1>6, Zenon
  <2> QED BY <1>4, <2>3, <2>4, <2>5
<1>12. Sound(db') /\ Holds(db', told')
  BY <1>3
<1> QED BY <1>1, <1>3, <1>6, <1>8, <1>9, <1>10, <1>11, <1>12 DEF IInv

\* A commit, answered or not.
LEMMA CommitKeeps ==
  ASSUME IInv, NEW delivered \in Delivered, Commit(delivered)
  PROVE  IInv'
<1>1. /\ Sound(work) /\ work \in Tables /\ db \in Tables
      /\ Extends(db, work) /\ Holds(db, told) /\ Holds(work, txn.receipts)
      /\ told \subseteq Receipt /\ txn.receipts \in SUBSET Receipt
  BY DEF IInv, TypeOK
<1>2. /\ db' = work /\ work' = work /\ txn' = Idle
      /\ told' = IF delivered THEN told \cup txn.receipts ELSE told
  BY DEF Commit
<1>3. Holds(work, told')
  <2>1. Holds(work, told)
    BY <1>1, HoldsExtends, Zenon
  <2>2. Holds(work, told \cup txn.receipts)
    BY <1>1, <2>1, HoldsBoth, Zenon
  <2> QED BY <1>2, <2>1, <2>2
<1>4. TypeOK'
  BY <1>1, <1>2 DEF TypeOK, Idle
<1>5. Extends(db', work')
  BY <1>1, <1>2, ExtendsReflexive
<1>6. Sound(db') /\ Sound(work') /\ Holds(db', told') /\ work' = db'
  BY <1>1, <1>2, <1>3
<1>7. txn'.op = "none" /\ txn'.left = 0 /\ txn'.receipts = {}
  BY <1>2 DEF Idle
<1>8. Holds(work', txn'.receipts)
  BY <1>7 DEF Holds
<1> QED BY <1>4, <1>5, <1>6, <1>7, <1>8 DEF IInv

\* An exception, a lock that is not obtained, or a crash.
LEMMA RollbackKeeps ==
  ASSUME IInv, Rollback
  PROVE  IInv'
<1>1. /\ Sound(db) /\ db \in Tables /\ Holds(db, told) /\ told \subseteq Receipt
  BY DEF IInv, TypeOK
<1>2. db' = db /\ work' = db /\ txn' = Idle /\ told' = told
  BY DEF Rollback
<1>3. TypeOK'
  BY <1>1, <1>2 DEF TypeOK, Idle
<1>4. Extends(db', work')
  BY <1>1, <1>2, ExtendsReflexive
<1>5. Sound(db') /\ Sound(work') /\ Holds(db', told') /\ work' = db'
  BY <1>1, <1>2
<1>6. txn'.op = "none" /\ txn'.left = 0 /\ txn'.receipts = {}
  BY <1>2 DEF Idle
<1>7. Holds(work', txn'.receipts)
  BY <1>6 DEF Holds
<1> QED BY <1>3, <1>4, <1>5, <1>6, <1>7 DEF IInv

\* IInv is inductive, so it holds of every reachable state.
LEMMA Inductive == Spec => []IInv
<1>1. Init => IInv
  BY InitIInv
<1>2. IInv /\ [Next]_vars => IInv'
  <2> SUFFICES ASSUME IInv, [Next]_vars PROVE IInv'
    OBVIOUS
  <2>1. ASSUME NEW s \in Submissions, Submit(s) PROVE IInv'
    BY <2>1, ResubmitKeeps, SubmitRejectedKeeps, SubmitQueuedKeeps, Zenon DEF Submit
  <2>2. ASSUME NEW w \in Writers, Drain(w) PROVE IInv'
    BY <2>2, DrainBeginKeeps, Zenon DEF Drain
  <2>3. CASE DrainRow
    BY <2>3, DrainRowKeeps
  <2>4. ASSUME NEW delivered \in Delivered, Commit(delivered) PROVE IInv'
    BY <2>4, CommitKeeps
  <2>5. CASE Rollback
    BY <2>5, RollbackKeeps
  <2>6. CASE UNCHANGED vars
    BY <2>6 DEF vars, IInv, TypeOK
  <2> QED BY <2>1, <2>2, <2>3, <2>4, <2>5, <2>6, Zenon DEF Next
<1> QED BY <1>1, <1>2, PTL DEF Spec
-----------------------------------------------------------------------------
\* The tables, the open transaction and the receipts keep their types: a status
\* outside the schema's CHECK or a receipt for an unknown submission never
\* appears.
THEOREM StoreTypeCorrect == Spec => []TypeOK
<1>1. IInv => TypeOK
  BY DEF IInv
<1> QED BY <1>1, Inductive, PTL

\* store.py's submit and drain apply a submission at most once, and the applied
\* rows and the ledger stay in one-to-one agreement, whatever is retried,
\* batched, rolled back or lost.
THEOREM ExactlyOnce == Spec => []AppliedIsLedger
<1>1. IInv => AppliedIsLedger
  BY DEF IInv, Sound, AppliedIsLedger
<1> QED BY <1>1, Inductive, PTL

\* A pending generation switch is alone in the inbox of a stopped supervisor.
THEOREM SwitchSingular == Spec => []SwitchIsSingular
<1>1. IInv => SwitchIsSingular
  BY DEF IInv, Sound, SwitchIsSingular
<1> QED BY <1>1, Inductive, PTL

\* A store bound to a task-epoch context never leaves its first generation.
THEOREM ContextPinned == Spec => []BoundContextPinsGeneration
<1>1. IInv => BoundContextPinsGeneration
  BY DEF IInv, Sound, MetaAgrees, BoundContextPinsGeneration
<1> QED BY <1>1, Inductive, PTL

\* What a caller was told is still true after every later crash, retry, drain
\* and switch.
THEOREM ToldStaysTrue == Spec => []ToldIsDurable
<1>1. IInv => ToldIsDurable
  <2> SUFFICES ASSUME IInv PROVE ToldIsDurable
    OBVIOUS
  <2>1. Holds(db, told) /\ db \in Tables
    BY DEF IInv, TypeOK
  <2>2. DOMAIN db.inbox = 1..Len(db.inbox)
    BY <2>1, QueuedType
  <2> QED BY <2>1, <2>2, Zenon DEF Holds, ToldIsDurable
<1> QED BY <1>1, Inductive, PTL

\* No step removes, reorders or rewrites a settled row or a ledger entry.
THEOREM HistoryFinal == Spec => HistoryIsFinal
<1> DEFINE Final ==
      /\ \A i \in DOMAIN db.inbox :
           /\ i \in DOMAIN db'.inbox
           /\ db'.inbox[i].submission = db.inbox[i].submission
           /\ db.inbox[i].status # "queued" => db'.inbox[i] = db.inbox[i]
      /\ \A k \in DOMAIN db.ledger :
           k \in DOMAIN db'.ledger /\ db'.ledger[k] = db.ledger[k]
<1>1. IInv /\ IInv' /\ [Next]_vars => [Final]_db
  <2> SUFFICES ASSUME IInv, IInv', [Next]_vars, db' # db PROVE Final
    OBVIOUS
  <2>1. db' = work
    BY Zenon DEF Next, Submit, Resubmit, SubmitRejected, SubmitQueued, Drain,
       DrainBegin, DrainRow, Commit, Rollback, vars
  <2>2. Extends(db, db') /\ db \in Tables /\ db' \in Tables
    BY <2>1 DEF IInv, TypeOK
  <2>3. /\ DOMAIN db.inbox = 1..Len(db.inbox)
        /\ DOMAIN db'.inbox = 1..Len(db'.inbox)
        /\ Len(db.inbox) \in Nat /\ Len(db'.inbox) \in Nat
    BY <2>2, QueuedType
  <2>4. /\ DOMAIN db.ledger = 1..Len(db.ledger)
        /\ DOMAIN db'.ledger = 1..Len(db'.ledger)
        /\ Len(db.ledger) \in Nat /\ Len(db'.ledger) \in Nat
    BY <2>2, LedgerType
  <2>5. /\ \A i \in 1..Len(db.inbox) : i \in 1..Len(db'.inbox)
        /\ \A k \in 1..Len(db.ledger) : k \in 1..Len(db'.ledger)
    BY <2>2, <2>3, <2>4 DEF Extends
  <2>6. /\ \A i \in 1..Len(db.inbox) :
             /\ db'.inbox[i].submission = db.inbox[i].submission
             /\ db.inbox[i].status # "queued" => db'.inbox[i] = db.inbox[i]
        /\ \A k \in 1..Len(db.ledger) : db'.ledger[k] = db.ledger[k]
    BY <2>2 DEF Extends
  <2> QED BY <2>3, <2>4, <2>5, <2>6, Zenon
<1> QED BY <1>1, Inductive, PTL DEF Spec, HistoryIsFinal
-----------------------------------------------------------------------------
(* Replaying the ledger *)

\* Induction over the naturals, for a set.
LEMMA SetInduction ==
  ASSUME NEW S, 0 \in S, \A n \in Nat : n \in S => n + 1 \in S
  PROVE  Nat \subseteq S
<1> DEFINE T == Nat \ S
<1> SUFFICES ASSUME T # {} PROVE FALSE
  OBVIOUS
<1>1. T \in SUBSET Nat
  OBVIOUS
<1>2. Min(T) \in T /\ \A y \in T : Min(T) <= y
  <2> HIDE DEF T
  <2> QED BY <1>1, MinIsLeast
<1> DEFINE m == Min(T)
<1>3. m \in Nat /\ m \notin S /\ m # 0
  BY <1>2
<1>4. m - 1 \in Nat
  BY <1>3
<1>5. m - 1 \in S
  <2>1. m - 1 \notin T
    BY <1>2, <1>3
  <2> QED BY <1>4, <2>1
<1>6. m = (m - 1) + 1
  BY <1>3
<1> QED BY <1>3, <1>4, <1>5, <1>6, Zenon

\* r is a replay of the first m rows.
IsReplay(r, s0, l, m) ==
  r = [n \in 0..m |-> IF n = 0 THEN s0 ELSE Apply(r[n - 1], l[n])]

\* Any list has a replay: the recursion has a solution.
LEMMA ReplayExists ==
  ASSUME NEW s0, NEW l, NEW m \in Nat
  PROVE  \E r : IsReplay(r, s0, l, m)
<1> DEFINE S == {k \in Nat : \E r : IsReplay(r, s0, l, k)}
<1>1. 0 \in S
  <2> DEFINE r == [n \in 0..0 |-> s0]
  <2>1. \A n \in 0..0 : n = 0
    OBVIOUS
  <2>2. IsReplay(r, s0, l, 0)
    BY <2>1 DEF IsReplay
  <2> QED BY <2>2
<1>2. ASSUME NEW k \in Nat, k \in S PROVE k + 1 \in S
  <2>1. PICK r : IsReplay(r, s0, l, k)
    BY <1>2
  <2> DEFINE t == [n \in 0..(k + 1) |-> IF n = 0 THEN s0 ELSE Apply(r[n - 1], l[n])]
  <2>2. \A n \in 0..k : t[n] = r[n]
    BY <2>1 DEF IsReplay
  <2>3. \A n \in 0..(k + 1) : n # 0 => n - 1 \in 0..k
    OBVIOUS
  <2>4. IsReplay(t, s0, l, k + 1)
    BY <2>2, <2>3 DEF IsReplay
  <2> QED BY <2>4
<1> HIDE DEF S
<1>3. Nat \subseteq S
  BY <1>1, <1>2, SetInduction
<1> QED BY <1>3 DEF S

\* Replay satisfies its recursion.
LEMMA ReplayIs ==
  ASSUME NEW s0, NEW l, Len(l) \in Nat
  PROVE  IsReplay(Replay(s0, l), s0, l, Len(l))
<1>1. \E r : IsReplay(r, s0, l, Len(l))
  BY ReplayExists
<1>2. Replay(s0, l) = CHOOSE r : IsReplay(r, s0, l, Len(l))
  BY Zenon DEF Replay, IsReplay
<1> QED BY <1>1, <1>2

\* A longer ledger replays through the same states, then applies its last row.
LEMMA ReplayAgrees ==
  ASSUME NEW s0, NEW l, NEW k, NEW m \in Nat, NEW p, NEW q,
         IsReplay(p, s0, l, m), IsReplay(q, s0, k, m + 1),
         \A n \in 1..m : k[n] = l[n]
  PROVE  /\ \A n \in 0..m : q[n] = p[n]
         /\ q[m + 1] = Apply(p[m], k[m + 1])
<1>1. /\ \A n \in 0..m : p[n] = IF n = 0 THEN s0 ELSE Apply(p[n - 1], l[n])
      /\ \A n \in 0..(m + 1) :
           q[n] = IF n = 0 THEN s0 ELSE Apply(q[n - 1], k[n])
  BY DEF IsReplay
<1> DEFINE S == {n \in Nat : n <= m => q[n] = p[n]}
<1>2. 0 \in S
  BY <1>1
<1>3. ASSUME NEW n \in Nat, n \in S PROVE n + 1 \in S
  <2> SUFFICES ASSUME n + 1 <= m PROVE q[n + 1] = p[n + 1]
    OBVIOUS
  <2>1. q[n] = p[n]
    BY <1>3
  <2>2. n + 1 \in 0..m /\ n + 1 \in 0..(m + 1) /\ n + 1 \in 1..m
        /\ n + 1 # 0 /\ (n + 1) - 1 = n
    OBVIOUS
  <2>3. p[n + 1] = Apply(p[n], l[n + 1]) /\ q[n + 1] = Apply(q[n], k[n + 1])
    BY <1>1, <2>2
  <2>4. k[n + 1] = l[n + 1]
    BY <2>2
  <2> QED BY <2>1, <2>3, <2>4
<1> HIDE DEF S
<1>4. Nat \subseteq S
  BY <1>2, <1>3, SetInduction
<1>5. \A n \in 0..m : q[n] = p[n]
  BY <1>4 DEF S
<1>6. m + 1 \in 0..(m + 1) /\ m + 1 # 0 /\ (m + 1) - 1 = m /\ m \in 0..m
  OBVIOUS
<1> QED BY <1>1, <1>5, <1>6

\* The ledger's envelopes, in order.
LEMMA EnvelopesAre ==
  ASSUME NEW t \in Tables
  PROVE  /\ Len(Envelopes(t)) = Len(t.ledger) /\ Len(t.ledger) \in Nat
         /\ \A k \in 1..Len(t.ledger) : Envelopes(t)[k] = t.ledger[k].envelope
<1> DEFINE l == t.ledger
           v == [k \in 1..Len(l) |-> l[k].envelope]
<1>1. l \in Seq(LedgerRow) /\ Len(l) \in Nat /\ DOMAIN l = 1..Len(l)
  BY TablesType, LedgerType
<1>2. Envelopes(t) = v
  BY <1>1 DEF Envelopes
<1> HIDE DEF l
<1>3. Len(v) = Len(l)
  BY <1>1
<1>4. \A k \in 1..Len(l) : v[k] = l[k].envelope
  OBVIOUS
<1> HIDE DEF v
<1> QED BY <1>1, <1>2, <1>3, <1>4 DEF l

\* Replaying the ledger from the initial state is possible and gives the
\* projection.
Replays(t) ==
  LET after == Replay(t.initial, Envelopes(t))
      n == Len(t.ledger)
  IN  /\ \A k \in 1..n : Accepts(after[k - 1], t.ledger[k].envelope)
      /\ after[n] = t.projection

\* What does not touch ledger and projection keeps the replay.
LEMMA SameReplays ==
  ASSUME NEW t, NEW u, Replays(t), u.initial = t.initial, u.ledger = t.ledger,
         u.projection = t.projection
  PROVE  Replays(u)
<1>1. Envelopes(u) = Envelopes(t)
  BY DEF Envelopes
<1> QED BY <1>1, Zenon DEF Replays

\* A ledger row the projection accepts extends the replay by that row.
LEMMA AppliedReplays ==
  ASSUME NEW t \in Tables, NEW u \in Tables, Replays(t), NEW e \in Envelope,
         NEW w \in Writers, Accepts(t.projection, e),
         u.initial = t.initial,
         u.ledger = Append(t.ledger, LedgerRowOf(t, e, w)),
         u.projection = Apply(t.projection, e)
  PROVE  Replays(u)
<1> DEFINE l == t.ledger
           m == Len(l)
           new == LedgerRowOf(t, e, w)
           p == Replay(t.initial, Envelopes(t))
           q == Replay(u.initial, Envelopes(u))
<1>1. new \in LedgerRow /\ new.envelope = e
  BY TablesType DEF LedgerRowOf, LedgerRow
<1>2. l \in Seq(LedgerRow) /\ u.ledger = Append(l, new)
  BY TablesType
<1>3. /\ Len(u.ledger) = m + 1 /\ m \in Nat /\ u.ledger[m + 1] = new
      /\ \A k \in 1..m : u.ledger[k] = l[k]
  <2> HIDE DEF l, new
  <2> QED BY <1>1, <1>2
<1>4. /\ Len(Envelopes(t)) = m
      /\ \A k \in 1..m : Envelopes(t)[k] = l[k].envelope
  BY EnvelopesAre
<1>5. /\ Len(Envelopes(u)) = m + 1
      /\ \A k \in 1..(m + 1) : Envelopes(u)[k] = u.ledger[k].envelope
  BY <1>3, EnvelopesAre
<1>6. \A k \in 1..m : Accepts(p[k - 1], l[k].envelope)
  BY DEF Replays
<1>7. p[m] = t.projection
  BY DEF Replays
<1> HIDE DEF m, l, new
<1>8. IsReplay(p, t.initial, Envelopes(t), m)
  BY <1>3, <1>4, ReplayIs
<1>9. IsReplay(q, t.initial, Envelopes(u), m + 1)
  BY <1>3, <1>5, ReplayIs
<1>10. \A k \in 1..m : k \in 1..(m + 1) /\ k - 1 \in 0..m
  BY <1>3
<1>11. \A k \in 1..m : Envelopes(u)[k] = Envelopes(t)[k]
  BY <1>3, <1>4, <1>5, <1>10
<1> HIDE DEF p, q
<1>12. /\ \A n \in 0..m : q[n] = p[n]
       /\ q[m + 1] = Apply(p[m], Envelopes(u)[m + 1])
  <2>1. m \in Nat
    BY <1>3
  <2> DEFINE s0 == t.initial
             a == Envelopes(t)
             b == Envelopes(u)
  <2>2. IsReplay(p, s0, a, m) /\ IsReplay(q, s0, b, m + 1)
    BY <1>8, <1>9
  <2>3. \A n \in 1..m : b[n] = a[n]
    BY <1>11
  <2> HIDE DEF s0, a, b
  <2>4. /\ \A n \in 0..m : q[n] = p[n]
        /\ q[m + 1] = Apply(p[m], b[m + 1])
    BY <2>1, <2>2, <2>3, ReplayAgrees
  <2> QED BY <2>4 DEF b
<1>13. m + 1 \in 1..(m + 1) /\ m \in 0..m /\ (m + 1) - 1 = m
  BY <1>3
<1>14. Envelopes(u)[m + 1] = e
  BY <1>1, <1>3, <1>5, <1>13
<1>15. q[m + 1] = u.projection
  BY <1>7, <1>12, <1>14
<1>16. \A k \in 1..(m + 1) : Accepts(q[k - 1], u.ledger[k].envelope)
  <2> TAKE k \in 1..(m + 1)
  <2>1. CASE k = m + 1
    BY <1>1, <1>3, <1>7, <1>12, <1>13, <2>1
  <2>2. CASE k \in 1..m
    <3>1. q[k - 1] = p[k - 1] /\ u.ledger[k] = l[k]
      BY <1>3, <1>10, <1>12, <2>2
    <3> QED BY <1>6, <2>2, <3>1
  <2> QED BY <1>3, <2>1, <2>2
<1> QED BY <1>3, <1>15, <1>16 DEF Replays, q

\* An empty ledger replays to the initial state.
LEMMA FreshReplays ==
  ASSUME NEW t \in Tables, t.ledger = <<>>, t.projection = t.initial
  PROVE  Replays(t)
<1> DEFINE p == Replay(t.initial, Envelopes(t))
<1>1. Len(t.ledger) = 0 /\ Len(Envelopes(t)) = 0
  BY EnvelopesAre
<1>2. IsReplay(p, t.initial, Envelopes(t), 0)
  BY <1>1, ReplayIs
<1> HIDE DEF p
<1>3. p[0] = t.initial
  BY <1>2 DEF IsReplay
<1> QED BY <1>1, <1>3 DEF Replays, p

-----------------------------------------------------------------------------
(* Order: dates, epochs and batches *)

\* Each row is dated: 0 while it waits, else by a writer epoch already given; an
\* applied row's event is one the projection has seen.
Dated(t) ==
  /\ \A i \in 1..Len(t.inbox) :
       /\ t.inbox[i].writer_epoch <= t.writer_epoch
       /\ t.inbox[i].status = "queued" => t.inbox[i].writer_epoch = 0
       /\ t.inbox[i].status = "applied" =>
            /\ t.inbox[i].event_id \in EventId
            /\ t.inbox[i].event_id[1] <= t.projection.sequence
  /\ \A k \in 1..Len(t.ledger) : t.ledger[k].writer_epoch <= t.writer_epoch

\* Rows a and b are settled in their order.
InTurn(t, a, b) ==
  t.inbox[b].writer_epoch > 0 =>
    /\ t.inbox[a].status # "queued"
    /\ t.inbox[a].writer_epoch <= t.inbox[b].writer_epoch
    /\ t.inbox[a].status = "applied" /\ t.inbox[b].status = "applied" =>
         t.inbox[a].event_id[1] < t.inbox[b].event_id[1]

InOrder(t) == \A a, b \in 1..Len(t.inbox) : a < b => InTurn(t, a, b)

\* No epoch settles an activation beside another row.
SwitchesApart(t) ==
  \A a, b \in 1..Len(t.inbox) :
    /\ t.inbox[a].writer_epoch > 0
    /\ t.inbox[a].writer_epoch = t.inbox[b].writer_epoch
    /\ t.inbox[a].submission.event_type = Activation
    => a = b

\* An epoch in the ledger is one writer's and of one generation.
OneWriterEach(t) ==
  \A j, k \in 1..Len(t.ledger) :
    t.ledger[j].writer_epoch = t.ledger[k].writer_epoch =>
      /\ t.ledger[j].writer_id = t.ledger[k].writer_id
      /\ t.ledger[j].envelope.body.runtime_generation
           = t.ledger[k].envelope.body.runtime_generation

\* A batch of writer w is open on t: while rows still wait, what its epoch has
\* settled so far is of the active generation and no switch is pending.
InBatch(t, w) ==
  /\ t.writer_epoch > 0
  /\ \A i \in 1..Len(t.inbox) :
       t.inbox[i].writer_epoch = t.writer_epoch /\ Queued(t) # {} =>
         /\ t.pending_generation = ""
         /\ t.inbox[i].submission.event_type # Activation
  /\ \A k \in 1..Len(t.ledger) : t.ledger[k].writer_epoch = t.writer_epoch =>
       /\ t.ledger[k].writer_id = w
       /\ Queued(t) # {} =>
            /\ t.pending_generation = ""
            /\ t.ledger[k].envelope.body.runtime_generation = t.active_generation

\* Tables that replay and are in order.
Orderly(t) ==
  Replays(t) /\ Dated(t) /\ InOrder(t) /\ SwitchesApart(t) /\ OneWriterEach(t)

\* The dates of tables.
LEMMA DateTypes ==
  ASSUME NEW t \in Tables
  PROVE  /\ t.writer_epoch \in Nat /\ t.projection.sequence \in Nat
         /\ \A i \in 1..Len(t.inbox) : t.inbox[i].writer_epoch \in Nat
         /\ \A k \in 1..Len(t.ledger) : t.ledger[k].writer_epoch \in Nat
<1>1. t.inbox \in Seq(Row) /\ t.ledger \in Seq(LedgerRow)
  BY TablesType
<1>2. t.writer_epoch \in Nat /\ t.projection \in GuardianState
  BY TablesType
<1>3. \A i \in 1..Len(t.inbox) : t.inbox[i] \in Row
  BY <1>1, ElementType, Zenon
<1>4. \A k \in 1..Len(t.ledger) : t.ledger[k] \in LedgerRow
  BY <1>1, ElementType, Zenon
<1>5. \A i \in 1..Len(t.inbox) : t.inbox[i].writer_epoch \in Nat
  BY <1>3 DEF Row
<1>6. \A k \in 1..Len(t.ledger) : t.ledger[k].writer_epoch \in Nat
  BY <1>4 DEF LedgerRow
<1>7. t.projection.sequence \in Nat
  BY <1>2 DEF GuardianState
<1> QED BY <1>2, <1>5, <1>6, <1>7

\* A new row is settled by no writer yet.
LEMMA AppendedOrderly ==
  ASSUME NEW t \in Tables, NEW u \in Tables, NEW row, InboxAppended(t, u, row),
         row.writer_epoch = 0, row.status # "applied", Orderly(t),
         u.ledger = t.ledger, u.projection = t.projection,
         u.initial = t.initial, u.writer_epoch = t.writer_epoch
  PROVE  Orderly(u)
<1> DEFINE n == Len(t.inbox)
<1>1. n \in Nat
  BY QueuedType
<1>2. /\ Len(u.inbox) = n + 1 /\ u.inbox[n + 1] = row
      /\ \A j \in 1..n : u.inbox[j] = t.inbox[j]
  BY DEF InboxAppended
<1>3. /\ Replays(t) /\ Dated(t) /\ InOrder(t) /\ SwitchesApart(t)
      /\ OneWriterEach(t)
  BY DEF Orderly
<1>4. Replays(u)
  BY <1>3, SameReplays, Zenon
<1>5. OneWriterEach(u)
  BY <1>3 DEF OneWriterEach
<1>6. t.writer_epoch \in Nat
  BY DateTypes
<1> HIDE DEF n
<1>7. \A j : j \in 1..(n + 1) <=> j \in 1..n \/ j = n + 1
  BY <1>1
<1>8. Dated(u)
  <2>1. \A i \in 1..n :
          /\ t.inbox[i].writer_epoch <= t.writer_epoch
          /\ t.inbox[i].status = "queued" => t.inbox[i].writer_epoch = 0
          /\ t.inbox[i].status = "applied" =>
               /\ t.inbox[i].event_id \in EventId
               /\ t.inbox[i].event_id[1] <= t.projection.sequence
    BY <1>3 DEF Dated, n
  <2>2. \A i \in 1..(n + 1) :
          /\ u.inbox[i].writer_epoch <= u.writer_epoch
          /\ u.inbox[i].status = "queued" => u.inbox[i].writer_epoch = 0
          /\ u.inbox[i].status = "applied" =>
               /\ u.inbox[i].event_id \in EventId
               /\ u.inbox[i].event_id[1] <= u.projection.sequence
    <3> TAKE i \in 1..(n + 1)
    <3>1. CASE i = n + 1
      BY <1>2, <1>6, <3>1
    <3>2. CASE i \in 1..n
      <4>1. u.inbox[i] = t.inbox[i]
        BY <1>2, <3>2
      <4> QED BY <2>1, <3>2, <4>1, Zenon
    <3> QED BY <1>7, <3>1, <3>2
  <2>3. \A k \in 1..Len(u.ledger) : u.ledger[k].writer_epoch <= u.writer_epoch
    BY <1>3, Zenon DEF Dated
  <2> QED BY <1>2, <2>2, <2>3, Zenon DEF Dated
<1>9. InOrder(u)
  <2> SUFFICES ASSUME NEW a \in 1..(n + 1), NEW b \in 1..(n + 1), a < b
               PROVE  InTurn(u, a, b)
    BY <1>2 DEF InOrder
  <2>1. CASE b = n + 1
    BY <1>2, <2>1 DEF InTurn
  <2>2. CASE b # n + 1
    <3>1. a \in 1..n /\ b \in 1..n
      BY <1>1, <2>2
    <3>2. InTurn(t, a, b)
      BY <1>3, <3>1 DEF InOrder, n
    <3> QED BY <1>2, <3>1, <3>2 DEF InTurn
  <2> QED BY <2>1, <2>2
<1>10. SwitchesApart(u)
  <2> SUFFICES ASSUME NEW a \in 1..(n + 1), NEW b \in 1..(n + 1),
                      u.inbox[a].writer_epoch > 0,
                      u.inbox[a].writer_epoch = u.inbox[b].writer_epoch,
                      u.inbox[a].submission.event_type = Activation
               PROVE  a = b
    BY <1>2 DEF SwitchesApart
  <2>1. a # n + 1 /\ b # n + 1
    BY <1>2
  <2>2. a \in 1..n /\ b \in 1..n
    BY <1>7, <2>1
  <2> QED BY <1>2, <1>3, <2>2 DEF SwitchesApart, n
<1> QED BY <1>4, <1>5, <1>8, <1>9, <1>10 DEF Orderly

\* The head of a drain: a later epoch, and nothing is settled in it yet.
LEMMA NextEpochOrderly ==
  ASSUME NEW t \in Tables, NEW u \in Tables, NEW w, Orderly(t),
         u.inbox = t.inbox, u.ledger = t.ledger, u.projection = t.projection,
         u.initial = t.initial, u.writer_epoch = t.writer_epoch + 1
  PROVE  Orderly(u) /\ InBatch(u, w)
<1>1. /\ Replays(t) /\ Dated(t) /\ InOrder(t) /\ SwitchesApart(t)
      /\ OneWriterEach(t)
  BY DEF Orderly
<1>2. Replays(u)
  BY <1>1, SameReplays, Zenon
<1>3. OneWriterEach(u) /\ SwitchesApart(u)
  BY <1>1 DEF OneWriterEach, SwitchesApart
<1>4. InOrder(u)
  BY <1>1, Zenon DEF InOrder, InTurn
<1>5. /\ t.writer_epoch \in Nat
      /\ \A i \in 1..Len(t.inbox) : t.inbox[i].writer_epoch \in Nat
      /\ \A k \in 1..Len(t.ledger) : t.ledger[k].writer_epoch \in Nat
  BY DateTypes
<1>6. /\ \A i \in 1..Len(u.inbox) :
           /\ u.inbox[i].writer_epoch <= t.writer_epoch
           /\ u.inbox[i].writer_epoch < u.writer_epoch
      /\ \A k \in 1..Len(u.ledger) :
           /\ u.ledger[k].writer_epoch <= t.writer_epoch
           /\ u.ledger[k].writer_epoch < u.writer_epoch
  <2>1. \A i \in 1..Len(u.inbox) :
          /\ u.inbox[i].writer_epoch <= t.writer_epoch
          /\ u.inbox[i].writer_epoch < u.writer_epoch
    BY <1>1, <1>5 DEF Dated
  <2>2. \A k \in 1..Len(u.ledger) :
          /\ u.ledger[k].writer_epoch <= t.writer_epoch
          /\ u.ledger[k].writer_epoch < u.writer_epoch
    BY <1>1, <1>5 DEF Dated
  <2> QED BY <2>1, <2>2
<1>7. Dated(u)
  <2>1. /\ \A i \in 1..Len(u.inbox) : u.inbox[i].writer_epoch <= u.writer_epoch
        /\ \A k \in 1..Len(u.ledger) : u.ledger[k].writer_epoch <= u.writer_epoch
    BY <1>5, <1>6
  <2> QED BY <1>1, <2>1, Zenon DEF Dated
<1>8. InBatch(u, w)
  <2>1. \A i \in 1..Len(u.inbox) : u.inbox[i].writer_epoch # u.writer_epoch
    BY <1>5, <1>6
  <2>2. \A k \in 1..Len(u.ledger) : u.ledger[k].writer_epoch # u.writer_epoch
    BY <1>5, <1>6
  <2>3. u.writer_epoch > 0
    BY <1>5
  <2> QED BY <2>1, <2>2, <2>3, Zenon DEF InBatch
<1> QED BY <1>2, <1>3, <1>4, <1>7, <1>8 DEF Orderly

\* What a queued row says of the switch: an activation is alone and pending,
\* any other row is of the active generation and no switch is pending.
LEMMA QueuedRowSays ==
  ASSUME NEW t, SwitchAlone(t), NEW i \in Queued(t)
  PROVE  LET s == t.inbox[i].submission
         IN  /\ s.event_type = Activation =>
                  t.pending_generation # "" /\ Queued(t) = {i}
             /\ s.event_type # Activation =>
                  /\ t.pending_generation = ""
                  /\ s.runtime_generation = t.active_generation
<1>1. CASE t.pending_generation = ""
  <2>1. /\ t.inbox[i].submission.event_type # Activation
        /\ t.inbox[i].submission.runtime_generation = t.active_generation
    BY <1>1 DEF SwitchAlone
  <2> QED BY <1>1, <2>1
<1>2. CASE t.pending_generation # ""
  <2>1. PICK k \in DOMAIN t.inbox :
          /\ Queued(t) = {k}
          /\ t.inbox[k].submission.event_type = Activation
    BY <1>2, Zenon DEF SwitchAlone
  <2>2. k = i
    BY <2>1
  <2> QED BY <1>2, <2>1, <2>2
<1> QED BY <1>1, <1>2

\* What settling the first queued row makes of the dates and of the order.
LEMMA SettledOrder ==
  ASSUME NEW t \in Tables, NEW u \in Tables, NEW i \in Queued(t),
         \A j \in Queued(t) : i <= j,
         NEW status \in {"applied", "rejected"}, NEW id,
         RowSettled(t, u, i, status, id),
         status = "applied" => /\ id \in EventId
                               /\ id[1] = t.projection.sequence + 1
                               /\ u.projection.sequence = id[1],
         status = "rejected" =>
           u.projection.sequence = t.projection.sequence,
         u.writer_epoch = t.writer_epoch, t.writer_epoch > 0,
         \A k \in 1..Len(u.ledger) : u.ledger[k].writer_epoch <= u.writer_epoch,
         Dated(t), InOrder(t)
  PROVE  Dated(u) /\ InOrder(u)
<1> DEFINE n == Len(t.inbox)
<1>1. /\ t.writer_epoch \in Nat /\ t.projection.sequence \in Nat
      /\ \A j \in 1..n : t.inbox[j].writer_epoch \in Nat
  BY DateTypes
<1>2. /\ i \in 1..n /\ t.inbox[i].status = "queued" /\ Len(u.inbox) = n
      /\ \A j \in 1..n : j # i => u.inbox[j] = t.inbox[j]
      /\ u.inbox[i].status = status /\ u.inbox[i].event_id = id
      /\ u.inbox[i].writer_epoch = t.writer_epoch
  BY DEF RowSettled
<1>3. n \in Nat /\ \A j \in 1..n : j < i => t.inbox[j].status # "queued"
  <2>1. n \in Nat /\ Queued(t) \subseteq 1..n
    BY QueuedType
  <2>2. \A j \in 1..n : t.inbox[j].status = "queued" => i <= j
    BY QueuedIs
  <2> QED BY <1>2, <2>1, <2>2
<1>4. \A j \in 1..n :
        /\ t.inbox[j].writer_epoch <= t.writer_epoch
        /\ t.inbox[j].status = "queued" => t.inbox[j].writer_epoch = 0
        /\ t.inbox[j].status = "applied" =>
             /\ t.inbox[j].event_id \in EventId
             /\ t.inbox[j].event_id[1] <= t.projection.sequence
  BY DEF Dated
<1>5. \A a, b \in 1..n : a < b => InTurn(t, a, b)
  BY DEF InOrder
<1>6. \A x \in EventId : x[1] \in Nat
  BY DEF EventId
<1>7. t.projection.sequence <= u.projection.sequence
      /\ u.projection.sequence \in Nat
  BY <1>1
<1> HIDE DEF n
<1>8. Dated(u)
  <2>1. \A j \in 1..n :
          /\ u.inbox[j].writer_epoch <= u.writer_epoch
          /\ u.inbox[j].status = "queued" => u.inbox[j].writer_epoch = 0
          /\ u.inbox[j].status = "applied" =>
               /\ u.inbox[j].event_id \in EventId
               /\ u.inbox[j].event_id[1] <= u.projection.sequence
    <3> TAKE j \in 1..n
    <3>1. CASE j = i
      BY <1>1, <1>2, <1>6, <3>1
    <3>2. CASE j # i
      <4>1. u.inbox[j] = t.inbox[j]
        BY <1>2, <3>2
      <4>2. u.inbox[j].status = "applied" =>
              /\ u.inbox[j].event_id \in EventId
              /\ u.inbox[j].event_id[1] <= u.projection.sequence
        BY <1>1, <1>4, <1>6, <1>7, <4>1
      <4> QED BY <1>4, <4>1, <4>2
    <3> QED BY <3>1, <3>2
  <2> QED BY <1>2, <2>1 DEF Dated
<1>9. InOrder(u)
  <2> SUFFICES ASSUME NEW a \in 1..n, NEW b \in 1..n, a < b PROVE InTurn(u, a, b)
    BY <1>2 DEF InOrder
  <2>1. CASE b = i
    <3>1. a # i /\ a < i
      BY <1>2, <1>3, <2>1
    <3>2. /\ u.inbox[a] = t.inbox[a] /\ t.inbox[a].status # "queued"
          /\ t.inbox[a].writer_epoch <= t.writer_epoch
      BY <1>2, <1>3, <1>4, <3>1
    <3>3. u.inbox[a].status = "applied" /\ status = "applied" =>
            u.inbox[a].event_id[1] < id[1]
      BY <1>1, <1>4, <1>6, <3>2
    <3> QED BY <1>2, <2>1, <3>2, <3>3 DEF InTurn
  <2>2. CASE b # i /\ a = i
    <3>1. u.inbox[b] = t.inbox[b] /\ InTurn(t, i, b)
      BY <1>2, <1>5, <2>2
    <3>2. ~(t.inbox[b].writer_epoch > 0)
      BY <1>2, <3>1 DEF InTurn
    <3> QED BY <3>1, <3>2 DEF InTurn
  <2>3. CASE b # i /\ a # i
    <3>1. /\ u.inbox[b] = t.inbox[b] /\ u.inbox[a] = t.inbox[a]
          /\ InTurn(t, a, b)
      BY <1>2, <1>5, <2>3
    <3> QED BY <3>1 DEF InTurn
  <2> QED BY <2>1, <2>2, <2>3
<1> QED BY <1>8, <1>9

\* What it makes of the epochs.
LEMMA SettledEpochs ==
  ASSUME NEW t \in Tables, NEW u \in Tables, NEW i \in Queued(t), NEW w,
         NEW status \in {"applied", "rejected"}, NEW id,
         RowSettled(t, u, i, status, id), Queued(u) = Queued(t) \ {i},
         SwitchAlone(t), SwitchesApart(t), InBatch(t, w), Dated(t),
         u.writer_epoch = t.writer_epoch,
         t.inbox[i].submission.event_type # Activation =>
           /\ u.pending_generation = t.pending_generation
           /\ u.active_generation = t.active_generation
  PROVE  /\ SwitchesApart(u)
         /\ Queued(u) # {} =>
              /\ u.pending_generation = ""
              /\ u.active_generation = t.active_generation
              /\ \A j \in 1..Len(u.inbox) :
                   u.inbox[j].writer_epoch = u.writer_epoch =>
                     u.inbox[j].submission.event_type # Activation
<1> DEFINE n == Len(t.inbox)
           sub == t.inbox[i].submission
<1>1. /\ i \in 1..n /\ t.inbox[i].status = "queued" /\ Len(u.inbox) = n
      /\ \A j \in 1..n : u.inbox[j].submission = t.inbox[j].submission
      /\ \A j \in 1..n : j # i => u.inbox[j] = t.inbox[j]
      /\ u.inbox[i].writer_epoch = t.writer_epoch
  BY DEF RowSettled
<1>2. /\ sub.event_type = Activation =>
           t.pending_generation # "" /\ Queued(t) = {i}
      /\ sub.event_type # Activation => t.pending_generation = ""
  BY QueuedRowSays, Zenon
<1>3. \A j \in 1..n : t.inbox[j].writer_epoch = t.writer_epoch =>
        /\ t.pending_generation = ""
        /\ t.inbox[j].submission.event_type # Activation
  BY DEF InBatch
<1>4. SwitchesApart(u)
  <2> SUFFICES ASSUME NEW a \in 1..n, NEW b \in 1..n,
                      u.inbox[a].writer_epoch > 0,
                      u.inbox[a].writer_epoch = u.inbox[b].writer_epoch,
                      u.inbox[a].submission.event_type = Activation, a # b
               PROVE  FALSE
    BY <1>1 DEF SwitchesApart
  <2> HIDE DEF n
  <2>1. CASE a = i
    <3>1. t.inbox[b].writer_epoch = t.writer_epoch
      BY <1>1, <2>1
    <3>2. t.pending_generation = ""
      BY <1>3, <3>1
    <3>3. sub.event_type = Activation
      BY <1>1, <2>1
    <3> QED BY <1>2, <3>2, <3>3
  <2>2. CASE a # i /\ b = i
    <3>1. t.inbox[a].writer_epoch = t.writer_epoch
      BY <1>1, <2>2
    <3>2. t.inbox[a].submission.event_type # Activation
      BY <1>3, <3>1
    <3> QED BY <1>1, <3>2
  <2>3. CASE a # i /\ b # i
    BY <1>1, <2>3 DEF SwitchesApart, n
  <2> QED BY <2>1, <2>2, <2>3
<1>5. ASSUME Queued(u) # {}
      PROVE  /\ u.pending_generation = ""
             /\ u.active_generation = t.active_generation
             /\ \A j \in 1..n :
                  u.inbox[j].writer_epoch = u.writer_epoch =>
                    u.inbox[j].submission.event_type # Activation
  <2>1. Queued(t) # {i}
    BY <1>5
  <2>2. sub.event_type # Activation /\ t.pending_generation = ""
    BY <1>2, <2>1
  <2>3. /\ u.pending_generation = ""
        /\ u.active_generation = t.active_generation
    BY <2>2
  <2> HIDE DEF n
  <2>4. ASSUME NEW j \in 1..n, u.inbox[j].writer_epoch = u.writer_epoch
        PROVE  u.inbox[j].submission.event_type # Activation
    <3>1. CASE j = i
      BY <1>1, <2>2, <3>1
    <3>2. CASE j # i
      BY <1>1, <1>3, <2>4, <3>2
    <3> QED BY <3>1, <3>2
  <2> QED BY <2>3, <2>4
<1> QED BY <1>1, <1>4, <1>5

\* A row the reducer refuses keeps order, replay and batch.
LEMMA RejectRowOrderly ==
  ASSUME NEW t, Sound(t), Orderly(t), NEW i \in Queued(t),
         \A j \in Queued(t) : i <= j, NEW w, InBatch(t, w)
  PROVE  Orderly(RejectRow(t, i)) /\ InBatch(RejectRow(t, i), w)
<1> DEFINE u == RejectRow(t, i)
<1>1. /\ t \in Tables /\ SwitchAlone(t) /\ i \in 1..Len(t.inbox)
      /\ Replays(t) /\ Dated(t) /\ InOrder(t) /\ SwitchesApart(t)
      /\ OneWriterEach(t)
  BY QueuedIs DEF Sound, Orderly
<1>2. /\ u \in Tables /\ u.ledger = t.ledger /\ u.projection = t.projection
      /\ u.active_generation = t.active_generation /\ u.initial = t.initial
      /\ u.writer_epoch = t.writer_epoch
      /\ t.inbox[i].submission.event_type # Activation =>
           u.pending_generation = t.pending_generation
  BY <1>1, RejectRowFields
<1>3. RowSettled(t, u, i, "rejected", NoEvent)
  BY <1>1, RejectRowInbox, QueuedRowSettled, Zenon
<1>4. Queued(u) = Queued(t) \ {i}
  BY RejectRowSound, Zenon
<1> HIDE DEF u
<1>5. t.writer_epoch > 0
  BY DEF InBatch
<1>6. \A k \in 1..Len(u.ledger) : u.ledger[k].writer_epoch <= u.writer_epoch
  BY <1>1, <1>2 DEF Dated
<1>7. "rejected" \in {"applied", "rejected"} /\ "rejected" # "applied"
  OBVIOUS
<1>8. Dated(u) /\ InOrder(u)
  BY <1>1, <1>2, <1>3, <1>5, <1>6, <1>7, SettledOrder
<1>9. /\ SwitchesApart(u)
      /\ Queued(u) # {} =>
           /\ u.pending_generation = ""
           /\ u.active_generation = t.active_generation
           /\ \A j \in 1..Len(u.inbox) :
                u.inbox[j].writer_epoch = u.writer_epoch =>
                  u.inbox[j].submission.event_type # Activation
  BY <1>1, <1>2, <1>3, <1>4, <1>7, SettledEpochs, Zenon
<1>10. Replays(u)
  BY <1>1, <1>2, SameReplays, Zenon
<1>11. OneWriterEach(u)
  BY <1>1, <1>2 DEF OneWriterEach
<1>12. \A k \in 1..Len(u.ledger) : u.ledger[k].writer_epoch = u.writer_epoch =>
         /\ u.ledger[k].writer_id = w
         /\ Queued(u) # {} =>
              /\ u.pending_generation = ""
              /\ u.ledger[k].envelope.body.runtime_generation
                   = u.active_generation
  <2>1. Queued(u) # {} => Queued(t) # {}
    BY <1>4
  <2> QED BY <1>2, <1>9, <2>1 DEF InBatch
<1>13. InBatch(u, w)
  BY <1>2, <1>5, <1>9, <1>12 DEF InBatch
<1> QED BY <1>8, <1>9, <1>10, <1>11, <1>13 DEF Orderly, u

\* A row the reducer accepts: one place more in the ledger, by this writer, in
\* this epoch and generation.
LEMMA ApplyRowOrderly ==
  ASSUME NEW t, Sound(t), Orderly(t), NEW i \in Queued(t),
         \A j \in Queued(t) : i <= j, NEW w \in Writers, InBatch(t, w),
         Accepts(t.projection,
                 NextEnvelope(t.projection, t.inbox[i].submission))
  PROVE  LET u == ApplyRow(t, i,
                    NextEnvelope(t.projection, t.inbox[i].submission), w)
         IN  Orderly(u) /\ InBatch(u, w)
<1> DEFINE sub == t.inbox[i].submission
           e == NextEnvelope(t.projection, sub)
           u == ApplyRow(t, i, e, w)
           m == Len(t.ledger)
           new == LedgerRowOf(t, e, w)
<1>1. /\ t \in Tables /\ SwitchAlone(t) /\ i \in 1..Len(t.inbox)
      /\ Replays(t) /\ Dated(t) /\ InOrder(t) /\ SwitchesApart(t)
      /\ OneWriterEach(t)
  BY QueuedIs DEF Sound, Orderly
<1>2. t.projection \in GuardianState /\ sub \in Submission
  <2>1. t.projection \in GuardianState /\ t.inbox \in Seq(Row)
    BY <1>1, TablesType
  <2>2. t.inbox[i] \in Row
    BY <1>1, <2>1, ElementType, Zenon
  <2>3. sub \in Submissions
    BY <2>2 DEF Row
  <2> QED BY <2>1, <2>3, SubmissionType, Zenon
<1>3. /\ e \in Envelope /\ e.body = sub /\ e.event_id \in EventId
      /\ e.event_id = <<t.projection.sequence + 1, sub>>
      /\ e.sequence = t.projection.sequence + 1
  BY <1>2, NextEnvelopeType, Zenon
<1>4. Queued(u) = Queued(t) \ {i} /\ Accepts(t.projection, e)
  BY ApplyRowSound, Zenon
<1>5. /\ Apply(t.projection, e) \in GuardianState
      /\ Apply(t.projection, e).sequence = e.sequence
  <2>1. DomainApply(t.projection, e.body, e.event_id) \in GuardianState
    BY <1>2, <1>3, DomainApplyType
  <2>2. Apply(t.projection, e) \in GuardianState
    BY <1>2, <1>3, ApplyType, Zenon
  <2> DEFINE d == DomainApply(t.projection, e.body, e.event_id)
  <2>3. Apply(t.projection, e)
          = [d EXCEPT !.sequence = e.sequence, !.last_event_id = e.event_id]
    BY DEF Apply
  <2> HIDE DEF d, e
  <2>4. d \in GuardianState
    BY <2>1 DEF d
  <2> QED BY <2>2, <2>3, <2>4 DEF GuardianState
<1> HIDE DEF e
<1>6. /\ u \in Tables /\ u.ledger = Append(t.ledger, new)
      /\ u.projection = Apply(t.projection, e) /\ u.initial = t.initial
      /\ u.writer_epoch = t.writer_epoch
      /\ sub.event_type # Activation =>
           /\ u.active_generation = t.active_generation
           /\ u.pending_generation = t.pending_generation
  <2>1. /\ u \in Tables /\ u.ledger = Append(t.ledger, new)
        /\ u.projection = Apply(t.projection, e) /\ u.initial = t.initial
        /\ u.writer_epoch = t.writer_epoch
        /\ u.active_generation =
             IF e.body.event_type = Activation
               THEN Apply(t.projection, e).runtime_generation
               ELSE t.active_generation
        /\ u.pending_generation =
             IF e.body.event_type = Activation THEN "" ELSE t.pending_generation
    BY <1>1, <1>3, ApplyRowFields, Zenon
  <2> HIDE DEF u, sub, new
  <2> QED BY <1>3, <2>1
<1>7. RowSettled(t, u, i, "applied", e.event_id)
  BY <1>1, <1>3, ApplyRowInbox, QueuedRowSettled, Zenon
<1> HIDE DEF u
<1>8. /\ new \in LedgerRow /\ new.envelope = e /\ new.writer_id = w
      /\ new.writer_epoch = t.writer_epoch
  BY <1>1, <1>3, TablesType DEF LedgerRowOf, LedgerRow
<1>9. /\ Len(u.ledger) = m + 1 /\ m \in Nat /\ u.ledger[m + 1] = new
      /\ \A k \in 1..m : u.ledger[k] = t.ledger[k]
  <2> DEFINE l == t.ledger
  <2>1. l \in Seq(LedgerRow) /\ u.ledger = Append(l, new)
    BY <1>1, <1>6, TablesType
  <2> HIDE DEF l, new
  <2>2. /\ Len(Append(l, new)) = Len(l) + 1 /\ Len(l) \in Nat
        /\ Append(l, new)[Len(l) + 1] = new
        /\ \A k \in 1..Len(l) : Append(l, new)[k] = l[k]
    BY <1>8, <2>1
  <2> QED BY <2>1, <2>2 DEF l
<1> HIDE DEF new
<1>10. t.writer_epoch > 0 /\ t.writer_epoch \in Nat
       /\ t.projection.sequence \in Nat
  BY <1>1, DateTypes DEF InBatch
<1>11. \A k : k \in 1..(m + 1) <=> k \in 1..m \/ k = m + 1
  BY <1>9
<1>12. \A k \in 1..Len(u.ledger) : u.ledger[k].writer_epoch <= u.writer_epoch
  <2>1. \A k \in 1..m : t.ledger[k].writer_epoch <= t.writer_epoch
    BY <1>1 DEF Dated
  <2> HIDE DEF m
  <2> QED BY <1>6, <1>8, <1>9, <1>10, <1>11, <2>1
<1>13. Dated(u) /\ InOrder(u)
  <2>1. "applied" \in {"applied", "rejected"} /\ "applied" # "rejected"
    OBVIOUS
  <2>2. e.event_id[1] = t.projection.sequence + 1
    BY <1>3
  <2>3. u.projection.sequence = e.event_id[1]
    BY <1>3, <1>5, <1>6, <2>2
  <2> QED BY <1>1, <1>3, <1>6, <1>7, <1>10, <1>12, <2>1, <2>2, <2>3, SettledOrder
<1>14. /\ SwitchesApart(u)
       /\ Queued(u) # {} =>
            /\ u.pending_generation = ""
            /\ u.active_generation = t.active_generation
            /\ \A j \in 1..Len(u.inbox) :
                 u.inbox[j].writer_epoch = u.writer_epoch =>
                   u.inbox[j].submission.event_type # Activation
  <2>1. "applied" \in {"applied", "rejected"}
    OBVIOUS
  <2> QED BY <1>1, <1>4, <1>6, <1>7, <2>1, SettledEpochs, Zenon
<1>15. Replays(u)
  BY <1>1, <1>3, <1>4, <1>6, AppliedReplays, Zenon DEF new
<1>16. /\ sub.event_type = Activation =>
            t.pending_generation # "" /\ Queued(t) = {i}
       /\ sub.event_type # Activation =>
            /\ t.pending_generation = ""
            /\ sub.runtime_generation = t.active_generation
  BY <1>1, QueuedRowSays, Zenon
<1>17. \A k \in 1..m : t.ledger[k].writer_epoch = t.writer_epoch =>
         /\ t.ledger[k].writer_id = w
         /\ t.pending_generation = ""
         /\ t.ledger[k].envelope.body.runtime_generation = t.active_generation
  BY DEF InBatch
<1>18. \A j, k \in 1..m :
         t.ledger[j].writer_epoch = t.ledger[k].writer_epoch =>
           /\ t.ledger[j].writer_id = t.ledger[k].writer_id
           /\ t.ledger[j].envelope.body.runtime_generation
                = t.ledger[k].envelope.body.runtime_generation
  BY <1>1 DEF OneWriterEach
<1> HIDE DEF m, sub
<1>19. OneWriterEach(u)
  <2> SUFFICES ASSUME NEW j \in 1..(m + 1), NEW k \in 1..(m + 1),
                      u.ledger[j].writer_epoch = u.ledger[k].writer_epoch
               PROVE  /\ u.ledger[j].writer_id = u.ledger[k].writer_id
                      /\ u.ledger[j].envelope.body.runtime_generation
                           = u.ledger[k].envelope.body.runtime_generation
    BY <1>9 DEF OneWriterEach
  <2>1. ASSUME NEW x \in 1..m, u.ledger[x].writer_epoch = t.writer_epoch
        PROVE  /\ u.ledger[x].writer_id = w
               /\ u.ledger[x].envelope.body.runtime_generation
                    = sub.runtime_generation
    <3>1. /\ t.ledger[x].writer_id = w /\ t.pending_generation = ""
          /\ t.ledger[x].envelope.body.runtime_generation = t.active_generation
      BY <1>9, <1>17, <2>1
    <3> QED BY <1>9, <1>16, <3>1
  <2>2. /\ u.ledger[m + 1].writer_id = w
        /\ u.ledger[m + 1].writer_epoch = t.writer_epoch
        /\ u.ledger[m + 1].envelope.body.runtime_generation
             = sub.runtime_generation
    BY <1>3, <1>8, <1>9
  <2>3. CASE j \in 1..m /\ k \in 1..m
    <3>1. u.ledger[j] = t.ledger[j] /\ u.ledger[k] = t.ledger[k]
      BY <1>9, <2>3
    <3> QED BY <1>18, <2>3, <3>1
  <2>4. CASE j = m + 1 \/ k = m + 1
    <3>1. /\ u.ledger[j].writer_epoch = t.writer_epoch
          /\ u.ledger[k].writer_epoch = t.writer_epoch
      BY <2>2, <2>4
    <3>2. \A x \in 1..(m + 1) : u.ledger[x].writer_epoch = t.writer_epoch =>
            /\ u.ledger[x].writer_id = w
            /\ u.ledger[x].envelope.body.runtime_generation
                 = sub.runtime_generation
      BY <1>11, <2>1, <2>2
    <3> QED BY <3>1, <3>2
  <2> QED BY <1>11, <2>3, <2>4
<1>20. ASSUME NEW k \in 1..(m + 1), u.ledger[k].writer_epoch = u.writer_epoch
       PROVE  /\ u.ledger[k].writer_id = w
              /\ Queued(u) # {} =>
                   /\ u.pending_generation = ""
                   /\ u.ledger[k].envelope.body.runtime_generation
                        = u.active_generation
  <2>1. CASE k \in 1..m
    BY <1>6, <1>9, <1>14, <1>17, <1>20, <2>1
  <2>2. CASE k = m + 1
    <3>1. Queued(u) # {} => sub.runtime_generation = t.active_generation
      BY <1>4, <1>16
    <3> QED BY <1>3, <1>8, <1>9, <1>14, <2>2, <3>1
  <2> QED BY <1>11, <2>1, <2>2
<1>21. InBatch(u, w)
  BY <1>6, <1>9, <1>10, <1>14, <1>20 DEF InBatch
<1> QED BY <1>13, <1>14, <1>15, <1>19, <1>21 DEF Orderly, u, e, sub

-----------------------------------------------------------------------------
(* The bytes of the queue *)

\* byte_count of row x.
BytesOf(t, x) == ByteCount[t.inbox[x].submission]

\* The row that is taken out of s first.
Pick(s) == CHOOSE x \in s : TRUE

\* g sums byte_count over the sets in D of rows of t.
IsBytes(g, t, D) ==
  g = [s \in D |-> IF s = {} THEN 0
                   ELSE BytesOf(t, Pick(s)) + g[s \ {Pick(s)}]]

\* Subsets of S of at most k elements.
Smaller(S, k) == {s \in SUBSET S : Cardinality(s) <= k}

\* One row taken out of a finite set.
LEMMA PickOne ==
  ASSUME NEW S, IsFiniteSet(S), NEW s \in SUBSET S, NEW x \in s
  PROVE  /\ IsFiniteSet(s) /\ IsFiniteSet(s \ {x}) /\ s \ {x} \in SUBSET S
         /\ Cardinality(s) \in Nat /\ Cardinality(s \ {x}) \in Nat
         /\ Cardinality(s \ {x}) + 1 = Cardinality(s)
<1>1. IsFiniteSet(s)
  BY FS_Subset
<1>2. IsFiniteSet(s \ {x}) /\ Cardinality(s \ {x}) = Cardinality(s) - 1
  BY <1>1, FS_RemoveElement
<1>3. Cardinality(s) \in Nat /\ Cardinality(s \ {x}) \in Nat
  BY <1>1, <1>2, FS_CardinalityType
<1> QED BY <1>1, <1>2, <1>3

\* A non-empty set has what is picked from it.
LEMMA PickIn == ASSUME NEW s, s # {} PROVE Pick(s) \in s
BY DEF Pick

\* The recursion of the sum has a solution over any finite set.
LEMMA BytesExist ==
  ASSUME NEW t, NEW S, IsFiniteSet(S)
  PROVE  \E g : IsBytes(g, t, SUBSET S)
<1> DEFINE K == {k \in Nat : \E g : IsBytes(g, t, Smaller(S, k))}
<1>0. \A s \in SUBSET S : IsFiniteSet(s) /\ Cardinality(s) \in Nat
  BY FS_Subset, FS_CardinalityType
<1>1. 0 \in K
  <2>1. \A s \in Smaller(S, 0) : s = {}
    <3> TAKE s \in Smaller(S, 0)
    <3>1. s \in SUBSET S /\ Cardinality(s) = 0
      BY <1>0 DEF Smaller
    <3> QED BY <1>0, <3>1, FS_EmptySet
  <2> DEFINE g == [s \in Smaller(S, 0) |-> 0]
  <2>2. IsBytes(g, t, Smaller(S, 0))
    BY <2>1 DEF IsBytes
  <2> QED BY <2>2
<1>2. ASSUME NEW k \in Nat, k \in K PROVE k + 1 \in K
  <2>1. PICK g : IsBytes(g, t, Smaller(S, k))
    BY <1>2
  <2> DEFINE h == [s \in Smaller(S, k + 1) |->
                     IF s = {} THEN 0 ELSE BytesOf(t, Pick(s)) + g[s \ {Pick(s)}]]
  <2>2. \A s \in Smaller(S, k + 1) : s # {} => s \ {Pick(s)} \in Smaller(S, k)
    BY <1>0, PickIn, PickOne DEF Smaller
  <2>3. \A s \in Smaller(S, k) : s \in Smaller(S, k + 1)
    BY <1>0 DEF Smaller
  <2>4. \A s \in Smaller(S, k) : h[s] = g[s]
    BY <2>1, <2>3 DEF IsBytes
  <2>5. \A s \in Smaller(S, k + 1) :
          h[s] = IF s = {} THEN 0 ELSE BytesOf(t, Pick(s)) + h[s \ {Pick(s)}]
    BY <2>2, <2>4
  <2>6. h = [s \in Smaller(S, k + 1) |->
               IF s = {} THEN 0 ELSE BytesOf(t, Pick(s)) + h[s \ {Pick(s)}]]
    <3>1. DOMAIN h = Smaller(S, k + 1)
      OBVIOUS
    <3>2. h = [s \in Smaller(S, k + 1) |-> h[s]]
      OBVIOUS
    <3> HIDE DEF h
    <3> QED BY <2>5, <3>2
  <2>7. IsBytes(h, t, Smaller(S, k + 1))
    BY <2>6 DEF IsBytes
  <2> QED BY <2>7
<1> HIDE DEF K
<1>3. Cardinality(S) \in K
  <2>1. Nat \subseteq K
    BY <1>1, <1>2, SetInduction
  <2> QED BY <2>1, FS_CardinalityType
<1>4. Smaller(S, Cardinality(S)) = SUBSET S
  BY FS_Subset DEF Smaller
<1> QED BY <1>3, <1>4 DEF K

\* What the sum is made of.
LEMMA BytesStep ==
  ASSUME NEW t, NEW S, NEW g, IsBytes(g, t, SUBSET S)
  PROVE  /\ g[{}] = 0
         /\ \A s \in SUBSET S : s # {} =>
              g[s] = BytesOf(t, Pick(s)) + g[s \ {Pick(s)}]
<1>1. \A s \in SUBSET S :
        g[s] = IF s = {} THEN 0 ELSE BytesOf(t, Pick(s)) + g[s \ {Pick(s)}]
  BY DEF IsBytes
<1> QED BY <1>1

\* It is a number, and any row may be taken out first.
LEMMA BytesOrder ==
  ASSUME NEW t, NEW S, IsFiniteSet(S), NEW g, IsBytes(g, t, SUBSET S),
         \A x \in S : BytesOf(t, x) \in Nat
  PROVE  /\ \A s \in SUBSET S : g[s] \in Nat
         /\ \A x \in S : g[S] = BytesOf(t, x) + g[S \ {x}]
<1> DEFINE Good(s) == /\ g[s] \in Nat
                      /\ \A x \in s : g[s] = BytesOf(t, x) + g[s \ {x}]
           K == {k \in Nat : \A s \in SUBSET S : Cardinality(s) <= k => Good(s)}
<1>0. \A s \in SUBSET S : IsFiniteSet(s) /\ Cardinality(s) \in Nat
  BY FS_Subset, FS_CardinalityType
<1>1. 0 \in K
  <2> SUFFICES ASSUME NEW s \in SUBSET S, Cardinality(s) <= 0
               PROVE  Good(s)
    OBVIOUS
  <2>0. Cardinality(s) = 0
    BY <1>0
  <2>1. s = {}
    BY <1>0, <2>0, FS_EmptySet
  <2>2. g[{}] = 0
    BY BytesStep
  <2> QED BY <2>1, <2>2
<1>2. ASSUME NEW k \in Nat, k \in K PROVE k + 1 \in K
  <2> SUFFICES ASSUME NEW s \in SUBSET S, Cardinality(s) <= k + 1
               PROVE  Good(s)
    OBVIOUS
  <2>1. \A r \in SUBSET S : Cardinality(r) <= k => Good(r)
    BY <1>2
  <2> HIDE DEF K, Good
  <2>2. CASE s = {}
    <3>1. Cardinality({}) = 0
      BY FS_EmptySet
    <3> QED BY <2>1, <2>2, <3>1
  <2>3. CASE s # {}
    <3> DEFINE c == Pick(s)
    <3>1. c \in s /\ g[s] = BytesOf(t, c) + g[s \ {c}]
      BY <2>3, PickIn, BytesStep
    <3> HIDE DEF c
    <3>2. ASSUME NEW r \in SUBSET s, NEW x \in r, Cardinality(r) <= k + 1
          PROVE  r \ {x} \in SUBSET S /\ Good(r \ {x}) /\ Cardinality(r \ {x}) <= k
      <4>1. /\ r \ {x} \in SUBSET S /\ Cardinality(r) \in Nat
            /\ Cardinality(r \ {x}) \in Nat
            /\ Cardinality(r \ {x}) + 1 = Cardinality(r)
        BY PickOne
      <4>2. Cardinality(r \ {x}) <= k
        BY <3>2, <4>1
      <4> QED BY <2>1, <4>1, <4>2
    <3>3. \A x \in s : Good(s \ {x}) /\ Cardinality(s \ {x}) <= k
      BY <3>2
    <3>4. \A x \in s : BytesOf(t, x) \in Nat /\ g[s \ {x}] \in Nat
      BY <3>3 DEF Good
    <3>5. g[s] \in Nat
      BY <3>1, <3>4
    <3>6. ASSUME NEW x \in s PROVE g[s] = BytesOf(t, x) + g[s \ {x}]
      <4>1. CASE x = c
        BY <3>1, <4>1
      <4>2. CASE x # c
        <5> DEFINE r == (s \ {c}) \ {x}
        <5>1. x \in s \ {c} /\ c \in s \ {x} /\ r = (s \ {x}) \ {c}
          BY <3>1, <4>2
        <5>2. Good(r)
          <6>1. Cardinality(s \ {c}) <= k + 1
            <7>1. Cardinality(s \ {c}) <= k /\ Cardinality(s \ {c}) \in Nat
              BY <1>0, <3>1, <3>3
            <7> QED BY <7>1
          <6>2. s \ {c} \in SUBSET s
            OBVIOUS
          <6> QED BY <3>2, <5>1, <6>1, <6>2
        <5>3. g[s \ {c}] = BytesOf(t, x) + g[r]
          BY <3>1, <3>3, <5>1 DEF Good
        <5>4. g[s \ {x}] = BytesOf(t, c) + g[r]
          BY <3>3, <5>1 DEF Good
        <5>5. g[r] \in Nat /\ BytesOf(t, x) \in Nat /\ BytesOf(t, c) \in Nat
          BY <3>1, <3>4, <5>2 DEF Good
        <5> HIDE DEF r
        <5> QED BY <3>1, <5>3, <5>4, <5>5
      <4> QED BY <4>1, <4>2
    <3> QED BY <3>5, <3>6 DEF Good
  <2> QED BY <2>2, <2>3
<1> HIDE DEF K, Good
<1>3. Nat \subseteq K
  BY <1>1, <1>2, SetInduction
<1>4. \A s \in SUBSET S : Good(s)
  BY <1>0, <1>3 DEF K
<1>5. S \in SUBSET S
  OBVIOUS
<1> QED BY <1>4, <1>5 DEF Good

\* Tables t and u have the same byte_count in rows S.
SameBytes(t, u, S) == \A x \in S : BytesOf(t, x) = BytesOf(u, x)

\* g sums byte_count over the subsets of S.
SumsOver(g, t, S) == IsBytes(g, t, SUBSET S)

\* Sums over two tables agree where the rows do.
LEMMA BytesAgree ==
  ASSUME NEW t, NEW u, NEW S, NEW T, IsFiniteSet(S), S \subseteq T,
         NEW g, NEW h, SumsOver(g, t, S), SumsOver(h, u, T), SameBytes(t, u, S)
  PROVE  g[S] = h[S]
<1>same. /\ IsBytes(g, t, SUBSET S) /\ IsBytes(h, u, SUBSET T)
         /\ \A x \in S : BytesOf(t, x) = BytesOf(u, x)
  BY DEF SumsOver, SameBytes
<1> DEFINE K == {k \in Nat : \A s \in SUBSET S :
                   Cardinality(s) <= k => g[s] = h[s]}
<1>0. \A s \in SUBSET S : IsFiniteSet(s) /\ Cardinality(s) \in Nat
  BY FS_Subset, FS_CardinalityType
<1>1. 0 \in K
  <2> SUFFICES ASSUME NEW s \in SUBSET S, Cardinality(s) <= 0
               PROVE  g[s] = h[s]
    OBVIOUS
  <2>1. Cardinality(s) = 0
    BY <1>0
  <2>2. s = {}
    BY <1>0, <2>1, FS_EmptySet
  <2> QED BY <1>same, <2>2, BytesStep
<1>2. ASSUME NEW k \in Nat, k \in K PROVE k + 1 \in K
  <2> SUFFICES ASSUME NEW s \in SUBSET S, Cardinality(s) <= k + 1
               PROVE  g[s] = h[s]
    OBVIOUS
  <2>1. \A r \in SUBSET S : Cardinality(r) <= k => g[r] = h[r]
    BY <1>2
  <2> HIDE DEF K
  <2>2. CASE s = {}
    BY <1>same, <2>2, BytesStep
  <2>3. CASE s # {}
    <3> DEFINE c == Pick(s)
    <3>1. c \in s
      BY <2>3, PickIn
    <3>2. g[s] = BytesOf(t, c) + g[s \ {c}]
      BY <1>same, <2>3, BytesStep
    <3>3. h[s] = BytesOf(u, c) + h[s \ {c}]
      <4>1. s \in SUBSET T
        OBVIOUS
      <4> QED BY <1>same, <2>3, <4>1, BytesStep
    <3> HIDE DEF c
    <3>4. s \ {c} \in SUBSET S /\ Cardinality(s \ {c}) <= k
      <4>1. /\ s \ {c} \in SUBSET S /\ Cardinality(s) \in Nat
            /\ Cardinality(s \ {c}) \in Nat
            /\ Cardinality(s \ {c}) + 1 = Cardinality(s)
        BY <3>1, PickOne
      <4> QED BY <4>1
    <3> QED BY <1>same, <2>1, <3>1, <3>2, <3>3, <3>4
  <2> QED BY <2>2, <2>3
<1> HIDE DEF K
<1>3. Nat \subseteq K
  BY <1>1, <1>2, SetInduction
<1>4. Cardinality(S) \in Nat /\ S \in SUBSET S
  BY <1>0
<1> QED BY <1>3, <1>4 DEF K

\* QueuedBytes is such a sum.
LEMMA QueuedBytesIs ==
  ASSUME NEW t \in Tables
  PROVE  \E g : SumsOver(g, t, Queued(t)) /\ QueuedBytes(t) = g[Queued(t)]
<1> DEFINE S == Queued(t)
           Sum == CHOOSE g : IsBytes(g, t, SUBSET S)
<1>1. IsBytes(Sum, t, SUBSET S)
  BY QueuedType, BytesExist
<1>2. QueuedBytes(t) = Sum[S]
  BY Zenon DEF QueuedBytes, MapThenSumSet, MapThenFoldSet, IsBytes, BytesOf, Pick
<1> QED BY <1>1, <1>2 DEF SumsOver

\* The frozen bounds.
InBounds(t) ==
  Cardinality(Queued(t)) <= MaxPending /\ QueuedBytes(t) <= MaxPendingBytes

\* A queued row's bytes are those of a submission.
LEMMA BytesType ==
  ASSUME NEW t \in Tables, NEW x \in Queued(t)
  PROVE  BytesOf(t, x) \in Nat
<1>1. x \in 1..Len(t.inbox) /\ t.inbox \in Seq(Row)
  BY QueuedType, TablesType
<1>2. t.inbox[x] \in Row
  BY <1>1, ElementType, Zenon
<1>3. t.inbox[x].submission \in Submissions
  BY <1>2 DEF Row
<1> QED BY <1>3, StoreAssumption DEF BytesOf

\* A sum with one row more, over tables that agree on the other rows.
LEMMA SumWithout ==
  ASSUME NEW t, NEW u, NEW Q, IsFiniteSet(Q), NEW i \in Q, NEW g, NEW h,
         SumsOver(g, t, Q), SumsOver(h, u, Q \ {i}), SameBytes(u, t, Q \ {i}),
         \A x \in Q : BytesOf(t, x) \in Nat
  PROVE  /\ g[Q] = BytesOf(t, i) + h[Q \ {i}]
         /\ g[Q] \in Nat /\ h[Q \ {i}] \in Nat /\ BytesOf(t, i) \in Nat
<1> DEFINE R == Q \ {i}
<1>1. R \subseteq Q /\ IsFiniteSet(R)
  BY FS_RemoveElement
<1>2. SumsOver(h, u, R) /\ SameBytes(u, t, R)
  OBVIOUS
<1>3. IsBytes(g, t, SUBSET Q)
  BY DEF SumsOver
<1>4. g[Q] = BytesOf(t, i) + g[R]
  BY <1>3, BytesOrder
<1>5. g[R] \in Nat /\ g[Q] \in Nat
  <2>1. R \in SUBSET Q /\ Q \in SUBSET Q
    OBVIOUS
  <2>2. \A s \in SUBSET Q : g[s] \in Nat
    BY <1>3, BytesOrder
  <2> QED BY <2>1, <2>2
<1> HIDE DEF R
<1>6. h[R] = g[R]
  BY <1>1, <1>2, BytesAgree
<1> QED BY <1>4, <1>5, <1>6 DEF R

\* Fewer queued rows keep the bounds.
LEMMA FewerInBounds ==
  ASSUME NEW t \in Tables, NEW u \in Tables, InBounds(t), NEW i \in Queued(t),
         \A x \in Queued(u) : u.inbox[x].submission = t.inbox[x].submission,
         Queued(u) = Queued(t) \ {i}
  PROVE  InBounds(u)
<1> DEFINE Q == Queued(t)
           R == Queued(u)
<1>1. IsFiniteSet(Q) /\ IsFiniteSet(R)
  BY QueuedType
<1>2. PICK g : SumsOver(g, t, Q) /\ QueuedBytes(t) = g[Q]
  BY QueuedBytesIs
<1>3. PICK h : SumsOver(h, u, R) /\ QueuedBytes(u) = h[R]
  BY QueuedBytesIs
<1>4. SameBytes(u, t, R)
  BY DEF SameBytes, BytesOf
<1>5. \A x \in Q : BytesOf(t, x) \in Nat
  BY BytesType
<1>6. R = Q \ {i} /\ i \in Q
  OBVIOUS
<1>7. Cardinality(Q) <= MaxPending /\ g[Q] <= MaxPendingBytes
  BY <1>2 DEF InBounds
<1>8. MaxPending \in Nat /\ MaxPendingBytes \in Nat
  BY StoreAssumption
<1> HIDE DEF Q, R
<1>9. /\ g[Q] = BytesOf(t, i) + h[R]
      /\ g[Q] \in Nat /\ h[R] \in Nat /\ BytesOf(t, i) \in Nat
  BY <1>1, <1>2, <1>3, <1>4, <1>5, <1>6, SumWithout, SMTT(30)
<1>10. h[R] <= MaxPendingBytes
  BY <1>7, <1>8, <1>9
<1>11. /\ Cardinality(Q) \in Nat /\ Cardinality(R) \in Nat
       /\ Cardinality(R) + 1 = Cardinality(Q)
  BY <1>1, <1>6, PickOne
<1>12. Cardinality(R) <= MaxPending
  BY <1>7, <1>8, <1>11
<1> QED BY <1>3, <1>10, <1>12 DEF InBounds, R

\* A row for which there is room keeps the bounds.
LEMMA RoomInBounds ==
  ASSUME NEW t \in Tables, NEW u \in Tables, NEW s \in Submissions,
         InboxHasRoom(t, s), NEW n, n \notin Queued(t),
         Queued(u) = Queued(t) \cup {n}, u.inbox[n].submission = s,
         \A x \in Queued(t) : u.inbox[x].submission = t.inbox[x].submission
  PROVE  InBounds(u)
<1> DEFINE Q == Queued(u)
           R == Queued(t)
<1>1. IsFiniteSet(Q) /\ IsFiniteSet(R)
  BY QueuedType
<1>2. PICK g : SumsOver(g, u, Q) /\ QueuedBytes(u) = g[Q]
  BY QueuedBytesIs
<1>3. PICK h : SumsOver(h, t, R) /\ QueuedBytes(t) = h[R]
  BY QueuedBytesIs
<1>4. SameBytes(t, u, R)
  BY DEF SameBytes, BytesOf
<1>5. \A x \in Q : BytesOf(u, x) \in Nat
  BY BytesType
<1>6. R = Q \ {n} /\ n \in Q
  OBVIOUS
<1>7. Cardinality(R) < MaxPending /\ h[R] + ByteCount[s] <= MaxPendingBytes
  BY <1>3 DEF InboxHasRoom
<1>8. MaxPending \in Nat /\ MaxPendingBytes \in Nat /\ ByteCount[s] \in Nat
  BY StoreAssumption
<1>9. BytesOf(u, n) = ByteCount[s]
  BY DEF BytesOf
<1> HIDE DEF Q, R
<1>10. /\ g[Q] = BytesOf(u, n) + h[R]
       /\ g[Q] \in Nat /\ h[R] \in Nat
  BY <1>1, <1>2, <1>3, <1>4, <1>5, <1>6, SumWithout
<1>11. g[Q] <= MaxPendingBytes
  BY <1>7, <1>8, <1>9, <1>10
<1>12. /\ Cardinality(Q) \in Nat /\ Cardinality(R) \in Nat
       /\ Cardinality(R) + 1 = Cardinality(Q)
  BY <1>1, <1>6, PickOne
<1>13. Cardinality(Q) <= MaxPending
  BY <1>7, <1>8, <1>12
<1> QED BY <1>2, <1>11, <1>13 DEF InBounds, Q

\* An empty inbox is within the bounds.
LEMMA EmptyInBounds ==
  ASSUME NEW t \in Tables, Queued(t) = {}
  PROVE  InBounds(t)
<1>1. PICK g : SumsOver(g, t, Queued(t)) /\ QueuedBytes(t) = g[Queued(t)]
  BY QueuedBytesIs
<1>2. g[{}] = 0
  BY <1>1, BytesStep DEF SumsOver
<1>3. Cardinality({}) = 0
  BY FS_EmptySet
<1>4. MaxPending \in Nat /\ MaxPendingBytes \in Nat
  BY StoreAssumption
<1> QED BY <1>1, <1>2, <1>3, <1>4 DEF InBounds

-----------------------------------------------------------------------------
(* What every operation keeps of order and bounds *)

\* The same queue keeps the bounds.
LEMMA SameInBounds ==
  ASSUME NEW t \in Tables, NEW u \in Tables, InBounds(t), Queued(u) = Queued(t),
         \A x \in Queued(t) : u.inbox[x].submission = t.inbox[x].submission
  PROVE  InBounds(u)
<1> DEFINE Q == Queued(t)
<1>1. IsFiniteSet(Q)
  BY QueuedType
<1>2. PICK g : SumsOver(g, t, Q) /\ QueuedBytes(t) = g[Q]
  BY QueuedBytesIs
<1>3. PICK h : SumsOver(h, u, Q) /\ QueuedBytes(u) = h[Q]
  BY QueuedBytesIs
<1>4. SameBytes(t, u, Q)
  BY DEF SameBytes, BytesOf
<1>5. Cardinality(Q) <= MaxPending /\ g[Q] <= MaxPendingBytes
  BY <1>2 DEF InBounds
<1>6. Queued(u) = Q
  OBVIOUS
<1> HIDE DEF Q
<1>7. Q \subseteq Q
  OBVIOUS
<1>8. g[Q] = h[Q]
  BY <1>1, <1>2, <1>3, <1>4, <1>7, BytesAgree
<1> QED BY <1>3, <1>5, <1>6, <1>8 DEF InBounds

\* A settled row frees its place.
LEMMA SettledInBounds ==
  ASSUME NEW t \in Tables, NEW u \in Tables, InBounds(t), NEW i \in Queued(t),
         NEW status, NEW id, RowSettled(t, u, i, status, id),
         Queued(u) = Queued(t) \ {i}
  PROVE  InBounds(u)
<1>1. \A x \in 1..Len(t.inbox) : u.inbox[x].submission = t.inbox[x].submission
  BY DEF RowSettled
<1>2. Queued(t) \subseteq 1..Len(t.inbox)
  BY QueuedType
<1>3. \A x \in Queued(u) : u.inbox[x].submission = t.inbox[x].submission
  BY <1>1, <1>2
<1> QED BY <1>3, FewerInBounds

\* Orderly tables within the bounds.
Kept(t) == Orderly(t) /\ InBounds(t)

\* A store as initialize leaves it is orderly and empty.
LEMMA FreshKept ==
  ASSUME NEW t \in Tables, t.inbox = <<>>, t.ledger = <<>>,
         t.projection = t.initial
  PROVE  Kept(t)
<1>1. Len(t.inbox) = 0 /\ Len(t.ledger) = 0
  OBVIOUS
<1>2. 1..0 = {}
  OBVIOUS
<1>3. Queued(t) = {}
  <2>1. Queued(t) \subseteq 1..Len(t.inbox)
    BY QueuedType
  <2> QED BY <1>1, <1>2, <2>1
<1>4. InBounds(t)
  BY <1>3, EmptyInBounds
<1>5. Replays(t)
  BY FreshReplays
<1>6. Dated(t) /\ InOrder(t) /\ SwitchesApart(t) /\ OneWriterEach(t)
  BY <1>1, <1>2, Zenon DEF Dated, InOrder, SwitchesApart, OneWriterEach
<1> QED BY <1>4, <1>5, <1>6 DEF Kept, Orderly

\* submit's refusal waits for nobody.
LEMMA InsertRejectedKept ==
  ASSUME NEW t, Sound(t), Kept(t), NEW s \in Submissions, Rejection(t, s) # ""
  PROVE  Kept(InsertRejected(t, s))
<1> DEFINE u == InsertRejected(t, s)
           row == NewRow(s, "rejected", Rejection(t, s))
<1>1. t \in Tables /\ Orderly(t) /\ InBounds(t)
  BY DEF Sound, Kept
<1>2. /\ u \in Tables /\ u.ledger = t.ledger /\ u.projection = t.projection
      /\ u.initial = t.initial /\ u.writer_epoch = t.writer_epoch
  BY <1>1, InsertRejectedFields, Zenon
<1>3. InboxAppended(t, u, row) /\ row.status = "rejected"
  BY <1>1, InsertRejectedInbox, Zenon
<1>4. row.writer_epoch = 0
  BY DEF NewRow
<1> HIDE DEF u, row
<1>5. row.status # "applied" /\ row.status # "queued"
  BY <1>3
<1>6. Orderly(u)
  BY <1>1, <1>2, <1>3, <1>4, <1>5, AppendedOrderly, Zenon
<1>7. Queued(u) = Queued(t)
  <2>1. Queued(u) = Queued(t) \cup (IF row.status = "queued"
                                      THEN {Len(t.inbox) + 1} ELSE {})
    BY <1>1, <1>2, <1>3, QueuedAppended
  <2> QED BY <1>5, <2>1
<1>8. \A x \in Queued(t) : u.inbox[x].submission = t.inbox[x].submission
  <2>1. Queued(t) \subseteq 1..Len(t.inbox)
    BY <1>1, QueuedType
  <2>2. \A x \in 1..Len(t.inbox) : u.inbox[x] = t.inbox[x]
    BY <1>3, Zenon DEF InboxAppended
  <2> QED BY <2>1, <2>2
<1>9. InBounds(u)
  BY <1>1, <1>2, <1>7, <1>8, SameInBounds
<1> QED BY <1>6, <1>9 DEF Kept, u

\* submit queues behind every row, where there is room.
LEMMA InsertQueuedKept ==
  ASSUME NEW t, Sound(t), Kept(t), NEW s \in Submissions, InboxHasRoom(t, s)
  PROVE  Kept(InsertQueued(t, s))
<1> DEFINE u == InsertQueued(t, s)
           row == NewRow(s, "queued", "")
           n == Len(t.inbox) + 1
<1>1. t \in Tables /\ Orderly(t) /\ InBounds(t)
  BY DEF Sound, Kept
<1>2. /\ u \in Tables /\ u.ledger = t.ledger /\ u.projection = t.projection
      /\ u.initial = t.initial /\ u.writer_epoch = t.writer_epoch
  BY <1>1, InsertQueuedFields, Zenon
<1>3. InboxAppended(t, u, row) /\ row.status = "queued" /\ row.submission = s
  BY <1>1, InsertQueuedInbox, Zenon
<1>4. row.writer_epoch = 0
  BY DEF NewRow
<1> HIDE DEF u, row
<1>5. row.status # "applied"
  BY <1>3
<1>6. Orderly(u)
  BY <1>1, <1>2, <1>3, <1>4, <1>5, AppendedOrderly, Zenon
<1>7. Queued(u) = Queued(t) \cup {n}
  <2>1. Queued(u) = Queued(t) \cup (IF row.status = "queued"
                                      THEN {Len(t.inbox) + 1} ELSE {})
    BY <1>1, <1>2, <1>3, QueuedAppended
  <2> QED BY <1>3, <2>1
<1>8. Queued(t) \subseteq 1..Len(t.inbox) /\ Len(t.inbox) \in Nat
  BY <1>1, QueuedType
<1>9. \A x \in Queued(t) : u.inbox[x].submission = t.inbox[x].submission
  <2>1. \A x \in 1..Len(t.inbox) : u.inbox[x] = t.inbox[x]
    BY <1>3, Zenon DEF InboxAppended
  <2> QED BY <1>8, <2>1
<1>10. n \notin Queued(t)
  BY <1>8
<1>11. u.inbox[n].submission = s
  BY <1>3 DEF InboxAppended
<1> HIDE DEF n
<1>12. InBounds(u)
  BY <1>1, <1>2, <1>7, <1>9, <1>10, <1>11, RoomInBounds
<1> QED BY <1>6, <1>12 DEF Kept, u

\* The head of a drain settles nothing yet.
LEMMA NextEpochKept ==
  ASSUME NEW t, Sound(t), Kept(t), NEW w, NEW u,
         u = [t EXCEPT !.writer_epoch = @ + 1]
  PROVE  Kept(u) /\ InBatch(u, w)
<1>1. t \in Tables /\ Orderly(t) /\ InBounds(t)
  BY DEF Sound, Kept
<1>2. u \in Tables /\ Queued(u) = Queued(t)
  BY NextEpochSound, Zenon DEF Sound
<1>3. /\ u.inbox = t.inbox /\ u.ledger = t.ledger
      /\ u.projection = t.projection /\ u.initial = t.initial
      /\ u.writer_epoch = t.writer_epoch + 1
  <2> DEFINE n == t.writer_epoch + 1
  <2>1. u = [t EXCEPT !.writer_epoch = n]
    OBVIOUS
  <2> HIDE DEF n
  <2>2. /\ u.inbox = t.inbox /\ u.ledger = t.ledger
        /\ u.projection = t.projection /\ u.initial = t.initial
        /\ u.writer_epoch = n
    BY <1>1, <2>1 DEF Tables
  <2> QED BY <2>2 DEF n
<1>4. Orderly(u) /\ InBatch(u, w)
  BY <1>1, <1>2, <1>3, NextEpochOrderly, Zenon
<1>5. \A x \in Queued(t) : u.inbox[x].submission = t.inbox[x].submission
  BY <1>3
<1>6. InBounds(u)
  BY <1>1, <1>2, <1>5, SameInBounds
<1> QED BY <1>4, <1>6 DEF Kept

\* One row of a batch, refused.
LEMMA RejectRowKept ==
  ASSUME NEW t, Sound(t), Kept(t), NEW i \in Queued(t),
         \A j \in Queued(t) : i <= j, NEW w, InBatch(t, w)
  PROVE  Kept(RejectRow(t, i)) /\ InBatch(RejectRow(t, i), w)
<1> DEFINE u == RejectRow(t, i)
<1>1. t \in Tables /\ Orderly(t) /\ InBounds(t) /\ i \in 1..Len(t.inbox)
  BY QueuedIs DEF Sound, Kept
<1>2. Orderly(u) /\ InBatch(u, w)
  BY <1>1, RejectRowOrderly, Zenon
<1>3. u \in Tables /\ Queued(u) = Queued(t) \ {i}
  BY RejectRowSound, Zenon DEF Sound
<1>4. RowSettled(t, u, i, "rejected", NoEvent)
  BY <1>1, RejectRowInbox, QueuedRowSettled, Zenon
<1> HIDE DEF u
<1>5. InBounds(u)
  BY <1>1, <1>3, <1>4, SettledInBounds
<1> QED BY <1>2, <1>5 DEF Kept, u

\* One row of a batch, accepted.
LEMMA ApplyRowKept ==
  ASSUME NEW t, Sound(t), Kept(t), NEW i \in Queued(t),
         \A j \in Queued(t) : i <= j, NEW w \in Writers, InBatch(t, w),
         Accepts(t.projection,
                 NextEnvelope(t.projection, t.inbox[i].submission))
  PROVE  LET u == ApplyRow(t, i,
                    NextEnvelope(t.projection, t.inbox[i].submission), w)
         IN  Kept(u) /\ InBatch(u, w)
<1> DEFINE e == NextEnvelope(t.projection, t.inbox[i].submission)
           u == ApplyRow(t, i, e, w)
<1>1. t \in Tables /\ Orderly(t) /\ InBounds(t) /\ i \in 1..Len(t.inbox)
  BY QueuedIs DEF Sound, Kept
<1>2. Orderly(u) /\ InBatch(u, w)
  BY <1>1, ApplyRowOrderly, Zenon
<1>3. u \in Tables /\ Queued(u) = Queued(t) \ {i}
  BY ApplyRowSound, Zenon DEF Sound
<1>4. e \in Envelope
  <2>1. t.projection \in GuardianState /\ t.inbox \in Seq(Row)
    BY <1>1, TablesType
  <2>2. t.inbox[i] \in Row
    BY <1>1, <2>1, ElementType, Zenon
  <2>3. t.inbox[i].submission \in Submission
    BY <2>2, SubmissionType DEF Row
  <2> QED BY <2>1, <2>3, NextEnvelopeType, Zenon
<1> HIDE DEF e
<1>5. RowSettled(t, u, i, "applied", e.event_id)
  BY <1>1, <1>4, ApplyRowInbox, QueuedRowSettled, Zenon
<1> HIDE DEF u
<1>6. InBounds(u)
  BY <1>1, <1>3, <1>5, SettledInBounds
<1> QED BY <1>2, <1>6 DEF Kept, u, e

\* IInv, and the tables replay, keep the order of the inbox and its bounds; a
\* drain's batch is its writer's and of one generation.
OInv ==
  /\ IInv
  /\ Kept(db) /\ Kept(work)
  /\ txn.op = "drain" => InBatch(work, txn.writer)

\* The store as initialize leaves it.
LEMMA InitOInv == Init => OInv
<1> SUFFICES ASSUME Init PROVE OInv
  OBVIOUS
<1>1. IInv
  BY InitIInv
<1>2. db \in Tables
  BY <1>1 DEF IInv, TypeOK
<1>5. db.inbox = <<>> /\ db.ledger = <<>> /\ db.projection = db.initial
  <2>1. PICK s \in Initials :
          db = [initial |-> s, active_generation |-> s.runtime_generation,
                pending_generation |-> "", writer_epoch |-> 0,
                projection |-> s, inbox |-> <<>>, ledger |-> <<>>]
    BY Zenon DEF Init
  <2> QED BY <2>1
<1>3. Kept(db)
  BY <1>2, <1>5, FreshKept
<1>4. work = db /\ txn.op # "drain"
  BY DEF Init, Idle
<1> QED BY <1>1, <1>3, <1>4 DEF OInv

\* One row of a batch.
LEMMA DrainRowOrderly ==
  ASSUME OInv, DrainRow
  PROVE  Kept(work') /\ InBatch(work', txn.writer) /\ db' = db
<1> DEFINE i == NextRow
           e == NextEnvelope(work.projection, work.inbox[i].submission)
<1>1. /\ txn.op = "drain" /\ txn.left > 0 /\ txn.left \in Nat
      /\ txn.writer \in Writers /\ txn.left <= Cardinality(Queued(work))
      /\ Sound(work) /\ work \in Tables /\ Kept(work)
      /\ InBatch(work, txn.writer)
  BY DEF OInv, IInv, TypeOK, DrainRow
<1>2. Queued(work) # {}
  BY <1>1, FS_EmptySet
<1>3. i \in Queued(work) /\ \A j \in Queued(work) : i <= j
  BY <1>1, <1>2, NextRowIsFirst
<1>4. /\ work' = IF Accepts(work.projection, e)
                   THEN ApplyRow(work, i, e, txn.writer) ELSE RejectRow(work, i)
      /\ db' = db
  BY DEF DrainRow
<1> HIDE DEF i
<1>5. CASE Accepts(work.projection, e)
  <2>1. work' = ApplyRow(work, i, e, txn.writer)
    BY <1>4, <1>5
  <2>2. Kept(work') /\ InBatch(work', txn.writer)
    BY <1>1, <1>3, <1>5, <2>1, ApplyRowKept, Zenon
  <2> QED BY <1>4, <2>2
<1>6. CASE ~Accepts(work.projection, e)
  <2>1. work' = RejectRow(work, i)
    BY <1>4, <1>6
  <2>2. Kept(work') /\ InBatch(work', txn.writer)
    BY <1>1, <1>3, <2>1, RejectRowKept, Zenon
  <2> QED BY <1>4, <2>2
<1> QED BY <1>5, <1>6

\* OInv is inductive, so it holds of every reachable state.
LEMMA OrderlyInductive == Spec => []OInv
<1>1. Init => OInv
  BY InitOInv
<1>2. OInv /\ IInv' /\ [Next]_vars => OInv'
  <2> SUFFICES ASSUME OInv, IInv', [Next]_vars
               PROVE  /\ Kept(db)' /\ Kept(work)'
                      /\ txn'.op = "drain" => InBatch(work', txn'.writer)
    BY DEF OInv
  <2>1. Kept(db) /\ Kept(work) /\ IInv
    BY DEF OInv
  <2>2. ASSUME txn = Idle PROVE Sound(work)
    BY <2>1, <2>2, IdleFacts
  <2>3. ASSUME NEW s \in Submissions, Resubmit(s)
        PROVE  db' = db /\ work' = work /\ txn'.op # "drain"
    BY <2>3 DEF Resubmit, SubmitDone
  <2>4. ASSUME NEW s \in Submissions, SubmitRejected(s)
        PROVE  db' = db /\ Kept(work') /\ txn'.op # "drain"
    <3>1. /\ txn = Idle /\ Rejection(work, s) # "" /\ db' = db
          /\ work' = InsertRejected(work, s) /\ txn'.op = "submit"
      BY <2>4 DEF SubmitRejected, SubmitDone
    <3>2. Kept(work')
      BY <2>1, <2>2, <3>1, InsertRejectedKept, Zenon
    <3> QED BY <3>1, <3>2
  <2>5. ASSUME NEW s \in Submissions, SubmitQueued(s)
        PROVE  db' = db /\ Kept(work') /\ txn'.op # "drain"
    <3>1. /\ txn = Idle /\ InboxHasRoom(work, s) /\ db' = db
          /\ work' = InsertQueued(work, s) /\ txn'.op = "submit"
      BY <2>5 DEF SubmitQueued, SubmitDone
    <3>2. Kept(work')
      BY <2>1, <2>2, <3>1, InsertQueuedKept, Zenon
    <3> QED BY <3>1, <3>2
  <2>6. ASSUME NEW w \in Writers, NEW g \in Generation, NEW n \in Limits,
               DrainBegin(w, g, n)
        PROVE  db' = db /\ Kept(work') /\ InBatch(work', txn'.writer)
    <3>1. /\ txn = Idle /\ db' = db
          /\ work' = [work EXCEPT !.writer_epoch = @ + 1]
      BY <2>6 DEF DrainBegin
    <3>2. Kept(work') /\ InBatch(work', txn'.writer)
      BY <2>1, <2>2, <3>1, NextEpochKept, Zenon
    <3> QED BY <3>1, <3>2
  <2>7. CASE DrainRow
    <3>1. Kept(work') /\ InBatch(work', txn.writer) /\ db' = db
      BY <2>7, DrainRowOrderly
    <3>2. txn'.writer = txn.writer
      <4>1. txn \in [op: {"none", "submit", "drain"}, writer: Writers \cup {""},
                     left: Nat, receipts: SUBSET Receipt]
        BY <2>1 DEF IInv, TypeOK
      <4>2. \E left, receipts :
              txn' = [txn EXCEPT !.left = left, !.receipts = receipts]
        BY <2>7 DEF DrainRow
      <4> QED BY <4>1, <4>2
    <3> QED BY <2>1, <3>1, <3>2
  <2>8. ASSUME NEW delivered \in Delivered, Commit(delivered)
        PROVE  db' = work /\ work' = work /\ txn'.op # "drain"
    BY <2>8 DEF Commit, Idle
  <2>9. ASSUME Rollback
        PROVE  db' = db /\ work' = db /\ txn'.op # "drain"
    BY <2>9 DEF Rollback, Idle
  <2>10. ASSUME UNCHANGED vars
         PROVE  db' = db /\ work' = work /\ txn' = txn
    BY <2>10 DEF vars
  <2>11. txn.op = "drain" => InBatch(work, txn.writer)
    BY DEF OInv
  <2> QED BY <2>1, <2>3, <2>4, <2>5, <2>6, <2>7, <2>8, <2>9, <2>10, <2>11
          DEF Next, Submit, Drain
<1> QED BY <1>1, <1>2, Inductive, PTL DEF Spec

\* audit()'s replay: for any ledger the store can hold, replaying it from the
\* initial state accepts every row and ends in the stored projection, in the
\* generation of the meta row.
THEOREM LedgerAlwaysReplays == Spec => []LedgerReplays
<1>1. OInv => LedgerReplays
  <2> SUFFICES ASSUME OInv PROVE LedgerReplays
    OBVIOUS
  <2>1. Replays(db) /\ MetaAgrees(db)
    BY DEF OInv, Kept, Orderly, IInv, Sound
  <2>2. db.active_generation = db.projection.runtime_generation
    BY <2>1 DEF MetaAgrees
  <2> QED BY <2>1, <2>2, Zenon DEF Replays, LedgerReplays
<1> QED BY <1>1, OrderlyInductive, PTL

\* drain settles rows in the order submit queued them, across writers, crashes
\* and refusals.
THEOREM OrderKept == Spec => []NothingOvertakes
<1>1. OInv => NothingOvertakes
  <2> SUFFICES ASSUME OInv PROVE NothingOvertakes
    OBVIOUS
  <2>1. InOrder(db) /\ db \in Tables
    BY DEF OInv, Kept, Orderly, IInv, TypeOK
  <2>2. DOMAIN db.inbox = 1..Len(db.inbox)
    BY <2>1, QueuedType
  <2> QED BY <2>1, <2>2 DEF InOrder, InTurn, NothingOvertakes
<1> QED BY <1>1, OrderlyInductive, PTL

\* No writer epoch settles an activation beside another row, and the ledger rows
\* of an epoch are one writer's and of one generation.
THEOREM EpochsUnmixed == Spec => []SwitchNotBatched
<1>1. OInv => SwitchNotBatched
  <2> SUFFICES ASSUME OInv PROVE SwitchNotBatched
    OBVIOUS
  <2>1. SwitchesApart(db) /\ OneWriterEach(db) /\ db \in Tables
    BY DEF OInv, Kept, Orderly, IInv, TypeOK
  <2>2. DOMAIN db.inbox = 1..Len(db.inbox) /\ DOMAIN db.ledger = 1..Len(db.ledger)
    BY <2>1, QueuedType, LedgerType
  <2> QED BY <2>1, <2>2, Zenon DEF SwitchesApart, OneWriterEach, SwitchNotBatched
<1> QED BY <1>1, OrderlyInductive, PTL

\* However submits, drains, crashes and switches alternate, the rows that wait
\* stay within max_pending and their bytes within max_pending_bytes.
THEOREM InboxStaysBounded == Spec => []InboxBounded
<1>1. OInv => InboxBounded
  BY DEF OInv, Kept, InBounds, InboxBounded
<1> QED BY <1>1, OrderlyInductive, PTL
-----------------------------------------------------------------------------
(* The promise to producers *)

\* q, and behind it what row adds to what waits.
Behind(q, row) ==
  IF row.status = "queued" THEN Append(q, row.submission) ELSE q

NoneWaits == <<>>

\* f[k] is what waits among the first k rows of t.
IsWaiting(f, t, m) ==
  f = [k \in 0..m |-> IF k = 0 THEN NoneWaits ELSE Behind(f[k - 1], t.inbox[k])]

\* The recursion of Waiting has a solution.
LEMMA WaitingExists ==
  ASSUME NEW t, NEW m \in Nat
  PROVE  \E f : IsWaiting(f, t, m)
<1> DEFINE S == {k \in Nat : \E f : IsWaiting(f, t, k)}
<1>1. 0 \in S
  <2> DEFINE f == [k \in 0..0 |-> NoneWaits]
  <2>1. \A k \in 0..0 : k = 0
    OBVIOUS
  <2>2. IsWaiting(f, t, 0)
    BY <2>1 DEF IsWaiting
  <2> QED BY <2>2
<1>2. ASSUME NEW k \in Nat, k \in S PROVE k + 1 \in S
  <2>1. PICK f : IsWaiting(f, t, k)
    BY <1>2
  <2> DEFINE g == [j \in 0..(k + 1) |->
                     IF j = 0 THEN NoneWaits ELSE Behind(f[j - 1], t.inbox[j])]
  <2>2. \A j \in 0..k : g[j] = f[j]
    BY <2>1 DEF IsWaiting
  <2>3. \A j \in 0..(k + 1) : j # 0 => j - 1 \in 0..k
    OBVIOUS
  <2>4. IsWaiting(g, t, k + 1)
    BY <2>2, <2>3 DEF IsWaiting
  <2> QED BY <2>4
<1> HIDE DEF S
<1>3. Nat \subseteq S
  BY <1>1, <1>2, SetInduction
<1> QED BY <1>3 DEF S

\* Waiting satisfies its recursion.
LEMMA WaitingIs ==
  ASSUME NEW t \in Tables
  PROVE  \E f : IsWaiting(f, t, Len(t.inbox)) /\ Waiting(t) = f[Len(t.inbox)]
<1> DEFINE F == CHOOSE f : IsWaiting(f, t, Len(t.inbox))
<1>1. IsWaiting(F, t, Len(t.inbox))
  <2>1. Len(t.inbox) \in Nat
    BY QueuedType
  <2>2. \E f : IsWaiting(f, t, Len(t.inbox))
    BY <2>1, WaitingExists
  <2> QED BY <2>2
<1>2. Waiting(t) = F[Len(t.inbox)]
  BY Zenon DEF Waiting, IsWaiting, Behind, NoneWaits
<1> QED BY <1>1, <1>2

\* Row by row.
LEMMA WaitingRow ==
  ASSUME NEW f, NEW t, NEW m \in Nat, IsWaiting(f, t, m)
  PROVE  /\ f[0] = NoneWaits
         /\ \A k \in Nat : k + 1 <= m => f[k + 1] = Behind(f[k], t.inbox[k + 1])
<1>1. \A k \in 0..m :
        f[k] = IF k = 0 THEN NoneWaits ELSE Behind(f[k - 1], t.inbox[k])
  BY DEF IsWaiting
<1>2. f[0] = NoneWaits
  BY <1>1
<1>3. ASSUME NEW k \in Nat, k + 1 <= m
      PROVE  f[k + 1] = Behind(f[k], t.inbox[k + 1])
  <2>1. k + 1 \in 0..m /\ k + 1 # 0 /\ (k + 1) - 1 = k
    BY <1>3
  <2> QED BY <1>1, <2>1
<1> QED BY <1>2, <1>3

\* What waits are submissions.
LEMMA WaitingSeq ==
  ASSUME NEW t \in Tables, NEW f, IsWaiting(f, t, Len(t.inbox))
  PROVE  \A k \in 0..Len(t.inbox) : f[k] \in Seq(Submissions)
<1> DEFINE m == Len(t.inbox)
           S == {k \in Nat : k <= m => f[k] \in Seq(Submissions)}
<1>0. m \in Nat /\ \A k \in 1..m : t.inbox[k].submission \in Submissions
  <2>1. m \in Nat /\ t.inbox \in Seq(Row)
    BY QueuedType, TablesType
  <2>2. \A k \in 1..m : t.inbox[k] \in Row
    BY <2>1, ElementType, Zenon
  <2> QED BY <2>1, <2>2 DEF Row
<1> HIDE DEF m
<1>rows. IsWaiting(f, t, m)
  BY DEF m
<1>1. 0 \in S
  <2>1. f[0] = NoneWaits
    BY <1>0, <1>rows, WaitingRow
  <2>2. NoneWaits \in Seq(Submissions)
    BY DEF NoneWaits
  <2> QED BY <2>1, <2>2
<1>2. ASSUME NEW k \in Nat, k \in S PROVE k + 1 \in S
  <2> SUFFICES ASSUME k + 1 <= m PROVE f[k + 1] \in Seq(Submissions)
    OBVIOUS
  <2>1. f[k] \in Seq(Submissions) /\ t.inbox[k + 1].submission \in Submissions
    BY <1>0, <1>2
  <2>2. f[k + 1] = Behind(f[k], t.inbox[k + 1])
    BY <1>0, <1>rows, WaitingRow
  <2> QED BY <2>1, <2>2, AppendSeq DEF Behind
<1> HIDE DEF S
<1>3. Nat \subseteq S
  BY <1>1, <1>2, SetInduction
<1> QED BY <1>0, <1>3 DEF S, m

\* The queue is a sequence of submissions.
LEMMA WaitingType ==
  ASSUME NEW t \in Tables
  PROVE  Waiting(t) \in Seq(Submissions)
<1>1. PICK f : IsWaiting(f, t, Len(t.inbox)) /\ Waiting(t) = f[Len(t.inbox)]
  BY WaitingIs
<1>2. Len(t.inbox) \in 0..Len(t.inbox)
  BY QueuedType
<1> QED BY <1>1, <1>2, WaitingSeq

\* The first m rows of t and u have the same submissions and statuses.
SameRows(t, u, m) ==
  \A k \in 1..m : /\ u.inbox[k].submission = t.inbox[k].submission
                  /\ u.inbox[k].status = t.inbox[k].status

\* The queue depends on the rows' submissions and statuses only.
LEMMA WaitingAgree ==
  ASSUME NEW t, NEW u, NEW m \in Nat, NEW n \in Nat, m <= n, NEW f, NEW g,
         IsWaiting(f, t, m), IsWaiting(g, u, n), SameRows(t, u, m)
  PROVE  g[m] = f[m]
<1> DEFINE S == {k \in Nat : k <= m => g[k] = f[k]}
<1>rows. /\ f[0] = NoneWaits /\ g[0] = NoneWaits
         /\ \A k \in Nat : k + 1 <= m => f[k + 1] = Behind(f[k], t.inbox[k + 1])
         /\ \A k \in Nat : k + 1 <= n => g[k + 1] = Behind(g[k], u.inbox[k + 1])
  BY WaitingRow
<1>same. \A k \in 1..m : \A q : Behind(q, u.inbox[k]) = Behind(q, t.inbox[k])
  BY Zenon DEF Behind, SameRows
<1>1. 0 \in S
  BY <1>rows
<1>2. ASSUME NEW k \in Nat, k \in S PROVE k + 1 \in S
  <2> SUFFICES ASSUME k + 1 <= m PROVE g[k + 1] = f[k + 1]
    OBVIOUS
  <2>1. g[k] = f[k] /\ k + 1 <= n /\ k + 1 \in 1..m
    BY <1>2
  <2> QED BY <1>rows, <1>same, <2>1
<1> HIDE DEF S
<1>3. Nat \subseteq S
  BY <1>1, <1>2, SetInduction
<1> QED BY <1>3 DEF S

\* A new row waits behind the others, if it is queued.
LEMMA WaitingAppended ==
  ASSUME NEW t \in Tables, NEW u \in Tables, NEW row, InboxAppended(t, u, row)
  PROVE  Waiting(u) = IF row.status = "queued"
                        THEN Append(Waiting(t), row.submission) ELSE Waiting(t)
<1> DEFINE n == Len(t.inbox)
<1>1. n \in Nat /\ n <= n + 1 /\ n <= n
  BY QueuedType
<1>2. /\ Len(u.inbox) = n + 1 /\ u.inbox[n + 1] = row
      /\ \A j \in 1..n : u.inbox[j] = t.inbox[j]
  BY DEF InboxAppended
<1>3. PICK f : IsWaiting(f, t, n) /\ Waiting(t) = f[n]
  BY WaitingIs
<1>4. PICK g : IsWaiting(g, u, n + 1) /\ Waiting(u) = g[n + 1]
  BY <1>2, WaitingIs
<1> HIDE DEF n
<1>5. n + 1 \in Nat
  BY <1>1
<1>6. SameRows(t, u, n)
  BY <1>2, Zenon DEF SameRows
<1>7. g[n] = f[n]
  BY <1>1, <1>3, <1>4, <1>5, <1>6, WaitingAgree
<1>8. g[n + 1] = Behind(g[n], u.inbox[n + 1])
  BY <1>1, <1>4, <1>5, WaitingRow
<1> QED BY <1>2, <1>3, <1>4, <1>7, <1>8 DEF Behind

\* The same inbox has the same queue.
LEMMA WaitingSame ==
  ASSUME NEW t \in Tables, NEW u \in Tables, u.inbox = t.inbox
  PROVE  Waiting(u) = Waiting(t)
<1> DEFINE n == Len(t.inbox)
<1>1. n \in Nat /\ n <= n
  BY QueuedType
<1>2. PICK f : IsWaiting(f, t, n) /\ Waiting(t) = f[n]
  BY WaitingIs
<1>3. PICK g : IsWaiting(g, u, n) /\ Waiting(u) = g[n]
  BY WaitingIs
<1>4. SameRows(t, u, n)
  BY DEF SameRows
<1> HIDE DEF n
<1>5. g[n] = f[n]
  BY <1>1, <1>2, <1>3, <1>4, WaitingAgree
<1> QED BY <1>2, <1>3, <1>5

\* p is q with x before it.
Ahead(p, q, x) ==
  Len(p) = Len(q) + 1 /\ p[1] = x /\ \A j \in 1..Len(q) : p[j + 1] = q[j]

\* It stays ahead of what is put behind both.
LEMMA AheadBehind ==
  ASSUME NEW p \in Seq(Submissions), NEW q \in Seq(Submissions), NEW x,
         Ahead(p, q, x), NEW row, row.submission \in Submissions
  PROVE  Ahead(Behind(p, row), Behind(q, row), x)
<1>1. CASE row.status # "queued"
  BY <1>1 DEF Behind
<1>2. CASE row.status = "queued"
  <2> DEFINE y == row.submission
             a == Append(p, y)
             b == Append(q, y)
  <2>1. /\ Len(a) = Len(p) + 1 /\ a[Len(p) + 1] = y
        /\ \A j \in 1..Len(p) : a[j] = p[j]
        /\ Len(b) = Len(q) + 1 /\ b[Len(q) + 1] = y
        /\ \A j \in 1..Len(q) : b[j] = q[j]
        /\ Len(p) \in Nat /\ Len(q) \in Nat
    BY AppendSeq
  <2> HIDE DEF a, b, y
  <2>2. Len(p) = Len(q) + 1 /\ p[1] = x /\ \A j \in 1..Len(q) : p[j + 1] = q[j]
    BY DEF Ahead
  <2>3. Len(a) = Len(b) + 1
    BY <2>1, <2>2
  <2>4. a[1] = x
    BY <2>1, <2>2
  <2>5. ASSUME NEW j \in 1..Len(b) PROVE a[j + 1] = b[j]
    <3>1. CASE j = Len(q) + 1
      BY <2>1, <2>2, <3>1
    <3>2. CASE j \in 1..Len(q)
      <4>1. j + 1 \in 1..Len(p)
        BY <2>1, <2>2, <3>2
      <4> QED BY <2>1, <2>2, <3>2, <4>1
    <3> QED BY <2>1, <3>1, <3>2
  <2>6. Ahead(a, b, x)
    BY <2>3, <2>4, <2>5 DEF Ahead
  <2> QED BY <1>2, <2>6 DEF Behind, a, b, y
<1> QED BY <1>1, <1>2

\* Settling the first row that waits takes the first submission off the queue.
LEMMA WaitingSettled ==
  ASSUME NEW t \in Tables, NEW u \in Tables, NEW i \in Queued(t),
         \A j \in Queued(t) : i <= j,
         NEW status \in {"applied", "rejected"}, NEW id,
         RowSettled(t, u, i, status, id)
  PROVE  Ahead(Waiting(t), Waiting(u), t.inbox[i].submission)
<1> DEFINE n == Len(t.inbox)
           x == t.inbox[i].submission
<1>1. n \in Nat /\ i \in 1..n /\ \A j \in 1..n : j < i => t.inbox[j].status # "queued"
  <2>1. n \in Nat /\ Queued(t) \subseteq 1..n /\ i \in 1..n
    BY QueuedType
  <2>2. \A j \in 1..n : t.inbox[j].status = "queued" => i <= j
    BY QueuedIs
  <2> QED BY <2>1, <2>2
<1>2. /\ Len(u.inbox) = n /\ t.inbox[i].status = "queued"
      /\ \A j \in 1..n : j # i => u.inbox[j] = t.inbox[j]
      /\ u.inbox[i].status # "queued"
  BY DEF RowSettled
<1>3. PICK f : IsWaiting(f, t, n) /\ Waiting(t) = f[n]
  BY WaitingIs
<1>4. PICK g : IsWaiting(g, u, n) /\ Waiting(u) = g[n]
  BY <1>2, WaitingIs
<1>5. \A k \in 0..n : f[k] \in Seq(Submissions) /\ g[k] \in Seq(Submissions)
  BY <1>2, <1>3, <1>4, WaitingSeq
<1>6. \A k \in 1..n : t.inbox[k].submission \in Submissions
  <2>1. t.inbox \in Seq(Row)
    BY TablesType
  <2>2. \A k \in 1..n : t.inbox[k] \in Row
    BY <2>1, ElementType, Zenon
  <2> QED BY <2>2 DEF Row
<1> HIDE DEF n
<1>7. /\ f[0] = NoneWaits /\ g[0] = NoneWaits
      /\ \A k \in Nat : k + 1 <= n => f[k + 1] = Behind(f[k], t.inbox[k + 1])
      /\ \A k \in Nat : k + 1 <= n => g[k + 1] = Behind(g[k], u.inbox[k + 1])
  BY <1>1, <1>3, <1>4, WaitingRow
<1> DEFINE S == {k \in Nat : k < i => f[k] = NoneWaits /\ g[k] = NoneWaits}
<1>8. 0 \in S
  BY <1>7
<1>9. ASSUME NEW k \in Nat, k \in S PROVE k + 1 \in S
  <2> SUFFICES ASSUME k + 1 < i
               PROVE  f[k + 1] = NoneWaits /\ g[k + 1] = NoneWaits
    OBVIOUS
  <2>1. /\ f[k] = NoneWaits /\ g[k] = NoneWaits /\ k + 1 <= n
        /\ k + 1 \in 1..n /\ k + 1 # i
    BY <1>1, <1>9
  <2>2. t.inbox[k + 1].status # "queued" /\ u.inbox[k + 1] = t.inbox[k + 1]
    BY <1>1, <1>2, <2>1
  <2> QED BY <1>7, <2>1, <2>2 DEF Behind
<1> HIDE DEF S
<1>10. Nat \subseteq S
  BY <1>8, <1>9, SetInduction
<1>11. i - 1 \in Nat /\ (i - 1) + 1 = i /\ i <= n /\ i - 1 < i
  BY <1>1
<1>12. f[i - 1] = NoneWaits /\ g[i - 1] = NoneWaits
  BY <1>10, <1>11 DEF S
<1>13. f[i] = Append(NoneWaits, x) /\ g[i] = NoneWaits
  <2>1. f[i] = Behind(f[i - 1], t.inbox[i]) /\ g[i] = Behind(g[i - 1], u.inbox[i])
    BY <1>7, <1>11
  <2> QED BY <1>2, <1>12, <2>1 DEF Behind
<1>14. Ahead(f[i], g[i], x)
  <2>1. NoneWaits \in Seq(Submissions) /\ Len(NoneWaits) = 0
    BY DEF NoneWaits
  <2>2. x \in Submissions
    BY <1>1, <1>6
  <2>3. /\ Len(Append(NoneWaits, x)) = 1 /\ Append(NoneWaits, x)[1] = x
    BY <2>1, <2>2, AppendSeq
  <2>4. 1..0 = {}
    OBVIOUS
  <2> QED BY <1>13, <2>1, <2>3, <2>4 DEF Ahead
<1> DEFINE T == {k \in Nat : i + k <= n => Ahead(f[i + k], g[i + k], x)}
<1> HIDE DEF x
<1>15. 0 \in T
  BY <1>1, <1>14
<1>16. ASSUME NEW k \in Nat, k \in T PROVE k + 1 \in T
  <2> DEFINE j == i + k
  <2> SUFFICES ASSUME i + (k + 1) <= n PROVE Ahead(f[i + (k + 1)], g[i + (k + 1)], x)
    OBVIOUS
  <2>1. /\ j \in Nat /\ j + 1 <= n /\ j \in 0..n /\ j + 1 \in 1..n
        /\ i + (k + 1) = j + 1 /\ j + 1 # i /\ j <= n
    BY <1>1
  <2>2. Ahead(f[j], g[j], x)
    BY <1>16, <2>1
  <2> HIDE DEF j
  <2>3. /\ f[j] \in Seq(Submissions) /\ g[j] \in Seq(Submissions)
        /\ t.inbox[j + 1].submission \in Submissions
        /\ u.inbox[j + 1] = t.inbox[j + 1]
    BY <1>2, <1>5, <1>6, <2>1
  <2>4. /\ f[j + 1] = Behind(f[j], t.inbox[j + 1])
        /\ g[j + 1] = Behind(g[j], t.inbox[j + 1])
    BY <1>7, <2>1, <2>3
  <2>5. Ahead(f[j + 1], g[j + 1], x)
    BY <2>2, <2>3, <2>4, AheadBehind
  <2> QED BY <2>1, <2>5
<1> HIDE DEF T
<1>17. Nat \subseteq T
  BY <1>15, <1>16, SetInduction
<1>18. n - i \in Nat /\ i + (n - i) = n /\ i + (n - i) <= n
  BY <1>1
<1>19. Ahead(f[n], g[n], x)
  BY <1>17, <1>18 DEF T
<1> QED BY <1>3, <1>4, <1>19 DEF x

\* The rows of a submission, by position.
LEMMA RowsOfIs ==
  ASSUME NEW t \in Tables, NEW s, NEW j
  PROVE  j \in RowsOf(t, s) <=> j \in 1..Len(t.inbox) /\ t.inbox[j].submission = s
BY QueuedType DEF RowsOf

\* Where submissions have one row each, that row says the outcome.
LEMMA OutcomeIs ==
  ASSUME NEW t \in Tables, AppliedOnce(t), NEW i \in 1..Len(t.inbox)
  PROVE  Outcome(t, t.inbox[i].submission) = t.inbox[i].status
<1> DEFINE s == t.inbox[i].submission
<1>1. OneRow(t, Len(t.inbox))
  BY AppliedOnceIs, Zenon
<1>2. i \in RowsOf(t, s)
  BY RowsOfIs
<1>3. \A j \in RowsOf(t, s) : j = i
  <2> TAKE j \in RowsOf(t, s)
  <2>1. j \in 1..Len(t.inbox) /\ t.inbox[j].submission = s
    BY RowsOfIs
  <2> QED BY <1>1, <2>1 DEF OneRow
<1> DEFINE c == CHOOSE j \in RowsOf(t, s) : TRUE
<1>4. c = i
  BY <1>2, <1>3
<1>5. RowsOf(t, s) # {}
  BY <1>2
<1>6. Outcome(t, s) = t.inbox[c].status
  BY <1>5, Zenon DEF Outcome
<1> HIDE DEF c
<1> QED BY <1>4, <1>6

\* A submission without a row is new.
LEMMA OutcomeNew ==
  ASSUME NEW t, NEW s, RowsOf(t, s) = {}
  PROVE  Outcome(t, s) = "new"
BY DEF Outcome

\* Outcomes are read off submissions and statuses.
LEMMA OutcomeSame ==
  ASSUME NEW t \in Tables, NEW u \in Tables, AppliedOnce(t), AppliedOnce(u), NEW s,
         \A j \in 1..Len(t.inbox) : t.inbox[j].submission = s =>
           /\ j \in 1..Len(u.inbox) /\ u.inbox[j].submission = s
           /\ u.inbox[j].status = t.inbox[j].status,
         \A j \in 1..Len(u.inbox) : u.inbox[j].submission = s =>
           j \in 1..Len(t.inbox) /\ t.inbox[j].submission = s
  PROVE  Outcome(u, s) = Outcome(t, s)
<1>1. CASE RowsOf(t, s) = {}
  <2>1. RowsOf(u, s) = {}
    <3> SUFFICES ASSUME NEW j \in RowsOf(u, s) PROVE FALSE
      OBVIOUS
    <3>1. j \in 1..Len(u.inbox) /\ u.inbox[j].submission = s
      BY RowsOfIs
    <3>2. j \in RowsOf(t, s)
      BY <3>1, RowsOfIs
    <3> QED BY <1>1, <3>2
  <2> QED BY <1>1, <2>1, OutcomeNew
<1>2. CASE RowsOf(t, s) # {}
  <2>1. PICK j : j \in RowsOf(t, s)
    BY <1>2
  <2>2. j \in 1..Len(t.inbox) /\ t.inbox[j].submission = s
    BY <2>1, RowsOfIs
  <2>3. /\ j \in 1..Len(u.inbox) /\ u.inbox[j].submission = s
        /\ u.inbox[j].status = t.inbox[j].status
    BY <2>2
  <2>4. Outcome(t, s) = t.inbox[j].status
    BY <2>2, OutcomeIs
  <2>5. Outcome(u, s) = u.inbox[j].status
    BY <2>3, OutcomeIs
  <2> QED BY <2>3, <2>4, <2>5
<1> QED BY <1>1, <1>2

\* A new row answers its submission and no other.
LEMMA OutcomeAppended ==
  ASSUME NEW t \in Tables, NEW u \in Tables, AppliedOnce(t), AppliedOnce(u),
         NEW row, InboxAppended(t, u, row), RowsOf(t, row.submission) = {}
  PROVE  /\ Outcome(t, row.submission) = "new"
         /\ \A s : Outcome(u, s) = IF s = row.submission THEN row.status
                                   ELSE Outcome(t, s)
<1> DEFINE n == Len(t.inbox)
<1>1. n \in Nat
  BY QueuedType
<1>2. /\ Len(u.inbox) = n + 1 /\ u.inbox[n + 1] = row
      /\ \A j \in 1..n : u.inbox[j] = t.inbox[j]
  BY DEF InboxAppended
<1>3. n + 1 \in 1..(n + 1)
  BY <1>1
<1>4. Outcome(u, row.submission) = row.status
  BY <1>2, <1>3, OutcomeIs
<1>5. ASSUME NEW s, s # row.submission PROVE Outcome(u, s) = Outcome(t, s)
  <2>1. \A j \in 1..n : t.inbox[j].submission = s =>
          /\ j \in 1..(n + 1) /\ u.inbox[j].submission = s
          /\ u.inbox[j].status = t.inbox[j].status
    BY <1>1, <1>2
  <2>2. \A j \in 1..(n + 1) : u.inbox[j].submission = s =>
          j \in 1..n /\ t.inbox[j].submission = s
    BY <1>1, <1>2, <1>5
  <2> QED BY <1>2, <2>1, <2>2, OutcomeSame
<1> QED BY <1>4, <1>5, OutcomeNew

\* A settled row changes its submission's outcome and no other.
LEMMA OutcomeSettled ==
  ASSUME NEW t \in Tables, NEW u \in Tables, AppliedOnce(t), AppliedOnce(u),
         NEW i, NEW status, NEW id, RowSettled(t, u, i, status, id)
  PROVE  /\ Outcome(t, t.inbox[i].submission) = "queued"
         /\ \A s : Outcome(u, s) = IF s = t.inbox[i].submission THEN status
                                   ELSE Outcome(t, s)
<1> DEFINE n == Len(t.inbox)
<1>1. /\ Len(u.inbox) = n /\ i \in 1..n /\ t.inbox[i].status = "queued"
      /\ \A j \in 1..n : u.inbox[j].submission = t.inbox[j].submission
      /\ \A j \in 1..n : j # i => u.inbox[j] = t.inbox[j]
      /\ u.inbox[i].status = status
  BY DEF RowSettled
<1>2. Outcome(u, t.inbox[i].submission) = status
  BY <1>1, OutcomeIs
<1>3. Outcome(t, t.inbox[i].submission) = "queued"
  BY <1>1, OutcomeIs
<1>4. ASSUME NEW s, s # t.inbox[i].submission PROVE Outcome(u, s) = Outcome(t, s)
  <2>1. \A j \in 1..n : t.inbox[j].submission = s =>
          /\ j \in 1..n /\ u.inbox[j].submission = s
          /\ u.inbox[j].status = t.inbox[j].status
    BY <1>1, <1>4
  <2>2. \A j \in 1..n : u.inbox[j].submission = s =>
          j \in 1..n /\ t.inbox[j].submission = s
    BY <1>1
  <2> QED BY <1>1, <2>1, <2>2, OutcomeSame
<1> QED BY <1>2, <1>3, <1>4

\* The log is a sequence of submissions, as long as the ledger.
LEMMA LogIs ==
  ASSUME NEW t \in Tables
  PROVE  /\ Len(Log(t)) = Len(t.ledger) /\ Len(t.ledger) \in Nat
         /\ \A k \in 1..Len(t.ledger) : Log(t)[k] = t.ledger[k].envelope.body
         /\ DOMAIN Log(t) = 1..Len(t.ledger)
<1> DEFINE n == Len(t.ledger)
           v == [k \in 1..n |-> t.ledger[k].envelope.body]
<1>1. n \in Nat /\ DOMAIN t.ledger = 1..n
  BY LedgerType
<1>2. Log(t) = v
  BY <1>1 DEF Log
<1> HIDE DEF n
<1>3. Len(v) = n /\ DOMAIN v = 1..n
  BY <1>1
<1>4. \A k \in 1..n : v[k] = t.ledger[k].envelope.body
  OBVIOUS
<1> HIDE DEF v
<1> QED BY <1>1, <1>2, <1>3, <1>4 DEF n

\* The log with q[k] behind it, if it is good.
Add(l, x, good) == IF x \in good THEN Append(l, x) ELSE l

\* f[k] is log l with the good ones among the first k of q.
IsAdded(f, q, l, good, n) ==
  f = [k \in 0..n |-> IF k = 0 THEN l ELSE Add(f[k - 1], q[k], good)]

\* What Logged of the abstract specification is.
Added(q, l, n, good) == (CHOOSE f : IsAdded(f, q, l, good, n))[n]

\* The recursion of Logged has a solution.
LEMMA AddedExists ==
  ASSUME NEW q, NEW l, NEW good, NEW n \in Nat
  PROVE  \E f : IsAdded(f, q, l, good, n)
<1> DEFINE S == {k \in Nat : \E f : IsAdded(f, q, l, good, k)}
<1>1. 0 \in S
  <2> DEFINE f == [k \in 0..0 |-> l]
  <2>1. \A k \in 0..0 : k = 0
    OBVIOUS
  <2>2. IsAdded(f, q, l, good, 0)
    BY <2>1 DEF IsAdded
  <2> QED BY <2>2
<1>2. ASSUME NEW k \in Nat, k \in S PROVE k + 1 \in S
  <2>1. PICK f : IsAdded(f, q, l, good, k)
    BY <1>2
  <2> DEFINE g == [j \in 0..(k + 1) |->
                     IF j = 0 THEN l ELSE Add(f[j - 1], q[j], good)]
  <2>2. \A j \in 0..k : g[j] = f[j]
    BY <2>1 DEF IsAdded
  <2>3. \A j \in 0..(k + 1) : j # 0 => j - 1 \in 0..k
    OBVIOUS
  <2>4. IsAdded(g, q, l, good, k + 1)
    BY <2>2, <2>3 DEF IsAdded
  <2> QED BY <2>4
<1> HIDE DEF S
<1>3. Nat \subseteq S
  BY <1>1, <1>2, SetInduction
<1> QED BY <1>3 DEF S

\* Added satisfies it.
LEMMA AddedIs ==
  ASSUME NEW q, NEW l, NEW good, NEW n \in Nat
  PROVE  \E f : IsAdded(f, q, l, good, n) /\ Added(q, l, n, good) = f[n]
<1> DEFINE F == CHOOSE f : IsAdded(f, q, l, good, n)
<1>1. IsAdded(F, q, l, good, n)
  <2>1. \E f : IsAdded(f, q, l, good, n)
    BY AddedExists
  <2> QED BY <2>1
<1>2. Added(q, l, n, good) = F[n]
  BY Zenon DEF Added
<1> QED BY <1>1, <1>2

\* Entry by entry.
LEMMA AddedRow ==
  ASSUME NEW f, NEW q, NEW l, NEW good, NEW n \in Nat, IsAdded(f, q, l, good, n)
  PROVE  /\ f[0] = l
         /\ \A k \in Nat : k + 1 <= n => f[k + 1] = Add(f[k], q[k + 1], good)
<1>1. \A k \in 0..n : f[k] = IF k = 0 THEN l ELSE Add(f[k - 1], q[k], good)
  BY DEF IsAdded
<1>2. f[0] = l
  BY <1>1
<1>3. ASSUME NEW k \in Nat, k + 1 <= n PROVE f[k + 1] = Add(f[k], q[k + 1], good)
  <2>1. k + 1 \in 0..n /\ k + 1 # 0 /\ (k + 1) - 1 = k
    BY <1>3
  <2> QED BY <1>1, <2>1
<1> QED BY <1>2, <1>3

\* Two choices that agree on the first n of q.
SameChoice(q, n, good, better) ==
  \A k \in 1..n : q[k] \in good <=> q[k] \in better

\* One more is settled.
LEMMA AddedNext ==
  ASSUME NEW q, NEW l, NEW n \in Nat, NEW good, NEW better,
         SameChoice(q, n, good, better)
  PROVE  Added(q, l, n + 1, better) = Add(Added(q, l, n, good), q[n + 1], better)
<1>1. PICK f : IsAdded(f, q, l, good, n) /\ Added(q, l, n, good) = f[n]
  BY AddedIs
<1>2. n + 1 \in Nat
  OBVIOUS
<1>3. PICK g : /\ IsAdded(g, q, l, better, n + 1)
               /\ Added(q, l, n + 1, better) = g[n + 1]
  BY <1>2, AddedIs
<1>rows. /\ f[0] = l /\ g[0] = l
         /\ \A k \in Nat : k + 1 <= n => f[k + 1] = Add(f[k], q[k + 1], good)
         /\ \A k \in Nat : k + 1 <= n + 1 => g[k + 1] = Add(g[k], q[k + 1], better)
  BY <1>1, <1>2, <1>3, AddedRow
<1>same. \A k \in 1..n : \A p : Add(p, q[k], good) = Add(p, q[k], better)
  BY Zenon DEF Add, SameChoice
<1> DEFINE S == {k \in Nat : k <= n => g[k] = f[k]}
<1>4. 0 \in S
  BY <1>rows
<1>5. ASSUME NEW k \in Nat, k \in S PROVE k + 1 \in S
  <2> SUFFICES ASSUME k + 1 <= n PROVE g[k + 1] = f[k + 1]
    OBVIOUS
  <2>1. g[k] = f[k] /\ k + 1 <= n + 1 /\ k + 1 \in 1..n
    BY <1>5
  <2> QED BY <1>rows, <1>same, <2>1
<1> HIDE DEF S
<1>6. Nat \subseteq S
  BY <1>4, <1>5, SetInduction
<1>7. g[n] = f[n]
  BY <1>6 DEF S
<1> QED BY <1>1, <1>3, <1>7, <1>rows

\* Nothing is settled yet.
LEMMA AddedNone ==
  ASSUME NEW q, NEW l, NEW good
  PROVE  Added(q, l, 0, good) = l
<1>1. 0 \in Nat
  OBVIOUS
<1>2. PICK f : IsAdded(f, q, l, good, 0) /\ Added(q, l, 0, good) = f[0]
  BY <1>1, AddedIs
<1> QED BY <1>1, <1>2, AddedRow

\* The first n of q.
Taken(q, n) == {q[k] : k \in 1..n}

\* t has settled the first n of d's queue, and applied the good ones.
Progress(d, t, n, good) ==
  LET q == Waiting(d)
      r == Waiting(t)
  IN  /\ n \in Nat /\ good \subseteq Taken(q, n)
      /\ Len(q) = n + Len(r)
      /\ \A j \in 1..Len(r) : q[n + j] = r[j]
      /\ \A s : Outcome(t, s) = IF s \in good THEN "applied"
                                ELSE IF s \in Taken(q, n) THEN "rejected"
                                ELSE Outcome(d, s)
      /\ Log(t) = Added(q, Log(d), n, good)

\* A batch that has settled nothing.
LEMMA ProgressBegins ==
  ASSUME NEW d \in Tables, NEW t \in Tables, AppliedOnce(d), AppliedOnce(t),
         t.inbox = d.inbox, t.ledger = d.ledger
  PROVE  Progress(d, t, 0, {})
<1>1. Waiting(t) = Waiting(d) /\ Log(t) = Log(d)
  BY WaitingSame DEF Log
<1>2. \A s : Outcome(t, s) = Outcome(d, s)
  BY OutcomeSame
<1>3. Taken(Waiting(d), 0) = {}
  BY DEF Taken
<1>4. Len(Waiting(d)) \in Nat /\ Len(Waiting(d)) = 0 + Len(Waiting(d))
  BY WaitingType
<1>5. \A j \in 1..Len(Waiting(d)) : Waiting(d)[0 + j] = Waiting(d)[j]
  BY <1>4
<1>6. Log(d) = Added(Waiting(d), Log(d), 0, {})
  BY AddedNone
<1> QED BY <1>1, <1>2, <1>3, <1>4, <1>5, <1>6 DEF Progress

\* One more row of the batch is settled.
LEMMA ProgressStep ==
  ASSUME NEW d \in Tables, NEW t \in Tables, NEW u \in Tables,
         NEW n, NEW good, Progress(d, t, n, good), NEW x,
         Ahead(Waiting(t), Waiting(u), x), Outcome(t, x) = "queued",
         NEW status \in {"applied", "rejected"},
         \A s : Outcome(u, s) = IF s = x THEN status ELSE Outcome(t, s),
         Log(u) = IF status = "applied" THEN Append(Log(t), x) ELSE Log(t)
  PROVE  \E better : Progress(d, u, n + 1, better)
<1> DEFINE q == Waiting(d)
           r == Waiting(t)
           p == Waiting(u)
           better == IF status = "applied" THEN good \cup {x} ELSE good
<1>1. /\ n \in Nat /\ good \subseteq Taken(q, n) /\ Len(q) = n + Len(r)
      /\ \A j \in 1..Len(r) : q[n + j] = r[j]
      /\ \A s : Outcome(t, s) = IF s \in good THEN "applied"
                                ELSE IF s \in Taken(q, n) THEN "rejected"
                                ELSE Outcome(d, s)
      /\ Log(t) = Added(q, Log(d), n, good)
  BY DEF Progress
<1>2. /\ Len(p) \in Nat /\ Len(r) = Len(p) + 1 /\ r[1] = x
      /\ \A j \in 1..Len(p) : r[j + 1] = p[j]
  BY WaitingType DEF Ahead
<1> HIDE DEF q, r, p
<1>3. q[n + 1] = x
  BY <1>1, <1>2
<1>4. Taken(q, n + 1) = Taken(q, n) \cup {x}
  <2>1. 1..(n + 1) = 1..n \cup {n + 1}
    BY <1>1
  <2> QED BY <1>3, <2>1 DEF Taken
<1>5. x \notin good /\ x \notin Taken(q, n)
  BY <1>1
<1>6. SameChoice(q, n, good, better)
  <2>1. \A k \in 1..n : q[k] # x
    BY <1>5 DEF Taken
  <2> QED BY <2>1 DEF SameChoice
<1>7. better \subseteq Taken(q, n + 1)
  BY <1>1, <1>4
<1>8. Log(u) = Added(q, Log(d), n + 1, better)
  <2>1. Added(q, Log(d), n + 1, better) = Add(Log(t), x, better)
    BY <1>1, <1>3, <1>6, AddedNext
  <2>2. x \in better <=> status = "applied"
    BY <1>5
  <2> HIDE DEF better
  <2> QED BY <2>1, <2>2 DEF Add
<1>9. \A s : Outcome(u, s) = IF s \in better THEN "applied"
                             ELSE IF s \in Taken(q, n + 1) THEN "rejected"
                             ELSE Outcome(d, s)
  <2> TAKE s
  <2>1. CASE s = x
    BY <1>4, <1>5, <2>1
  <2>2. CASE s # x
    <3>1. (s \in better <=> s \in good) /\ (s \in Taken(q, n + 1) <=> s \in Taken(q, n))
      BY <1>4, <2>2
    <3>2. Outcome(u, s) = Outcome(t, s)
      BY <2>2
    <3> HIDE DEF better
    <3> QED BY <1>1, <3>1, <3>2
  <2> QED BY <2>1, <2>2
<1>10. Len(q) = (n + 1) + Len(p) /\ n + 1 \in Nat
  BY <1>1, <1>2
<1>11. \A j \in 1..Len(p) : q[(n + 1) + j] = p[j]
  <2> TAKE j \in 1..Len(p)
  <2>1. j + 1 \in 1..Len(r) /\ n + (j + 1) = (n + 1) + j
    BY <1>1, <1>2
  <2> QED BY <1>1, <1>2, <2>1
<1> HIDE DEF better
<1>12. Progress(d, u, n + 1, better)
  BY <1>7, <1>8, <1>9, <1>10, <1>11 DEF Progress, q, p
<1> QED BY <1>12

\* A new ledger row logs what it applies.
LEMMA LogAppended ==
  ASSUME NEW t \in Tables, NEW u \in Tables, NEW new \in LedgerRow,
         u.ledger = Append(t.ledger, new)
  PROVE  Log(u) = Append(Log(t), new.envelope.body)
<1> DEFINE l == t.ledger
           m == Len(l)
           x == new.envelope.body
<1>1. l \in Seq(LedgerRow) /\ u.ledger = Append(l, new)
  BY TablesType
<1>2. /\ Len(u.ledger) = m + 1 /\ m \in Nat /\ u.ledger[m + 1] = new
      /\ \A k \in 1..m : u.ledger[k] = l[k]
  <2> HIDE DEF l
  <2> QED BY <1>1, AppendSeq
<1>3. /\ Len(Log(t)) = m /\ DOMAIN Log(t) = 1..m
      /\ \A k \in 1..m : Log(t)[k] = l[k].envelope.body
  BY LogIs
<1>4. \A k \in 1..m : l[k].envelope.body \in Submission
  <2> TAKE k \in 1..m
  <2>1. l[k] \in LedgerRow
    BY <1>1, ElementType, Zenon
  <2> QED BY <2>1 DEF LedgerRow, Envelope
<1>5. x \in Submission
  BY DEF LedgerRow, Envelope
<1> DEFINE p == Log(t)
           q == Log(u)
<1>6. p \in Seq(Submission)
  <2>1. p = [k \in 1..m |-> l[k].envelope.body]
    <3>1. DOMAIN l = 1..m
      BY LedgerType
    <3> QED BY <3>1 DEF Log
  <2> HIDE DEF p, l, m
  <2>2. [k \in 1..m |-> l[k].envelope.body] \in Seq(Submission)
    BY <1>2, <1>4, IsASeq
  <2> QED BY <2>1, <2>2
<1>7. /\ Len(q) = m + 1
      /\ \A k \in 1..(m + 1) : q[k] = u.ledger[k].envelope.body
      /\ q = [k \in 1..(m + 1) |-> u.ledger[k].envelope.body]
  <2>1. DOMAIN u.ledger = 1..(m + 1)
    BY <1>2, LedgerType
  <2>2. q = [k \in 1..(m + 1) |-> u.ledger[k].envelope.body]
    BY <2>1 DEF Log
  <2> QED BY <1>2, <2>2, LogIs
<1> HIDE DEF l, m, x, p, q
<1>8. \A k \in 1..(m + 1) : q[k] = IF k = m + 1 THEN x ELSE p[k]
  <2> TAKE k \in 1..(m + 1)
  <2>1. CASE k = m + 1
    BY <1>2, <1>7, <2>1 DEF x
  <2>2. CASE k # m + 1
    <3>1. k \in 1..m
      BY <1>2, <2>2
    <3> QED BY <1>2, <1>3, <1>7, <2>2, <3>1 DEF p
  <2> QED BY <2>1, <2>2
<1>9. /\ Append(p, x) \in Seq(Submission) /\ Len(Append(p, x)) = m + 1
      /\ Append(p, x)[m + 1] = x
      /\ \A k \in 1..m : Append(p, x)[k] = p[k]
  <2>1. Len(p) = m
    BY <1>3 DEF p
  <2> QED BY <1>5, <1>6, <2>1, AppendSeq
<1>10. \A k \in 1..(m + 1) : q[k] = Append(p, x)[k]
  BY <1>2, <1>8, <1>9
<1>11. \A k \in 1..(m + 1) : q[k] \in Submission
  <2>1. \A k \in 1..m : p[k] \in Submission
    BY <1>3, <1>4 DEF p
  <2> QED BY <1>2, <1>5, <1>8, <2>1
<1>12. q \in Seq(Submission)
  <2>1. [k \in 1..(m + 1) |-> u.ledger[k].envelope.body] \in Seq(Submission)
    <3>1. \A k \in 1..(m + 1) : u.ledger[k].envelope.body \in Submission
      BY <1>7, <1>11
    <3> QED BY <1>2, <3>1, IsASeq
  <2> QED BY <1>7, <2>1
<1>13. q = Append(p, x)
  BY <1>7, <1>9, <1>10, <1>12, SeqEqual
<1> QED BY <1>13 DEF p, q, x

\* What one submit may have done to the tables d: nothing, or its submission
\* got its first answer.
Answered(d, t) ==
  \/ t = d
  \/ \E s \in Submissions, status \in {"queued", "rejected"} :
       /\ Outcome(d, s) = "new"
       /\ \A r : Outcome(t, r) = IF r = s THEN status ELSE Outcome(d, r)
       /\ Waiting(t) = IF status = "queued" THEN Append(Waiting(d), s)
                       ELSE Waiting(d)
       /\ Log(t) = Log(d)

\* A row added for a submission that has none is its answer.
LEMMA AppendedAnswered ==
  ASSUME NEW t \in Tables, NEW u \in Tables, AppliedOnce(t), AppliedOnce(u),
         NEW row, InboxAppended(t, u, row), RowsOf(t, row.submission) = {},
         row.submission \in Submissions, row.status \in {"queued", "rejected"},
         u.ledger = t.ledger
  PROVE  Answered(t, u)
<1>1. Waiting(u) = IF row.status = "queued"
                     THEN Append(Waiting(t), row.submission) ELSE Waiting(t)
  BY WaitingAppended
<1>2. /\ Outcome(t, row.submission) = "new"
      /\ \A r : Outcome(u, r) = IF r = row.submission THEN row.status
                                ELSE Outcome(t, r)
  BY OutcomeAppended
<1>3. Log(u) = Log(t)
  BY DEF Log
<1> QED BY <1>1, <1>2, <1>3 DEF Answered

\* submit's refusal is an answer.
LEMMA RejectedAnswered ==
  ASSUME NEW t, Sound(t), NEW s \in Submissions,
         Rejection(t, s) # "", RowsOf(t, s) = {}
  PROVE  Answered(t, InsertRejected(t, s))
<1> DEFINE u == InsertRejected(t, s)
           row == NewRow(s, "rejected", Rejection(t, s))
<1>1. t \in Tables /\ AppliedOnce(t)
  BY DEF Sound
<1>2. u \in Tables /\ u.ledger = t.ledger
  BY <1>1, InsertRejectedFields, Zenon
<1>3. /\ InboxAppended(t, u, row)
      /\ row.submission = s /\ row.status = "rejected"
  BY <1>1, InsertRejectedInbox, Zenon
<1>4. AppliedOnce(u)
  BY InsertRejectedSound, Zenon DEF Sound
<1> HIDE DEF u, row
<1>5. /\ RowsOf(t, row.submission) = {} /\ row.submission \in Submissions
      /\ row.status \in {"queued", "rejected"}
  BY <1>3
<1>6. Answered(t, u)
  BY <1>1, <1>2, <1>3, <1>4, <1>5, AppendedAnswered, Zenon
<1> QED BY <1>6 DEF u

\* submit's acceptance is an answer.
LEMMA QueuedAnswered ==
  ASSUME NEW t, Sound(t), NEW s \in Submissions,
         Rejection(t, s) = "", RowsOf(t, s) = {}
  PROVE  Answered(t, InsertQueued(t, s))
<1> DEFINE u == InsertQueued(t, s)
           row == NewRow(s, "queued", "")
<1>1. t \in Tables /\ AppliedOnce(t)
  BY DEF Sound
<1>2. u \in Tables /\ u.ledger = t.ledger
  BY <1>1, InsertQueuedFields, Zenon
<1>3. /\ InboxAppended(t, u, row)
      /\ row.submission = s /\ row.status = "queued"
  BY <1>1, InsertQueuedInbox, Zenon
<1>4. AppliedOnce(u)
  BY InsertQueuedSound, Zenon DEF Sound
<1> HIDE DEF u, row
<1>5. /\ RowsOf(t, row.submission) = {} /\ row.submission \in Submissions
      /\ row.status \in {"queued", "rejected"}
  BY <1>3
<1>6. Answered(t, u)
  BY <1>1, <1>2, <1>3, <1>4, <1>5, AppendedAnswered, Zenon
<1> QED BY <1>6 DEF u

\* A refused row of a batch is progress.
LEMMA RejectRowProgress ==
  ASSUME NEW d \in Tables, NEW t, Sound(t), NEW i \in Queued(t),
         \A j \in Queued(t) : i <= j, NEW n, NEW good, Progress(d, t, n, good)
  PROVE  \E better : Progress(d, RejectRow(t, i), n + 1, better)
<1> DEFINE u == RejectRow(t, i)
           x == t.inbox[i].submission
<1>1. t \in Tables /\ AppliedOnce(t) /\ i \in 1..Len(t.inbox)
  BY QueuedIs DEF Sound
<1>2. u \in Tables /\ u.ledger = t.ledger
  BY <1>1, RejectRowFields, Zenon
<1>3. RowSettled(t, u, i, "rejected", NoEvent)
  BY <1>1, RejectRowInbox, QueuedRowSettled, Zenon
<1>4. AppliedOnce(u)
  BY RejectRowSound, Zenon DEF Sound
<1> HIDE DEF u
<1>5. Ahead(Waiting(t), Waiting(u), x)
  <2>1. "rejected" \in {"applied", "rejected"}
    OBVIOUS
  <2> QED BY <1>1, <1>2, <1>3, <2>1, WaitingSettled
<1>6. /\ Outcome(t, x) = "queued"
      /\ \A s : Outcome(u, s) = IF s = x THEN "rejected" ELSE Outcome(t, s)
  BY <1>1, <1>2, <1>3, <1>4, OutcomeSettled
<1>7. Log(u) = Log(t)
  BY <1>2 DEF Log
<1> HIDE DEF x
<1>8. \E better : Progress(d, u, n + 1, better)
  <2> DEFINE status == "rejected"
  <2>1. /\ status \in {"applied", "rejected"}
        /\ \A s : Outcome(u, s) = IF s = x THEN status ELSE Outcome(t, s)
        /\ Log(u) = IF status = "applied" THEN Append(Log(t), x) ELSE Log(t)
    BY <1>6, <1>7
  <2> HIDE DEF status
  <2> QED BY <1>1, <1>2, <1>5, <1>6, <2>1, ProgressStep
<1> QED BY <1>8 DEF u

\* An applied row of a batch is progress.
LEMMA ApplyRowProgress ==
  ASSUME NEW d \in Tables, NEW t, Sound(t), NEW i \in Queued(t),
         \A j \in Queued(t) : i <= j, NEW w \in Writers,
         Accepts(t.projection,
                 NextEnvelope(t.projection, t.inbox[i].submission)),
         NEW n, NEW good, Progress(d, t, n, good)
  PROVE  LET u == ApplyRow(t, i,
                    NextEnvelope(t.projection, t.inbox[i].submission), w)
         IN  \E better : Progress(d, u, n + 1, better)
<1> DEFINE x == t.inbox[i].submission
           e == NextEnvelope(t.projection, x)
           u == ApplyRow(t, i, e, w)
           new == LedgerRowOf(t, e, w)
<1>1. t \in Tables /\ AppliedOnce(t) /\ i \in 1..Len(t.inbox)
  BY QueuedIs DEF Sound
<1>2. e \in Envelope /\ e.body = x
  <2>1. t.projection \in GuardianState /\ t.inbox \in Seq(Row)
    BY <1>1, TablesType
  <2>2. t.inbox[i] \in Row
    BY <1>1, <2>1, ElementType, Zenon
  <2>3. x \in Submission
    BY <2>2, SubmissionType DEF Row
  <2> QED BY <2>1, <2>3, NextEnvelopeType, Zenon
<1>3. AppliedOnce(u)
  BY ApplyRowSound, Zenon DEF Sound
<1> HIDE DEF e
<1>4. u \in Tables /\ u.ledger = Append(t.ledger, new)
  BY <1>1, <1>2, ApplyRowFields, Zenon
<1>5. RowSettled(t, u, i, "applied", e.event_id)
  BY <1>1, <1>2, ApplyRowInbox, QueuedRowSettled, Zenon
<1> HIDE DEF u
<1>6. Ahead(Waiting(t), Waiting(u), x)
  <2>1. "applied" \in {"applied", "rejected"}
    OBVIOUS
  <2> QED BY <1>1, <1>4, <1>5, <2>1, WaitingSettled
<1>7. /\ Outcome(t, x) = "queued"
      /\ \A s : Outcome(u, s) = IF s = x THEN "applied" ELSE Outcome(t, s)
  BY <1>1, <1>3, <1>4, <1>5, OutcomeSettled
<1>8. new \in LedgerRow /\ new.envelope.body = x
  BY <1>1, <1>2, TablesType DEF LedgerRowOf, LedgerRow
<1> HIDE DEF x, new
<1>9. Log(u) = Append(Log(t), x)
  <2>1. Log(u) = Append(Log(t), new.envelope.body)
    BY <1>1, <1>4, <1>8, LogAppended
  <2> QED BY <1>8, <2>1
<1>10. \E better : Progress(d, u, n + 1, better)
  <2> DEFINE status == "applied"
  <2>1. /\ status \in {"applied", "rejected"}
        /\ \A s : Outcome(u, s) = IF s = x THEN status ELSE Outcome(t, s)
        /\ Log(u) = IF status = "applied" THEN Append(Log(t), x) ELSE Log(t)
    BY <1>7, <1>9
  <2> HIDE DEF status
  <2> QED BY <1>1, <1>4, <1>6, <1>7, <2>1, ProgressStep
<1> QED BY <1>10 DEF u, e, x

\* A batch on its way has settled the first rows of the committed queue.
InProgress == \E n, good : Progress(db, work, n, good)

\* OInv, and what the open transaction has made of the committed tables is a
\* step of the promise, or the beginning of one.
PInv ==
  /\ OInv
  /\ txn.op = "drain" => InProgress
  /\ txn.op = "submit" => Answered(db, work)

\* The head of a drain.
LEMMA DrainBeginProgress ==
  ASSUME IInv, txn = Idle, db' = db, work' = [work EXCEPT !.writer_epoch = @ + 1]
  PROVE  InProgress'
<1>1. Sound(db) /\ Sound(work) /\ work = db /\ db \in Tables /\ work \in Tables
  BY IdleFacts
<1>2. work' \in Tables /\ AppliedOnce(work') /\ AppliedOnce(db)
  BY <1>1, NextEpochSound, Zenon DEF Sound
<1>3. work'.inbox = db.inbox /\ work'.ledger = db.ledger
  <2> DEFINE n == work.writer_epoch + 1
  <2>1. work' = [work EXCEPT !.writer_epoch = n]
    OBVIOUS
  <2> HIDE DEF n
  <2> QED BY <1>1, <2>1 DEF Tables
<1>4. Progress(db, work', 0, {})
  BY <1>1, <1>2, <1>3, ProgressBegins
<1> QED BY <1>4, Zenon DEF InProgress

\* One row of a batch.
LEMMA DrainRowProgress ==
  ASSUME IInv, InProgress, DrainRow
  PROVE  InProgress'
<1> DEFINE i == NextRow
           e == NextEnvelope(work.projection, work.inbox[i].submission)
<1>1. /\ txn.op = "drain" /\ txn.left > 0 /\ txn.left \in Nat
      /\ txn.writer \in Writers /\ txn.left <= Cardinality(Queued(work))
      /\ Sound(work) /\ work \in Tables /\ db \in Tables
  BY DEF IInv, TypeOK, DrainRow
<1>2. Queued(work) # {}
  BY <1>1, FS_EmptySet
<1>3. i \in Queued(work) /\ \A j \in Queued(work) : i <= j
  BY <1>1, <1>2, NextRowIsFirst
<1>4. /\ work' = IF Accepts(work.projection, e)
                   THEN ApplyRow(work, i, e, txn.writer) ELSE RejectRow(work, i)
      /\ db' = db
  BY DEF DrainRow
<1> HIDE DEF i
<1>5. PICK n, good : Progress(db, work, n, good)
  BY DEF InProgress
<1>6. CASE Accepts(work.projection, e)
  <2>1. work' = ApplyRow(work, i, e, txn.writer)
    BY <1>4, <1>6
  <2>2. \E better : Progress(db, work', n + 1, better)
    BY <1>1, <1>3, <1>5, <1>6, <2>1, ApplyRowProgress, Zenon
  <2> QED BY <1>4, <2>2, Zenon DEF InProgress
<1>7. CASE ~Accepts(work.projection, e)
  <2>1. work' = RejectRow(work, i)
    BY <1>4, <1>7
  <2>2. \E better : Progress(db, work', n + 1, better)
    BY <1>1, <1>3, <1>5, <2>1, RejectRowProgress, Zenon
  <2> QED BY <1>4, <2>2, Zenon DEF InProgress
<1> QED BY <1>6, <1>7

\* The store as initialize leaves it has promised nothing yet.
LEMMA InitPInv == Init => PInv
<1> SUFFICES ASSUME Init PROVE PInv
  OBVIOUS
<1>1. OInv
  BY InitOInv
<1>2. txn.op = "none"
  BY DEF Init, Idle
<1> QED BY <1>1, <1>2 DEF PInv

\* PInv is inductive, so it holds of every reachable state.
LEMMA PromiseInductive == Spec => []PInv
<1>1. Init => PInv
  BY InitPInv
<1>2. PInv /\ OInv' /\ [Next]_vars => PInv'
  <2> SUFFICES ASSUME PInv, OInv', [Next]_vars
               PROVE  /\ txn'.op = "drain" => InProgress'
                      /\ txn'.op = "submit" => Answered(db', work')
    BY DEF PInv
  <2>1. /\ IInv
        /\ txn.op = "drain" => InProgress
        /\ txn.op = "submit" => Answered(db, work)
    BY DEF PInv, OInv
  <2>2. ASSUME txn = Idle PROVE Sound(work) /\ work = db
    BY <2>1, <2>2, IdleFacts
  <2>3. ASSUME NEW s \in Submissions, Resubmit(s)
        PROVE  Answered(db', work') /\ txn'.op # "drain"
    <3>1. txn = Idle /\ db' = db /\ work' = work /\ txn'.op = "submit"
      BY <2>3 DEF Resubmit, SubmitDone
    <3>2. work' = db'
      BY <2>2, <3>1
    <3> QED BY <3>1, <3>2, Zenon DEF Answered
  <2>4. ASSUME NEW s \in Submissions, SubmitRejected(s)
        PROVE  Answered(db', work') /\ txn'.op # "drain"
    <3>1. /\ txn = Idle /\ Rejection(work, s) # "" /\ RowsOf(work, s) = {}
          /\ db' = db /\ work' = InsertRejected(work, s) /\ txn'.op = "submit"
      BY <2>4 DEF SubmitRejected, SubmitDone
    <3>2. Answered(work, work')
      BY <2>2, <3>1, RejectedAnswered, Zenon
    <3> QED BY <2>2, <3>1, <3>2
  <2>5. ASSUME NEW s \in Submissions, SubmitQueued(s)
        PROVE  Answered(db', work') /\ txn'.op # "drain"
    <3>1. /\ txn = Idle /\ Rejection(work, s) = "" /\ RowsOf(work, s) = {}
          /\ db' = db /\ work' = InsertQueued(work, s) /\ txn'.op = "submit"
      BY <2>5 DEF SubmitQueued, SubmitDone
    <3>2. Answered(work, work')
      BY <2>2, <3>1, QueuedAnswered, Zenon
    <3> QED BY <2>2, <3>1, <3>2
  <2>6. ASSUME NEW w \in Writers, NEW g \in Generation, NEW n \in Limits,
               DrainBegin(w, g, n)
        PROVE  InProgress' /\ txn'.op # "submit"
    <3>1. /\ txn = Idle /\ db' = db /\ txn'.op = "drain"
          /\ work' = [work EXCEPT !.writer_epoch = @ + 1]
      BY <2>6 DEF DrainBegin
    <3> QED BY <2>1, <3>1, DrainBeginProgress
  <2>7. CASE DrainRow
    <3>1. txn.op = "drain" /\ InProgress
      BY <2>1, <2>7 DEF DrainRow
    <3>2. InProgress'
      BY <2>1, <2>7, <3>1, DrainRowProgress
    <3>3. txn'.op = "drain"
      <4>1. txn \in [op: {"none", "submit", "drain"}, writer: Writers \cup {""},
                     left: Nat, receipts: SUBSET Receipt]
        BY <2>1 DEF IInv, TypeOK
      <4>2. \E left, receipts :
              txn' = [txn EXCEPT !.left = left, !.receipts = receipts]
        BY <2>7 DEF DrainRow
      <4> QED BY <3>1, <4>1, <4>2
    <3> QED BY <3>2, <3>3
  <2>8. ASSUME Rollback \/ \E delivered \in Delivered : Commit(delivered)
        PROVE  txn'.op = "none"
    <3>1. txn' = Idle
      BY <2>8 DEF Rollback, Commit
    <3> QED BY <3>1 DEF Idle
  <2>9. CASE UNCHANGED vars
    BY <2>1, <2>9 DEF vars, InProgress
  <2> QED BY <2>3, <2>4, <2>5, <2>6, <2>7, <2>8, <2>9 DEF Next, Submit, Drain
<1> QED BY <1>1, <1>2, OrderlyInductive, PTL DEF Spec


\* An answer that commits is Accept or Refuse, or nothing new.
LEMMA AnswerMapped ==
  ASSUME Answered(db, db')
  PROVE  [Promise!AbstractNext]_(Promise!abstractVars)
<1>1. CASE db' = db
  <2>1. /\ Waiting(db)' = Waiting(db) /\ Log(db)' = Log(db)
        /\ [s \in Submissions |-> Outcome(db, s)]'
             = [s \in Submissions |-> Outcome(db, s)]
    BY <1>1
  <2> QED BY <2>1 DEF Promise!abstractVars
<1>2. CASE \E s \in Submissions, status \in {"queued", "rejected"} :
             /\ Outcome(db, s) = "new"
             /\ \A r : Outcome(db', r) = IF r = s THEN status ELSE Outcome(db, r)
             /\ Waiting(db') = IF status = "queued" THEN Append(Waiting(db), s)
                               ELSE Waiting(db)
             /\ Log(db') = Log(db)
  <2>1. PICK s \in Submissions, status \in {"queued", "rejected"} :
             /\ Outcome(db, s) = "new"
             /\ \A r : Outcome(db', r) = IF r = s THEN status ELSE Outcome(db, r)
             /\ Waiting(db') = IF status = "queued" THEN Append(Waiting(db), s)
                               ELSE Waiting(db)
             /\ Log(db') = Log(db)
    BY <1>2
  <2> DEFINE f == [r \in Submissions |-> Outcome(db, r)]
             g == [r \in Submissions |-> Outcome(db', r)]
  <2>2. /\ f[s] = "new" /\ g[s] = status
        /\ g = [f EXCEPT ![s] = status]
    BY <2>1
  <2>3. Promise!Answer(s, status)
    BY <2>2 DEF Promise!Answer
  <2>4. CASE status = "queued"
    <3>1. Promise!Accept(s)
      BY <2>1, <2>3, <2>4 DEF Promise!Accept
    <3> QED BY <3>1 DEF Promise!AbstractNext
  <2>5. CASE status = "rejected"
    <3>1. Promise!Refuse(s)
      BY <2>1, <2>3, <2>5 DEF Promise!Refuse
    <3> QED BY <3>1 DEF Promise!AbstractNext
  <2> QED BY <2>4, <2>5
<1> QED BY <1>1, <1>2 DEF Answered

\* The abstract log after settling n is what Added computes.
LEMMA LoggedIsAdded ==
  ASSUME NEW n, NEW good
  PROVE  Promise!Logged(n, good) = Added(Waiting(db), Log(db), n, good)
BY Zenon DEF Promise!Logged, Added, IsAdded, Add

\* The queue after n of it were settled.
LEMMA ShorterQueue ==
  ASSUME NEW p \in Seq(Submissions), NEW r \in Seq(Submissions), NEW n \in Nat,
         Len(p) = n + Len(r), \A j \in 1..Len(r) : p[n + j] = r[j]
  PROVE  r = SubSeq(p, n + 1, Len(p))
<1> DEFINE s == SubSeq(p, n + 1, Len(p))
<1>1. Len(p) \in Nat /\ Len(r) \in Nat
  OBVIOUS
<1>2. \A j \in (n + 1)..Len(p) : p[j] \in Submissions
  BY <1>1, ElementType
<1>3. n + 1 \in Int /\ Len(p) \in Int
  BY <1>1
<1>4. /\ s \in Seq(Submissions)
      /\ Len(s) = IF n + 1 <= Len(p) THEN Len(p) - (n + 1) + 1 ELSE 0
      /\ \A j \in 1..(Len(p) - (n + 1) + 1) : s[j] = p[(n + 1) + j - 1]
  BY <1>2, <1>3, SubSeqProperties
<1> HIDE DEF s
<1>5. Len(s) = Len(r) /\ Len(p) - (n + 1) + 1 = Len(r)
  BY <1>1, <1>4
<1>6. \A j \in 1..Len(r) : r[j] = s[j]
  <2> TAKE j \in 1..Len(r)
  <2>1. (n + 1) + j - 1 = n + j
    BY <1>1
  <2>2. s[j] = p[(n + 1) + j - 1]
    BY <1>4, <1>5
  <2> QED BY <2>1, <2>2
<1>7. r = s
  BY <1>4, <1>5, <1>6, SeqEqual
<1> QED BY <1>7 DEF s

\* A batch that commits is one Settle, or nothing.
LEMMA BatchMapped ==
  ASSUME db \in Tables, db' \in Tables, NEW n, NEW good, Progress(db, db', n, good)
  PROVE  [Promise!AbstractNext]_(Promise!abstractVars)
<1> DEFINE q == Waiting(db)
           r == Waiting(db')
<1>1. /\ n \in Nat /\ good \subseteq Taken(q, n) /\ Len(q) = n + Len(r)
      /\ \A j \in 1..Len(r) : q[n + j] = r[j]
      /\ \A s : Outcome(db', s) = IF s \in good THEN "applied"
                                  ELSE IF s \in Taken(q, n) THEN "rejected"
                                  ELSE Outcome(db, s)
      /\ Log(db') = Added(q, Log(db), n, good)
  BY DEF Progress
<1>2. q \in Seq(Submissions) /\ r \in Seq(Submissions)
  BY WaitingType
<1>3. r = SubSeq(q, n + 1, Len(q))
  BY <1>1, <1>2, ShorterQueue
<1>4. Len(q) \in Nat /\ Len(r) \in Nat
  BY <1>2
<1>5. CASE n = 0
  <2>1. Taken(q, n) = {} /\ good = {}
    BY <1>1, <1>5 DEF Taken
  <2>2. Log(db') = Log(db)
    BY <1>1, <1>5, AddedNone
  <2>3. \A s : Outcome(db', s) = Outcome(db, s)
    BY <1>1, <2>1
  <2>4. r = q
    <3>1. Len(r) = Len(q) /\ \A j \in 1..Len(r) : r[j] = q[j]
      <4>1. \A j \in 1..Len(r) : n + j = j
        BY <1>4, <1>5
      <4> QED BY <1>1, <1>4, <1>5, <4>1
    <3> HIDE DEF q, r
    <3> QED BY <1>2, <3>1, SeqEqual
  <2>5. [s \in Submissions |-> Outcome(db', s)] = [s \in Submissions |-> Outcome(db, s)]
    BY <2>3
  <2> QED BY <2>2, <2>4, <2>5 DEF Promise!abstractVars
<1>6. CASE n # 0
  <2>1. n \in 1..Len(q)
    BY <1>1, <1>4, <1>6
  <2>2. good \in SUBSET {q[i] : i \in 1..n}
    BY <1>1 DEF Taken
  <2>3. [s \in Submissions |-> Outcome(db', s)]
          = [s \in Submissions |->
               IF s \in good THEN "applied"
               ELSE IF s \in {q[i] : i \in 1..n} THEN "rejected"
               ELSE [x \in Submissions |-> Outcome(db, x)][s]]
    BY <1>1 DEF Taken
  <2>4. Log(db') = Promise!Logged(n, good)
    BY <1>1, LoggedIsAdded
  <2>5. Promise!Settle(n, good)
    BY <1>3, <2>2, <2>3, <2>4 DEF Promise!Settle
  <2> QED BY <2>1, <2>2, <2>5 DEF Promise!AbstractNext
<1> QED BY <1>5, <1>6

\* The store keeps its promise to producers: whatever submits, drains, retries,
\* crashes and switches interleave, the committed tables go through the steps of
\* the abstract queue and no others.  A submission is answered once, settled in
\* the order of acceptance and logged if and only if it was applied.
THEOREM PromiseImplemented == Spec => KeepsPromise
<1>1. Init => Promise!AbstractInit
  <2> SUFFICES ASSUME Init PROVE Promise!AbstractInit
    OBVIOUS
  <2>1. OInv
    BY InitOInv
  <2>2. db \in Tables
    BY <2>1 DEF OInv, IInv, TypeOK
  <2>3. db.inbox = <<>> /\ db.ledger = <<>>
    <3>1. PICK s \in Initials :
            db = [initial |-> s, active_generation |-> s.runtime_generation,
                  pending_generation |-> "", writer_epoch |-> 0,
                  projection |-> s, inbox |-> <<>>, ledger |-> <<>>]
      BY Zenon DEF Init
    <3> QED BY <3>1
  <2>4. Len(db.inbox) = 0 /\ Len(db.ledger) = 0
    BY <2>3
  <2>5. Waiting(db) = <<>>
    <3>1. PICK f : IsWaiting(f, db, 0) /\ Waiting(db) = f[0]
      BY <2>2, <2>4, WaitingIs
    <3>2. f[0] = NoneWaits
      BY <3>1, WaitingRow
    <3> QED BY <3>1, <3>2 DEF NoneWaits
  <2>6. \A s : Outcome(db, s) = "new"
    <3> TAKE s
    <3>1. RowsOf(db, s) = {}
      <4>1. \A j : j \notin RowsOf(db, s)
        BY <2>2, <2>4, RowsOfIs
      <4> QED BY <4>1
    <3> QED BY <3>1, OutcomeNew
  <2>7. Log(db) = <<>>
    BY <2>3 DEF Log
  <2> QED BY <2>5, <2>6, <2>7 DEF Promise!AbstractInit
<1>2. PInv /\ PInv' /\ [Next]_vars => [Promise!AbstractNext]_(Promise!abstractVars)
  <2> SUFFICES ASSUME PInv, PInv', [Next]_vars
               PROVE  [Promise!AbstractNext]_(Promise!abstractVars)
    OBVIOUS
  <2>1. /\ db \in Tables
        /\ txn.op \in {"none", "submit", "drain"}
        /\ txn.op = "drain" => InProgress
        /\ txn.op = "submit" => Answered(db, work)
    BY DEF PInv, OInv, IInv, TypeOK
  <2>2. db' \in Tables
    BY DEF PInv, OInv, IInv, TypeOK
  <2>3. ASSUME NEW delivered \in Delivered, Commit(delivered)
        PROVE  [Promise!AbstractNext]_(Promise!abstractVars)
    <3>1. db' = work /\ txn.op # "none"
      BY <2>3 DEF Commit
    <3>2. CASE txn.op = "submit"
      <4>1. Answered(db, db')
        BY <2>1, <3>1, <3>2
      <4> QED BY <4>1, AnswerMapped
    <3>3. CASE txn.op = "drain"
      <4>1. PICK n, good : Progress(db, db', n, good)
        BY <2>1, <3>1, <3>3 DEF InProgress
      <4> QED BY <2>1, <2>2, <4>1, BatchMapped
    <3> QED BY <2>1, <3>1, <3>2, <3>3
  <2>4. CASE UNCHANGED db
    <3>1. Answered(db, db')
      BY <2>4, Zenon DEF Answered
    <3> QED BY <3>1, AnswerMapped
  <2>5. \/ \E delivered \in Delivered : Commit(delivered)
        \/ UNCHANGED db
    BY DEF Next, Submit, Resubmit, SubmitRejected, SubmitQueued, Drain,
           DrainBegin, DrainRow, Rollback, vars
  <2> QED BY <2>3, <2>4, <2>5
<1> QED BY <1>1, <1>2, PromiseInductive, PTL
        DEF Spec, KeepsPromise, Promise!OrderedExactlyOnceSpec
=============================================================================
