------------------------- MODULE WorkspaceSupervisor -------------------------
(***************************************************************************)
(* The single-writer workspace supervisor of                               *)
(* scripts/kb/sulde_supervisor/store.py: producers submit events to a      *)
(* bounded SQLite inbox, writers drain it through the reducer into a       *)
(* ledger and a projection, each in one BEGIN IMMEDIATE transaction.       *)
(*                                                                         *)
(* `db' is what is committed, `work' what the transaction that holds the   *)
(* write lock has made of it, `txn' that transaction.  A process may die   *)
(* at any step: the transaction rolls back, or it has committed and the    *)
(* caller never hears.  A caller that finds the lock taken gets            *)
(* SupervisorBusy and a writer of another generation StaleGeneration:      *)
(* neither changes anything, so neither is a step.                         *)
(***************************************************************************)
EXTENDS GuardianReducer, FiniteSetsExt

CONSTANTS
  Submissions,      \* the submissions producers may make
  ByteCount,        \* byte_count of each submission
  MaxPending,       \* max_pending of the store
  MaxPendingBytes,  \* max_pending_bytes of the store
  Writers,          \* writer ids
  Limits,           \* batch limits writers ask for
  Delivered,        \* whether an answer may arrive, be lost, or both
  Initials          \* the GuardianStates a store may be initialised with

ASSUME StoreAssumption ==
  /\ Submissions \subseteq Submission
  /\ ByteCount \in [Submissions -> Nat \ {0}]
  /\ MaxPending \in Nat \ {0}
  /\ MaxPendingBytes \in Nat \ {0}
  /\ Limits \subseteq Nat \ {0}
  /\ Delivered \subseteq BOOLEAN /\ Delivered # {}
  /\ Initials \subseteq {initial_state(w, t, g, c) :
       w \in Workspace, t \in TaskEpoch, g \in Generation, c \in Context}

VARIABLES
  db,    \* the committed tables
  work,  \* the tables as the open transaction sees them
  txn,   \* the open transaction, if any
  told   \* receipts that reached their caller
vars == <<db, work, txn, told>>

Refusals ==
  {"workspace_mismatch", "task_epoch_mismatch", "task_context_mismatch",
   "generation_switch_pending", "generation_already_active",
   "generation_activation_requires_stopped_supervisor",
   "generation_activation_requires_empty_inbox", "stale_generation"}

\* supervisor_inbox; a row's ordinal is its position.
Row ==
  [submission: Submissions, status: {"queued", "applied", "rejected"},
   reason: Refusals \cup {"", "transition_rejected"},
   event_id: EventId \cup {NoEvent}, writer_epoch: Nat]

\* supervisor_ledger; a row's sequence is its position.
LedgerRow == [envelope: Envelope, writer_id: Writers, writer_epoch: Nat]

Tables ==
  [initial: GuardianState, active_generation: Generation,
   pending_generation: Generation \cup {""}, writer_epoch: Nat,
   projection: GuardianState, inbox: Seq(Row), ledger: Seq(LedgerRow)]

Idle == [op |-> "none", writer |-> "", left |-> 0, receipts |-> {}]

Receipt == [submission: Submissions,
            status: {"queued", "applied", "rejected"}]
-----------------------------------------------------------------------------
Queued(t) == {i \in DOMAIN t.inbox : t.inbox[i].status = "queued"}

QueuedBytes(t) ==
  MapThenSumSet(LAMBDA i : ByteCount[t.inbox[i].submission], Queued(t))

RowsOf(t, s) == {i \in DOMAIN t.inbox : t.inbox[i].submission = s}

ReceiptOf(row) == [submission |-> row.submission, status |-> row.status]

\* Slip: a switch is queued behind what is already waiting.
ActivationRejection_Slip(t, s) ==
  IF s.runtime_generation = t.active_generation
    THEN "generation_already_active"
  ELSE IF t.projection.supervisor # "stopped"
    THEN "generation_activation_requires_stopped_supervisor"
  ELSE ""

\* Why submit refuses an activation for good, or "".
ActivationRejection(t, s) ==
  IF s.runtime_generation = t.active_generation
    THEN "generation_already_active"
  ELSE IF t.projection.supervisor # "stopped"
    THEN "generation_activation_requires_stopped_supervisor"
  ELSE IF Queued(t) # {}
    THEN "generation_activation_requires_empty_inbox"
  ELSE ""

\* Slip: a pending switch does not close the inbox.
Rejection_SlipPending(t, s) ==
  IF s.workspace_id # t.projection.workspace_id THEN "workspace_mismatch"
  ELSE IF s.task_epoch # t.projection.task_epoch THEN "task_epoch_mismatch"
  ELSE IF s.task_epoch_context_id # t.projection.task_epoch_context_id
    THEN "task_context_mismatch"
  ELSE IF s.event_type = Activation THEN ActivationRejection(t, s)
  ELSE IF s.runtime_generation # t.active_generation THEN "stale_generation"
  ELSE ""

\* Why submit refuses s for good, or "" when s may be queued; in code order.
Rejection(t, s) ==
  IF s.workspace_id # t.projection.workspace_id THEN "workspace_mismatch"
  ELSE IF s.task_epoch # t.projection.task_epoch THEN "task_epoch_mismatch"
  ELSE IF s.task_epoch_context_id # t.projection.task_epoch_context_id
    THEN "task_context_mismatch"
  ELSE IF t.pending_generation # "" THEN "generation_switch_pending"
  ELSE IF s.event_type = Activation THEN ActivationRejection(t, s)
  ELSE IF s.runtime_generation # t.active_generation THEN "stale_generation"
  ELSE ""

\* Slip: the bytes of the new row are not counted.
InboxHasRoom_SlipBytes(t, s) ==
  /\ Cardinality(Queued(t)) < MaxPending
  /\ QueuedBytes(t) < MaxPendingBytes

InboxHasRoom(t, s) ==
  /\ Cardinality(Queued(t)) < MaxPending
  /\ QueuedBytes(t) + ByteCount[s] <= MaxPendingBytes

NewRow(s, status, reason) ==
  [submission |-> s, status |-> status, reason |-> reason,
   event_id |-> NoEvent, writer_epoch |-> 0]

\* Slip: a status outside the schema's CHECK.
InsertRejected_Slip(t, s) ==
  [t EXCEPT !.inbox = Append(@, NewRow(s, "refused", Rejection(t, s)))]

\* _insert_rejected: a refusal is a terminal receipt, kept for every retry.
InsertRejected(t, s) ==
  [t EXCEPT !.inbox = Append(@, NewRow(s, "rejected", Rejection(t, s)))]

\* A queued activation closes the inbox to everything else.
InsertQueued(t, s) ==
  [t EXCEPT !.inbox = Append(@, NewRow(s, "queued", "")),
            !.pending_generation =
              IF s.event_type = Activation THEN s.runtime_generation ELSE @]
-----------------------------------------------------------------------------
Init ==
  /\ \E s \in Initials :
       db = [initial |-> s, active_generation |-> s.runtime_generation,
             pending_generation |-> "", writer_epoch |-> 0,
             projection |-> s, inbox |-> <<>>, ledger |-> <<>>]
  /\ work = db
  /\ txn = Idle
  /\ told = {}

\* The transaction of one submit has done its work and is about to commit.
SubmitDone(rows) ==
  txn' = [op |-> "submit", writer |-> "", left |-> 0,
          receipts |-> {ReceiptOf(row) : row \in rows}]

\* Slip: a retry puts a rejected row back into the queue.
Resubmit_Slip(s) ==
  /\ txn = Idle
  /\ RowsOf(work, s) # {}
  /\ work' = [work EXCEPT !.inbox = [i \in DOMAIN @ |->
       IF @[i].submission = s /\ @[i].status = "rejected"
         THEN NewRow(s, "queued", "") ELSE @[i]]]
  /\ SubmitDone({work.inbox[i] : i \in RowsOf(work, s)})
  /\ UNCHANGED <<db, told>>

\* submit of something the store has seen: the stored receipt, whatever it is.
Resubmit(s) ==
  /\ txn = Idle
  /\ RowsOf(work, s) # {}
  /\ SubmitDone({work.inbox[i] : i \in RowsOf(work, s)})
  /\ UNCHANGED <<db, work, told>>

\* submit of something new that is refused for good.
SubmitRejected(s) ==
  /\ txn = Idle
  /\ RowsOf(work, s) = {}
  /\ Decodable(work.projection)
  /\ Rejection(work, s) # ""
  /\ work' = InsertRejected(work, s)
  /\ SubmitDone({NewRow(s, "rejected", "")})
  /\ UNCHANGED <<db, told>>

\* Slip: the store does not look for the submission before it queues it.
SubmitQueued_Slip(s) ==
  /\ txn = Idle
  /\ Len(work.inbox) <= Cardinality(Submissions)
  /\ Rejection(work, s) = ""
  /\ InboxHasRoom(work, s)
  /\ work' = InsertQueued(work, s)
  /\ SubmitDone({NewRow(s, "queued", "")})
  /\ UNCHANGED <<db, told>>

\* submit of something new that is queued; without room it is InboxFull, which
\* rolls back and leaves no row.
SubmitQueued(s) ==
  /\ txn = Idle
  /\ RowsOf(work, s) = {}
  /\ Decodable(work.projection)
  /\ Rejection(work, s) = ""
  /\ InboxHasRoom(work, s)
  /\ work' = InsertQueued(work, s)
  /\ SubmitDone({NewRow(s, "queued", "")})
  /\ UNCHANGED <<db, told>>

\* drain(expected_generation, writer_id, limit) takes the write lock and its
\* batch: the first `limit' queued rows.  An empty inbox changes nothing.
DrainBegin(w, expected_generation, limit) ==
  /\ txn = Idle
  /\ expected_generation = work.active_generation
  /\ Queued(work) # {}
  /\ Decodable(work.projection)
  /\ work' = [work EXCEPT !.writer_epoch = @ + 1]
  /\ txn' = [op |-> "drain", writer |-> w,
             left |-> Min({limit, Cardinality(Queued(work))}), receipts |-> {}]
  /\ UNCHANGED <<db, told>>

\* Slip: the batch is read last in, first out.
NextRow_Slip == Max(Queued(work))

\* The row of the batch that is next: nothing is queued during a drain, so it
\* is the queued row of least ordinal.
NextRow == Min(Queued(work))

\* A row's terminal update, in the writer epoch that settles it.
Settle(t, i, status, reason, id) ==
  [t.inbox EXCEPT ![i] = [@ EXCEPT !.status = status, !.reason = reason,
                                   !.event_id = id,
                                   !.writer_epoch = t.writer_epoch]]

\* Slip: a refused activation leaves the switch pending.
RejectRow_SlipPending(t, i) ==
  [t EXCEPT !.inbox = Settle(t, i, "rejected", "transition_rejected", NoEvent)]

\* Slip: a refused row stays queued and is tried in every batch.
RejectRow_SlipQueued(t, i) == [t EXCEPT !.writer_epoch = @ - 1]

\* The reducer refuses row i: a terminal receipt, and a refused activation gives
\* up the switch.
RejectRow(t, i) ==
  [t EXCEPT !.inbox = Settle(t, i, "rejected", "transition_rejected", NoEvent),
            !.pending_generation =
              IF t.inbox[i].submission.event_type = Activation THEN "" ELSE @]

\* Slip: the projection is not persisted.
ApplyRow_SlipProjection(t, i, e, w) ==
  [t EXCEPT !.ledger = Append(@, [envelope |-> e, writer_id |-> w,
                                  writer_epoch |-> t.writer_epoch]),
            !.inbox = Settle(t, i, "applied", "", e.event_id)]

\* The reducer accepts row i: ledger, projection, receipt and, for an
\* activation, the generation switch.
ApplyRow(t, i, e, w) ==
  LET after == Apply(t.projection, e)
      switch == e.body.event_type = Activation
  IN  [t EXCEPT !.ledger = Append(@, [envelope |-> e, writer_id |-> w,
                                      writer_epoch |-> t.writer_epoch]),
                !.projection = after,
                !.inbox = Settle(t, i, "applied", "", e.event_id),
                !.active_generation =
                  IF switch THEN after.runtime_generation ELSE @,
                !.pending_generation = IF switch THEN "" ELSE @]

\* Slip: the drain stops at the first row the reducer refuses and drops it.
DrainRow_Slip ==
  /\ txn.op = "drain" /\ txn.left > 0
  /\ LET i == NextRow
         e == NextEnvelope(work.projection, work.inbox[i].submission)
     IN  IF Accepts(work.projection, e)
           THEN /\ work' = ApplyRow(work, i, e, txn.writer)
                /\ txn' = [txn EXCEPT !.left = @ - 1]
           ELSE /\ work' = [work EXCEPT !.inbox = SubSeq(@, 1, i - 1)]
                /\ txn' = [txn EXCEPT !.left = 0]
  /\ UNCHANGED <<db, told>>

\* One iteration of drain's loop over its batch.
DrainRow ==
  /\ txn.op = "drain" /\ txn.left > 0
  /\ LET i == NextRow
         e == NextEnvelope(work.projection, work.inbox[i].submission)
         ok == Accepts(work.projection, e)
     IN  /\ work' = IF ok THEN ApplyRow(work, i, e, txn.writer)
                     ELSE RejectRow(work, i)
         /\ txn' = [txn EXCEPT
              !.left = @ - 1,
              !.receipts = @ \cup
                 {[submission |-> work.inbox[i].submission,
                   status |-> IF ok THEN "applied" ELSE "rejected"]}]
  /\ UNCHANGED <<db, told>>

\* The transaction commits; the caller hears of it unless it or its answer is
\* lost in between.
Commit(delivered) ==
  /\ txn.op # "none" /\ txn.left = 0
  /\ db' = work
  /\ told' = IF delivered THEN told \cup txn.receipts ELSE told
  /\ txn' = Idle
  /\ UNCHANGED work

\* Slip: the receipts go out although the transaction is undone.
Rollback_Slip ==
  /\ txn.op # "none"
  /\ work' = db
  /\ told' = told \cup txn.receipts
  /\ txn' = Idle
  /\ UNCHANGED db

\* An exception, a busy commit or the death of the process: nothing happened.
Rollback ==
  /\ txn.op # "none"
  /\ work' = db
  /\ txn' = Idle
  /\ UNCHANGED <<db, told>>

Submit(s) == Resubmit(s) \/ SubmitRejected(s) \/ SubmitQueued(s)

Drain(w) == \E g \in Generation, n \in Limits : DrainBegin(w, g, n)

Next ==
  \/ \E s \in Submissions : Submit(s)
  \/ \E w \in Writers : Drain(w)
  \/ DrainRow
  \/ \E delivered \in Delivered : Commit(delivered)
  \/ Rollback

Spec == Init /\ [][Next]_vars

\* SQLite's busy timeout in the end gives the write lock to a writer that keeps
\* asking, processes do not die for ever, and a live process runs its
\* transaction to the commit.  Nothing makes a producer submit or stop to retry.
Fairness ==
  /\ SF_vars(\E w \in Writers : Drain(w))
  /\ WF_vars(DrainRow)
  /\ WF_vars(\E delivered \in Delivered : Commit(delivered))
  /\ <>[][~(work # db /\ Rollback)]_vars

FairSpec == Spec /\ Fairness
-----------------------------------------------------------------------------
Envelopes(t) == [k \in DOMAIN t.ledger |-> t.ledger[k].envelope]

TypeOK ==
  /\ db \in Tables
  /\ work \in Tables
  /\ txn \in [op: {"none", "submit", "drain"}, writer: Writers \cup {""},
              left: Nat, receipts: SUBSET Receipt]
  /\ told \subseteq Receipt

\* audit(): replaying the ledger from the initial state is possible and gives
\* the projection, in the generation the meta row names.
LedgerReplays ==
  LET after == Replay(db.initial, Envelopes(db))
      n == Len(db.ledger)
  IN  /\ \A k \in 1..n : Accepts(after[k - 1], db.ledger[k].envelope)
      /\ after[n] = db.projection
      /\ db.active_generation = db.projection.runtime_generation

\* Exactly once: a submission has one row and one place in the ledger however
\* often it was submitted, and the applied rows are the ledger's rows one for
\* one, with the same event id, content and writer epoch.
AppliedOnce(t) ==
  /\ \A i, j \in DOMAIN t.inbox :
       t.inbox[i].submission = t.inbox[j].submission => i = j
  /\ \A j, k \in DOMAIN t.ledger :
       t.ledger[j].envelope.body = t.ledger[k].envelope.body => j = k
  /\ \A i \in DOMAIN t.inbox : t.inbox[i].status = "applied" =>
       \E k \in DOMAIN t.ledger :
         t.ledger[k].envelope.body = t.inbox[i].submission
  /\ \A k \in DOMAIN t.ledger : \E i \in DOMAIN t.inbox :
       /\ t.inbox[i].status = "applied"
       /\ t.inbox[i].submission = t.ledger[k].envelope.body
       /\ t.inbox[i].event_id = t.ledger[k].envelope.event_id
       /\ t.inbox[i].writer_epoch = t.ledger[k].writer_epoch

AppliedIsLedger == AppliedOnce(db)

\* What was queued first is settled first: no later row is settled by a writer
\* while an earlier one waits, and the ledger keeps the order of the inbox.
NothingOvertakes ==
  \A i, j \in DOMAIN db.inbox : i < j /\ db.inbox[j].writer_epoch > 0 =>
    /\ db.inbox[i].status # "queued"
    /\ db.inbox[i].writer_epoch <= db.inbox[j].writer_epoch
    /\ db.inbox[i].status = "applied" /\ db.inbox[j].status = "applied" =>
         db.inbox[i].event_id[1] < db.inbox[j].event_id[1]

\* A generation switch waits alone: while one is pending the inbox holds just
\* its activation and the supervisor is stopped; otherwise every queued row is
\* of the generation that is active.
SwitchAlone(t) ==
  IF t.pending_generation = ""
    THEN \A i \in Queued(t) :
           /\ t.inbox[i].submission.event_type # Activation
           /\ t.inbox[i].submission.runtime_generation = t.active_generation
    ELSE /\ t.projection.supervisor = "stopped"
         /\ \E i \in DOMAIN t.inbox :
              /\ Queued(t) = {i}
              /\ t.inbox[i].submission.event_type = Activation
              /\ t.inbox[i].submission.runtime_generation = t.pending_generation

SwitchIsSingular == SwitchAlone(db)

\* No writer epoch mixes two generations: a batch that settles an activation
\* settles nothing else, and each epoch is one writer's.
SwitchNotBatched ==
  /\ \A i, j \in DOMAIN db.inbox :
       /\ db.inbox[i].writer_epoch > 0
       /\ db.inbox[i].writer_epoch = db.inbox[j].writer_epoch
       /\ db.inbox[i].submission.event_type = Activation
       => i = j
  /\ \A j, k \in DOMAIN db.ledger :
       db.ledger[j].writer_epoch = db.ledger[k].writer_epoch =>
         /\ db.ledger[j].writer_id = db.ledger[k].writer_id
         /\ db.ledger[j].envelope.body.runtime_generation
              = db.ledger[k].envelope.body.runtime_generation

\* A store bound to a task-epoch context stays on its generation for ever.
BoundContextPinsGeneration ==
  db.initial.task_epoch_context_id # "" =>
    db.active_generation = db.initial.runtime_generation

\* The frozen bounds of the inbox hold at every commit.
InboxBounded ==
  /\ Cardinality(Queued(db)) <= MaxPending
  /\ QueuedBytes(db) <= MaxPendingBytes

\* What a caller was told stays true through every crash, retry and drain: the
\* row exists, and a terminal receipt is the one the store still holds.
ToldIsDurable ==
  \A r \in told : \E i \in DOMAIN db.inbox :
    /\ db.inbox[i].submission = r.submission
    /\ r.status # "queued" => db.inbox[i].status = r.status

\* Committed rows are never removed or reordered and settled ones never change;
\* the ledger only grows.
HistoryIsFinal ==
  [][/\ \A i \in DOMAIN db.inbox :
          /\ i \in DOMAIN db'.inbox
          /\ db'.inbox[i].submission = db.inbox[i].submission
          /\ db.inbox[i].status # "queued" => db'.inbox[i] = db.inbox[i]
     /\ \A k \in DOMAIN db.ledger :
          k \in DOMAIN db'.ledger /\ db'.ledger[k] = db.ledger[k]]_db

\* A queued submission is settled in the end.
QueuedIsSettled ==
  \A s \in Submissions :
    (\E i \in Queued(db) : db.inbox[i].submission = s)
      ~> (\A i \in Queued(db) : db.inbox[i].submission # s)

\* A pending generation switch is decided in the end.
SwitchIsDecided ==
  (db.pending_generation # "") ~> (db.pending_generation = "")
-----------------------------------------------------------------------------
\* The promise to producers, read off the committed tables.
Waiting(t) ==
  LET first[k \in 0..Len(t.inbox)] ==
        IF k = 0 THEN <<>>
        ELSE IF t.inbox[k].status = "queued"
          THEN Append(first[k - 1], t.inbox[k].submission)
        ELSE first[k - 1]
  IN  first[Len(t.inbox)]

Outcome(t, s) ==
  IF RowsOf(t, s) = {} THEN "new"
  ELSE t.inbox[CHOOSE i \in RowsOf(t, s) : TRUE].status

Log(t) == [k \in DOMAIN t.ledger |-> t.ledger[k].envelope.body]

Promise == INSTANCE OrderedExactlyOnce WITH
  Requests <- Submissions,
  queue <- Waiting(db),
  outcome <- [s \in Submissions |-> Outcome(db, s)],
  log <- Log(db)

KeepsPromise == Promise!OrderedExactlyOnceSpec
=============================================================================
