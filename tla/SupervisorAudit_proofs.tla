----------------------- MODULE SupervisorAudit_proofs ------------------------
(***************************************************************************)
(* Why an audit of a store that stands still finds nothing, for any store  *)
(* and any moments at which its SELECTs run.                               *)
(***************************************************************************)
EXTENDS SupervisorAudit, WorkspaceSupervisor_proofs

\* Every transaction that changes a table adds a row to the inbox or begins a
\* writer epoch, so no committed state comes back once it was left.
Age(t) == t.writer_epoch + Len(t.inbox)

Older(t, u) == t = u \/ Age(t) < Age(u)

\* Ages are numbers.
LEMMA AgeType ==
  ASSUME NEW t \in Tables
  PROVE  Age(t) \in Nat
<1> DEFINE n == Len(t.inbox)
           e == t.writer_epoch
<1>1. n \in Nat /\ e \in Nat
  BY TablesType, QueuedType
<1> HIDE DEF n, e
<1>2. e + n \in Nat
  BY <1>1
<1> QED BY <1>2 DEF Age, n, e

\* What was left is not reached again.
LEMMA OlderOrder ==
  ASSUME NEW t \in Tables, NEW u \in Tables, NEW v \in Tables, Older(t, u), Older(u, v)
  PROVE  Older(t, v) /\ (t = v => t = u)
BY AgeType DEF Older

\* The receipts of the applied rows count the ledger.
LEMMA AppliedCount ==
  ASSUME NEW t \in Tables, AppliedOnce(t)
  PROVE  Cardinality({i \in DOMAIN t.inbox : t.inbox[i].status = "applied"}) = Len(t.ledger)
<1> DEFINE n == Len(t.inbox)
           m == Len(t.ledger)
           A == {i \in 1..n : t.inbox[i].status = "applied"}
           f == [k \in 1..m |->
                   CHOOSE i \in A : t.inbox[i].submission = t.ledger[k].envelope.body]
<1>1. /\ OneRow(t, n) /\ OnePlace(t, m)
      /\ HasPlace(t, n, m) /\ HasRow(t, n, m)
  BY AppliedOnceIs, Zenon
<1>2. n \in Nat /\ DOMAIN t.inbox = 1..n /\ m \in Nat
  BY QueuedType, LedgerType
<1> HIDE DEF n, m
<1>3. ASSUME NEW k \in 1..m
      PROVE  f[k] \in A /\ t.inbox[f[k]].submission = t.ledger[k].envelope.body
  <2>1. PICK i \in 1..n : IsRowOf(t, i, k)
    BY <1>1 DEF HasRow
  <2>2. i \in A /\ t.inbox[i].submission = t.ledger[k].envelope.body
    BY <2>1 DEF IsRowOf
  <2> HIDE DEF A
  <2> QED BY <2>2
<1>4. f \in [1..m -> A]
  <2> DEFINE g(k) == CHOOSE i \in A : t.inbox[i].submission = t.ledger[k].envelope.body
  <2>1. \A k \in 1..m : g(k) \in A
    BY <1>3
  <2> QED BY <2>1
<1> HIDE DEF f
<1>5. ASSUME NEW j \in 1..m, NEW k \in 1..m, f[j] = f[k] PROVE j = k
  <2>1. t.ledger[j].envelope.body = t.ledger[k].envelope.body
    BY <1>3, <1>5
  <2> QED BY <1>1, <2>1 DEF OnePlace
<1>6. ASSUME NEW i \in A PROVE \E k \in 1..m : f[k] = i
  <2>1. PICK k \in 1..m : t.ledger[k].envelope.body = t.inbox[i].submission
    BY <1>1 DEF HasPlace
  <2>2. f[k] \in 1..n /\ i \in 1..n /\ t.inbox[f[k]].submission = t.inbox[i].submission
    BY <1>3, <2>1
  <2>3. f[k] = i
    BY <1>1, <2>2 DEF OneRow
  <2> QED BY <2>3
<1> HIDE DEF A
<1>7. f \in Bijection(1..m, A)
  BY <1>4, <1>5, <1>6 DEF Bijection, Injection, Surjection, IsInjective
<1>8. ExistsBijection(1..m, A)
  BY <1>7 DEF ExistsBijection
<1>9. Cardinality(A) = m
  BY <1>2, <1>8, FS_CountingElements
<1> QED BY <1>2, <1>9 DEF A, m
-----------------------------------------------------------------------------
(* What the store adds to its own invariant *)

\* What is committed can be read back, and so can what will be; the open
\* transaction has made something new of it, or nothing.
SInv ==
  /\ OInv
  /\ Decodable(db.projection) /\ Decodable(work.projection)
  /\ txn.op = "submit" => Older(db, work)
  /\ txn.op = "drain" => Age(db) < Age(work)

\* A new row ages the tables.
LEMMA AppendedAge ==
  ASSUME NEW t \in Tables, NEW u, NEW row, InboxAppended(t, u, row),
         u.writer_epoch = t.writer_epoch
  PROVE  Age(t) < Age(u)
<1> DEFINE n == Len(t.inbox)
           e == t.writer_epoch
<1>1. n \in Nat /\ e \in Nat
  BY TablesType, QueuedType
<1>2. Len(u.inbox) = n + 1
  BY DEF InboxAppended
<1> HIDE DEF n, e
<1>3. e + n < e + (n + 1)
  BY <1>1
<1> QED BY <1>2, <1>3 DEF Age, n, e

\* A store as initialize leaves it.
LEMMA InitSInv ==
  Init => SInv
<1> SUFFICES ASSUME Init PROVE SInv
  OBVIOUS
<1>1. PICK s \in Initials :
        db = [initial |-> s, active_generation |-> s.runtime_generation,
              pending_generation |-> "", writer_epoch |-> 0,
              projection |-> s, inbox |-> <<>>, ledger |-> <<>>]
  BY Zenon DEF Init
<1>2. PICK w \in Workspace, e \in TaskEpoch, g \in Generation, c \in Context :
        s = initial_state(w, e, g, c)
  BY StoreAssumption
<1>3. Decodable(s)
  BY <1>2 DEF initial_state, Decodable, TaskTerminal, NoEvent
<1>4. db.projection = s
  BY <1>1
<1>5. work = db /\ txn.op = "none"
  BY DEF Init, Idle
<1> QED BY <1>3, <1>4, <1>5, InitOInv DEF SInv

\* submit adds a row and leaves the projection.
LEMMA SubmitAges ==
  ASSUME SInv, NEW s \in Submissions, SubmitRejected(s) \/ SubmitQueued(s)
  PROVE  /\ db' = db /\ Age(db) < Age(work') /\ work'.projection = work.projection
         /\ txn'.op = "submit"
<1>1. /\ txn = Idle /\ db' = db /\ txn'.op = "submit"
      /\ \/ Rejection(work, s) # "" /\ work' = InsertRejected(work, s)
         \/ work' = InsertQueued(work, s)
  <2>1. CASE SubmitRejected(s)
    BY <2>1 DEF SubmitRejected, SubmitDone
  <2>2. CASE SubmitQueued(s)
    BY <2>2 DEF SubmitQueued, SubmitDone
  <2> QED BY <2>1, <2>2
<1>2. work \in Tables /\ work = db
  BY <1>1, IdleFacts DEF SInv, OInv
<1>3. CASE Rejection(work, s) # "" /\ work' = InsertRejected(work, s)
  <2> DEFINE row == NewRow(s, "rejected", Rejection(work, s))
             u == InsertRejected(work, s)
  <2>1. u.projection = work.projection /\ u.writer_epoch = work.writer_epoch
    BY <1>2, <1>3, InsertRejectedFields, Zenon
  <2>2. InboxAppended(work, u, row)
    BY <1>2, <1>3, InsertRejectedInbox, Zenon
  <2> HIDE DEF u, row
  <2>3. Age(work) < Age(u)
    BY <1>2, <2>1, <2>2, AppendedAge
  <2> QED BY <1>1, <1>2, <1>3, <2>1, <2>3 DEF u
<1>4. CASE work' = InsertQueued(work, s)
  <2> DEFINE row == NewRow(s, "queued", "")
             u == InsertQueued(work, s)
  <2>1. u.projection = work.projection /\ u.writer_epoch = work.writer_epoch
    BY <1>2, InsertQueuedFields, Zenon
  <2>2. InboxAppended(work, u, row)
    BY <1>2, InsertQueuedInbox, Zenon
  <2> HIDE DEF u, row
  <2>3. Age(work) < Age(u)
    BY <1>2, <2>1, <2>2, AppendedAge
  <2> QED BY <1>1, <1>2, <1>4, <2>1, <2>3 DEF u
<1> QED BY <1>1, <1>3, <1>4

\* drain begins a writer epoch.
LEMMA DrainAges ==
  ASSUME SInv, txn = Idle, work' = [work EXCEPT !.writer_epoch = @ + 1]
  PROVE  Age(db) < Age(work') /\ work'.projection = work.projection
<1>1. work \in Tables /\ work = db
  BY IdleFacts DEF SInv, OInv
<1> DEFINE n == Len(work.inbox)
           e == work.writer_epoch
           f == e + 1
<1>2. n \in Nat /\ e \in Nat
  BY <1>1, TablesType, QueuedType
<1>3. work' = [work EXCEPT !.writer_epoch = f]
  OBVIOUS
<1> HIDE DEF f
<1>4. work'.inbox = work.inbox /\ work'.writer_epoch = f /\ work'.projection = work.projection
  BY <1>1, <1>3 DEF Tables
<1> HIDE DEF n, e
<1>5. e + n < (e + 1) + n
  BY <1>2
<1> QED BY <1>1, <1>4, <1>5 DEF Age, n, e, f

\* A row of a batch neither ages the tables nor makes them young, and the writer
\* can read back what the reducer made of the projection.
LEMMA DrainRowAges ==
  ASSUME SInv, DrainRow
  PROVE  Age(work') = Age(work) /\ Decodable(work'.projection) /\ db' = db
<1> DEFINE i == NextRow
           b == work.inbox[i].submission
           e == NextEnvelope(work.projection, b)
<1>1. /\ txn.op = "drain" /\ txn.left > 0 /\ txn.left \in Nat
      /\ txn.writer \in Writers /\ txn.left <= Cardinality(Queued(work))
      /\ work \in Tables /\ Decodable(work.projection)
  BY DEF SInv, OInv, IInv, TypeOK, DrainRow
<1>2. Queued(work) # {}
  BY <1>1, FS_EmptySet
<1>3. i \in Queued(work)
  BY <1>1, <1>2, NextRowIsFirst
<1>4. /\ work' = IF Accepts(work.projection, e)
                   THEN ApplyRow(work, i, e, txn.writer) ELSE RejectRow(work, i)
      /\ db' = db
  BY DEF DrainRow
<1> HIDE DEF i
<1>5. i \in 1..Len(work.inbox)
  BY <1>1, <1>3, QueuedIs
<1>6. work.projection \in GuardianState /\ b \in Submission
  <2>1. work.projection \in GuardianState /\ work.inbox \in Seq(Row)
    BY <1>1, TablesType
  <2>2. work.inbox[i] \in Row
    BY <1>5, <2>1, ElementType, Zenon
  <2> QED BY <2>1, <2>2, SubmissionType DEF Row
<1>7. e \in Envelope
  BY <1>6, NextEnvelopeType, Zenon
<1>8. Accepts(work.projection, e) => Decodable(Apply(work.projection, e))
  BY <1>1, <1>6, ApplyDecodable, Zenon
<1> HIDE DEF e, b
<1>9. /\ work'.writer_epoch = work.writer_epoch
      /\ Len(work'.inbox) = Len(work.inbox)
      /\ Decodable(work'.projection)
  <2>1. CASE Accepts(work.projection, e)
    <3> DEFINE u == ApplyRow(work, i, e, txn.writer)
    <3>1. u.writer_epoch = work.writer_epoch /\ u.projection = Apply(work.projection, e)
      BY <1>1, <1>5, <1>7, ApplyRowFields, Zenon
    <3>2. RowSettled(work, u, i, "applied", e.event_id)
      BY <1>1, <1>3, <1>5, <1>7, ApplyRowInbox, QueuedRowSettled, Zenon
    <3> HIDE DEF u
    <3>3. Len(u.inbox) = Len(work.inbox)
      BY <3>2 DEF RowSettled
    <3> QED BY <1>4, <1>8, <2>1, <3>1, <3>3 DEF u
  <2>2. CASE ~Accepts(work.projection, e)
    <3> DEFINE u == RejectRow(work, i)
    <3>1. u.writer_epoch = work.writer_epoch /\ u.projection = work.projection
      BY <1>1, <1>5, RejectRowFields, Zenon
    <3>2. RowSettled(work, u, i, "rejected", NoEvent)
      BY <1>1, <1>3, <1>5, RejectRowInbox, QueuedRowSettled, Zenon
    <3> HIDE DEF u
    <3>3. Len(u.inbox) = Len(work.inbox)
      BY <3>2 DEF RowSettled
    <3> QED BY <1>1, <1>4, <2>2, <3>1, <3>3 DEF u
  <2> QED BY <2>1, <2>2
<1> QED BY <1>4, <1>9 DEF Age

\* SInv is inductive, so it holds of every reachable state.
LEMMA StoreInductive ==
  Spec => []SInv
<1>1. SInv /\ OInv' /\ [Next]_vars => SInv'
  <2> SUFFICES ASSUME SInv, OInv', [Next]_vars
               PROVE  /\ Decodable(db'.projection) /\ Decodable(work'.projection)
                      /\ txn'.op = "submit" => Older(db', work')
                      /\ txn'.op = "drain" => Age(db') < Age(work')
    BY DEF SInv
  <2>1. /\ Decodable(db.projection) /\ Decodable(work.projection)
        /\ txn.op = "drain" => Age(db) < Age(work)
    BY DEF SInv
  <2>2. ASSUME txn = Idle PROVE work = db
    BY <2>2, IdleFacts DEF SInv, OInv
  <2>3. ASSUME NEW s \in Submissions, Resubmit(s)
        PROVE  db' = db /\ work' = db /\ work' = work /\ txn'.op = "submit"
    BY <2>2, <2>3 DEF Resubmit, SubmitDone
  <2>4. ASSUME NEW s \in Submissions, SubmitRejected(s) \/ SubmitQueued(s)
        PROVE  /\ db' = db /\ Age(db) < Age(work') /\ work'.projection = work.projection
               /\ txn'.op = "submit"
    BY <2>4, SubmitAges
  <2>5. ASSUME NEW w \in Writers, NEW g \in Generation, NEW n \in Limits,
               DrainBegin(w, g, n)
        PROVE  /\ db' = db /\ Age(db) < Age(work') /\ work'.projection = work.projection
               /\ txn'.op = "drain"
    <3>1. /\ txn = Idle /\ db' = db /\ txn'.op = "drain"
          /\ work' = [work EXCEPT !.writer_epoch = @ + 1]
      BY <2>5 DEF DrainBegin
    <3> QED BY <3>1, DrainAges
  <2>6. CASE DrainRow
    <3>1. Age(work') = Age(work) /\ Decodable(work'.projection) /\ db' = db /\ txn.op = "drain"
      BY <2>6, DrainRowAges DEF DrainRow
    <3>2. txn'.op = "drain"
      <4>1. txn \in [op: {"none", "submit", "drain"}, writer: Writers \cup {""},
                     left: Nat, receipts: SUBSET Receipt]
        BY DEF SInv, OInv, IInv, TypeOK
      <4>2. \E left, receipts :
              txn' = [txn EXCEPT !.left = left, !.receipts = receipts]
        BY <2>6 DEF DrainRow
      <4> QED BY <3>1, <4>1, <4>2
    <3> QED BY <2>1, <3>1, <3>2
  <2>7. ASSUME NEW delivered \in Delivered, Commit(delivered)
        PROVE  db' = work /\ work' = work /\ txn'.op = "none"
    BY <2>7 DEF Commit, Idle
  <2>8. ASSUME Rollback
        PROVE  db' = db /\ work' = db /\ txn'.op = "none"
    BY <2>8 DEF Rollback, Idle
  <2>9. ASSUME UNCHANGED vars
        PROVE  db' = db /\ work' = work /\ txn' = txn
    BY <2>9 DEF vars
  <2>10. txn.op = "submit" => Older(db, work)
    BY DEF SInv
  <2> QED BY <2>1, <2>3, <2>4, <2>5, <2>6, <2>7, <2>8, <2>9, <2>10
          DEF Next, Submit, Drain, Older
<1> QED BY <1>1, InitSInv, OrderlyInductive, PTL DEF Spec

\* What commits is never what was there before.
LEMMA CommitAges ==
  ASSUME SInv, [Next]_vars
  PROVE  Older(db, db')
<1>1. ASSUME NEW delivered \in Delivered, Commit(delivered) PROVE Older(db, db')
  <2>1. db' = work /\ txn.op # "none"
    BY <1>1 DEF Commit
  <2>2. txn.op \in {"none", "submit", "drain"}
    BY DEF SInv, OInv, IInv, TypeOK
  <2>3. Older(db, work)
    BY <2>1, <2>2 DEF SInv, Older
  <2> QED BY <2>1, <2>3
<1>2. \/ db' = db
      \/ \E delivered \in Delivered : Commit(delivered)
  BY DEF Next, Submit, Drain, Resubmit, SubmitRejected, SubmitQueued, DrainBegin, DrainRow,
         Rollback, vars
<1> QED BY <1>1, <1>2 DEF Older
-----------------------------------------------------------------------------
(* The audit *)

AuditSteps ==
  {"meta", "projection", "ledger", "applied", "queued", "pending", "clean", "corrupt"}

Audits ==
  [next : AuditSteps, meta : Tables, projection : GuardianState, events : Nat]

AuditTypeOK == audit \in Audits

\* What the audit has read is older than what is committed; if nothing was
\* committed meanwhile it is the same, and nothing it compares differs.
AuditInv ==
  /\ AuditTypeOK
  /\ audit.next # "meta" => Older(audit.meta, db)
  /\ audit.next = "pending" => audit.meta.pending_generation # ""
  /\ db = audit.meta =>
       /\ audit.next # "corrupt"
       /\ audit.next = "ledger" => audit.projection = db.projection
       /\ audit.next = "applied" => audit.events = Len(db.ledger)

\* A step of the store.
LEMMA StoreStepAudit ==
  ASSUME SInv, SInv', AuditInv, [Next]_vars, UNCHANGED audit
  PROVE  AuditInv'
<1>1. Older(db, db')
  BY CommitAges
<1>2. audit.meta \in Tables /\ db \in Tables /\ db' \in Tables
  BY DEF AuditInv, AuditTypeOK, Audits, SInv, OInv, IInv, TypeOK
<1>3. CASE audit.next = "meta"
  BY <1>3 DEF AuditInv, AuditTypeOK
<1>4. CASE audit.next # "meta"
  <2>1. Older(audit.meta, db') /\ (audit.meta = db' => audit.meta = db)
    BY <1>1, <1>2, <1>4, OlderOrder DEF AuditInv
  <2> QED BY <2>1 DEF AuditInv, AuditTypeOK
<1> QED BY <1>3, <1>4

\* What a SELECT and its comparison do to the audit.
LEMMA GoesOnAudit ==
  ASSUME NEW ok, NEW step \in AuditSteps, NEW seen \in Audits, GoesOn(ok, step, seen)
  PROVE  /\ AuditTypeOK' /\ db' = db
         /\ ok => audit'.next = step
         /\ ~ok => audit'.next = "corrupt"
         /\ audit'.meta = seen.meta /\ audit'.projection = seen.projection
         /\ audit'.events = seen.events
<1> DEFINE to == IF ok THEN step ELSE "corrupt"
<1>1. to \in AuditSteps
  BY DEF AuditSteps
<1>2. audit' = [seen EXCEPT !.next = to] /\ db' = db
  BY DEF GoesOn, vars
<1>3. (ok => to = step) /\ (~ok => to = "corrupt")
  OBVIOUS
<1> HIDE DEF to
<1>4. audit' \in Audits /\ audit'.next = to
  BY <1>1, <1>2 DEF Audits
<1>5. /\ audit'.meta = seen.meta /\ audit'.projection = seen.projection
      /\ audit'.events = seen.events
  BY <1>2 DEF Audits
<1> QED BY <1>2, <1>3, <1>4, <1>5 DEF AuditTypeOK

\* What the audit reads of a sound store.
LEMMA StoreFacts ==
  ASSUME SInv
  PROVE  /\ db \in Tables /\ Replays(db) /\ MetaAgrees(db) /\ SwitchAlone(db)
         /\ AppliedOnce(db) /\ InboxBounded /\ Decodable(db.projection)
         /\ db.projection \in GuardianState /\ Len(db.ledger) \in Nat
<1>1. /\ db \in Tables /\ Replays(db) /\ MetaAgrees(db) /\ SwitchAlone(db)
      /\ AppliedOnce(db) /\ InBounds(db) /\ Decodable(db.projection)
  BY DEF SInv, OInv, Kept, Orderly, IInv, Sound
<1>2. InboxBounded
  BY <1>1, Zenon DEF InBounds, InboxBounded
<1>3. db.projection \in GuardianState /\ Len(db.ledger) \in Nat
  BY <1>1, TablesType, LedgerType
<1> QED BY <1>1, <1>2, <1>3

\* The meta row.
LEMMA ReadMetaAudit ==
  ASSUME SInv, AuditInv, ReadMeta
  PROVE  AuditInv'
<1> DEFINE seen == [audit EXCEPT !.meta = db]
<1>1. audit \in Audits /\ db \in Tables
  BY StoreFacts DEF AuditInv, AuditTypeOK
<1>2. seen \in Audits /\ seen.meta = db
  BY <1>1 DEF Audits
<1>3. GoesOn(TRUE, "projection", seen)
  BY DEF ReadMeta
<1> HIDE DEF seen
<1>4. AuditTypeOK' /\ db' = db /\ audit'.next = "projection" /\ audit'.meta = db
  BY <1>2, <1>3, GoesOnAudit DEF AuditSteps
<1> QED BY <1>4 DEF AuditInv, Older

\* The projection.
LEMMA ReadProjectionAudit ==
  ASSUME SInv, AuditInv, ReadProjection
  PROVE  AuditInv'
<1> DEFINE seen == [audit EXCEPT !.projection = db.projection]
<1>1. audit \in Audits /\ db.projection \in GuardianState /\ Decodable(db.projection)
  BY StoreFacts DEF AuditInv, AuditTypeOK
<1>2. seen \in Audits /\ seen.meta = audit.meta /\ seen.projection = db.projection
  BY <1>1 DEF Audits
<1>3. audit.next = "projection" /\ GoesOn(Decodable(db.projection), "ledger", seen)
  BY DEF ReadProjection
<1> HIDE DEF seen
<1>4. /\ AuditTypeOK' /\ db' = db /\ audit'.next = "ledger"
      /\ audit'.meta = audit.meta /\ audit'.projection = db.projection
  BY <1>1, <1>2, <1>3, GoesOnAudit DEF AuditSteps
<1> QED BY <1>3, <1>4 DEF AuditInv

\* The ledger agrees with the projection and the meta row of a store that has
\* not moved.
LEMMA ReadLedgerAudit ==
  ASSUME SInv, AuditInv, ReadLedger
  PROVE  AuditInv'
<1> DEFINE n == Len(db.ledger)
           seen == [audit EXCEPT !.events = n]
           after == Replay(audit.meta.initial, Envelopes(db))
           ok == /\ \A k \in 1..n : Accepts(after[k - 1], db.ledger[k].envelope)
                 /\ after[n] = audit.projection
                 /\ audit.projection.runtime_generation
                      = audit.meta.active_generation
<1>1. audit \in Audits /\ n \in Nat
  BY StoreFacts DEF AuditInv, AuditTypeOK
<1>2. /\ audit.next = "ledger" /\ GoesOn(ok, "applied", seen)
  BY Zenon DEF ReadLedger
<1>3. ASSUME db = audit.meta PROVE ok
  <2>1. audit.projection = db.projection
    BY <1>2, <1>3 DEF AuditInv
  <2>2. Replays(db) /\ db.active_generation = db.projection.runtime_generation
    BY StoreFacts DEF MetaAgrees
  <2> QED BY <1>3, <2>1, <2>2, Zenon DEF Replays
<1> HIDE DEF n, ok
<1>4. /\ seen \in Audits /\ seen.meta = audit.meta /\ seen.events = n
  BY <1>1 DEF Audits
<1> HIDE DEF seen
<1>5. /\ AuditTypeOK' /\ db' = db /\ audit'.next \in {"applied", "corrupt"}
      /\ (ok => audit'.next = "applied")
      /\ audit'.meta = audit.meta /\ audit'.events = n
  BY <1>2, <1>4, GoesOnAudit DEF AuditSteps
<1>6. audit.next # "meta" => Older(audit.meta, db)
  BY DEF AuditInv
<1> QED BY <1>2, <1>3, <1>5, <1>6 DEF AuditInv, n

\* Each applied row has its ledger row.
LEMMA ReadAppliedAudit ==
  ASSUME SInv, AuditInv, ReadApplied
  PROVE  AuditInv'
<1> DEFINE c == Cardinality({i \in DOMAIN db.inbox : db.inbox[i].status = "applied"})
           ok == c = audit.events
<1>1. audit \in Audits
  BY DEF AuditInv, AuditTypeOK
<1>2. audit.next = "applied" /\ GoesOn(ok, "queued", audit)
  BY DEF ReadApplied
<1>3. c = Len(db.ledger)
  BY StoreFacts, AppliedCount
<1> HIDE DEF c
<1>4. db = audit.meta => ok
  BY <1>2, <1>3 DEF AuditInv
<1> HIDE DEF ok
<1>5. /\ AuditTypeOK' /\ db' = db /\ audit'.next \in {"queued", "corrupt"}
      /\ (ok => audit'.next = "queued") /\ audit'.meta = audit.meta
  BY <1>1, <1>2, GoesOnAudit DEF AuditSteps
<1> QED BY <1>2, <1>4, <1>5 DEF AuditInv

\* The inbox is within its bounds.
LEMMA ReadQueuedAudit ==
  ASSUME SInv, AuditInv, ReadQueued
  PROVE  AuditInv'
<1> DEFINE step == IF audit.meta.pending_generation = "" THEN "clean" ELSE "pending"
<1>1. audit \in Audits
  BY DEF AuditInv, AuditTypeOK
<1>2. audit.next = "queued" /\ GoesOn(InboxBounded, step, audit)
  BY DEF ReadQueued
<1>3. /\ step \in {"clean", "pending"}
      /\ (step = "pending" => audit.meta.pending_generation # "")
  OBVIOUS
<1>4. InboxBounded
  BY StoreFacts
<1> HIDE DEF step
<1>5. AuditTypeOK' /\ db' = db /\ audit'.next = step /\ audit'.meta = audit.meta
  BY <1>1, <1>2, <1>3, <1>4, GoesOnAudit DEF AuditSteps
<1> QED BY <1>2, <1>3, <1>5 DEF AuditInv

\* A pending switch's activation is alone in the inbox of a store that has not
\* moved.
LEMMA ReadPendingAudit ==
  ASSUME SInv, AuditInv, ReadPending
  PROVE  AuditInv'
<1> DEFINE ok == \E i \in DOMAIN db.inbox :
                   /\ Queued(db) = {i}
                   /\ db.inbox[i].submission.event_type = Activation
                   /\ db.inbox[i].submission.runtime_generation
                        = audit.meta.pending_generation
<1>1. audit \in Audits
  BY DEF AuditInv, AuditTypeOK
<1>2. audit.next = "pending" /\ GoesOn(ok, "clean", audit)
  BY Zenon DEF ReadPending
<1>3. ASSUME db = audit.meta PROVE ok
  <2>1. db.pending_generation # "" /\ SwitchAlone(db)
    BY <1>2, <1>3, StoreFacts DEF AuditInv
  <2> QED BY <1>3, <2>1, Zenon DEF SwitchAlone
<1> HIDE DEF ok
<1>4. /\ AuditTypeOK' /\ db' = db /\ audit'.next \in {"clean", "corrupt"}
      /\ (ok => audit'.next = "clean") /\ audit'.meta = audit.meta
  BY <1>1, <1>2, GoesOnAudit DEF AuditSteps
<1> QED BY <1>2, <1>3, <1>4 DEF AuditInv

\* The audit has not begun.
LEMMA InitAuditInv ==
  AuditInit => AuditInv
<1> SUFFICES ASSUME AuditInit PROVE AuditInv
  OBVIOUS
<1>1. db \in Tables /\ db.projection \in GuardianState
  BY InitSInv, StoreFacts DEF AuditInit
<1>2. audit = [next |-> "meta", meta |-> db, projection |-> db.projection, events |-> 0]
  BY DEF AuditInit, NotStarted
<1>3. audit.next = "meta" /\ audit \in Audits
  BY <1>1, <1>2 DEF Audits, AuditSteps
<1> QED BY <1>3 DEF AuditInv, AuditTypeOK

\* The store beside an audit is the store.
LEMMA AuditedStore ==
  AuditSpec => Spec
<1>1. AuditInit => Init
  BY DEF AuditInit
<1>2. [AuditNext]_auditVars => [Next]_vars
  BY DEF AuditNext, AuditStep, auditVars, vars, GoesOn, ReadMeta, ReadProjection,
         ReadLedger, ReadApplied, ReadQueued, ReadPending
<1> QED BY <1>1, <1>2, PTL DEF AuditSpec, Spec

\* audit() reports no corruption of a store in which nothing was committed since
\* it read the meta row, whatever was submitted, drained, switched or rolled
\* back before.
THEOREM QuietAuditIsClean == AuditSpec => []QuietStoreAuditsClean
<1>1. SInv /\ SInv' /\ AuditInv /\ [AuditNext]_auditVars => AuditInv'
  <2> SUFFICES ASSUME SInv, SInv', AuditInv, [AuditNext]_auditVars PROVE AuditInv'
    OBVIOUS
  <2>1. CASE AuditStep
    BY <2>1, ReadMetaAudit, ReadProjectionAudit, ReadLedgerAudit, ReadAppliedAudit,
       ReadQueuedAudit, ReadPendingAudit DEF AuditStep
  <2>2. CASE (Next /\ UNCHANGED audit) \/ UNCHANGED auditVars
    <3>1. [Next]_vars /\ UNCHANGED audit
      BY <2>2 DEF auditVars, vars
    <3> QED BY <3>1, StoreStepAudit
  <2> QED BY <2>1, <2>2 DEF AuditNext
<1>2. AuditInv => QuietStoreAuditsClean
  BY DEF AuditInv, QuietStoreAuditsClean
<1> QED BY <1>1, <1>2, InitAuditInv, AuditedStore, StoreInductive, PTL DEF AuditSpec
=============================================================================
