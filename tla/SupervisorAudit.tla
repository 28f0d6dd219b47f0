--------------------------- MODULE SupervisorAudit ---------------------------
(***************************************************************************)
(* WorkspaceSupervisor.audit() beside a live store.  The connection is in  *)
(* autocommit mode and audit opens no transaction, so each of its SELECTs  *)
(* reads what is committed when it runs: one step per SELECT, with the     *)
(* comparisons that follow it.                                             *)
(***************************************************************************)
EXTENDS WorkspaceSupervisor

VARIABLE audit
auditVars == <<db, work, txn, told, audit>>

NotStarted ==
  [next |-> "meta", meta |-> db, projection |-> db.projection, events |-> 0]

AuditInit == Init /\ audit = NotStarted

\* The audit goes on with `step' if the comparison holds, else StoreCorruption.
GoesOn(ok, step, seen) ==
  /\ audit' = [seen EXCEPT !.next = IF ok THEN step ELSE "corrupt"]
  /\ UNCHANGED vars

\* The meta row holds the initial state, the generations and the bounds.
ReadMeta ==
  /\ audit.next = "meta"
  /\ GoesOn(TRUE, "projection", [audit EXCEPT !.meta = db])

ReadProjection ==
  /\ audit.next = "projection"
  /\ GoesOn(Decodable(db.projection), "ledger",
            [audit EXCEPT !.projection = db.projection])

\* Replays the ledger and compares it with the projection and the meta row.
ReadLedger ==
  /\ audit.next = "ledger"
  /\ LET after == Replay(audit.meta.initial, Envelopes(db))
         n == Len(db.ledger)
     IN  GoesOn(/\ \A k \in 1..n : Accepts(after[k - 1], db.ledger[k].envelope)
                /\ after[n] = audit.projection
                /\ audit.projection.runtime_generation
                     = audit.meta.active_generation,
                "applied", [audit EXCEPT !.events = n])

\* Slip: every settled receipt is counted, rejected ones too.
ReadApplied_Slip ==
  /\ audit.next = "applied"
  /\ GoesOn(Cardinality({i \in DOMAIN db.inbox :
                           db.inbox[i].status # "queued"}) = audit.events,
            "queued", audit)

ReadApplied ==
  /\ audit.next = "applied"
  /\ GoesOn(Cardinality({i \in DOMAIN db.inbox :
                           db.inbox[i].status = "applied"}) = audit.events,
            "queued", audit)

\* Without a pending switch in the meta row the audit ends here.
ReadQueued ==
  /\ audit.next = "queued"
  /\ GoesOn(InboxBounded,
            IF audit.meta.pending_generation = "" THEN "clean" ELSE "pending",
            audit)

ReadPending ==
  /\ audit.next = "pending"
  /\ GoesOn(\E i \in DOMAIN db.inbox :
              /\ Queued(db) = {i}
              /\ db.inbox[i].submission.event_type = Activation
              /\ db.inbox[i].submission.runtime_generation
                   = audit.meta.pending_generation,
            "clean", audit)

AuditStep == ReadMeta \/ ReadProjection \/ ReadLedger \/ ReadApplied
             \/ ReadQueued \/ ReadPending

AuditNext == AuditStep \/ (Next /\ UNCHANGED audit)

AuditSpec == AuditInit /\ [][AuditNext]_auditVars
-----------------------------------------------------------------------------
\* The audit never cries corruption over a store that stood still while it ran,
\* whatever was submitted, drained, switched or rolled back before.
QuietStoreAuditsClean == audit.next = "corrupt" => db # audit.meta

\* G3-single-writer-supervisor.md:27: the replay must agree exactly with the
\* projection, the active generation, the applied receipts and the inbox
\* bounds, so no audit of an untampered store may report corruption.
AuditReportsNoCorruption == audit.next # "corrupt"
=============================================================================
