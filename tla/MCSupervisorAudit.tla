-------------------------- MODULE MCSupervisorAudit --------------------------
(* Two instances of SupervisorAudit at once: store w1 switches generation
   beside an audit, store w2 works through a task. *)
EXTENDS SupervisorAudit, TLC

CONSTANTS x1, x2

TwoWriters == {x1, x2}
WriterSymmetry == Permutations(TwoWriters)

Sub(ws, type, gen, marker) ==
  [workspace_id |-> ws, runtime_generation |-> gen, event_type |-> type,
   task_epoch |-> "t1", task_epoch_context_id |-> "",
   approval_request_id |-> "", attempt_id |-> "", intervention_id |-> "",
   marker |-> marker]

SwitchInitials == {initial_state("w1", "t1", "g1", "")}
BothInitials == SwitchInitials \cup {initial_state("w2", "t1", "g1", "")}

\* One unit per submission, one more for a marked one, two in the task's store.
Bytes == [s \in Submissions |->
            IF s.workspace_id = "w2" THEN 2 * s.marker + 1 ELSE s.marker + 1]

\* A switch, and work of the old and of the new generation around it.
SwitchSubmissions ==
  {Sub("w1", "supervisor.stopped", "g1", 0), Sub("w1", Activation, "g2", 0),
   Sub("w1", "task.bound", "g1", 0), Sub("w1", "task.created", "g2", 1)}

\* A task's events in any order: two that repeat each other but for the marker,
\* one of another epoch.  The heavy one meets the bound on bytes.
TaskSubmissions ==
  {Sub("w2", "task.created", "g1", 0), Sub("w2", "task.created", "g1", 1),
   Sub("w2", "task.bound", "g1", 0),
   [Sub("w2", "task.bound", "g1", 1) EXCEPT !.task_epoch = "t2"]}

BothSubmissions == SwitchSubmissions \cup TaskSubmissions

\* Each store hears its own submissions; only the one that switches is audited,
\* only the other one's receipts reach their callers.
OwnStory ==
  /\ \A i \in DOMAIN work.inbox :
       work.inbox[i].submission.workspace_id = db.initial.workspace_id
  /\ db.initial.workspace_id = "w1" => told = {}
  /\ db.initial.workspace_id = "w2" => audit.next = "meta"
=============================================================================
