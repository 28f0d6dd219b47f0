----------------------- MODULE MCWorkspaceSupervisor -----------------------
(* Submissions and initial states for the runs over WorkspaceSupervisor. *)
EXTENDS WorkspaceSupervisor

Sub(type, gen, marker) ==
  [workspace_id |-> "w1", runtime_generation |-> gen, event_type |-> type,
   task_epoch |-> "t1", task_epoch_context_id |-> "",
   approval_request_id |-> "", attempt_id |-> "", intervention_id |-> "",
   marker |-> marker]

\* The same said under the task-epoch context c1.
Bound(s) == [s EXCEPT !.task_epoch_context_id = "c1"]

FreeInitials == {initial_state("w1", "t1", "g1", "")}
FreeOrBoundInitials == FreeInitials \cup {initial_state("w1", "t1", "g1", "c1")}

\* One unit per submission, three for a marked one.
Bytes == [s \in Submissions |-> 2 * s.marker + 1]

\* A switch around a task's beginning, and one in a store bound to a context,
\* which must give it up.
LiveSubmissions ==
  LET switch == {Sub("supervisor.stopped", "g1", 0), Sub(Activation, "g2", 0)}
  IN  switch \cup {Bound(s) : s \in switch}
      \cup {Sub("task.created", "g1", 0), Sub("task.bound", "g1", 0)}
=============================================================================
