------------------------- MODULE MCGuardianHistory -------------------------
(* Event alphabets and initial states for the runs over GuardianHistory. *)
EXTENDS GuardianHistory

CONSTANT MaxLife \* bound on the chains over the alphabet of lives

Body(type, gen, request, attempt, intervention) ==
  [workspace_id |-> "w1", runtime_generation |-> gen, event_type |-> type,
   task_epoch |-> "t1", task_epoch_context_id |-> Initial.task_epoch_context_id,
   approval_request_id |-> request, attempt_id |-> attempt,
   intervention_id |-> intervention, marker |-> 0]

FreeInitial  == initial_state("w1", "t1", "g1", "")

\* Effects of two attempts, an intervention on either, and a task's life.
EffectBodies ==
  {Body(t, "g1", "", a, "") : t \in EffectEvents, a \in {"a1", "a2"}}
  \cup {Body(t, "g1", "", a, i) : t \in InterventionEvents,
          a \in {"a1", "a2"}, i \in {"i1", "i2"}}
  \cup {Body(t, "g1", "", "", "") : t \in {"task.created", "task.bound",
          "task.started", "task.succeeded", "task.inconclusive"}}

\* Approvals of two requests, the life of the supervisor over three
\* generations, and a task's beginning.
LifeBodies ==
  {Body(t, "g1", r, "", "") : t \in ApprovalEvents, r \in {"", "r1", "r2"}}
  \cup {Body(t, g, "", "", "") : t \in {Activation, "supervisor.stopped",
          "supervisor.blocked", "task.created"}, g \in {"g1", "g2", "g3"}}

\* Events that belong elsewhere.
StrayBodies ==
  LET b == Body("intent.activated", "g1", "", "", "")
  IN  {[b EXCEPT !.workspace_id = "w2"], [b EXCEPT !.task_epoch = "t2"],
       [b EXCEPT !.task_epoch_context_id = "c2"]}

LifeAndStrayBodies == LifeBodies \cup StrayBodies

EveryBody == EffectBodies \cup LifeAndStrayBodies
-----------------------------------------------------------------------------
(* A chain draws on one alphabet: of effects up to MaxEvents events, of lives  *)
(* and strays up to MaxLife.  All of them at once would be too many chains.    *)
\* Its first event says which.
DrawnFrom(alphabet) == \A i \in DOMAIN ledger : ledger[i].body \in alphabet

OneAlphabet ==
  \/ DrawnFrom(EffectBodies)
  \/ DrawnFrom(LifeAndStrayBodies) /\ Len(ledger) <= MaxLife
=============================================================================
