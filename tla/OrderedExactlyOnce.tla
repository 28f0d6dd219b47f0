-------------------------- MODULE OrderedExactlyOnce --------------------------
(***************************************************************************)
(* What the workspace supervisor promises a producer, without inbox,       *)
(* ledger, transactions or writers: a submission is refused or queued      *)
(* once, queued ones are settled in the order they were accepted, several  *)
(* at a time but all or none, and the log holds exactly the applied ones   *)
(* in that order.  Nothing settled ever changes.                           *)
(***************************************************************************)
EXTENDS Naturals, Sequences

CONSTANT Requests

VARIABLES queue, outcome, log
abstractVars == <<queue, outcome, log>>

Outcomes == {"new", "queued", "applied", "rejected"}

AbstractTypeOK ==
  /\ queue \in Seq(Requests)
  /\ outcome \in [Requests -> Outcomes]
  /\ log \in Seq(Requests)

AbstractInit ==
  /\ queue = <<>>
  /\ outcome = [r \in Requests |-> "new"]
  /\ log = <<>>

\* r gets its first answer; no other request's outcome changes.
Answer(r, status) ==
  /\ outcome[r] = "new"
  /\ outcome'[r] = status
  /\ outcome' = [outcome EXCEPT ![r] = status]

Accept(r) ==
  /\ Answer(r, "queued")
  /\ queue' = Append(queue, r)
  /\ UNCHANGED log

Refuse(r) ==
  /\ Answer(r, "rejected")
  /\ UNCHANGED <<queue, log>>

\* The log with those of the first n queued requests that are in `good' added.
Logged(n, good) ==
  LET added[k \in 0..n] ==
        IF k = 0 THEN log
        ELSE IF queue[k] \in good THEN Append(added[k - 1], queue[k])
        ELSE added[k - 1]
  IN  added[n]

\* The first n queued requests are settled at once: those in `good' applied.
Settle(n, good) ==
  LET taken == {queue[k] : k \in 1..n}
  IN  /\ good \subseteq taken
      /\ queue' = SubSeq(queue, n + 1, Len(queue))
      /\ outcome' = [r \in Requests |-> IF r \in good THEN "applied"
                                        ELSE IF r \in taken THEN "rejected"
                                        ELSE outcome[r]]
      /\ log' = Logged(n, good)

AbstractNext ==
  \/ \E r \in Requests : Accept(r) \/ Refuse(r)
  \/ \E n \in 1..Len(queue) : \E good \in SUBSET {queue[i] : i \in 1..n} :
       Settle(n, good)

OrderedExactlyOnceSpec == AbstractInit /\ [][AbstractNext]_abstractVars
=============================================================================
