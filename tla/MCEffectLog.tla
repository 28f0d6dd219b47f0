---------------------------- MODULE MCEffectLog -----------------------------
(* Two sessions of one provider; a resource whose content a read can prove and *)
(* one about which nothing can be proved, where a human may accept a conflict. *)
EXTENDS EffectLog, TLC
CONSTANTS s1, s2

MCSessions == {s1, s2}
MCOperations == {[res |-> "r1", content |-> "c1"], [res |-> "r2", content |-> "none"]}
MCRiskReviewed == {i \in MCOperations : i.content = "none"}
Lanes == Permutations(MCSessions)

\* Once a risk is accepted the history stays with the operations it is about: a
\* card shows every unresolved effect, of whatever resource.
OwnStory ==
  reviews # <<>> =>
    \A k \in Known(log) :
      {log.attempts[k].ident} \cup Range(log.attempts[k].past) \subseteq RiskReviewed
=============================================================================
