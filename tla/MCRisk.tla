------------------------------- MODULE MCRisk -------------------------------
(* Values for the constants of Risk: two strategies with a goroutine each, *)
(* a small form, a large one, one that MaxPosition refuses (its margin is  *)
(* within max_open_usdc, its notional is not) and one that strategy.New    *)
(* rejects, two sets of limits; a close always loses two units, more than  *)
(* the tight limit allows.  Strategies may be swapped together with their  *)
(* goroutines.                                                             *)
EXTENDS Risk

CONSTANTS s1, s2, p1, p2

S2 == {s1, s2}
P2 == {p1, p2}
ServesEach == [p \in P2 |-> IF p = p1 THEN s1 ELSE s2]
Swap == {[x \in S2 \cup P2 |-> x],
         [x \in S2 \cup P2 |-> CASE x = s1 -> s2 [] x = s2 -> s1 [] x = p1 -> p2 [] x = p2 -> p1]}

Small == [n |-> 1, max |-> 2, valid |-> TRUE]
Large == [n |-> 2, max |-> 2, valid |-> TRUE]
Levered == [n |-> 2, max |-> 1, valid |-> TRUE]
Broken == [n |-> 2, max |-> 1, valid |-> FALSE]
FourForms == {Small, Large, Levered, Broken}
Tight == [cap |-> 2, loss |-> 1]
Loose == [cap |-> 3, loss |-> 3]
BothLimits == {Tight, Loose}
Losses == {-2}

(* Both strategies start with the same form, one that no rule refuses; the *)
(* rest comes by an edit.                                                  *)
Alike == \A s \in Strategies : rows[s].form # Levered /\ \A t \in Strategies : rows[t].form = rows[s].form
MCRiskInit == RiskInit /\ Alike
MCRiskSpec == MCRiskInit /\ [][RiskNext]_rvars
=============================================================================
