----------------------------- MODULE MCTrading -----------------------------
(* Values for the constants of Trading: one strategy with one goroutine    *)
(* (a dispatcher queue) or with two (a queue and the synchronous           *)
(* fallback).                                                              *)
EXTENDS Trading

S1 == {"s1"}
OneSymbol == {"BTC"}
Alone == [s \in S1 |-> "BTC"]

P1 == {"p1"}
P2 == {"p1", "p2"}
ServesAlone == [p \in P1 |-> "s1"]
ServesBoth == [p \in P2 |-> "s1"]

TwoLegs == {"stop", "backup"}
\* one leg the adapter can reach and one it cannot
OnlyStop == {"stop"}
============================================================================
