---------------------------- MODULE MCExitAgent ----------------------------
(* Instances of ExitAgent for TLC: a long and a short position of two or   *)
(* more lots.  5 is the original stop; lower and higher prices are looser  *)
(* or tighter, by the side.                                                *)
EXTENDS ExitAgent

MCSideOf == [v \in Positions |-> IF v = 1 THEN "long" ELSE "short"]
Cfg(on, m, n) == [enabled |-> on, mode |-> m, conc |-> n, require |-> "high"]
MCConfigs == {Cfg(TRUE, "active", 0), Cfg(TRUE, "shadow", 2)}
MCOneConfig == {Cfg(TRUE, "active", 1)}
=============================================================================
