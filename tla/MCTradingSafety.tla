-------------------------- MODULE MCTradingSafety --------------------------
(* Two scenarios of Trading in one state space, chosen at the start: one   *)
(* goroutine with faults, or two goroutines of one strategy (the queue's   *)
(* worker and the synchronous fallback) without any.  The first position   *)
(* is a long one: a behaviour that begins with a short one is its mirror   *)
(* image, since nothing tells the two sides apart but the sign.            *)
EXTENDS MCTrading

VARIABLE overlap

WorkerOf(s) == CHOOSE p \in Procs : Serves[p] = s
OthersRest == \A p \in Procs : p # WorkerOf(Serves[p]) => proc'[p] = proc[p]

SafetyInit == Init /\ overlap \in BOOLEAN
SafetyNext ==
  /\ Next /\ UNCHANGED overlap
  /\ side'[1] = "long"
  /\ IF overlap THEN faults' = faults ELSE OthersRest
SafetySpec == SafetyInit /\ [][SafetyNext]_<<vars, overlap>>

(* One goroutine per strategy books the PnL of a VP at most once.  Two     *)
(* goroutines may both decide to close one VP, and the later exit order    *)
(* can fill against the next VP of the symbol: ClosePosition then books    *)
(* the first VP again, since MarkClosed does not look at its status.       *)
BookedBySingleWorker == ~overlap => BookedAtMostOnce
============================================================================
