------------------------------ MODULE Outcome -------------------------------
(***************************************************************************)
(* The two backfillers of outcomes.  One labels the evaluations of entry   *)
(* signals, from the PnL of the position the signal opened if it has been  *)
(* closed, else from a price near signal time plus horizon.  The other     *)
(* writes what holding would have made of each exit decision.  Both take   *)
(* the oldest pending rows, a batch at a time, again and again.            *)
(*                                                                         *)
(* Abstractions: a price is known by the time it is the price of, and what *)
(* it means for a row (win, loss, flat, by direction and thresholds) is    *)
(* the constant Move.  Times are in steps of the tolerance of five minutes.*)
(* The time on a signal is whatever TradingView wrote; a row may be        *)
(* inserted before or after it.                                            *)
(***************************************************************************)
EXTENDS Integers, FiniteSets

CONSTANTS
  Evals,       \* agent_evaluations of long and short signals
  Exits,       \* agent_exit_decisions
  Move,        \* Move[r][t]: what the price at t means for row r
  Horizon, StaleCutoff, Candle, Tolerance, Batch,
  Delisted,    \* rows whose symbol the exchange always refuses
  Pnls,        \* bound: ways a trade may end
  LastScore,   \* bound: rows are inserted up to this time
  OutcomeTime, \* bound: the clock stops here
  OutcomeFaults \* bound: failed statements and requests

Rows == Evals \cup Exits
Verdicts == {"win", "loss", "flat"}
MinAge == Horizon + 1

ASSUME OutcomeAssumption ==
  /\ Evals \cap Exits = {} /\ IsFiniteSet(Rows) /\ Delisted \subseteq Rows
  /\ OutcomeTime \in Nat /\ LastScore \in 0..OutcomeTime /\ OutcomeFaults \in Nat
  /\ Horizon \in Nat \ {0} /\ Candle \in Nat \ {0} /\ Tolerance \in 0..Horizon
  /\ StaleCutoff \in Nat /\ MinAge < StaleCutoff /\ Batch \in Nat \ {0}
  /\ Pnls \subseteq Verdicts
  /\ Move \in [Rows -> [0..OutcomeTime -> Verdicts]]

VARIABLES
  ot,      \* the time
  row,     \* a row: when it was inserted, created_at (-1: not yet), the time of its
           \*   signal or decision, its label, and history: what it was computed from
           \*   and when that was the price
  trade,   \* the position a signal opened: "none", "open", or how it closed
  bf,      \* a backfiller: program counter, rows left of the batch, row in hand, its PnL
  ofaults

outcomeVars == <<ot, row, trade, bf, ofaults>>

OFault == ofaults < OutcomeFaults /\ ofaults' = ofaults + 1
NoOFault == UNCHANGED ofaults

Backfillers == {"entry", "exit"}
IdleB == [pc |-> "wait", left |-> {}, cur |-> {}, pnl |-> "none"]

OutcomeInit ==
  /\ ot = 0
  /\ row = [r \in Rows |-> [at |-> -1, sig |-> -1, label |-> "null", from |-> "none", seen |-> -1]]
  /\ trade = [r \in Evals |-> "none"]
  /\ bf = [b \in Backfillers |-> IdleB]
  /\ ofaults = 0

----------------------------------------------------------------------------
(* What the rest of the program does to the rows.                          *)

OutcomeTick ==
  /\ ot < OutcomeTime /\ ot' = ot + 1
  /\ UNCHANGED <<row, trade, bf, ofaults>>

(* Insert of an evaluation, the signal traded or abandoned, or of an exit  *)
(* decision, whose time is that of its row.                                *)
Insert(r) ==
  /\ row[r].at = -1 /\ ot <= LastScore
  /\ \E t \in IF r \in Evals THEN 0..LastScore ELSE {ot} :
       row' = [row EXCEPT ![r] = [@ EXCEPT !.at = ot, !.sig = t]]
  /\ \/ r \in Evals /\ trade' = [trade EXCEPT ![r] = "open"]
     \/ UNCHANGED trade
  /\ UNCHANGED <<ot, bf, ofaults>>
CloseTrade(r) ==
  /\ trade[r] = "open"
  /\ \E v \in Pnls : trade' = [trade EXCEPT ![r] = v]
  /\ UNCHANGED <<ot, row, bf, ofaults>>

----------------------------------------------------------------------------
(* Pending rows, oldest first.                                             *)

Waiting(b) ==
  {r \in (IF b = "entry" THEN Evals ELSE Exits) :
     /\ row[r].at >= 0 /\ row[r].label = "null"
     /\ IF b = "entry" THEN row[r].at < ot - MinAge ELSE row[r].at <= ot - Horizon}
(* The batches a LIMIT may return: rows of one time are in any order.      *)
OldestFirst(S) ==
  {T \in SUBSET S :
     /\ Cardinality(T) = IF Cardinality(S) < Batch THEN Cardinality(S) ELSE Batch
     /\ \A r \in T, q \in S \ T : row[r].at <= row[q].at}

PendingEvaluations(b) ==
  /\ bf[b].pc = "wait" /\ Waiting(b) # {}
  /\ \E T \in OldestFirst(Waiting(b)) :
       bf' = [bf EXCEPT ![b] = [pc |-> "row", left |-> T, cur |-> {}, pnl |-> "none"]]
  /\ UNCHANGED <<ot, row, trade, ofaults>>
PendingFails(b) ==
  /\ bf[b].pc = "wait" /\ Waiting(b) # {} /\ OFault
  /\ UNCHANGED <<ot, row, trade, bf>>

(* The close of the one hour candle that opens within the tolerance of the *)
(* target: the price an hour later, or the last one if it is not over yet. *)
CounterfactClose(r) ==
  LET target == row[r].sig + Horizon
      opened == {h \in (target - Tolerance)..(target + Tolerance) : h % Candle = 0 /\ h <= ot}
  IN {IF h + Candle < ot THEN h + Candle ELSE ot : h \in opened}

----------------------------------------------------------------------------
(* One row.                                                                *)

IsNext(b, r) == r \in bf[b].left /\ \A q \in bf[b].left : row[r].at <= row[q].at
Done(b, r) ==
  bf' = [bf EXCEPT ![b] = [pc |-> IF bf[b].left = {r} THEN "wait" ELSE "row",
                           left |-> bf[b].left \ {r}, cur |-> {}, pnl |-> "none"]]
Write(r, lb, from, seen) ==
  row' = [row EXCEPT ![r] = [@ EXCEPT !.label = lb, !.from = from, !.seen = seen]]

(* PositionPnL, whose error is logged and leaves the PnL unknown.          *)
PositionPnL(r) ==
  /\ bf["entry"].pc = "row" /\ IsNext("entry", r)
  /\ \E known \in {trade[r] \in Verdicts, FALSE} :
       /\ IF known = (trade[r] \in Verdicts) THEN NoOFault ELSE OFault
       /\ bf' = [bf EXCEPT !["entry"] = [@ EXCEPT !.pc = "price", !.cur = {r},
                                         !.pnl = IF known THEN trade[r] ELSE "none"]]
  /\ UNCHANGED <<ot, row, trade>>

IsStaleEarly(r) == ot - row[r].sig > MinAge  \* mutant: the age that made it pending
IsStale(r) == ot - row[r].sig > StaleCutoff

(* Compute and WriteOutcome.  Without a PnL the exchange is asked: an      *)
(* error counts as no price.  Without a price the row stays pending until  *)
(* it is stale.                                                            *)
JudgeKnown(r, prices) ==  \* mutant: only what can be judged is written
  IF bf["entry"].pnl # "none" THEN Write(r, bf["entry"].pnl, "pnl", ot)
  ELSE IF prices # {} THEN \E p \in prices : Write(r, Move[r][p], "pct", p)
  ELSE UNCHANGED row
Judge(r, prices) ==
  IF bf["entry"].pnl # "none" THEN Write(r, bf["entry"].pnl, "pnl", ot)
  ELSE IF prices # {} THEN \E p \in prices : Write(r, Move[r][p], "pct", p)
  ELSE IF IsStale(r) THEN Write(r, "unavailable", "none", ot)
  ELSE UNCHANGED row
WriteOutcome(r) ==
  /\ bf["entry"].pc = "price" /\ r \in bf["entry"].cur
  /\ \/ NoOFault /\ Judge(r, IF r \in Delisted THEN {} ELSE CounterfactClose(r))
     \/ OFault /\ (Judge(r, {}) \/ UNCHANGED row)
  /\ Done("entry", r)
  /\ UNCHANGED <<ot, trade>>

(* An exit decision: a failed request leaves it for the next pass, before  *)
(* its age is looked at; no candle does so until it is stale.  There is no *)
(* PnL to compare with, so only the percentage is written.                 *)
SetIfHold(r) ==
  LET prices == CounterfactClose(r)
  IN IF prices # {} THEN \E p \in prices : Write(r, "none", "pct", p)
     ELSE IF IsStale(r) THEN Write(r, "unavailable", "none", ot)
     ELSE UNCHANGED row
SetIfHoldOutcome(r) ==
  /\ bf["exit"].pc = "row" /\ IsNext("exit", r)
  /\ \/ NoOFault /\ IF r \in Delisted THEN UNCHANGED row ELSE SetIfHold(r)
     \/ OFault /\ UNCHANGED row
  /\ Done("exit", r)
  /\ UNCHANGED <<ot, trade>>

BackfillStep(b) ==
  \/ PendingEvaluations(b)
  \/ b = "entry" /\ \E r \in Evals : PositionPnL(r) \/ WriteOutcome(r)
  \/ b = "exit" /\ \E r \in Exits : SetIfHoldOutcome(r)
OutcomeNext ==
  \/ OutcomeTick
  \/ \E r \in Rows : Insert(r)
  \/ \E r \in Evals : CloseTrade(r)
  \/ \E b \in Backfillers : BackfillStep(b) \/ PendingFails(b)
OutcomeSpec == OutcomeInit /\ [][OutcomeNext]_outcomeVars
----------------------------------------------------------------------------
OutcomeTypeOK ==
  /\ ot \in 0..OutcomeTime /\ ofaults \in 0..OutcomeFaults
  /\ row \in [Rows -> [at : -1..LastScore, sig : -1..LastScore, seen : -1..OutcomeTime, from : {"none", "pnl", "pct"},
                       label : Verdicts \cup {"null", "none", "unavailable"}]]
  /\ trade \in [Evals -> Verdicts \cup {"none", "open"}]
  /\ bf \in [Backfillers -> [pc : {"wait", "row", "price"}, left : SUBSET Rows, cur : SUBSET Evals,
                             pnl : Verdicts \cup {"none"}]]

(* A row is given up only when its signal or decision is a day old, never  *)
(* judged by a price from before the horizon, and a verdict from the trade *)
(* is the trade's, however long the row came after its signal.             *)
JudgedInTime ==
  \A r \in Rows :
    /\ row[r].label = "unavailable" => ot - row[r].sig > StaleCutoff
    /\ row[r].from = "pct" => row[r].seen >= row[r].sig + Horizon - Tolerance
    /\ row[r].from = "pnl" => row[r].label = trade[r]
(* Every evaluation gets its outcome, however many requests fail and       *)
(* however full the batch is of rows that cannot be judged yet.  So does   *)
(* an exit decision, unless its own requests always fail or as many rows   *)
(* whose requests do, and that are not younger, fill the batch.            *)
Starved(r) ==
  /\ r \in Exits
  /\ \/ r \in Delisted
     \/ Cardinality({q \in Exits \cap Delisted : row[q].at \in 0..row[r].at}) >= Batch
OutcomesSettle ==
  \A r \in Rows : (row[r].at >= 0) ~> (row[r].label # "null" \/ Starved(r))
(* "mark as 'unavailable' once so we don't keep retrying forever": a       *)
(* decision whose request fails is not looked at, and keeps its place.     *)
RetriesEnd == \A r \in Exits : (row[r].at >= 0) ~> (row[r].label # "null")
(* "CounterfactClose returns the close price at-or-near target_time".      *)
CounterfactNearTarget ==
  \A r \in Rows : row[r].from = "pct" => row[r].seen <= row[r].sig + Horizon + Tolerance
=============================================================================
