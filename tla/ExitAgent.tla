----------------------------- MODULE ExitAgent -----------------------------
(***************************************************************************)
(* The exit agent: a worker scans the open positions, asks an LLM what to  *)
(* do with each, records the answer in agent_exit_decisions and, in active *)
(* mode, executes it through trade.ExitOrchestrator.  A pass runs one      *)
(* goroutine per eligible position, at most MaxConcurrent at a time; the   *)
(* settings row, the positions and the exchange change under it.           *)
(*                                                                         *)
(* Abstractions: prices are natural numbers and quantities are lots; of    *)
(* the protective legs only the stop is kept, because only TightenSL       *)
(* replaces one (module Trading has the others); the market is a choice to *)
(* trigger a stop, which then closes all that is left; what the prompt     *)
(* says is not modelled, so the LLM may answer anything.                   *)
(***************************************************************************)
EXTENDS Integers, Sequences, FiniteSets

CONSTANTS
  NumPositions,  \* virtual positions, all open at the start
  SideOf,        \* their sides
  Prices,        \* prices the LLM may propose
  Tenths,        \* shares it may propose to close, in tenths
  Stop0,         \* stop_price of the orders row StopOrderID points to
  Lot,           \* the quantity of a position's row
  Configs,       \* what the settings row may hold
  MinAge,        \* exit_agent_min_position_age_sec, in clock ticks
  Cooldown,      \* exit_agent_decision_cooldown_min, in clock ticks
  Routed,        \* whether Cancel reaches the endpoint that has the stop
  MaxTime,       \* bound of the clock
  MaxRows,       \* bound of the decisions table
  MaxFaults      \* bound: failed calls, lost answers, crashes

Positions == 1..NumPositions
Actions == {"hold", "tighten_sl", "take_partial", "exit_now"}
Rank(c) == CASE c = "high" -> 3 [] c = "med" -> 2 [] c = "low" -> 1 [] OTHER -> 0

ASSUME ExitAssumption ==
  /\ NumPositions \in Nat \ {0} /\ Lot \in Nat \ {0}
  /\ SideOf \in [Positions -> {"long", "short"}]
  /\ Prices \subseteq Nat /\ Stop0 \in Nat /\ Tenths \subseteq 1..5
  /\ \A c \in Configs : /\ c.enabled \in BOOLEAN /\ c.conc \in Nat
                        /\ c.mode \in {"shadow", "active"}
                        /\ c.require \in {"low", "med", "high"}
  /\ MinAge \in Nat /\ Cooldown \in Nat /\ Routed \in BOOLEAN
  /\ MaxTime \in Nat /\ MaxRows \in Nat /\ MaxFaults \in Nat

VARIABLES
  cfg,      \* the settings row, as SettingsAdapter.Read returns it
  pass,     \* RunOnce: program counter, config it read, positions left to scan
  job,      \* goroutine of a position: program counter, snapshot, decision, row
  rows,     \* agent_exit_decisions
  st,       \* virtual_positions.status
  qty,      \* the position on the exchange, in lots
  stops,    \* prices of the live stop orders of a position
  sent,     \* orders the exchange accepted for a decision; 0 stands for no row
  now, faults

dbVars == <<cfg, rows, st>>
exVars == <<qty, stops, sent>>
vars == <<cfg, pass, job, rows, st, qty, stops, sent, now, faults>>

NoFault == UNCHANGED faults
Fault == faults < MaxFaults /\ faults' = faults + 1

None == -1
Hold == [action |-> "hold", conf |-> "low", price |-> None, tenths |-> 0]
IdlePass == [pc |-> "idle", cfg |-> CHOOSE c \in Configs : TRUE, todo |-> {},
             sl |-> [v \in Positions |-> None], aged |-> {}, blind |-> FALSE]
IdleJob == [pc |-> "idle", d |-> Hold, row |-> 0, err |-> FALSE, sl |-> None, blind |-> FALSE]

(* a is a tighter stop than b: nearer to the market.                       *)
Tighter(v, a, b) == IF SideOf[v] = "long" THEN a > b ELSE a < b
Tightest(v, S) == CHOOSE a \in S : \A b \in S \ {a} : Tighter(v, a, b)
MinOf(a, b) == IF a < b THEN a ELSE b

(* Bound: with the table full no pass begins, and neither the clock nor    *)
(* the settings move, which only passes look at.                           *)
Room == Len(rows) < MaxRows

Init ==
  /\ cfg \in Configs
  /\ pass = IdlePass
  /\ job = [v \in Positions |-> IdleJob]
  /\ rows = <<>>
  /\ st = [v \in Positions |-> "open"]
  /\ qty = [v \in Positions |-> Lot]
  /\ stops = [v \in Positions |-> {Stop0}]
  /\ sent = [i \in 0..MaxRows |-> 0]
  /\ now = 0
  /\ faults = 0

----------------------------------------------------------------------------
(* The pass.                                                               *)

(* Start and RunOnce read the settings; a disabled agent does nothing.     *)
RunOnce ==
  /\ pass.pc = "idle" /\ cfg.enabled /\ Room
  /\ pass' = [IdlePass EXCEPT !.pc = "list", !.cfg = cfg]
  /\ UNCHANGED <<dbVars, job, exVars, now, faults>>

(* ListOpen: the open positions with their stop price, read from the       *)
(* original row, and their age.  A position whose price is unavailable is  *)
(* left out; a stop price that cannot be read is nil.                      *)
ListOpen ==
  /\ pass.pc = "list"
  /\ LET open == {v \in Positions : st[v] = "open"}
     IN \E S \in SUBSET open, known \in BOOLEAN :
          /\ IF S = open /\ known THEN NoFault ELSE Fault
          /\ pass' = [pass EXCEPT !.pc = "scan", !.todo = S,
                        !.sl = [v \in Positions |-> IF known THEN Stop0 ELSE None],
                        !.aged = IF now >= MinAge THEN Positions ELSE {}]
  /\ UNCHANGED <<dbVars, job, exVars, now>>

ListFails ==
  /\ pass.pc = "list" /\ Fault
  /\ pass' = IdlePass
  /\ UNCHANGED <<dbVars, job, exVars, now>>

Head1(S) == CHOOSE v \in S : \A w \in S : v <= w
Next1 == Head1(pass.todo)
RowsOf(v) == {i \in 1..Len(rows) : rows[i].v = v}

(* Mutant: only decisions that led to an order start the cooldown.         *)
CoolActed(v) ==
  \E i \in RowsOf(v) : rows[i].action # "hold" /\ now - rows[i].at < Cooldown
(* The last decision for v is younger than the cooldown.                   *)
Cool(v) == \E i \in RowsOf(v) : now - rows[i].at < Cooldown

(* eligible: old enough and not in its cooldown.  A cooldown that cannot   *)
(* be read does not stop the position.                                     *)
Eligible(v, readable) == v \in pass.aged /\ (readable => ~Cool(v))

Skip ==
  /\ pass.pc = "scan" /\ pass.todo # {}
  /\ ~Eligible(Next1, TRUE)
  /\ pass' = [pass EXCEPT !.todo = @ \ {Next1}]
  /\ UNCHANGED <<dbVars, job, exVars, now, faults>>

(* The position is entered in inflight; the pass then waits for a slot of  *)
(* the semaphore, the check of the cooldown behind it.                     *)
Admit ==
  /\ pass.pc = "scan" /\ pass.todo # {}
  /\ job[Next1].pc = "idle"
  /\ \/ Eligible(Next1, TRUE) /\ NoFault /\ pass' = [pass EXCEPT !.pc = "sem"]
     \/ Eligible(Next1, FALSE) /\ Fault /\ pass' = [pass EXCEPT !.pc = "sem", !.blind = TRUE]
  /\ UNCHANGED <<dbVars, job, exVars, now>>

Busy == {v \in Positions : job[v].pc # "idle"}
SlotsRaw == pass.cfg.conc   \* mutant: MaxConcurrent as it is in the settings
Slots == IF pass.cfg.conc < 1 THEN 1 ELSE pass.cfg.conc

Spawn ==
  /\ pass.pc = "sem" /\ Cardinality(Busy) < Slots
  /\ job' = [job EXCEPT ![Next1] = [IdleJob EXCEPT !.pc = "decide", !.sl = pass.sl[Next1],
                                                  !.blind = pass.blind]]
  /\ pass' = [pass EXCEPT !.pc = "scan", !.todo = @ \ {Next1}, !.blind = FALSE]
  /\ UNCHANGED <<dbVars, exVars, now, faults>>

(* wg.Wait.                                                                *)
PassDone ==
  /\ pass.pc = "scan" /\ pass.todo = {} /\ Busy = {}
  /\ pass' = IdlePass
  /\ UNCHANGED <<dbVars, job, exVars, now, faults>>

----------------------------------------------------------------------------
(* The goroutine of a position.                                            *)

(* What Parse lets through: a price is required to tighten, and a share in *)
(* (0, 0.5] to close a part; anything else is an error.  The confidence    *)
(* matters to exit_now only.                                               *)
Answers ==
  {Hold} \cup [action : {"exit_now"}, conf : {"low", "high"}, price : {None}, tenths : {0}]
  \cup [action : {"tighten_sl"}, conf : {"high"}, price : Prices, tenths : {0}]
  \cup [action : {"take_partial"}, conf : {"high"}, price : {None}, tenths : Tenths]

(* checkConstraints, against the snapshot of the pass.                     *)
Violates(v, d) ==
  \/ d.action = "tighten_sl" /\ job[v].sl # None /\ ~Tighter(v, d.price, job[v].sl)
  \/ d.action = "exit_now" /\ Rank(d.conf) < Rank(pass.cfg.require)

To(v, pc) == job' = [job EXCEPT ![v].pc = pc]
EndJob(v) == job' = [job EXCEPT ![v] = IdleJob]

(* Context, LLM call, parse and constraints.  A failed call and a violated *)
(* constraint both become a decision to hold, which is recorded.           *)
Decide(v) ==
  /\ job[v].pc = "decide"
  /\ \E d \in Answers :
       job' = [job EXCEPT ![v].pc = "insert", ![v].d = IF Violates(v, d) THEN Hold ELSE d]
  /\ UNCHANGED <<dbVars, pass, exVars, now, faults>>

(* Whether a recorded decision is also executed.                           *)
Acts(d) == pass.cfg.mode = "active" /\ d.action # "hold"

Row(v) == [v |-> v, at |-> now, action |-> job[v].d.action, price |-> job[v].d.price,
           mode |-> pass.cfg.mode, status |-> "none", blind |-> job[v].blind]

Insert(v) ==
  /\ job[v].pc = "insert" /\ Room
  /\ rows' = Append(rows, Row(v))
  /\ IF Acts(job[v].d)
       THEN job' = [job EXCEPT ![v].pc = "check", ![v].row = Len(rows) + 1]
       ELSE EndJob(v)
  /\ UNCHANGED <<cfg, st, pass, exVars, now, faults>>

(* Mutant: a decision that could not be recorded is executed all the same. *)
InsertIgnored(v) ==
  /\ job[v].pc = "insert" /\ Fault
  /\ IF Acts(job[v].d) THEN To(v, "check") ELSE EndJob(v)
  /\ UNCHANGED <<dbVars, pass, exVars, now>>
(* The decision is not recorded, and so it is not executed.  The bound of  *)
(* the table ends a pass the same way.                                     *)
InsertFails(v) ==
  /\ job[v].pc = "insert" /\ (IF Room THEN Fault ELSE NoFault)
  /\ EndJob(v)
  /\ UNCHANGED <<dbVars, pass, exVars, now>>

(* Mutant: the error of the executor does not reach the row.               *)
ErrorDropped(v) == To(v, "record")
Failed(v) == job' = [job EXCEPT ![v].pc = "record", ![v].err = TRUE]

(* The orchestrator reads the VP and, to tighten, the stop price of its    *)
(* row, which no earlier TightenSL has updated.                            *)
CheckPosition(v) ==
  /\ job[v].pc = "check"
  /\ \/ st[v] # "open" /\ NoFault /\ Failed(v)
     \/ st[v] = "open" /\ Fault /\ Failed(v)
     \/ /\ st[v] = "open" /\ NoFault
        /\ CASE job[v].d.action = "tighten_sl" ->
                  IF Tighter(v, job[v].d.price, Stop0) THEN To(v, "cancel") ELSE Failed(v)
             [] job[v].d.action = "take_partial" -> To(v, "place")
             [] job[v].d.action = "exit_now" -> To(v, "cancel")
  /\ UNCHANGED <<dbVars, pass, exVars, now>>

(* Cancel of the order StopOrderID names; errors are dropped.  Unless the  *)
(* client id is Routed the request goes to the endpoint of regular orders, *)
(* whose "Unknown order" is swallowed, and the stop stays.                 *)
CancelStop(v) == IF Routed THEN stops' = [stops EXCEPT ![v] = @ \ {Stop0}] ELSE UNCHANGED stops

CancelStep(v) ==
  /\ job[v].pc = "cancel"
  /\ CancelStop(v)
  /\ To(v, "place")
  /\ UNCHANGED <<dbVars, pass, qty, sent, now, faults>>

(* The order of each action.  The share of TakePartial is one of the row's *)
(* quantity, whatever is left of the position, and is not rounded: the     *)
(* exchange refuses it when it is not a whole number of lots.  Of a market *)
(* order it accepts, the exchange may fill any part, or none.              *)
PlaceStop(v) == stops' = [stops EXCEPT ![v] = @ \cup {job[v].d.price}] /\ UNCHANGED qty
ReduceBy(v, n) ==
  \E k \in 0..MinOf(qty[v], n) : qty' = [qty EXCEPT ![v] = @ - k] /\ UNCHANGED stops
Share(v) == (Lot * job[v].d.tenths) \div 10
Order(v) ==
  /\ sent' = [sent EXCEPT ![job[v].row] = @ + 1]
  /\ CASE job[v].d.action = "tighten_sl" -> PlaceStop(v)
       [] job[v].d.action = "take_partial" -> ReduceBy(v, Share(v))
       [] job[v].d.action = "exit_now" -> ReduceBy(v, Lot)

Accepted(v) == qty[v] > 0 /\ (job[v].d.action = "take_partial" => (Lot * job[v].d.tenths) % 10 = 0)

(* Place: only its error counts, the status of the order it returns is not *)
(* looked at.                                                              *)
Place(v) ==
  /\ job[v].pc = "place"
  /\ \/ Accepted(v) /\ NoFault /\ Order(v) /\ To(v, "record")
     \/ ~Accepted(v) /\ NoFault /\ Failed(v) /\ UNCHANGED exVars
     \/ Accepted(v) /\ Fault /\ Failed(v) /\ (Order(v) \/ UNCHANGED exVars)
  /\ UNCHANGED <<dbVars, pass, now>>

(* SetExecution; its error is only logged.                                 *)
Record(v) ==
  /\ job[v].pc = "record"
  /\ \/ /\ NoFault
        /\ rows' = [rows EXCEPT ![job[v].row].status = IF job[v].err THEN "failed" ELSE "success"]
     \/ Fault /\ UNCHANGED rows
  /\ EndJob(v)
  /\ UNCHANGED <<cfg, st, pass, exVars, now>>

----------------------------------------------------------------------------
(* Everything else.                                                        *)

Tick ==
  /\ now < MaxTime /\ Room
  /\ now' = now + 1
  /\ UNCHANGED <<dbVars, pass, job, exVars, faults>>

SaveSettings ==
  /\ Room /\ cfg' \in Configs \ {cfg}
  /\ UNCHANGED <<pass, job, rows, st, exVars, now, faults>>

(* A stop triggers and closes what is left of the position.                *)
StopTriggers(v) ==
  /\ stops[v] # {} /\ qty[v] > 0
  /\ qty' = [qty EXCEPT ![v] = 0]
  /\ stops' = [stops EXCEPT ![v] = @ \ {Tightest(v, @)}]
  /\ UNCHANGED <<dbVars, pass, job, sent, now, faults>>

(* The Reconciler, the heartbeat or a signal closes the VP (Trading).      *)
ClosedElsewhere(v) ==
  /\ st[v] = "open"
  /\ st' = [st EXCEPT ![v] = "closed"]
  /\ qty' = [qty EXCEPT ![v] = 0]
  /\ UNCHANGED <<cfg, rows, pass, job, stops, sent, now, faults>>

Crash ==
  /\ pass.pc # "idle" /\ Fault
  /\ pass' = IdlePass
  /\ job' = [v \in Positions |-> IdleJob]
  /\ UNCHANGED <<dbVars, exVars, now>>

PassStep == ListOpen \/ ListFails \/ Skip \/ Admit \/ Spawn \/ PassDone
JobStep(v) ==
  \/ Decide(v) \/ Insert(v) \/ InsertFails(v) \/ CheckPosition(v)
  \/ CancelStep(v) \/ Place(v) \/ Record(v)
Environment ==
  Tick \/ SaveSettings \/ Crash \/ \E v \in Positions : StopTriggers(v) \/ ClosedElsewhere(v)

Next == RunOnce \/ PassStep \/ (\E v \in Positions : JobStep(v)) \/ Environment
Spec == Init /\ [][Next]_vars

(* A goroutine that can go on does: every call it waits for has a timeout, *)
(* the http.Client of the LLM 30 s, the requests to Binance their own.     *)
Fairness == WF_vars(PassStep) /\ \A v \in Positions : WF_vars(JobStep(v))
FairSpec == Spec /\ Fairness

----------------------------------------------------------------------------
TypeOK ==
  /\ cfg \in Configs
  /\ pass.pc \in {"idle", "list", "scan", "sem"} /\ pass.cfg \in Configs
  /\ pass.todo \subseteq Positions /\ (pass.pc = "sem" => pass.todo # {})
  /\ \A v \in Positions :
       /\ job[v].pc \in {"idle", "decide", "insert", "check", "cancel", "place", "record"}
       /\ job[v].d \in Answers
       /\ job[v].pc \in {"check", "cancel", "place", "record"} =>
            job[v].row \in 1..Len(rows) /\ rows[job[v].row].v = v
       /\ qty[v] \in 0..Lot
       /\ stops[v] \subseteq Prices \cup {Stop0}
  /\ st \in [Positions -> {"open", "closed"}]
  /\ sent \in [0..MaxRows -> Nat] /\ Len(rows) <= MaxRows
  /\ now \in 0..MaxTime /\ faults \in 0..MaxFaults

(* What the exchange shows of the agent is in the table: a stop it placed  *)
(* and a part it closed each have a row, written in active mode before the *)
(* order went out, whatever failed or crashed since.                       *)
ActedOn(v, action) ==
  \E i \in RowsOf(v) : rows[i].action = action /\ rows[i].mode = "active"
Recorded ==
  \A v \in Positions :
    /\ \A p \in stops[v] \ {Stop0} :
         \E i \in RowsOf(v) : /\ rows[i].action = "tighten_sl" /\ rows[i].price = p
                              /\ rows[i].mode = "active"
    /\ qty[v] \in 1..(Lot - 1) => ActedOn(v, "take_partial") \/ ActedOn(v, "exit_now")

(* No decision is ordered twice, whatever was lost, failed or crashed;     *)
(* none that was not recorded, none of shadow mode and none to hold is     *)
(* ordered at all; and a row that says 'success' has its order: accepted   *)
(* by the exchange (not filled: Place does not look), a stop still there   *)
(* or gone with the position.                                              *)
OrderedOnce ==
  /\ sent[0] = 0
  /\ \A i \in 1..MaxRows : sent[i] > 0 =>
       sent[i] = 1 /\ i <= Len(rows) /\ rows[i].mode = "active" /\ rows[i].action # "hold"
  /\ \A i \in 1..Len(rows) : LET r == rows[i] IN
       r.status = "success" =>
         /\ sent[i] = 1
         /\ r.action = "tighten_sl" => r.price \in stops[r.v] \/ qty[r.v] = 0

(* Two decisions for one position are a cooldown apart, a crash between    *)
(* them or not, unless the cooldown could not be read.                     *)
DecisionsApart ==
  \A j \in 1..Len(rows) : ~rows[j].blind =>
    \A i \in 1..(j - 1) : rows[i].v = rows[j].v => rows[j].at - rows[i].at >= Cooldown

(* TightenSL "refuses if newPrice is not strictly tighter".                *)
TightensOnly ==
  [][\A v \in Positions : \A a \in stops'[v] \ stops[v] :
       \A b \in stops[v] : Tighter(v, a, b)]_vars

(* "TakePartial places a market-close for `pct` of the position", at most  *)
(* half of it: no partial close takes more than half of what there is.     *)
(* Violated: the share is one of the row's quantity, so that a second      *)
(* decision for half of the position closes all that is left of it.        *)
PartOfPosition ==
  [][\A v \in Positions :
       job[v].pc = "place" /\ job[v].d.action = "take_partial" /\ job'[v].pc = "record" =>
         qty'[v] * 2 >= qty[v]]_vars

(* "success" is the status of a decision that was carried out: a position  *)
(* that was ordered to exit is gone.  Violated: a market order that the    *)
(* exchange expires, or fills in part, is a success as well.               *)
SuccessFilled ==
  \A i \in 1..Len(rows) :
    rows[i].status = "success" /\ rows[i].action = "exit_now" => qty[rows[i].v] = 0

(* Every pass comes to its end, however many positions it scans and        *)
(* whatever the settings say of the concurrency.                           *)
PassEnds == (pass.pc # "idle") ~> (pass.pc = "idle")
=============================================================================
