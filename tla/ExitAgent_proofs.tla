-------------------------- MODULE ExitAgent_proofs --------------------------
(***************************************************************************)
(* What ExitAgent promises, for any positions, prices, settings and        *)
(* bounds.  The table of decisions only grows and the exposure only        *)
(* shrinks (Grown, Forward); what a goroutine holds is what its row says   *)
(* (Handed), so a row tells the truth about the exchange whenever the      *)
(* process dies.                                                           *)
(***************************************************************************)
EXTENDS ExitAgent, TLAPS

Proposals == Answers
PassRec == [pc : {"idle", "list", "scan", "sem"}, cfg : Configs, todo : SUBSET Positions,
            sl : [Positions -> {Stop0, None}], aged : SUBSET Positions, blind : BOOLEAN]
JobRec == [pc : {"idle", "decide", "insert", "check", "cancel", "place", "record"},
           d : Proposals, row : Nat, err : BOOLEAN, sl : {Stop0, None}, blind : BOOLEAN]
RowRec == [v : Positions, at : Nat, action : Actions, price : Prices \cup {None},
           mode : {"shadow", "active"}, status : {"none", "failed", "success"},
           blind : BOOLEAN]
Executing == {"check", "cancel", "place", "record"}

Types ==
  /\ cfg \in Configs /\ pass \in PassRec
  /\ pass.pc = "sem" => pass.todo # {}
  /\ job \in [Positions -> JobRec]
  /\ rows \in Seq(RowRec) /\ Len(rows) <= MaxRows
  /\ st \in [Positions -> {"open", "closed"}]
  /\ qty \in [Positions -> 0..Lot]
  /\ stops \in [Positions -> SUBSET (Prices \cup {Stop0})]
  /\ sent \in [0..MaxRows -> Nat]
  /\ now \in 0..MaxTime /\ faults \in 0..MaxFaults

----------------------------------------------------------------------------
(* Values.                                                                 *)

LEMMA HoldIsAnswer == Hold \in Proposals /\ Hold \in Answers
BY DEF Proposals, Answers, Hold

LEMMA ProposalFields ==
  ASSUME NEW d \in Proposals
  PROVE  /\ d.action \in Actions /\ d.price \in Prices \cup {None}
         /\ d.action = "tighten_sl" => d.price \in Prices
         /\ d.action = "take_partial" => d.tenths \in Tenths
BY DEF Proposals, Answers, Hold, Actions

LEMMA IdleIsJob == IdleJob \in JobRec /\ IdleJob.pc = "idle"
BY HoldIsAnswer DEF IdleJob, JobRec

LEMMA IdleIsPass == ASSUME Configs # {} PROVE IdlePass \in PassRec /\ IdlePass.pc = "idle"
<1>1. (CHOOSE c \in Configs : TRUE) \in Configs
  OBVIOUS
<1>2. [v \in Positions |-> None] \in [Positions -> {Stop0, None}]
  OBVIOUS
<1> QED
  BY <1>1, <1>2 DEF IdlePass, PassRec

LEMMA PriceIsNumber == Prices \cup {Stop0} \subseteq Nat /\ None \notin Prices \cup {Stop0}
BY ExitAssumption DEF None

(* A stop is not tighter than itself.                                      *)
LEMMA TighterDiffers ==
  ASSUME NEW v, NEW a \in Nat PROVE ~Tighter(v, a, a)
BY DEF Tighter

LEMMA ShareIsLots == ASSUME NEW t \in Tenths PROVE (Lot * t) \div 10 \in Nat
<1>1. Lot \in Nat \ {0} /\ t \in 1..5
  BY ExitAssumption
<1> QED
  BY <1>1

(* What is left when an order fills, whole or in part.                     *)
LEMMA Reduced ==
  ASSUME NEW a \in 0..Lot, NEW n \in Nat, NEW k \in 0..MinOf(a, n)
  PROVE  a - k \in 0..Lot /\ a - k <= a
BY ExitAssumption DEF MinOf

----------------------------------------------------------------------------
(* Types, one step of each kind at a time.                                 *)

LEMMA TypesStart == ASSUME Init PROVE Types
<1>1. Configs # {} /\ IdlePass \in PassRec /\ pass.pc = "idle"
  BY IdleIsPass DEF Init
<1>2. Lot \in 0..Lot /\ 0 \in 0..MaxTime /\ 0 \in 0..MaxFaults /\ MaxRows \in Nat
  BY ExitAssumption
<1> QED
  BY <1>1, <1>2, IdleIsJob DEF Init, Types

(* A goroutine moves on.                                                   *)
LEMMA JobMoves ==
  ASSUME Types, NEW v \in Positions, NEW q \in JobRec, job' = [job EXCEPT ![v] = q]
  PROVE  /\ job' \in [Positions -> JobRec] /\ job'[v] = q
         /\ \A w \in Positions \ {v} : job'[w] = job[w]
BY DEF Types

LEMMA FaultTyped == ASSUME Types, NoFault \/ Fault PROVE faults' \in 0..MaxFaults
BY ExitAssumption DEF Types, NoFault, Fault

LEMMA PassTypes ==
  ASSUME Types, RunOnce \/ PassStep PROVE Types'
<1>1. pass \in PassRec /\ cfg \in Configs /\ IdlePass \in PassRec /\ IdlePass.pc = "idle"
  BY IdleIsPass DEF Types
<1>2. CASE RunOnce
  <2>1. pass' \in PassRec /\ pass'.pc = "list"
    BY <1>1, <1>2 DEF RunOnce, PassRec
  <2> QED
    BY <1>2, <2>1 DEF RunOnce, Types, dbVars, exVars
<1>3. CASE ListOpen
  <2>1. pass' \in PassRec /\ pass'.pc = "scan"
    <3>1. PICK S \in SUBSET {v \in Positions : st[v] = "open"}, known \in BOOLEAN :
            pass' = [pass EXCEPT !.pc = "scan", !.todo = S,
                        !.sl = [v \in Positions |-> IF known THEN Stop0 ELSE None],
                        !.aged = IF now >= MinAge THEN Positions ELSE {}]
      BY <1>3 DEF ListOpen
    <3>2. [v \in Positions |-> IF known THEN Stop0 ELSE None] \in [Positions -> {Stop0, None}]
      OBVIOUS
    <3> QED
      BY <1>1, <3>1, <3>2 DEF PassRec
  <2> QED
    BY <1>3, <2>1, FaultTyped DEF ListOpen, Types, dbVars, exVars
<1>4. CASE ListFails \/ PassDone
  BY <1>1, <1>4, FaultTyped, IdleIsPass DEF ListFails, PassDone, Types, dbVars, exVars, NoFault
<1>5. CASE Skip
  <2>1. pass' \in PassRec /\ pass'.pc = "scan"
    BY <1>1, <1>5 DEF Skip, PassRec
  <2> QED
    BY <1>5, <2>1 DEF Skip, Types, dbVars, exVars
<1>6. CASE Admit
  <2>1. pass' \in PassRec /\ pass'.todo # {}
    BY <1>1, <1>6 DEF Admit, PassRec
  <2> QED
    BY <1>6, <2>1, FaultTyped DEF Admit, Types, dbVars, exVars
<1>7. CASE Spawn
  <2>1. pass' \in PassRec /\ pass'.pc = "scan"
    BY <1>1, <1>7 DEF Spawn, PassRec
  <2> DEFINE q == [IdleJob EXCEPT !.pc = "decide", !.sl = pass.sl[Next1], !.blind = pass.blind]
  <2>2. ASSUME Next1 \in Positions PROVE q \in JobRec
    BY <1>1, <2>2, IdleIsJob DEF JobRec, PassRec
  <2>3. job' = [job EXCEPT ![Next1] = q]
    BY <1>7 DEF Spawn
  <2> HIDE DEF q
  <2>4. job' \in [Positions -> JobRec]
    BY <2>2, <2>3 DEF Types
  <2> QED
    BY <1>7, <2>1, <2>4 DEF Spawn, Types, dbVars, exVars
<1> QED
  BY <1>2, <1>3, <1>4, <1>5, <1>6, <1>7 DEF PassStep

LEMMA RowIsRecord == ASSUME Types, NEW v \in Positions PROVE Row(v) \in RowRec
<1>1. job[v] \in JobRec /\ pass \in PassRec /\ now \in Nat
  BY ExitAssumption DEF Types
<1>2. job[v].d.action \in Actions /\ job[v].d.price \in Prices \cup {None}
  BY <1>1, ProposalFields DEF JobRec
<1>3. pass.cfg.mode \in {"shadow", "active"}
  BY <1>1, ExitAssumption DEF PassRec
<1> QED
  BY <1>1, <1>2, <1>3 DEF Row, RowRec, JobRec

(* A goroutine goes to its next step, its call failed or not.              *)
LEMMA Stepped ==
  ASSUME Types, NEW v \in Positions, NEW pc \in {"cancel", "place", "record"}, To(v, pc)
  PROVE  /\ job' \in [Positions -> JobRec]
         /\ job'[v] = [job[v] EXCEPT !.pc = pc]
         /\ \A w \in Positions \ {v} : job'[w] = job[w]
<1>1. [job[v] EXCEPT !.pc = pc] \in JobRec
  BY DEF Types, JobRec
<1> QED
  BY <1>1 DEF To, Types

LEMMA StepFailed ==
  ASSUME Types, NEW v \in Positions, Failed(v)
  PROVE  /\ job' \in [Positions -> JobRec]
         /\ job'[v] = [job[v] EXCEPT !.pc = "record", !.err = TRUE]
         /\ \A w \in Positions \ {v} : job'[w] = job[w]
<1>1. [job[v] EXCEPT !.pc = "record", !.err = TRUE] \in JobRec
  BY DEF Types, JobRec
<1>2. job' = [job EXCEPT ![v] = [job[v] EXCEPT !.pc = "record", !.err = TRUE]]
  BY DEF Failed, Types
<1> QED
  BY <1>1, <1>2 DEF Types

LEMMA Ended ==
  ASSUME Types, NEW v \in Positions, EndJob(v)
  PROVE  /\ job' \in [Positions -> JobRec]
         /\ job'[v] = IdleJob
         /\ \A w \in Positions \ {v} : job'[w] = job[w]
BY IdleIsJob DEF EndJob, Types

(* The row of a decision is written.                                       *)
LEMMA Inserted ==
  ASSUME Types, NEW v \in Positions, Insert(v)
  PROVE  /\ job' \in [Positions -> JobRec]
         /\ \A w \in Positions \ {v} : job'[w] = job[w]
         /\ job'[v] = IF Acts(job[v].d) THEN [job[v] EXCEPT !.pc = "check", !.row = Len(rows) + 1]
                                       ELSE IdleJob
         /\ rows' \in Seq(RowRec) /\ Len(rows') = Len(rows) + 1 /\ Len(rows') <= MaxRows
         /\ rows'[Len(rows) + 1] = Row(v)
         /\ \A i \in 1..Len(rows) : rows'[i] = rows[i]
         /\ UNCHANGED <<cfg, st, pass, qty, stops, sent, now, faults>>
<1> DEFINE q == [job[v] EXCEPT !.pc = "check", !.row = Len(rows) + 1]
<1>1. Row(v) \in RowRec /\ rows \in Seq(RowRec) /\ Len(rows) \in Nat
  BY RowIsRecord DEF Types
<1>2. q \in JobRec
  <2>1. job[v] \in JobRec /\ Len(rows) + 1 \in Nat
    BY <1>1 DEF Types
  <2> QED
    BY <2>1 DEF JobRec
<1>3. Acts(job[v].d) => job' = [job EXCEPT ![v] = q]
  BY DEF Insert, Types
<1>4. ~Acts(job[v].d) => job' = [job EXCEPT ![v] = IdleJob]
  BY DEF Insert, EndJob
<1> HIDE DEF q
<1>5. /\ job' \in [Positions -> JobRec]
      /\ \A w \in Positions \ {v} : job'[w] = job[w]
      /\ job'[v] = IF Acts(job[v].d) THEN q ELSE IdleJob
  BY <1>2, <1>3, <1>4, IdleIsJob DEF Types
<1>6. /\ rows' = Append(rows, Row(v)) /\ Len(rows) < MaxRows
      /\ UNCHANGED <<cfg, st, pass, qty, stops, sent, now, faults>>
  BY DEF Insert, exVars, Room
<1>7. Len(rows) + 1 <= MaxRows
  BY <1>1, <1>6, ExitAssumption
<1> QED
  BY <1>1, <1>5, <1>6, <1>7 DEF q

(* A row gets its status; SetExecution may fail.                           *)
LEMMA StatusWritten ==
  ASSUME Types, NEW v \in Positions, Record(v), job[v].row \in 1..Len(rows)
  PROVE  /\ rows' \in Seq(RowRec) /\ Len(rows') = Len(rows)
         /\ \A i \in 1..Len(rows) :
              \/ rows'[i] = rows[i]
              \/ /\ i = job[v].row
                 /\ rows'[i] = [rows[i] EXCEPT !.status = IF job[v].err THEN "failed" ELSE "success"]
<1>1. CASE UNCHANGED rows
  BY <1>1 DEF Types
<1>2. CASE rows' = [rows EXCEPT ![job[v].row].status = IF job[v].err THEN "failed" ELSE "success"]
  <2> DEFINE n == job[v].row
             r == [rows[n] EXCEPT !.status = IF job[v].err THEN "failed" ELSE "success"]
  <2>1. rows \in Seq(RowRec) /\ rows[n] \in RowRec
    BY DEF Types
  <2>2. r \in RowRec
    BY <2>1 DEF RowRec
  <2>3. rows' = [rows EXCEPT ![n] = r]
    BY <1>2, <2>1
  <2> HIDE DEF n
  <2>4. n \in 1..Len(rows)
    BY DEF n
  <2> QED
    BY <2>1, <2>2, <2>3, <2>4 DEF n
<1> QED
  BY <1>1, <1>2 DEF Record

(* What a goroutine that executes a decision holds: its row, recorded in   *)
(* active mode and standing for the order it is about to place.            *)
HandedAt(v) ==
  /\ job[v].pc # "record" => job[v].err = FALSE
  /\ job[v].pc \in Executing =>
       LET r == rows[job[v].row] IN
         /\ job[v].row \in 1..Len(rows)
         /\ r.v = v /\ r.mode = "active"
         /\ r.action = job[v].d.action /\ r.price = job[v].d.price
         /\ job[v].d.action # "hold"
         /\ job[v].pc = "cancel" => job[v].d.action \in {"tighten_sl", "exit_now"}
         /\ job[v].pc \in {"cancel", "place"} /\ job[v].d.action = "tighten_sl" =>
              job[v].d.price # Stop0
Handed == \A v \in Positions : HandedAt(v)

(* What the order of a decision does to the exchange.                      *)
LEMMA Ordered ==
  ASSUME Types, NEW v \in Positions, job[v].d.action # "hold", Order(v)
  PROVE  /\ sent' = [sent EXCEPT ![job[v].row] = @ + 1]
         /\ \/ /\ job[v].d.action = "tighten_sl"
               /\ stops' = [stops EXCEPT ![v] = @ \cup {job[v].d.price}] /\ UNCHANGED qty
            \/ /\ job[v].d.action \in {"take_partial", "exit_now"} /\ UNCHANGED stops
               /\ \E k \in Int : /\ qty[v] - k \in 0..Lot /\ qty[v] - k <= qty[v]
                                 /\ qty' = [qty EXCEPT ![v] = @ - k]
<1>1. job[v].d \in Proposals
  BY DEF Types, JobRec
<1>2. CASE job[v].d.action = "tighten_sl"
  BY <1>2 DEF Order, PlaceStop
<1>3. ASSUME NEW n \in Nat, ReduceBy(v, n)
      PROVE  /\ UNCHANGED stops
             /\ \E k \in Int : /\ qty[v] - k \in 0..Lot /\ qty[v] - k <= qty[v]
                               /\ qty' = [qty EXCEPT ![v] = @ - k]
  <2>1. PICK k \in 0..MinOf(qty[v], n) : qty' = [qty EXCEPT ![v] = @ - k] /\ UNCHANGED stops
    BY <1>3 DEF ReduceBy
  <2>2. qty[v] \in 0..Lot
    BY DEF Types
  <2>3. qty[v] - k \in 0..Lot /\ qty[v] - k <= qty[v] /\ k \in Int
    BY <2>2, Reduced
  <2> QED
    BY <2>1, <2>3
<1>4. CASE job[v].d.action = "take_partial"
  <2>1. ReduceBy(v, Share(v)) /\ Share(v) \in Nat
    BY <1>1, <1>4, ProposalFields, ShareIsLots DEF Order, Share
  <2> QED
    BY <1>3, <1>4, <2>1 DEF Order
<1>5. CASE job[v].d.action = "exit_now"
  <2>1. ReduceBy(v, Lot) /\ Lot \in Nat
    BY <1>5, ExitAssumption DEF Order
  <2> QED
    BY <1>3, <1>5, <2>1 DEF Order
<1> QED
  BY <1>1, <1>2, <1>4, <1>5, ProposalFields DEF Actions, Order

LEMMA OneMore ==
  ASSUME NEW f \in [0..MaxRows -> Nat], NEW i PROVE [f EXCEPT ![i] = @ + 1] \in [0..MaxRows -> Nat]
<1>1. CASE i \in 0..MaxRows
  BY <1>1
<1>2. CASE i \notin 0..MaxRows
  BY <1>2
<1> QED
  BY <1>1, <1>2

LEMMA JobTypes ==
  ASSUME Types, Handed, NEW v \in Positions, JobStep(v) PROVE Types'
<1>1. job[v] \in JobRec
  BY DEF Types
<1>3. CASE Decide(v)
  <2>1. PICK d \in Proposals :
          job' = [job EXCEPT ![v].pc = "insert", ![v].d = IF Violates(v, d) THEN Hold ELSE d]
    BY <1>3 DEF Decide, Proposals
  <2>2. job' \in [Positions -> JobRec]
    BY <1>1, <2>1, HoldIsAnswer DEF Types, JobRec
  <2> QED
    BY <1>3, <2>2 DEF Decide, Types, dbVars, exVars
<1>4. CASE Insert(v)
  BY <1>4, Inserted DEF Types
<1>5. CASE InsertFails(v)
  BY <1>5, FaultTyped, Ended DEF InsertFails, Types, dbVars, exVars
<1>6. CASE CheckPosition(v)
  <2>1. job[v].d.action \in Actions \ {"hold"}
    BY <1>1, <1>6, ProposalFields DEF CheckPosition, Handed, HandedAt, Executing, JobRec
  <2>2. Failed(v) \/ To(v, "cancel") \/ To(v, "place")
    BY <1>6, <2>1 DEF CheckPosition, Actions
  <2>3. job' \in [Positions -> JobRec]
    BY <2>2, StepFailed, Stepped
  <2> QED
    BY <1>6, <2>3, FaultTyped DEF CheckPosition, Types, dbVars, exVars
<1>7. CASE CancelStep(v)
  <2>1. job' \in [Positions -> JobRec]
    BY <1>7, Stepped DEF CancelStep
  <2>2. stops' \in [Positions -> SUBSET (Prices \cup {Stop0})]
    BY <1>7 DEF CancelStep, CancelStop, Types
  <2> QED
    BY <1>7, <2>1, <2>2 DEF CancelStep, Types, dbVars
<1>8. CASE Place(v)
  <2>1. job' \in [Positions -> JobRec]
    BY <1>8, Stepped, StepFailed DEF Place
  <2>2. job[v].d \in Proposals /\ job[v].d.action # "hold"
    BY <1>1, <1>8 DEF JobRec, Place, Handed, HandedAt, Executing
  <2>3. ASSUME Order(v)
        PROVE  /\ stops' \in [Positions -> SUBSET (Prices \cup {Stop0})]
               /\ qty' \in [Positions -> 0..Lot]
               /\ sent' \in [0..MaxRows -> Nat]
    <3>3. sent' = [sent EXCEPT ![job[v].row] = @ + 1]
      BY <2>2, <2>3, Ordered
    <3>4. sent' \in [0..MaxRows -> Nat]
      BY <3>3, OneMore DEF Types
    <3>1. CASE /\ job[v].d.action = "tighten_sl"
               /\ stops' = [stops EXCEPT ![v] = @ \cup {job[v].d.price}] /\ UNCHANGED qty
      <4>1. job[v].d.price \in Prices
        BY <2>2, <3>1, ProposalFields
      <4>2. stops[v] \cup {job[v].d.price} \in SUBSET (Prices \cup {Stop0})
        BY <4>1 DEF Types
      <4>3. stops' \in [Positions -> SUBSET (Prices \cup {Stop0})]
        BY <3>1, <4>2 DEF Types
      <4> QED
        BY <3>1, <3>4, <4>3 DEF Types
    <3>2. ASSUME NEW k \in Int, qty[v] - k \in 0..Lot, UNCHANGED stops,
                 qty' = [qty EXCEPT ![v] = @ - k]
          PROVE  /\ stops' \in [Positions -> SUBSET (Prices \cup {Stop0})]
                 /\ qty' \in [Positions -> 0..Lot]
      BY <3>2 DEF Types
    <3> QED
      BY <2>2, <2>3, <3>1, <3>2, <3>4, Ordered
  <2> QED
    BY <1>8, <2>1, <2>3, FaultTyped DEF Place, Types, dbVars, exVars
<1>9. CASE Record(v)
  <2>1. job' \in [Positions -> JobRec]
    BY <1>9, Ended DEF Record
  <2>2. job[v].row \in 1..Len(rows)
    BY <1>9 DEF Record, Handed, HandedAt, Executing
  <2>3. rows' \in Seq(RowRec)
    BY <1>9, <2>2, StatusWritten
  <2> QED
    BY <1>9, <2>1, <2>3, FaultTyped DEF Record, Types, exVars
<1> QED
  BY <1>3, <1>4, <1>5, <1>6, <1>7, <1>8, <1>9 DEF JobStep

LEMMA EnvironmentTypes == ASSUME Types, Environment PROVE Types'
<1>1. CASE Tick
  BY <1>1, ExitAssumption DEF Tick, Types, dbVars, exVars
<1>2. CASE SaveSettings
  BY <1>2 DEF SaveSettings, Types, exVars
<1>3. CASE Crash
  BY <1>3, FaultTyped, IdleIsJob, IdleIsPass DEF Crash, Types, dbVars, exVars
<1>4. ASSUME NEW v \in Positions, StopTriggers(v) PROVE Types'
  <2>1. 0 \in 0..Lot
    BY ExitAssumption
  <2> QED
    BY <1>4, <2>1 DEF StopTriggers, Types, dbVars
<1>5. ASSUME NEW v \in Positions, ClosedElsewhere(v) PROVE Types'
  <2>1. 0 \in 0..Lot
    BY ExitAssumption
  <2> QED
    BY <1>5, <2>1 DEF ClosedElsewhere, Types
<1> QED
  BY <1>1, <1>2, <1>3, <1>4, <1>5 DEF Environment

LEMMA TypesKept == ASSUME Types, Handed, [Next]_vars PROVE Types'
<1>1. CASE UNCHANGED vars
  BY <1>1 DEF vars, Types
<1> QED
  BY <1>1, PassTypes, JobTypes, EnvironmentTypes DEF Next

----------------------------------------------------------------------------
(* What no step takes back.                                                *)

(* Rows stay, and only their status is ever written again.                 *)
SameDecision(q, r) ==
  /\ q.v = r.v /\ q.at = r.at /\ q.blind = r.blind
  /\ q.action = r.action /\ q.price = r.price /\ q.mode = r.mode
Grown ==
  /\ Len(rows) <= Len(rows')
  /\ \A i \in 1..Len(rows) : SameDecision(rows'[i], rows[i])

(* A position only shrinks, and a stop that a decision placed goes only    *)
(* with the position.                                                      *)
Forward ==
  \A v \in Positions :
    /\ qty'[v] <= qty[v]
    /\ qty'[v] = 0 \/ \A p \in stops[v] : p # Stop0 => p \in stops'[v]

LEMMA NothingWritten == ASSUME Types, UNCHANGED rows PROVE Grown
<1>1. Len(rows) \in Nat
  BY DEF Types
<1> QED
  BY <1>1 DEF Grown, SameDecision

LEMMA NothingTraded == ASSUME Types, UNCHANGED exVars PROVE Forward
<1>1. \A v \in Positions : qty[v] \in Nat
  BY ExitAssumption DEF Types
<1> QED
  BY <1>1 DEF Forward, exVars

LEMMA InsertGrows == ASSUME Types, NEW v \in Positions, Insert(v) PROVE Grown
<1>1. Len(rows) \in Nat
  BY DEF Types
<1>2. Len(rows') = Len(rows) + 1 /\ \A i \in 1..Len(rows) : rows'[i] = rows[i]
  BY Inserted
<1> QED
  BY <1>1, <1>2 DEF Grown, SameDecision

LEMMA RecordGrows ==
  ASSUME Types, Handed, NEW v \in Positions, Record(v) PROVE Grown
<1>1. Len(rows) \in Nat /\ \A i \in 1..Len(rows) : rows[i] \in RowRec
  BY DEF Types
<1>2. job[v].row \in 1..Len(rows)
  BY DEF Record, Handed, HandedAt, Executing
<1>3. \A r \in RowRec, s \in {"failed", "success"} : SameDecision([r EXCEPT !.status = s], r)
  BY DEF RowRec, SameDecision
<1>4. \A r \in RowRec : SameDecision(r, r)
  BY DEF SameDecision
<1>5. /\ Len(rows') = Len(rows)
      /\ \A i \in 1..Len(rows) :
           rows'[i] = rows[i] \/ \E s \in {"failed", "success"} : rows'[i] = [rows[i] EXCEPT !.status = s]
  BY <1>2, StatusWritten
<1>6. ASSUME NEW i \in 1..Len(rows) PROVE SameDecision(rows'[i], rows[i])
  <2>1. rows[i] \in RowRec
    BY <1>1
  <2>2. CASE rows'[i] = rows[i]
    BY <1>4, <2>1, <2>2
  <2>3. ASSUME NEW s \in {"failed", "success"}, rows'[i] = [rows[i] EXCEPT !.status = s]
        PROVE  SameDecision(rows'[i], rows[i])
    BY <1>3, <2>1, <2>3
  <2> QED
    BY <1>5, <2>2, <2>3
<1> QED
  BY <1>1, <1>5, <1>6 DEF Grown

LEMMA PlaceForward == ASSUME Types, Handed, NEW v \in Positions, Place(v) PROVE Forward
<1>1. job[v].d.action # "hold"
  BY DEF Place, Handed, HandedAt, Executing
<1>2. CASE UNCHANGED exVars
  BY <1>2, NothingTraded
<1>3. CASE Order(v)
  <2>1. \A w \in Positions : qty[w] \in 0..Lot /\ qty[w] \in Nat
    BY ExitAssumption DEF Types
  <2>2. CASE stops' = [stops EXCEPT ![v] = @ \cup {job[v].d.price}] /\ UNCHANGED qty
    BY <2>1, <2>2 DEF Forward, Types
  <2>3. ASSUME NEW k \in Int, qty[v] - k <= qty[v], qty' = [qty EXCEPT ![v] = @ - k],
               UNCHANGED stops
        PROVE Forward
    BY <2>1, <2>3 DEF Forward, Types
  <2> QED
    BY <1>1, <1>3, <2>2, <2>3, Ordered
<1> QED
  BY <1>2, <1>3 DEF Place

LEMMA CancelForward == ASSUME Types, NEW v \in Positions, CancelStep(v) PROVE Forward
<1>1. UNCHANGED qty /\ \A w \in Positions : qty[w] \in Nat
  BY ExitAssumption DEF Types, CancelStep
<1>2. \A w \in Positions : \A p \in stops[w] : p # Stop0 => p \in stops'[w]
  BY DEF CancelStep, CancelStop, Types
<1> QED
  BY <1>1, <1>2 DEF Forward

LEMMA GoneForward ==
  ASSUME Types, NEW v \in Positions, StopTriggers(v) \/ ClosedElsewhere(v) PROVE Forward
<1>1. \A w \in Positions : qty[w] \in Nat
  BY ExitAssumption DEF Types
<1>2. qty' = [qty EXCEPT ![v] = 0] /\ \A w \in Positions \ {v} : stops'[w] = stops[w]
  BY DEF StopTriggers, ClosedElsewhere, Types
<1> QED
  BY <1>1, <1>2 DEF Forward, Types

LEMMA NothingTakenBack ==
  ASSUME Types, Handed, [Next]_vars PROVE Grown /\ Forward
<1>1. CASE UNCHANGED vars
  BY <1>1, NothingWritten, NothingTraded DEF vars, exVars
<1>2. CASE RunOnce \/ PassStep
  BY <1>2, NothingWritten, NothingTraded
     DEF RunOnce, PassStep, ListOpen, ListFails, Skip, Admit, Spawn, PassDone, dbVars
<1>3. ASSUME NEW v \in Positions, JobStep(v) PROVE Grown /\ Forward
  <2>1. CASE Decide(v) \/ InsertFails(v) \/ CheckPosition(v)
    BY <2>1, NothingWritten, NothingTraded DEF Decide, InsertFails, CheckPosition, dbVars
  <2>2. CASE Insert(v)
    BY <2>2, InsertGrows, NothingTraded DEF Insert
  <2>3. CASE CancelStep(v)
    BY <2>3, NothingWritten, CancelForward DEF CancelStep, dbVars
  <2>4. CASE Place(v)
    BY <2>4, NothingWritten, PlaceForward DEF Place, dbVars
  <2>5. CASE Record(v)
    BY <2>5, RecordGrows, NothingTraded DEF Record
  <2> QED
    BY <1>3, <2>1, <2>2, <2>3, <2>4, <2>5 DEF JobStep
<1>4. CASE Environment
  <2>1. CASE Tick \/ SaveSettings \/ Crash
    BY <2>1, NothingWritten, NothingTraded DEF Tick, SaveSettings, Crash, dbVars
  <2>2. ASSUME NEW v \in Positions, StopTriggers(v) \/ ClosedElsewhere(v)
        PROVE Grown /\ Forward
    BY <2>2, NothingWritten, GoneForward DEF StopTriggers, ClosedElsewhere, dbVars
  <2> QED
    BY <1>4, <2>1, <2>2 DEF Environment
<1> QED
  BY <1>1, <1>2, <1>3, <1>4 DEF Next

----------------------------------------------------------------------------
(* What an executing goroutine holds.                                      *)

LEMMA HandedStart == ASSUME Init PROVE Handed
BY DEF Init, Handed, HandedAt, IdleJob, Executing

(* The goroutines that stay where they are, or stop executing.             *)
LEMMA HandedStays ==
  ASSUME Types, Handed, Grown, NEW w \in Positions,
         job'[w] = job[w] \/ (job'[w].pc \notin Executing /\ job'[w].err = FALSE)
  PROVE  HandedAt(w)'
<1>1. CASE job'[w].pc \notin Executing
  BY <1>1 DEF Handed, HandedAt
<1>2. CASE job'[w] = job[w] /\ job[w].pc \in Executing
  <2> DEFINE n == job[w].row
  <2>1. /\ n \in 1..Len(rows) /\ n \in 1..Len(rows')
        /\ SameDecision(rows'[n], rows[n])
    <3>1. Len(rows) \in Nat /\ n \in 1..Len(rows)
      BY <1>2 DEF Types, Handed, HandedAt
    <3>2. Len(rows) <= Len(rows') /\ SameDecision(rows'[n], rows[n])
      BY <3>1 DEF Grown
    <3>3. Len(rows') \in Nat
      BY DEF Types
    <3> QED
      BY <3>1, <3>2, <3>3
  <2> QED
    BY <1>2, <2>1 DEF Handed, HandedAt, SameDecision
<1> QED
  BY <1>1, <1>2

LEMMA IdleIsUnused == IdleJob.pc \notin Executing /\ IdleJob.err = FALSE
BY DEF IdleJob, Executing

LEMMA HandedKept ==
  ASSUME Types, Handed, Types', [Next]_vars PROVE Handed'
<1>1. Grown /\ \A r \in RowRec : SameDecision(r, r)
  BY NothingTakenBack DEF SameDecision
<1>2. ASSUME \A w \in Positions :
               job'[w] = job[w] \/ (job'[w].pc \notin Executing /\ job'[w].err = FALSE)
      PROVE  Handed'
  BY <1>1, <1>2, HandedStays DEF Handed
<1>3. CASE UNCHANGED vars \/ RunOnce \/ (PassStep /\ ~Spawn) \/ (Environment /\ ~Crash)
  <2>1. UNCHANGED job
    BY <1>3 DEF vars, RunOnce, PassStep, ListOpen, ListFails, Skip, Admit, PassDone,
                Environment, Tick, SaveSettings, StopTriggers, ClosedElsewhere
  <2> QED
    BY <1>2, <2>1
<1>4. CASE Spawn
  BY <1>2, <1>4 DEF Spawn, IdleJob, Types, Executing
<1>5. CASE Crash
  BY <1>2, <1>5 DEF Crash, IdleJob, Executing
<1>6. ASSUME NEW v \in Positions, JobStep(v) PROVE Handed'
  <2>1. job[v] \in JobRec /\ Len(rows) \in Nat
    BY DEF Types
  <2>2. ASSUME HandedAt(v)', \A w \in Positions \ {v} : job'[w] = job[w]
        PROVE  Handed'
    <3>1. \A w \in Positions \ {v} : HandedAt(w)'
      BY <1>1, <2>2, HandedStays
    <3> QED
      BY <2>2, <3>1 DEF Handed
  <2>3. CASE Decide(v)
    <3>1. job[v].err = FALSE
      BY <2>3 DEF Decide, Handed, HandedAt
    <3>2. \A w \in Positions : job'[w] = job[w] \/ (job'[w].pc = "insert" /\ job'[w].err = FALSE)
      BY <2>3, <3>1 DEF Decide, Types, JobRec
    <3> QED
      BY <1>2, <3>2 DEF Executing
  <2>4. CASE Insert(v)
    <3>1. job[v].pc = "insert" /\ job[v].pc \notin Executing
      BY <2>4 DEF Insert, Executing
    <3>2. CASE ~Acts(job[v].d)
      <4>1. job'[v] = IdleJob /\ \A w \in Positions \ {v} : job'[w] = job[w]
        BY <2>4, <3>2, Inserted
      <4> QED
        BY <1>2, <4>1, IdleIsUnused
    <3>3. CASE Acts(job[v].d)
      <4>1. /\ job'[v] = [job[v] EXCEPT !.pc = "check", !.row = Len(rows) + 1]
            /\ Len(rows') = Len(rows) + 1 /\ rows'[Len(rows) + 1] = Row(v)
            /\ \A w \in Positions \ {v} : job'[w] = job[w]
        BY <2>4, <3>3, Inserted
      <4>2. /\ job'[v].pc = "check" /\ job'[v].row = Len(rows) + 1
            /\ job'[v].d = job[v].d
        BY <2>1, <4>1 DEF JobRec
      <4>3. job'[v].err = FALSE
        BY <2>1, <3>1, <4>1 DEF JobRec, Handed, HandedAt
      <4>4. /\ Row(v).v = v /\ Row(v).mode = "active" /\ Row(v).action = job[v].d.action
            /\ Row(v).price = job[v].d.price /\ job[v].d.action # "hold"
        BY <3>3 DEF Row, Acts
      <4>5. HandedAt(v)'
        BY <2>1, <4>1, <4>2, <4>3, <4>4 DEF HandedAt
      <4> QED
        BY <2>2, <4>1, <4>5
    <3> QED
      BY <3>2, <3>3
  <2>5. CASE InsertFails(v) \/ Record(v)
    <3>1. job'[v] = IdleJob /\ \A w \in Positions \ {v} : job'[w] = job[w]
      BY <2>5, Ended DEF InsertFails, Record
    <3> QED
      BY <1>2, <3>1, IdleIsUnused
  <2>6. CASE CheckPosition(v) \/ CancelStep(v) \/ Place(v)
    <3>1. UNCHANGED rows /\ job[v].pc \in Executing /\ HandedAt(v)
      BY <2>6 DEF CheckPosition, CancelStep, Place, dbVars, Executing, Handed
    <3>2. job[v].d.action \in Actions \ {"hold"} /\ ~Tighter(v, Stop0, Stop0)
      BY <2>1, <3>1, ProposalFields, TighterDiffers, PriceIsNumber DEF HandedAt, JobRec
    <3>3. CASE Failed(v)
      <4>1. /\ job'[v].pc = "record" /\ job'[v].row = job[v].row /\ job'[v].d = job[v].d
            /\ \A w \in Positions \ {v} : job'[w] = job[w]
        BY <2>1, <3>3, StepFailed DEF JobRec
      <4>2. HandedAt(v)'
        BY <3>1, <4>1 DEF HandedAt
      <4> QED
        BY <2>2, <4>1, <4>2
    <3>4. ASSUME NEW pc \in {"cancel", "place", "record"}, To(v, pc), job[v].err = FALSE,
                 pc = "cancel" => job[v].d.action \in {"tighten_sl", "exit_now"},
                 pc \in {"cancel", "place"} /\ job[v].d.action = "tighten_sl" =>
                   job[v].d.price # Stop0
          PROVE  Handed'
      <4>1. /\ job'[v].pc = pc /\ job'[v].row = job[v].row /\ job'[v].d = job[v].d
            /\ job'[v].err = job[v].err
            /\ \A w \in Positions \ {v} : job'[w] = job[w]
        <5>1. /\ job'[v] = [job[v] EXCEPT !.pc = pc]
              /\ \A w \in Positions \ {v} : job'[w] = job[w]
          BY <3>4, Stepped
        <5> QED
          BY <2>1, <5>1 DEF JobRec
      <4>2. HandedAt(v)'
        BY <3>1, <3>4, <4>1 DEF HandedAt
      <4> QED
        BY <2>2, <4>1, <4>2
    <3>5. job[v].pc # "record" /\ job[v].err = FALSE
      BY <2>6, <3>1 DEF CheckPosition, CancelStep, Place, HandedAt
    <3>6. CASE CheckPosition(v)
      <4>1. \/ Failed(v)
            \/ /\ job[v].d.action = "tighten_sl" /\ To(v, "cancel")
               /\ Tighter(v, job[v].d.price, Stop0)
            \/ job[v].d.action = "take_partial" /\ To(v, "place")
            \/ job[v].d.action = "exit_now" /\ To(v, "cancel")
        BY <3>2, <3>6 DEF CheckPosition, Actions
      <4> QED
        BY <3>2, <3>3, <3>4, <3>5, <4>1
    <3>7. CASE CancelStep(v)
      BY <3>1, <3>4, <3>5, <3>7 DEF CancelStep, HandedAt
    <3>8. CASE Place(v)
      BY <3>3, <3>4, <3>5, <3>8 DEF Place
    <3> QED
      BY <2>6, <3>6, <3>7, <3>8
  <2> QED
    BY <1>6, <2>3, <2>4, <2>5, <2>6 DEF JobStep
<1> QED
  BY <1>3, <1>4, <1>5, <1>6 DEF Next, PassStep, Environment

----------------------------------------------------------------------------
LEMMA BaseStart == Init => Types /\ Handed
BY TypesStart, HandedStart

LEMMA BaseKept == Types /\ Handed /\ [Next]_vars => Types' /\ Handed'
BY TypesKept, HandedKept

LEMMA Based == Spec => [](Types /\ Handed)
BY BaseStart, BaseKept, PTL DEF Spec

(* TypeOK of the goroutines of RunOnce, the rows of agent_exit_decisions   *)
(* and the exchange: in particular the row a goroutine executes is one of  *)
(* its own position.                                                       *)
THEOREM ExitTyped == Spec => []TypeOK
<1>1. Types /\ Handed => TypeOK
  <2> SUFFICES ASSUME Types, Handed PROVE TypeOK
    OBVIOUS
  <2>1. /\ cfg \in Configs /\ sent \in [0..MaxRows -> Nat] /\ Len(rows) <= MaxRows
        /\ pass.pc \in {"idle", "list", "scan", "sem"} /\ pass.cfg \in Configs
        /\ pass.todo \subseteq Positions /\ (pass.pc = "sem" => pass.todo # {})
        /\ st \in [Positions -> {"open", "closed"}]
        /\ now \in 0..MaxTime /\ faults \in 0..MaxFaults
    BY DEF Types, PassRec
  <2>2. ASSUME NEW v \in Positions
        PROVE  /\ job[v].pc \in {"idle", "decide", "insert", "check", "cancel", "place", "record"}
               /\ job[v].d \in Answers
               /\ qty[v] \in 0..Lot /\ stops[v] \subseteq Prices \cup {Stop0}
    BY DEF Types, JobRec, Proposals
  <2>3. ASSUME NEW v \in Positions, job[v].pc \in Executing
        PROVE  job[v].row \in 1..Len(rows) /\ rows[job[v].row].v = v
    BY <2>3 DEF Handed, HandedAt
  <2> QED
    BY <2>1, <2>2, <2>3 DEF TypeOK, Executing
<1> QED
  BY <1>1, Based, PTL

----------------------------------------------------------------------------
(* Recorded: what the exchange shows has a row.                            *)

StopRecorded(v, p) ==
  \E i \in RowsOf(v) : /\ rows[i].action = "tighten_sl" /\ rows[i].price = p
                       /\ rows[i].mode = "active"

ClosedSome(v) == ActedOn(v, "take_partial") \/ ActedOn(v, "exit_now")

LEMMA RecordsStay ==
  ASSUME Types, Types', Grown, NEW v \in Positions
  PROVE  /\ \A p \in Prices \cup {Stop0} : StopRecorded(v, p) => StopRecorded(v, p)'
         /\ ClosedSome(v) => ClosedSome(v)'
<1>1. \A i \in RowsOf(v) : i \in RowsOf(v)' /\ SameDecision(rows'[i], rows[i])
  BY DEF Types, RowsOf, Grown, SameDecision
<1> QED
  BY <1>1 DEF StopRecorded, ClosedSome, ActedOn, SameDecision

(* The row of the goroutine that is about to place an order.               *)
LEMMA HandedRecords ==
  ASSUME Handed, NEW v \in Positions, job[v].pc \in Executing
  PROVE  /\ job[v].d.action = "tighten_sl" => StopRecorded(v, job[v].d.price)
         /\ job[v].d.action \in {"take_partial", "exit_now"} => ClosedSome(v)
<1>1. HandedAt(v)
  BY DEF Handed
<1>2. job[v].row \in RowsOf(v)
  BY <1>1 DEF HandedAt, RowsOf
<1> QED
  BY <1>1, <1>2 DEF HandedAt, StopRecorded, ClosedSome, ActedOn

LEMMA RecordedFollows ==
  ASSUME Types, Types', Recorded, Grown,
         \A v \in Positions : \A p \in stops'[v] \ {Stop0} : p \in stops[v] \/ StopRecorded(v, p),
         \A v \in Positions : qty'[v] \in 1..(Lot - 1) =>
                              qty'[v] = qty[v] \/ ClosedSome(v)
  PROVE  Recorded'
<1>1. ASSUME NEW v \in Positions, NEW p \in stops'[v] \ {Stop0} PROVE StopRecorded(v, p)'
  <2>1. p \in Prices \cup {Stop0}
    BY DEF Types
  <2>2. StopRecorded(v, p)
    BY DEF Recorded, StopRecorded
  <2> QED
    BY <2>1, <2>2, RecordsStay
<1>2. ASSUME NEW v \in Positions, qty'[v] \in 1..(Lot - 1) PROVE ClosedSome(v)'
  BY <1>2, RecordsStay DEF Recorded, ClosedSome
<1> QED
  BY <1>1, <1>2 DEF Recorded, StopRecorded, ClosedSome

LEMMA RecordedKept ==
  ASSUME Types, Handed, Types', Recorded, [Next]_vars PROVE Recorded'
<1>1. Grown
  BY NothingTakenBack
<1>2. ASSUME \A w \in Positions : stops'[w] \subseteq stops[w] /\ (qty'[w] = qty[w] \/ qty'[w] = 0)
      PROVE  Recorded'
  BY <1>1, <1>2, RecordedFollows
<1>3. CASE UNCHANGED exVars
  BY <1>2, <1>3 DEF exVars
<1>4. CASE UNCHANGED vars \/ RunOnce \/ PassStep
  BY <1>3, <1>4 DEF vars, RunOnce, PassStep, ListOpen, ListFails, Skip, Admit, Spawn,
                    PassDone, exVars
<1>5. ASSUME NEW v \in Positions, JobStep(v) PROVE Recorded'
  <2>1. CASE Decide(v) \/ Insert(v) \/ InsertFails(v) \/ CheckPosition(v) \/ Record(v)
    BY <1>3, <2>1 DEF Decide, Insert, InsertFails, CheckPosition, Record
  <2>2. CASE CancelStep(v)
    BY <1>2, <2>2 DEF CancelStep, CancelStop, Types
  <2>3. CASE Place(v) /\ Order(v)
    <3>1. job[v].pc \in Executing /\ job[v].d.action # "hold"
      BY <2>3 DEF Place, Handed, HandedAt, Executing
    <3>2. CASE /\ job[v].d.action = "tighten_sl"
               /\ stops' = [stops EXCEPT ![v] = @ \cup {job[v].d.price}] /\ UNCHANGED qty
      <4>1. StopRecorded(v, job[v].d.price)
        BY <3>1, <3>2, HandedRecords
      <4> QED
        BY <1>1, <3>2, <4>1, RecordedFollows DEF Types
    <3>3. ASSUME NEW k \in Int, qty' = [qty EXCEPT ![v] = @ - k], UNCHANGED stops,
                 job[v].d.action \in {"take_partial", "exit_now"}
          PROVE  Recorded'
      <4>1. ClosedSome(v)
        BY <3>1, <3>3, HandedRecords
      <4>2. \A w \in Positions \ {v} : qty'[w] = qty[w]
        BY <3>3 DEF Types
      <4> QED
        BY <1>1, <3>3, <4>1, <4>2, RecordedFollows
    <3> QED
      BY <2>3, <3>1, <3>2, <3>3, Ordered
  <2> QED
    BY <1>3, <1>5, <2>1, <2>2, <2>3 DEF JobStep, Place
<1>6. CASE Environment
  <2>1. CASE Tick \/ SaveSettings \/ Crash
    BY <1>3, <2>1 DEF Tick, SaveSettings, Crash
  <2>2. ASSUME NEW v \in Positions, StopTriggers(v) \/ ClosedElsewhere(v) PROVE Recorded'
    BY <1>2, <2>2 DEF StopTriggers, ClosedElsewhere, Types
  <2> QED
    BY <1>6, <2>1, <2>2 DEF Environment
<1> QED
  BY <1>4, <1>5, <1>6 DEF Next

(* The row of a decision is written before its order goes out, so whatever *)
(* fails or crashes afterwards, a stop or a partial close that the agent   *)
(* left on the exchange is in agent_exit_decisions.                        *)
THEOREM ExitRecorded == Spec => []Recorded
<1>1. Init => Recorded
  BY ExitAssumption DEF Init, Recorded
<1>2. Types /\ Handed /\ Types' /\ Recorded /\ [Next]_vars => Recorded'
  BY RecordedKept
<1> QED
  BY <1>1, <1>2, Based, PTL DEF Spec

----------------------------------------------------------------------------
(* OrderedOnce: a decision is ordered at most once, and 'success' is       *)
(* written of an order that was accepted.                                  *)

(* A stop that a row stands for is on the exchange, or the position is     *)
(* gone.  A stop at the price of the original one would be taken for it by *)
(* a cancel.                                                               *)
StopStands(r, S, Q) ==
  r.action = "tighten_sl" => r.price # Stop0 /\ (r.price \in S[r.v] \/ Q[r.v] = 0)

(* The orders that went out are those of recorded active decisions.        *)
SentRow(i) ==
  /\ sent[i] \in {0, 1}
  /\ sent[i] = 1 => /\ i \in 1..Len(rows)
                    /\ rows[i].mode = "active" /\ rows[i].action # "hold"
Sent == \A i \in 0..MaxRows : SentRow(i)
(* A goroutine has not ordered yet, or has and was told so.                *)
UnsentAt(v) ==
  /\ job[v].pc \in {"check", "cancel", "place"} => sent[job[v].row] = 0
  /\ job[v].pc = "record" /\ job[v].err = FALSE =>
       sent[job[v].row] = 1 /\ StopStands(rows[job[v].row], stops, qty)
Unsent == \A v \in Positions : UnsentAt(v)
Told ==
  \A i \in 1..Len(rows) :
    rows[i].status = "success" => sent[i] = 1 /\ StopStands(rows[i], stops, qty)

LEMMA StopStays ==
  ASSUME Types, Types', Forward, NEW r \in RowRec, NEW q \in RowRec, SameDecision(q, r),
         StopStands(r, stops, qty)
  PROVE  StopStands(q, stops', qty')
<1>1. r.v \in Positions
  BY DEF RowRec
<1>2. /\ qty[r.v] \in Nat /\ qty'[r.v] \in Nat /\ qty'[r.v] <= qty[r.v]
      /\ qty'[r.v] = 0 \/ \A p \in stops[r.v] : p # Stop0 => p \in stops'[r.v]
  BY <1>1, ExitAssumption DEF Types, Forward
<1> QED
  BY <1>2 DEF StopStands, SameDecision

(* The rows as they were keep what is said of them.                        *)
LEMMA RowKeeps ==
  ASSUME Types, Types', Handed, [Next]_vars, NEW i \in 1..Len(rows)
  PROVE  /\ i \in 1..Len(rows') /\ i \in 0..MaxRows /\ SameDecision(rows'[i], rows[i])
         /\ StopStands(rows[i], stops, qty) => StopStands(rows'[i], stops', qty')
<1>1. Grown /\ Forward
  BY NothingTakenBack
<1>2. Len(rows) \in Nat /\ Len(rows') \in Nat /\ Len(rows) <= MaxRows /\ MaxRows \in Nat
  BY ExitAssumption DEF Types
<1>3. i \in 1..Len(rows') /\ i \in 0..MaxRows /\ SameDecision(rows'[i], rows[i])
  BY <1>1, <1>2 DEF Grown
<1>4. rows[i] \in RowRec /\ rows'[i] \in RowRec
  BY <1>3 DEF Types
<1> QED
  BY <1>1, <1>3, <1>4, StopStays

LEMMA SentStays ==
  ASSUME Types, Types', Handed, [Next]_vars, NEW i \in 0..MaxRows, sent'[i] = sent[i], SentRow(i)
  PROVE  SentRow(i)'
BY RowKeeps DEF SentRow, SameDecision

(* A goroutine that stays where it is, or does not execute.                *)
LEMMA UnsentStays ==
  ASSUME Types, Types', Handed, [Next]_vars, Unsent, NEW w \in Positions,
         \/ job'[w].pc \notin Executing
         \/ job'[w].pc = "record" /\ job'[w].err = TRUE
         \/ job'[w] = job[w] /\ (job[w].pc \in Executing => sent'[job[w].row] = sent[job[w].row])
  PROVE  UnsentAt(w)'
<1>1. CASE job'[w].pc \notin Executing \/ (job'[w].pc = "record" /\ job'[w].err = TRUE)
  BY <1>1 DEF UnsentAt, Executing
<1>2. CASE job'[w] = job[w] /\ job[w].pc \in Executing /\ sent'[job[w].row] = sent[job[w].row]
  <2>1. job[w].row \in 1..Len(rows)
    BY <1>2 DEF Handed, HandedAt
  <2>2. StopStands(rows[job[w].row], stops, qty) => StopStands(rows'[job[w].row], stops', qty')
    BY <2>1, RowKeeps
  <2> QED
    BY <1>2, <2>2 DEF Unsent, UnsentAt
<1> QED
  BY <1>1, <1>2

LEMMA ToldStays ==
  ASSUME Types, Types', Handed, [Next]_vars, Told,
         \A i \in 1..Len(rows) : sent[i] = 1 => sent'[i] = 1,
         \A i \in 1..Len(rows') : rows'[i].status = "success" =>
           i \in 1..Len(rows) /\ sent[i] = 1 /\ StopStands(rows[i], stops, qty)
  PROVE  Told'
BY RowKeeps DEF Told

(* A step that places no order and writes no row.                          *)
LEMMA NothingSent ==
  ASSUME Types, Types', Handed, [Next]_vars, Sent, Unsent, Told,
         UNCHANGED <<rows, sent>>,
         \A w \in Positions : \/ job'[w] = job[w] \/ job'[w].pc \notin Executing
                              \/ job'[w].pc = "record" /\ job'[w].err = TRUE
  PROVE  Sent' /\ Unsent' /\ Told'
<1>1. Sent'
  BY SentStays DEF Sent
<1>2. Unsent'
  BY UnsentStays DEF Unsent
<1>3. Told'
  BY ToldStays DEF Told
<1> QED
  BY <1>1, <1>2, <1>3

(* The exchange accepts the order of a goroutine, which may not be told.   *)
LEMMA OrderSent ==
  ASSUME Types, Types', Handed, Sent, Unsent, Told, NEW v \in Positions, Place(v), Order(v)
  PROVE  Sent' /\ Unsent' /\ Told'
<1>0. PICK n : n = job[v].row
  OBVIOUS
<1>1. /\ HandedAt(v) /\ job[v].pc = "place" /\ job[v].pc \in Executing /\ job[v] \in JobRec
      /\ n \in 1..Len(rows) /\ rows[n].v = v /\ rows[n].mode = "active"
      /\ rows[n].action = job[v].d.action /\ rows[n].price = job[v].d.price
      /\ job[v].d.action # "hold"
      /\ job[v].d.action = "tighten_sl" => job[v].d.price # Stop0
      /\ sent[n] = 0 /\ job[v].err = FALSE
  <2>1. HandedAt(v) /\ UnsentAt(v) /\ job[v].pc = "place" /\ job[v].pc \in Executing
    BY DEF Handed, Unsent, Place, Executing
  <2>2. job[v] \in JobRec
    BY DEF Types
  <2> QED
    BY <1>0, <2>1, <2>2 DEF HandedAt, UnsentAt
<1>2. /\ [Next]_vars /\ UNCHANGED rows
      /\ sent' = [sent EXCEPT ![n] = @ + 1]
      /\ \/ /\ job[v].d.action = "tighten_sl"
            /\ stops' = [stops EXCEPT ![v] = @ \cup {job[v].d.price}]
         \/ job[v].d.action # "tighten_sl"
  BY <1>0, <1>1, Ordered DEF Next, JobStep, Place, dbVars
<1>3. n \in 0..MaxRows /\ sent'[n] = 1 /\ \A i \in (0..MaxRows) \ {n} : sent'[i] = sent[i]
  <2>1. n \in 0..MaxRows
    BY <1>1, <1>2, RowKeeps
  <2> QED
    BY <1>1, <1>2, <2>1 DEF Types
<1>4. StopStands(rows'[n], stops', qty')
  BY <1>1, <1>2 DEF StopStands, Types
<1>5. \/ job'[v] = [job[v] EXCEPT !.pc = "record"]
      \/ job'[v] = [job[v] EXCEPT !.pc = "record", !.err = TRUE]
  BY Stepped, StepFailed DEF Place
<1>6. /\ job'[v].pc = "record" /\ job'[v].row = n
      /\ \A w \in Positions \ {v} : job'[w] = job[w]
  BY <1>0, <1>1, <1>5, Stepped, StepFailed DEF Place, JobRec
<1>7. Sent'
  <2>1. SentRow(n)'
    BY <1>1, <1>2, <1>3 DEF SentRow
  <2>2. \A i \in (0..MaxRows) \ {n} : SentRow(i)'
    BY <1>2, <1>3, SentStays DEF Sent
  <2> QED
    BY <2>1, <2>2 DEF Sent
<1>8. Unsent'
  <2>1. UnsentAt(v)'
    BY <1>3, <1>4, <1>6 DEF UnsentAt
  <2>2. ASSUME NEW w \in Positions \ {v} PROVE UnsentAt(w)'
    <3>1. CASE job[w].pc \in Executing
      <4>1. job[w].row \in 1..Len(rows) /\ rows[job[w].row].v = w
        BY <3>1 DEF Handed, HandedAt
      <4>2. job[w].row # n /\ job[w].row \in 0..MaxRows
        BY <1>1, <1>2, <4>1, RowKeeps
      <4> QED
        BY <1>2, <1>3, <1>6, <4>2, UnsentStays
    <3>2. CASE job[w].pc \notin Executing
      BY <1>2, <1>6, <3>2, UnsentStays
    <3> QED
      BY <3>1, <3>2
  <2> QED
    BY <2>1, <2>2 DEF Unsent
<1>9. Told'
  <2>1. \A i \in 1..Len(rows) : i \in 0..MaxRows
    BY <1>2, RowKeeps
  <2> QED
    BY <1>2, <1>3, <2>1, ToldStays DEF Told
<1> QED
  BY <1>7, <1>8, <1>9

(* A row is written, or its status.                                        *)
LEMMA InsertSends ==
  ASSUME Types, Types', Handed, Sent, Unsent, Told, NEW v \in Positions, Insert(v)
  PROVE  Sent' /\ Unsent' /\ Told'
<1>1. /\ \A w \in Positions \ {v} : job'[w] = job[w]
      /\ job'[v] = IF Acts(job[v].d) THEN [job[v] EXCEPT !.pc = "check", !.row = Len(rows) + 1]
                                    ELSE IdleJob
      /\ Len(rows') = Len(rows) + 1 /\ Len(rows') <= MaxRows
      /\ rows'[Len(rows) + 1] = Row(v)
      /\ \A i \in 1..Len(rows) : rows'[i] = rows[i]
      /\ UNCHANGED <<stops, qty, sent>>
  BY Inserted
<1>2. [Next]_vars /\ Len(rows) \in Nat /\ job[v] \in JobRec /\ MaxRows \in Nat
  BY ExitAssumption DEF Next, JobStep, Types
<1>3. Sent'
  BY <1>1, <1>2, SentStays DEF Sent
<1>4. sent[Len(rows) + 1] = 0
  <2>1. Len(rows) + 1 \in 0..MaxRows /\ Len(rows) + 1 \notin 1..Len(rows)
    BY <1>1, <1>2
  <2> QED
    BY <2>1 DEF Sent, SentRow
<1>5. UnsentAt(v)'
  <2>1. CASE Acts(job[v].d)
    <3>1. job'[v].pc = "check" /\ job'[v].row = Len(rows) + 1
      BY <1>1, <1>2, <2>1 DEF JobRec
    <3> QED
      BY <1>1, <1>4, <3>1 DEF UnsentAt
  <2>2. CASE ~Acts(job[v].d)
    BY <1>1, <2>2 DEF UnsentAt, IdleJob
  <2> QED
    BY <2>1, <2>2
<1>6. Unsent'
  <2>1. \A w \in Positions \ {v} : UnsentAt(w)'
    BY <1>1, <1>2, UnsentStays
  <2> QED
    BY <1>5, <2>1 DEF Unsent
<1>7. \A i \in 1..Len(rows') : rows'[i].status = "success" => i \in 1..Len(rows)
  BY <1>1, <1>2 DEF Row
<1>8. Told'
  BY <1>1, <1>2, <1>7, ToldStays DEF Told
<1> QED
  BY <1>3, <1>6, <1>8

LEMMA RecordTells ==
  ASSUME Types, Types', Handed, Sent, Unsent, Told, NEW v \in Positions, Record(v)
  PROVE  Sent' /\ Unsent' /\ Told'
<1>1. /\ job'[v] = IdleJob /\ \A w \in Positions \ {v} : job'[w] = job[w]
      /\ [Next]_vars /\ UNCHANGED exVars
  BY Ended DEF Record, Next, JobStep
<1>2. Sent'
  BY <1>1, SentStays DEF Sent, exVars
<1>3. Unsent'
  BY <1>1, IdleIsUnused, UnsentStays DEF Unsent, exVars
<1>4. /\ job[v].pc = "record" /\ job[v].row \in 1..Len(rows)
      /\ job[v].err \in BOOLEAN
  BY DEF Record, Handed, HandedAt, Executing, Types, JobRec
<1>5. ASSUME NEW i \in 1..Len(rows'), rows'[i].status = "success"
      PROVE  i \in 1..Len(rows) /\ sent[i] = 1 /\ StopStands(rows[i], stops, qty)
  <2>1. i \in 1..Len(rows) /\ rows[i] \in RowRec
    BY <1>4, StatusWritten DEF Types
  <2>2. CASE rows'[i] = rows[i]
    BY <1>5, <2>1, <2>2 DEF Told
  <2>3. CASE /\ i = job[v].row
             /\ rows'[i] = [rows[i] EXCEPT !.status = IF job[v].err THEN "failed" ELSE "success"]
    <3>1. job[v].err = FALSE
      BY <1>4, <1>5, <2>1, <2>3 DEF RowRec
    <3> QED
      BY <1>4, <2>1, <2>3, <3>1 DEF Unsent, UnsentAt
  <2> QED
    BY <1>4, <2>1, <2>2, <2>3, StatusWritten
<1>6. Told'
  BY <1>1, <1>5, ToldStays DEF exVars
<1> QED
  BY <1>2, <1>3, <1>6

LEMMA SentKept ==
  ASSUME Types, Handed, Types', Sent, Unsent, Told, [Next]_vars
  PROVE  Sent' /\ Unsent' /\ Told'
<1>1. CASE UNCHANGED vars \/ RunOnce \/ (PassStep /\ ~Spawn) \/ (Environment /\ ~Crash)
  <2>1. UNCHANGED <<job, rows, sent>>
    BY <1>1 DEF vars, RunOnce, PassStep, ListOpen, ListFails, Skip, Admit, PassDone, dbVars,
                exVars, Environment, Tick, SaveSettings, StopTriggers, ClosedElsewhere
  <2> QED
    BY <2>1, NothingSent
<1>2. CASE Spawn
  <2>1. \A w \in Positions : job'[w] = job[w] \/ job'[w].pc = "decide"
    BY <1>2 DEF Spawn, IdleJob, Types
  <2> QED
    BY <1>2, <2>1, NothingSent DEF Spawn, dbVars, exVars, Executing
<1>3. CASE Crash
  BY <1>3, NothingSent, IdleIsUnused DEF Crash, dbVars, exVars
<1>4. ASSUME NEW v \in Positions, JobStep(v) PROVE Sent' /\ Unsent' /\ Told'
  <2>1. CASE Decide(v)
    <3>1. \A w \in Positions : job'[w] = job[w] \/ job'[w].pc = "insert"
      BY <2>1 DEF Decide, Types, JobRec
    <3> QED
      BY <2>1, <3>1, NothingSent DEF Decide, dbVars, exVars, Executing
  <2>2. CASE Insert(v)
    BY <2>2, InsertSends
  <2>3. CASE InsertFails(v)
    BY <2>3, NothingSent, Ended, IdleIsUnused DEF InsertFails, dbVars, exVars
  <2>4. ASSUME Failed(v), UNCHANGED <<rows, sent>> PROVE Sent' /\ Unsent' /\ Told'
    <3>1. /\ job'[v].pc = "record" /\ job'[v].err = TRUE
          /\ \A w \in Positions \ {v} : job'[w] = job[w]
      <4>1. /\ job'[v] = [job[v] EXCEPT !.pc = "record", !.err = TRUE] /\ job[v] \in JobRec
            /\ \A w \in Positions \ {v} : job'[w] = job[w]
        BY <2>4, StepFailed DEF Types
      <4> QED
        BY <4>1 DEF JobRec
    <3> QED
      BY <2>4, <3>1, NothingSent
  <2>5. ASSUME NEW pc \in {"cancel", "place"}, To(v, pc), UNCHANGED <<rows, sent>>,
               job[v].pc \in {"check", "cancel"}
        PROVE  Sent' /\ Unsent' /\ Told'
    <3>1. /\ job'[v].pc = pc /\ job'[v].row = job[v].row
          /\ \A w \in Positions \ {v} : job'[w] = job[w]
      <4>1. /\ job'[v] = [job[v] EXCEPT !.pc = pc] /\ job[v] \in JobRec
            /\ \A w \in Positions \ {v} : job'[w] = job[w]
        BY <2>5, Stepped DEF Types
      <4> QED
        BY <4>1 DEF JobRec
    <3>2. UnsentAt(v)'
      BY <2>5, <3>1 DEF Unsent, UnsentAt
    <3>3. \A w \in Positions \ {v} : UnsentAt(w)'
      BY <2>5, <3>1, UnsentStays
    <3>4. Sent' /\ Told'
      BY <2>5, SentStays, ToldStays DEF Sent, Told
    <3> QED
      BY <3>2, <3>3, <3>4 DEF Unsent
  <2>6. CASE CheckPosition(v)
    <3>1. job[v].d.action \in Actions \ {"hold"}
      BY <2>6, ProposalFields DEF CheckPosition, Handed, HandedAt, Executing, Types, JobRec
    <3>2. Failed(v) \/ To(v, "cancel") \/ To(v, "place")
      BY <2>6, <3>1 DEF CheckPosition, Actions
    <3> QED
      BY <2>4, <2>5, <2>6, <3>2 DEF CheckPosition, dbVars, exVars
  <2>7. CASE CancelStep(v)
    BY <2>5, <2>7 DEF CancelStep, dbVars
  <2>8. CASE Place(v)
    <3>1. CASE Order(v)
      BY <2>8, <3>1, OrderSent
    <3>2. CASE ~Order(v)
      BY <2>4, <2>8, <3>2 DEF Place, dbVars, exVars
    <3> QED
      BY <3>1, <3>2
  <2>9. CASE Record(v)
    BY <2>9, RecordTells
  <2> QED
    BY <1>4, <2>1, <2>2, <2>3, <2>6, <2>7, <2>8, <2>9 DEF JobStep
<1> QED
  BY <1>1, <1>2, <1>3, <1>4 DEF Next, PassStep, Environment

(* No decision of the exit agent is ordered twice or without its row, and  *)
(* 'success' means that the exchange accepted the order: the goroutine     *)
(* that holds the row is the only one that orders for it, and it leaves    *)
(* the row behind when it has.  That the order was filled, 'success' does  *)
(* not say.                                                                *)
THEOREM ExitOrderedOnce == Spec => []OrderedOnce
<1>1. Init => Sent /\ Unsent /\ Told
  BY DEF Init, Sent, SentRow, Unsent, UnsentAt, Told, IdleJob
<1>2. Types /\ Handed /\ Types' /\ Sent /\ Unsent /\ Told /\ [Next]_vars => Sent' /\ Unsent' /\ Told'
  BY SentKept
<1>3. Types /\ Sent /\ Told => OrderedOnce
  <2> SUFFICES ASSUME Types, Sent, Told PROVE OrderedOnce
    OBVIOUS
  <2>1. MaxRows \in Nat /\ Len(rows) \in Nat
    BY ExitAssumption DEF Types
  <2>2. sent[0] = 0
    BY <2>1 DEF Sent, SentRow
  <2>3. ASSUME NEW i \in 1..MaxRows, sent[i] > 0
        PROVE  sent[i] = 1 /\ i <= Len(rows) /\ rows[i].mode = "active" /\ rows[i].action # "hold"
    BY <2>1, <2>3 DEF Sent, SentRow
  <2> QED
    BY <2>2, <2>3 DEF OrderedOnce, Told, StopStands
<1> QED
  BY <1>1, <1>2, <1>3, Based, PTL DEF Spec

----------------------------------------------------------------------------
(* DecisionsApart: no decision inside the cooldown of another.             *)

(* At time t every decision for v in the table R is a cooldown old.        *)
Rested(R, v, t) == \A i \in 1..Len(R) : R[i].v = v => t - R[i].at >= Cooldown

(* From the look at the cooldown to the INSERT no decision for the         *)
(* position comes in between: the pass waits with it at the semaphore,     *)
(* and its goroutine is the only one that writes rows of it.               *)
AtSemaphore ==
  pass.pc = "sem" =>
    /\ pass.blind = FALSE => Rested(rows, Next1, now)
    /\ Next1 \in Positions => job[Next1].pc = "idle"
AtWork ==
  \A v \in Positions :
    job[v].pc \in {"decide", "insert"} /\ job[v].blind = FALSE => Rested(rows, v, now)

LEMMA Times ==
  ASSUME Types
  PROVE  /\ now \in Nat /\ Cooldown \in Nat /\ Len(rows) \in Nat
         /\ \A i \in 1..Len(rows) : rows[i] \in RowRec /\ rows[i].at \in Nat
<1>1. \A i \in 1..Len(rows) : rows[i] \in RowRec
  BY DEF Types
<1>2. \A r \in RowRec : r.at \in Nat
  BY DEF RowRec
<1> QED
  BY <1>1, <1>2, ExitAssumption DEF Types

LEMMA NotCoolIsRested == ASSUME Types, NEW v, ~Cool(v) PROVE Rested(rows, v, now)
BY Times DEF Rested, Cool, RowsOf

LEMMA RestStays ==
  ASSUME Types, Types', Grown, now' >= now, NEW v, Rested(rows, v, now),
         \/ Len(rows') = Len(rows)
         \/ Len(rows') = Len(rows) + 1 /\ rows'[Len(rows) + 1].v # v
  PROVE  Rested(rows', v, now')
<1>1. /\ now \in Nat /\ Cooldown \in Nat /\ Len(rows) \in Nat /\ now' \in Nat
      /\ \A i \in 1..Len(rows) : rows[i].at \in Nat /\ SameDecision(rows'[i], rows[i])
  <2>1. now' \in Nat
    BY ExitAssumption DEF Types
  <2> QED
    BY <2>1, Times DEF Grown
<1> SUFFICES ASSUME NEW i \in 1..Len(rows'), rows'[i].v = v PROVE now' - rows'[i].at >= Cooldown
  BY DEF Rested
<1>2. i \in 1..Len(rows)
  BY <1>1
<1> QED
  BY <1>1, <1>2 DEF Rested, SameDecision

LEMMA TimePasses == ASSUME Types, [Next]_vars PROVE now' >= now
<1>1. now \in Nat
  BY Times
<1>2. now' = now \/ now' = now + 1
  BY DEF Next, vars, RunOnce, PassStep, ListOpen, ListFails, Skip, Admit, Spawn, PassDone,
         JobStep, Decide, Insert, InsertFails, CheckPosition, CancelStep, Place, Record,
         Environment, Tick, SaveSettings, StopTriggers, ClosedElsewhere, Crash
<1> QED
  BY <1>1, <1>2

(* A step of a goroutine leaves the others, and its own blindness.         *)
LEMMA OneMoves ==
  ASSUME Types, Handed, NEW v \in Positions, JobStep(v)
  PROVE  /\ \A w \in Positions \ {v} : job'[w] = job[w]
         /\ job[v].pc # "idle" /\ UNCHANGED <<pass, now>>
         /\ job'[v].pc \in {"decide", "insert"} =>
              /\ job[v].pc \in {"decide", "insert"} /\ job'[v].blind = job[v].blind
              /\ UNCHANGED rows
<1>1. job[v] \in JobRec
  BY DEF Types
<1>2. CASE Decide(v)
  BY <1>1, <1>2 DEF Decide, JobRec, Types, dbVars
<1>3. CASE Insert(v)
  <2>1. job'[v].pc \notin {"decide", "insert"}
    BY <1>1, <1>3, Inserted, IdleIsJob DEF JobRec
  <2> QED
    BY <1>3, <2>1, Inserted DEF Insert
<1>4. CASE InsertFails(v)
  BY <1>4, Ended, IdleIsJob DEF InsertFails
<1>5. CASE Record(v)
  BY <1>5, Ended, IdleIsJob DEF Record
<1>6. ASSUME NEW pc \in {"cancel", "place", "record"}, To(v, pc)
      PROVE  /\ job'[v].pc = pc /\ \A w \in Positions \ {v} : job'[w] = job[w]
  BY <1>1, <1>6, Stepped DEF JobRec
<1>7. ASSUME Failed(v)
      PROVE  /\ job'[v].pc = "record" /\ \A w \in Positions \ {v} : job'[w] = job[w]
  BY <1>1, <1>7, StepFailed DEF JobRec
<1>8. CASE CheckPosition(v)
  <2>1. job[v].d.action \in Actions \ {"hold"}
    BY <1>1, <1>8, ProposalFields DEF CheckPosition, Handed, HandedAt, Executing, JobRec
  <2>2. Failed(v) \/ To(v, "cancel") \/ To(v, "place")
    BY <1>8, <2>1 DEF CheckPosition, Actions
  <2> QED
    BY <1>6, <1>7, <1>8, <2>2 DEF CheckPosition
<1>9. CASE CancelStep(v) \/ Place(v)
  <2>1. Failed(v) \/ To(v, "place") \/ To(v, "record")
    BY <1>9 DEF CancelStep, Place
  <2> QED
    BY <1>6, <1>7, <1>9, <2>1 DEF CancelStep, Place
<1> QED
  BY <1>2, <1>3, <1>4, <1>5, <1>8, <1>9 DEF JobStep

LEMMA WaitingKept ==
  ASSUME Types, Handed, Types', AtSemaphore, AtWork, [Next]_vars
  PROVE  AtSemaphore' /\ AtWork'
<1>1. Grown /\ now' >= now
  BY NothingTakenBack, TimePasses
<1>2. ASSUME UNCHANGED <<rows, job, pass>> PROVE AtSemaphore' /\ AtWork'
  <2>1. \A v : Rested(rows, v, now) => Rested(rows', v, now')
    BY <1>1, <1>2, RestStays
  <2> QED
    BY <1>2, <2>1 DEF AtSemaphore, AtWork, Next1
<1>3. CASE UNCHANGED vars \/ (Environment /\ ~Crash)
  BY <1>2, <1>3 DEF vars, dbVars, Environment, Tick, SaveSettings, StopTriggers, ClosedElsewhere
<1>4. CASE Crash
  BY <1>4 DEF Crash, AtSemaphore, AtWork, IdlePass, IdleJob
<1>5. CASE RunOnce \/ ListOpen \/ ListFails \/ Skip \/ PassDone
  <2>1. pass'.pc # "sem" /\ UNCHANGED <<rows, job, now>>
    <3>1. CASE RunOnce \/ ListFails \/ PassDone
      <4>1. IdlePass \in PassRec /\ IdlePass.pc = "idle"
        BY IdleIsPass DEF Types
      <4>2. CASE RunOnce
        <5>1. pass' = [IdlePass EXCEPT !.pc = "list", !.cfg = cfg] /\ UNCHANGED <<rows, job, now>>
          BY <4>2 DEF RunOnce, dbVars
        <5> QED
          BY <4>1, <5>1 DEF PassRec
      <4> QED
        BY <3>1, <4>1, <4>2 DEF ListFails, PassDone, dbVars
    <3>2. CASE ListOpen
      BY <3>2 DEF ListOpen, dbVars, Types, PassRec
    <3>3. CASE Skip
      BY <3>3 DEF Skip, dbVars, Types, PassRec
    <3> QED
      BY <1>5, <3>1, <3>2, <3>3
  <2> QED
    BY <2>1 DEF AtSemaphore, AtWork
<1>6. CASE Admit
  <2>1. /\ UNCHANGED <<rows, job, now>> /\ pass'.todo = pass.todo
        /\ job[Next1].pc = "idle"
        /\ pass'.blind = FALSE => ~Cool(Next1)
    BY <1>6 DEF Admit, Eligible, dbVars, Types, PassRec
  <2>2. Next1' = Next1
    BY <2>1 DEF Next1
  <2> QED
    BY <2>1, <2>2, NotCoolIsRested DEF AtSemaphore, AtWork
<1>7. CASE Spawn
  <2>1. pass'.pc # "sem" /\ UNCHANGED <<rows, now>> /\ pass.pc = "sem"
    BY <1>7 DEF Spawn, dbVars, Types, PassRec
  <2>2. \A w \in Positions : \/ job'[w] = job[w]
                             \/ w = Next1 /\ job'[w].blind = pass.blind
    BY <1>7 DEF Spawn, Types, IdleJob
  <2> QED
    BY <2>1, <2>2 DEF AtSemaphore, AtWork
<1>8. ASSUME NEW v \in Positions, JobStep(v) PROVE AtSemaphore' /\ AtWork'
  <2>1. /\ \A w \in Positions \ {v} : job'[w] = job[w]
        /\ job[v].pc # "idle" /\ UNCHANGED <<pass, now>> /\ Next1' = Next1
        /\ job'[v].pc \in {"decide", "insert"} =>
             /\ job[v].pc \in {"decide", "insert"} /\ job'[v].blind = job[v].blind
             /\ UNCHANGED rows
    BY <1>8, OneMoves DEF Next1
  <2>2. \/ Len(rows') = Len(rows)
        \/ Len(rows') = Len(rows) + 1 /\ rows'[Len(rows) + 1].v = v
    <3>1. CASE Insert(v)
      <4>1. Len(rows') = Len(rows) + 1 /\ rows'[Len(rows) + 1] = Row(v)
        BY <3>1, Inserted
      <4>2. Row(v).v = v
        BY DEF Row
      <4> QED
        BY <4>1, <4>2
    <3>2. CASE Record(v)
      <4>1. job[v].row \in 1..Len(rows)
        BY <3>2 DEF Record, Handed, HandedAt, Executing
      <4> QED
        BY <3>2, <4>1, StatusWritten
    <3>3. CASE ~Insert(v) /\ ~Record(v)
      BY <1>8, <3>3 DEF JobStep, Decide, InsertFails, CheckPosition, CancelStep, Place, dbVars
    <3> QED
      BY <3>1, <3>2, <3>3
  <2>3. \A w : w # v /\ Rested(rows, w, now) => Rested(rows', w, now')
    BY <1>1, <2>2, RestStays
  <2>4. AtWork'
    <3> SUFFICES ASSUME NEW w \in Positions, job'[w].pc \in {"decide", "insert"},
                        job'[w].blind = FALSE
                 PROVE  Rested(rows', w, now')
      BY DEF AtWork
    <3>1. CASE w # v
      BY <2>1, <2>3, <3>1 DEF AtWork
    <3>2. CASE w = v
      BY <2>1, <3>2 DEF AtWork
    <3> QED
      BY <3>1, <3>2
  <2>5. AtSemaphore'
    BY <2>1, <2>3 DEF AtSemaphore
  <2> QED
    BY <2>4, <2>5
<1> QED
  BY <1>3, <1>4, <1>5, <1>6, <1>7, <1>8 DEF Next, PassStep, Environment

LEMMA ApartKept ==
  ASSUME Types, Handed, Types', AtWork, DecisionsApart, [Next]_vars PROVE DecisionsApart'
<1>1. Grown /\ Len(rows) \in Nat
  BY NothingTakenBack, Times
<1>2. ASSUME Len(rows') = Len(rows) PROVE DecisionsApart'
  BY <1>1, <1>2 DEF DecisionsApart, Grown, SameDecision
<1>3. ASSUME NEW v \in Positions, Insert(v) PROVE DecisionsApart'
  <2>1. /\ Len(rows') = Len(rows) + 1 /\ rows'[Len(rows) + 1] = Row(v)
        /\ \A i \in 1..Len(rows) : rows'[i] = rows[i]
    BY <1>3, Inserted
  <2>2. /\ Row(v).v = v /\ Row(v).at = now /\ Row(v).blind = job[v].blind
    BY DEF Row
  <2>3. job[v].blind = FALSE => Rested(rows, v, now)
    BY <1>3 DEF Insert, AtWork
  <2> SUFFICES ASSUME NEW j \in 1..Len(rows'), ~rows'[j].blind, NEW i \in 1..(j - 1),
                      rows'[i].v = rows'[j].v
               PROVE  rows'[j].at - rows'[i].at >= Cooldown
    BY DEF DecisionsApart
  <2>4. i \in 1..Len(rows)
    BY <1>1, <2>1
  <2>5. CASE j \in 1..Len(rows)
    BY <2>1, <2>4, <2>5 DEF DecisionsApart
  <2>6. CASE j = Len(rows) + 1
    <3>1. Rested(rows, v, now)
      <4>1. job[v].blind \in BOOLEAN
        BY DEF Types, JobRec
      <4> QED
        BY <2>1, <2>2, <2>3, <2>6, <4>1
    <3> QED
      BY <2>1, <2>2, <2>4, <2>6, <3>1 DEF Rested
  <2> QED
    BY <1>1, <2>1, <2>5, <2>6
<1>4. CASE \A v \in Positions : ~Insert(v)
  <2>1. ASSUME NEW v \in Positions, Record(v) PROVE Len(rows') = Len(rows)
    <3>1. job[v].row \in 1..Len(rows)
      BY <2>1 DEF Record, Handed, HandedAt, Executing
    <3> QED
      BY <2>1, <3>1, StatusWritten
  <2>2. CASE \A v \in Positions : ~Record(v)
    <3>1. UNCHANGED rows
      BY <1>4, <2>2
         DEF Next, vars, RunOnce, PassStep, ListOpen, ListFails, Skip, Admit, Spawn, PassDone,
             JobStep, Decide, InsertFails, CheckPosition, CancelStep, Place, dbVars,
             Environment, Tick, SaveSettings, StopTriggers, ClosedElsewhere, Crash
    <3> QED
      BY <1>2, <3>1
  <2> QED
    BY <1>2, <2>1, <2>2
<1> QED
  BY <1>3, <1>4

(* The agent decides on a position at most once per cooldown, restarts     *)
(* included, unless LastDecisionAt failed: the look at the table and the   *)
(* INSERT are far apart, but nobody else inserts in between.               *)
THEOREM ExitDecisionsApart == Spec => []DecisionsApart
<1>1. Init => AtSemaphore /\ AtWork /\ DecisionsApart
  BY DEF Init, AtSemaphore, AtWork, DecisionsApart, IdlePass, IdleJob
<1>2. /\ Types /\ Handed /\ Types' /\ AtSemaphore /\ AtWork /\ DecisionsApart /\ [Next]_vars
      => AtSemaphore' /\ AtWork' /\ DecisionsApart'
  BY WaitingKept, ApartKept
<1> QED
  BY <1>1, <1>2, Based, PTL DEF Spec
=============================================================================
