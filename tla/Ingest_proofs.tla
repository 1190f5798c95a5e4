--------------------------- MODULE Ingest_proofs ----------------------------
(***************************************************************************)
(* No trade on a system that nobody armed, for every number of strategies, *)
(* signals, handlers, deliveries, restarts and every size of the queues    *)
(* and of the LRU.                                                         *)
(*                                                                         *)
(* The argument: from the moment main() has disarmed, whenever the system  *)
(* is armed every signal with a live row has been armable (Arm and the     *)
(* INSERT both see to that); before that moment no goroutine of the new    *)
(* life does anything; and whatever a goroutine, a channel or main() holds *)
(* has a live row.  So a Judge that reads armed finds its signal armable.  *)
(***************************************************************************)
EXTENDS Ingest, TLAPS

(* The part of the types the argument needs.                               *)
Counters == {"exists", "duplicate", "insert", "submit", "load", "judge", "trade", "decide"}
RunRecords ==
  {Idle} \cup [pc : Counters \ {"decide"}, k : Keys, d : {"none"}]
         \cup [pc : {"decide"}, k : Keys, d : Ledger!Verdicts]
Lives ==
  [tried : SUBSET Keys, lost : SUBSET Keys, armable : SUBSET Keys,
   recovered : SUBSET Keys, subs : Seq(Keys), begun : SUBSET Keys]
Boots ==
  [pc : {"disarm", "list", "submit", "run", "drain"}, todo : SUBSET Keys, old : SUBSET Keys]
Typed ==
  /\ decision \in [Keys -> Decisions] /\ rows \in Seq(Keys) /\ armed \in BOOLEAN
  /\ queue \in [Strategies -> Seq(Keys)]
  /\ boot \in Boots /\ life \in Lives
RunTyped == run \in [Runners -> RunRecords]

(* Signals whose row was written to be worked on.                          *)
Live == {k \in Keys : decision[k] \notin {"absent", "duplicate"}}
InHand(a) == run[a].pc \in {"submit", "load", "judge", "trade", "decide"}

HeldIsLive ==
  /\ \A a \in Runners : InHand(a) => run[a].k \in Live
  /\ \A s \in Strategies : \A i \in 1..Len(queue[s]) : queue[s][i] \in Live
  /\ boot.todo \subseteq Live
QuietBoot ==
  /\ boot.pc = "disarm" =>
       (\A a \in Runners : run[a].pc = "idle") /\ (\A s \in Strategies : queue[s] = <<>>)
  /\ boot.pc \in {"list", "submit"} => ~armed
LiveIsArmable == armed /\ boot.pc # "disarm" => Live \subseteq life.armable
TradeIsArmable == \A a \in Runners : run[a].pc = "trade" => run[a].k \in life.armable

ArmInv ==
  /\ Typed /\ RunTyped /\ HeldIsLive /\ QuietBoot /\ LiveIsArmable /\ TradeIsArmable
  /\ ArmedWhenTraded

----------------------------------------------------------------------------
LEMMA Distinct == "trade" \in Counters /\ Idle.pc = "idle" /\ Idle \in RunRecords
BY DEF Counters, Idle, RunRecords

(* What a goroutine that does something holds.                             *)
LEMMA Working ==
  ASSUME RunTyped, NEW a \in Runners, run[a].pc # "idle"
  PROVE  run[a].k \in Keys /\ (run[a].pc = "decide" => run[a].d \in Ledger!Verdicts)
BY DEF RunTyped, RunRecords, Idle, Counters

LEMMA Record ==
  ASSUME NEW l, NEW k \in Keys, NEW d,
         \/ l \in Counters \ {"decide"} /\ d = "none"
         \/ l = "decide" /\ d \in Ledger!Verdicts
  PROVE  [pc |-> l, k |-> k, d |-> d] \in RunRecords
BY DEF RunRecords

(* A step of one goroutine that ends after the disarm of the boot keeps the *)
(* invariant if what it puts into its hand, into the channels and into the *)
(* to-do set of main() has a live row, and if it trades what is armable.   *)
LEMMA OneRunner ==
  ASSUME ArmInv, Typed', boot'.pc # "disarm",
         NEW a \in Runners, NEW r \in RunRecords, run' = [run EXCEPT ![a] = r],
         Live \subseteq Live',
         r.pc \in {"submit", "load", "judge", "trade", "decide"} => r.k \in Live',
         \A s \in Strategies : \A i \in 1..Len(queue'[s]) : queue'[s][i] \in Live',
         boot'.todo \subseteq Live',
         boot'.pc \in {"list", "submit"} => ~armed',
         armed' => Live' \subseteq life'.armable,
         life.armable \subseteq life'.armable,
         r.pc = "trade" => r.k \in life'.armable,
         life'.tried \subseteq life'.armable
  PROVE  ArmInv'
<1>1. RunTyped' /\ run'[a] = r /\ \A b \in Runners \ {a} : run'[b] = run[b]
  BY DEF ArmInv, RunTyped
<1>2. HeldIsLive'
  <2>1. \A b \in Runners : InHand(b)' => run'[b].k \in Live'
    BY <1>1 DEF ArmInv, HeldIsLive, InHand
  <2> QED
    BY <2>1 DEF HeldIsLive
<1>3. TradeIsArmable'
  BY <1>1 DEF ArmInv, TradeIsArmable
<1> QED
  BY <1>1, <1>2, <1>3 DEF ArmInv, QuietBoot, LiveIsArmable, ArmedWhenTraded

(* A goroutine that is not idle, or a channel that is not empty, is seen   *)
(* only after the boot has disarmed.                                       *)
LEMMA Awake ==
  ASSUME ArmInv
  PROVE  /\ \A a \in Runners : run[a].pc # "idle" => boot.pc # "disarm"
         /\ \A s \in Strategies : queue[s] # <<>> => boot.pc # "disarm"
BY DEF ArmInv, QuietBoot

(* The INSERT of a row keeps live rows live, and only 'pending' makes one. *)
LEMMA InsertLive ==
  ASSUME Typed, NEW k \in Keys, NEW d \in {"pending", "duplicate"}, InsertRow(k, d)
  PROVE  /\ decision' \in [Keys -> Decisions] /\ rows' \in Seq(Keys)
         /\ Live \subseteq Live'
         /\ Live' \subseteq Live \cup (IF d = "pending" THEN {k} ELSE {})
         /\ d = "pending" /\ decision[k] = "absent" => k \in Live'
<1>1. d \in Decisions
  BY DEF Decisions
<1>2. CASE decision[k] = "absent"
  <2>1. decision' = [decision EXCEPT ![k] = d] /\ rows' = Append(rows, k)
    BY <1>2 DEF InsertRow
  <2> QED
    BY <1>1, <1>2, <2>1 DEF Typed, Live
<1>3. CASE decision[k] # "absent"
  BY <1>3 DEF InsertRow, Typed, Live
<1> QED
  BY <1>2, <1>3

LEMMA RestingRecord == Idle \in RunRecords /\ Idle.pc = "idle"
BY Distinct

----------------------------------------------------------------------------
(* One lemma per kind of step.                                             *)

LEMMA InitArmInv == IngestInit => ArmInv
<1> SUFFICES ASSUME IngestInit PROVE ArmInv
  OBVIOUS
<1>1. Typed /\ RunTyped
  <2>1. <<>> \in Seq(Keys)
    OBVIOUS
  <2>2. NewLife \in Lives
    BY <2>1 DEF NewLife, Lives
  <2>3. boot \in Boots
    BY DEF IngestInit, Boots
  <2>4. queue \in [Strategies -> Seq(Keys)] /\ rows \in Seq(Keys)
    BY <2>1 DEF IngestInit
  <2>5. decision \in [Keys -> Decisions] /\ armed \in BOOLEAN
    BY DEF IngestInit, Decisions
  <2> QED
    BY <2>2, <2>3, <2>4, <2>5, Distinct DEF IngestInit, Typed, RunTyped
<1>2. Live = {}
  BY DEF IngestInit, Live
<1>3. HeldIsLive /\ QuietBoot /\ LiveIsArmable /\ TradeIsArmable /\ ArmedWhenTraded
  BY <1>2, Distinct
     DEF IngestInit, NewLife, HeldIsLive, InHand, QuietBoot, LiveIsArmable, TradeIsArmable,
         ArmedWhenTraded
<1> QED
  BY <1>1, <1>3 DEF ArmInv

LEMMA ReceiveStep ==
  ASSUME ArmInv, NEW h \in Handlers, NEW k \in Keys, Receive(h, k) PROVE ArmInv'
<1> DEFINE r == [pc |-> IF k \in Cached THEN "duplicate" ELSE "exists", k |-> k, d |-> "none"]
<1>1. h \in Runners /\ r \in RunRecords /\ r.pc \in {"duplicate", "exists"}
  BY Record DEF Runners, Counters
<1>2. run' = [run EXCEPT ![h] = r] /\ boot.pc = "run"
  BY DEF Receive
<1>3. UNCHANGED <<decision, rows, armed, queue, boot, life>>
  BY DEF Receive, db
<1>4. Typed' /\ Live' = Live
  BY <1>3 DEF ArmInv, Typed, Live
<1> QED
  BY <1>1, <1>2, <1>3, <1>4, OneRunner
     DEF ArmInv, HeldIsLive, QuietBoot, LiveIsArmable, ArmedWhenTraded

(* A step that only moves the counter of a goroutine on, or ends its work. *)
LEMMA QuietRunner ==
  ASSUME ArmInv, NEW a \in Runners, run[a].pc # "idle", NEW r \in RunRecords,
         run' = [run EXCEPT ![a] = r],
         r.pc \in {"submit", "load", "judge", "trade", "decide"} => r.k \in Live,
         r.pc = "trade" => r.k \in life.armable,
         UNCHANGED <<decision, rows, armed, queue, boot>>,
         life' \in Lives, life'.tried = life.tried, life'.armable = life.armable
  PROVE  ArmInv'
<1>1. Typed' /\ Live' = Live
  BY DEF ArmInv, Typed, Live
<1> QED
  BY <1>1, Awake, OneRunner DEF ArmInv, HeldIsLive, QuietBoot, LiveIsArmable, ArmedWhenTraded

LEMMA ExistsByKeyStep ==
  ASSUME ArmInv, NEW h \in Handlers, ExistsByKey(h) PROVE ArmInv'
<1>1. h \in Runners /\ run[h].pc # "idle" /\ run[h].k \in Keys
  BY Working DEF ExistsByKey, Runners, ArmInv
<1>2. UNCHANGED <<decision, rows, armed, queue, boot, life>>
  BY DEF ExistsByKey, db
<1>3. life \in Lives
  BY DEF ArmInv, Typed
<1> DEFINE r(l) == [pc |-> l, k |-> run[h].k, d |-> "none"]
<1>4. r("insert") \in RunRecords /\ r("duplicate") \in RunRecords
  BY <1>1, Record DEF Counters
<1>5. CASE Go(h, IF decision[run[h].k] = "absent" THEN "insert" ELSE "duplicate", "none")
  <2>1. \E l \in {"insert", "duplicate"} : run' = [run EXCEPT ![h] = r(l)]
    BY <1>5 DEF Go
  <2> QED
    BY <2>1, <1>1, <1>2, <1>3, <1>4, QuietRunner
<1>6. CASE Rest(h)
  BY <1>6, <1>1, <1>2, <1>3, RestingRecord, QuietRunner DEF Rest
<1> QED
  BY <1>5, <1>6 DEF ExistsByKey

LEMMA InsertDuplicateStep ==
  ASSUME ArmInv, NEW h \in Handlers, InsertDuplicate(h) PROVE ArmInv'
<1>1. h \in Runners /\ run[h].pc # "idle" /\ run[h].k \in Keys
  BY Working DEF InsertDuplicate, Runners, ArmInv
<1>2. UNCHANGED <<armed, queue, boot, life>> /\ run' = [run EXCEPT ![h] = Idle]
  BY DEF InsertDuplicate, Rest
<1>3. decision' \in [Keys -> Decisions] /\ rows' \in Seq(Keys) /\ Live' = Live
  <2>1. CASE InsertRow(run[h].k, "duplicate")
    BY <2>1, <1>1, InsertLive DEF ArmInv
  <2>2. CASE UNCHANGED <<decision, rows>>
    BY <2>2 DEF ArmInv, Typed, Live
  <2> QED
    BY <2>1, <2>2 DEF InsertDuplicate
<1>4. Typed'
  BY <1>2, <1>3 DEF ArmInv, Typed
<1> QED
  BY <1>1, <1>2, <1>3, <1>4, Awake, RestingRecord, OneRunner
     DEF ArmInv, HeldIsLive, QuietBoot, LiveIsArmable, ArmedWhenTraded

LEMMA InsertPendingStep ==
  ASSUME ArmInv, NEW h \in Handlers, InsertPending(h) PROVE ArmInv'
<1> DEFINE k == run[h].k
           r == [pc |-> "submit", k |-> k, d |-> "none"]
           noted == [life EXCEPT !.armable = IF armed THEN @ \cup {k} ELSE @]
<1>1. h \in Runners /\ run[h].pc # "idle" /\ k \in Keys
  BY Working DEF InsertPending, Runners, ArmInv
<1>2. UNCHANGED <<armed, queue, boot>>
  BY DEF InsertPending
<1>3. CASE UNCHANGED <<decision, rows, life>> /\ Rest(h)
  <2>1. life' \in Lives /\ life'.tried = life.tried /\ life'.armable = life.armable
    BY <1>3 DEF ArmInv, Typed
  <2> QED
    BY <2>1, <1>1, <1>2, <1>3, RestingRecord, QuietRunner DEF Rest
<1>4. ASSUME decision[k] = "absent", InsertRow(k, "pending"),
             \/ run' = [run EXCEPT ![h] = r] /\ life' = noted
             \/ run' = [run EXCEPT ![h] = Idle] /\ life' = [noted EXCEPT !.lost = @ \cup {k}]
      PROVE  ArmInv'
  <2>1. /\ decision' \in [Keys -> Decisions] /\ rows' \in Seq(Keys)
        /\ Live \subseteq Live' /\ Live' \subseteq Live \cup {k} /\ k \in Live'
    BY <1>1, <1>4, InsertLive DEF ArmInv
  <2>2. life \in Lives
    BY DEF ArmInv, Typed
  <2>3. /\ life' \in Lives /\ life'.tried = life.tried
        /\ life'.armable = IF armed THEN life.armable \cup {k} ELSE life.armable
    <3> DEFINE A == IF armed THEN life.armable \cup {k} ELSE life.armable
    <3>1. A \in SUBSET Keys /\ noted = [life EXCEPT !.armable = A]
      BY <1>1, <2>2 DEF Lives
    <3> HIDE DEF A, k
    <3>2. noted \in Lives /\ noted.tried = life.tried /\ noted.armable = A
      BY <3>1, <2>2 DEF Lives
    <3>3. life' = noted \/ life' = [noted EXCEPT !.lost = noted.lost \cup {k}]
      BY <1>4
    <3>4. noted.lost \cup {k} \in SUBSET Keys
      BY <1>1, <3>2 DEF Lives
    <3> HIDE DEF noted
    <3>5. life' \in Lives /\ life'.tried = noted.tried /\ life'.armable = noted.armable
      BY <3>2, <3>3, <3>4 DEF Lives
    <3> QED
      BY <3>2, <3>5 DEF A
  <2>4. Typed'
    BY <1>2, <2>1, <2>3 DEF ArmInv, Typed
  <2>5. r \in RunRecords /\ r.pc = "submit" /\ r.k = k
    BY <1>1, Record DEF Counters
  <2>6. \E q \in {r, Idle} : run' = [run EXCEPT ![h] = q]
    BY <1>4
  <2>7. armed' => Live' \subseteq life'.armable
    BY <1>1, <1>2, <2>1, <2>3, Awake DEF ArmInv, LiveIsArmable
  <2>8. life'.tried \subseteq life'.armable /\ life.armable \subseteq life'.armable
    BY <2>3 DEF ArmInv, ArmedWhenTraded
  <2>9. /\ \A s \in Strategies : \A i \in 1..Len(queue'[s]) : queue'[s][i] \in Live'
        /\ boot'.todo \subseteq Live' /\ (boot'.pc \in {"list", "submit"} => ~armed')
    BY <1>2, <2>1 DEF ArmInv, HeldIsLive, QuietBoot
  <2> HIDE DEF r, k
  <2> QED
    BY <1>1, <1>2, <2>1, <2>4, <2>5, <2>6, <2>7, <2>8, <2>9, Awake, RestingRecord, OneRunner
<1> QED
  BY <1>3, <1>4 DEF InsertPending, Go, Rest

(* Into a channel goes only what has a live row.                           *)
LEMMA EnqueueLive ==
  ASSUME ArmInv, NEW k \in Live, Enqueue(k)
  PROVE  /\ queue' \in [Strategies -> Seq(Keys)]
         /\ \A s \in Strategies : \A i \in 1..Len(queue'[s]) : queue'[s][i] \in Live
<1>1. k \in Keys /\ StrategyOf[k] \in Strategies /\ queue \in [Strategies -> Seq(Keys)]
  BY IngestAssumption DEF Live, ArmInv, Typed
<1>2. \A s \in Strategies : queue'[s] = IF s = StrategyOf[k] THEN Append(queue[s], k) ELSE queue[s]
  BY <1>1 DEF Enqueue
<1>3. queue' \in [Strategies -> Seq(Keys)]
  BY <1>1 DEF Enqueue
<1>4. ASSUME NEW s \in Strategies, NEW i \in 1..Len(queue'[s]) PROVE queue'[s][i] \in Live
  <2>1. CASE s # StrategyOf[k]
    BY <2>1, <1>2, <1>4 DEF ArmInv, HeldIsLive
  <2>2. CASE s = StrategyOf[k]
    <3>1. queue'[s] = Append(queue[s], k) /\ queue[s] \in Seq(Keys)
      BY <2>2, <1>1, <1>2
    <3>2. i \in 1..Len(queue[s]) \/ i = Len(queue[s]) + 1
      BY <3>1, <1>4
    <3>3. \A j \in 1..Len(queue[s]) : queue[s][j] \in Live
      BY DEF ArmInv, HeldIsLive
    <3> QED
      BY <3>1, <3>2, <3>3
  <2> QED
    BY <2>1, <2>2
<1> QED
  BY <1>3, <1>4

LEMMA SubmitStep ==
  ASSUME ArmInv, NEW h \in Handlers, Submit(h) PROVE ArmInv'
<1> DEFINE k == run[h].k
           r == [pc |-> "load", k |-> k, d |-> "none"]
<1>1. h \in Runners /\ run[h].pc = "submit" /\ k \in Keys
  BY Working DEF Submit, Runners, ArmInv
<1>2. k \in Live
  BY <1>1 DEF ArmInv, HeldIsLive, InHand
<1>3. UNCHANGED <<decision, rows, armed, boot>> /\ Live' = Live
  BY DEF Submit, db, Live
<1>4. life' \in Lives /\ life'.tried = life.tried /\ life'.armable = life.armable
  <2>1. life \in Lives
    BY DEF ArmInv, Typed
  <2>2. Append(life.subs, k) \in Seq(Keys)
    BY <2>1, <1>1 DEF Lives
  <2>3. Channelled(k) \/ UNCHANGED life
    BY DEF Submit
  <2> HIDE DEF k
  <2> QED
    BY <2>1, <2>2, <2>3 DEF Lives, Channelled
<1>5. /\ queue' \in [Strategies -> Seq(Keys)]
      /\ \A s \in Strategies : \A i \in 1..Len(queue'[s]) : queue'[s][i] \in Live
  <2>1. CASE Enqueue(k)
    BY <2>1, <1>2, EnqueueLive
  <2>2. CASE UNCHANGED queue
    BY <2>2 DEF ArmInv, Typed, HeldIsLive
  <2> QED
    BY <2>1, <2>2 DEF Submit
<1>6. Typed'
  BY <1>3, <1>4, <1>5 DEF ArmInv, Typed
<1>7. r \in RunRecords /\ r.pc = "load" /\ r.k = k
  BY <1>1, Record DEF Counters
<1>8. \E q \in {r, Idle} : run' = [run EXCEPT ![h] = q]
  BY DEF Submit, Go, Rest
<1> HIDE DEF r, k
<1> QED
  BY <1>1, <1>2, <1>3, <1>4, <1>5, <1>6, <1>7, <1>8, Awake, RestingRecord, OneRunner
     DEF ArmInv, HeldIsLive, QuietBoot, LiveIsArmable, ArmedWhenTraded

LEMMA TakeStep ==
  ASSUME ArmInv, NEW s \in Strategies, Take(s) PROVE ArmInv'
<1> DEFINE k == Head(queue[s])
           r == [pc |-> "load", k |-> k, d |-> "none"]
<1>1. s \in Runners /\ queue[s] \in Seq(Keys) /\ queue[s] # <<>>
  BY DEF Take, Runners, ArmInv, Typed
<1>2. k \in Live /\ k \in Keys
  <2>1. k = queue[s][1] /\ 1 \in 1..Len(queue[s])
    BY <1>1
  <2> QED
    BY <2>1 DEF ArmInv, HeldIsLive, Live
<1>3. UNCHANGED <<decision, rows, armed, boot, life>> /\ Live' = Live
  BY DEF Take, db, Live
<1>4. queue' = [queue EXCEPT ![s] = Tail(queue[s])] /\ Tail(queue[s]) \in Seq(Keys)
  BY <1>1 DEF Take
<1>5. queue' \in [Strategies -> Seq(Keys)]
  BY <1>4 DEF ArmInv, Typed
<1>6. ASSUME NEW t \in Strategies, NEW i \in 1..Len(queue'[t]) PROVE queue'[t][i] \in Live
  <2>1. CASE t # s
    BY <2>1, <1>4, <1>6 DEF ArmInv, Typed, HeldIsLive
  <2>2. CASE t = s
    <3>1. queue'[t] = Tail(queue[s])
      BY <2>2, <1>4 DEF ArmInv, Typed
    <3>2. i + 1 \in 1..Len(queue[s]) /\ queue'[t][i] = queue[s][i + 1]
      BY <3>1, <1>1, <1>6
    <3> QED
      BY <3>2 DEF ArmInv, HeldIsLive
  <2> QED
    BY <2>1, <2>2
<1>7. Typed'
  BY <1>3, <1>5 DEF ArmInv, Typed
<1>8. r \in RunRecords /\ r.pc = "load" /\ r.k = k /\ run' = [run EXCEPT ![s] = r]
  BY <1>2, Record DEF Counters, Take
<1> HIDE DEF r, k
<1> QED
  BY <1>1, <1>2, <1>3, <1>6, <1>7, <1>8, Awake, OneRunner
     DEF ArmInv, HeldIsLive, QuietBoot, LiveIsArmable, ArmedWhenTraded

(* History that touches neither what was tried nor what is armable.        *)
LEMMA LostOrBegun ==
  ASSUME life \in Lives, NEW k \in Keys,
         \/ life' = life
         \/ life' = [life EXCEPT !.lost = life.lost \cup {k}]
         \/ life' = [life EXCEPT !.begun = life.begun \cup {k}]
         \/ life' = [life EXCEPT !.begun = life.begun \cup {k}, !.lost = life.lost \cup {k}]
  PROVE  life' \in Lives /\ life'.tried = life.tried /\ life'.armable = life.armable
<1>1. life.lost \cup {k} \in SUBSET Keys /\ life.begun \cup {k} \in SUBSET Keys
  BY DEF Lives
<1> QED
  BY <1>1 DEF Lives

LEMMA LoadRowStep ==
  ASSUME ArmInv, NEW a \in Runners, LoadRow(a) PROVE ArmInv'
<1> DEFINE k == run[a].k
           r == [pc |-> "judge", k |-> k, d |-> "none"]
<1>1. run[a].pc = "load" /\ k \in Keys /\ k \in Live
  BY Working DEF LoadRow, ArmInv, HeldIsLive, InHand
<1>2. UNCHANGED <<decision, rows, armed, queue, boot>> /\ life \in Lives
  BY DEF LoadRow, db, ArmInv, Typed
<1>3. \/ life' = [life EXCEPT !.begun = life.begun \cup {k}]
      \/ life' = [life EXCEPT !.begun = life.begun \cup {k}, !.lost = life.lost \cup {k}]
  <2>1. life' = [life EXCEPT !.begun = @ \cup {k}]
        \/ life' = [[life EXCEPT !.begun = @ \cup {k}] EXCEPT !.lost = @ \cup {k}]
    BY DEF LoadRow
  <2>2. [[life EXCEPT !.begun = @ \cup {k}] EXCEPT !.lost = @ \cup {k}]
          = [life EXCEPT !.begun = life.begun \cup {k}, !.lost = life.lost \cup {k}]
    BY <1>2 DEF Lives
  <2> QED
    BY <2>1, <2>2
<1>4. life' \in Lives /\ life'.tried = life.tried /\ life'.armable = life.armable
  BY <1>1, <1>2, <1>3, LostOrBegun
<1>5. r \in RunRecords /\ r.pc = "judge" /\ r.k = k
  BY <1>1, Record DEF Counters
<1>6. \E q \in {r, Idle} : run' = [run EXCEPT ![a] = q]
  BY DEF LoadRow, Go, Rest
<1> HIDE DEF r, k
<1> QED
  BY <1>1, <1>2, <1>4, <1>5, <1>6, RestingRecord, QuietRunner

(* A Judge that reads armed finds its signal armable.                      *)
LEMMA JudgeStep ==
  ASSUME ArmInv, NEW a \in Runners, Judge(a) PROVE ArmInv'
<1> DEFINE k == run[a].k
           r(l, d) == [pc |-> l, k |-> k, d |-> d]
<1>1. run[a].pc = "judge" /\ k \in Keys /\ k \in Live
  BY Working DEF Judge, ArmInv, HeldIsLive, InHand
<1>2. UNCHANGED <<decision, rows, armed, queue, boot>> /\ life \in Lives
  BY DEF Judge, db, ArmInv, Typed
<1>3. armed => k \in life.armable
  BY <1>1, Awake DEF ArmInv, LiveIsArmable
<1>4. life' \in Lives /\ life'.tried = life.tried /\ life'.armable = life.armable
  BY <1>1, <1>2, LostOrBegun DEF Judge, Lose
<1>5. \/ \E d \in Ledger!Verdicts : run' = [run EXCEPT ![a] = r("decide", d)]
      \/ armed /\ run' = [run EXCEPT ![a] = r("trade", "none")]
      \/ run' = [run EXCEPT ![a] = Idle]
  BY DEF Judge, Go, Rest, Ledger!Verdicts
<1>6. CASE \E d \in Ledger!Verdicts : run' = [run EXCEPT ![a] = r("decide", d)]
  <2>1. PICK d \in Ledger!Verdicts : run' = [run EXCEPT ![a] = r("decide", d)]
    BY <1>6
  <2>2. r("decide", d) \in RunRecords
    BY <1>1, Record DEF Counters
  <2> QED
    BY <1>1, <1>2, <1>4, <2>1, <2>2, QuietRunner
<1>7. CASE armed /\ run' = [run EXCEPT ![a] = r("trade", "none")]
  <2>1. r("trade", "none") \in RunRecords
    BY <1>1, Record DEF Counters
  <2> QED
    BY <1>1, <1>2, <1>3, <1>4, <1>7, <2>1, QuietRunner
<1>8. CASE run' = [run EXCEPT ![a] = Idle]
  BY <1>1, <1>2, <1>4, <1>8, RestingRecord, QuietRunner
<1> QED
  BY <1>5, <1>6, <1>7, <1>8

LEMMA TradeStep ==
  ASSUME ArmInv, NEW a \in Runners, Trade(a) PROVE ArmInv'
<1> DEFINE k == run[a].k
           r == [pc |-> "decide", k |-> k, d |-> "accepted"]
<1>1. run[a].pc = "trade" /\ k \in Keys /\ k \in Live /\ k \in life.armable
  BY Working DEF Trade, ArmInv, HeldIsLive, InHand, TradeIsArmable
<1>2. UNCHANGED <<decision, rows, armed, queue, boot>> /\ life \in Lives
  BY DEF Trade, db, ArmInv, Typed
<1>3. life' \in Lives /\ life'.tried = life.tried \cup {k} /\ life'.armable = life.armable
  <2>1. life.tried \cup {k} \in SUBSET Keys /\ life' = [life EXCEPT !.tried = life.tried \cup {k}]
    BY <1>1, <1>2 DEF Trade, Lives
  <2> QED
    BY <1>2, <2>1 DEF Lives
<1>4. r \in RunRecords /\ r.pc = "decide" /\ r.k = k /\ run' = [run EXCEPT ![a] = r]
  BY <1>1, Record DEF Counters, Trade, Go, Ledger!Verdicts
<1>5. Typed' /\ Live' = Live
  BY <1>2, <1>3 DEF ArmInv, Typed, Live
<1> HIDE DEF r, k
<1> QED
  BY <1>1, <1>2, <1>3, <1>4, <1>5, Awake, OneRunner
     DEF ArmInv, HeldIsLive, QuietBoot, LiveIsArmable, ArmedWhenTraded

LEMMA UpdateDecisionStep ==
  ASSUME ArmInv, NEW a \in Runners, UpdateDecision(a) PROVE ArmInv'
<1> DEFINE k == run[a].k
<1>1. run[a].pc = "decide" /\ k \in Keys /\ run[a].d \in Ledger!Verdicts
  BY Working DEF UpdateDecision, ArmInv
<1>2. UNCHANGED <<rows, armed, queue, boot>> /\ life \in Lives
  BY DEF UpdateDecision, ArmInv, Typed
<1>3. life' \in Lives /\ life'.tried = life.tried /\ life'.armable = life.armable
  BY <1>1, <1>2, LostOrBegun DEF UpdateDecision, Lose
<1>4. decision' \in [Keys -> Decisions] /\ Live' = Live
  BY <1>1 DEF UpdateDecision, ArmInv, Typed, Live, Decisions, Ledger!Verdicts
<1>5. Typed'
  BY <1>2, <1>3, <1>4 DEF ArmInv, Typed
<1>6. run' = [run EXCEPT ![a] = Idle]
  BY DEF UpdateDecision, Rest
<1> QED
  BY <1>1, <1>2, <1>3, <1>4, <1>5, <1>6, Awake, RestingRecord, OneRunner
     DEF ArmInv, HeldIsLive, QuietBoot, LiveIsArmable, ArmedWhenTraded

(* The same for a step of main() or of the operator that leaves the        *)
(* goroutines alone.                                                       *)
LEMMA NoRunner ==
  ASSUME ArmInv, Typed', boot'.pc # "disarm", UNCHANGED <<run, queue>>,
         Live' = Live, boot'.todo \subseteq Live,
         boot'.pc \in {"list", "submit"} => ~armed',
         armed' => Live \subseteq life'.armable,
         life.armable \subseteq life'.armable, life'.tried = life.tried
  PROVE  ArmInv'
<1> DEFINE r == run[Main]
<1>1. Main \in Runners /\ r \in RunRecords /\ run' = [run EXCEPT ![Main] = r]
  BY DEF Runners, ArmInv, RunTyped
<1>2. r.pc \in {"submit", "load", "judge", "trade", "decide"} => r.k \in Live
  BY <1>1 DEF ArmInv, HeldIsLive, InHand
<1>3. r.pc = "trade" => r.k \in life'.armable
  BY <1>1 DEF ArmInv, TradeIsArmable
<1> HIDE DEF r
<1> QED
  BY <1>1, <1>2, <1>3, OneRunner DEF ArmInv, HeldIsLive, ArmedWhenTraded

LEMMA ListedIsLive ==
  ASSUME Typed, NEW n \in 0..Len(rows)
  PROVE  /\ Pending(n + 1, Len(rows)) \subseteq Live /\ Pending(1, n) \subseteq Live
         /\ Pending(1, Len(rows)) \subseteq Keys
<1>1. rows \in Seq(Keys) /\ \A m \in 1..Len(rows) : rows[m] \in Keys
  BY DEF Typed
<1>2. (n + 1)..Len(rows) \subseteq 1..Len(rows) /\ 1..n \subseteq 1..Len(rows)
  BY <1>1
<1> QED
  BY <1>1, <1>2 DEF Pending, Live

LEMMA BootDisarmStep == ASSUME ArmInv, BootDisarm PROVE ArmInv'
<1>1. UNCHANGED <<decision, rows, queue, run, life>> /\ Live' = Live /\ ~armed' /\ armed' \in BOOLEAN
  BY DEF BootDisarm, Live
<1>2. boot' \in Boots /\ boot'.pc = "list" /\ boot'.todo = boot.todo
  BY DEF BootDisarm, ArmInv, Typed, Boots
<1>3. Typed'
  BY <1>1, <1>2 DEF ArmInv, Typed
<1> QED
  BY <1>1, <1>2, <1>3, NoRunner DEF ArmInv, HeldIsLive

LEMMA BootListStep == ASSUME ArmInv, BootList PROVE ArmInv'
<1>1. UNCHANGED <<decision, rows, armed, queue, run>> /\ Live' = Live /\ ~armed
  BY DEF BootList, db, Live, ArmInv, QuietBoot
<1>2. life' \in Lives /\ life'.tried = life.tried /\ life'.armable = life.armable
  <2>1. life \in Lives /\ (life' = life \/ life' = [life EXCEPT !.lost = Pending(1, Len(rows))])
    BY DEF BootList, ArmInv, Typed
  <2>2. Pending(1, Len(rows)) \in SUBSET Keys
    <3>1. Len(rows) \in Nat /\ Len(rows) \in 0..Len(rows)
      BY DEF ArmInv, Typed
    <3> QED
      BY <3>1, ListedIsLive DEF ArmInv
  <2> QED
    BY <2>1, <2>2 DEF Lives
<1>3. boot' \in Boots /\ boot'.pc \in {"submit", "run"} /\ boot'.todo \subseteq Live
  <2>1. CASE boot' = [boot EXCEPT !.pc = "run"]
    BY <2>1 DEF ArmInv, Typed, Boots, HeldIsLive
  <2>2. CASE \E n \in 0..Len(rows) :
               boot' = [pc |-> "submit",
                        todo |-> Pending(n + 1, Len(rows)), old |-> Pending(1, n)]
    BY <2>2, ListedIsLive DEF ArmInv, Boots, Live
  <2> QED
    BY <2>1, <2>2 DEF BootList
<1>4. Typed'
  BY <1>1, <1>2, <1>3 DEF ArmInv, Typed
<1> QED
  BY <1>1, <1>2, <1>3, <1>4, NoRunner

LEMMA BootSubmitStep == ASSUME ArmInv, BootSubmit PROVE ArmInv'
<1>1. PICK k \in boot.todo : SubmitYoung(k)
  BY DEF BootSubmit
<1> DEFINE r == [pc |-> "load", k |-> k, d |-> "none"]
<1>2. k \in Live /\ k \in Keys /\ Main \in Runners
  BY DEF ArmInv, HeldIsLive, Live, Runners
<1>3. UNCHANGED <<decision, rows, armed>> /\ Live' = Live /\ boot.pc = "submit" /\ ~armed
  BY <1>1 DEF SubmitYoung, BootSubmit, db, Live, ArmInv, QuietBoot
<1>4. life' \in Lives /\ life'.tried = life.tried /\ life'.armable = life.armable
  <2>1. life \in Lives
    BY DEF ArmInv, Typed
  <2>2. CASE life' = [life EXCEPT !.subs = Append(life.subs, k),
                                  !.recovered = life.recovered \cup {k}]
    <3>1. Append(life.subs, k) \in Seq(Keys) /\ life.recovered \cup {k} \in SUBSET Keys
      BY <2>1, <1>2 DEF Lives
    <3> QED
      BY <2>1, <2>2, <3>1 DEF Lives
  <2>3. CASE UNCHANGED life
    BY <2>1, <2>3
  <2> QED
    BY <2>2, <2>3, <1>1 DEF SubmitYoung
<1>5. boot' \in Boots /\ boot'.pc = "submit" /\ boot'.todo \subseteq Live
  BY <1>1, <1>3 DEF SubmitYoung, ArmInv, Typed, Boots, HeldIsLive
<1>6. /\ queue' \in [Strategies -> Seq(Keys)]
      /\ \A s \in Strategies : \A i \in 1..Len(queue'[s]) : queue'[s][i] \in Live
  <2>1. CASE Enqueue(k)
    BY <2>1, <1>2, EnqueueLive
  <2>2. CASE UNCHANGED queue
    BY <2>2 DEF ArmInv, Typed, HeldIsLive
  <2> QED
    BY <2>1, <2>2, <1>1 DEF SubmitYoung
<1>7. Typed'
  BY <1>3, <1>4, <1>5, <1>6 DEF ArmInv, Typed
<1>8. r \in RunRecords /\ r.pc = "load" /\ r.k = k
  BY <1>2, Record DEF Counters
<1>9. \E q \in {r, Idle} : run' = [run EXCEPT ![Main] = q]
  <2>1. CASE UNCHANGED run
    <3>1. run[Main] = Idle
      BY <1>2 DEF BootSubmit, ArmInv, RunTyped, RunRecords, Counters
    <3> QED
      BY <2>1, <3>1, <1>2 DEF ArmInv, RunTyped
  <2> QED
    BY <2>1, <1>1 DEF SubmitYoung
<1> HIDE DEF r
<1> QED
  BY <1>2, <1>3, <1>4, <1>5, <1>6, <1>7, <1>8, <1>9, RestingRecord, OneRunner
     DEF ArmInv, ArmedWhenTraded

LEMMA BootAbandonStep == ASSUME ArmInv, BootAbandon PROVE ArmInv'
<1>1. UNCHANGED <<rows, armed, queue, run>> /\ ~armed
  BY DEF BootAbandon, ArmInv, QuietBoot
<1>2. decision' \in [Keys -> Decisions] /\ Live' = Live
  <2>1. CASE decision' = [k \in Keys |->
               IF k \in boot.old /\ decision[k] = "pending" THEN "abandoned" ELSE decision[k]]
    BY <2>1 DEF ArmInv, Typed, Live, Decisions, Ledger!Verdicts
  <2>2. CASE UNCHANGED decision
    BY <2>2 DEF ArmInv, Typed, Live
  <2> QED
    BY <2>1, <2>2 DEF BootAbandon
<1>3. life' \in Lives /\ life'.tried = life.tried /\ life'.armable = life.armable
  <2>1. /\ life \in Lives /\ boot.old \in SUBSET Keys
        /\ life' = life \/ life' = [life EXCEPT !.lost = life.lost \cup boot.old]
    BY DEF BootAbandon, ArmInv, Typed, Boots
  <2>2. life.lost \cup boot.old \in SUBSET Keys
    BY <2>1 DEF Lives
  <2> QED
    BY <2>1, <2>2 DEF Lives
<1>4. boot' \in Boots /\ boot'.pc = "run" /\ boot'.todo = {}
  BY DEF BootAbandon, Boots
<1>5. Typed'
  BY <1>1, <1>2, <1>3, <1>4 DEF ArmInv, Typed
<1> QED
  BY <1>1, <1>2, <1>3, <1>4, <1>5, NoRunner

(* Arm, Disarm and the beginning of a shutdown.                            *)
LEMMA OperatorStep == ASSUME ArmInv, Arm \/ Disarm \/ Stop PROVE ArmInv'
<1>1. UNCHANGED <<decision, rows, queue, run>> /\ Live' = Live
  BY DEF Arm, Disarm, Stop, db, Live
<1>2. /\ boot' \in Boots /\ boot'.pc \in {"run", "drain"} /\ boot'.todo = boot.todo
      /\ boot.pc # "disarm"
  BY DEF Arm, Disarm, Stop, ArmInv, Typed, Boots
<1>3. armed' \in BOOLEAN
  BY DEF Arm, Disarm, Stop, db, ArmInv, Typed
<1>4. /\ life' \in Lives /\ life'.tried = life.tried /\ life.armable \subseteq life'.armable
      /\ armed' => Live \subseteq life'.armable
  <2>1. life \in Lives
    BY DEF ArmInv, Typed
  <2>2. CASE Arm
    <3> DEFINE A == life.armable \cup {k \in Keys : decision[k] # "absent"}
    <3>1. A \in SUBSET Keys /\ life' = [life EXCEPT !.armable = A] /\ Live \subseteq A
      BY <2>1, <2>2 DEF Arm, Lives, Live
    <3> HIDE DEF A
    <3>2. life' \in Lives /\ life'.tried = life.tried /\ life'.armable = A
      BY <2>1, <3>1 DEF Lives
    <3> QED
      BY <3>1, <3>2 DEF A
  <2>3. CASE Disarm \/ Stop
    BY <2>1, <2>3, <1>2 DEF Disarm, Stop, db, ArmInv, LiveIsArmable
  <2> QED
    BY <2>2, <2>3
<1>5. Typed'
  BY <1>1, <1>2, <1>3, <1>4 DEF ArmInv, Typed
<1> QED
  BY <1>1, <1>2, <1>4, <1>5, NoRunner DEF ArmInv, HeldIsLive

(* A new life begins with nothing in hand and nothing tried.               *)
LEMMA RebornStep == ASSUME ArmInv, Reborn PROVE ArmInv'
<1>1. UNCHANGED <<decision, rows, armed>>
  BY DEF Reborn, db
<1>2. /\ run' = [a \in Runners |-> Idle] /\ queue' = [s \in Strategies |-> <<>>]
      /\ boot' = [pc |-> "disarm", todo |-> {}, old |-> {}] /\ life' = NewLife
  BY DEF Reborn
<1>3. NewLife \in Lives /\ NewLife.tried = {} /\ boot' \in Boots
  BY <1>2 DEF NewLife, Lives, Boots
<1>4. queue' \in [Strategies -> Seq(Keys)]
  BY <1>2
<1>5. Typed' /\ RunTyped'
  BY <1>1, <1>2, <1>3, <1>4, Distinct DEF ArmInv, Typed, RunTyped
<1>6. HeldIsLive' /\ QuietBoot' /\ LiveIsArmable' /\ TradeIsArmable' /\ ArmedWhenTraded'
  BY <1>2, <1>3, Distinct
     DEF HeldIsLive, InHand, QuietBoot, LiveIsArmable, TradeIsArmable, ArmedWhenTraded
<1> QED
  BY <1>5, <1>6 DEF ArmInv

LEMMA RunnerKeepsArmInv ==
  ASSUME ArmInv, NEW a \in Runners, RunnerStep(a) PROVE ArmInv'
BY LoadRowStep, JudgeStep, TradeStep, UpdateDecisionStep DEF RunnerStep

LEMMA NextKeepsArmInv == ArmInv /\ [IngestNext]_ivars => ArmInv'
<1> SUFFICES ASSUME ArmInv, [IngestNext]_ivars PROVE ArmInv'
  OBVIOUS
<1>1. Handlers \subseteq Runners /\ Strategies \subseteq Runners /\ Main \in Runners
  BY DEF Runners
<1>2. CASE \E h \in Handlers, k \in Keys : Receive(h, k)
  BY <1>2, ReceiveStep
<1>3. CASE \E h \in Handlers : HandlerStep(h)
  BY <1>1, <1>3, ExistsByKeyStep, InsertDuplicateStep, InsertPendingStep, SubmitStep,
     RunnerKeepsArmInv DEF HandlerStep
<1>4. CASE \E s \in Strategies : WorkerStep(s)
  BY <1>1, <1>4, TakeStep, RunnerKeepsArmInv DEF WorkerStep
<1>5. CASE BootStep
  BY <1>1, <1>5, BootDisarmStep, BootListStep, BootSubmitStep, BootAbandonStep,
     RunnerKeepsArmInv DEF BootStep
<1>6. CASE Arm \/ Disarm \/ Stop
  BY <1>6, OperatorStep
<1>7. CASE Exit \/ Crash
  BY <1>7, RebornStep DEF Exit, Crash
<1>8. CASE UNCHANGED ivars
  BY <1>8
     DEF ivars, db, ArmInv, Typed, RunTyped, HeldIsLive, InHand, Live, QuietBoot,
         LiveIsArmable, TradeIsArmable, ArmedWhenTraded
<1> QED
  BY <1>2, <1>3, <1>4, <1>5, <1>6, <1>7, <1>8 DEF IngestNext

(* No signal is handed to the trade service unless the system was armed in *)
(* this life, at some moment since the signal's row exists: whatever the   *)
(* boot recovery re-submits, a restarted process does not trade before the *)
(* operator arms it again.                                                 *)
THEOREM UnarmedNeverTrades == IngestSpec => []ArmedWhenTraded
<1>1. ArmInv => ArmedWhenTraded
  BY DEF ArmInv
<1> QED
  BY <1>1, InitArmInv, NextKeepsArmInv, PTL DEF IngestSpec
=============================================================================
