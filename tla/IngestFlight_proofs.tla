------------------------- MODULE IngestFlight_proofs -------------------------
(***************************************************************************)
(* A signal is in flight at most once, none is forgotten, and the signals  *)
(* table keeps the promise of SignalLedger: for every number of signals,   *)
(* strategies, handlers, deliveries and restarts.                          *)
(*                                                                         *)
(* The argument: a signal in flight is in one place, which is a goroutine, *)
(* a slot of a channel, or one of the two sets main() works off at boot;   *)
(* only a pending row is in flight, and a step moves it from its place to  *)
(* another.  A new flight begins only with the INSERT that wrote the row,  *)
(* or at a boot, when nothing is in flight: then the listing of the table, *)
(* which has each row once, puts each pending one in one place.  A signal  *)
(* that was tried is in flight only as 'accepted'; one that an error       *)
(* stopped is not in flight, and not again in this life.                   *)
(*                                                                         *)
(* From there the order: a signal goes into a channel at most once in a    *)
(* life, channels and workers keep the order of submission, and what was   *)
(* submitted and not begun waits.  So a worker that begins on a signal has *)
(* begun on all that were submitted before it.                             *)
(***************************************************************************)
EXTENDS Ingest_proofs, FiniteSetTheorems, FunctionTheorems, SequenceTheorems

Busy == {"submit", "load", "judge", "trade", "decide"}

(* The places of a signal.                                                 *)
Held(k) == \E a \in Runners : InHand(a) /\ run[a].k = k
Queued(k) == \E s \in Strategies : \E i \in 1..Len(queue[s]) : queue[s][i] = k
Young(k) == k \in boot.todo
Old(k) == k \in boot.old
InFlight(k) == Held(k) \/ Queued(k) \/ Young(k) \/ Old(k)

OneHand == \A a, b \in Runners : InHand(a) /\ InHand(b) /\ run[a].k = run[b].k => a = b
OneSlot ==
  \A s, t \in Strategies : \A i \in 1..Len(queue[s]), j \in 1..Len(queue[t]) :
    queue[s][i] = queue[t][j] => s = t /\ i = j
OnePlace(k) ==
  /\ Held(k) => ~Queued(k) /\ ~Young(k) /\ ~Old(k)
  /\ Queued(k) => ~Young(k) /\ ~Old(k)
  /\ ~(Young(k) /\ Old(k))

Up == boot.pc \in {"submit", "run", "drain"}
Sound(k) ==
  /\ OnePlace(k)
  /\ InFlight(k) => decision[k] = "pending"
  /\ k \in life.tried => decision[k] # "absent" /\ ~Queued(k) /\ ~Young(k) /\ ~Old(k)
  /\ decision[k] = "pending" /\ Up => InFlight(k) \/ k \in life.lost
AllSound == \A k \in Keys : Sound(k)

(* A signal that was tried is held only to be accepted.                    *)
HandsOK ==
  \A a \in Runners : InHand(a) /\ run[a].k \in life.tried =>
    run[a].pc = "decide" /\ run[a].d = "accepted"

(* The table has each signal once.                                         *)
RowsListed ==
  /\ \A m, n \in 1..Len(rows) : rows[m] = rows[n] => m = n
  /\ \A k \in Keys : decision[k] # "absent" <=> \E m \in 1..Len(rows) : rows[m] = k

BootOK ==
  /\ boot.pc \in {"disarm", "list"} =>
       (\A a \in Runners : run[a].pc = "idle") /\ (\A s \in Strategies : queue[s] = <<>>)
  /\ boot.pc # "submit" => boot.todo = {} /\ boot.old = {}
  /\ boot.pc \in {"disarm", "list", "submit"} =>
       life.tried = {} /\ \A a \in Runners : run[a].pc # "trade"
QueuesFit == \A s \in Strategies : Len(queue[s]) <= QueueCap

FlightInv ==
  ArmInv /\ OneHand /\ OneSlot /\ AllSound /\ HandsOK /\ RowsListed /\ BootOK /\ QueuesFit

----------------------------------------------------------------------------
(* What a step does to the hands.                                          *)

LEMMA HandKeeps ==
  ASSUME RunTyped, OneHand, NEW a \in Runners, NEW r \in RunRecords, run' = [run EXCEPT ![a] = r],
         InHand(a), r.pc \in Busy, r.k = run[a].k
  PROVE  OneHand' /\ \A j \in Keys : Held(j)' <=> Held(j)
<1>1. run'[a] = r /\ \A b \in Runners \ {a} : run'[b] = run[b]  BY DEF RunTyped
<1>2. OneHand'  BY <1>1 DEF OneHand, InHand, Busy
<1>3. \A b \in Runners : InHand(b)' <=> InHand(b)  BY <1>1 DEF InHand, Busy
<1>4. \A b \in Runners : run'[b].k = run[b].k  BY <1>1
<1> QED  BY <1>2, <1>3, <1>4 DEF Held

LEMMA HandDrops ==
  ASSUME RunTyped, OneHand, NEW a \in Runners, NEW r \in RunRecords, run' = [run EXCEPT ![a] = r],
         InHand(a), r.pc \notin Busy
  PROVE  OneHand' /\ \A j \in Keys : Held(j)' <=> Held(j) /\ j # run[a].k
<1>1. run'[a] = r /\ \A b \in Runners \ {a} : run'[b] = run[b]  BY DEF RunTyped
<1>2. ~InHand(a)' /\ \A b \in Runners \ {a} : (InHand(b)' <=> InHand(b)) /\ run'[b].k = run[b].k
  BY <1>1 DEF InHand, Busy
<1>3. OneHand'  BY <1>2 DEF OneHand
<1>4. ASSUME NEW j \in Keys PROVE Held(j)' <=> Held(j) /\ j # run[a].k
  BY <1>2 DEF Held, OneHand
<1> QED  BY <1>3, <1>4

LEMMA HandNone ==
  ASSUME RunTyped, OneHand, NEW a \in Runners, NEW r \in RunRecords, run' = [run EXCEPT ![a] = r],
         ~InHand(a), r.pc \notin Busy
  PROVE  OneHand' /\ \A j \in Keys : Held(j)' <=> Held(j)
<1>1. run'[a] = r /\ \A b \in Runners \ {a} : run'[b] = run[b]  BY DEF RunTyped
<1>2. ~InHand(a)' /\ \A b \in Runners \ {a} : (InHand(b)' <=> InHand(b)) /\ run'[b].k = run[b].k
  BY <1>1 DEF InHand, Busy
<1>3. OneHand'  BY <1>2 DEF OneHand
<1>4. ASSUME NEW j \in Keys PROVE Held(j)' <=> Held(j)
  BY <1>2 DEF Held
<1> QED  BY <1>3, <1>4

LEMMA HandTakes ==
  ASSUME RunTyped, OneHand, NEW a \in Runners, NEW r \in RunRecords, run' = [run EXCEPT ![a] = r],
         ~InHand(a), r.pc \in Busy, ~Held(r.k)
  PROVE  OneHand' /\ \A j \in Keys : Held(j)' <=> Held(j) \/ j = r.k
<1>1. run'[a] = r /\ \A b \in Runners \ {a} : run'[b] = run[b]  BY DEF RunTyped
<1>2. InHand(a)' /\ \A b \in Runners \ {a} : (InHand(b)' <=> InHand(b)) /\ run'[b].k = run[b].k
  BY <1>1 DEF InHand, Busy
<1>3. \A b \in Runners : InHand(b) => run[b].k # r.k  BY DEF Held
<1>4. OneHand'  BY <1>1, <1>2, <1>3 DEF OneHand
<1>5. ASSUME NEW j \in Keys PROVE Held(j)' <=> Held(j) \/ j = r.k
  BY <1>1, <1>2 DEF Held
<1> QED  BY <1>4, <1>5

----------------------------------------------------------------------------
(* What a step does to the channels.                                       *)

LEMMA SlotAdds ==
  ASSUME queue \in [Strategies -> Seq(Keys)], OneSlot, QueuesFit,
         NEW k \in Keys, HasRoom(k), Enqueue(k), ~Queued(k)
  PROVE  OneSlot' /\ QueuesFit' /\ \A j \in Keys : Queued(j)' <=> Queued(j) \/ j = k
<1> DEFINE u == StrategyOf[k]
<1>1. u \in Strategies /\ queue'[u] = Append(queue[u], k) /\ queue[u] \in Seq(Keys)
      /\ \A s \in Strategies \ {u} : queue'[s] = queue[s]
  BY IngestAssumption DEF Enqueue
<1> HIDE DEF u
<1>2. Len(queue'[u]) = Len(queue[u]) + 1 /\ Len(queue[u]) \in Nat
      /\ queue'[u][Len(queue[u]) + 1] = k
      /\ \A i \in 1..Len(queue[u]) : queue'[u][i] = queue[u][i]
  BY <1>1
<1>3. \A s \in Strategies : \A i \in 1..Len(queue[s]) : queue[s][i] # k  BY DEF Queued
<1>4. OneSlot'
  <2> SUFFICES ASSUME NEW s \in Strategies, NEW t \in Strategies,
                      NEW i \in 1..Len(queue'[s]), NEW j \in 1..Len(queue'[t]),
                      queue'[s][i] = queue'[t][j]
               PROVE  s = t /\ i = j
    BY DEF OneSlot
  <2>1. \/ i \in 1..Len(queue[s]) /\ queue'[s][i] = queue[s][i]
        \/ s = u /\ i = Len(queue[u]) + 1 /\ queue'[s][i] = k
    <3>1. CASE s = u  BY <1>2, <3>1
    <3>2. CASE s # u  BY <1>1, <3>2
    <3> QED  BY <3>1, <3>2
  <2>2. \/ j \in 1..Len(queue[t]) /\ queue'[t][j] = queue[t][j]
        \/ t = u /\ j = Len(queue[u]) + 1 /\ queue'[t][j] = k
    <3>1. CASE t = u  BY <1>2, <3>1
    <3>2. CASE t # u  BY <1>1, <3>2
    <3> QED  BY <3>1, <3>2
  <2> QED  BY <1>3, <2>1, <2>2 DEF OneSlot
<1>5. QueuesFit'
  <2>1. Len(queue[u]) + 1 <= QueueCap
    BY <1>1, <1>2, IngestAssumption DEF HasRoom, u
  <2> QED  BY <1>1, <1>2, <2>1 DEF QueuesFit
<1>6. ASSUME NEW j \in Keys, Queued(j)' PROVE Queued(j) \/ j = k
  <2>1. PICK s \in Strategies : \E i \in 1..Len(queue'[s]) : queue'[s][i] = j  BY <1>6 DEF Queued
  <2>2. PICK i \in 1..Len(queue'[s]) : queue'[s][i] = j  BY <2>1
  <2>3. CASE s # u  BY <1>1, <2>2, <2>3 DEF Queued
  <2>4. CASE s = u
    <3>1. i \in 1..Len(queue[u]) \/ i = Len(queue[u]) + 1  BY <1>2, <2>2, <2>4
    <3> QED  BY <1>2, <2>2, <2>4, <3>1 DEF Queued
  <2> QED  BY <2>3, <2>4
<1>7. ASSUME NEW j \in Keys, Queued(j) PROVE Queued(j)'
  <2>1. PICK s \in Strategies : \E i \in 1..Len(queue[s]) : queue[s][i] = j  BY <1>7 DEF Queued
  <2>2. PICK i \in 1..Len(queue[s]) : queue[s][i] = j  BY <2>1
  <2>3. i \in 1..Len(queue'[s]) /\ queue'[s][i] = j
    <3>1. CASE s # u  BY <1>1, <2>2, <3>1
    <3>2. CASE s = u  BY <1>2, <2>2, <3>2
    <3> QED  BY <3>1, <3>2
  <2> QED  BY <2>3 DEF Queued
<1>8. Queued(k)'
  <2>1. Len(queue[u]) + 1 \in 1..Len(queue'[u])  BY <1>2
  <2> QED  BY <1>1, <1>2, <2>1 DEF Queued
<1> QED  BY <1>4, <1>5, <1>6, <1>7, <1>8

LEMMA SlotTakes ==
  ASSUME queue \in [Strategies -> Seq(Keys)], OneSlot, QueuesFit,
         NEW s \in Strategies, queue[s] # <<>>, queue' = [queue EXCEPT ![s] = Tail(@)]
  PROVE  /\ OneSlot' /\ QueuesFit' /\ Queued(Head(queue[s])) /\ Head(queue[s]) \in Keys
         /\ \A j \in Keys : Queued(j)' <=> Queued(j) /\ j # Head(queue[s])
<1> DEFINE k == Head(queue[s])
<1>1. queue'[s] = Tail(queue[s]) /\ \A t \in Strategies \ {s} : queue'[t] = queue[t]
  OBVIOUS
<1>2. queue[s] \in Seq(Keys) /\ Len(queue[s]) \in Nat /\ Len(queue[s]) > 0
      /\ k = queue[s][1] /\ k \in Keys
  OBVIOUS
<1>3. Len(queue'[s]) = Len(queue[s]) - 1
      /\ \A i \in 1..(Len(queue[s]) - 1) : queue'[s][i] = queue[s][i + 1]
  BY <1>1, <1>2
<1> HIDE DEF k
<1>4. ASSUME NEW t \in Strategies, NEW i \in 1..Len(queue'[t])
      PROVE  \E m \in 1..Len(queue[t]) :
               queue'[t][i] = queue[t][m] /\ m = IF t = s THEN i + 1 ELSE i
  <2>1. CASE t = s
    <3>1. i + 1 \in 1..Len(queue[s]) /\ queue'[s][i] = queue[s][i + 1]  BY <1>2, <1>3, <2>1
    <3> QED  BY <2>1, <3>1
  <2>2. CASE t # s  BY <1>1, <2>2
  <2> QED  BY <2>1, <2>2
<1>5. OneSlot'
  <2> SUFFICES ASSUME NEW t \in Strategies, NEW v \in Strategies,
                      NEW i \in 1..Len(queue'[t]), NEW j \in 1..Len(queue'[v]),
                      queue'[t][i] = queue'[v][j]
               PROVE  t = v /\ i = j
    BY DEF OneSlot
  <2>1. PICK m \in 1..Len(queue[t]) : queue'[t][i] = queue[t][m] /\ m = IF t = s THEN i + 1 ELSE i
    BY <1>4
  <2>2. PICK n \in 1..Len(queue[v]) : queue'[v][j] = queue[v][n] /\ n = IF v = s THEN j + 1 ELSE j
    BY <1>4
  <2>3. t = v /\ m = n  BY <2>1, <2>2 DEF OneSlot
  <2>4. Len(queue'[t]) \in Nat  BY <1>1, <1>2, <1>3
  <2> QED  BY <2>1, <2>2, <2>3, <2>4
<1>6. QueuesFit'  BY <1>1, <1>2, <1>3, IngestAssumption DEF QueuesFit
<1>7. Queued(k)
  <2>1. 1 \in 1..Len(queue[s]) /\ queue[s][1] = k  BY <1>2
  <2> QED  BY <2>1 DEF Queued
<1>8. ASSUME NEW j \in Keys, Queued(j)' PROVE Queued(j) /\ j # k
  <2>1. PICK t \in Strategies : \E i \in 1..Len(queue'[t]) : queue'[t][i] = j  BY <1>8 DEF Queued
  <2>2. PICK i \in 1..Len(queue'[t]) : queue'[t][i] = j  BY <2>1
  <2>3. PICK m \in 1..Len(queue[t]) : queue'[t][i] = queue[t][m] /\ m = IF t = s THEN i + 1 ELSE i
    BY <1>4
  <2>4. Queued(j)  BY <2>2, <2>3 DEF Queued
  <2>5. j # k
    <3> SUFFICES ASSUME j = k PROVE FALSE  OBVIOUS
    <3>1. 1 \in 1..Len(queue[s]) /\ queue[s][1] = queue[t][m]  BY <1>2, <2>2, <2>3
    <3>2. t = s /\ m = 1  BY <3>1 DEF OneSlot
    <3>3. i + 1 = 1 /\ i \in Nat /\ i >= 1  BY <1>2, <1>3, <2>3, <3>2
    <3> QED  BY <3>3
  <2> QED  BY <2>4, <2>5
<1>9. ASSUME NEW j \in Keys, Queued(j), j # k PROVE Queued(j)'
  <2>1. PICK t \in Strategies : \E i \in 1..Len(queue[t]) : queue[t][i] = j  BY <1>9 DEF Queued
  <2>2. PICK i \in 1..Len(queue[t]) : queue[t][i] = j  BY <2>1
  <2>3. CASE t # s  BY <1>1, <2>2, <2>3 DEF Queued
  <2>4. CASE t = s
    <3>1. i # 1  BY <1>2, <1>9, <2>2, <2>4
    <3>2. i - 1 \in 1..Len(queue'[s]) /\ i - 1 \in 1..(Len(queue[s]) - 1)
      BY <1>2, <1>3, <2>2, <2>4, <3>1
    <3>3. queue'[s][i - 1] = queue[s][(i - 1) + 1] /\ (i - 1) + 1 = i  BY <1>3, <3>2, <2>2, <1>2, <2>4
    <3> QED  BY <2>2, <2>4, <3>2, <3>3 DEF Queued
  <2> QED  BY <2>3, <2>4
<1> QED  BY <1>2, <1>5, <1>6, <1>7, <1>8, <1>9 DEF k

----------------------------------------------------------------------------
(* How the invariant is kept.                                              *)

(* A signal whose places, row and history are as they were stays sound.    *)
LEMMA SameSound ==
  ASSUME NEW j \in Keys, Sound(j), Held(j)' <=> Held(j), Queued(j)' <=> Queued(j),
         Young(j)' <=> Young(j), Old(j)' <=> Old(j), decision'[j] = decision[j],
         (j \in life.tried)' <=> j \in life.tried, j \in life.lost => (j \in life.lost)',
         Up' => Up
  PROVE  Sound(j)'
BY DEF Sound, OnePlace, InFlight, Up

(* A step of goroutine a, about signal k, that leaves channels and boot    *)
(* alone.                                                                  *)
LEMMA RunnerMoves ==
  ASSUME FlightInv, ArmInv', UNCHANGED <<queue, boot>>, boot.pc \notin {"disarm", "list"},
         NEW a \in Runners, NEW r \in RunRecords, run' = [run EXCEPT ![a] = r], NEW k \in Keys,
         OneHand', \A j \in Keys \ {k} : Held(j)' <=> Held(j),
         \A j \in Keys \ {k} : decision'[j] = decision[j],
         \/ life'.tried = life.tried
         \/ InHand(a) /\ run[a].k = k /\ boot.pc # "submit" /\ life'.tried = life.tried \cup {k},
         life.lost \subseteq life'.lost,
         RowsListed', Sound(k)',
         r.pc \in Busy /\ r.k \in life'.tried => r.pc = "decide" /\ r.d = "accepted",
         r.pc = "trade" => boot.pc # "submit"
  PROVE  FlightInv'
<1>1. run'[a] = r /\ \A b \in Runners \ {a} : run'[b] = run[b]
  BY DEF FlightInv, ArmInv, RunTyped
<1>2. OneSlot' /\ QueuesFit'  BY DEF FlightInv, OneSlot, QueuesFit
<1>3. AllSound'
  <2>1. ASSUME NEW j \in Keys \ {k} PROVE Sound(j)'
    <3>1. Queued(j)' <=> Queued(j)  BY DEF Queued
    <3>2. (Young(j)' <=> Young(j)) /\ (Old(j)' <=> Old(j)) /\ (Up' <=> Up)  BY DEF Young, Old, Up
    <3> QED  BY <3>1, <3>2, <2>1, SameSound DEF FlightInv, AllSound
  <2> QED  BY <2>1 DEF AllSound
<1>4. HandsOK'
  <2> SUFFICES ASSUME NEW b \in Runners, InHand(b)', run'[b].k \in life'.tried
               PROVE  run'[b].pc = "decide" /\ run'[b].d = "accepted"
    BY DEF HandsOK
  <2>1. CASE b = a  BY <1>1, <2>1 DEF InHand, Busy
  <2>2. CASE b # a
    <3>1. run'[b] = run[b] /\ InHand(b)  BY <1>1, <2>2 DEF InHand
    <3>2. run[b].k \in life.tried
      BY <2>2, <3>1 DEF FlightInv, OneHand
    <3> QED  BY <3>1, <3>2 DEF FlightInv, HandsOK
  <2> QED  BY <2>1, <2>2
<1>5. BootOK'
  <2>1. boot.pc # "submit" => boot.todo = {} /\ boot.old = {}  BY DEF FlightInv, BootOK
  <2>2. boot.pc = "submit" => life.tried = {} /\ \A b \in Runners : run[b].pc # "trade"
    BY DEF FlightInv, BootOK
  <2>3. boot.pc = "submit" => life'.tried = {} /\ \A b \in Runners : run'[b].pc # "trade"
    BY <1>1, <2>2
  <2> QED  BY <2>1, <2>3 DEF BootOK
<1> QED  BY <1>2, <1>3, <1>4, <1>5 DEF FlightInv

(* The INSERT lists a new signal once.                                     *)
LEMMA InsertLists ==
  ASSUME Typed, RowsListed, NEW k \in Keys, NEW d \in {"pending", "duplicate"}, InsertRow(k, d)
  PROVE  RowsListed' /\ \A j \in Keys \ {k} : decision'[j] = decision[j]
<1>1. CASE decision[k] # "absent"
  BY <1>1 DEF InsertRow, RowsListed
<1>2. CASE decision[k] = "absent"
  <2>1. decision' = [decision EXCEPT ![k] = d] /\ rows' = Append(rows, k)
    BY <1>2 DEF InsertRow
  <2>2. rows \in Seq(Keys) /\ Len(rows) \in Nat /\ Len(rows') = Len(rows) + 1
        /\ rows'[Len(rows) + 1] = k /\ \A m \in 1..Len(rows) : rows'[m] = rows[m]
    BY <2>1 DEF Typed
  <2>3. decision'[k] = d /\ \A j \in Keys \ {k} : decision'[j] = decision[j]
    BY <2>1 DEF Typed
  <2>4. \A m \in 1..Len(rows) : rows[m] # k  BY <1>2 DEF RowsListed
  <2>5. ASSUME NEW m \in 1..Len(rows'), NEW n \in 1..Len(rows'), rows'[m] = rows'[n]
        PROVE  m = n
    <3>1. m \in 1..Len(rows) \/ m = Len(rows) + 1  BY <2>2
    <3>2. n \in 1..Len(rows) \/ n = Len(rows) + 1  BY <2>2
    <3> QED  BY <2>2, <2>4, <2>5, <3>1, <3>2 DEF RowsListed
  <2>6. ASSUME NEW j \in Keys PROVE decision'[j] # "absent" <=> \E m \in 1..Len(rows') : rows'[m] = j
    <3>1. CASE j = k
      <4>1. Len(rows) + 1 \in 1..Len(rows')  BY <2>2
      <4> QED  BY <2>2, <2>3, <3>1, <4>1
    <3>2. CASE j # k
      <4>1. \A m \in 1..Len(rows') : m \in 1..Len(rows) \/ m = Len(rows) + 1  BY <2>2
      <4>2. \A m \in 1..Len(rows) : m \in 1..Len(rows')  BY <2>2
      <4> QED  BY <2>2, <2>3, <3>2, <4>1, <4>2 DEF RowsListed
    <3> QED  BY <3>1, <3>2
  <2> QED  BY <2>3, <2>5, <2>6 DEF RowsListed
<1> QED  BY <1>1, <1>2

(* Nobody works before the boot has listed the table.                      *)
LEMMA WorksAfterList ==
  ASSUME FlightInv, NEW a \in Runners, run[a].pc # "idle"
  PROVE  boot.pc \notin {"disarm", "list"}
BY DEF FlightInv, BootOK

(* A decision that is made does not take a row out of the listing.         *)
LEMMA DecisionLists ==
  ASSUME RowsListed, UNCHANGED rows,
         \A j \in Keys : decision'[j] = "absent" <=> decision[j] = "absent"
  PROVE  RowsListed'
BY DEF RowsListed

----------------------------------------------------------------------------
(* One lemma per kind of step.                                             *)

LEMMA FlightInit == IngestInit => FlightInv
<1> SUFFICES ASSUME IngestInit PROVE FlightInv  OBVIOUS
<1>1. ArmInv  BY InitArmInv
<1>2. \A a \in Runners : run[a].pc = "idle" /\ ~InHand(a)
  BY Distinct DEF IngestInit, InHand
<1>3. \A s \in Strategies : queue[s] = <<>> /\ Len(queue[s]) = 0  BY DEF IngestInit
<1>4. \A k \in Keys : ~InFlight(k)  BY <1>2, <1>3 DEF InFlight, Held, Queued, Young, Old, IngestInit
<1>5. AllSound
  BY <1>4 DEF AllSound, Sound, OnePlace, InFlight, IngestInit, NewLife
<1>6. OneHand /\ OneSlot /\ HandsOK  BY <1>2, <1>3 DEF OneHand, OneSlot, HandsOK
<1>7. RowsListed  BY DEF IngestInit, RowsListed
<1>8. BootOK  BY <1>2, <1>3 DEF IngestInit, BootOK, NewLife
<1>9. QueuesFit  BY <1>3, IngestAssumption DEF QueuesFit
<1> QED  BY <1>1, <1>5, <1>6, <1>7, <1>8, <1>9 DEF FlightInv

LEMMA ReceiveFlight ==
  ASSUME FlightInv, ArmInv', NEW h \in Handlers, NEW k \in Keys, Receive(h, k) PROVE FlightInv'
<1> DEFINE r == [pc |-> IF k \in Cached THEN "duplicate" ELSE "exists", k |-> k, d |-> "none"]
<1>1. h \in Runners /\ r \in RunRecords /\ r.pc \notin Busy
  BY Record DEF Runners, Counters, Busy
<1>2. run' = [run EXCEPT ![h] = r] /\ boot.pc = "run" /\ ~InHand(h)
  BY DEF Receive, InHand
<1>3. UNCHANGED <<decision, rows, queue, boot, life>>  BY DEF Receive, db
<1> HIDE DEF r
<1>4. OneHand' /\ \A j \in Keys : Held(j)' <=> Held(j)
  BY <1>1, <1>2, HandNone DEF FlightInv, ArmInv
<1>5. RowsListed'  BY <1>3 DEF FlightInv, RowsListed
<1>6. Sound(k)'
  <2>1. Queued(k)' <=> Queued(k)  BY <1>3 DEF Queued
  <2>2. (Young(k)' <=> Young(k)) /\ (Old(k)' <=> Old(k)) /\ (Up' <=> Up)  BY <1>3 DEF Young, Old, Up
  <2> QED  BY <1>3, <1>4, <2>1, <2>2, SameSound DEF FlightInv, AllSound
<1> QED  BY <1>1, <1>2, <1>3, <1>4, <1>5, <1>6, RunnerMoves DEF Busy

LEMMA ExistsByKeyFlight ==
  ASSUME FlightInv, ArmInv', NEW h \in Handlers, ExistsByKey(h) PROVE FlightInv'
<1>k. PICK k \in Keys : k = run[h].k
  BY Working DEF ExistsByKey, Runners, FlightInv, ArmInv
<1>1. h \in Runners /\ run[h].pc = "exists" /\ ~InHand(h)
  BY DEF ExistsByKey, Runners, InHand
<1>2. UNCHANGED <<decision, rows, queue, boot, life>>  BY DEF ExistsByKey, db
<1> DEFINE q(l) == [pc |-> l, k |-> k, d |-> "none"]
<1>3. q("insert") \in RunRecords /\ q("duplicate") \in RunRecords
  BY Record DEF Counters
<1>4. \E l \in {"insert", "duplicate"} : run' = [run EXCEPT ![h] = q(l)] \/ run' = [run EXCEPT ![h] = Idle]
  BY <1>k DEF ExistsByKey, Go, Rest
<1>5. PICK r \in RunRecords : run' = [run EXCEPT ![h] = r] /\ r.pc \notin Busy
  BY <1>3, <1>4, RestingRecord DEF Busy
<1>6. OneHand' /\ \A j \in Keys : Held(j)' <=> Held(j)
  BY <1>1, <1>5, HandNone DEF FlightInv, ArmInv
<1>7. RowsListed'  BY <1>2 DEF FlightInv, RowsListed
<1>8. Sound(k)'
  <2>1. Queued(k)' <=> Queued(k)  BY <1>2 DEF Queued
  <2>2. (Young(k)' <=> Young(k)) /\ (Old(k)' <=> Old(k)) /\ (Up' <=> Up)  BY <1>2 DEF Young, Old, Up
  <2> QED  BY <1>2, <1>6, <2>1, <2>2, SameSound DEF FlightInv, AllSound
<1>9. boot.pc \notin {"disarm", "list"}  BY <1>1, WorksAfterList
<1> QED  BY <1>1, <1>2, <1>5, <1>6, <1>7, <1>8, <1>9, RunnerMoves DEF Busy

LEMMA InsertDuplicateFlight ==
  ASSUME FlightInv, ArmInv', NEW h \in Handlers, InsertDuplicate(h) PROVE FlightInv'
<1>k. PICK k \in Keys : k = run[h].k
  BY Working DEF InsertDuplicate, Runners, FlightInv, ArmInv
<1>1. h \in Runners /\ run[h].pc = "duplicate" /\ ~InHand(h)
  BY DEF InsertDuplicate, Runners, InHand
<1>2. UNCHANGED <<queue, boot, life>> /\ run' = [run EXCEPT ![h] = Idle]
  BY DEF InsertDuplicate, Rest
<1>3. InsertRow(k, "duplicate") \/ UNCHANGED <<decision, rows>>  BY <1>k DEF InsertDuplicate
<1>4. RowsListed' /\ \A j \in Keys \ {k} : decision'[j] = decision[j]
  BY <1>1, <1>3, InsertLists DEF FlightInv, ArmInv, RowsListed
<1>5. OneHand' /\ \A j \in Keys : Held(j)' <=> Held(j)
  BY <1>1, <1>2, RestingRecord, HandNone DEF FlightInv, ArmInv, Busy
<1>6. decision'[k] = decision[k] \/ (decision[k] = "absent" /\ decision'[k] = "duplicate")
  BY <1>1, <1>3 DEF InsertRow, FlightInv, ArmInv, Typed
<1>7. (Queued(k)' <=> Queued(k)) /\ (Young(k)' <=> Young(k)) /\ (Old(k)' <=> Old(k)) /\ (Up' <=> Up)
  BY <1>2 DEF Queued, Young, Old, Up
<1>8. Sound(k)'
  BY <1>1, <1>2, <1>5, <1>6, <1>7 DEF FlightInv, AllSound, Sound, OnePlace, InFlight
<1>9. boot.pc \notin {"disarm", "list"}  BY <1>1, WorksAfterList
<1> QED  BY <1>1, <1>2, <1>4, <1>5, <1>8, <1>9, RestingRecord, RunnerMoves DEF Busy

(* A flight begins with the INSERT that wrote the row.                     *)
LEMMA InsertPendingFlight ==
  ASSUME FlightInv, ArmInv', NEW h \in Handlers, InsertPending(h) PROVE FlightInv'
<1>k. PICK k \in Keys : k = run[h].k
  BY Working DEF InsertPending, Runners, FlightInv, ArmInv
<1> DEFINE r == [pc |-> "submit", k |-> k, d |-> "none"]
<1>1. h \in Runners /\ run[h].pc = "insert" /\ ~InHand(h)
  BY DEF InsertPending, Runners, InHand
<1>2. UNCHANGED <<queue, boot>> /\ life \in Lives  BY DEF InsertPending, FlightInv, ArmInv, Typed
<1>3. r \in RunRecords /\ r.pc = "submit" /\ r.k = k  BY <1>1, Record DEF Counters
<1>4. (Queued(k)' <=> Queued(k)) /\ (Young(k)' <=> Young(k)) /\ (Old(k)' <=> Old(k)) /\ (Up' <=> Up)
  BY <1>2 DEF Queued, Young, Old, Up
<1>5. boot.pc \notin {"disarm", "list"}  BY <1>1, WorksAfterList
<1>6. Sound(k)  BY <1>1 DEF FlightInv, AllSound
<1>7. CASE UNCHANGED <<decision, rows, life>> /\ run' = [run EXCEPT ![h] = Idle]
  <2>1. OneHand' /\ \A j \in Keys : Held(j)' <=> Held(j)
    BY <1>1, <1>7, RestingRecord, HandNone DEF FlightInv, ArmInv, Busy
  <2>2. RowsListed'  BY <1>7 DEF FlightInv, RowsListed
  <2>3. Sound(k)'  BY <1>1, <1>4, <1>6, <1>7, <2>1, SameSound
  <2> HIDE DEF r
  <2> QED  BY <1>1, <1>2, <1>5, <1>7, <2>1, <2>2, <2>3, RestingRecord, RunnerMoves DEF Busy
<1>8. ASSUME decision[k] = "absent", InsertRow(k, "pending")
      PROVE  /\ RowsListed' /\ \A j \in Keys \ {k} : decision'[j] = decision[j]
             /\ decision'[k] = "pending" /\ ~InFlight(k) /\ k \notin life.tried
  <2>1. RowsListed' /\ \A j \in Keys \ {k} : decision'[j] = decision[j]
    BY <1>1, <1>8, InsertLists DEF FlightInv, ArmInv
  <2>2. decision'[k] = "pending"  BY <1>1, <1>8 DEF InsertRow, FlightInv, ArmInv, Typed
  <2> QED  BY <1>6, <1>8, <2>1, <2>2 DEF Sound
<1> DEFINE noted == [life EXCEPT !.armable = IF armed THEN @ \cup {k} ELSE @]
<1>n. noted.tried = life.tried /\ noted.lost = life.lost /\ noted \in Lives
  <2>1. life.armable \cup {k} \in SUBSET Keys  BY <1>1, <1>2 DEF Lives
  <2> QED  BY <1>2, <2>1 DEF Lives
<1>9. CASE /\ decision[k] = "absent" /\ InsertRow(k, "pending")
           /\ run' = [run EXCEPT ![h] = r] /\ life' = noted
  <2> HIDE DEF noted
  <2>1. OneHand' /\ \A j \in Keys : Held(j)' <=> Held(j) \/ j = k
    BY <1>1, <1>3, <1>8, <1>9, HandTakes DEF FlightInv, ArmInv, Busy, InFlight
  <2>2. Sound(k)'
    BY <1>1, <1>4, <1>8, <1>9, <1>n, <2>1 DEF Sound, OnePlace, InFlight
  <2> HIDE DEF r
  <2> QED  BY <1>1, <1>2, <1>3, <1>5, <1>8, <1>9, <1>n, <2>1, <2>2, RunnerMoves DEF Busy
<1>10. CASE /\ decision[k] = "absent" /\ InsertRow(k, "pending")
            /\ run' = [run EXCEPT ![h] = Idle] /\ life' = [noted EXCEPT !.lost = @ \cup {k}]
  <2> HIDE DEF noted
  <2>1. OneHand' /\ \A j \in Keys : Held(j)' <=> Held(j)
    BY <1>1, <1>10, RestingRecord, HandNone DEF FlightInv, ArmInv, Busy
  <2>2. life'.tried = life.tried /\ life'.lost = life.lost \cup {k}
    BY <1>10, <1>n DEF Lives
  <2>3. Sound(k)'
    BY <1>1, <1>4, <1>8, <1>10, <2>1, <2>2 DEF Sound, OnePlace, InFlight
  <2> HIDE DEF r
  <2> QED  BY <1>1, <1>2, <1>5, <1>8, <1>10, <2>1, <2>2, <2>3, RestingRecord, RunnerMoves DEF Busy
<1> QED  BY <1>k, <1>7, <1>9, <1>10 DEF InsertPending, Go, Rest

LEMMA PlacesSame ==
  ASSUME UNCHANGED <<queue, boot>>
  PROVE  /\ \A j \in Keys : (Queued(j)' <=> Queued(j)) /\ (Young(j)' <=> Young(j))
                            /\ (Old(j)' <=> Old(j))
         /\ Up' <=> Up
BY DEF Queued, Young, Old, Up

(* Submit moves the signal from the handler into the channel, or keeps it. *)
LEMMA SubmitFlight ==
  ASSUME FlightInv, ArmInv', NEW h \in Handlers, Submit(h) PROVE FlightInv'
<1>k. PICK k \in Keys : k = run[h].k
  BY Working DEF Submit, Runners, FlightInv, ArmInv
<1> DEFINE r == [pc |-> "load", k |-> k, d |-> "none"]
<1>1. h \in Runners /\ run[h].pc = "submit" /\ InHand(h)
  BY DEF Submit, Runners, InHand
<1>2. Held(k) /\ ~Queued(k) /\ ~Young(k) /\ ~Old(k) /\ decision[k] = "pending"
      /\ k \notin life.tried
  BY <1>1, <1>k DEF FlightInv, AllSound, Sound, OnePlace, InFlight, Held, HandsOK
<1>3. UNCHANGED <<decision, rows, boot>> /\ boot.pc \notin {"disarm", "list"}
  BY <1>1, WorksAfterList DEF Submit, db
<1>4. RowsListed'  BY <1>3 DEF FlightInv, RowsListed
<1>5. CASE HasRoom(k) /\ Enqueue(k) /\ Rest(h) /\ Channelled(k)
  <2>1. run' = [run EXCEPT ![h] = Idle]  BY <1>5 DEF Rest
  <2>2. OneHand' /\ \A j \in Keys : Held(j)' <=> Held(j) /\ j # k
    BY <1>1, <1>k, <2>1, RestingRecord, HandDrops DEF FlightInv, ArmInv, Busy
  <2>3. OneSlot' /\ QueuesFit' /\ \A j \in Keys : Queued(j)' <=> Queued(j) \/ j = k
    BY <1>2, <1>5, SlotAdds DEF FlightInv, ArmInv, Typed
  <2>4. life'.tried = life.tried /\ life'.lost = life.lost
    BY <1>5 DEF Channelled, FlightInv, ArmInv, Typed, Lives
  <2>5. \A j \in Keys : (Young(j)' <=> Young(j)) /\ (Old(j)' <=> Old(j)) /\ (Up' <=> Up)
    BY <1>3 DEF Young, Old, Up
  <2>6. AllSound'
    <3>1. Sound(k)'
      BY <1>2, <1>3, <2>2, <2>3, <2>4, <2>5 DEF Sound, OnePlace, InFlight
    <3>2. ASSUME NEW j \in Keys \ {k} PROVE Sound(j)'
      BY <1>3, <2>2, <2>3, <2>4, <2>5, SameSound DEF FlightInv, AllSound
    <3> QED  BY <3>1, <3>2 DEF AllSound
  <2>7. HandsOK' /\ BootOK'
    <3>1. run'[h] = Idle /\ \A b \in Runners \ {h} : run'[b] = run[b]
      BY <2>1 DEF FlightInv, ArmInv, RunTyped
    <3>2. HandsOK'  BY <2>4, <3>1, RestingRecord DEF FlightInv, HandsOK, InHand
    <3>3. \A b \in Runners : run'[b].pc = run[b].pc \/ run'[b].pc = "idle"
      BY <3>1, RestingRecord
    <3>4. BootOK'  BY <1>3, <2>4, <3>3 DEF FlightInv, BootOK
    <3> QED  BY <3>2, <3>4
  <2> QED  BY <1>4, <2>2, <2>3, <2>6, <2>7 DEF FlightInv
<1>6. CASE Go(h, "load", "none") /\ UNCHANGED <<queue, life>>
  <2>1. run' = [run EXCEPT ![h] = r]  BY <1>6, <1>k DEF Go
  <2>2. r \in RunRecords /\ r.pc = "load" /\ r.k = k  BY Record DEF Counters
  <2> HIDE DEF r
  <2>3. OneHand' /\ \A j \in Keys : Held(j)' <=> Held(j)
    BY <1>1, <1>k, <2>1, <2>2, HandKeeps DEF FlightInv, ArmInv, Busy
  <2>4. Sound(k)'
    BY <1>3, <1>6, <2>3, PlacesSame, SameSound DEF FlightInv, AllSound
  <2> QED  BY <1>1, <1>2, <1>3, <1>4, <1>6, <2>1, <2>2, <2>3, <2>4, RunnerMoves DEF Busy
<1> QED  BY <1>k, <1>5, <1>6 DEF Submit

(* A worker takes the signal out of its channel.                           *)
LEMMA TakeFlight ==
  ASSUME FlightInv, ArmInv', NEW s \in Strategies, Take(s) PROVE FlightInv'
<1>1. s \in Runners /\ ~InHand(s) /\ queue[s] # <<>> /\ queue' = [queue EXCEPT ![s] = Tail(@)]
  BY DEF Take, Runners, InHand
<1>k. PICK k \in Keys : k = Head(queue[s])
  BY <1>1, SlotTakes DEF FlightInv, ArmInv, Typed
<1> DEFINE r == [pc |-> "load", k |-> k, d |-> "none"]
<1>2. /\ OneSlot' /\ QueuesFit' /\ Queued(k)
      /\ \A j \in Keys : Queued(j)' <=> Queued(j) /\ j # k
  BY <1>1, <1>k, SlotTakes DEF FlightInv, ArmInv, Typed
<1>3. ~Held(k) /\ ~Young(k) /\ ~Old(k) /\ decision[k] = "pending" /\ k \notin life.tried
  BY <1>2 DEF FlightInv, AllSound, Sound, OnePlace, InFlight
<1>4. UNCHANGED <<decision, rows, boot, life>> /\ run' = [run EXCEPT ![s] = r]
  BY <1>k DEF Take, db
<1>5. r \in RunRecords /\ r.pc = "load" /\ r.k = k  BY Record DEF Counters
<1> HIDE DEF r
<1>6. OneHand' /\ \A j \in Keys : Held(j)' <=> Held(j) \/ j = k
  BY <1>1, <1>3, <1>4, <1>5, HandTakes DEF FlightInv, ArmInv, Busy
<1>7. \A j \in Keys : (Young(j)' <=> Young(j)) /\ (Old(j)' <=> Old(j)) /\ (Up' <=> Up)
  BY <1>4 DEF Young, Old, Up
<1>8. AllSound'
  <2>1. Sound(k)'
    BY <1>2, <1>3, <1>4, <1>6, <1>7 DEF Sound, OnePlace, InFlight
  <2>2. ASSUME NEW j \in Keys \ {k} PROVE Sound(j)'
    BY <1>2, <1>4, <1>6, <1>7, SameSound DEF FlightInv, AllSound
  <2> QED  BY <2>1, <2>2 DEF AllSound
<1>9. run'[s] = r /\ \A b \in Runners \ {s} : run'[b] = run[b]
  BY <1>4 DEF FlightInv, ArmInv, RunTyped
<1>10. HandsOK'  BY <1>3, <1>4, <1>5, <1>9 DEF FlightInv, HandsOK, InHand
<1>11. boot.pc \notin {"disarm", "list"}  BY <1>1 DEF FlightInv, BootOK
<1>12. BootOK'  BY <1>4, <1>5, <1>9, <1>11 DEF FlightInv, BootOK
<1>13. RowsListed'  BY <1>4 DEF FlightInv, RowsListed
<1> QED  BY <1>2, <1>6, <1>8, <1>10, <1>12, <1>13 DEF FlightInv

(* What a goroutine that has signal k in hand knows of it.                 *)
LEMMA InHandOnly ==
  ASSUME FlightInv, NEW a \in Runners, InHand(a), NEW k \in Keys, k = run[a].k
  PROVE  Held(k) /\ ~Queued(k) /\ ~Young(k) /\ ~Old(k) /\ decision[k] = "pending"
BY DEF FlightInv, AllSound, Sound, OnePlace, InFlight, Held

(* The goroutine goes on with the signal, nothing else happens.            *)
LEMMA GoesOn ==
  ASSUME FlightInv, ArmInv', NEW a \in Runners, NEW k \in Keys, k = run[a].k, InHand(a),
         NEW r \in RunRecords, run' = [run EXCEPT ![a] = r], r.k = k, r.pc \in Busy,
         UNCHANGED <<decision, rows, queue, boot>>,
         life'.tried = life.tried, life.lost \subseteq life'.lost,
         k \in life.tried => r.pc = "decide" /\ r.d = "accepted",
         r.pc = "trade" => boot.pc # "submit"
  PROVE  FlightInv'
<1>1. OneHand' /\ \A j \in Keys : Held(j)' <=> Held(j)
  BY HandKeeps DEF FlightInv, ArmInv
<1>2. Sound(k)'  BY <1>1, PlacesSame, SameSound DEF FlightInv, AllSound
<1>3. RowsListed'  BY DEF FlightInv, RowsListed
<1>4. boot.pc \notin {"disarm", "list"}  BY WorksAfterList DEF InHand
<1> QED  BY <1>1, <1>2, <1>3, <1>4, RunnerMoves

(* The goroutine lets go of the signal: decided, or lost to an error.      *)
LEMMA LetsGo ==
  ASSUME FlightInv, ArmInv', NEW a \in Runners, NEW k \in Keys, k = run[a].k, InHand(a),
         run' = [run EXCEPT ![a] = Idle], UNCHANGED <<rows, queue, boot>>,
         \A j \in Keys \ {k} : decision'[j] = decision[j], decision'[k] # "absent",
         life'.tried = life.tried, life.lost \subseteq life'.lost,
         decision'[k] = "pending" => k \in life'.lost
  PROVE  FlightInv'
<1>1. OneHand' /\ \A j \in Keys : Held(j)' <=> Held(j) /\ j # k
  BY RestingRecord, HandDrops DEF FlightInv, ArmInv, Busy
<1>2. Sound(k)'
  BY <1>1, InHandOnly, PlacesSame DEF Sound, OnePlace, InFlight
<1>3. RowsListed'
  <2>1. decision[k] = "pending"  BY InHandOnly
  <2> QED  BY <2>1, DecisionLists DEF FlightInv
<1>4. boot.pc \notin {"disarm", "list"}  BY WorksAfterList DEF InHand
<1> QED  BY <1>1, <1>2, <1>3, <1>4, RestingRecord, RunnerMoves DEF Busy

(* What an error of this life adds to the history.                         *)
LEMMA Lost ==
  ASSUME life \in Lives, NEW k \in Keys,
         \/ life' = life
         \/ life' = [life EXCEPT !.lost = life.lost \cup {k}]
         \/ life' = [life EXCEPT !.begun = life.begun \cup {k}]
         \/ life' = [life EXCEPT !.begun = life.begun \cup {k}, !.lost = life.lost \cup {k}]
  PROVE  life.lost \subseteq life'.lost
BY DEF Lives

LEMMA LoadRowFlight ==
  ASSUME FlightInv, ArmInv', NEW a \in Runners, LoadRow(a) PROVE FlightInv'
<1>k. PICK k \in Keys : k = run[a].k
  BY Working DEF LoadRow, FlightInv, ArmInv
<1> DEFINE r == [pc |-> "judge", k |-> k, d |-> "none"]
<1>1. run[a].pc = "load" /\ InHand(a) /\ k \notin life.tried
  BY <1>k DEF LoadRow, InHand, FlightInv, HandsOK
<1>2. UNCHANGED <<decision, rows, queue, boot>> /\ life \in Lives
  BY DEF LoadRow, db, FlightInv, ArmInv, Typed
<1>3. decision[k] = "pending"  BY <1>1, <1>k, InHandOnly
<1> DEFINE begun == [life EXCEPT !.begun = life.begun \cup {k}]
<1>4. begun \in Lives /\ begun.tried = life.tried /\ begun.lost = life.lost
  BY <1>2 DEF Lives
<1>5. CASE run' = [run EXCEPT ![a] = r] /\ life' = begun
  <2>1. r \in RunRecords /\ r.pc = "judge" /\ r.k = k  BY Record DEF Counters
  <2> HIDE DEF r, begun
  <2> QED  BY <1>1, <1>2, <1>4, <1>5, <1>k, <2>1, GoesOn DEF Busy
<1>6. CASE run' = [run EXCEPT ![a] = Idle] /\ life' = [begun EXCEPT !.lost = @ \cup {k}]
  <2> HIDE DEF begun
  <2>1. life'.tried = life.tried /\ life'.lost = life.lost \cup {k}
    BY <1>4, <1>6 DEF Lives
  <2> QED  BY <1>1, <1>2, <1>3, <1>6, <1>k, <2>1, LetsGo
<1> QED  BY <1>k, <1>3, <1>5, <1>6 DEF LoadRow, Go, Rest

LEMMA JudgeFlight ==
  ASSUME FlightInv, ArmInv', NEW a \in Runners, Judge(a) PROVE FlightInv'
<1>k. PICK k \in Keys : k = run[a].k
  BY Working DEF Judge, FlightInv, ArmInv
<1> DEFINE r(l, d) == [pc |-> l, k |-> k, d |-> d]
<1>1. run[a].pc = "judge" /\ InHand(a) /\ k \notin life.tried
  BY <1>k DEF Judge, InHand, FlightInv, HandsOK
<1>2. UNCHANGED <<decision, rows, queue, boot>> /\ life \in Lives
  BY DEF Judge, db, FlightInv, ArmInv, Typed
<1>3. armed => boot.pc # "submit"  BY DEF FlightInv, ArmInv, QuietBoot
<1>4. \/ UNCHANGED life /\ \E d \in Ledger!Verdicts : run' = [run EXCEPT ![a] = r("decide", d)]
      \/ UNCHANGED life /\ armed /\ run' = [run EXCEPT ![a] = r("trade", "none")]
      \/ Lose(k) /\ run' = [run EXCEPT ![a] = Idle]
  BY <1>k DEF Judge, Go, Rest, Ledger!Verdicts
<1>5. CASE UNCHANGED life /\ \E d \in Ledger!Verdicts : run' = [run EXCEPT ![a] = r("decide", d)]
  <2>1. PICK d \in Ledger!Verdicts : run' = [run EXCEPT ![a] = r("decide", d)]  BY <1>5
  <2>2. r("decide", d) \in RunRecords  BY Record DEF Counters
  <2> QED  BY <1>1, <1>2, <1>5, <1>k, <2>1, <2>2, GoesOn DEF Busy
<1>6. CASE UNCHANGED life /\ armed /\ run' = [run EXCEPT ![a] = r("trade", "none")]
  <2>1. r("trade", "none") \in RunRecords  BY Record DEF Counters
  <2> QED  BY <1>1, <1>2, <1>3, <1>6, <1>k, <2>1, GoesOn DEF Busy
<1>7. CASE Lose(k) /\ run' = [run EXCEPT ![a] = Idle]
  <2>1. life'.tried = life.tried /\ life'.lost = life.lost \cup {k}
    BY <1>2, <1>7 DEF Lose, Lives
  <2>2. decision[k] = "pending"  BY <1>1, <1>k, InHandOnly
  <2> QED  BY <1>1, <1>2, <1>7, <1>k, <2>1, <2>2, LetsGo
<1> QED  BY <1>4, <1>5, <1>6, <1>7

LEMMA TradeFlight ==
  ASSUME FlightInv, ArmInv', NEW a \in Runners, Trade(a) PROVE FlightInv'
<1>k. PICK k \in Keys : k = run[a].k
  BY Working DEF Trade, FlightInv, ArmInv
<1> DEFINE r == [pc |-> "decide", k |-> k, d |-> "accepted"]
<1>1. run[a].pc = "trade" /\ InHand(a)  BY DEF Trade, InHand
<1>2. UNCHANGED <<decision, rows, queue, boot>> /\ life \in Lives
  BY DEF Trade, db, FlightInv, ArmInv, Typed
<1>3. life'.tried = life.tried \cup {k} /\ life'.lost = life.lost
  BY <1>2, <1>k DEF Trade, Lives
<1>4. r \in RunRecords /\ r.pc = "decide" /\ r.k = k /\ r.d = "accepted"
  BY Record DEF Counters, Ledger!Verdicts
<1>5. run' = [run EXCEPT ![a] = r]  BY <1>k DEF Trade, Go
<1> HIDE DEF r
<1>6. OneHand' /\ \A j \in Keys : Held(j)' <=> Held(j)
  BY <1>1, <1>4, <1>5, <1>k, HandKeeps DEF FlightInv, ArmInv, Busy
<1>7. Sound(k)'
  BY <1>1, <1>2, <1>3, <1>6, <1>k, InHandOnly, PlacesSame DEF Sound, OnePlace, InFlight
<1>8. boot.pc \notin {"disarm", "list"} /\ boot.pc # "submit"
  BY <1>1 DEF FlightInv, BootOK
<1>9. RowsListed'  BY <1>2 DEF FlightInv, RowsListed
<1> QED  BY <1>1, <1>2, <1>3, <1>4, <1>5, <1>6, <1>7, <1>8, <1>9, <1>k, RunnerMoves DEF Busy

LEMMA UpdateDecisionFlight ==
  ASSUME FlightInv, ArmInv', NEW a \in Runners, UpdateDecision(a) PROVE FlightInv'
<1>k. PICK k \in Keys : k = run[a].k
  BY Working DEF UpdateDecision, FlightInv, ArmInv
<1>1. run[a].pc = "decide" /\ InHand(a) /\ run[a].d \in Ledger!Verdicts
  BY Working DEF UpdateDecision, InHand, FlightInv, ArmInv
<1>2. UNCHANGED <<rows, queue, boot>> /\ run' = [run EXCEPT ![a] = Idle]
      /\ life \in Lives /\ decision \in [Keys -> Decisions]
  BY DEF UpdateDecision, Rest, FlightInv, ArmInv, Typed
<1>3. decision[k] = "pending"  BY <1>1, <1>k, InHandOnly
<1>4. CASE decision' = [decision EXCEPT ![k] = run[a].d] /\ UNCHANGED life
  <2>1. decision'[k] \notin {"absent", "pending"} /\ \A j \in Keys \ {k} : decision'[j] = decision[j]
    BY <1>1, <1>2, <1>4 DEF Ledger!Verdicts
  <2> QED  BY <1>1, <1>2, <1>4, <1>k, <2>1, LetsGo
<1>5. CASE UNCHANGED decision /\ Lose(k)
  <2>1. life'.tried = life.tried /\ life'.lost = life.lost \cup {k}
    BY <1>2, <1>5 DEF Lose, Lives
  <2> QED  BY <1>1, <1>2, <1>3, <1>5, <1>k, <2>1, LetsGo
<1> QED  BY <1>3, <1>4, <1>5, <1>k DEF UpdateDecision

----------------------------------------------------------------------------
(* main(), the operator, and a new life.                                   *)

(* While nobody works, nothing is held and no channel has anything.        *)
LEMMA NothingYet ==
  ASSUME FlightInv, boot.pc \in {"disarm", "list"}
  PROVE  /\ \A k \in Keys : ~Held(k) /\ ~Queued(k) /\ ~Young(k) /\ ~Old(k)
         /\ life.tried = {}
         /\ \A a \in Runners : run[a].pc = "idle" /\ ~InHand(a)
<1>1. \A a \in Runners : run[a].pc = "idle" /\ ~InHand(a)  BY DEF FlightInv, BootOK, InHand
<1>2. \A s \in Strategies : Len(queue[s]) = 0  BY DEF FlightInv, BootOK
<1> QED  BY <1>1, <1>2 DEF FlightInv, BootOK, Held, Queued, Young, Old

LEMMA BootDisarmFlight == ASSUME FlightInv, ArmInv', BootDisarm PROVE FlightInv'
<1>1. UNCHANGED <<decision, rows, queue, run, life>> /\ boot.pc = "disarm"
      /\ boot' = [boot EXCEPT !.pc = "list"] /\ boot \in Boots
  BY DEF BootDisarm, FlightInv, ArmInv, Typed
<1>2. boot'.pc = "list" /\ boot'.todo = boot.todo /\ boot'.old = boot.old
  BY <1>1 DEF Boots
<1>3. OneHand' /\ OneSlot' /\ HandsOK' /\ RowsListed' /\ QueuesFit'
  BY <1>1 DEF FlightInv, OneHand, OneSlot, HandsOK, RowsListed, QueuesFit, InHand
<1>4. \A j \in Keys : (Held(j)' <=> Held(j)) /\ (Queued(j)' <=> Queued(j))
  BY <1>1 DEF Held, InHand, Queued
<1>5. \A j \in Keys : (Young(j)' <=> Young(j)) /\ (Old(j)' <=> Old(j)) /\ ~Up'
  BY <1>2 DEF Young, Old, Up
<1>6. AllSound'  BY <1>1, <1>4, <1>5, SameSound DEF FlightInv, AllSound
<1>7. BootOK'  BY <1>1, <1>2 DEF FlightInv, BootOK
<1> QED  BY <1>3, <1>6, <1>7 DEF FlightInv

(* The listing puts each pending row in one place.                         *)
LEMMA BootListFlight == ASSUME FlightInv, ArmInv', BootList PROVE FlightInv'
<1>1. UNCHANGED <<decision, rows, queue, run>> /\ boot.pc = "list" /\ boot \in Boots
      /\ rows \in Seq(Keys) /\ Len(rows) \in Nat /\ life \in Lives
  BY DEF BootList, db, FlightInv, ArmInv, Typed
<1>2. OneHand' /\ OneSlot' /\ RowsListed' /\ QueuesFit'
  BY <1>1 DEF FlightInv, OneHand, OneSlot, RowsListed, QueuesFit, InHand
<1>3. \A k \in Keys : ~Held(k)' /\ ~Queued(k)'
  <2>1. \A k \in Keys : ~Held(k) /\ ~Queued(k)  BY <1>1, NothingYet
  <2> QED  BY <1>1, <2>1 DEF Held, InHand, Queued
<1>4. \A a \in Runners : run'[a].pc = "idle" /\ ~InHand(a)'
  BY <1>1, NothingYet DEF InHand
<1>5. HandsOK'  BY <1>4 DEF HandsOK
<1>6. \A k \in Keys : decision[k] = "pending" => \E m \in 1..Len(rows) : rows[m] = k
  BY DEF FlightInv, RowsListed
<1>7. ASSUME NEW n \in 0..Len(rows), UNCHANGED life,
             boot' = [pc |-> "submit", todo |-> Pending(n + 1, Len(rows)), old |-> Pending(1, n)]
      PROVE  FlightInv'
  <2>1. life.tried = {}  BY <1>1, NothingYet
  <2>2. ASSUME NEW k \in Keys PROVE Sound(k)'
    <3>1. Young(k)' <=> \E m \in (n + 1)..Len(rows) : rows[m] = k /\ decision[k] = "pending"
      BY <1>7 DEF Young, Pending
    <3>2. Old(k)' <=> \E m \in 1..n : rows[m] = k /\ decision[k] = "pending"
      BY <1>7 DEF Old, Pending
    <3>3. ~(Young(k)' /\ Old(k)')
      <4> SUFFICES ASSUME NEW m \in (n + 1)..Len(rows), NEW j \in 1..n, rows[m] = rows[j]
                   PROVE  FALSE
        BY <3>1, <3>2
      <4>1. m \in 1..Len(rows) /\ j \in 1..Len(rows) /\ m # j  BY <1>1
      <4> QED  BY <4>1 DEF FlightInv, RowsListed
    <3>4. decision[k] = "pending" => Young(k)' \/ Old(k)'
      <4>1. \A m \in 1..Len(rows) : m \in (n + 1)..Len(rows) \/ m \in 1..n  BY <1>1
      <4> QED  BY <1>6, <3>1, <3>2, <4>1
    <3>5. Young(k)' \/ Old(k)' => decision[k] = "pending"  BY <3>1, <3>2
    <3> QED  BY <1>1, <1>3, <1>7, <2>1, <3>3, <3>4, <3>5 DEF Sound, OnePlace, InFlight
  <2>3. BootOK'  BY <1>4, <1>7, <2>1 DEF BootOK
  <2> QED  BY <1>2, <1>5, <2>2, <2>3 DEF FlightInv, AllSound
<1>8. ASSUME boot' = [boot EXCEPT !.pc = "run"], life' = [life EXCEPT !.lost = Pending(1, Len(rows))]
      PROVE  FlightInv'
  <2>1. boot'.pc = "run" /\ boot'.todo = {} /\ boot'.old = {}
    BY <1>1, <1>8 DEF Boots, FlightInv, BootOK
  <2>2. life'.tried = {} /\ life'.lost = Pending(1, Len(rows))
    BY <1>1, <1>8, NothingYet DEF Lives
  <2>3. ASSUME NEW k \in Keys PROVE Sound(k)'
    <3>1. ~Young(k)' /\ ~Old(k)'  BY <2>1 DEF Young, Old
    <3>2. decision[k] = "pending" => k \in Pending(1, Len(rows))  BY <1>6 DEF Pending
    <3> QED  BY <1>1, <1>3, <2>2, <3>1, <3>2 DEF Sound, OnePlace, InFlight
  <2>4. BootOK'  BY <2>1 DEF BootOK
  <2> QED  BY <1>2, <1>5, <2>3, <2>4 DEF FlightInv, AllSound
<1> QED  BY <1>7, <1>8 DEF BootList

(* A young row goes into its channel, or main() works on it.               *)
LEMMA BootSubmitFlight == ASSUME FlightInv, ArmInv', BootSubmit PROVE FlightInv'
<1>1. PICK k \in boot.todo : SubmitYoung(k)  BY DEF BootSubmit
<1>2. k \in Keys /\ Young(k) /\ boot \in Boots /\ boot.pc = "submit" /\ Main \in Runners
      /\ ~InHand(Main) /\ life \in Lives
  BY DEF BootSubmit, FlightInv, ArmInv, Typed, Boots, Young, Runners, InHand
<1>3. ~Held(k) /\ ~Queued(k) /\ ~Old(k) /\ decision[k] = "pending" /\ k \notin life.tried
  BY <1>2 DEF FlightInv, AllSound, Sound, OnePlace, InFlight
<1>4. UNCHANGED <<decision, rows>> /\ boot' = [boot EXCEPT !.todo = @ \ {k}]
  BY <1>1 DEF SubmitYoung, db
<1>5. boot'.pc = "submit" /\ boot'.todo = boot.todo \ {k} /\ boot'.old = boot.old
  BY <1>2, <1>4 DEF Boots
<1>6. \A j \in Keys : (Young(j)' <=> Young(j) /\ j # k) /\ (Old(j)' <=> Old(j)) /\ (Up' <=> Up)
  BY <1>2, <1>5 DEF Young, Old, Up
<1>7. RowsListed'  BY <1>4 DEF FlightInv, RowsListed
<1>8. CASE /\ HasRoom(k) /\ Enqueue(k) /\ UNCHANGED run
           /\ life' = [life EXCEPT !.subs = Append(@, k), !.recovered = @ \cup {k}]
  <2>1. life'.tried = life.tried /\ life'.lost = life.lost  BY <1>2, <1>8 DEF Lives
  <2>2. OneSlot' /\ QueuesFit' /\ \A j \in Keys : Queued(j)' <=> Queued(j) \/ j = k
    BY <1>2, <1>3, <1>8, SlotAdds DEF FlightInv, ArmInv, Typed
  <2>3. \A j \in Keys : Held(j)' <=> Held(j)  BY <1>8 DEF Held, InHand
  <2>4. AllSound'
    <3>1. Sound(k)'
      BY <1>2, <1>3, <1>4, <1>6, <2>1, <2>2, <2>3 DEF Sound, OnePlace, InFlight
    <3>2. ASSUME NEW j \in Keys \ {k} PROVE Sound(j)'
      BY <1>4, <1>6, <2>1, <2>2, <2>3, SameSound DEF FlightInv, AllSound
    <3> QED  BY <3>1, <3>2 DEF AllSound
  <2>5. OneHand' /\ HandsOK' /\ BootOK'
    BY <1>2, <1>5, <1>8, <2>1 DEF FlightInv, OneHand, HandsOK, BootOK, InHand
  <2> QED  BY <1>7, <2>2, <2>4, <2>5 DEF FlightInv
<1>9. CASE /\ UNCHANGED <<queue, life>>
           /\ run' = [run EXCEPT ![Main] = [pc |-> "load", k |-> k, d |-> "none"]]
  <2> DEFINE r == [pc |-> "load", k |-> k, d |-> "none"]
  <2>1. r \in RunRecords /\ r.pc = "load" /\ r.k = k /\ run' = [run EXCEPT ![Main] = r]
    BY <1>2, <1>9, Record DEF Counters
  <2> HIDE DEF r
  <2>2. OneHand' /\ \A j \in Keys : Held(j)' <=> Held(j) \/ j = k
    BY <1>2, <1>3, <2>1, HandTakes DEF FlightInv, ArmInv, Busy
  <2>3. OneSlot' /\ QueuesFit' /\ \A j \in Keys : Queued(j)' <=> Queued(j)
    BY <1>9 DEF FlightInv, OneSlot, QueuesFit, Queued
  <2>4. AllSound'
    <3>1. Sound(k)'
      BY <1>2, <1>3, <1>4, <1>6, <1>9, <2>2, <2>3 DEF Sound, OnePlace, InFlight
    <3>2. ASSUME NEW j \in Keys \ {k} PROVE Sound(j)'
      BY <1>4, <1>6, <1>9, <2>2, <2>3, SameSound DEF FlightInv, AllSound
    <3> QED  BY <3>1, <3>2 DEF AllSound
  <2>5. run'[Main] = r /\ \A b \in Runners \ {Main} : run'[b] = run[b]
    BY <1>2, <2>1 DEF FlightInv, ArmInv, RunTyped
  <2>6. HandsOK'  BY <1>3, <1>9, <2>1, <2>5 DEF FlightInv, HandsOK, InHand
  <2>7. BootOK'  BY <1>2, <1>5, <1>9, <2>1, <2>5 DEF FlightInv, BootOK
  <2> QED  BY <1>7, <2>2, <2>3, <2>4, <2>6, <2>7 DEF FlightInv
<1> QED  BY <1>1, <1>8, <1>9 DEF SubmitYoung

(* The stale rows are given up, or left behind by an error.                *)
LEMMA BootAbandonFlight == ASSUME FlightInv, ArmInv', BootAbandon PROVE FlightInv'
<1>1. UNCHANGED <<rows, queue, run>> /\ boot.pc = "submit" /\ boot.todo = {}
      /\ boot' = [pc |-> "run", todo |-> {}, old |-> {}] /\ life \in Lives
  BY DEF BootAbandon, FlightInv, ArmInv, Typed
<1>2. \A j \in Keys : (Held(j)' <=> Held(j)) /\ (Queued(j)' <=> Queued(j))
  BY <1>1 DEF Held, InHand, Queued
<1>3. \A j \in Keys : ~Young(j)' /\ ~Old(j)' /\ ~Young(j) /\ Up
  BY <1>1 DEF Young, Old, Up
<1>4. life.tried = {} /\ life'.tried = {}
  <2>1. life.tried = {}  BY <1>1 DEF FlightInv, BootOK
  <2>2. life' = life \/ life' = [life EXCEPT !.lost = @ \cup boot.old]  BY DEF BootAbandon
  <2> QED  BY <1>1, <2>1, <2>2 DEF Lives
<1>5. ASSUME NEW j \in Keys
      PROVE  /\ ~Old(j) => decision'[j] = decision[j] /\ (j \in life.lost => j \in life'.lost)
             /\ Old(j) => decision'[j] = "abandoned"
                          \/ (decision'[j] = decision[j] /\ j \in life'.lost)
             /\ decision'[j] = "absent" <=> decision[j] = "absent"
  <2>1. CASE /\ decision' = [k \in Keys |->
                  IF k \in boot.old /\ decision[k] = "pending" THEN "abandoned" ELSE decision[k]]
             /\ UNCHANGED life
    <3>1. Old(j) => decision[j] = "pending"  BY DEF FlightInv, AllSound, Sound, InFlight
    <3> QED  BY <2>1, <3>1 DEF Old
  <2>2. CASE UNCHANGED decision /\ life' = [life EXCEPT !.lost = @ \cup boot.old]
    <3>1. life'.lost = life.lost \cup boot.old  BY <1>1, <2>2 DEF Lives
    <3> QED  BY <2>2, <3>1 DEF Old
  <2> QED  BY <2>1, <2>2 DEF BootAbandon
<1>6. AllSound'
  <2> SUFFICES ASSUME NEW j \in Keys PROVE Sound(j)'  BY DEF AllSound
  <2>1. Sound(j)  BY DEF FlightInv, AllSound
  <2>2. CASE Old(j)
    <3>1. ~Held(j) /\ ~Queued(j)  BY <2>1, <2>2 DEF Sound, OnePlace
    <3> QED  BY <1>2, <1>3, <1>4, <1>5, <2>2, <3>1 DEF Sound, OnePlace, InFlight
  <2>3. CASE ~Old(j)
    BY <1>2, <1>3, <1>4, <1>5, <2>1, <2>3 DEF Sound, OnePlace, InFlight
  <2> QED  BY <2>2, <2>3
<1>7. RowsListed'  BY <1>1, <1>5, DecisionLists DEF FlightInv
<1>8. OneHand' /\ OneSlot' /\ HandsOK' /\ QueuesFit'
  BY <1>1, <1>4 DEF FlightInv, OneHand, OneSlot, HandsOK, QueuesFit, InHand
<1>9. BootOK'  BY <1>1 DEF BootOK
<1> QED  BY <1>6, <1>7, <1>8, <1>9 DEF FlightInv

LEMMA OperatorFlight == ASSUME FlightInv, ArmInv', Arm \/ Disarm \/ Stop PROVE FlightInv'
<1>1. UNCHANGED <<decision, rows, queue, run>> /\ boot \in Boots /\ life \in Lives
  BY DEF Arm, Disarm, Stop, db, FlightInv, ArmInv, Typed
<1>2. life'.tried = life.tried /\ life'.lost = life.lost
  BY <1>1 DEF Arm, Disarm, Stop, Lives
<1>3. /\ boot'.todo = boot.todo /\ boot'.old = boot.old
      /\ boot.pc \in {"run", "drain"} /\ boot'.pc \in {"run", "drain"}
  BY <1>1 DEF Arm, Disarm, Stop, Boots
<1>4. \A j \in Keys : (Held(j)' <=> Held(j)) /\ (Queued(j)' <=> Queued(j))
  BY <1>1 DEF Held, InHand, Queued
<1>5. \A j \in Keys : (Young(j)' <=> Young(j)) /\ (Old(j)' <=> Old(j)) /\ Up
  BY <1>3 DEF Young, Old, Up
<1>6. AllSound'  BY <1>1, <1>2, <1>4, <1>5, SameSound DEF FlightInv, AllSound
<1>7. OneHand' /\ OneSlot' /\ HandsOK' /\ RowsListed' /\ QueuesFit'
  BY <1>1, <1>2 DEF FlightInv, OneHand, OneSlot, HandsOK, RowsListed, QueuesFit, InHand
<1>8. BootOK'  BY <1>3 DEF FlightInv, BootOK
<1> QED  BY <1>6, <1>7, <1>8 DEF FlightInv

LEMMA RebornFlight == ASSUME FlightInv, ArmInv', Reborn PROVE FlightInv'
<1>1. UNCHANGED <<decision, rows>> /\ run' = [a \in Runners |-> Idle]
      /\ queue' = [s \in Strategies |-> <<>>] /\ life' = NewLife
      /\ boot' = [pc |-> "disarm", todo |-> {}, old |-> {}]
  BY DEF Reborn, db
<1>2. \A a \in Runners : run'[a].pc = "idle" /\ ~InHand(a)'  BY <1>1, Distinct DEF InHand
<1>3. \A s \in Strategies : queue'[s] = <<>> /\ Len(queue'[s]) = 0  BY <1>1
<1>4. \A k \in Keys : ~Held(k)' /\ ~Queued(k)' /\ ~Young(k)' /\ ~Old(k)' /\ ~Up'
  BY <1>1, <1>2, <1>3 DEF Held, Queued, Young, Old, Up
<1>5. life'.tried = {}  BY <1>1 DEF NewLife
<1>6. AllSound'  BY <1>4, <1>5 DEF AllSound, Sound, OnePlace, InFlight
<1>7. OneHand' /\ OneSlot' /\ HandsOK'  BY <1>2, <1>3 DEF OneHand, OneSlot, HandsOK
<1>8. QueuesFit'  BY <1>3, IngestAssumption DEF QueuesFit
<1>9. RowsListed'  BY <1>1 DEF FlightInv, RowsListed
<1>10. BootOK'  BY <1>1, <1>2, <1>3, <1>5 DEF BootOK
<1> QED  BY <1>6, <1>7, <1>8, <1>9, <1>10 DEF FlightInv

LEMMA RunnerFlight ==
  ASSUME FlightInv, ArmInv', NEW a \in Runners, RunnerStep(a) PROVE FlightInv'
BY LoadRowFlight, JudgeFlight, TradeFlight, UpdateDecisionFlight DEF RunnerStep

LEMMA NextFlight == FlightInv /\ [IngestNext]_ivars => FlightInv'
<1> SUFFICES ASSUME FlightInv, [IngestNext]_ivars PROVE FlightInv'  OBVIOUS
<1>1. Handlers \subseteq Runners /\ Strategies \subseteq Runners /\ Main \in Runners
  BY DEF Runners
<1>2. ArmInv'  BY NextKeepsArmInv DEF FlightInv
<1>3. CASE \E h \in Handlers, k \in Keys : Receive(h, k)  BY <1>2, <1>3, ReceiveFlight
<1>4. CASE \E h \in Handlers : HandlerStep(h)
  BY <1>1, <1>2, <1>4, ExistsByKeyFlight, InsertDuplicateFlight, InsertPendingFlight,
     SubmitFlight, RunnerFlight DEF HandlerStep
<1>5. CASE \E s \in Strategies : WorkerStep(s)
  BY <1>1, <1>2, <1>5, TakeFlight, RunnerFlight DEF WorkerStep
<1>6. CASE BootStep
  BY <1>1, <1>2, <1>6, BootDisarmFlight, BootListFlight, BootSubmitFlight, BootAbandonFlight,
     RunnerFlight DEF BootStep
<1>7. CASE Arm \/ Disarm \/ Stop  BY <1>2, <1>7, OperatorFlight
<1>8. CASE Exit \/ Crash  BY <1>2, <1>8, RebornFlight DEF Exit, Crash
<1>9. CASE UNCHANGED ivars
  <2>1. UNCHANGED <<decision, rows, queue, run, boot, life>>  BY <1>9 DEF ivars, db
  <2>2. \A j \in Keys : (Held(j)' <=> Held(j))  BY <2>1 DEF Held, InHand
  <2>3. AllSound'  BY <2>1, <2>2, PlacesSame, SameSound DEF FlightInv, AllSound
  <2> QED  BY <1>2, <2>1, <2>3
        DEF FlightInv, OneHand, OneSlot, HandsOK, RowsListed, BootOK, QueuesFit, InHand
<1> QED  BY <1>3, <1>4, <1>5, <1>6, <1>7, <1>8, <1>9 DEF IngestNext

----------------------------------------------------------------------------
(* The theorems.                                                           *)

(* The flights of a signal, as the property counts them, are its place.    *)
LEMMA AtMostOne ==
  ASSUME FlightInv, NEW k \in Keys
  PROVE  \A x, y \in Flights(k) : x = y
<1> DEFINE hands == {a \in Runners : run[a].k = k /\ run[a].pc \in Busy}
           slots == {x \in Strategies \X (1..QueueCap) :
                       x[2] <= Len(queue[x[1]]) /\ queue[x[1]][x[2]] = k}
           young == {<<"todo", j>> : j \in boot.todo \cap {k}}
           old == {<<"old", j>> : j \in boot.old \cap {k}}
<1>1. Flights(k) = hands \cup slots \cup young \cup old  BY DEF Flights, Busy
<1>2. \A x, y \in hands : x = y  BY DEF FlightInv, OneHand, InHand, Busy
<1>3. \A x \in hands : Held(k)  BY DEF Held, InHand, Busy
<1>4. ASSUME NEW x \in slots PROVE Queued(k) /\ x[1] \in Strategies /\ x[2] \in 1..Len(queue[x[1]])
      /\ queue[x[1]][x[2]] = k /\ x = <<x[1], x[2]>>
  <2>1. x[1] \in Strategies /\ x[2] \in 1..QueueCap /\ x[2] <= Len(queue[x[1]])
        /\ queue[x[1]][x[2]] = k /\ x = <<x[1], x[2]>>
    OBVIOUS
  <2>2. Len(queue[x[1]]) \in Nat  BY <2>1 DEF FlightInv, ArmInv, Typed
  <2>3. x[2] \in 1..Len(queue[x[1]])  BY <2>1, <2>2, IngestAssumption
  <2> QED  BY <2>1, <2>3 DEF Queued
<1>5. ASSUME NEW x \in slots, NEW y \in slots PROVE x = y
  <2>1. x[1] = y[1] /\ x[2] = y[2]
    <3>1. /\ x[1] \in Strategies /\ y[1] \in Strategies
          /\ x[2] \in 1..Len(queue[x[1]]) /\ y[2] \in 1..Len(queue[y[1]])
          /\ queue[x[1]][x[2]] = queue[y[1]][y[2]]
      BY <1>4
    <3> QED  BY <3>1 DEF FlightInv, OneSlot
  <2> QED  BY <1>4, <2>1
<1>6. \A x, y \in young : x = y /\ Young(k)  BY DEF Young
<1>7. \A x, y \in old : x = y /\ Old(k)  BY DEF Old
<1>8. OnePlace(k)  BY DEF FlightInv, AllSound, Sound
<1> HIDE DEF hands, slots, young, old
<1> QED  BY <1>1, <1>2, <1>3, <1>4, <1>5, <1>6, <1>7, <1>8 DEF OnePlace

(* A signal is never in flight twice, whatever is delivered again, evicted *)
(* from the LRU, recovered at boot or processed by its own handler, for    *)
(* every size of the channels and of the LRU (Receive, Submit, Process).   *)
THEOREM FlightsSingle == IngestSpec => []SingleFlight
<1>1. FlightInv => SingleFlight
  <2> SUFFICES ASSUME FlightInv, NEW k \in Keys PROVE Cardinality(Flights(k)) <= 1
    BY DEF SingleFlight
  <2>1. CASE Flights(k) = {}  BY <2>1, FS_EmptySet
  <2>2. CASE Flights(k) # {}
    <3>1. PICK x : x \in Flights(k)  BY <2>2
    <3>2. Flights(k) = {x}  BY <3>1, AtMostOne
    <3>3. Cardinality({x}) = 1  BY FS_Singleton
    <3>4. Cardinality(Flights(k)) = 1  BY <3>2, <3>3
    <3> QED  BY <3>4
  <2> QED  BY <2>1, <2>2
<1> QED  BY <1>1, FlightInit, NextFlight, PTL DEF IngestSpec

(* Once the process is up, a pending row is on its way to a decision, or   *)
(* an error of this life left it to the next boot.                         *)
THEOREM NeverForgotten == IngestSpec => []NothingForgotten
<1>1. FlightInv => NothingForgotten
  <2> SUFFICES ASSUME FlightInv, NEW k \in Keys, decision[k] = "pending",
                      boot.pc \in {"run", "drain"}
               PROVE  Flights(k) # {} \/ k \in life.lost
    BY DEF NothingForgotten
  <2>1. InFlight(k) \/ k \in life.lost  BY DEF FlightInv, AllSound, Sound, Up
  <2>2. CASE Held(k)
    <3>1. PICK a \in Runners : InHand(a) /\ run[a].k = k  BY <2>2 DEF Held
    <3>2. a \in Flights(k)  BY <3>1 DEF Flights, InHand
    <3> QED  BY <3>2
  <2>3. CASE Queued(k)
    <3>1. PICK s \in Strategies : \E i \in 1..Len(queue[s]) : queue[s][i] = k  BY <2>3 DEF Queued
    <3>2. PICK i \in 1..Len(queue[s]) : queue[s][i] = k  BY <3>1
    <3>3. Len(queue[s]) \in Nat /\ Len(queue[s]) <= QueueCap /\ QueueCap \in Nat
      BY IngestAssumption DEF FlightInv, QueuesFit, ArmInv, Typed
    <3>4. <<s, i>> \in Strategies \X (1..QueueCap) /\ i <= Len(queue[s])  BY <3>3
    <3>5. <<s, i>> \in Flights(k)  BY <3>2, <3>4 DEF Flights
    <3> QED  BY <3>5
  <2>4. CASE Young(k) \/ Old(k)  BY <2>4 DEF Young, Old, FlightInv, BootOK
  <2> QED  BY <2>1, <2>2, <2>3, <2>4 DEF InFlight
<1> QED  BY <1>1, FlightInit, NextFlight, PTL DEF IngestSpec

(* Each step of the process is a step of the ledger, or none.              *)
LEMMA LedgerStep ==
  ASSUME FlightInv, [IngestNext]_ivars PROVE [Ledger!LedgerNext]_(Ledger!ledgerVars)
<1>1. Handlers \subseteq Runners /\ Strategies \subseteq Runners /\ Main \in Runners
  BY DEF Runners
<1>2. life \in Lives /\ decision \in [Keys -> Decisions]  BY DEF FlightInv, ArmInv, Typed
<1>s. ASSUME UNCHANGED decision, life'.tried = life.tried
      PROVE  [Ledger!LedgerNext]_(Ledger!ledgerVars)
  BY <1>s DEF Ledger!ledgerVars
<1>3. ASSUME NEW a \in Runners, RunnerStep(a) PROVE [Ledger!LedgerNext]_(Ledger!ledgerVars)
  <2>k. PICK k \in Keys : k = run[a].k
    BY <1>3, Working DEF RunnerStep, LoadRow, Judge, Trade, UpdateDecision, FlightInv, ArmInv
  <2>1. CASE LoadRow(a)
    <3>1. life'.tried = life.tried
      <4> DEFINE begun == [life EXCEPT !.begun = life.begun \cup {k}]
      <4>1. begun \in Lives /\ begun.tried = life.tried  BY <1>2 DEF Lives
      <4>2. life' = begun \/ life' = [begun EXCEPT !.lost = @ \cup {k}]
        BY <2>1, <2>k DEF LoadRow
      <4> HIDE DEF begun
      <4> QED  BY <4>1, <4>2 DEF Lives
    <3> QED  BY <2>1, <3>1, <1>s DEF LoadRow, db
  <2>2. CASE Judge(a)
    <3>1. life'.tried = life.tried  BY <1>2, <2>2 DEF Judge, Lose, Lives
    <3> QED  BY <2>2, <3>1, <1>s DEF Judge, db
  <2>3. CASE Trade(a)
    <3>1. run[a].pc = "trade" /\ InHand(a)  BY <2>3 DEF Trade, InHand
    <3>2. decision[k] = "pending" /\ k \notin life.tried
      BY <2>k, <3>1, InHandOnly DEF FlightInv, HandsOK
    <3>3. life'.tried = life.tried \cup {k} /\ UNCHANGED decision
      BY <1>2, <2>3, <2>k DEF Trade, db, Lives
    <3>4. Ledger!Try(k)  BY <3>2, <3>3 DEF Ledger!Try
    <3> QED  BY <3>4 DEF Ledger!LedgerNext
  <2>4. CASE UpdateDecision(a)
    <3>1. run[a].pc = "decide" /\ InHand(a) /\ run[a].d \in Ledger!Verdicts
      BY <2>4, Working DEF UpdateDecision, InHand, FlightInv, ArmInv
    <3>2. decision[k] = "pending" /\ (k \in life.tried => run[a].d = "accepted")
      BY <2>k, <3>1, InHandOnly DEF FlightInv, HandsOK
    <3>3. life'.tried = life.tried  BY <1>2, <2>4 DEF UpdateDecision, Lose, Lives
    <3>4. CASE UNCHANGED decision  BY <3>3, <3>4, <1>s
    <3>5. CASE decision' = [decision EXCEPT ![k] = run[a].d]
      <4>1. run[a].d \in (IF k \in life.tried THEN {"accepted"} ELSE Ledger!Verdicts)
        BY <3>1, <3>2
      <4>2. Ledger!Write(k, "pending", run[a].d)  BY <3>2, <3>3, <3>5 DEF Ledger!Write
      <4>3. Ledger!Resolve(k)  BY <4>1, <4>2 DEF Ledger!Resolve
      <4> QED  BY <4>3 DEF Ledger!LedgerNext
    <3> QED  BY <2>4, <2>k, <3>4, <3>5 DEF UpdateDecision
  <2> QED  BY <1>3, <2>1, <2>2, <2>3, <2>4 DEF RunnerStep
<1>4. ASSUME NEW k \in Keys, NEW d \in {"pending", "duplicate"}, InsertRow(k, d),
             life'.tried = life.tried
      PROVE  [Ledger!LedgerNext]_(Ledger!ledgerVars)
  <2>1. CASE decision[k] # "absent"  BY <1>4, <2>1, <1>s DEF InsertRow
  <2>2. CASE decision[k] = "absent"
    <3>1. Ledger!Write(k, "absent", d)  BY <1>4, <2>2 DEF InsertRow, Ledger!Write
    <3>2. Ledger!Record(k)  BY <1>4, <3>1 DEF Ledger!Record
    <3> QED  BY <3>2 DEF Ledger!LedgerNext
  <2> QED  BY <2>1, <2>2
<1>5. ASSUME NEW h \in Handlers, HandlerStep(h) PROVE [Ledger!LedgerNext]_(Ledger!ledgerVars)
  <2>1. CASE ExistsByKey(h)  BY <2>1, <1>s DEF ExistsByKey, db
  <2>2. CASE InsertDuplicate(h)
    <3>1. run[h].k \in Keys  BY <1>1, <2>2, Working DEF InsertDuplicate, FlightInv, ArmInv
    <3> QED  BY <2>2, <3>1, <1>4, <1>s DEF InsertDuplicate
  <2>3. CASE InsertPending(h)
    <3>k. PICK k \in Keys : k = run[h].k
      BY <1>1, <2>3, Working DEF InsertPending, FlightInv, ArmInv
    <3> DEFINE noted == [life EXCEPT !.armable = IF armed THEN @ \cup {k} ELSE @]
    <3>1. noted \in Lives /\ noted.tried = life.tried
      <4>1. life.armable \cup {k} \in SUBSET Keys  BY <1>2 DEF Lives
      <4> QED  BY <1>2, <4>1 DEF Lives
    <3>2. life' \in {life, noted} \/ life' = [noted EXCEPT !.lost = @ \cup {k}]
      BY <2>3, <3>k DEF InsertPending
    <3>3. life'.tried = life.tried
      <4> HIDE DEF noted
      <4> QED  BY <3>1, <3>2 DEF Lives
    <3>4. InsertRow(k, "pending") \/ UNCHANGED decision  BY <2>3, <3>k DEF InsertPending
    <3> QED  BY <3>3, <3>4, <1>4, <1>s
  <2>4. CASE Submit(h)
    <3>1. life' = life \/ life' = [life EXCEPT !.subs = Append(@, run[h].k)]
      BY <2>4 DEF Submit, Channelled
    <3>2. life'.tried = life.tried  BY <1>2, <3>1 DEF Lives
    <3> QED  BY <2>4, <3>2, <1>s DEF Submit, db
  <2> QED  BY <1>1, <1>3, <1>5, <2>1, <2>2, <2>3, <2>4 DEF HandlerStep
<1>6. CASE BootStep
  <2>1. CASE BootDisarm  BY <2>1, <1>s DEF BootDisarm
  <2>2. CASE BootList
    <3>1. life' = life \/ life' = [life EXCEPT !.lost = Pending(1, Len(rows))]
      BY <2>2 DEF BootList
    <3>2. life'.tried = life.tried  BY <1>2, <3>1 DEF Lives
    <3> QED  BY <2>2, <3>2, <1>s DEF BootList, db
  <2>3. CASE BootSubmit
    <3>1. PICK k \in boot.todo : SubmitYoung(k)  BY <2>3 DEF BootSubmit
    <3>2. life' = life \/ life' = [life EXCEPT !.subs = Append(@, k), !.recovered = @ \cup {k}]
      BY <3>1 DEF SubmitYoung
    <3>3. life'.tried = life.tried  BY <1>2, <3>2 DEF Lives
    <3> QED  BY <3>1, <3>3, <1>s DEF SubmitYoung, db
  <2>4. CASE BootAbandon
    <3>1. boot.pc = "submit" /\ boot.old \subseteq Keys
      BY <2>4 DEF BootAbandon, FlightInv, ArmInv, Typed, Boots
    <3>2. life.tried = {}  BY <3>1 DEF FlightInv, BootOK
    <3>3. life'.tried = life.tried
      <4>1. life' = life \/ life' = [life EXCEPT !.lost = @ \cup boot.old]
        BY <2>4 DEF BootAbandon
      <4> QED  BY <1>2, <4>1 DEF Lives
    <3>4. CASE UNCHANGED decision  BY <3>3, <3>4, <1>s
    <3>5. CASE decision' = [k \in Keys |->
                 IF k \in boot.old /\ decision[k] = "pending" THEN "abandoned" ELSE decision[k]]
      <4> DEFINE S == {k \in boot.old : decision[k] = "pending"}
      <4>1. S \in SUBSET {k \in Keys : decision[k] = "pending"}  BY <3>1
      <4>2. decision' = [k \in Keys |-> IF k \in S THEN "abandoned" ELSE decision[k]]
        BY <3>5
      <4> HIDE DEF S
      <4>3. Ledger!GiveUp  BY <3>2, <3>3, <4>1, <4>2 DEF Ledger!GiveUp
      <4> QED  BY <4>3 DEF Ledger!LedgerNext
    <3> QED  BY <2>4, <3>4, <3>5 DEF BootAbandon
  <2> QED  BY <1>1, <1>3, <1>6, <2>1, <2>2, <2>3, <2>4 DEF BootStep
<1>7. CASE \E h \in Handlers, k \in Keys : Receive(h, k)
  BY <1>7, <1>s DEF Receive, db
<1>8. ASSUME NEW s \in Strategies, WorkerStep(s) PROVE [Ledger!LedgerNext]_(Ledger!ledgerVars)
  <2>1. CASE Take(s)  BY <2>1, <1>s DEF Take, db
  <2> QED  BY <1>1, <1>3, <1>8, <2>1 DEF WorkerStep
<1>9. CASE Arm \/ Disarm \/ Stop
  <2>1. UNCHANGED decision  BY <1>9 DEF Arm, Disarm, Stop, db
  <2>2. life'.tried = life.tried  BY <1>2, <1>9 DEF Arm, Disarm, Stop, Lives
  <2> QED  BY <2>1, <2>2, <1>s
<1>10. CASE Exit \/ Crash
  <2>1. UNCHANGED decision /\ life'.tried = {}
    BY <1>10 DEF Exit, Crash, Reborn, db, NewLife
  <2>2. Ledger!Restart  BY <2>1 DEF Ledger!Restart
  <2> QED  BY <2>2 DEF Ledger!LedgerNext
<1>11. CASE UNCHANGED ivars  BY <1>11, <1>s DEF ivars, db
<1> QED
  BY <1>5, <1>6, <1>7, <1>8, <1>9, <1>10, <1>11 DEF IngestNext

(* The process implements the ledger: a row is decided once and for ever,  *)
(* the trade service is called for a signal at most once in a life, only   *)
(* while its row is pending, and what was tried can only be 'accepted'.    *)
THEOREM LedgerImplemented == IngestSpec => LedgerKept
<1>1. IngestInit => Ledger!LedgerInit
  BY DEF IngestInit, NewLife, Ledger!LedgerInit
<1>2. FlightInv /\ [IngestNext]_ivars => [Ledger!LedgerNext]_(Ledger!ledgerVars)
  BY LedgerStep
<1> QED
  BY <1>1, <1>2, FlightInit, NextFlight, PTL DEF IngestSpec, LedgerKept, Ledger!LedgerSpec

----------------------------------------------------------------------------
(* The order of the signals of a strategy.                                 *)

(* The worker of a signal's strategy has taken it and not begun.           *)
AtWorker(k) ==
  run[StrategyOf[k]].pc = "load" /\ run[StrategyOf[k]].k = k
Waiting(k) == \E i \in 1..Len(queue[StrategyOf[k]]) : queue[StrategyOf[k]][i] = k
Ahead(j, k) == Precedes(life.subs, j, k)

(* A signal goes into a channel once in a life, after its INSERT.          *)
SubmittedOnce ==
  /\ \A m, n \in 1..Len(life.subs) : life.subs[m] = life.subs[n] => m = n
  /\ Submitted \cup life.begun \subseteq Live
(* What waits or is taken went through the channel of its strategy; what   *)
(* is still to be submitted, or is run by its own goroutine, did not.      *)
ChannelOf ==
  /\ \A s \in Strategies : \A i \in 1..Len(queue[s]) :
       queue[s][i] \in Submitted /\ StrategyOf[queue[s][i]] = s
  /\ \A s \in Strategies :
       run[s].pc = "load" => run[s].k \in Submitted /\ StrategyOf[run[s].k] = s
  /\ \A a \in Runners : run[a].pc = "submit" => run[a].k \notin Submitted \cup life.begun
  /\ \A a \in Runners \ Strategies : run[a].pc = "load" => run[a].k \notin Submitted
  /\ boot.todo \cap (Submitted \cup life.begun) = {}
(* A submitted signal that nobody has begun on waits, or its worker has it. *)
NoneSkipped == \A k \in Submitted : k \in life.begun \/ Waiting(k) \/ AtWorker(k)
(* Channels and workers keep the order of submission.                      *)
InOrder ==
  \A s \in Strategies :
    /\ \A m, n \in 1..Len(queue[s]) : m < n => Ahead(queue[s][m], queue[s][n])
    /\ run[s].pc = "load" => \A i \in 1..Len(queue[s]) : Ahead(run[s].k, queue[s][i])
BegunInOrder ==
  \A j, k \in Keys :
    StrategyOf[j] = StrategyOf[k] /\ Ahead(j, k) /\ k \in life.begun => j \in life.begun
(* Only main() submits before the boot is over, the oldest row first.      *)
BootFirst ==
  /\ boot.pc \in {"disarm", "list"} => Submitted = {} /\ life.begun = {}
  /\ boot.pc = "submit" =>
       Submitted \subseteq life.recovered /\ \A h \in Handlers : run[h].pc = "idle"
  /\ life.recovered \subseteq Submitted
  /\ \A j \in life.recovered, k \in Submitted \ life.recovered : Ahead(j, k)
  /\ \A j, k \in life.recovered : Precedes(rows, j, k) => Ahead(j, k)
  /\ \A j \in life.recovered, k \in boot.todo : ~Precedes(rows, k, j)

OrderInv ==
  SubmittedOnce /\ ChannelOf /\ NoneSkipped /\ InOrder /\ BegunInOrder /\ BootFirst

----------------------------------------------------------------------------
(* Sequences without repetition.                                           *)

LEMMA PrecedesAppend ==
  ASSUME NEW S, NEW q \in Seq(S), NEW k \in S
  PROVE  \A i, j : Precedes(Append(q, k), i, j) <=>
                     Precedes(q, i, j) \/ (j = k /\ \E n \in 1..Len(q) : q[n] = i)
<1> DEFINE p == Append(q, k)
<1>1. Len(q) \in Nat /\ DOMAIN q = 1..Len(q) /\ DOMAIN p = 1..(Len(q) + 1) /\ p[Len(q) + 1] = k
      /\ \A n \in 1..Len(q) : p[n] = q[n]
  OBVIOUS
<1> HIDE DEF p
<1> SUFFICES ASSUME NEW i, NEW j
             PROVE  Precedes(p, i, j) <=>
                      Precedes(q, i, j) \/ (j = k /\ \E n \in 1..Len(q) : q[n] = i)
  BY DEF p
<1>2. ASSUME Precedes(p, i, j)
      PROVE  Precedes(q, i, j) \/ (j = k /\ \E n \in 1..Len(q) : q[n] = i)
  <2>1. PICK m \in DOMAIN p, n \in DOMAIN p : m < n /\ p[m] = i /\ p[n] = j
    BY <1>2 DEF Precedes
  <2>2. m \in 1..Len(q)  BY <1>1, <2>1
  <2>3. CASE n \in 1..Len(q)  BY <1>1, <2>1, <2>2, <2>3 DEF Precedes
  <2>4. CASE n = Len(q) + 1  BY <1>1, <2>1, <2>2, <2>4
  <2> QED  BY <1>1, <2>1, <2>3, <2>4
<1>3. ASSUME Precedes(q, i, j) PROVE Precedes(p, i, j)
  <2>1. PICK m \in DOMAIN q, n \in DOMAIN q : m < n /\ q[m] = i /\ q[n] = j
    BY <1>3 DEF Precedes
  <2>2. m \in DOMAIN p /\ n \in DOMAIN p /\ p[m] = i /\ p[n] = j  BY <1>1, <2>1
  <2> QED  BY <2>1, <2>2 DEF Precedes
<1>4. ASSUME j = k, NEW n \in 1..Len(q), q[n] = i PROVE Precedes(p, i, j)
  <2>1. n \in DOMAIN p /\ Len(q) + 1 \in DOMAIN p /\ n < Len(q) + 1 /\ p[n] = i  BY <1>1, <1>4
  <2> QED  BY <1>1, <1>4, <2>1 DEF Precedes
<1> QED  BY <1>2, <1>3, <1>4

LEMMA PrecedesOnce ==
  ASSUME NEW S, NEW q \in Seq(S), \A m, n \in 1..Len(q) : q[m] = q[n] => m = n
  PROVE  \A i, j : Precedes(q, i, j) => ~Precedes(q, j, i)
<1> SUFFICES ASSUME NEW i, NEW j, Precedes(q, i, j), Precedes(q, j, i) PROVE FALSE  OBVIOUS
<1>1. Len(q) \in Nat /\ DOMAIN q = 1..Len(q)  OBVIOUS
<1>2. PICK m \in DOMAIN q, n \in DOMAIN q : m < n /\ q[m] = i /\ q[n] = j  BY DEF Precedes
<1>3. PICK u \in DOMAIN q, v \in DOMAIN q : u < v /\ q[u] = j /\ q[v] = i  BY DEF Precedes
<1>4. m = v /\ n = u  BY <1>1, <1>2, <1>3
<1> QED  BY <1>1, <1>2, <1>3, <1>4

LEMMA PrecedesMembers ==
  ASSUME NEW q, NEW i, NEW j, Precedes(q, i, j)
  PROVE  i \in {q[n] : n \in DOMAIN q} /\ j \in {q[n] : n \in DOMAIN q}
BY DEF Precedes

LEMMA AppendedMembers ==
  ASSUME NEW S, NEW q \in Seq(S), NEW k \in S
  PROVE  /\ {Append(q, k)[n] : n \in DOMAIN Append(q, k)} = {q[n] : n \in DOMAIN q} \cup {k}
         /\ {q[n] : n \in DOMAIN q} \subseteq S
<1> DEFINE p == Append(q, k)
<1>1. Len(q) \in Nat /\ DOMAIN q = 1..Len(q) /\ DOMAIN p = 1..(Len(q) + 1) /\ p[Len(q) + 1] = k
      /\ \A n \in 1..Len(q) : p[n] = q[n] /\ q[n] \in S
  OBVIOUS
<1> HIDE DEF p
<1>2. ASSUME NEW n \in DOMAIN p PROVE p[n] \in {q[m] : m \in DOMAIN q} \cup {k}
  <2>1. n \in 1..Len(q) \/ n = Len(q) + 1  BY <1>1
  <2> QED  BY <1>1, <2>1
<1>3. ASSUME NEW n \in DOMAIN q PROVE q[n] \in {p[m] : m \in DOMAIN p}
  <2>1. n \in DOMAIN p /\ p[n] = q[n]  BY <1>1
  <2> QED  BY <2>1
<1>4. Len(q) + 1 \in DOMAIN p  BY <1>1
<1>5. {p[n] : n \in DOMAIN p} = {q[n] : n \in DOMAIN q} \cup {k}  BY <1>1, <1>2, <1>3, <1>4
<1> QED  BY <1>1, <1>5 DEF p

----------------------------------------------------------------------------
(* How the order is kept.                                                  *)

(* A step of goroutines that leaves channels and submissions alone, and on *)
(* which no worker begins: it may write rows, and give a signal that has   *)
(* not been submitted to a handler or to main().                           *)
LEMMA OrderStays ==
  ASSUME FlightInv, OrderInv, queue' = queue, life'.subs = life.subs,
         life'.begun = life.begun, life'.recovered = life.recovered,
         Live \subseteq Live',
         \A a \in Runners :
           \/ run'[a] = run[a]
           \/ /\ a \in Strategies => run[a].pc # "load"
              /\ run'[a].pc = "submit" => run'[a].k \notin Submitted \cup life.begun
              /\ run'[a].pc = "load" => a \notin Strategies /\ run'[a].k \notin Submitted,
         boot'.todo \subseteq boot.todo \/ (Submitted = {} /\ life.begun = {}),
         boot'.pc \in {"disarm", "list"} => boot.pc \in {"disarm", "list"},
         boot'.pc = "submit" => \A h \in Handlers : run'[h].pc = "idle",
         boot'.pc = "submit" => boot.pc \in {"list", "submit"},
         \A i, j : Precedes(rows', i, j) /\ j \in Live => Precedes(rows, i, j)
  PROVE  OrderInv'
<1>1. Submitted' = Submitted /\ \A i, j : Ahead(i, j)' <=> Ahead(i, j)
  BY DEF Submitted, Ahead, Precedes
<1>2. Strategies \subseteq Runners  BY DEF Runners
<1>3. SubmittedOnce'  BY <1>1 DEF OrderInv, SubmittedOnce
<1>4. boot'.todo \cap (Submitted \cup life.begun) = {}  BY DEF OrderInv, ChannelOf
<1>5. ChannelOf'
  <2>1. ASSUME NEW s \in Strategies, run'[s].pc = "load"
        PROVE  run'[s].k \in Submitted /\ StrategyOf[run'[s].k] = s
    BY <1>2, <2>1 DEF OrderInv, ChannelOf
  <2>2. ASSUME NEW a \in Runners, run'[a].pc = "submit"
        PROVE  run'[a].k \notin Submitted \cup life.begun
    BY <2>2 DEF OrderInv, ChannelOf
  <2>3. ASSUME NEW a \in Runners \ Strategies, run'[a].pc = "load" PROVE run'[a].k \notin Submitted
    BY <2>3 DEF OrderInv, ChannelOf
  <2> QED  BY <1>1, <1>4, <2>1, <2>2, <2>3 DEF OrderInv, ChannelOf
<1>6. NoneSkipped'
  <2> SUFFICES ASSUME NEW k \in Submitted PROVE k \in life.begun \/ Waiting(k)' \/ AtWorker(k)'
    BY <1>1 DEF NoneSkipped
  <2>1. k \in Keys  BY DEF OrderInv, SubmittedOnce, Live
  <2>2. StrategyOf[k] \in Strategies  BY <2>1, IngestAssumption
  <2>3. Waiting(k)' <=> Waiting(k)  BY DEF Waiting
  <2>4. AtWorker(k) => AtWorker(k)'  BY <1>2, <2>2 DEF AtWorker
  <2> QED  BY <2>3, <2>4 DEF OrderInv, NoneSkipped
<1>7. InOrder'
  <2> SUFFICES ASSUME NEW s \in Strategies
               PROVE  /\ \A m, n \in 1..Len(queue[s]) : m < n => Ahead(queue[s][m], queue[s][n])
                      /\ run'[s].pc = "load" =>
                           \A i \in 1..Len(queue[s]) : Ahead(run'[s].k, queue[s][i])
    BY <1>1 DEF InOrder
  <2>1. run'[s].pc = "load" => run'[s] = run[s]  BY <1>2
  <2> QED  BY <2>1 DEF OrderInv, InOrder
<1>8. BegunInOrder'  BY <1>1 DEF OrderInv, BegunInOrder
<1>9. BootFirst'
  <2>1. boot'.pc \in {"disarm", "list"} => Submitted = {} /\ life.begun = {}
    BY DEF OrderInv, BootFirst
  <2>2. boot'.pc = "submit" => Submitted \subseteq life.recovered
    BY DEF OrderInv, BootFirst
  <2>3. \A j, k \in life.recovered : Precedes(rows', j, k) => Ahead(j, k)
    BY DEF OrderInv, BootFirst, SubmittedOnce
  <2>4. \A j \in life.recovered, k \in boot'.todo : ~Precedes(rows', k, j)
    BY DEF OrderInv, BootFirst, SubmittedOnce
  <2> QED  BY <1>1, <2>1, <2>2, <2>3, <2>4 DEF OrderInv, BootFirst
<1> QED  BY <1>3, <1>5, <1>6, <1>7, <1>8, <1>9 DEF OrderInv

(* A signal goes into the channel of its strategy.                         *)
LEMMA OrderGrows ==
  ASSUME FlightInv, OrderInv, NEW k \in Keys, Enqueue(k), ~Queued(k),
         k \in Live, k \notin Submitted \cup life.begun,
         life'.subs = Append(life.subs, k), life'.begun = life.begun,
         UNCHANGED <<decision, rows>>, boot'.pc = boot.pc,
         boot.pc \notin {"disarm", "list"},
         boot'.todo = boot.todo \ {k},
         \A a \in Runners :
           \/ run'[a] = run[a] /\ (run[a].pc \in {"submit", "load"} => run[a].k # k)
           \/ run'[a].pc = "idle" /\ run[a].pc = "submit",
         \/ life'.recovered = life.recovered /\ boot.pc # "submit"
         \/ /\ life'.recovered = life.recovered \cup {k} /\ boot.pc = "submit"
            /\ \A j \in boot.todo : ~Precedes(rows, j, k)
            /\ \A j \in life.recovered : ~Precedes(rows, k, j)
  PROVE  OrderInv'
<1> DEFINE u == StrategyOf[k]
<1>1. u \in Strategies /\ queue'[u] = Append(queue[u], k) /\ queue[u] \in Seq(Keys)
      /\ (\A s \in Strategies \ {u} : queue'[s] = queue[s]) /\ life.subs \in Seq(Keys)
      /\ Strategies \subseteq Runners
  BY IngestAssumption DEF Enqueue, FlightInv, ArmInv, Typed, Lives, Runners
<1> HIDE DEF u
<1>2. Len(queue'[u]) = Len(queue[u]) + 1 /\ Len(queue[u]) \in Nat
      /\ queue'[u][Len(queue[u]) + 1] = k
      /\ \A i \in 1..Len(queue[u]) : queue'[u][i] = queue[u][i]
  BY <1>1
<1>3. Submitted' = Submitted \cup {k} /\ Submitted \subseteq Keys
  <2> DEFINE q == life.subs
  <2>1. q \in Seq(Keys) /\ life'.subs = Append(q, k)  BY <1>1
  <2> HIDE DEF q
  <2>2. /\ {Append(q, k)[n] : n \in DOMAIN Append(q, k)} = {q[n] : n \in DOMAIN q} \cup {k}
        /\ {q[n] : n \in DOMAIN q} \subseteq Keys
    BY <2>1, AppendedMembers
  <2> QED  BY <2>1, <2>2 DEF Submitted, q
<1>4. \A i, j : Ahead(i, j)' <=> Ahead(i, j) \/ (j = k /\ i \in Submitted)
  BY <1>1, PrecedesAppend DEF Ahead, Submitted
<1>n. \A i, j : Precedes(life'.subs, i, j) <=> Ahead(i, j) \/ (j = k /\ i \in Submitted)
  BY <1>4 DEF Ahead
<1>5. SubmittedOnce'
  <2>1. Len(life.subs) \in Nat /\ Len(life'.subs) = Len(life.subs) + 1
        /\ life'.subs[Len(life.subs) + 1] = k
        /\ \A n \in 1..Len(life.subs) : life'.subs[n] = life.subs[n]
    BY <1>1
  <2>2. \A n \in 1..Len(life.subs) : life.subs[n] # k
    <3>1. \A n \in 1..Len(life.subs) : life.subs[n] \in Submitted  BY <1>1 DEF Submitted
    <3> QED  BY <3>1
  <2>3. ASSUME NEW m \in 1..Len(life'.subs), NEW n \in 1..Len(life'.subs),
               life'.subs[m] = life'.subs[n]
        PROVE  m = n
    <3>1. m \in 1..Len(life.subs) \/ m = Len(life.subs) + 1  BY <2>1
    <3>2. n \in 1..Len(life.subs) \/ n = Len(life.subs) + 1  BY <2>1
    <3> QED  BY <2>1, <2>2, <2>3, <3>1, <3>2 DEF OrderInv, SubmittedOnce
  <2>4. Live' = Live  BY DEF Live
  <2> QED  BY <1>3, <2>3, <2>4 DEF OrderInv, SubmittedOnce
<1>6. ASSUME NEW s \in Strategies, NEW i \in 1..Len(queue'[s])
      PROVE  \/ i \in 1..Len(queue[s]) /\ queue'[s][i] = queue[s][i]
             \/ s = u /\ i = Len(queue[u]) + 1 /\ queue'[s][i] = k
  <2>1. CASE s = u  BY <1>2, <2>1
  <2>2. CASE s # u  BY <1>1, <2>2
  <2> QED  BY <2>1, <2>2
<1>7. ChannelOf'
  <2>1. ASSUME NEW s \in Strategies, NEW i \in 1..Len(queue'[s])
        PROVE  queue'[s][i] \in Submitted' /\ StrategyOf[queue'[s][i]] = s
    BY <1>3, <1>6 DEF OrderInv, ChannelOf, u
  <2>2. ASSUME NEW a \in Runners, run'[a].pc \in {"submit", "load"}
        PROVE  run'[a] = run[a] /\ run[a].k # k
    BY <2>2
  <2>3. \A s \in Strategies :
          run'[s].pc = "load" => run'[s].k \in Submitted' /\ StrategyOf[run'[s].k] = s
    BY <1>1, <1>3, <2>2 DEF OrderInv, ChannelOf
  <2>4. \A a \in Runners : run'[a].pc = "submit" => run'[a].k \notin Submitted' \cup life'.begun
    BY <1>3, <2>2 DEF OrderInv, ChannelOf
  <2>5. \A a \in Runners \ Strategies : run'[a].pc = "load" => run'[a].k \notin Submitted'
    BY <1>3, <2>2 DEF OrderInv, ChannelOf
  <2>6. boot'.todo \cap (Submitted' \cup life'.begun) = {}
    BY <1>3 DEF OrderInv, ChannelOf
  <2> QED  BY <2>1, <2>3, <2>4, <2>5, <2>6 DEF ChannelOf
<1>8. NoneSkipped'
  <2> SUFFICES ASSUME NEW x \in Submitted \cup {k}
               PROVE  x \in life.begun \/ Waiting(x)' \/ AtWorker(x)'
    BY <1>3 DEF NoneSkipped
  <2>1. CASE x = k
    <3>1. Len(queue[u]) + 1 \in 1..Len(queue'[u])  BY <1>2
    <3> QED  BY <1>2, <2>1, <3>1 DEF Waiting, u
  <2>2. CASE x \in Submitted
    <3>1. StrategyOf[x] \in Strategies  BY <1>3, <2>2, IngestAssumption
    <3>2. Waiting(x) => Waiting(x)'
      <4> SUFFICES ASSUME NEW i \in 1..Len(queue[StrategyOf[x]]), queue[StrategyOf[x]][i] = x
                   PROVE  Waiting(x)'
        BY DEF Waiting
      <4>1. CASE StrategyOf[x] = u
        <5>1. i \in 1..Len(queue'[u]) /\ queue'[u][i] = x  BY <1>2, <4>1
        <5> QED  BY <4>1, <5>1 DEF Waiting
      <4>2. CASE StrategyOf[x] # u
        <5>1. queue'[StrategyOf[x]] = queue[StrategyOf[x]]  BY <1>1, <3>1, <4>2
        <5> QED  BY <5>1 DEF Waiting
      <4> QED  BY <4>1, <4>2
    <3>3. AtWorker(x) => AtWorker(x)'  BY <1>1, <3>1 DEF AtWorker
    <3> QED  BY <2>2, <3>2, <3>3 DEF OrderInv, NoneSkipped
  <2> QED  BY <2>1, <2>2
<1>9. InOrder'
  <2> SUFFICES ASSUME NEW s \in Strategies
               PROVE  /\ \A m, n \in 1..Len(queue'[s]) :
                           m < n => Precedes(life'.subs, queue'[s][m], queue'[s][n])
                      /\ run'[s].pc = "load" =>
                           \A i \in 1..Len(queue'[s]) : Precedes(life'.subs, run'[s].k, queue'[s][i])
    BY DEF InOrder, Ahead
  <2>1. ASSUME NEW m \in 1..Len(queue'[s]), NEW n \in 1..Len(queue'[s]), m < n
        PROVE  Precedes(life'.subs, queue'[s][m], queue'[s][n])
    <3>1. m \in 1..Len(queue[s]) /\ queue'[s][m] = queue[s][m]
      <4>1. CASE s = u  BY <1>2, <2>1, <4>1
      <4>2. CASE s # u  BY <1>1, <2>1, <4>2
      <4> QED  BY <4>1, <4>2
    <3>2. queue[s][m] \in Submitted  BY <3>1 DEF OrderInv, ChannelOf
    <3>3. CASE n \in 1..Len(queue[s]) /\ queue'[s][n] = queue[s][n]
      <4>1. Ahead(queue[s][m], queue[s][n])  BY <2>1, <3>1, <3>3 DEF OrderInv, InOrder
      <4> QED  BY <1>n, <3>1, <3>3, <4>1
    <3>4. CASE queue'[s][n] = k  BY <1>n, <3>1, <3>2, <3>4
    <3> QED  BY <1>6, <3>3, <3>4
  <2>2. ASSUME run'[s].pc = "load", NEW i \in 1..Len(queue'[s])
        PROVE  Precedes(life'.subs, run'[s].k, queue'[s][i])
    <3>1. run'[s] = run[s]  BY <1>1, <2>2
    <3>2. run[s].k \in Submitted  BY <2>2, <3>1 DEF OrderInv, ChannelOf
    <3>3. CASE i \in 1..Len(queue[s]) /\ queue'[s][i] = queue[s][i]
      <4>1. Ahead(run[s].k, queue[s][i])  BY <2>2, <3>1, <3>3 DEF OrderInv, InOrder
      <4> QED  BY <1>n, <3>1, <3>3, <4>1
    <3>4. CASE queue'[s][i] = k  BY <1>n, <3>1, <3>2, <3>4
    <3> QED  BY <1>6, <3>3, <3>4
  <2> QED  BY <2>1, <2>2
<1>10. BegunInOrder'  BY <1>4 DEF OrderInv, BegunInOrder
<1>11. BootFirst'
  <2>1. boot.pc = "submit" =>
          Submitted' \subseteq life'.recovered /\ \A h \in Handlers : run'[h].pc = "idle"
    <3>1. Handlers \subseteq Runners  BY DEF Runners
    <3>2. ASSUME boot.pc = "submit", NEW h \in Handlers PROVE run'[h].pc = "idle"
      BY <3>1, <3>2 DEF OrderInv, BootFirst
    <3> QED  BY <1>3, <3>2 DEF OrderInv, BootFirst
  <2>2. life'.recovered \subseteq Submitted'  BY <1>3 DEF OrderInv, BootFirst
  <2>3. ASSUME NEW i \in life'.recovered, NEW j \in Submitted' \ life'.recovered
        PROVE  Ahead(i, j)'
    <3>1. CASE life'.recovered = life.recovered
      BY <1>3, <1>4, <2>3, <3>1 DEF OrderInv, BootFirst
    <3>2. CASE boot.pc = "submit"  BY <2>1, <2>3, <3>2
    <3> QED  BY <3>1, <3>2
  <2>4. ASSUME NEW i \in life'.recovered, NEW j \in life'.recovered, Precedes(rows, i, j)
        PROVE  Ahead(i, j)'
    <3>1. CASE i \in life.recovered /\ j \in life.recovered
      BY <1>4, <2>4, <3>1 DEF OrderInv, BootFirst
    <3>2. CASE i \in life.recovered /\ j = k  BY <1>4, <3>2 DEF OrderInv, BootFirst
    <3>3. CASE i = k /\ j \in life.recovered
      <4>1. life'.recovered = life.recovered => k \notin life.recovered
        BY DEF OrderInv, BootFirst
      <4> QED  BY <2>4, <3>3, <4>1
    <3>4. CASE i = k /\ j = k
      <4>1. rows \in Seq(Keys) /\ \A m, n \in 1..Len(rows) : rows[m] = rows[n] => m = n
        BY DEF FlightInv, ArmInv, Typed, RowsListed
      <4>2. ~Precedes(rows, k, k)  BY <4>1, PrecedesOnce
      <4> QED  BY <2>4, <3>4, <4>2
    <3> QED  BY <3>1, <3>2, <3>3, <3>4
  <2>5. ASSUME NEW i \in life'.recovered, NEW j \in boot'.todo PROVE ~Precedes(rows, j, i)
    <3>1. j \in boot.todo  OBVIOUS
    <3>2. CASE i \in life.recovered  BY <3>1, <3>2 DEF OrderInv, BootFirst
    <3>3. CASE i = k
      BY <3>1, <3>3 DEF OrderInv, BootFirst
    <3> QED  BY <3>2, <3>3
  <2> QED  BY <2>1, <2>2, <2>3, <2>4, <2>5 DEF BootFirst
<1> QED  BY <1>5, <1>7, <1>8, <1>9, <1>10, <1>11 DEF OrderInv

(* The worker of a strategy takes the first signal of its channel.         *)
LEMMA OrderTakes == ASSUME FlightInv, OrderInv, NEW s \in Strategies, Take(s) PROVE OrderInv'
<1> DEFINE q == queue[s]
           k == q[1]
<1>1. /\ s \in Runners /\ run[s].pc = "idle" /\ q \in Seq(Keys) /\ Len(q) \in Nat /\ Len(q) > 0
      /\ k \in Keys /\ run' = [run EXCEPT ![s] = [pc |-> "load", k |-> k, d |-> "none"]]
      /\ queue' = [queue EXCEPT ![s] = Tail(q)]
      /\ UNCHANGED <<decision, rows, boot, life>>
  BY DEF Take, Runners, FlightInv, ArmInv, Typed, db
<1>2. /\ queue'[s] = Tail(q) /\ \A t \in Strategies \ {s} : queue'[t] = queue[t]
      /\ run'[s].pc = "load" /\ run'[s].k = k /\ \A a \in Runners \ {s} : run'[a] = run[a]
  BY <1>1 DEF FlightInv, ArmInv, Typed, RunTyped
<1>3. Len(queue'[s]) = Len(q) - 1 /\ \A i \in 1..(Len(q) - 1) : queue'[s][i] = q[i + 1]
  <2> HIDE DEF q
  <2>1. q \in Seq(Keys) /\ Len(q) \in Nat /\ Len(q) > 0 /\ queue'[s] = Tail(q)  BY <1>1, <1>2
  <2>2. Len(Tail(q)) = Len(q) - 1 /\ \A i \in 1..(Len(q) - 1) : Tail(q)[i] = q[i + 1]
    BY <2>1
  <2> QED  BY <2>1, <2>2
<1>4. k \in Submitted /\ StrategyOf[k] = s
  <2>1. 1 \in 1..Len(q)  BY <1>1
  <2> QED  BY <2>1 DEF OrderInv, ChannelOf
<1>5. Submitted' = Submitted /\ \A i, j : Ahead(i, j)' <=> Ahead(i, j)
  BY <1>1 DEF Submitted, Ahead, Precedes
<1> HIDE DEF k
<1>6. SubmittedOnce'  BY <1>1 DEF OrderInv, SubmittedOnce, Submitted, Live
<1>7. ASSUME NEW t \in Strategies, NEW i \in 1..Len(queue'[t])
      PROVE  /\ t = s => i + 1 \in 1..Len(q) /\ queue'[t][i] = q[i + 1]
             /\ t # s => i \in 1..Len(queue[t]) /\ queue'[t][i] = queue[t][i]
  BY <1>1, <1>2, <1>3
<1>8. ChannelOf'
  <2>1. ASSUME NEW t \in Strategies, NEW i \in 1..Len(queue'[t])
        PROVE  queue'[t][i] \in Submitted /\ StrategyOf[queue'[t][i]] = t
    BY <1>7 DEF OrderInv, ChannelOf
  <2>2. \A t \in Strategies :
          run'[t].pc = "load" => run'[t].k \in Submitted /\ StrategyOf[run'[t].k] = t
    BY <1>2, <1>4 DEF OrderInv, ChannelOf, Runners
  <2>3. \A a \in Runners : run'[a].pc = "submit" => run'[a].k \notin Submitted \cup life.begun
    BY <1>2 DEF OrderInv, ChannelOf
  <2>4. \A a \in Runners \ Strategies : run'[a].pc = "load" => run'[a].k \notin Submitted
    BY <1>2 DEF OrderInv, ChannelOf
  <2>5. boot.todo \cap (Submitted \cup life.begun) = {}  BY DEF OrderInv, ChannelOf
  <2> QED  BY <1>1, <1>5, <2>1, <2>2, <2>3, <2>4, <2>5 DEF ChannelOf
<1>9. NoneSkipped'
  <2> SUFFICES ASSUME NEW x \in Submitted PROVE x \in life.begun \/ Waiting(x)' \/ AtWorker(x)'
    BY <1>1, <1>5 DEF NoneSkipped
  <2>1. StrategyOf[x] \in Strategies
    BY IngestAssumption DEF OrderInv, SubmittedOnce, Live
  <2>2. CASE StrategyOf[x] # s
    <3>1. queue'[StrategyOf[x]] = queue[StrategyOf[x]] /\ run'[StrategyOf[x]] = run[StrategyOf[x]]
      BY <1>2, <2>1, <2>2 DEF Runners
    <3>2. (Waiting(x)' <=> Waiting(x)) /\ (AtWorker(x)' <=> AtWorker(x))
      BY <3>1 DEF Waiting, AtWorker
    <3> QED  BY <3>2 DEF OrderInv, NoneSkipped
  <2>3. CASE StrategyOf[x] = s
    <3>1. ~AtWorker(x)  BY <1>1, <2>3 DEF AtWorker
    <3>2. ASSUME Waiting(x) PROVE Waiting(x)' \/ AtWorker(x)'
      <4>1. PICK i \in 1..Len(q) : q[i] = x  BY <2>3, <3>2 DEF Waiting
      <4>2. CASE i = 1  BY <1>2, <2>3, <4>1, <4>2 DEF AtWorker, k
      <4>3. CASE i # 1
        <5>1. i - 1 \in 1..Len(queue'[s]) /\ i - 1 \in 1..(Len(q) - 1)  BY <1>1, <1>3, <4>1, <4>3
        <5>2. queue'[s][i - 1] = q[(i - 1) + 1] /\ (i - 1) + 1 = i  BY <1>1, <1>3, <5>1
        <5> QED  BY <2>3, <4>1, <5>1, <5>2 DEF Waiting
      <4> QED  BY <4>2, <4>3
    <3> QED  BY <3>1, <3>2 DEF OrderInv, NoneSkipped
  <2> QED  BY <2>2, <2>3
<1>10. InOrder'
  <2> SUFFICES ASSUME NEW t \in Strategies
               PROVE  /\ \A m, n \in 1..Len(queue'[t]) :
                           m < n => Precedes(life.subs, queue'[t][m], queue'[t][n])
                      /\ run'[t].pc = "load" =>
                           \A i \in 1..Len(queue'[t]) : Precedes(life.subs, run'[t].k, queue'[t][i])
    BY <1>1 DEF InOrder, Ahead
  <2>1. ASSUME NEW m \in 1..Len(queue'[t]), NEW n \in 1..Len(queue'[t]), m < n
        PROVE  Precedes(life.subs, queue'[t][m], queue'[t][n])
    <3>1. CASE t = s
      <4>1. m + 1 \in 1..Len(q) /\ n + 1 \in 1..Len(q) /\ m + 1 < n + 1
            /\ queue'[t][m] = q[m + 1] /\ queue'[t][n] = q[n + 1]
        BY <1>1, <1>3, <1>7, <2>1, <3>1
      <4> QED  BY <4>1 DEF OrderInv, InOrder, Ahead
    <3>2. CASE t # s  BY <1>7, <2>1, <3>2 DEF OrderInv, InOrder, Ahead
    <3> QED  BY <3>1, <3>2
  <2>2. ASSUME run'[t].pc = "load", NEW i \in 1..Len(queue'[t])
        PROVE  Precedes(life.subs, run'[t].k, queue'[t][i])
    <3>1. CASE t = s
      <4>1. i + 1 \in 1..Len(q) /\ 1 \in 1..Len(q) /\ 1 < i + 1 /\ queue'[t][i] = q[i + 1]
        BY <1>1, <1>3, <1>7, <3>1
      <4> QED  BY <1>2, <3>1, <4>1 DEF OrderInv, InOrder, Ahead, k
    <3>2. CASE t # s
      <4>1. run'[t] = run[t]  BY <1>2, <3>2 DEF Runners
      <4> QED  BY <1>7, <2>2, <3>2, <4>1 DEF OrderInv, InOrder, Ahead
    <3> QED  BY <3>1, <3>2
  <2> QED  BY <2>1, <2>2
<1>11. BegunInOrder'  BY <1>1, <1>5 DEF OrderInv, BegunInOrder
<1>12. BootFirst'
  <2>1. \A h \in Handlers : run'[h] = run[h]  BY <1>2, IngestAssumption DEF Runners
  <2> QED  BY <1>1, <1>5, <2>1 DEF OrderInv, BootFirst
<1> QED  BY <1>6, <1>8, <1>9, <1>10, <1>11, <1>12 DEF OrderInv

(* Process begins on a signal: a worker has begun on all before it.        *)
LEMMA OrderBegins ==
  ASSUME FlightInv, OrderInv, NEW a \in Runners, run[a].pc = "load", NEW k \in Keys, k = run[a].k,
         NEW r \in RunRecords, run' = [run EXCEPT ![a] = r], r.pc \notin {"submit", "load"},
         life'.begun = life.begun \cup {k}, life'.subs = life.subs,
         life'.recovered = life.recovered, UNCHANGED <<decision, rows, queue, boot>>
  PROVE  OrderInv'
<1>1. run'[a] = r /\ \A b \in Runners \ {a} : run'[b] = run[b]
  BY DEF FlightInv, ArmInv, RunTyped
<1>2. InHand(a) /\ k \in Live /\ ~Young(k)
  BY InHandOnly DEF InHand, FlightInv, ArmInv, HeldIsLive
<1>3. Submitted' = Submitted /\ \A i, j : Ahead(i, j)' <=> Ahead(i, j)
  BY DEF Submitted, Ahead, Precedes
<1>4. Strategies \subseteq Runners /\ Handlers \subseteq Runners  BY DEF Runners
<1>5. SubmittedOnce'
  <2>1. Live' = Live  BY DEF Live
  <2> QED  BY <1>2, <1>3, <2>1 DEF OrderInv, SubmittedOnce
<1>6. ChannelOf'
  <2>1. \A b \in Runners : run'[b].pc = "submit" => run'[b].k \notin Submitted \cup life'.begun
    BY <1>1, <1>2 DEF OrderInv, ChannelOf, FlightInv, OneHand, InHand
  <2>2. boot.todo \cap (Submitted \cup life'.begun) = {}
    BY <1>2 DEF OrderInv, ChannelOf, Young
  <2>3. \A s \in Strategies :
          run'[s].pc = "load" => run'[s].k \in Submitted /\ StrategyOf[run'[s].k] = s
    BY <1>1, <1>4 DEF OrderInv, ChannelOf
  <2>4. \A b \in Runners \ Strategies : run'[b].pc = "load" => run'[b].k \notin Submitted
    BY <1>1 DEF OrderInv, ChannelOf
  <2> QED  BY <1>3, <2>1, <2>2, <2>3, <2>4 DEF OrderInv, ChannelOf
<1>7. NoneSkipped'
  <2> SUFFICES ASSUME NEW x \in Submitted PROVE x \in life'.begun \/ Waiting(x)' \/ AtWorker(x)'
    BY <1>3 DEF NoneSkipped
  <2>1. StrategyOf[x] \in Strategies
    BY IngestAssumption DEF OrderInv, SubmittedOnce, Live
  <2>2. Waiting(x)' <=> Waiting(x)  BY DEF Waiting
  <2>3. AtWorker(x) => x \in life'.begun \/ AtWorker(x)'  BY <1>1, <1>4, <2>1 DEF AtWorker
  <2> QED  BY <2>2, <2>3 DEF OrderInv, NoneSkipped
<1>8. InOrder'
  <2> SUFFICES ASSUME NEW s \in Strategies
               PROVE  /\ \A m, n \in 1..Len(queue[s]) : m < n => Ahead(queue[s][m], queue[s][n])
                      /\ run'[s].pc = "load" =>
                           \A i \in 1..Len(queue[s]) : Ahead(run'[s].k, queue[s][i])
    BY <1>3 DEF InOrder
  <2>1. run'[s].pc = "load" => run'[s] = run[s]  BY <1>1, <1>4
  <2> QED  BY <2>1 DEF OrderInv, InOrder
<1>9. BegunInOrder'
  <2> SUFFICES ASSUME NEW i \in Keys, StrategyOf[i] = StrategyOf[k], Ahead(i, k)
               PROVE  i \in life'.begun
    BY <1>3 DEF OrderInv, BegunInOrder
  <2>1. i \in Submitted /\ k \in Submitted  BY PrecedesMembers DEF Ahead, Submitted
  <2>2. a \in Strategies /\ StrategyOf[k] = a  BY <2>1 DEF OrderInv, ChannelOf
  <2>3. ~Ahead(k, i)
    <3>1. life.subs \in Seq(Keys)  BY DEF FlightInv, ArmInv, Typed, Lives
    <3>2. \A m, n \in 1..Len(life.subs) : life.subs[m] = life.subs[n] => m = n
      BY DEF OrderInv, SubmittedOnce
    <3> QED  BY <3>1, <3>2, PrecedesOnce DEF Ahead
  <2>4. ~Waiting(i)
    <3>1. \A n \in 1..Len(queue[a]) : Ahead(k, queue[a][n])  BY <2>2 DEF OrderInv, InOrder
    <3> QED  BY <2>2, <2>3, <3>1 DEF Waiting
  <2>5. AtWorker(i) => i = k  BY <2>2 DEF AtWorker
  <2> QED  BY <2>1, <2>4, <2>5 DEF OrderInv, NoneSkipped
<1>10. BootFirst'
  <2>1. boot.pc \notin {"disarm", "list"}  BY WorksAfterList
  <2>2. boot.pc = "submit" => \A h \in Handlers : run'[h].pc = "idle"
    BY <1>1, <1>4 DEF OrderInv, BootFirst
  <2> QED  BY <1>3, <2>1, <2>2 DEF OrderInv, BootFirst
<1> QED  BY <1>5, <1>6, <1>7, <1>8, <1>9, <1>10 DEF OrderInv

(* A new life has submitted nothing.                                       *)
LEMMA OrderNew ==
  ASSUME life' = NewLife, boot' = [pc |-> "disarm", todo |-> {}, old |-> {}],
         queue' = [s \in Strategies |-> <<>>], run' = [a \in Runners |-> Idle]
  PROVE  OrderInv'
<1>1. life'.subs = <<>> /\ life'.begun = {} /\ life'.recovered = {}  BY DEF NewLife
<1>2. Submitted' = {} /\ \A i, j : ~Ahead(i, j)'  BY <1>1 DEF Submitted, Ahead, Precedes
<1>3. \A s \in Strategies : queue'[s] = <<>> /\ Len(queue'[s]) = 0 /\ 1..Len(queue'[s]) = {}
  OBVIOUS
<1>4. \A a \in Runners : run'[a].pc = "idle"  BY Distinct
<1>5. Strategies \subseteq Runners /\ Handlers \subseteq Runners  BY DEF Runners
<1>6. SubmittedOnce'  BY <1>1, <1>2 DEF SubmittedOnce
<1>7. ChannelOf'  BY <1>2, <1>3, <1>4, <1>5 DEF ChannelOf
<1>8. NoneSkipped' /\ InOrder' /\ BegunInOrder'
  BY <1>1, <1>2, <1>3, <1>4, <1>5 DEF NoneSkipped, InOrder, BegunInOrder
<1>9. BootFirst'  BY <1>1, <1>2, <1>4, <1>5 DEF BootFirst
<1> QED  BY <1>6, <1>7, <1>8, <1>9 DEF OrderInv

LEMMA OrderInit == IngestInit => OrderInv
<1> SUFFICES ASSUME IngestInit PROVE OrderInv  OBVIOUS
<1>1. life = NewLife /\ boot = [pc |-> "disarm", todo |-> {}, old |-> {}]
      /\ queue = [s \in Strategies |-> <<>>] /\ run = [a \in Runners |-> Idle]
  BY DEF IngestInit
<1>2. life.subs = <<>> /\ life.begun = {} /\ life.recovered = {}  BY <1>1 DEF NewLife
<1>3. Submitted = {} /\ \A i, j : ~Ahead(i, j)  BY <1>2 DEF Submitted, Ahead, Precedes
<1>4. \A s \in Strategies : queue[s] = <<>> /\ Len(queue[s]) = 0 /\ 1..Len(queue[s]) = {}
  BY <1>1
<1>5. \A a \in Runners : run[a].pc = "idle"  BY <1>1, Distinct
<1>6. Strategies \subseteq Runners /\ Handlers \subseteq Runners  BY DEF Runners
<1>7. SubmittedOnce  BY <1>2, <1>3 DEF SubmittedOnce
<1>8. ChannelOf  BY <1>1, <1>3, <1>4, <1>5, <1>6 DEF ChannelOf
<1>9. NoneSkipped /\ InOrder /\ BegunInOrder
  BY <1>2, <1>3, <1>4, <1>5, <1>6 DEF NoneSkipped, InOrder, BegunInOrder
<1>10. BootFirst  BY <1>1, <1>2, <1>3, <1>5, <1>6 DEF BootFirst
<1> QED  BY <1>7, <1>8, <1>9, <1>10 DEF OrderInv

(* A step of one goroutine that leaves the channels alone and on which no  *)
(* worker begins.                                                          *)
LEMMA OneStays ==
  ASSUME FlightInv, OrderInv, NEW a \in Runners, NEW r, run' = [run EXCEPT ![a] = r],
         run[a].pc = "idle" => boot.pc = "run",
         a \in Strategies => run[a].pc # "load",
         r.pc = "submit" => r.k \notin Submitted \cup life.begun,
         r.pc = "load" => a \notin Strategies /\ r.k \notin Submitted,
         UNCHANGED <<queue, boot>>, life'.subs = life.subs, life'.begun = life.begun,
         life'.recovered = life.recovered, Live \subseteq Live',
         \A i, j : Precedes(rows', i, j) /\ j \in Live => Precedes(rows, i, j)
  PROVE  OrderInv'
<1>1. run'[a] = r /\ \A b \in Runners \ {a} : run'[b] = run[b]
  BY DEF FlightInv, ArmInv, RunTyped
<1>2. boot.pc = "submit" => \A h \in Handlers : run'[h].pc = "idle"
  BY <1>1 DEF OrderInv, BootFirst, Runners
<1>3. \A b \in Runners :
        \/ run'[b] = run[b]
        \/ /\ b \in Strategies => run[b].pc # "load"
           /\ run'[b].pc = "submit" => run'[b].k \notin Submitted \cup life.begun
           /\ run'[b].pc = "load" => b \notin Strategies /\ run'[b].k \notin Submitted
  BY <1>1
<1> QED  BY <1>2, <1>3, OrderStays

(* An INSERT appends to the table what was not in it.                      *)
LEMMA InsertKeepsOrder ==
  ASSUME Typed, NEW k \in Keys, NEW d \in {"pending", "duplicate"}, InsertRow(k, d)
  PROVE  /\ Live \subseteq Live'
         /\ \A i, j : Precedes(rows', i, j) /\ j \in Live => Precedes(rows, i, j)
<1>1. Live \subseteq Live'  BY InsertLive
<1>2. CASE decision[k] = "absent"
  <2>1. rows' = Append(rows, k) /\ k \notin Live /\ rows \in Seq(Keys)
    BY <1>2 DEF InsertRow, Live, Typed
  <2>2. \A i, j : Precedes(Append(rows, k), i, j) <=>
          Precedes(rows, i, j) \/ (j = k /\ \E n \in 1..Len(rows) : rows[n] = i)
    BY <2>1, PrecedesAppend
  <2> QED  BY <1>1, <2>1, <2>2
<1>3. CASE decision[k] # "absent"
  <2>1. rows' = rows  BY <1>3 DEF InsertRow
  <2> QED  BY <1>1, <2>1
<1> QED  BY <1>2, <1>3

LEMMA HandlerOrder ==
  ASSUME FlightInv, OrderInv, NEW h \in Handlers,
         ExistsByKey(h) \/ InsertDuplicate(h) \/ InsertPending(h) \/ Submit(h)
  PROVE  OrderInv'
<1> DEFINE k == run[h].k
<1>1. h \in Runners /\ h \notin Strategies /\ run[h].pc # "idle" /\ k \in Keys
      /\ run[h].pc \notin {"load"}
  BY Working, IngestAssumption
     DEF Runners, ExistsByKey, InsertDuplicate, InsertPending, Submit, FlightInv, ArmInv
<1>2. life \in Lives /\ Typed  BY DEF FlightInv, ArmInv, Typed
<1>3. CASE ExistsByKey(h)
  <2>1. UNCHANGED <<decision, rows, queue, boot, life>>  BY <1>3 DEF ExistsByKey, db
  <2>2. \E r : run' = [run EXCEPT ![h] = r] /\ r.pc \in {"insert", "duplicate", "idle"}
    <3>1. CASE Rest(h)  BY <3>1, RestingRecord DEF Rest
    <3>2. CASE Go(h, IF decision[k] = "absent" THEN "insert" ELSE "duplicate", "none")
      <4> DEFINE r(l) == [pc |-> l, k |-> k, d |-> "none"]
      <4>1. PICK l \in {"insert", "duplicate"} : run' = [run EXCEPT ![h] = r(l)]  BY <3>2 DEF Go
      <4>2. r(l).pc = l  OBVIOUS
      <4> HIDE DEF r
      <4> QED  BY <4>1, <4>2
    <3> QED  BY <1>3, <3>1, <3>2 DEF ExistsByKey
  <2>3. Live' = Live  BY <2>1 DEF Live
  <2> QED  BY <1>1, <2>1, <2>2, <2>3, OneStays
<1>4. CASE InsertDuplicate(h)
  <2>1. UNCHANGED <<queue, boot, life>> /\ run' = [run EXCEPT ![h] = Idle]
    BY <1>4 DEF InsertDuplicate, Rest
  <2>2. /\ Live \subseteq Live'
        /\ \A i, j : Precedes(rows', i, j) /\ j \in Live => Precedes(rows, i, j)
    <3>1. CASE InsertRow(k, "duplicate")  BY <1>1, <1>2, <3>1, InsertKeepsOrder
    <3>2. CASE UNCHANGED <<decision, rows>>  BY <3>2 DEF Live
    <3> QED  BY <1>4, <3>1, <3>2 DEF InsertDuplicate
  <2> QED  BY <1>1, <2>1, <2>2, RestingRecord, OneStays
<1>5. CASE InsertPending(h)
  <2>1. UNCHANGED <<queue, boot>>  BY <1>5 DEF InsertPending
  <2> DEFINE noted == [life EXCEPT !.armable = IF armed THEN @ \cup {k} ELSE @]
  <2>2. noted.subs = life.subs /\ noted.begun = life.begun /\ noted.recovered = life.recovered
        /\ noted \in Lives
    <3>1. (IF armed THEN life.armable \cup {k} ELSE life.armable) \in SUBSET Keys
      BY <1>1, <1>2 DEF Lives
    <3> QED  BY <1>2, <3>1 DEF Lives
  <2>3. \/ life' \in {life, noted}
        \/ life' = [noted EXCEPT !.lost = @ \cup {k}]
    BY <1>5 DEF InsertPending
  <2> HIDE DEF noted
  <2>4. life'.subs = life.subs /\ life'.begun = life.begun /\ life'.recovered = life.recovered
    BY <2>2, <2>3 DEF Lives
  <2>5. /\ Live \subseteq Live'
        /\ \A i, j : Precedes(rows', i, j) /\ j \in Live => Precedes(rows, i, j)
    <3>1. CASE InsertRow(k, "pending")  BY <1>1, <1>2, <3>1, InsertKeepsOrder
    <3>2. CASE UNCHANGED <<decision, rows>>  BY <3>2 DEF Live
    <3> QED  BY <1>5, <3>1, <3>2 DEF InsertPending
  <2>6. CASE Rest(h)
    <3>1. run' = [run EXCEPT ![h] = Idle]  BY <2>6 DEF Rest
    <3> QED  BY <1>1, <2>1, <2>4, <2>5, <3>1, RestingRecord, OneStays
  <2>7. CASE decision[k] = "absent" /\ Go(h, "submit", "none")
    <3> DEFINE r == [pc |-> "submit", k |-> k, d |-> "none"]
    <3>1. run' = [run EXCEPT ![h] = r] /\ r.pc = "submit" /\ r.k = k  BY <2>7 DEF Go
    <3>2. k \notin Submitted \cup life.begun  BY <2>7 DEF OrderInv, SubmittedOnce, Live
    <3> HIDE DEF r, k
    <3> QED  BY <1>1, <2>1, <2>4, <2>5, <3>1, <3>2, OneStays
  <2> QED  BY <1>5, <2>6, <2>7 DEF InsertPending
<1>6. CASE Submit(h)
  <2>1. UNCHANGED <<decision, rows, boot>> /\ run[h].pc = "submit"
        /\ boot.pc \notin {"disarm", "list", "submit"}
    BY <1>1, <1>6, WorksAfterList DEF Submit, db, OrderInv, BootFirst
  <2>2. InHand(h) /\ ~Queued(k) /\ k \in Live /\ ~Young(k)
    <3>1. InHand(h)  BY <2>1 DEF InHand
    <3> QED  BY <1>1, <3>1, InHandOnly DEF FlightInv, ArmInv, HeldIsLive
  <2>3. k \notin Submitted \cup life.begun  BY <1>1, <2>1 DEF OrderInv, ChannelOf
  <2>4. CASE HasRoom(k) /\ Enqueue(k) /\ Rest(h) /\ Channelled(k)
    <3>1. life'.subs = Append(life.subs, k) /\ life'.begun = life.begun
          /\ life'.recovered = life.recovered
      BY <1>2, <2>4 DEF Channelled, Lives
    <3>2. run' = [run EXCEPT ![h] = Idle]  BY <2>4 DEF Rest
    <3>3. \A a \in Runners :
           \/ run'[a] = run[a] /\ (run[a].pc \in {"submit", "load"} => run[a].k # k)
           \/ run'[a].pc = "idle" /\ run[a].pc = "submit"
      BY <1>1, <2>1, <2>2, <3>2, RestingRecord
         DEF FlightInv, ArmInv, RunTyped, OneHand, InHand
    <3>4. boot'.todo = boot.todo \ {k}  BY <2>1, <2>2 DEF Young
    <3>5. Enqueue(k)  BY <2>4
    <3> HIDE DEF k
    <3> QED  BY <1>1, <2>1, <2>2, <2>3, <3>1, <3>3, <3>4, <3>5, OrderGrows
  <2>5. CASE Go(h, "load", "none") /\ UNCHANGED <<queue, life>>
    <3> DEFINE r == [pc |-> "load", k |-> k, d |-> "none"]
    <3>1. run' = [run EXCEPT ![h] = r] /\ r.pc = "load" /\ r.k = k  BY <2>5 DEF Go
    <3>2. Live' = Live  BY <2>1 DEF Live
    <3> HIDE DEF r, k
    <3> QED  BY <1>1, <2>1, <2>3, <2>5, <3>1, <3>2, OneStays
  <2> QED  BY <1>6, <2>4, <2>5 DEF Submit
<1> QED  BY <1>3, <1>4, <1>5, <1>6

LEMMA RunnerOrder ==
  ASSUME FlightInv, OrderInv, NEW a \in Runners, RunnerStep(a) PROVE OrderInv'
<1> DEFINE k == run[a].k
<1>1. run[a].pc # "idle" /\ k \in Keys /\ life \in Lives /\ decision \in [Keys -> Decisions]
  BY Working DEF RunnerStep, LoadRow, Judge, Trade, UpdateDecision, FlightInv, ArmInv, Typed
<1>2. CASE LoadRow(a)
  <2> DEFINE begun == [life EXCEPT !.begun = @ \cup {k}]
             r == [pc |-> "judge", k |-> k, d |-> "none"]
  <2>1. run[a].pc = "load" /\ UNCHANGED <<decision, rows, queue, boot>>
    BY <1>2 DEF LoadRow, db
  <2>2. begun.subs = life.subs /\ begun.recovered = life.recovered
        /\ begun.begun = life.begun \cup {k} /\ begun \in Lives
    BY <1>1 DEF Lives
  <2>3. life' = begun \/ life' = [begun EXCEPT !.lost = @ \cup {k}]  BY <1>2 DEF LoadRow
  <2>4. r \in RunRecords /\ r.pc \notin {"submit", "load"}  BY <1>1, Record DEF Counters
  <2>5. run' = [run EXCEPT ![a] = r] \/ run' = [run EXCEPT ![a] = Idle]
    BY <1>2 DEF LoadRow, Go, Rest
  <2> HIDE DEF begun, r
  <2>6. life'.subs = life.subs /\ life'.recovered = life.recovered
        /\ life'.begun = life.begun \cup {k}
    BY <2>2, <2>3 DEF Lives
  <2> HIDE DEF k
  <2> QED  BY <1>1, <2>1, <2>4, <2>5, <2>6, RestingRecord, OrderBegins DEF k
<1>3. ASSUME UNCHANGED <<rows, queue, boot>>, run[a].pc # "load", Live \subseteq Live',
             life' = life \/ life' = [life EXCEPT !.lost = @ \cup {k}]
                          \/ life' = [life EXCEPT !.tried = @ \cup {k}],
             NEW l, NEW d,
             \/ run' = [run EXCEPT ![a] = [pc |-> l, k |-> k, d |-> d]] /\ l \notin {"submit", "load"}
             \/ run' = [run EXCEPT ![a] = Idle]
      PROVE  OrderInv'
  <2> DEFINE r == [pc |-> l, k |-> k, d |-> d]
  <2>1. r.pc = l  OBVIOUS
  <2>2. life'.subs = life.subs /\ life'.begun = life.begun /\ life'.recovered = life.recovered
    BY <1>1, <1>3 DEF Lives
  <2> HIDE DEF r
  <2>3. CASE run' = [run EXCEPT ![a] = r] /\ l \notin {"submit", "load"}
    BY <1>1, <1>3, <2>1, <2>2, <2>3, OneStays
  <2>4. CASE run' = [run EXCEPT ![a] = Idle]
    BY <1>1, <1>3, <2>2, <2>4, RestingRecord, OneStays
  <2> QED  BY <1>3, <2>3, <2>4 DEF r
<1>4. CASE Judge(a)
  <2>1. UNCHANGED <<decision, rows, queue, boot>> /\ run[a].pc # "load"  BY <1>4 DEF Judge, db
  <2>2. Live' = Live  BY <2>1 DEF Live
  <2>3. \E l \in {"decide", "trade", "idle"}, d \in Ledger!Verdicts \cup {"none"} :
          run' = [run EXCEPT ![a] = [pc |-> l, k |-> k, d |-> d]]
            \/ run' = [run EXCEPT ![a] = Idle]
    BY <1>4 DEF Judge, Go, Rest, Ledger!Verdicts
  <2>4. life' = life \/ life' = [life EXCEPT !.lost = @ \cup {k}]  BY <1>4 DEF Judge, Lose
  <2> HIDE DEF k
  <2> QED  BY <1>3, <2>1, <2>2, <2>3, <2>4
<1>5. CASE Trade(a)
  <2>1. UNCHANGED <<decision, rows, queue, boot>> /\ run[a].pc # "load"  BY <1>5 DEF Trade, db
  <2>2. Live' = Live  BY <2>1 DEF Live
  <2>3. \E l \in {"decide"}, d \in {"accepted"} :
          run' = [run EXCEPT ![a] = [pc |-> l, k |-> k, d |-> d]]
    BY <1>5 DEF Trade, Go
  <2>4. life' = [life EXCEPT !.tried = @ \cup {k}]  BY <1>5 DEF Trade
  <2> HIDE DEF k
  <2> QED  BY <1>3, <2>1, <2>2, <2>3, <2>4
<1>6. CASE UpdateDecision(a)
  <2>1. UNCHANGED <<rows, queue, boot>> /\ run[a].pc # "load"
        /\ run' = [run EXCEPT ![a] = Idle]
    BY <1>6 DEF UpdateDecision, Rest
  <2>2. Live \subseteq Live'
    <3>1. run[a].d \in Ledger!Verdicts  BY <1>1, <1>6, Working DEF UpdateDecision, FlightInv, ArmInv
    <3>2. run[a].d \notin {"absent", "duplicate"}  BY <3>1 DEF Ledger!Verdicts
    <3>3. decision' = decision \/ decision' = [decision EXCEPT ![k] = run[a].d]
      BY <1>6 DEF UpdateDecision
    <3> QED  BY <1>1, <3>2, <3>3 DEF Live
  <2>3. life' = life \/ life' = [life EXCEPT !.lost = @ \cup {k}]
    BY <1>6 DEF UpdateDecision, Lose
  <2> HIDE DEF k
  <2> QED  BY <1>3, <2>1, <2>2, <2>3
<1> QED  BY <1>2, <1>4, <1>5, <1>6 DEF RunnerStep

LEMMA ReceiveOrder ==
  ASSUME FlightInv, OrderInv, NEW h \in Handlers, NEW k \in Keys, Receive(h, k) PROVE OrderInv'
<1> DEFINE r == [pc |-> IF k \in Cached THEN "duplicate" ELSE "exists", k |-> k, d |-> "none"]
<1>1. h \in Runners /\ boot.pc = "run" /\ run[h].pc = "idle" /\ run' = [run EXCEPT ![h] = r]
      /\ UNCHANGED <<decision, rows, queue, boot, life>>
  BY DEF Receive, db, Runners
<1>2. r.pc \in {"duplicate", "exists"}  OBVIOUS
<1>3. Live' = Live  BY <1>1 DEF Live
<1> HIDE DEF r
<1> QED  BY <1>1, <1>2, <1>3, OneStays

(* Main's own steps.                                                       *)
LEMMA BootOrder ==
  ASSUME FlightInv, OrderInv, BootDisarm \/ BootList \/ BootSubmit \/ BootAbandon
  PROVE  OrderInv'
<1>1. life \in Lives /\ boot \in Boots /\ Main \in Runners /\ Main \notin Strategies
      /\ decision \in [Keys -> Decisions]
  BY IngestAssumption DEF FlightInv, ArmInv, Typed, Runners
<1>2. CASE BootDisarm
  <2>1. UNCHANGED <<decision, rows, queue, run, life>> /\ boot.pc = "disarm"
        /\ boot'.pc = "list" /\ boot'.todo = boot.todo
    BY <1>1, <1>2 DEF BootDisarm, Boots
  <2>2. Live' = Live  BY <2>1 DEF Live
  <2> QED  BY <2>1, <2>2, OrderStays
<1>3. CASE BootList
  <2>1. UNCHANGED <<decision, rows, queue, run>> /\ boot.pc = "list" /\ boot'.pc \in {"submit", "run"}
    BY <1>1, <1>3 DEF BootList, db, Boots
  <2>2. life'.subs = life.subs /\ life'.begun = life.begun /\ life'.recovered = life.recovered
    BY <1>1, <1>3 DEF BootList, Lives
  <2>3. Submitted = {} /\ life.begun = {}  BY <2>1 DEF OrderInv, BootFirst
  <2>4. \A h \in Handlers : run[h].pc = "idle"  BY <2>1 DEF FlightInv, BootOK, Runners
  <2>5. Live' = Live  BY <2>1 DEF Live
  <2> QED  BY <2>1, <2>2, <2>3, <2>4, <2>5, OrderStays
<1>4. CASE BootSubmit
  <2>1. PICK k \in boot.todo : (\A j \in boot.todo : ~Precedes(rows, j, k)) /\ SubmitYoung(k)
    BY <1>4 DEF BootSubmit
  <2>2. boot.pc = "submit" /\ run[Main].pc = "idle" /\ k \in Keys /\ Young(k)
        /\ boot'.pc = "submit" /\ boot'.todo = boot.todo \ {k} /\ UNCHANGED <<decision, rows>>
    BY <1>1, <1>4, <2>1 DEF BootSubmit, SubmitYoung, Boots, Young, db
  <2>3. ~Held(k) /\ ~Queued(k) /\ k \in Live
    BY <2>2 DEF FlightInv, AllSound, Sound, OnePlace, ArmInv, HeldIsLive, Young
  <2>4. k \notin Submitted \cup life.begun /\ \A j \in life.recovered : ~Precedes(rows, k, j)
    BY <2>2 DEF OrderInv, ChannelOf, BootFirst, Young
  <2>5. CASE /\ HasRoom(k) /\ Enqueue(k) /\ UNCHANGED run
             /\ life' = [life EXCEPT !.subs = Append(@, k), !.recovered = @ \cup {k}]
    <3>1. life'.subs = Append(life.subs, k) /\ life'.begun = life.begun
          /\ life'.recovered = life.recovered \cup {k}
      BY <1>1, <2>5 DEF Lives
    <3>2. \A a \in Runners : run'[a] = run[a] /\ (run[a].pc \in {"submit", "load"} => run[a].k # k)
      BY <2>3, <2>5 DEF Held, InHand
    <3> QED  BY <2>1, <2>2, <2>3, <2>4, <2>5, <3>1, <3>2, OrderGrows
  <2>6. CASE /\ UNCHANGED <<queue, life>>
             /\ run' = [run EXCEPT ![Main] = [pc |-> "load", k |-> k, d |-> "none"]]
    <3> DEFINE r == [pc |-> "load", k |-> k, d |-> "none"]
    <3>1. run'[Main] = r /\ \A b \in Runners \ {Main} : run'[b] = run[b]
      BY <1>1, <2>6 DEF FlightInv, ArmInv, RunTyped
    <3>2. r.pc = "load" /\ r.k = k  OBVIOUS
    <3> HIDE DEF r
    <3>3. \A h \in Handlers : run'[h].pc = "idle"
      BY <2>2, <3>1, IngestAssumption DEF OrderInv, BootFirst, Runners
    <3>4. \A a \in Runners :
           \/ run'[a] = run[a]
           \/ /\ a \in Strategies => run[a].pc # "load"
              /\ run'[a].pc = "submit" => run'[a].k \notin Submitted \cup life.begun
              /\ run'[a].pc = "load" => a \notin Strategies /\ run'[a].k \notin Submitted
      BY <1>1, <2>4, <3>1, <3>2
    <3>5. Live' = Live  BY <2>2 DEF Live
    <3> QED  BY <2>2, <2>6, <3>3, <3>4, <3>5, OrderStays
  <2> QED  BY <2>1, <2>5, <2>6 DEF SubmitYoung
<1>5. CASE BootAbandon
  <2>1. UNCHANGED <<rows, queue, run>> /\ boot'.pc = "run" /\ boot'.todo = {}
    BY <1>5 DEF BootAbandon
  <2>2. life'.subs = life.subs /\ life'.begun = life.begun /\ life'.recovered = life.recovered
    BY <1>1, <1>5 DEF BootAbandon, Lives
  <2>3. Live \subseteq Live'  BY <1>1, <1>5 DEF BootAbandon, Live
  <2> QED  BY <2>1, <2>2, <2>3, OrderStays
<1> QED  BY <1>2, <1>3, <1>4, <1>5

LEMMA NextOrder == FlightInv /\ OrderInv /\ [IngestNext]_ivars => OrderInv'
<1> SUFFICES ASSUME FlightInv, OrderInv, [IngestNext]_ivars PROVE OrderInv'  OBVIOUS
<1>1. Handlers \subseteq Runners /\ Strategies \subseteq Runners /\ Main \in Runners
  BY DEF Runners
<1>2. life \in Lives /\ boot \in Boots  BY DEF FlightInv, ArmInv, Typed
<1>3. CASE \E h \in Handlers, k \in Keys : Receive(h, k)  BY <1>3, ReceiveOrder
<1>4. CASE \E h \in Handlers : HandlerStep(h)
  BY <1>1, <1>4, HandlerOrder, RunnerOrder DEF HandlerStep
<1>5. CASE \E s \in Strategies : WorkerStep(s)
  BY <1>1, <1>5, OrderTakes, RunnerOrder DEF WorkerStep
<1>6. CASE BootStep  BY <1>1, <1>6, BootOrder, RunnerOrder DEF BootStep
<1>7. CASE Arm \/ Disarm \/ Stop
  <2>1. UNCHANGED <<decision, rows, queue, run>> /\ boot'.pc \in {"run", "drain"}
        /\ boot'.todo = boot.todo
    BY <1>2, <1>7 DEF Arm, Disarm, Stop, db, Boots
  <2>2. life'.subs = life.subs /\ life'.begun = life.begun /\ life'.recovered = life.recovered
    BY <1>2, <1>7 DEF Arm, Disarm, Stop, Lives
  <2>3. Live' = Live  BY <2>1 DEF Live
  <2> QED  BY <2>1, <2>2, <2>3, OrderStays
<1>8. CASE Exit \/ Crash  BY <1>8, OrderNew DEF Exit, Crash, Reborn
<1>9. CASE UNCHANGED ivars
  <2>1. UNCHANGED <<decision, rows, queue, run, boot, life>>  BY <1>9 DEF ivars, db
  <2>2. Live' = Live  BY <2>1 DEF Live
  <2>3. boot.pc = "submit" => \A h \in Handlers : run[h].pc = "idle"
    BY DEF OrderInv, BootFirst
  <2> QED  BY <2>1, <2>2, <2>3, OrderStays
<1> QED  BY <1>3, <1>4, <1>5, <1>6, <1>7, <1>8, <1>9 DEF IngestNext

(* Signals of one strategy that went through its channel are begun on in   *)
(* the order they were submitted, those of a restart before the new ones   *)
(* and oldest row first (Dispatcher.run, SignalRecovery.Run), for any      *)
(* number of handlers, sizes of the channels and restarts.                 *)
THEOREM ProcessedInOrder == IngestSpec => []StrictFIFO
<1>1. OrderInv => StrictFIFO
  <2> SUFFICES ASSUME OrderInv, NEW j \in Keys, NEW k \in Keys, Before(j, k), k \in life.begun
               PROVE  j \in life.begun
    BY DEF StrictFIFO
  <2>1. j \in Submitted /\ k \in Submitted /\ StrategyOf[j] = StrategyOf[k]  BY DEF Before
  <2>2. Ahead(j, k)
    <3>1. CASE {j, k} \subseteq life.recovered
      BY <3>1 DEF Before, OrderInv, BootFirst
    <3>2. CASE j \in life.recovered /\ k \notin life.recovered
      BY <2>1, <3>2 DEF OrderInv, BootFirst
    <3>3. CASE {j, k} \cap life.recovered = {}
      BY <3>3 DEF Before, Ahead
    <3>4. CASE j \notin life.recovered /\ k \in life.recovered
      BY <3>4 DEF Before
    <3> QED  BY <3>1, <3>2, <3>3, <3>4
  <2> QED  BY <2>1, <2>2 DEF OrderInv, BegunInOrder
<1>2. FlightInv /\ OrderInv /\ [IngestNext]_ivars => (FlightInv /\ OrderInv)'
  BY NextFlight, NextOrder
<1> QED  BY <1>1, <1>2, FlightInit, OrderInit, PTL DEF IngestSpec

----------------------------------------------------------------------------
(* The types that counting needs: the LRU, and how often anything happens. *)

Once(q) == \A m, n \in 1..Len(q) : q[m] = q[n] => m = n
CacheOK == lru \in Seq(Keys) /\ Once(lru) /\ Len(lru) <= LruSize
Bounds == deliveries \in [Keys -> 0..MaxDeliveries] /\ faults \in 0..MaxFaults

LEMMA OthersOnce ==
  ASSUME CacheOK, NEW k \in Keys
  PROVE  /\ Others(k) \in Seq(Keys) /\ Once(Others(k)) /\ Len(Others(k)) <= LruSize
         /\ \A i \in 1..Len(Others(k)) : Others(k)[i] # k
<1>1. lru \in Seq(Keys) /\ Len(lru) \in Nat /\ DOMAIN lru = 1..Len(lru) /\ Len(lru) <= LruSize
      /\ LruSize \in Nat
  BY IngestAssumption DEF CacheOK
<1>2. CASE k \notin Cached
  <2>1. Others(k) = lru  BY <1>2 DEF Others
  <2>2. \A i \in 1..Len(lru) : lru[i] # k  BY <1>1, <1>2 DEF Cached
  <2> QED  BY <2>1, <2>2 DEF CacheOK
<1>3. CASE k \in Cached
  <2> DEFINE at == CHOOSE i \in DOMAIN lru : lru[i] = k
             p == SubSeq(lru, 1, at - 1)
             r == SubSeq(lru, at + 1, Len(lru))
             o == Others(k)
  <2>1. at \in 1..Len(lru) /\ lru[at] = k
    <3>1. \E i \in DOMAIN lru : lru[i] = k  BY <1>3 DEF Cached
    <3> QED  BY <1>1, <3>1
  <2>2. o = p \o r  BY <1>3 DEF Others
  <2> HIDE DEF at, o
  <2>3. p \in Seq(Keys) /\ Len(p) = at - 1 /\ \A i \in 1..(at - 1) : p[i] = lru[i]
    <3>1. \A i \in 1..(at - 1) : lru[i] \in Keys  BY <1>1, <2>1
    <3>2. 1 \in Int /\ at - 1 \in Int  BY <1>1, <2>1
    <3>3. /\ p \in Seq(Keys) /\ Len(p) = IF 1 <= at - 1 THEN at - 1 - 1 + 1 ELSE 0
          /\ \A i \in 1..(at - 1 - 1 + 1) : p[i] = lru[1 + i - 1]
      BY <3>1, <3>2, SubSeqProperties
    <3> QED  BY <1>1, <2>1, <3>3
  <2>4. r \in Seq(Keys) /\ Len(r) = Len(lru) - at /\ \A i \in 1..(Len(lru) - at) : r[i] = lru[at + i]
    <3>1. \A i \in (at + 1)..Len(lru) : lru[i] \in Keys  BY <1>1, <2>1
    <3>2. Len(lru) \in Int /\ at + 1 \in Int  BY <1>1, <2>1
    <3>3. /\ r \in Seq(Keys)
          /\ Len(r) = IF at + 1 <= Len(lru) THEN Len(lru) - (at + 1) + 1 ELSE 0
          /\ \A i \in 1..(Len(lru) - (at + 1) + 1) : r[i] = lru[at + 1 + i - 1]
      BY <3>1, <3>2, SubSeqProperties
    <3> HIDE DEF r
    <3>4. Len(r) = Len(lru) - at
      <4>1. at \in Nat /\ Len(lru) \in Nat /\ at <= Len(lru)  BY <1>1, <2>1
      <4>2. CASE at + 1 <= Len(lru)
        <5>1. Len(lru) - (at + 1) + 1 = Len(lru) - at  BY <4>1
        <5> QED  BY <3>3, <4>2, <5>1
      <4>3. CASE ~(at + 1 <= Len(lru))
        <5>1. Len(lru) - at = 0  BY <4>1, <4>3
        <5> QED  BY <3>3, <4>3, <5>1
      <4> QED  BY <4>2, <4>3
    <3>5. ASSUME NEW i \in 1..(Len(lru) - at) PROVE r[i] = lru[at + i]
      <4>1. i \in 1..(Len(lru) - (at + 1) + 1) /\ at + 1 + i - 1 = at + i  BY <1>1, <2>1
      <4> QED  BY <3>3, <4>1
    <3> QED  BY <3>3, <3>4, <3>5
  <2> HIDE DEF p, r
  <2>5. /\ o \in Seq(Keys) /\ Len(o) = Len(lru) - 1
        /\ \A i \in 1..(Len(lru) - 1) : o[i] = IF i < at THEN lru[i] ELSE lru[i + 1]
    <3>1. /\ p \o r \in Seq(Keys) /\ Len(p \o r) = Len(p) + Len(r)
          /\ \A i \in 1..(Len(p) + Len(r)) :
               (p \o r)[i] = IF i <= Len(p) THEN p[i] ELSE r[i - Len(p)]
      BY <2>3, <2>4, ConcatProperties
    <3>2. Len(p) + Len(r) = Len(lru) - 1  BY <1>1, <2>1, <2>3, <2>4
    <3>3. ASSUME NEW i \in 1..(Len(lru) - 1)
          PROVE  o[i] = IF i < at THEN lru[i] ELSE lru[i + 1]
      <4>1. o[i] = IF i <= at - 1 THEN p[i] ELSE r[i - (at - 1)]
        BY <2>2, <2>3, <3>1, <3>2
      <4>2. CASE i < at  BY <1>1, <2>1, <2>3, <4>1, <4>2
      <4>3. CASE ~(i < at)
        <5>1. i - (at - 1) \in 1..(Len(lru) - at) /\ at + (i - (at - 1)) = i + 1
              /\ ~(i <= at - 1)
          BY <1>1, <2>1, <4>3
        <5> QED  BY <2>4, <4>1, <4>3, <5>1
      <4> QED  BY <4>2, <4>3
    <3> QED  BY <2>2, <3>1, <3>2, <3>3
  <2>6. ASSUME NEW i \in 1..Len(o)
        PROVE  \E m \in 1..Len(lru) : o[i] = lru[m] /\ m # at /\ m = IF i < at THEN i ELSE i + 1
    <3>1. i \in 1..(Len(lru) - 1)  BY <1>1, <2>5
    <3>2. i \in 1..Len(lru) /\ i + 1 \in 1..Len(lru)  BY <1>1, <3>1
    <3> QED  BY <1>1, <2>1, <2>5, <3>1, <3>2
  <2>7. Once(o)
    <3> SUFFICES ASSUME NEW i \in 1..Len(o), NEW j \in 1..Len(o), o[i] = o[j] PROVE i = j
      BY DEF Once
    <3>1. PICK m \in 1..Len(lru) : o[i] = lru[m] /\ m # at /\ m = IF i < at THEN i ELSE i + 1
      BY <2>6
    <3>2. PICK n \in 1..Len(lru) : o[j] = lru[n] /\ n # at /\ n = IF j < at THEN j ELSE j + 1
      BY <2>6
    <3>3. m = n  BY <3>1, <3>2 DEF CacheOK, Once
    <3> QED  BY <1>1, <2>1, <2>5, <3>1, <3>2, <3>3
  <2>8. \A i \in 1..Len(o) : o[i] # k
    <3>1. \A m \in 1..Len(lru) : lru[m] = k => m = at  BY <2>1 DEF CacheOK, Once
    <3> QED  BY <2>6, <3>1
  <2> QED  BY <1>1, <2>5, <2>7, <2>8 DEF o
<1> QED  BY <1>2, <1>3

LEMMA TouchedOnce ==
  ASSUME CacheOK, NEW k \in Keys, lru' = Touched(k)
  PROVE  CacheOK'
<1> DEFINE o == Others(k)
           n == IF Len(o) = LruSize THEN LruSize - 1 ELSE Len(o)
           h == <<k>>
           q == SubSeq(o, 1, n)
           t == Touched(k)
<1>1. o \in Seq(Keys) /\ Once(o) /\ Len(o) <= LruSize /\ \A i \in 1..Len(o) : o[i] # k
  BY OthersOnce
<1>2. t = h \o q  BY DEF Touched
<1> HIDE DEF o, t
<1>3. Len(o) \in Nat /\ n \in Nat /\ n <= Len(o) /\ n + 1 <= LruSize /\ LruSize \in Nat
  BY <1>1, IngestAssumption
<1> HIDE DEF n
<1>4. q \in Seq(Keys) /\ Len(q) = n /\ \A i \in 1..n : q[i] = o[i]
  <2>1. \A i \in 1..n : o[i] \in Keys  BY <1>1, <1>3
  <2>2. 1 \in Int /\ n \in Int  BY <1>3
  <2>3. /\ q \in Seq(Keys) /\ Len(q) = IF 1 <= n THEN n - 1 + 1 ELSE 0
        /\ \A i \in 1..(n - 1 + 1) : q[i] = o[1 + i - 1]
    BY <2>1, <2>2, SubSeqProperties
  <2> QED  BY <1>3, <2>3
<1>5. h \in Seq(Keys) /\ Len(h) = 1 /\ h[1] = k  OBVIOUS
<1> HIDE DEF q, h
<1>6. /\ t \in Seq(Keys) /\ Len(t) = n + 1
      /\ \A i \in 1..(n + 1) : t[i] = IF i <= 1 THEN h[i] ELSE q[i - 1]
  <2>1. /\ h \o q \in Seq(Keys) /\ Len(h \o q) = Len(h) + Len(q)
        /\ \A i \in 1..(Len(h) + Len(q)) :
             (h \o q)[i] = IF i <= Len(h) THEN h[i] ELSE q[i - Len(h)]
    BY <1>4, <1>5, ConcatProperties
  <2>2. Len(h) + Len(q) = n + 1  BY <1>3, <1>4, <1>5
  <2> QED  BY <1>2, <1>5, <2>1, <2>2
<1>7. ASSUME NEW i \in 1..(n + 1)
      PROVE  \/ i = 1 /\ t[i] = k
             \/ i # 1 /\ i - 1 \in 1..Len(o) /\ t[i] = o[i - 1] /\ t[i] # k
  <2>1. CASE i = 1
    <3>1. i <= 1 /\ i \in 1..(n + 1)  BY <2>1
    <3>2. t[i] = h[i]  BY <1>6, <3>1
    <3> QED  BY <1>5, <2>1, <3>2
  <2>2. CASE i # 1
    <3>1. i - 1 \in 1..n /\ i - 1 \in 1..Len(o) /\ ~(i <= 1)  BY <1>3, <2>2
    <3> QED  BY <1>1, <1>4, <1>6, <2>2, <3>1
  <2> QED  BY <2>1, <2>2
<1>8. Once(t)
  <2> SUFFICES ASSUME NEW i \in 1..(n + 1), NEW j \in 1..(n + 1), t[i] = t[j] PROVE i = j
    BY <1>6 DEF Once
  <2>1. CASE i = 1  BY <1>7, <2>1
  <2>2. CASE i # 1
    <3>1. j # 1 /\ i - 1 \in 1..Len(o) /\ j - 1 \in 1..Len(o) /\ o[i - 1] = o[j - 1]
      BY <1>7, <2>2
    <3>2. i - 1 = j - 1  BY <1>1, <3>1 DEF Once
    <3> QED  BY <1>3, <3>2
  <2> QED  BY <2>1, <2>2
<1> QED  BY <1>3, <1>6, <1>8 DEF CacheOK, t

LEMMA CacheInit == IngestInit => CacheOK /\ Bounds
<1> SUFFICES ASSUME IngestInit PROVE CacheOK /\ Bounds  OBVIOUS
<1>1. lru = <<>> /\ Len(lru) = 0 /\ lru \in Seq(Keys)  BY DEF IngestInit
<1> QED  BY <1>1, IngestAssumption DEF IngestInit, CacheOK, Once, Bounds

LEMMA NextCache == CacheOK /\ Bounds /\ [IngestNext]_ivars => (CacheOK /\ Bounds)'
<1> SUFFICES ASSUME CacheOK, Bounds, [IngestNext]_ivars PROVE CacheOK' /\ Bounds'  OBVIOUS
<1>1. MaxFaults \in Nat /\ MaxDeliveries \in Nat  BY IngestAssumption
<1>2. ASSUME UNCHANGED <<lru, deliveries>>, NoFault \/ Fault PROVE CacheOK' /\ Bounds'
  <2>1. faults' \in 0..MaxFaults  BY <1>1, <1>2 DEF Bounds, NoFault, Fault
  <2> QED  BY <1>2, <2>1 DEF CacheOK, Bounds
<1>3. ASSUME NEW h \in Handlers, NEW k \in Keys, Receive(h, k) PROVE CacheOK' /\ Bounds'
  <2>1. CacheOK'  BY <1>3, TouchedOnce DEF Receive
  <2>2. Bounds'
    <3>1. deliveries[k] + 1 \in 0..MaxDeliveries  BY <1>1, <1>3 DEF Receive, Bounds
    <3> QED  BY <1>3, <3>1 DEF Receive, Bounds
  <2> QED  BY <2>1, <2>2
<1>4. ASSUME NEW a, RunnerStep(a) PROVE CacheOK' /\ Bounds'
  BY <1>2, <1>4 DEF RunnerStep, LoadRow, Judge, Trade, UpdateDecision, NoFault
<1>5. CASE \E h \in Handlers : HandlerStep(h)
  BY <1>2, <1>4, <1>5
     DEF HandlerStep, ExistsByKey, InsertDuplicate, InsertPending, Submit, NoFault
<1>6. CASE \E s \in Strategies : WorkerStep(s)
  BY <1>2, <1>4, <1>6 DEF WorkerStep, Take, NoFault
<1>7. CASE BootStep
  BY <1>2, <1>4, <1>7
     DEF BootStep, BootDisarm, BootList, BootSubmit, SubmitYoung, BootAbandon, NoFault
<1>8. CASE Arm \/ Disarm \/ Stop  BY <1>2, <1>8 DEF Arm, Disarm, Stop, NoFault
<1>9. CASE Exit \/ Crash
  <2>1. lru' = <<>> /\ UNCHANGED deliveries /\ (NoFault \/ Fault)
    BY <1>9 DEF Exit, Crash, Reborn
  <2>2. faults' \in 0..MaxFaults  BY <1>1, <2>1 DEF Bounds, NoFault, Fault
  <2>3. Len(<<>>) = 0 /\ <<>> \in Seq(Keys)  OBVIOUS
  <2> QED  BY <2>1, <2>2, <2>3, IngestAssumption DEF CacheOK, Once, Bounds
<1>10. CASE UNCHANGED ivars  BY <1>2, <1>10 DEF ivars, NoFault
<1> QED  BY <1>3, <1>5, <1>6, <1>7, <1>8, <1>9, <1>10 DEF IngestNext

(* A sequence without repetition is as long as the set of its members.     *)
LEMMA OnceCounts ==
  ASSUME NEW S, NEW q \in Seq(S), Once(q)
  PROVE  /\ IsFiniteSet({q[i] : i \in DOMAIN q})
         /\ Cardinality({q[i] : i \in DOMAIN q}) = Len(q)
<1> DEFINE T == {q[i] : i \in DOMAIN q}
<1>1. Len(q) \in Nat /\ DOMAIN q = 1..Len(q)  OBVIOUS
<1>2. q \in Bijection(1..Len(q), T)
  <2>1. q \in [1..Len(q) -> T]  BY <1>1
  <2>2. \A t \in T : \E i \in 1..Len(q) : q[i] = t  BY <1>1
  <2>3. q \in Injection(1..Len(q), T)  BY <2>1 DEF Injection, Once, IsInjective
  <2>4. q \in Surjection(1..Len(q), T)  BY <2>1, <2>2 DEF Surjection
  <2> QED  BY <2>3, <2>4 DEF Bijection
<1>3. IsFiniteSet(1..Len(q)) /\ Cardinality(1..Len(q)) = Len(q)
  <2>1. /\ IsFiniteSet(1..Len(q))
        /\ Cardinality(1..Len(q)) = IF 1 > Len(q) THEN 0 ELSE Len(q) - 1 + 1
    BY <1>1, FS_Interval
  <2> QED  BY <1>1, <2>1
<1>4. ExistsBijection(1..Len(q), T)  BY <1>2 DEF ExistsBijection
<1> HIDE DEF T
<1>5. IsFiniteSet(T) /\ Cardinality(T) = Cardinality(1..Len(q))  BY <1>3, <1>4, FS_Bijection
<1> QED  BY <1>3, <1>5 DEF T

LEMMA SeqOverIs ==
  ASSUME NEW S, NEW n \in Nat, NEW q \in Seq(S), Len(q) <= n PROVE q \in SeqOver(S, n)
<1>1. Len(q) \in 0..n /\ q \in [1..Len(q) -> S]  OBVIOUS
<1> QED  BY <1>1 DEF SeqOver

LEMMA OnceIsBurst ==
  ASSUME IsFiniteSet(Keys), NEW q \in Seq(Keys), Once(q) PROVE q \in Bursts
<1> DEFINE T == {q[i] : i \in DOMAIN q}
<1>1. T \in SUBSET Keys
  <2>1. \A i \in DOMAIN q : q[i] \in Keys  OBVIOUS
  <2> QED  BY <2>1
<1>2. Cardinality(T) = Len(q)  BY OnceCounts
<1> HIDE DEF T
<1>3. Cardinality(T) <= Cardinality(Keys)  BY <1>1, FS_Subset
<1>4. Cardinality(Keys) \in Nat  BY FS_CardinalityType
<1> QED  BY <1>2, <1>3, <1>4, SeqOverIs DEF Bursts

(* Every reachable state of Ingest is well typed: the table lists a signal *)
(* once, and the LRU and the channels stay within their sizes, for any     *)
(* finite set of signals (the table is finite; Bursts counts them).        *)
THEOREM IngestTyped == ASSUME IsFiniteSet(Keys) PROVE IngestSpec => []IngestTypeOK
<1>1. ASSUME FlightInv, OrderInv, CacheOK, Bounds PROVE IngestTypeOK
  <2>1. Typed /\ RunTyped  BY <1>1 DEF FlightInv, ArmInv
  <2>2. rows \in Bursts  BY <1>1, <2>1, OnceIsBurst DEF FlightInv, RowsListed, Once, Typed
  <2>3. {rows[i] : i \in DOMAIN rows} = {k \in Keys : decision[k] # "absent"}
    <3>1. DOMAIN rows = 1..Len(rows) /\ \A i \in DOMAIN rows : rows[i] \in Keys
      BY <2>1 DEF Typed
    <3> QED  BY <1>1, <3>1 DEF FlightInv, RowsListed
  <2>4. Cardinality(Cached) = Len(lru) /\ Len(lru) <= LruSize /\ Cached \subseteq Keys
    <3>1. \A i \in DOMAIN lru : lru[i] \in Keys  BY <1>1 DEF CacheOK
    <3> QED  BY <1>1, <3>1, OnceCounts DEF CacheOK, Cached
  <2>5. \A s \in Strategies : queue[s] \in SeqOver(Keys, QueueCap)
    BY <1>1, <2>1, SeqOverIs, IngestAssumption DEF FlightInv, QueuesFit, Typed
  <2>6. run \in [Runners -> {Idle} \cup
          [pc : {"exists", "duplicate", "insert", "submit", "load", "judge", "trade"},
           k : Keys, d : {"none"}]
          \cup [pc : {"decide"}, k : Keys, d : Ledger!Verdicts]]
    <3>1. Counters \ {"decide"} = {"exists", "duplicate", "insert", "submit", "load", "judge", "trade"}
      BY DEF Counters
    <3> QED  BY <2>1, <3>1 DEF RunTyped, RunRecords
  <2>7. life.subs \in Bursts
    <3>1. life.subs \in Seq(Keys)  BY <2>1 DEF Typed, Lives
    <3> QED  BY <1>1, <3>1, OnceIsBurst DEF OrderInv, SubmittedOnce, Once
  <2>8. /\ boot.pc \in {"disarm", "list", "submit", "run", "drain"}
        /\ boot.todo \subseteq Keys /\ boot.old \subseteq Keys
    BY <2>1 DEF Typed, Boots
  <2> QED  BY <1>1, <2>1, <2>2, <2>3, <2>4, <2>5, <2>6, <2>7, <2>8 DEF IngestTypeOK, Typed, Bounds
<1> DEFINE I == FlightInv /\ OrderInv /\ CacheOK /\ Bounds
<1>2. IngestInit => I  BY FlightInit, OrderInit, CacheInit
<1>3. I /\ [IngestNext]_ivars => I'  BY NextFlight, NextOrder, NextCache
<1>4. I => IngestTypeOK  BY <1>1
<1> HIDE DEF I
<1> QED  BY <1>2, <1>3, <1>4, PTL DEF IngestSpec
=============================================================================
