------------------------------- MODULE Ingest -------------------------------
(***************************************************************************)
(* The way of a signal through the process: the webhook handler runs       *)
(* Receive (idempotency check, INSERT of a 'pending' row) and hands the    *)
(* row to the Dispatcher, whose worker for the strategy runs Process; at   *)
(* boot SignalRecovery hands over the rows the last life left 'pending'.   *)
(* All of them are goroutines of one process; what they share is the       *)
(* signals table, the LRU of the idempotency Checker and the queues.       *)
(*                                                                         *)
(* One action is one statement, one operation on the LRU or on a queue, or *)
(* one call of the trade service, which Trading models from inside.        *)
(* A key stands for a (strategy_id, tv_timestamp_ms); payloads that do not *)
(* parse or have the wrong secret never come near a key and are left out.  *)
(***************************************************************************)
EXTENDS Integers, Sequences, FiniteSets

CONSTANTS
  Strategies,     \* strategy ids, each with a queue and a worker
  Handlers,       \* goroutines serving POST /webhook/tv
  Main,           \* the goroutine of main(), which boots the process
  Keys,           \* signals TradingView sends
  StrategyOf,     \* the strategy of a signal
  NoKey,          \* no signal
  QueueCap,       \* queueBufferSize
  LruSize,        \* entries the idempotency LRU holds
  MaxDeliveries,  \* bound: deliveries of one signal (the first and its retries)
  MaxFaults       \* bound: failed calls, crashes and restarts

ASSUME IngestAssumption ==
  /\ StrategyOf \in [Keys -> Strategies]
  /\ NoKey \notin Keys
  /\ Main \notin Strategies \cup Handlers /\ Strategies \cap Handlers = {}
  /\ QueueCap \in Nat \ {0} /\ LruSize \in Nat \ {0}
  /\ MaxDeliveries \in Nat /\ MaxFaults \in Nat

Runners == Strategies \cup Handlers \cup {Main}

VARIABLES
  decision,    \* signals.decision; "absent" before the row exists
  rows,        \* the signals that have a row, in the order of received_at
  armed,       \* system_state.armed
  lru,         \* the LRU cache, most recently used first
  queue,       \* the channel of each strategy
  run,         \* what each goroutine is doing: program counter, signal, verdict
  boot,        \* main(): program counter, young rows left, stale rows
  life,        \* what has happened since the process started (history only)
  deliveries, faults

db == <<decision, rows, armed>>
ivars == <<db, lru, queue, run, boot, life, deliveries, faults>>

Cached == {lru[i] : i \in DOMAIN lru}
(* The cache without k.                                                    *)
Others(k) ==
  LET at == CHOOSE i \in DOMAIN lru : lru[i] = k
  IN IF k \in Cached THEN SubSeq(lru, 1, at - 1) \o SubSeq(lru, at + 1, Len(lru)) ELSE lru

(* Mutant: the cache evicts one entry too late.                            *)
TouchedOverfull(k) ==
  <<k>> \o SubSeq(Others(k), 1, IF Len(Others(k)) > LruSize THEN LruSize ELSE Len(Others(k)))

(* Get moves k to the front; Add puts it there, and a full cache evicts    *)
(* its last entry.                                                         *)
Touched(k) ==
  <<k>> \o SubSeq(Others(k), 1, IF Len(Others(k)) = LruSize THEN LruSize - 1 ELSE Len(Others(k)))
(* j's row was received before k's.                                        *)
Precedes(q, j, k) == \E m, n \in DOMAIN q : m < n /\ q[m] = j /\ q[n] = k
Pending(i, j) == {rows[n] : n \in {m \in i..j : decision[rows[m]] = "pending"}}

Idle == [pc |-> "idle", k |-> NoKey, d |-> "none"]
Go(a, l, d) == run' = [run EXCEPT ![a] = [pc |-> l, k |-> run[a].k, d |-> d]]
Rest(a) == run' = [run EXCEPT ![a] = Idle]

NoFault == UNCHANGED faults
Fault == faults < MaxFaults /\ faults' = faults + 1

(* What a life remembers: signals handed to the trade service; signals     *)
(* dropped on an error while 'pending'; signals for which the system was   *)
(* armed at some moment since their row exists; those SignalRecovery put   *)
(* into a channel; all put into a channel, in order; those a Process call  *)
(* has begun on.                                                           *)
NewLife ==
  [tried |-> {}, lost |-> {}, armable |-> {}, recovered |-> {}, subs |-> <<>>, begun |-> {}]
Lose(k) == life' = [life EXCEPT !.lost = @ \cup {k}]

IngestInit ==
  /\ decision = [k \in Keys |-> "absent"] /\ rows = <<>> /\ armed = FALSE
  /\ lru = <<>> /\ queue = [s \in Strategies |-> <<>>]
  /\ run = [a \in Runners |-> Idle]
  /\ boot = [pc |-> "disarm", todo |-> {}, old |-> {}]
  /\ life = NewLife
  /\ deliveries = [k \in Keys |-> 0] /\ faults = 0

----------------------------------------------------------------------------
(* Receive: the fast path of a delivery.                                   *)

(* The LRU remembers a key at its first sighting, before any row exists.   *)
Receive(h, k) ==
  /\ boot.pc = "run" /\ run[h].pc = "idle"
  /\ deliveries[k] < MaxDeliveries
  /\ deliveries' = [deliveries EXCEPT ![k] = @ + 1]
  /\ lru' = Touched(k)
  /\ run' = [run EXCEPT ![h] =
       [pc |-> IF k \in Cached THEN "duplicate" ELSE "exists", k |-> k, d |-> "none"]]
  /\ UNCHANGED <<db, queue, boot, life, faults>>

(* ExistsByKey; on an error Receive returns it and the handler says 500.   *)
ExistsByKey(h) ==
  /\ run[h].pc = "exists"
  /\ \/ /\ NoFault
        /\ Go(h, IF decision[run[h].k] = "absent" THEN "insert" ELSE "duplicate", "none")
     \/ Fault /\ Rest(h)
  /\ UNCHANGED <<db, lru, queue, boot, life, deliveries>>

(* Mutant: INSERT ... ON CONFLICT DO UPDATE.                               *)
UpsertRow(k, d) ==
  /\ decision' = [decision EXCEPT ![k] = d]
  /\ rows' = IF decision[k] = "absent" THEN Append(rows, k) ELSE rows

(* INSERT ... ON CONFLICT DO NOTHING.                                      *)
InsertRow(k, d) ==
  IF decision[k] = "absent"
    THEN decision' = [decision EXCEPT ![k] = d] /\ rows' = Append(rows, k)
    ELSE UNCHANGED <<decision, rows>>

(* The row of a duplicate; its error is dropped.                           *)
InsertDuplicate(h) ==
  /\ run[h].pc = "duplicate"
  /\ \/ InsertRow(run[h].k, "duplicate") /\ NoFault
     \/ UNCHANGED <<decision, rows>> /\ Fault
  /\ Rest(h)
  /\ UNCHANGED <<armed, lru, queue, boot, life, deliveries>>

(* Mutant: the second result of Insert, isDup, is ignored.                 *)
InsertPendingTwice(h) ==
  /\ run[h].pc = "insert"
  /\ InsertRow(run[h].k, "pending") /\ Go(h, "submit", "none")
  /\ life' = [life EXCEPT !.armable = IF armed THEN @ \cup {run[h].k} ELSE @]
  /\ UNCHANGED <<armed, lru, queue, boot, deliveries, faults>>

(* The 'pending' row.  A conflict makes the delivery a duplicate; an error *)
(* may come with or without the row, which nobody then submits.            *)
InsertPending(h) ==
  /\ run[h].pc = "insert"
  /\ LET k == run[h].k
         fresh == decision[k] = "absent"
         noted == [life EXCEPT !.armable = IF armed THEN @ \cup {k} ELSE @]
     IN \/ /\ fresh /\ InsertRow(k, "pending") /\ Go(h, "submit", "none") /\ NoFault
           /\ life' = noted
        \/ ~fresh /\ Rest(h) /\ NoFault /\ UNCHANGED <<decision, rows, life>>
        \/ Rest(h) /\ Fault /\ UNCHANGED <<decision, rows, life>>
        \/ /\ fresh /\ InsertRow(k, "pending") /\ Rest(h) /\ Fault
           /\ life' = [noted EXCEPT !.lost = @ \cup {k}]
  /\ UNCHANGED <<armed, lru, queue, boot, deliveries>>

----------------------------------------------------------------------------
(* The Dispatcher.                                                         *)

(* Submit: into the strategy's channel, or, when that is full, the calling *)
(* goroutine runs Process itself.  (It is also the way a closed dispatcher *)
(* takes, but main() closes it after the last handler has returned.)       *)
HasRoom(k) == Len(queue[StrategyOf[k]]) < QueueCap
Enqueue(k) == queue' = [queue EXCEPT ![StrategyOf[k]] = Append(@, k)]
Channelled(k) == life' = [life EXCEPT !.subs = Append(@, k)]

SubmitDrops(h) ==  \* mutant: a full channel loses the signal
  /\ run[h].pc = "submit"
  /\ LET k == run[h].k
     IN IF HasRoom(k) THEN Enqueue(k) /\ Channelled(k) ELSE UNCHANGED <<queue, life>>
  /\ Rest(h)
  /\ UNCHANGED <<db, lru, boot, deliveries, faults>>

Submit(h) ==
  /\ run[h].pc = "submit"
  /\ LET k == run[h].k
     IN \/ HasRoom(k) /\ Enqueue(k) /\ Rest(h) /\ Channelled(k)
        \/ ~HasRoom(k) /\ Go(h, "load", "none") /\ UNCHANGED <<queue, life>>
  /\ UNCHANGED <<db, lru, boot, deliveries, faults>>

(* The worker of strategy s receives from its channel.                     *)
Take(s) ==
  /\ run[s].pc = "idle" /\ queue[s] # <<>>
  /\ run' = [run EXCEPT ![s] = [pc |-> "load", k |-> Head(queue[s]), d |-> "none"]]
  /\ queue' = [queue EXCEPT ![s] = Tail(@)]
  /\ UNCHANGED <<db, lru, boot, life, deliveries, faults>>

----------------------------------------------------------------------------
(* Process, whoever runs it.                                               *)

(* GetByID: a row that is not 'pending' is left alone.                     *)
LoadRow(a) ==
  /\ run[a].pc = "load"
  /\ LET k == run[a].k
         begun == [life EXCEPT !.begun = @ \cup {k}]
     IN \/ decision[k] = "pending" /\ Go(a, "judge", "none") /\ life' = begun /\ NoFault
        \/ decision[k] # "pending" /\ Rest(a) /\ life' = begun /\ NoFault
        \/ Rest(a) /\ life' = [begun EXCEPT !.lost = @ \cup {k}] /\ Fault
  /\ UNCHANGED <<db, lru, queue, boot, deliveries>>

(* loadAll, the armed flag, the risk pipeline and the scorer.  A strategy  *)
(* may be disabled, armed or not; an error of loadAll is a verdict, one of *)
(* the later reads (or a panic) leaves the row 'pending'.  With all gates  *)
(* passed the signal is a noop, or something is traded.                    *)
Judge(a) ==
  /\ run[a].pc = "judge"
  /\ \/ /\ ~armed /\ NoFault /\ UNCHANGED life
        /\ \E d \in {"risk_denied", "disarmed"} : Go(a, "decide", d)
     \/ /\ armed /\ NoFault /\ UNCHANGED life
        /\ \/ \E d \in {"risk_denied", "abandoned", "accepted"} : Go(a, "decide", d)
           \/ Go(a, "trade", "none")
     \/ Fault /\ Go(a, "decide", "invalid") /\ UNCHANGED life
     \/ Fault /\ Rest(a) /\ Lose(run[a].k)
  /\ UNCHANGED <<db, lru, queue, boot, deliveries>>

(* OpenPosition, ClosePosition or both; 'accepted' even when they fail.    *)
Trade(a) ==
  /\ run[a].pc = "trade"
  /\ life' = [life EXCEPT !.tried = @ \cup {run[a].k}]
  /\ Go(a, "decide", "accepted")
  /\ UNCHANGED <<db, lru, queue, boot, deliveries, faults>>

(* UpdateDecision ... WHERE decision='pending'.  Its error is dropped, and *)
(* it fails whenever the 30 s of the call were used up by the trade.       *)
UpdateDecision(a) ==
  /\ run[a].pc = "decide"
  /\ LET k == run[a].k
     IN \/ /\ decision[k] = "pending" /\ decision' = [decision EXCEPT ![k] = run[a].d]
           /\ NoFault /\ UNCHANGED life
        \/ decision[k] # "pending" /\ UNCHANGED <<decision, life>> /\ NoFault
        \/ UNCHANGED decision /\ Fault /\ Lose(k)
  /\ Rest(a)
  /\ UNCHANGED <<rows, armed, lru, queue, boot, deliveries>>

----------------------------------------------------------------------------
(* The life of the process.                                                *)

(* Mutant: the boot leaves the armed flag as the last life had it.         *)
BootStaysArmed ==
  /\ boot.pc = "disarm"
  /\ boot' = [boot EXCEPT !.pc = "list"]
  /\ UNCHANGED <<db, lru, queue, run, life, deliveries, faults>>

(* Recovery.Run disarms; if that fails main() exits (a Crash).             *)
BootDisarm ==
  /\ boot.pc = "disarm"
  /\ armed' = FALSE
  /\ boot' = [boot EXCEPT !.pc = "list"]
  /\ UNCHANGED <<decision, rows, lru, queue, run, life, deliveries, faults>>

(* SignalRecovery.Run lists the pending rows younger than the freshness:   *)
(* the first n rows are stale, the others young.  On an error it gives up, *)
(* and the HTTP server starts all the same.                                *)
BootList ==
  /\ boot.pc = "list"
  /\ \/ /\ \E n \in 0..Len(rows) :
             boot' = [pc |-> "submit",
                      todo |-> Pending(n + 1, Len(rows)), old |-> Pending(1, n)]
        /\ NoFault /\ UNCHANGED life
     \/ /\ boot' = [boot EXCEPT !.pc = "run"]
        /\ life' = [life EXCEPT !.lost = Pending(1, Len(rows))]
        /\ Fault
  /\ UNCHANGED <<db, lru, queue, run, deliveries>>

(* Submit of a young row, on the main goroutine.                           *)
SubmitYoung(k) ==
  /\ \/ /\ HasRoom(k) /\ Enqueue(k) /\ UNCHANGED run
        /\ life' = [life EXCEPT !.subs = Append(@, k), !.recovered = @ \cup {k}]
     \/ /\ ~HasRoom(k) /\ UNCHANGED <<queue, life>>
        /\ run' = [run EXCEPT ![Main] = [pc |-> "load", k |-> k, d |-> "none"]]
  /\ boot' = [boot EXCEPT !.todo = @ \ {k}]
  /\ UNCHANGED <<db, lru, deliveries, faults>>

(* Mutant: ORDER BY received_at DESC.                                      *)
BootSubmitNewestFirst ==
  /\ boot.pc = "submit" /\ run[Main].pc = "idle"
  /\ \E k \in boot.todo :
       (\A j \in boot.todo : ~Precedes(rows, k, j)) /\ SubmitYoung(k)

(* ORDER BY received_at ASC: the oldest young row is submitted next.       *)
BootSubmit ==
  /\ boot.pc = "submit" /\ run[Main].pc = "idle"
  /\ \E k \in boot.todo :
       (\A j \in boot.todo : ~Precedes(rows, j, k)) /\ SubmitYoung(k)

(* Mutant: the stale rows are reported and stay 'pending'.                 *)
BootReportsOnly ==
  /\ boot.pc = "submit" /\ boot.todo = {} /\ run[Main].pc = "idle"
  /\ boot' = [pc |-> "run", todo |-> {}, old |-> {}]
  /\ UNCHANGED <<db, lru, queue, run, life, deliveries, faults>>

(* MarkAbandoned gives the stale rows up.  Then the HTTP server starts,    *)
(* also when the statement failed.                                         *)
BootAbandon ==
  /\ boot.pc = "submit" /\ boot.todo = {} /\ run[Main].pc = "idle"
  /\ \/ /\ decision' = [k \in Keys |->
             IF k \in boot.old /\ decision[k] = "pending" THEN "abandoned" ELSE decision[k]]
        /\ NoFault /\ UNCHANGED life
     \/ UNCHANGED decision /\ Fault /\ life' = [life EXCEPT !.lost = @ \cup boot.old]
  /\ boot' = [pc |-> "run", todo |-> {}, old |-> {}]
  /\ UNCHANGED <<rows, armed, lru, queue, run, deliveries>>

(* The operator arms and disarms on the admin pages.                       *)
Arm ==
  /\ boot.pc \in {"run", "drain"} /\ ~armed
  /\ armed' = TRUE
  /\ life' = [life EXCEPT !.armable = @ \cup {k \in Keys : decision[k] # "absent"}]
  /\ UNCHANGED <<decision, rows, lru, queue, run, boot, deliveries, faults>>
Disarm ==
  /\ boot.pc \in {"run", "drain"} /\ armed
  /\ armed' = FALSE
  /\ UNCHANGED <<decision, rows, lru, queue, run, boot, life, deliveries, faults>>

(* SIGTERM: no new deliveries; handlers and then workers finish.           *)
Stop ==
  /\ boot.pc = "run" /\ Fault
  /\ boot' = [boot EXCEPT !.pc = "drain"]
  /\ UNCHANGED <<db, lru, queue, run, life, deliveries>>

Reborn ==
  /\ lru' = <<>> /\ queue' = [s \in Strategies |-> <<>>]
  /\ run' = [a \in Runners |-> Idle]
  /\ boot' = [pc |-> "disarm", todo |-> {}, old |-> {}]
  /\ life' = NewLife
  /\ UNCHANGED <<db, deliveries>>

(* Dispatcher.Shutdown returns with every queue drained.                   *)
Exit ==
  /\ boot.pc = "drain"
  /\ \A a \in Runners : run[a].pc = "idle"
  /\ \A s \in Strategies : queue[s] = <<>>
  /\ Reborn /\ NoFault

(* The process dies, or one of its shutdown deadlines passes.              *)
Crash == Fault /\ Reborn

----------------------------------------------------------------------------
RunnerStep(a) == LoadRow(a) \/ Judge(a) \/ Trade(a) \/ UpdateDecision(a)
HandlerStep(h) ==
  ExistsByKey(h) \/ InsertDuplicate(h) \/ InsertPending(h) \/ Submit(h) \/ RunnerStep(h)
WorkerStep(s) == Take(s) \/ RunnerStep(s)
BootStep == BootDisarm \/ BootList \/ BootSubmit \/ BootAbandon \/ RunnerStep(Main)

IngestNext ==
  \/ \E h \in Handlers, k \in Keys : Receive(h, k)
  \/ \E h \in Handlers : HandlerStep(h)
  \/ \E s \in Strategies : WorkerStep(s)
  \/ BootStep
  \/ Arm \/ Disarm \/ Stop \/ Exit \/ Crash

IngestSpec == IngestInit /\ [][IngestNext]_ivars

(* Every call has a deadline, so a goroutine that has begun goes on, and a *)
(* worker receives from its channel; deliveries, the operator and restarts *)
(* are free to happen or not.                                              *)
IngestFairness ==
  /\ \A h \in Handlers : WF_ivars(HandlerStep(h))
  /\ \A s \in Strategies : WF_ivars(WorkerStep(s))
  /\ WF_ivars(BootStep)
IngestFairSpec == IngestSpec /\ IngestFairness

----------------------------------------------------------------------------
(* Every variable has its type; rows lists the signals that have a row,    *)
(* each once: the states the table, the LRU, the channels and the          *)
(* goroutines of internal/application/ingest can be in.                    *)
Ledger == INSTANCE SignalLedger WITH tried <- life.tried
Decisions == Ledger!Verdicts \cup {"absent", "pending", "duplicate"}
SeqOver(S, n) == UNION {[1..m -> S] : m \in 0..n}
Bursts == SeqOver(Keys, Cardinality(Keys))

IngestTypeOK ==
  /\ decision \in [Keys -> Decisions] /\ armed \in BOOLEAN
  /\ rows \in Bursts
  /\ {rows[i] : i \in DOMAIN rows} = {k \in Keys : decision[k] # "absent"}
  /\ Cardinality(Cached) = Len(lru) /\ Len(lru) <= LruSize /\ Cached \subseteq Keys
  /\ \A s \in Strategies : queue[s] \in SeqOver(Keys, QueueCap)
  /\ run \in [Runners -> {Idle} \cup
        [pc : {"exists", "duplicate", "insert", "submit", "load", "judge", "trade"},
         k : Keys, d : {"none"}]
        \cup [pc : {"decide"}, k : Keys, d : Ledger!Verdicts]]
  /\ boot.pc \in {"disarm", "list", "submit", "run", "drain"}
  /\ boot.todo \subseteq Keys /\ boot.old \subseteq Keys
  /\ life.subs \in Bursts
  /\ deliveries \in [Keys -> 0..MaxDeliveries] /\ faults \in 0..MaxFaults

(* The places where signal k is in flight between its row being written    *)
(* and its decision: goroutines, slots of the channels, rows still to be   *)
(* submitted or given up by main().                                        *)
Flights(k) ==
  {a \in Runners : run[a].k = k /\ run[a].pc \in {"submit", "load", "judge", "trade", "decide"}}
    \cup {x \in Strategies \X (1..QueueCap) : x[2] <= Len(queue[x[1]]) /\ queue[x[1]][x[2]] = k}
    \cup {<<"todo", j>> : j \in boot.todo \cap {k}}
    \cup {<<"old", j>> : j \in boot.old \cap {k}}

(* A signal is in flight at most once, whatever redeliveries, evictions    *)
(* from the LRU, restarts and synchronous fallbacks there were: Process is *)
(* only "idempotent" against calls that do not overlap.                    *)
SingleFlight == \A k \in Keys : Cardinality(Flights(k)) <= 1

(* No signal is dropped silently ("Never drops a signal"): once the        *)
(* process is up, a row is 'pending' only while a goroutine or a channel   *)
(* has it, or because an error of this life left it behind.                *)
NothingForgotten ==
  \A k \in Keys :
    decision[k] = "pending" /\ boot.pc \in {"run", "drain"} =>
      Flights(k) # {} \/ k \in life.lost

(* No trade on a system that nobody armed: a signal is handed to the trade *)
(* service only if the system was armed, in this life, at some moment      *)
(* since its row exists.  A restart disarms before it submits anything.    *)
ArmedWhenTraded == life.tried \subseteq life.armable

(* Signal j comes before k on their strategy: both went into its channel   *)
(* in this life, and the recovered ones come first, in the order they      *)
(* arrived.                                                                *)
Submitted == {life.subs[i] : i \in DOMAIN life.subs}
Before(j, k) ==
  /\ StrategyOf[j] = StrategyOf[k] /\ {j, k} \subseteq Submitted
  /\ CASE {j, k} \subseteq life.recovered -> Precedes(rows, j, k)
       [] j \in life.recovered /\ k \notin life.recovered -> TRUE
       [] {j, k} \cap life.recovered = {} -> Precedes(life.subs, j, k)
       [] OTHER -> FALSE

(* Signals that share a strategy are processed strictly in order (doc of   *)
(* Dispatcher), across restarts too: Process begins on k only after it     *)
(* began on all before k.  The synchronous fallback is outside this order: *)
(* a signal that found the channel full overtakes those waiting in it.     *)
StrictFIFO ==
  \A j, k \in Keys : Before(j, k) /\ k \in life.begun => j \in life.begun

(* The table keeps the promise of SignalLedger.                            *)
LedgerKept == Ledger!LedgerSpec

(* A 'pending' signal is decided, unless an error of this life left it     *)
(* behind for the next restart.                                            *)
PendingDecided ==
  \A k \in Keys :
    (decision[k] = "pending") ~> (decision[k] # "pending" \/ k \in life.lost)

(* What a comment says, and the code does not do; refuted by a run of its  *)
(* own: a duplicate is a signal that was "already processed" (doc of       *)
(* SignalRepo.Insert), so without any error no signal has 'duplicate' for  *)
(* the only decision it ever gets.                                         *)
DuplicateWasSeen == faults = 0 => \A k \in Keys : decision[k] # "duplicate"

=============================================================================
