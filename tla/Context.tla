------------------------------ MODULE Context -------------------------------
(***************************************************************************)
(* What the scorer's prompt says of the world.  Pollers write coming       *)
(* economic events and snapshots of the perpetual contracts; when a signal *)
(* is scored one goroutine loads the latest of them, each source with a    *)
(* timeout of its own, another asks the candle provider, whose cache the   *)
(* perp poller uses too, and two read the trades and positions.  Whatever  *)
(* fails is left out of the prompt; all of it ends with the context of the *)
(* signal, which is all that bounds how long the prompt is waited for.     *)
(*                                                                         *)
(* Abstractions: of a snapshot only its time is kept, of candles the       *)
(* earliest time they may be true of, when they were asked for; labels and *)
(* numbers are left out.  The regime and news parts have no bound on their *)
(* age and are left out, the trades and positions but for the wait.        *)
(***************************************************************************)
EXTENDS Integers, FiniteSets

CONSTANTS
  Symbols, BTC, \* symbols of active strategies; the one always polled
  Scorings,     \* goroutines scoring a signal
  SignalSymbol, \* the symbol of the signal each of them scores
  Titles,       \* economic events by their title
  Minute,       \* units of time in a minute
  TTL,          \* life of a cached candle context
  Lookbacks,    \* what perp_metrics_lookback_minutes may be, in minutes
  DefaultLookback, \* what it is taken for when it cannot be read
  Around,       \* events this far from now are shown
  ProcessTime,  \* processTimeout, the life of a signal's context
  ContextTime,  \* bound: the clock stops here
  ContextFaults \* bound: failed requests and statements

Polled == Symbols \cup {BTC}
Times == 0..ContextTime
Never == -1

ASSUME ContextAssumption ==
  /\ ContextTime \in Nat /\ ContextFaults \in Nat
  /\ Minute \in Nat \ {0} /\ TTL \in Nat /\ Around \in Nat /\ ProcessTime \in Nat
  /\ Lookbacks \subseteq Nat \ {0} /\ DefaultLookback \in Nat \ {0}
  /\ SignalSymbol \in [Scorings -> Symbols] /\ "poller" \notin Scorings

VARIABLES
  xt,      \* the time
  events,  \* economic_events: title and time, which make the key
  feed,    \* when the calendar feed says each event is
  perp,    \* perp_metrics: observed_at of the latest row of a symbol
  poll,    \* the perp worker: program counter, symbols to do, the tick's time
  cache,   \* Provider.cache: filled at; of the request, when it was sent and what it took
  mkt,     \* GetContext calls: program counter, when it asked; of the candles
           \* it gives, when they were asked for and how long that took
  load,    \* Load calls: program counter, their now, the lookback they use, what they have read
  xfaults

contextVars == <<xt, events, feed, perp, poll, cache, mkt, load, xfaults>>

Callers == Scorings \cup {"poller"}
IdleCall == [pc |-> "idle", sym |-> BTC, from |-> 0, asof |-> Never, took |-> 0]
IdlePoll == [pc |-> "idle", todo |-> {}, at |-> 0]
IdleLoad ==
  [pc |-> "idle", now |-> 0, lb |-> DefaultLookback, events |-> {}, self |-> Never, btc |-> Never]

ContextInit ==
  /\ xt = 0 /\ events = {} /\ xfaults = 0
  /\ feed \in [Titles -> {2}]
  /\ perp = [s \in Polled |-> Never]
  /\ poll = IdlePoll
  /\ cache = [s \in Polled |-> [at |-> Never, asof |-> Never, took |-> 0]]
  /\ mkt = [c \in Callers |-> IdleCall]
  /\ load = [c \in Scorings |-> IdleLoad]

XFault == xfaults < ContextFaults /\ xfaults' = xfaults + 1
NoXFault == UNCHANGED xfaults

(* Time passes at every statement and request, but a signal's end with its *)
(* context; the poller's requests have no limit.                           *)
ContextTick ==
  /\ xt < ContextTime /\ xt' = xt + 1
  /\ \A c \in Scorings : load[c].pc # "idle" => xt - load[c].now < ProcessTime
  /\ UNCHANGED <<events, feed, perp, poll, cache, mkt, load, xfaults>>

----------------------------------------------------------------------------
(* The candle provider.  It looks into the cache under its lock, fetches   *)
(* without it, and stores under the time after the answer: of two calls    *)
(* that miss, the one that asked first may overwrite the other's answer.   *)

GetContext(c, s) ==
  mkt' = [mkt EXCEPT ![c] =
    IF cache[s].at # Never /\ xt - cache[s].at < TTL
    THEN [pc |-> "done", sym |-> s, from |-> 0, asof |-> cache[s].asof,
          took |-> cache[s].took]
    ELSE [pc |-> "fetch", sym |-> s, from |-> xt, asof |-> Never, took |-> 0]]

FillRenews(c) ==  \* mutant: an answer renews an entry that is there without replacing it
  cache' = [cache EXCEPT ![mkt[c].sym] =
              [at |-> xt, asof |-> IF @.asof # Never THEN @.asof ELSE mkt[c].from,
               took |-> xt - mkt[c].from]]
Fill(c) ==
  cache' = [cache EXCEPT ![mkt[c].sym] =
              [at |-> xt, asof |-> mkt[c].from, took |-> xt - mkt[c].from]]
(* The call returns these candles, or none.                                *)
Answer(c) ==
  mkt' = [mkt EXCEPT ![c] = [@ EXCEPT !.pc = "done", !.from = 0, !.asof = mkt[c].from,
                                      !.took = xt - mkt[c].from]]
FetchCandles(c) ==
  /\ mkt[c].pc = "fetch"
  /\ \/ NoXFault /\ Fill(c) /\ Answer(c)
     \/ XFault /\ UNCHANGED cache /\ mkt' = [mkt EXCEPT ![c] = [@ EXCEPT !.pc = "done", !.from = 0]]
  /\ UNCHANGED <<xt, events, feed, perp, poll, load>>

----------------------------------------------------------------------------
(* The pollers.                                                            *)

(* RunOnce of the perp worker: the symbols of active strategies and BTC,   *)
(* only BTC if they cannot be read; one time for all rows of the tick.     *)
PerpTick ==
  /\ poll.pc = "idle" /\ perp[BTC] # xt
  /\ \/ NoXFault /\ poll' = [pc |-> "sym", todo |-> Polled, at |-> xt]
     \/ XFault /\ poll' = [pc |-> "sym", todo |-> {BTC}, at |-> xt]
  /\ UNCHANGED <<xt, events, feed, perp, cache, mkt, load>>
(* fetchOne: three requests, then the day's change by the provider, which  *)
(* may have none, then the row.  A failure is only this symbol's.          *)
Through(s) ==
  poll' = IF poll.todo = {s} THEN IdlePoll ELSE [poll EXCEPT !.pc = "sym", !.todo = @ \ {s}]
FetchPerp(s) ==
  /\ poll.pc = "sym" /\ s \in poll.todo
  /\ \/ NoXFault /\ GetContext("poller", s) /\ poll' = [poll EXCEPT !.pc = "price"]
     \/ XFault /\ UNCHANGED mkt /\ Through(s)
  /\ UNCHANGED <<xt, events, feed, perp, cache, load>>
InsertPerp ==
  /\ poll.pc = "price" /\ mkt["poller"].pc = "done"
  /\ mkt' = [mkt EXCEPT !["poller"] = IdleCall]
  /\ \/ NoXFault /\ perp' = [perp EXCEPT ![mkt["poller"].sym] = poll.at]
     \/ XFault /\ UNCHANGED perp
  /\ Through(mkt["poller"].sym)
  /\ UNCHANGED <<xt, events, feed, cache, load>>

(* The feed moves an event.  Its key changes with its time, so that the    *)
(* upsert adds a second row and the first one stays.  SaveBatch stops at   *)
(* the first error; a load that reads amid a batch reads less of it.       *)
Reschedule(e) ==
  /\ feed[e] = 2 /\ feed' = [feed EXCEPT ![e] = 3]
  /\ UNCHANGED <<xt, events, perp, poll, cache, mkt, load, xfaults>>
Batch == {[title |-> e, at |-> feed[e]] : e \in Titles}
CalendarTick ==
  /\ ~ Batch \subseteq events
  /\ \/ NoXFault /\ events' = events \cup Batch
     \/ XFault /\ \E stored \in SUBSET Batch \ {Batch} : events' = events \cup stored
  /\ UNCHANGED <<xt, feed, perp, poll, cache, mkt, load>>

----------------------------------------------------------------------------
(* assembleInput: the candles and Load, side by side.                      *)

Assemble(c) ==
  /\ load[c].pc = "idle"
  /\ load' = [load EXCEPT ![c] = [IdleLoad EXCEPT !.pc = "events", !.now = xt]]
  /\ GetContext(c, SignalSymbol[c])
  /\ UNCHANGED <<xt, events, feed, perp, poll, cache, xfaults>>

(* One source of Load; with an error or after 200 ms it is left out.       *)
ReadSource(c, from, to, got) ==
  /\ load[c].pc = from
  /\ \/ NoXFault /\ load' = [load EXCEPT ![c] = [got EXCEPT !.pc = to]]
     \/ XFault /\ load' = [load EXCEPT ![c].pc = to]
  /\ UNCHANGED <<xt, events, feed, perp, poll, cache, mkt>>
ActiveBetween(now) == {r \in events : r.at \in (now - Around)..(now + Around)}
ReadEvents(c) == ReadSource(c, "events", "lookback", [load[c] EXCEPT !.events = ActiveBetween(load[c].now)])
(* The settings row, whatever the form has stored last, under the signal's *)
(* context only; a failure, as a value that is not positive, leaves 30.    *)
ReadLookback(c) ==
  /\ load[c].pc = "lookback"
  /\ \/ /\ NoXFault
        /\ \E v \in Lookbacks : load' = [load EXCEPT ![c] = [@ EXCEPT !.pc = "self", !.lb = v]]
     \/ XFault /\ load' = [load EXCEPT ![c] = [@ EXCEPT !.pc = "self", !.lb = DefaultLookback]]
  /\ UNCHANGED <<xt, events, feed, perp, poll, cache, mkt>>
(* loadPerp: nothing if the latest row is older than the lookback in whole *)
(* minutes, the fraction cut off.                                          *)
MinutesBetween(from, to) == (to - from) \div Minute
Latest(s, now, lb) ==
  IF perp[s] # Never /\ MinutesBetween(perp[s], now) <= lb THEN perp[s] ELSE Never
ReadSelf(c) ==
  ReadSource(c, "self", "btc",
             [load[c] EXCEPT !.self = Latest(SignalSymbol[c], load[c].now, load[c].lb)])
(* A signal on BTC takes what it has for both.                             *)
ReadBTC(c) ==
  ReadSource(c, "btc", "joined", [load[c] EXCEPT !.btc =
    IF SignalSymbol[c] = BTC THEN load[c].self ELSE Latest(BTC, load[c].now, load[c].lb)])

(* g.Wait: the candles, the load, and whenever the two others are back.    *)
Join(c) ==
  /\ load[c].pc = "joined" /\ mkt[c].pc = "done"
  /\ load' = [load EXCEPT ![c].pc = "prompt"]
  /\ UNCHANGED <<xt, events, feed, perp, poll, cache, mkt, xfaults>>
Prompted(c) ==
  /\ load[c].pc = "prompt"
  /\ load' = [load EXCEPT ![c] = IdleLoad] /\ mkt' = [mkt EXCEPT ![c] = IdleCall]
  /\ UNCHANGED <<xt, events, feed, perp, poll, cache, xfaults>>

LoadStep(c) == ReadEvents(c) \/ ReadLookback(c) \/ ReadSelf(c) \/ ReadBTC(c)
LoadNext ==
  \/ ContextTick
  \/ \E c \in Callers : FetchCandles(c)
  \/ \E c \in Scorings : Assemble(c) \/ LoadStep(c) \/ Join(c) \/ Prompted(c)
MarketNext == LoadNext \/ PerpTick \/ (\E s \in Polled : FetchPerp(s)) \/ InsertPerp
CalendarNext == LoadNext \/ CalendarTick \/ \E e \in Titles : Reschedule(e)
ContextNext == MarketNext \/ CalendarNext
ContextSpec == ContextInit /\ [][ContextNext]_contextVars
----------------------------------------------------------------------------
ContextTypeOK ==
  /\ xt \in Times
  /\ perp \in [Polled -> Times \cup {Never}]
  /\ poll.todo \subseteq Polled /\ poll.pc \in {"idle", "sym", "price"}
  /\ cache \in [Polled -> [at : Times \cup {Never}, asof : Times \cup {Never}, took : Times]]
  /\ \A c \in Callers : mkt[c].pc \in {"idle", "fetch", "done"} /\ mkt[c].asof <= xt
  /\ \A c \in Scorings :
       /\ load[c].pc \in {"idle", "events", "lookback", "self", "btc", "joined", "prompt"}
       /\ load[c].lb \in Lookbacks \cup {DefaultLookback}

(* What a prompt says is as old as its parts may be and no older: candles  *)
(* by the life of the cache and the one request they came by, however      *)
(* concurrent misses overwrite each other; perp data by less than a minute *)
(* more than the lookback it was read under, which is the setting of the   *)
(* time of the read, or 30 when that fails; events lie around the time of  *)
(* the load.  To each the life of the signal's context is added.           *)
ContextFresh ==
  \A c \in Scorings : load[c].pc = "prompt" =>
    /\ mkt[c].asof # Never =>
         xt - mkt[c].asof <= ProcessTime + mkt[c].took + (IF TTL > 0 THEN TTL - 1 ELSE 0)
    /\ \A t \in {load[c].self, load[c].btc} \ {Never} :
         xt - t < (load[c].lb + 1) * Minute + ProcessTime
    /\ \A r \in load[c].events : r.at \in (xt - Around - ProcessTime)..(xt + Around)
=============================================================================
