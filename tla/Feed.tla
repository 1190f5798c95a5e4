-------------------------------- MODULE Feed --------------------------------
(***************************************************************************)
(* The broker of evaluation events and the handlers of /api/eval/stream.   *)
(* Publish copies the subscribers under the lock and sends without it, so  *)
(* a subscriber may unsubscribe, and its channel close, before its turn.   *)
(* A send on a closed channel panics; Publish recovers and is over.        *)
(*                                                                         *)
(* The server has no write timeout: the write of a handler to a client     *)
(* that does not read lasts as long as the client stalls.                  *)
(*                                                                         *)
(* Abstractions: an event is only counted.  The order in which a map is    *)
(* iterated is any.  A client stalls once the buffers between it and the   *)
(* handler are full, and a connection that is lost is one it has left.     *)
(***************************************************************************)
EXTENDS Integers, FiniteSets

CONSTANTS
  Subs,       \* connections; each subscribes once, under an id of its own
  Publishers, \* goroutines that publish: signals, closings, the news worker
  Cap,        \* slots of a subscriber's channel
  DropLimit,  \* drops in a row that remove a subscriber
  Stalling,   \* bound: connections whose client may stall or leave
  MaxEvents   \* bound: events published

ASSUME FeedAssumption ==
  /\ Cap \in Nat \ {0} /\ DropLimit \in Nat \ {0} /\ MaxEvents \in Nat

VARIABLES
  subs,      \* Broker.subs: the ids in the map
  ch,        \* their channels: events waiting, closed or not, times closed
  drops,     \* subscriber.drops
  conn,      \* a handler: "new", "ready" and "write" (it writes the first message, an
             \*   event), "loop", "closing" (it has left the map), "gone"
  client,    \* at the other end: "reads", "stalls", or has "left"
  pub,       \* a Publish: program counter, copy of subs, the one being served
  events,    \* events published so far
  skipped    \* history: subscribers a panic of Publish made it pass over

feedVars == <<subs, ch, drops, conn, client, pub, events, skipped>>

IdlePub == [pc |-> "idle", todo |-> {}, cur |-> {}]

FeedInit ==
  /\ subs = {}
  /\ ch = [s \in Subs |-> [n |-> 0, open |-> TRUE, closes |-> 0]]
  /\ drops = [s \in Subs |-> 0]
  /\ conn = [s \in Subs |-> "new"] /\ client = [s \in Subs |-> "reads"]
  /\ pub = [p \in Publishers |-> IdlePub]
  /\ events = 0 /\ skipped = {}

(* close panics on a closed channel, which its callers recover; it counts. *)
Close(s) == ch' = [ch EXCEPT ![s].open = FALSE, ![s].closes = @ + 1]

----------------------------------------------------------------------------
(* The client of a connection.                                             *)

ClientTurns(s, to) ==
  /\ s \in Stalling /\ client' = [client EXCEPT ![s] = to]
  /\ UNCHANGED <<subs, ch, drops, conn, pub, events, skipped>>
(* It no longer reads, and the write finds the buffers full.               *)
Stall(s) == conn[s] \in {"ready", "write"} /\ client[s] = "reads" /\ ClientTurns(s, "stalls")
Resume(s) == client[s] = "stalls" /\ ClientTurns(s, "reads")
Leave(s) ==
  conn[s] \in {"ready", "loop", "write"} /\ client[s] # "left" /\ ClientTurns(s, "left")

----------------------------------------------------------------------------
(* The handler of a connection.                                            *)

Subscribe(s) ==
  /\ conn[s] = "new"
  /\ subs' = subs \cup {s}
  /\ conn' = [conn EXCEPT ![s] = "ready"]
  /\ UNCHANGED <<ch, drops, client, pub, events, skipped>>

Receive(s) ==
  /\ conn[s] = "loop" /\ ch[s].n > 0
  /\ ch' = [ch EXCEPT ![s].n = @ - 1]
  /\ conn' = [conn EXCEPT ![s] = "write"]
  /\ UNCHANGED <<subs, drops, client, pub, events, skipped>>
(* A write returns, unless its client stalls.  Its error, if any, ends the *)
(* handler only if it is the first one.                                    *)
Flushed(s) ==
  /\ conn[s] \in {"ready", "write"} /\ client[s] # "stalls"
  /\ conn' = [conn EXCEPT ![s] = "loop"]
  /\ UNCHANGED <<subs, ch, drops, client, pub, events, skipped>>

(* Unsubscribe, first half, under the lock: leave the map.                 *)
Unsubscribe(s) ==
  /\ subs' = subs \ {s}
  /\ conn' = [conn EXCEPT ![s] = IF s \in subs THEN "closing" ELSE "gone"]
  /\ UNCHANGED ch

(* The first flush fails, the context of the request is done, or the       *)
(* channel is closed and drained: the deferred Unsubscribe runs.           *)
ClientLeft(s) ==
  /\ conn[s] \in {"ready", "loop"} /\ client[s] = "left" /\ Unsubscribe(s)
  /\ UNCHANGED <<drops, client, pub, events, skipped>>
StreamEnds(s) ==
  /\ conn[s] = "loop" /\ ~ch[s].open /\ ch[s].n = 0
  /\ Unsubscribe(s)
  /\ UNCHANGED <<drops, client, pub, events, skipped>>
CloseAfter(s) ==
  /\ conn[s] = "closing"
  /\ Close(s)
  /\ conn' = [conn EXCEPT ![s] = "gone"]
  /\ UNCHANGED <<subs, drops, client, pub, events, skipped>>

----------------------------------------------------------------------------
(* Publish.                                                                *)

Publish(p) ==
  /\ pub[p].pc = "idle" /\ events < MaxEvents
  /\ events' = events + 1
  /\ pub' = [pub EXCEPT ![p] = [pc |-> "send", todo |-> subs, cur |-> {}]]
  /\ UNCHANGED <<subs, ch, drops, conn, client, skipped>>

Served(p, s, pc) ==
  pub' = [pub EXCEPT ![p] = [pc |-> pc, todo |-> @.todo \ {s}, cur |-> {s}]]

(* A send that succeeds; the counter is reset in a second step.            *)
Send(p, s) ==
  /\ pub[p].pc = "send" /\ s \in pub[p].todo
  /\ ch[s].open /\ ch[s].n < Cap
  /\ ch' = [ch EXCEPT ![s].n = @ + 1]
  /\ Served(p, s, "reset")
  /\ UNCHANGED <<subs, drops, conn, client, events, skipped>>
ResetDrops(p) ==
  /\ pub[p].pc = "reset"
  /\ drops' = [s \in Subs |-> IF s \in pub[p].cur THEN 0 ELSE drops[s]]
  /\ pub' = [pub EXCEPT ![p].pc = "send", ![p].cur = {}]
  /\ UNCHANGED <<subs, ch, conn, client, events, skipped>>

(* A full channel: one more drop, and at the limit dropSub.                *)
DropEvent(p, s) ==
  /\ pub[p].pc = "send" /\ s \in pub[p].todo
  /\ ch[s].open /\ ch[s].n = Cap
  /\ drops' = [drops EXCEPT ![s] = @ + 1]
  /\ Served(p, s, IF drops[s] + 1 >= DropLimit THEN "drop" ELSE "send")
  /\ UNCHANGED <<subs, ch, conn, client, events, skipped>>
DropUnasked(p) ==  \* mutant: the map is not asked whether somebody else closes
  /\ pub[p].pc = "drop"
  /\ subs' = subs \ pub[p].cur
  /\ pub' = [pub EXCEPT ![p].pc = "close"]
  /\ UNCHANGED <<ch, drops, conn, client, events, skipped>>
DropOnly(p) ==  \* mutant: the channel is left open
  /\ pub[p].pc = "drop"
  /\ subs' = subs \ pub[p].cur
  /\ pub' = [pub EXCEPT ![p].pc = "send", ![p].cur = {}]
  /\ UNCHANGED <<ch, drops, conn, client, events, skipped>>
(* dropSub under the lock; who is not in the map is left alone.            *)
DropSub(p) ==
  /\ pub[p].pc = "drop"
  /\ subs' = subs \ pub[p].cur
  /\ pub' = [pub EXCEPT ![p] = IF @.cur \subseteq subs THEN [@ EXCEPT !.pc = "close"]
                               ELSE [@ EXCEPT !.pc = "send", !.cur = {}]]
  /\ UNCHANGED <<ch, drops, conn, client, events, skipped>>
CloseDropped(p) ==
  /\ pub[p].pc = "close"
  /\ \E s \in pub[p].cur : Close(s)
  /\ pub' = [pub EXCEPT ![p].pc = "send", ![p].cur = {}]
  /\ UNCHANGED <<subs, drops, conn, client, events, skipped>>

(* The send on a closed channel: who has not been served yet is skipped.   *)
Panic(p, s) ==
  /\ pub[p].pc = "send" /\ s \in pub[p].todo /\ ~ch[s].open
  /\ skipped' = skipped \cup ((pub[p].todo \ {s}) \cap subs)
  /\ pub' = [pub EXCEPT ![p] = IdlePub]
  /\ UNCHANGED <<subs, ch, drops, conn, client, events>>
Return(p) ==
  /\ pub[p].pc = "send" /\ pub[p].todo = {}
  /\ pub' = [pub EXCEPT ![p] = IdlePub]
  /\ UNCHANGED <<subs, ch, drops, conn, client, events, skipped>>

HandlerStep(s) == Receive(s) \/ Flushed(s) \/ ClientLeft(s) \/ StreamEnds(s) \/ CloseAfter(s)
PublishStep(p) ==
  \/ ResetDrops(p) \/ DropSub(p) \/ CloseDropped(p) \/ Return(p)
  \/ \E s \in Subs : Send(p, s) \/ DropEvent(p, s) \/ Panic(p, s)
FeedNext ==
  \/ \E s \in Subs : Subscribe(s) \/ Stall(s) \/ Resume(s) \/ Leave(s) \/ HandlerStep(s)
  \/ \E p \in Publishers : Publish(p) \/ PublishStep(p)
FeedSpec == FeedInit /\ [][FeedNext]_feedVars
----------------------------------------------------------------------------
FeedTypeOK ==
  /\ subs \subseteq Subs
  /\ ch \in [Subs -> [n : 0..Cap, open : BOOLEAN, closes : 0..2]]
  /\ drops \in [Subs -> 0..MaxEvents]
  /\ conn \in [Subs -> {"new", "ready", "loop", "write", "closing", "gone"}]
  /\ client \in [Subs -> {"reads", "stalls", "left"}]
  /\ pub \in [Publishers -> [pc : {"idle", "send", "reset", "drop", "close"},
                             todo : SUBSET Subs, cur : SUBSET Subs]]
  /\ events \in 0..MaxEvents /\ skipped \subseteq Subs

(* Whoever is in the map can be sent to, and no channel is closed twice:   *)
(* whoever takes a subscriber out of the map closes its channel, although  *)
(* both the handler and any Publish may want to.                           *)
RegisteredOpen ==
  \A s \in Subs : (s \in subs => ch[s].open) /\ ch[s].closes <= 1
(* A connection the broker drops as too slow comes to an end, and so does  *)
(* one whose client leaves: no handler waits for events that cannot come.  *)
(* Not so while its client stalls: nothing ends the handler's write then.  *)
DroppedEnds ==
  \A s \in Subs :
    <>[](client[s] # "stalls") =>
      (conn[s] # "new" /\ (s \notin subs \/ client[s] = "left"))
        ~> (conn[s] = "gone" /\ ~ch[s].open)
(* "Publish fans evt out to every current subscriber": whom the broker     *)
(* still holds is not passed over.                                         *)
FannedOut == skipped = {}
=============================================================================
