----------------------------- MODULE Evaluation_proofs -------------------------
(***************************************************************************)
(* Proofs about the evaluation services, each alone and side by side.      *)
(*                                                                         *)
(* Broker: a channel is closed once, by whoever took its subscriber out of *)
(* the map under the lock; the invariant says who that is at each moment.  *)
(* Critique: the invariant follows the due times of the timer, and the     *)
(* patterns through insertion and pinning.  Backfillers: what a worker has *)
(* in hand is still what the row and the trade say when it writes.         *)
(* Replay: the counters count the cases that were called, so that the      *)
(* report, which counts the same rows by bucket and by flip, adds up.      *)
(***************************************************************************)
EXTENDS MCEvaluation, FiniteSetTheorems, FunctionTheorems, SequenceTheorems, WellFoundedInduction, TLAPS

----------------------------------------------------------------------------
(* The broker.                                                             *)

Chan == [n : 0..Cap, open : BOOLEAN, closes : 0..2]
PubState == [pc : {"idle", "send", "reset", "drop", "close"},
             todo : SUBSET Subs, cur : SUBSET Subs]

(* A handler between Subscribe and Unsubscribe.                            *)
Serving == {"ready", "loop", "write"}

TypeF ==
  /\ subs \subseteq Subs
  /\ ch \in [Subs -> Chan]
  /\ conn \in [Subs -> {"new", "closing", "gone"} \cup Serving]
  /\ pub \in [Publishers -> PubState]

(* Publish p has taken s out of the map and is about to close it.          *)
Closer(p, s) == pub[p].pc = "close" /\ s \in pub[p].cur

InMap == \A s \in subs : ch[s].open /\ conn[s] \in Serving /\ \A p \in Publishers : ~Closer(p, s)
NewOpen == \A s \in Subs : conn[s] = "new" => ch[s].open
HandlerCloses ==
  \A s \in Subs : conn[s] = "closing" => ch[s].open /\ \A p \in Publishers : ~Closer(p, s)
BrokerCloses ==
  \A p \in Publishers, s \in Subs : Closer(p, s) =>
    /\ ch[s].open /\ conn[s] \in Serving \cup {"gone"}
    /\ \A q \in Publishers : Closer(q, s) => q = p
ClosedOnce == \A s \in Subs : ch[s].closes = IF ch[s].open THEN 0 ELSE 1

Owned == InMap /\ NewOpen /\ HandlerCloses /\ BrokerCloses
FeedIInv == TypeF /\ Owned /\ ClosedOnce

LEMMA CapPositive == Cap \in Nat /\ Cap > 0
BY FeedAssumption

LEMMA FeedInitInv == FeedInit => FeedIInv
<1> SUFFICES ASSUME FeedInit PROVE FeedIInv  OBVIOUS
<1>1. TypeF
  <2>1. [n |-> 0, open |-> TRUE, closes |-> 0] \in Chan  BY CapPositive DEF Chan
  <2>2. IdlePub \in PubState  BY DEF IdlePub, PubState
  <2> QED  BY <2>1, <2>2 DEF FeedInit, TypeF
<1>2. \A p \in Publishers, s \in Subs : ~Closer(p, s)
  BY DEF FeedInit, Closer, IdlePub
<1>3. Owned
  BY <1>2 DEF FeedInit, Owned, InMap, NewOpen, HandlerCloses, BrokerCloses
<1>4. ClosedOnce  BY DEF FeedInit, ClosedOnce
<1> QED  BY <1>1, <1>3, <1>4 DEF FeedIInv

(* Closing an open channel.                                                *)
LEMMA CloseEffect ==
  ASSUME TypeF, ClosedOnce, NEW s \in Subs, ch[s].open, Close(s)
  PROVE  /\ ch' \in [Subs -> Chan] /\ ClosedOnce'
         /\ ~ch'[s].open /\ \A t \in Subs \ {s} : ch'[t] = ch[t]
<1>1. ch[s] \in Chan /\ ch[s].closes = 0 /\ ch[s].open = TRUE  BY DEF TypeF, ClosedOnce, Chan
<1> DEFINE r == [ch[s] EXCEPT !.open = FALSE, !.closes = 1]
<1>2. ch' = [ch EXCEPT ![s] = r]
  <2>1. ch' = [ch EXCEPT ![s] = [ch[s] EXCEPT !.open = FALSE,
                                              !.closes = ch[s].closes + 1]]
    BY Zenon DEF Close
  <2>2. ch[s].closes + 1 = 1  BY <1>1
  <2> QED  BY <2>1, <2>2
<1>3. r.open = FALSE  BY <1>1 DEF Chan
<1>4. r.closes = 1  BY <1>1 DEF Chan
<1>5. r \in Chan
  <2>1. 1 \in 0..2 /\ FALSE \in BOOLEAN  OBVIOUS
  <2> QED  BY <1>1, <2>1 DEF Chan
<1> HIDE DEF r
<1>6. ch'[s] = r /\ \A t \in Subs \ {s} : ch'[t] = ch[t]  BY <1>2 DEF TypeF
<1>7. ch' \in [Subs -> Chan]  BY <1>2, <1>5 DEF TypeF
<1>8. ClosedOnce'  BY <1>3, <1>4, <1>6 DEF ClosedOnce
<1> QED  BY <1>3, <1>6, <1>7, <1>8

(* Events that come and go leave each channel open or closed as it was.    *)
LEMMA CountEffect ==
  ASSUME TypeF, ClosedOnce, NEW s \in Subs, NEW k \in 0..Cap,
         ch' = [ch EXCEPT ![s].n = k]
  PROVE  /\ ch' \in [Subs -> Chan] /\ ClosedOnce'
         /\ \A t \in Subs : ch'[t].open = ch[t].open
<1>1. ch[s] \in Chan  BY DEF TypeF
<1> DEFINE r == [ch[s] EXCEPT !.n = k]
<1>2. r \in Chan  BY <1>1 DEF Chan
<1>3. r.open = ch[s].open  BY <1>1 DEF Chan
<1>4. r.closes = ch[s].closes  BY <1>1 DEF Chan
<1>5. ch' = [ch EXCEPT ![s] = r]  OBVIOUS
<1> HIDE DEF r
<1>6. ch'[s] = r /\ \A t \in Subs \ {s} : ch'[t] = ch[t]  BY <1>5 DEF TypeF
<1>7. ch' \in [Subs -> Chan]  BY <1>2, <1>5 DEF TypeF
<1>8. \A t \in Subs : ch'[t].open = ch[t].open /\ ch'[t].closes = ch[t].closes
  BY <1>3, <1>4, <1>6
<1>9. ClosedOnce'  BY <1>8 DEF ClosedOnce
<1> QED  BY <1>7, <1>8, <1>9

(* A Publish that is not about to close, before or after, changes nobody's *)
(* closer.                                                                 *)
LEMMA PubEffect ==
  ASSUME TypeF, NEW p \in Publishers, NEW r \in PubState,
         pub[p].pc # "close" \/ r.pc # "close", r.pc # "close",
         pub' = [pub EXCEPT ![p] = r]
  PROVE  /\ pub' \in [Publishers -> PubState]
         /\ \A q \in Publishers, s \in Subs : Closer(q, s)' => Closer(q, s)
BY DEF TypeF, Closer

(* Owned survives when closers only disappear, the channels that matter    *)
(* stay open, and the map and the handlers are as they were.               *)
LEMMA OwnedKept ==
  ASSUME TypeF, Owned, subs' \subseteq subs, conn' = conn,
         \A q \in Publishers, s \in Subs : Closer(q, s)' => Closer(q, s),
         \A s \in Subs : ch'[s].open = ch[s].open
  PROVE  Owned'
<1>1. InMap'  BY DEF Owned, InMap, TypeF
<1>2. NewOpen'  BY DEF Owned, NewOpen
<1>3. HandlerCloses'  BY DEF Owned, HandlerCloses
<1>4. BrokerCloses'  BY DEF Owned, BrokerCloses
<1> QED  BY <1>1, <1>2, <1>3, <1>4 DEF Owned

LEMMA SameCloser ==
  ASSUME pub' = pub
  PROVE  \A q \in Publishers, s \in Subs : Closer(q, s)' = Closer(q, s)
BY DEF Closer

(* A handler that goes on to another of its steps.                         *)
LEMMA ServingKept ==
  ASSUME TypeF, Owned, NEW s \in Subs, NEW c \in Serving, conn[s] \in Serving,
         conn' = [conn EXCEPT ![s] = c], subs' = subs, pub' = pub,
         \A t \in Subs : ch'[t].open = ch[t].open
  PROVE  Owned' /\ conn' \in [Subs -> {"new", "closing", "gone"} \cup Serving]
<1>1. conn'[s] = c /\ \A t \in Subs \ {s} : conn'[t] = conn[t]  BY DEF TypeF
<1>2. c \notin {"new", "closing", "gone"}  BY DEF Serving
<1>3. conn' \in [Subs -> {"new", "closing", "gone"} \cup Serving]  BY DEF TypeF
<1>4. InMap'  BY <1>1, SameCloser DEF Owned, InMap, TypeF
<1>5. NewOpen' /\ HandlerCloses'
  BY <1>1, <1>2, SameCloser DEF Owned, NewOpen, HandlerCloses
<1>6. BrokerCloses'  BY <1>1, SameCloser DEF Owned, BrokerCloses
<1> QED  BY <1>3, <1>4, <1>5, <1>6 DEF Owned

(* The client of a connection: nothing the channels depend on changes.     *)
LEMMA ClientInv ==
  ASSUME FeedIInv, NEW s \in Subs, Stall(s) \/ Resume(s) \/ Leave(s)
  PROVE  FeedIInv'
<1>1. subs' = subs /\ ch' = ch /\ conn' = conn /\ pub' = pub
  BY DEF Stall, Resume, Leave, ClientTurns
<1>2. TypeF' /\ ClosedOnce'  BY <1>1 DEF FeedIInv, TypeF, ClosedOnce
<1>3. Owned'  BY <1>1, SameCloser, OwnedKept DEF FeedIInv
<1> QED  BY <1>2, <1>3 DEF FeedIInv

(* The handler of a connection.                                            *)
LEMMA HandlerInv ==
  ASSUME FeedIInv, NEW s \in Subs, Subscribe(s) \/ HandlerStep(s)
  PROVE  FeedIInv'
<1> USE DEF FeedIInv
<1>1. CASE Subscribe(s)
  <2>1. ch' = ch /\ pub' = pub /\ subs' = subs \cup {s} /\ conn[s] = "new"
        /\ conn' = [conn EXCEPT ![s] = "ready"]
    BY <1>1 DEF Subscribe
  <2>2. TypeF' /\ ClosedOnce'  BY <2>1 DEF TypeF, ClosedOnce, Serving
  <2>3. \A q \in Publishers : ~Closer(q, s)  BY <2>1 DEF Owned, BrokerCloses, Serving
  <2>4. conn'[s] = "ready" /\ conn'[s] \in Serving /\ \A t \in Subs \ {s} : conn'[t] = conn[t]
    BY <2>1 DEF TypeF, Serving
  <2>5. InMap'
    BY <2>1, <2>3, <2>4, SameCloser DEF Owned, InMap, NewOpen, TypeF
  <2>6. NewOpen' /\ HandlerCloses' /\ BrokerCloses'
    BY <2>1, <2>3, <2>4, SameCloser DEF Owned, NewOpen, HandlerCloses, BrokerCloses
  <2> QED  BY <2>2, <2>5, <2>6 DEF Owned
<1>2. CASE Receive(s)
  <2>1. subs' = subs /\ conn' = [conn EXCEPT ![s] = "write"] /\ pub' = pub /\ ch[s].n > 0
        /\ conn[s] = "loop" /\ ch' = [ch EXCEPT ![s].n = ch[s].n - 1]
    BY <1>2 DEF Receive
  <2>2. ch[s].n - 1 \in 0..Cap  BY <2>1, CapPositive DEF TypeF, Chan
  <2>3. ch' \in [Subs -> Chan] /\ ClosedOnce' /\ \A t \in Subs : ch'[t].open = ch[t].open
    BY <2>1, <2>2, CountEffect
  <2>4. conn[s] \in Serving /\ "write" \in Serving  BY <2>1 DEF Serving
  <2>5. Owned' /\ conn' \in [Subs -> {"new", "closing", "gone"} \cup Serving]
    BY <2>1, <2>3, <2>4, ServingKept
  <2>6. TypeF'  BY <2>1, <2>3, <2>5 DEF TypeF
  <2> QED  BY <2>3, <2>5, <2>6
<1>5. CASE Flushed(s)
  <2>1. subs' = subs /\ ch' = ch /\ pub' = pub /\ conn' = [conn EXCEPT ![s] = "loop"]
        /\ conn[s] \in Serving /\ "loop" \in Serving
    BY <1>5 DEF Flushed, Serving
  <2>2. Owned' /\ conn' \in [Subs -> {"new", "closing", "gone"} \cup Serving]
    BY <2>1, ServingKept
  <2>3. TypeF' /\ ClosedOnce'  BY <2>1, <2>2 DEF TypeF, ClosedOnce
  <2> QED  BY <2>2, <2>3
<1>3. CASE ClientLeft(s) \/ StreamEnds(s)
  <2>1. ch' = ch /\ pub' = pub /\ subs' = subs \ {s} /\ conn[s] \in Serving
        /\ conn' = [conn EXCEPT ![s] = IF s \in subs THEN "closing" ELSE "gone"]
    BY <1>3 DEF ClientLeft, StreamEnds, Unsubscribe, Serving
  <2>2. TypeF' /\ ClosedOnce'  BY <2>1 DEF TypeF, ClosedOnce
  <2>3. /\ conn'[s] = IF s \in subs THEN "closing" ELSE "gone"
        /\ \A t \in Subs \ {s} : conn'[t] = conn[t]
    BY <2>1 DEF TypeF
  <2>4. InMap'  BY <2>1, <2>3, SameCloser DEF Owned, InMap, TypeF
  <2>5. NewOpen'  BY <2>1, <2>3 DEF Owned, NewOpen, Serving
  <2>6. HandlerCloses' /\ BrokerCloses'
    BY <2>1, <2>3, SameCloser DEF Owned, InMap, HandlerCloses, BrokerCloses
  <2> QED  BY <2>2, <2>4, <2>5, <2>6 DEF Owned
<1>4. CASE CloseAfter(s)
  <2>1. Close(s) /\ pub' = pub /\ subs' = subs /\ conn[s] = "closing"
        /\ conn' = [conn EXCEPT ![s] = "gone"]
    BY <1>4 DEF CloseAfter
  <2>2. s \notin subs /\ ch[s].open /\ \A q \in Publishers : ~Closer(q, s)
    BY <2>1 DEF Owned, InMap, HandlerCloses, Serving
  <2>3. ch' \in [Subs -> Chan] /\ ClosedOnce' /\ \A t \in Subs \ {s} : ch'[t] = ch[t]
    BY <2>1, <2>2, CloseEffect
  <2>4. TypeF'  BY <2>1, <2>3 DEF TypeF
  <2>5. conn'[s] = "gone" /\ \A t \in Subs \ {s} : conn'[t] = conn[t]  BY <2>1 DEF TypeF
  <2>6. InMap'  BY <2>1, <2>2, <2>3, <2>5, SameCloser DEF Owned, InMap, TypeF
  <2>7. NewOpen' /\ HandlerCloses' /\ BrokerCloses'
    BY <2>1, <2>2, <2>3, <2>5, SameCloser DEF Owned, NewOpen, HandlerCloses, BrokerCloses
  <2> QED  BY <2>3, <2>4, <2>6, <2>7 DEF Owned
<1> QED  BY <1>1, <1>2, <1>3, <1>4, <1>5 DEF HandlerStep

(* The steps of Publish that leave the channels and the map alone.         *)
LEMMA QuietInv ==
  ASSUME FeedIInv, NEW p \in Publishers, NEW r \in PubState, r.pc # "close",
         pub' = [pub EXCEPT ![p] = r], subs' \subseteq subs, conn' = conn, ch' = ch
  PROVE  FeedIInv'
<1> USE DEF FeedIInv
<1>1. pub' \in [Publishers -> PubState]
      /\ \A q \in Publishers, s \in Subs : Closer(q, s)' => Closer(q, s)
  BY PubEffect
<1>2. TypeF' /\ ClosedOnce'  BY <1>1 DEF TypeF, ClosedOnce
<1>3. Owned'  BY <1>1, OwnedKept
<1> QED  BY <1>2, <1>3

(* One subscriber served: what Publish is at next.                         *)
LEMMA ServedState ==
  ASSUME TypeF, NEW p \in Publishers, NEW s \in Subs, NEW pc \in {"send", "reset", "drop"},
         Served(p, s, pc)
  PROVE  \E r \in PubState : r.pc # "close" /\ pub' = [pub EXCEPT ![p] = r]
<1> DEFINE r == [pc |-> pc, todo |-> pub[p].todo \ {s}, cur |-> {s}]
<1>1. pub[p].todo \subseteq Subs  BY DEF TypeF, PubState
<1>2. r \in PubState /\ r.pc # "close"  BY <1>1 DEF PubState
<1>3. pub' = [pub EXCEPT ![p] = r]  BY DEF Served
<1> QED  BY <1>2, <1>3

(* Where Publish goes on after one subscriber.                             *)
LEMMA BackToSend ==
  ASSUME TypeF, NEW p \in Publishers, pub' = [pub EXCEPT ![p].pc = "send", ![p].cur = {}]
  PROVE  \E r \in PubState : r.pc # "close" /\ pub' = [pub EXCEPT ![p] = r]
<1> DEFINE r == [pub[p] EXCEPT !.pc = "send", !.cur = {}]
<1>1. pub[p] \in PubState  BY DEF TypeF
<1>2. r \in PubState  BY <1>1 DEF PubState
<1>3. r.pc # "close"  BY <1>1 DEF PubState
<1>4. pub' = [pub EXCEPT ![p] = r]  OBVIOUS
<1> QED  BY <1>2, <1>3, <1>4

(* dropSub, under the lock: the broker becomes the closer of whom it took  *)
(* out of the map.                                                         *)
LEMMA DropSubInv == ASSUME FeedIInv, NEW p \in Publishers, DropSub(p) PROVE FeedIInv'
<1> USE DEF FeedIInv
<1>1. subs' = subs \ pub[p].cur /\ conn' = conn /\ ch' = ch /\ pub[p].pc = "drop"
  BY DEF DropSub
<1>2. pub[p] \in PubState  BY DEF TypeF
<1>3. CASE ~(pub[p].cur \subseteq subs)
  <2> DEFINE r == [pub[p] EXCEPT !.pc = "send", !.cur = {}]
  <2>1. pub' = [pub EXCEPT ![p] = r]  BY <1>3 DEF DropSub
  <2>2. r \in PubState  BY <1>2 DEF PubState
  <2>3. r.pc # "close"  BY <1>2 DEF PubState
  <2>4. subs' \subseteq subs  BY <1>1
  <2> HIDE DEF r
  <2> QED  BY <1>1, <2>1, <2>2, <2>3, <2>4, QuietInv
<1>4. CASE pub[p].cur \subseteq subs
  <2> DEFINE r == [pub[p] EXCEPT !.pc = "close"]
  <2>1. pub' = [pub EXCEPT ![p] = r]  BY <1>4 DEF DropSub
  <2>2. r \in PubState  BY <1>2 DEF PubState
  <2>3. r.pc = "close" /\ r.cur = pub[p].cur  BY <1>2 DEF PubState
  <2> HIDE DEF r
  <2>4. pub'[p] = r /\ \A q \in Publishers \ {p} : pub'[q] = pub[q]  BY <2>1 DEF TypeF
  <2>5. TypeF' /\ ClosedOnce'  BY <1>1, <2>1, <2>2 DEF TypeF, ClosedOnce
  <2>6. \A s \in Subs : Closer(p, s)' <=> s \in pub[p].cur  BY <2>3, <2>4 DEF Closer
  <2>7. \A q \in Publishers \ {p}, s \in Subs : Closer(q, s)' <=> Closer(q, s)
    BY <2>4 DEF Closer
  <2>8. \A s \in pub[p].cur : s \in Subs /\ ch[s].open /\ conn[s] \in Serving
                              /\ \A q \in Publishers : ~Closer(q, s)
    BY <1>4 DEF Owned, InMap, TypeF
  <2>9. InMap'  BY <1>1, <2>6, <2>7 DEF Owned, InMap, TypeF
  <2>10. NewOpen'  BY <1>1 DEF Owned, NewOpen
  <2>11. HandlerCloses'  BY <1>1, <2>6, <2>7, <2>8 DEF Owned, HandlerCloses, Serving
  <2>12. BrokerCloses'  BY <1>1, <2>6, <2>7, <2>8 DEF Owned, BrokerCloses
  <2> QED  BY <2>5, <2>9, <2>10, <2>11, <2>12 DEF Owned
<1> QED  BY <1>3, <1>4

(* dropSub, without the lock: the broker closes, and nobody else will.     *)
LEMMA CloseDroppedInv == ASSUME FeedIInv, NEW p \in Publishers, CloseDropped(p) PROVE FeedIInv'
<1> USE DEF FeedIInv
<1>1. subs' = subs /\ conn' = conn /\ pub[p].pc = "close"
      /\ pub' = [pub EXCEPT ![p].pc = "send", ![p].cur = {}]
  BY DEF CloseDropped
<1>2. PICK s \in pub[p].cur : Close(s)  BY DEF CloseDropped
<1>3. s \in Subs /\ Closer(p, s)  BY <1>1 DEF TypeF, PubState, Closer
<1>4. /\ ch[s].open /\ conn[s] \in Serving \cup {"gone"} /\ s \notin subs
      /\ \A q \in Publishers : Closer(q, s) => q = p
  BY <1>3 DEF Owned, BrokerCloses, InMap
<1>5. ch' \in [Subs -> Chan] /\ ClosedOnce' /\ \A t \in Subs \ {s} : ch'[t] = ch[t]
  BY <1>2, <1>3, <1>4, CloseEffect
<1>6. PICK r \in PubState : r.pc # "close" /\ pub' = [pub EXCEPT ![p] = r]
  BY <1>1, BackToSend
<1>7. /\ pub' \in [Publishers -> PubState]
      /\ \A t \in Subs : ~Closer(p, t)'
      /\ \A q \in Publishers, t \in Subs : Closer(q, t)' => Closer(q, t)
  BY <1>6 DEF TypeF, Closer
<1>8. TypeF'  BY <1>1, <1>5, <1>7 DEF TypeF
<1>9. \A q \in Publishers : ~Closer(q, s)'  BY <1>3, <1>4, <1>7
<1>10. InMap'  BY <1>1, <1>4, <1>5, <1>7 DEF Owned, InMap, TypeF
<1>11. NewOpen' /\ HandlerCloses'
  BY <1>1, <1>4, <1>5, <1>7 DEF Owned, NewOpen, HandlerCloses, Serving
<1>12. BrokerCloses'  BY <1>1, <1>5, <1>7, <1>9 DEF Owned, BrokerCloses
<1> QED  BY <1>5, <1>8, <1>10, <1>11, <1>12 DEF Owned

LEMMA PublishInv ==
  ASSUME FeedIInv, NEW p \in Publishers, Publish(p) \/ PublishStep(p) PROVE FeedIInv'
<1>t. TypeF /\ subs \subseteq Subs  BY DEF FeedIInv, TypeF
<1>1. CASE Publish(p)
  <2> DEFINE r == [pc |-> "send", todo |-> subs, cur |-> {}]
  <2>1. r \in PubState /\ r.pc # "close"  BY <1>t DEF PubState
  <2>2. pub' = [pub EXCEPT ![p] = r] /\ subs' = subs /\ conn' = conn /\ ch' = ch
    BY <1>1 DEF Publish
  <2> HIDE DEF r
  <2> QED  BY <2>1, <2>2, QuietInv
<1>2. CASE ResetDrops(p)
  <2>1. pub' = [pub EXCEPT ![p].pc = "send", ![p].cur = {}]
        /\ subs' = subs /\ conn' = conn /\ ch' = ch
    BY <1>2 DEF ResetDrops
  <2> QED  BY <1>t, <2>1, BackToSend, QuietInv
<1>3. ASSUME NEW s \in Subs, Send(p, s) PROVE FeedIInv'
  <2>1. Served(p, s, "reset") /\ subs' = subs /\ conn' = conn /\ ch[s].n < Cap
        /\ ch' = [ch EXCEPT ![s].n = ch[s].n + 1]
    BY <1>3 DEF Send
  <2>2. ch[s].n + 1 \in 0..Cap  BY <1>t, <2>1, CapPositive DEF TypeF, Chan
  <2>3. ch' \in [Subs -> Chan] /\ ClosedOnce' /\ \A t \in Subs : ch'[t].open = ch[t].open
    BY <2>1, <2>2, CountEffect DEF FeedIInv
  <2>4. PICK r \in PubState : r.pc # "close" /\ pub' = [pub EXCEPT ![p] = r]
    BY <1>t, <2>1, ServedState
  <2>5. pub' \in [Publishers -> PubState]
        /\ \A q \in Publishers, t \in Subs : Closer(q, t)' => Closer(q, t)
    BY <1>t, <2>4, PubEffect
  <2>6. TypeF'  BY <1>t, <2>1, <2>3, <2>5 DEF TypeF
  <2>7. Owned'  BY <2>1, <2>3, <2>5, OwnedKept DEF FeedIInv
  <2> QED  BY <2>3, <2>6, <2>7 DEF FeedIInv
<1>4. ASSUME NEW s \in Subs, DropEvent(p, s) PROVE FeedIInv'
  <2>1. subs' = subs /\ conn' = conn /\ ch' = ch
        /\ \E pc \in {"send", "reset", "drop"} : Served(p, s, pc)
    BY <1>4 DEF DropEvent
  <2>2. PICK r \in PubState : r.pc # "close" /\ pub' = [pub EXCEPT ![p] = r]
    BY <1>t, <2>1, ServedState
  <2> QED  BY <2>1, <2>2, QuietInv
<1>5. CASE Return(p) \/ \E s \in Subs : Panic(p, s)
  <2>1. IdlePub \in PubState /\ IdlePub.pc # "close"  BY DEF IdlePub, PubState
  <2>2. pub' = [pub EXCEPT ![p] = IdlePub] /\ subs' = subs /\ conn' = conn /\ ch' = ch
    BY <1>5 DEF Return, Panic
  <2> QED  BY <2>1, <2>2, QuietInv
<1> QED  BY <1>1, <1>2, <1>3, <1>4, <1>5, DropSubInv, CloseDroppedInv DEF PublishStep

LEMMA FeedStepInv == FeedIInv /\ [FeedNext]_feedVars => FeedIInv'
<1> SUFFICES ASSUME FeedIInv, [FeedNext]_feedVars PROVE FeedIInv'  OBVIOUS
<1>1. CASE UNCHANGED feedVars
  BY <1>1, SameCloser DEF feedVars, FeedIInv, TypeF, Owned, InMap, NewOpen, HandlerCloses,
                          BrokerCloses, ClosedOnce
<1>2. CASE FeedNext  BY <1>2, ClientInv, HandlerInv, PublishInv DEF FeedNext
<1> QED  BY <1>1, <1>2

LEMMA ChannelsOpen == ASSUME FeedIInv PROVE RegisteredOpen
BY DEF FeedIInv, TypeF, Owned, InMap, ClosedOnce, RegisteredOpen

(* For any number of connections, publishers, slots and drops: who is in   *)
(* the map can be sent to, and each channel is closed at most once         *)
(* (Subscribe, Unsubscribe and dropSub).                                   *)
THEOREM FeedRegisteredOpen == FeedSpec => []RegisteredOpen
<1> QED
  BY ChannelsOpen, FeedInitInv, FeedStepInv, PTL DEF FeedSpec

(* A Publish that panics sent to someone whom it had copied from the map   *)
(* and who has left the map since: never to a subscriber there is.         *)
THEOREM PanicOnlyGone ==
  FeedSpec => [][\A p \in Publishers, s \in Subs : Panic(p, s) => s \notin subs]_feedVars
<1>1. FeedIInv => \A p \in Publishers, s \in Subs : Panic(p, s) => s \notin subs
  BY DEF FeedIInv, Owned, InMap, Panic
<1>2. FeedIInv /\ [FeedNext]_feedVars =>
        [\A p \in Publishers, s \in Subs : Panic(p, s) => s \notin subs]_feedVars
  BY <1>1
<1> QED  BY <1>2, FeedInitInv, FeedStepInv, PTL DEF FeedSpec
----------------------------------------------------------------------------
(* Critique.                                                               *)

Due(t) == t % Day = CronAt

LEMMA DayPositive == Day \in Nat /\ Day > 0 /\ CronAt \in Nat /\ CronAt < Day /\ Gap \in Nat /\ CritTime \in Nat
BY CritiqueAssumption

LEMMA DueAt == ASSUME NEW q \in Int PROVE Due(Day * q + CronAt)
<1>1. (Day * q + CronAt) % Day = CronAt
  BY DayPositive
<1> QED
  BY <1>1 DEF Due

(* Of the times of a day exactly one is due.                               *)
LEMMA DueExists == ASSUME NEW now \in Int PROVE \E t \in (now + 1)..(now + Day) : Due(t)
<1> DEFINE b == now + 1
           m == b % Day
           q == b \div Day
<1>1. b = Day * q + m /\ m \in Int /\ q \in Int /\ 0 <= m /\ m < Day /\ Day \in Nat
  BY DayPositive
<1>2. CASE m <= CronAt
  <2> DEFINE t == Day * q + CronAt
  <2>1. t \in Int /\ Day * q \in Int
    BY <1>1, DayPositive
  <2>2. t \in (now + 1)..(now + Day)
    BY <1>1, <1>2, <2>1, DayPositive
  <2> QED
    BY <1>1, <2>2, DueAt
<1>3. CASE m > CronAt
  <2>1. PICK r \in Int : r = q + 1
    BY <1>1
  <2> DEFINE t == Day * r + CronAt
  <2>2. t \in Int /\ Day * r = Day * q + Day /\ Day * q \in Int
    BY <1>1, <2>1, DayPositive
  <2>3. t \in (now + 1)..(now + Day)
    BY <1>1, <1>3, <2>2, DayPositive
  <2> QED
    BY <2>1, <2>3, DueAt
<1> QED
  BY <1>1, <1>2, <1>3, DayPositive

LEMMA DueUnique ==
  ASSUME NEW s \in Int, NEW t \in Int, Due(s), Due(t), s < t PROVE s + Day <= t
<1> DEFINE p == s \div Day
           q == t \div Day
<1>1. s = Day * p + CronAt /\ t = Day * q + CronAt /\ p \in Int /\ q \in Int
  BY DayPositive DEF Due
<1>2. p < q
  BY <1>1, DayPositive
<1>3. p + 1 <= q
  BY <1>1, <1>2
<1>4. Day * (p + 1) <= Day * q
  BY <1>1, <1>3, DayPositive
<1> QED
  BY <1>1, <1>4, DayPositive

RunPcs == {"details", "detailsT", "llm", "llmT", "pin", "pinT", "end", "endT"}
CwRec == [pc : {"boot", "off", "loop", "wait", "refresh"} \cup RunPcs, on : BOOLEAN, since : Nat, next : Int]

CritTimes ==
  /\ ct \in 0..CritTime /\ enabled \in [on : BOOLEAN, since : 0..CritTime]
  /\ cw \in CwRec /\ lastRun \in -1..CritTime /\ queue \in 0..QueueCap
  /\ ran \in [from : -1..CritTime, to : -1..CritTime]

(* A run takes a step at most, and when none is under way the worker knows *)
(* when the last one ended.                                                *)
RunTimes ==
  /\ ran.from <= ct
  /\ cw.pc \notin RunPcs =>
       /\ ran.to = lastRun /\ (ran.from = -1 <=> lastRun = -1)
       /\ lastRun <= ct /\ lastRun <= ran.from + 1
  /\ cw.pc \in RunPcs => ran.from >= 0 /\ ct <= ran.from + 1
  /\ cw.pc \in {"details", "detailsT"} => ran.from = ct
  /\ cw.pc \in {"boot", "off"} => cw.on = FALSE

(* Every due time there has been since the worker is on was covered by a   *)
(* run; but a worker that waits has yet to serve the one it waits for, and *)
(* none comes before it.                                                   *)
CoveredTo(x) == \A d \in Int : Due(d) /\ cw.since < d /\ d <= x => ran.from >= d - Gap - 1
DaysCovered ==
  cw.on = TRUE =>
    IF cw.pc = "wait"
    THEN /\ Due(cw.next) /\ ct <= cw.next /\ cw.next - Day <= ct
         /\ \A x \in Int : x <= ct /\ x < cw.next => CoveredTo(x)
    ELSE CoveredTo(ct)

TimesInv == CritTimes /\ RunTimes /\ DaysCovered

LEMMA TimesStart == ASSUME CritInit PROVE TimesInv
<1>1. CritTimes
  BY DayPositive, CritiqueAssumption DEF CritInit, CritTimes, CwRec
<1>2. RunTimes
  BY DEF CritInit, RunTimes, RunPcs
<1>3. DaysCovered
  BY DEF CritInit, DaysCovered, CoveredTo
<1> QED
  BY <1>1, <1>2, <1>3 DEF TimesInv

LEMMA CritTickKeeps == ASSUME TimesInv, CritTick PROVE TimesInv'
<1>1. /\ ct' = ct + 1 /\ ct < CritTime /\ UNCHANGED <<enabled, cw, lastRun, queue, ran>>
      /\ \/ cw.pc = "off"
         \/ cw.pc = "wait" /\ ct < cw.next
         \/ cw.pc \in {"llm", "llmT"} /\ ct = ran.from
      /\ CritTimes /\ ct \in Nat /\ cw \in CwRec /\ cw.next \in Int /\ cw.since \in Nat
      /\ ran.from \in Int /\ lastRun \in Int
  BY DayPositive DEF CritTick, TimesInv, CritTimes, CwRec
<1>2. CritTimes'
  BY <1>1, DayPositive DEF CritTimes
<1>3. RunTimes'
  BY <1>1 DEF TimesInv, RunTimes, RunPcs
<1>4. CASE cw.pc = "wait" /\ ct < cw.next /\ cw.on = TRUE
  <2>1. /\ Due(cw.next) /\ cw.next - Day <= ct
        /\ \A x \in Int : x <= ct /\ x < cw.next => CoveredTo(x)
    BY <1>4 DEF TimesInv, DaysCovered
  <2>2. \A d \in Int : Due(d) /\ d < cw.next => d <= ct
    <3> SUFFICES ASSUME NEW d \in Int, Due(d), d < cw.next PROVE d <= ct
      OBVIOUS
    <3>1. d + Day <= cw.next
      BY <1>1, <2>1, DueUnique
    <3> QED
      BY <1>1, <2>1, <3>1, DayPositive
  <2>3. ASSUME NEW x \in Int, x <= ct', x < cw.next PROVE CoveredTo(x)'
    <3> SUFFICES ASSUME NEW d \in Int, Due(d), cw.since < d, d <= x PROVE ran.from >= d - Gap - 1
      BY <1>1 DEF CoveredTo
    <3>1. d <= ct /\ d < cw.next
      BY <1>1, <2>2, <2>3
    <3>2. CoveredTo(d)
      BY <2>1, <3>1
    <3> QED
      BY <3>2 DEF CoveredTo
  <2> QED
    BY <1>1, <1>2, <1>3, <1>4, <2>1, <2>3, DayPositive DEF TimesInv, DaysCovered
<1>5. CASE cw.pc \in {"llm", "llmT"} /\ ct = ran.from
  <2>1. ASSUME NEW d \in Int, d <= ct + 1 PROVE ran.from >= d - Gap - 1
    BY <1>1, <1>5, <2>1, DayPositive
  <2>2. CoveredTo(ct)'
    BY <1>1, <2>1 DEF CoveredTo
  <2>3. cw.pc \notin {"wait", "loop", "refresh"}
    BY <1>5
  <2> QED
    BY <1>1, <1>2, <1>3, <1>5, <2>2, <2>3 DEF TimesInv, DaysCovered
<1>6. CASE cw.on = FALSE
  BY <1>1, <1>2, <1>3, <1>6 DEF TimesInv, DaysCovered
<1>7. cw.on \in BOOLEAN /\ (cw.pc = "off" => cw.on = FALSE)
  BY <1>1 DEF CwRec, TimesInv, RunTimes
<1> QED
  BY <1>1, <1>4, <1>5, <1>6, <1>7

LEMMA NextIsDue ==
  ASSUME NEW now \in Int
  PROVE  NextDailyAt(now) \in (now + 1)..(now + Day) /\ Due(NextDailyAt(now))
BY DueExists DEF NextDailyAt, Due

LEMMA BootKeeps == ASSUME TimesInv, Boot PROVE TimesInv'
<1>1. /\ cw.pc = "boot" /\ UNCHANGED <<ct, enabled, lastRun, queue, ran>> /\ cw \in CwRec
      /\ ct \in Nat /\ enabled.on \in BOOLEAN /\ cw.on = FALSE
  BY DayPositive DEF Boot, TimesInv, CritTimes, RunTimes
<1>2. \/ cw' = [cw EXCEPT !.pc = "loop", !.on = enabled.on, !.since = ct]
      \/ cw' = [cw EXCEPT !.pc = "off"]
  BY DEF Boot
<1>3. /\ cw' \in CwRec /\ cw'.pc \in {"loop", "off"}
      /\ \/ cw'.pc = "loop" /\ cw'.on \in BOOLEAN /\ cw'.since = ct
         \/ cw'.pc = "off" /\ cw'.on = FALSE
  BY <1>1, <1>2 DEF CwRec
<1>4. RunTimes'
  BY <1>1, <1>3 DEF TimesInv, RunTimes, RunPcs
<1>5. cw'.on = TRUE => CoveredTo(ct)'
  BY <1>1, <1>3 DEF CoveredTo
<1>6. DaysCovered'
  BY <1>1, <1>3, <1>5 DEF DaysCovered
<1> QED
  BY <1>1, <1>3, <1>4, <1>6 DEF TimesInv, CritTimes

LEMMA ScheduleKeeps == ASSUME TimesInv, Schedule PROVE TimesInv'
<1>1. /\ cw.pc = "loop" /\ UNCHANGED <<ct, enabled, lastRun, queue, ran>>
      /\ CritTimes /\ ct \in Nat /\ cw \in CwRec
  BY DayPositive DEF Schedule, TimesInv, CritTimes
<1>2. PICK n \in Int : /\ n = IF cw.on THEN NextDailyAt(ct) ELSE ct + Day
                       /\ cw.on = TRUE => Due(n) /\ n \in (ct + 1)..(ct + Day)
  BY <1>1, NextIsDue, DayPositive
<1>3. cw' = [cw EXCEPT !.pc = "wait", !.next = n]
  BY <1>2 DEF Schedule
<1>4. cw' \in CwRec /\ cw'.pc = "wait" /\ cw'.next = n /\ cw'.on = cw.on /\ cw'.since = cw.since
  BY <1>1, <1>3 DEF CwRec
<1>5. DaysCovered'
  <2> SUFFICES ASSUME cw.on = TRUE
      PROVE  /\ Due(n) /\ ct <= n /\ n - Day <= ct
             /\ \A x \in Int : x <= ct /\ x < n => CoveredTo(x)'
    BY <1>1, <1>4 DEF DaysCovered
  <2>1. CoveredTo(ct)
    BY <1>1 DEF TimesInv, DaysCovered
  <2>2. \A x \in Int : x <= ct => CoveredTo(x)'
    BY <1>1, <1>4, <2>1 DEF CoveredTo
  <2> QED
    BY <1>1, <1>2, <2>2, DayPositive
<1>6. RunTimes'
  BY <1>1, <1>4 DEF TimesInv, RunTimes, RunPcs
<1> QED
  BY <1>1, <1>4, <1>5, <1>6 DEF TimesInv, CritTimes

(* The worker tries to begin a run: if one has just ended it covers the    *)
(* time as well.                                                           *)
LEMMA BeginRunKeeps ==
  ASSUME TimesInv, cw.pc = "wait", NEW then \in {"loop", "refresh"}, BeginRun(then),
         UNCHANGED <<ct, enabled, lastRun>>, queue' \in 0..QueueCap
  PROVE  TimesInv'
<1>1. /\ CritTimes /\ RunTimes /\ ct \in Nat /\ ct \in 0..CritTime /\ cw \in CwRec /\ cw.since \in Nat
      /\ ran.from \in -1..CritTime /\ ran.from \in Int /\ lastRun \in Int /\ Gap \in Nat /\ ran \in [from : -1..CritTime, to : -1..CritTime]
  BY DayPositive DEF TimesInv, CritTimes, CwRec
<1>2. CASE Refused
  <2>1. ran' = ran /\ cw' = [cw EXCEPT !.pc = then]
    BY <1>2 DEF BeginRun
  <2>2. cw' \in CwRec /\ cw'.pc = then /\ cw'.on = cw.on /\ cw'.since = cw.since
    BY <1>1, <2>1 DEF CwRec
  <2>3. ran.from >= ct - Gap
    BY <1>1, <1>2 DEF Refused, RunTimes, RunPcs
  <2>4. CoveredTo(ct)'
    BY <1>1, <2>1, <2>3 DEF CoveredTo
  <2>5. RunTimes'
    BY <1>1, <2>1, <2>2 DEF RunTimes, RunPcs
  <2> QED
    BY <1>1, <2>1, <2>2, <2>4, <2>5 DEF TimesInv, CritTimes, DaysCovered
<1>3. CASE ~Refused
  <2>1. PICK pc \in {"details", "detailsT"} : pc = IF then = "loop" THEN "details" ELSE "detailsT"
    OBVIOUS
  <2>2. ran' = [from |-> ct, to |-> -1] /\ cw' = [cw EXCEPT !.pc = pc]
    BY <1>3, <2>1 DEF BeginRun
  <2>3. cw' \in CwRec /\ cw'.pc = pc /\ cw'.on = cw.on /\ cw'.since = cw.since
    BY <1>1, <2>2 DEF CwRec, RunPcs
  <2>4. ran' \in [from : -1..CritTime, to : -1..CritTime] /\ ran'.from = ct
    BY <1>1, <2>2, DayPositive
  <2>5. CoveredTo(ct)'
    BY <1>1, <2>4 DEF CoveredTo
  <2>6. RunTimes'
    BY <1>1, <2>3, <2>4 DEF RunTimes, RunPcs
  <2> QED
    BY <1>1, <2>3, <2>4, <2>5, <2>6 DEF TimesInv, CritTimes, DaysCovered
<1> QED
  BY <1>2, <1>3

LEMMA TimerFiresKeeps == ASSUME TimesInv, TimerFires PROVE TimesInv'
<1>1. /\ cw.pc = "wait" /\ UNCHANGED <<ct, enabled, lastRun, queue>> /\ queue \in 0..QueueCap
      /\ cw \in CwRec /\ cw.on \in BOOLEAN
  BY DEF TimerFires, TimesInv, CritTimes, CwRec
<1>2. CASE cw.on = TRUE
  <2>1. BeginRun("refresh")
    BY <1>2 DEF TimerFires
  <2> QED
    BY <1>1, <2>1, BeginRunKeeps
<1>3. CASE cw.on = FALSE
  <2>1. cw' = [cw EXCEPT !.pc = "refresh"] /\ ran' = ran
    BY <1>3 DEF TimerFires
  <2>2. cw' \in CwRec /\ cw'.pc = "refresh" /\ cw'.on = FALSE
    BY <1>1, <1>3, <2>1 DEF CwRec
  <2> QED
    BY <1>1, <2>1, <2>2 DEF TimesInv, CritTimes, RunTimes, DaysCovered, RunPcs
<1> QED
  BY <1>1, <1>2, <1>3

LEMMA ManualRunKeeps == ASSUME TimesInv, ManualRun PROVE TimesInv'
<1>1. /\ cw.pc = "wait" /\ UNCHANGED <<ct, enabled, lastRun>> /\ BeginRun("loop")
      /\ queue' = queue - 1 /\ queue > 0 /\ queue \in 0..QueueCap
  BY DEF ManualRun, TimesInv, CritTimes
<1>2. queue' \in 0..QueueCap
  BY <1>1, CritiqueAssumption
<1> QED
  BY <1>1, <1>2, BeginRunKeeps

LEMMA RefreshKeeps == ASSUME TimesInv, Refresh PROVE TimesInv'
<1>1. /\ cw.pc = "refresh" /\ UNCHANGED <<ct, enabled, lastRun, queue, ran>> /\ cw \in CwRec
      /\ cw.on \in BOOLEAN /\ ct \in Nat /\ enabled.on \in BOOLEAN /\ cw.since \in Nat
  BY DayPositive DEF Refresh, TimesInv, CritTimes, CwRec
<1>2. PICK n \in Nat : n = IF cw.on THEN cw.since ELSE ct
  BY <1>1
<1>3. \/ cw' = [cw EXCEPT !.pc = "loop", !.on = enabled.on, !.since = n]
      \/ cw' = [cw EXCEPT !.pc = "loop"]
  BY <1>2 DEF Refresh
<1>4. /\ cw' \in CwRec /\ cw'.pc = "loop"
      /\ \/ cw'.on \in BOOLEAN /\ cw'.since = n
         \/ cw'.on = cw.on /\ cw'.since = cw.since
  BY <1>1, <1>3 DEF CwRec
<1>5. DaysCovered'
  <2>1. CASE cw.on = TRUE
    <3>1. CoveredTo(ct) /\ n = cw.since
      BY <1>1, <1>2, <2>1 DEF TimesInv, DaysCovered
    <3>2. CoveredTo(ct)'
      BY <1>1, <1>4, <3>1 DEF CoveredTo
    <3> QED
      BY <1>1, <1>4, <3>2 DEF DaysCovered
  <2>2. CASE cw.on = FALSE
    <3>1. cw'.on = TRUE => cw'.since = ct
      BY <1>2, <1>4, <2>2
    <3>2. cw'.on = TRUE => CoveredTo(ct)'
      BY <1>1, <3>1 DEF CoveredTo
    <3> QED
      BY <1>1, <1>4, <3>2 DEF DaysCovered
  <2> QED
    BY <1>1, <2>1, <2>2
<1>6. RunTimes'
  BY <1>1, <1>4 DEF TimesInv, RunTimes, RunPcs
<1> QED
  BY <1>1, <1>4, <1>5, <1>6 DEF TimesInv, CritTimes

(* A run goes on, or ends.                                                 *)
LEMMA RunGoesOn ==
  ASSUME TimesInv, cw.pc \in RunPcs, NEW pc \in RunPcs \ {"details", "detailsT"}, Step(pc),
         UNCHANGED <<ct, enabled, lastRun, queue, ran>>
  PROVE  TimesInv'
<1>1. cw \in CwRec /\ cw' = [cw EXCEPT !.pc = pc]
  BY DEF TimesInv, CritTimes, Step
<1>2. cw' \in CwRec /\ cw'.pc = pc /\ cw'.on = cw.on /\ cw'.since = cw.since
  BY <1>1 DEF CwRec
<1>3. pc # "wait" /\ cw.pc # "wait"
  BY DEF RunPcs
<1>4. RunTimes'
  BY <1>2 DEF TimesInv, RunTimes, RunPcs
<1>5. DaysCovered'
  BY <1>2, <1>3 DEF TimesInv, DaysCovered, CoveredTo
<1> QED
  BY <1>2, <1>4, <1>5 DEF TimesInv, CritTimes

LEMMA RunStepsKeep == ASSUME TimesInv, Details \/ Complete \/ AutoPin PROVE TimesInv'
<1>1. cw.pc \in RunPcs /\ UNCHANGED <<ct, enabled, lastRun, queue, ran>>
  BY DEF Details, Complete, AutoPin, RunPcs
<1>2. \E pc \in {"llm", "llmT", "pin", "pinT", "end", "endT"} : Step(pc)
  <2>1. \A x \in {"llm", "pin", "end"}, y \in {"llmT", "pinT", "endT"} :
          (IF ByTimer THEN y ELSE x) \in {"llm", "llmT", "pin", "pinT", "end", "endT"}
    OBVIOUS
  <2>2. CASE Details
    BY <2>1, <2>2 DEF Details
  <2>3. CASE Complete
    BY <2>1, <2>3 DEF Complete
  <2>4. CASE AutoPin
    BY <2>1, <2>4 DEF AutoPin
  <2> QED
    BY <2>2, <2>3, <2>4
<1> QED
  BY <1>1, <1>2, RunGoesOn DEF RunPcs

LEMMA EndRunKeeps == ASSUME TimesInv, EndRun PROVE TimesInv'
<1>1. /\ cw.pc \in {"end", "endT"} /\ lastRun' = ct /\ ran' = [ran EXCEPT !.to = ct]
      /\ UNCHANGED <<ct, enabled, queue>> /\ cw \in CwRec /\ ct \in 0..CritTime /\ ct \in Nat
      /\ ran \in [from : -1..CritTime, to : -1..CritTime]
  BY DayPositive DEF EndRun, Finished, TimesInv, CritTimes
<1>2. PICK pc \in {"refresh", "loop"} : cw' = [cw EXCEPT !.pc = pc]
  BY DEF EndRun, Step
<1>3. cw' \in CwRec /\ cw'.pc = pc /\ cw'.on = cw.on /\ cw'.since = cw.since
  BY <1>1, <1>2 DEF CwRec
<1>4. /\ ran' \in [from : -1..CritTime, to : -1..CritTime] /\ ran'.from = ran.from /\ ran'.to = ct
      /\ lastRun' \in -1..CritTime
  BY <1>1, DayPositive
<1>5. RunTimes'
  BY <1>1, <1>3, <1>4 DEF TimesInv, RunTimes, RunPcs
<1>6. DaysCovered'
  BY <1>1, <1>3, <1>4 DEF TimesInv, DaysCovered, CoveredTo
<1> QED
  BY <1>1, <1>3, <1>4, <1>5, <1>6 DEF TimesInv, CritTimes

LEMMA TimesStep == ASSUME TimesInv, [CritNext]_critVars PROVE TimesInv'
<1>1. CASE RunRequested
  BY <1>1, CritiqueAssumption DEF RunRequested, TimesInv, CritTimes, RunTimes, DaysCovered, CoveredTo
<1>2. CASE SaveSettings
  <2>1. enabled' \in [on : BOOLEAN, since : 0..CritTime]
    BY <1>2 DEF SaveSettings, TimesInv, CritTimes
  <2>2. UNCHANGED <<ct, cw, lastRun, queue, ran>>
    BY <1>2 DEF SaveSettings
  <2> QED
    BY <2>1, <2>2 DEF TimesInv, CritTimes, RunTimes, DaysCovered, CoveredTo
<1>3. CASE UNCHANGED <<ct, enabled, cw, lastRun, queue, ran>>
  BY <1>3 DEF TimesInv, CritTimes, RunTimes, DaysCovered, CoveredTo
<1>4. ASSUME (\E i \in 1..Len(pats) : SetPin(i) \/ BulkNext(i)) \/ (\E c \in 1..Len(crits) : BulkPin(c))
             \/ UNCHANGED critVars
      PROVE  UNCHANGED <<ct, enabled, cw, lastRun, queue, ran>>
  BY <1>4 DEF SetPin, BulkNext, BulkPin, critVars
<1> QED
  BY <1>1, <1>2, <1>3, <1>4, CritTickKeeps, BootKeeps, ScheduleKeeps, TimerFiresKeeps, ManualRunKeeps, RefreshKeeps,
     RunStepsKeep, EndRunKeeps
  DEF CritNext

LEMMA DaysServed == ASSUME TimesInv PROVE EveryDay
<1> SUFFICES ASSUME cw.on = TRUE, cw.since < LastDue PROVE ran.from >= LastDue - Gap - 1
  BY DEF EveryDay, TimesInv, CritTimes, CwRec
<1>1. ct \in Nat /\ cw \in CwRec
  BY DayPositive DEF TimesInv, CritTimes
<1>2. LastDue \in (ct - Day)..(ct - 1) /\ Due(LastDue)
  <2>1. \E t \in (ct - Day - 1 + 1)..(ct - Day - 1 + Day) : Due(t)
    <3>1. ct - Day - 1 \in Int
      BY <1>1, DayPositive
    <3> QED
      BY <3>1, DueExists
  <2>2. ct - Day - 1 + 1 = ct - Day /\ ct - Day - 1 + Day = ct - 1
    BY <1>1, DayPositive
  <2> QED
    <3>1. PICK t \in (ct - Day)..(ct - 1) : Due(t)
      BY <2>1, <2>2
    <3> QED
      BY <3>1 DEF LastDue, Due
<1>3. LastDue \in Int /\ LastDue <= ct - 1
  BY <1>1, <1>2, DayPositive
<1>4. CASE cw.pc = "wait"
  <2>1. ct <= cw.next /\ cw.next \in Int
    BY <1>1, <1>4 DEF TimesInv, DaysCovered, CwRec
  <2>2. CoveredTo(LastDue)
    BY <1>1, <1>3, <1>4, <2>1 DEF TimesInv, DaysCovered
  <2> QED
    BY <1>2, <1>3, <2>2 DEF CoveredTo
<1>5. CASE cw.pc # "wait"
  <2>1. CoveredTo(ct)
    BY <1>5 DEF TimesInv, DaysCovered
  <2> QED
    BY <1>1, <1>2, <1>3, <2>1 DEF CoveredTo
<1> QED
  BY <1>4, <1>5

(* A run begins at every time of day CronAt the worker is on for, or is    *)
(* refused because one has just ended, for every length of the day and of  *)
(* the window, however many requests restart the timer and whatever fails  *)
(* (Worker.Start of the critique worker, nextDailyAt).                     *)
THEOREM CritiqueEveryDay == CritSpec => []EveryDay
<1> QED
  BY TimesStart, TimesStep, DaysServed, PTL DEF CritSpec

LEMMA RunsApart ==
  ASSUME TimesInv, [CritNext]_critVars, ran'.from # ran.from
  PROVE  ran.from = -1 \/ (ran.to >= 0 /\ ct - ran.to >= Gap)
<1>1. \E then \in {"loop", "refresh"} : BeginRun(then) /\ cw.pc = "wait" /\ ran' # ran
  <2>1. CASE TimerFires
    BY <2>1 DEF TimerFires
  <2>2. CASE ManualRun
    BY <2>2 DEF ManualRun
  <2>3. CASE EndRun
    <3>1. ran' = [ran EXCEPT !.to = ct] /\ ran \in [from : -1..CritTime, to : -1..CritTime]
      BY <2>3 DEF EndRun, TimesInv, CritTimes
    <3> QED
      BY <3>1
  <2>4. ASSUME (\E i \in 1..Len(pats) : SetPin(i) \/ BulkNext(i)) \/ (\E c \in 1..Len(crits) : BulkPin(c))
               \/ UNCHANGED critVars \/ RunRequested \/ SaveSettings \/ CritTick \/ Boot \/ Schedule \/ Refresh
               \/ Details \/ Complete \/ AutoPin
        PROVE  ran' = ran
    BY <2>4 DEF SetPin, BulkNext, BulkPin, critVars, RunRequested, SaveSettings, CritTick, Boot,
                Schedule, Refresh, Details, Complete, AutoPin
  <2> QED
    BY <2>1, <2>2, <2>3, <2>4 DEF CritNext
<1>2. ~Refused
  BY <1>1 DEF BeginRun
<1>3. /\ ran.to = lastRun /\ (ran.from = -1 <=> lastRun = -1)
      /\ lastRun \in -1..CritTime /\ ct \in Nat /\ Gap \in Nat
  BY <1>1, DayPositive DEF TimesInv, RunTimes, RunPcs, CritTimes
<1> QED
  BY <1>2, <1>3 DEF Refused

(* A run begins only when the one before has ended, and the idempotency    *)
(* window ago, however many requests wait in the queue (TryRun).           *)
THEOREM CritiqueRunsApart == CritSpec => SpacedRuns
<1>1. TimesInv /\ [CritNext]_critVars =>
        [ran'.from # ran.from => ran.from = -1 \/ (ran.to >= 0 /\ ct - ran.to >= Gap)]_critVars
  BY RunsApart
<1> QED
  BY <1>1, TimesStart, TimesStep, PTL DEF CritSpec, SpacedRuns
----------------------------------------------------------------------------
(* The stored critiques and their patterns.                                *)

Statuses == {"insufficient_sample", "failed", "done"}
Pins == {"nobody", "auto", "manual", "manual-bulk"}
PatRec == [crit : Nat, conf : Confidences, by : Pins]
Bulk == [todo : SUBSET Nat, pin : Pins \cup {"no"}]

PatternTypes ==
  /\ crits \in Seq(Statuses) /\ pats \in Seq(PatRec) /\ bulk \in Bulk
(* A pattern belongs to a critique that was stored, and stored complete.   *)
OfStored(ps, cs) ==
  \A i \in 1..Len(ps) : ps[i].crit \in 1..Len(cs) /\ cs[ps[i].crit] = "done"
PatternsInv ==
  /\ PatternTypes /\ OfStored(pats, crits)
  /\ bulk.todo \subseteq 1..Len(pats) /\ (bulk.todo # {} => bulk.pin # "no")

LEMMA PatternsStart == ASSUME CritInit PROVE PatternsInv
<1>1. <<>> \in Seq(Statuses) /\ <<>> \in Seq(PatRec) /\ Len(<<>>) = 0
  BY EmptySeq
<1>2. NoBulk \in Bulk
  BY DEF NoBulk, Bulk
<1>3. Len(pats) = 0
  BY <1>1 DEF CritInit
<1> QED
  BY <1>1, <1>2, <1>3 DEF CritInit, PatternsInv, PatternTypes, OfStored, NoBulk

(* A critique more does not change what was said of those there are.       *)
LEMMA CritiqueAdded ==
  ASSUME PatternsInv, NEW status \in Statuses, crits' = Append(crits, status), UNCHANGED <<pats, bulk>>
  PROVE  PatternsInv'
<1>1. crits \in Seq(Statuses)
  BY DEF PatternsInv, PatternTypes
<1>2. /\ crits' \in Seq(Statuses) /\ Len(crits') = Len(crits) + 1 /\ Len(crits) \in Nat
      /\ \A k \in 1..Len(crits) : crits'[k] = crits[k]
  BY <1>1, AppendProperties, LenProperties
<1>3. OfStored(pats, crits)'
  BY <1>2 DEF PatternsInv, OfStored
<1> QED
  BY <1>2, <1>3 DEF PatternsInv, PatternTypes

LEMMA PatternsAdded ==
  ASSUME PatternsInv, NEW a \in Answers, Parsed(a),
         crits' = Append(crits, "done"), pats' = Stored(a), UNCHANGED bulk
  PROVE  PatternsInv'
<1>1. crits \in Seq(Statuses) /\ pats \in Seq(PatRec) /\ a \in Seq([key : Nat, conf : STRING])
  BY CritiqueAssumption DEF PatternsInv, PatternTypes
<1>2. /\ crits' \in Seq(Statuses) /\ Len(crits') = Len(crits) + 1 /\ Len(crits) \in Nat
      /\ crits'[Len(crits) + 1] = "done"
      /\ \A k \in 1..Len(crits) : crits'[k] = crits[k]
  <2>1. "done" \in Statuses
    BY DEF Statuses
  <2> QED
    BY <1>1, <2>1, AppendProperties, LenProperties
<1> DEFINE new == [i \in 1..Len(a) |-> [crit |-> Len(crits) + 1, conf |-> a[i].conf, by |-> "nobody"]]
<1>3. new \in Seq(PatRec) /\ Len(new) = Len(a)
  <2>1. \A i \in 1..Len(a) : new[i] \in PatRec
    <3> SUFFICES ASSUME NEW i \in 1..Len(a) PROVE new[i] \in PatRec
      OBVIOUS
    <3>1. Len(crits) + 1 \in Nat /\ a[i].conf \in Confidences
      BY <1>2 DEF Parsed
    <3> QED
      BY <3>1 DEF PatRec, Pins
  <2>2. Len(a) \in Nat
    BY <1>1, LenProperties
  <2>3. new \in [1..Len(a) -> PatRec]
    BY <2>1
  <2> QED
    BY <2>2, <2>3
<1>4. \A i \in 1..Len(new) : new[i].crit = Len(crits) + 1
  BY <1>3
<1> HIDE DEF new
<1>5. pats' = pats \o new
  BY DEF Stored, new
<1>6. /\ pats' \in Seq(PatRec) /\ Len(pats') = Len(pats) + Len(new) /\ Len(pats) \in Nat /\ Len(new) \in Nat
      /\ \A i \in 1..Len(pats') : pats'[i] = IF i <= Len(pats) THEN pats[i] ELSE new[i - Len(pats)]
  <2>1. Len(pats) \in Nat /\ Len(new) \in Nat
    BY <1>1, <1>3, LenProperties
  <2>2. /\ pats \o new \in Seq(PatRec) /\ Len(pats \o new) = Len(pats) + Len(new)
        /\ \A i \in 1..Len(pats) + Len(new) : (pats \o new)[i] = IF i <= Len(pats) THEN pats[i] ELSE new[i - Len(pats)]
    BY <1>1, <1>3, ConcatProperties
  <2> QED
    BY <1>5, <2>1, <2>2
<1>7. OfStored(pats, crits)'
  <2> SUFFICES ASSUME NEW i \in 1..Len(pats')
               PROVE  pats'[i].crit \in 1..Len(crits') /\ crits'[pats'[i].crit] = "done"
    BY DEF OfStored
  <2>1. CASE i <= Len(pats)
    BY <1>2, <1>6, <2>1 DEF PatternsInv, OfStored
  <2>2. CASE i > Len(pats)
    <3>1. i - Len(pats) \in 1..Len(new)
      BY <1>6, <2>2
    <3>2. pats'[i].crit = Len(crits) + 1
      BY <1>4, <1>6, <2>2, <3>1
    <3> QED
      BY <1>2, <3>2
  <2> QED
    BY <1>6, <2>1, <2>2
<1>8. bulk'.todo \subseteq 1..Len(pats')
  BY <1>6 DEF PatternsInv
<1> QED
  BY <1>2, <1>6, <1>7, <1>8 DEF PatternsInv, PatternTypes

(* Who pinned a pattern is all that pinning changes.                       *)
LEMMA PinsKeep ==
  ASSUME PatternsInv, UNCHANGED crits, bulk' \in Bulk,
         bulk'.todo \subseteq 1..Len(pats), bulk'.todo # {} => bulk'.pin # "no",
         pats' \in Seq(PatRec), Len(pats') = Len(pats),
         \A i \in 1..Len(pats) : pats'[i].crit = pats[i].crit
  PROVE  PatternsInv'
BY DEF PatternsInv, PatternTypes, OfStored

LEMMA PinnedPatterns ==
  ASSUME PatternsInv, NEW i \in 1..Len(pats), NEW who \in Pins, Pinned(i, who)
  PROVE  /\ pats' \in Seq(PatRec) /\ Len(pats') = Len(pats)
         /\ \A k \in 1..Len(pats) : pats'[k].crit = pats[k].crit
<1>1. pats \in Seq(PatRec) /\ Len(pats) \in Nat
  BY DEF PatternsInv, PatternTypes
<1>2. pats[i] \in PatRec
  BY <1>1
<1> DEFINE r == [pats[i] EXCEPT !.by = who]
<1>3. r \in PatRec /\ r.crit = pats[i].crit
  BY <1>2 DEF PatRec
<1>4. pats' = [pats EXCEPT ![i] = r]
  BY DEF Pinned
<1> HIDE DEF r
<1>5. pats' \in Seq(PatRec) /\ Len(pats') = Len(pats)
  BY <1>1, <1>3, <1>4
<1>6. \A k \in 1..Len(pats) : pats'[k] = IF k = i THEN r ELSE pats[k]
  BY <1>1, <1>4
<1> QED
  BY <1>3, <1>5, <1>6

LEMMA AutoPinKeeps == ASSUME PatternsInv, AutoPin PROVE PatternsInv'
<1>1. UNCHANGED <<crits, bulk>> /\ (pats' = AutoPinned \/ pats' = pats)
  BY DEF AutoPin
<1>2. pats \in Seq(PatRec) /\ Len(pats) \in Nat /\ bulk \in Bulk
  BY DEF PatternsInv, PatternTypes
<1>3. \A i \in 1..Len(pats) : pats[i] \in PatRec
  BY <1>2
<1>4. CASE pats' = AutoPinned
  <2>1. \A i \in 1..Len(pats) : AutoPinned[i] \in PatRec /\ AutoPinned[i].crit = pats[i].crit
    BY <1>3 DEF AutoPinned, PatRec, Pins
  <2>2. AutoPinned \in [1..Len(pats) -> PatRec]
    BY <2>1 DEF AutoPinned
  <2>3. AutoPinned \in Seq(PatRec) /\ Len(AutoPinned) = Len(pats)
    BY <1>2, <2>2
  <2>4. bulk'.todo \subseteq 1..Len(pats) /\ (bulk'.todo # {} => bulk'.pin # "no")
    BY <1>1 DEF PatternsInv
  <2> QED
    BY <1>1, <1>2, <1>4, <2>1, <2>3, <2>4, PinsKeep
<1>5. CASE pats' = pats
  BY <1>1, <1>5 DEF PatternsInv, PatternTypes, OfStored
<1> QED
  BY <1>1, <1>4, <1>5

LEMMA SetPinKeeps == ASSUME PatternsInv, NEW i \in 1..Len(pats), SetPin(i) PROVE PatternsInv'
<1>1. UNCHANGED <<crits, bulk>>
  BY DEF SetPin
<1>2. PICK who \in {"manual", "nobody"} : Pinned(i, who)
  BY DEF SetPin
<1>3. /\ pats' \in Seq(PatRec) /\ Len(pats') = Len(pats)
      /\ \A k \in 1..Len(pats) : pats'[k].crit = pats[k].crit
  <2>1. who \in Pins
    BY <1>2 DEF Pins
  <2> QED
    BY <1>2, <2>1, PinnedPatterns
<1>4. bulk' \in Bulk /\ bulk'.todo \subseteq 1..Len(pats) /\ (bulk'.todo # {} => bulk'.pin # "no")
  BY <1>1 DEF PatternsInv, PatternTypes
<1> QED
  BY <1>1, <1>3, <1>4, PinsKeep

LEMMA BulkNextKeeps == ASSUME PatternsInv, NEW i \in 1..Len(pats), BulkNext(i) PROVE PatternsInv'
<1>1. /\ UNCHANGED crits /\ bulk \in Bulk /\ bulk.todo \subseteq 1..Len(pats)
      /\ bulk.pin \in Pins
  BY DEF BulkNext, PatternsInv, PatternTypes, Bulk
<1>2. bulk' \in Bulk /\ bulk'.todo \subseteq 1..Len(pats) /\ (bulk'.todo # {} => bulk'.pin # "no")
  <2>1. bulk' = NoBulk \/ bulk' = [bulk EXCEPT !.todo = @ \ {i}]
    BY DEF BulkNext
  <2>2. bulk.todo \subseteq Nat
    BY <1>1 DEF Bulk
  <2>3. CASE bulk' = [bulk EXCEPT !.todo = @ \ {i}]
    <3>1. bulk'.todo = bulk.todo \ {i} /\ bulk'.pin = bulk.pin /\ bulk' \in Bulk
      BY <1>1, <2>2, <2>3 DEF Bulk
    <3> QED
      BY <1>1, <3>1 DEF Pins
  <2> QED
    BY <2>1, <2>3 DEF NoBulk, Bulk
<1>3. CASE Pinned(i, bulk.pin)
  <2>1. /\ pats' \in Seq(PatRec) /\ Len(pats') = Len(pats)
        /\ \A k \in 1..Len(pats) : pats'[k].crit = pats[k].crit
    BY <1>1, <1>3, PinnedPatterns
  <2> QED
    BY <1>1, <1>2, <2>1, PinsKeep
<1>4. CASE UNCHANGED pats
  BY <1>1, <1>2, <1>4 DEF PatternsInv, PatternTypes, OfStored
<1> QED
  BY <1>3, <1>4 DEF BulkNext

LEMMA PatternsStep == ASSUME PatternsInv, [CritNext]_critVars PROVE PatternsInv'
<1>1. CASE UNCHANGED <<crits, pats, bulk>>
  BY <1>1 DEF PatternsInv, PatternTypes, OfStored
<1>2. ASSUME CritTick \/ Boot \/ Schedule \/ TimerFires \/ ManualRun \/ Refresh \/ EndRun
             \/ RunRequested \/ SaveSettings \/ UNCHANGED critVars
      PROVE  UNCHANGED <<crits, pats, bulk>>
  BY <1>2 DEF CritTick, Boot, Schedule, TimerFires, ManualRun, Refresh, EndRun, RunRequested, SaveSettings, critVars
<1>3. CASE Details
  <2>1. UNCHANGED <<pats, bulk>> /\ (crits' = Append(crits, "insufficient_sample") \/ crits' = crits)
    BY <1>3 DEF Details
  <2> QED
    BY <1>1, <2>1, CritiqueAdded DEF Statuses
<1>4. CASE Complete
  <2>1. /\ UNCHANGED bulk
        /\ \/ \E a \in Answers : Parsed(a) /\ crits' = Append(crits, "done") /\ pats' = Stored(a)
           \/ crits' = Append(crits, "failed") /\ UNCHANGED pats
           \/ UNCHANGED <<crits, pats>>
    BY <1>4 DEF Complete
  <2> QED
    BY <1>1, <2>1, CritiqueAdded, PatternsAdded DEF Statuses
<1>5. ASSUME NEW c \in 1..Len(crits), BulkPin(c) PROVE PatternsInv'
  <2>1. UNCHANGED <<crits, pats>>
    BY <1>5 DEF BulkPin
  <2>2. bulk' \in Bulk /\ bulk'.todo \subseteq 1..Len(pats) /\ bulk'.pin # "no"
    BY <1>5 DEF BulkPin, PatternsInv, PatternTypes, Bulk, Pins
  <2> QED
    BY <2>1, <2>2 DEF PatternsInv, PatternTypes, OfStored
<1> QED
  BY <1>1, <1>2, <1>3, <1>4, <1>5, AutoPinKeeps, SetPinKeeps, BulkNextKeeps DEF CritNext

LEMMA CritTypes == ASSUME TimesInv, PatternsInv PROVE CritTypeOK
BY DEF TimesInv, CritTimes, CwRec, RunPcs, PatternsInv, OfStored, CritTypeOK

(* A pattern belongs to a critique that was stored complete, whatever the  *)
(* LLM answers and whatever fails (InsertWithPatterns), and a BulkPin in   *)
(* progress names patterns there are.                                      *)
THEOREM CritiqueTyped == CritSpec => []CritTypeOK
<1>1. CritInit => TimesInv /\ PatternsInv
  BY TimesStart, PatternsStart
<1>2. (TimesInv /\ PatternsInv) /\ [CritNext]_critVars => (TimesInv /\ PatternsInv)'
  BY TimesStep, PatternsStep
<1>3. TimesInv /\ PatternsInv => CritTypeOK
  BY CritTypes
<1> QED
  BY <1>1, <1>2, <1>3, PTL DEF CritSpec
----------------------------------------------------------------------------
(* The backfillers.                                                        *)

RowRec == [at : -1..LastScore, sig : -1..LastScore, seen : -1..OutcomeTime, from : {"none", "pnl", "pct"},
           label : Verdicts \cup {"null", "none", "unavailable"}]
BfRec == [pc : {"wait", "row", "price"}, left : SUBSET Rows, cur : SUBSET Evals,
          pnl : Verdicts \cup {"none"}]

(* A row that is not inserted has no outcome; one that has an outcome from *)
(* the trade's PnL is of an entry signal.                                  *)
RowsInv ==
  \A r \in Rows :
    /\ row[r].at = -1 => row[r].label = "null" /\ row[r].from = "none"
    /\ row[r].at >= 0 => row[r].sig >= 0
    /\ row[r].from = "pnl" => r \in Evals
(* The rows of a batch were inserted and are of the backfiller's kind; the *)
(* PnL in hand is that of the row in hand.                                 *)
InHand ==
  /\ bf["entry"].left \subseteq Evals /\ bf["exit"].left \subseteq Exits
  /\ \A b \in Backfillers : \A r \in bf[b].left \cup bf[b].cur : row[r].at >= 0
  /\ bf["entry"].pnl # "none" =>
       \A r \in bf["entry"].cur : trade[r] = bf["entry"].pnl
OutcomeIInv == OutcomeTypeOK /\ RowsInv /\ InHand /\ JudgedInTime

LEMMA OutcomeConstants ==
  /\ OutcomeTime \in Nat /\ LastScore \in Nat /\ LastScore <= OutcomeTime /\ OutcomeFaults \in Nat
  /\ Horizon \in Nat /\ Candle \in Nat /\ Candle > 0 /\ Tolerance \in Nat /\ Tolerance <= Horizon
  /\ StaleCutoff \in Nat /\ MinAge \in Nat /\ MinAge < StaleCutoff
BY OutcomeAssumption DEF MinAge

LEMMA OutcomeKinds ==
  /\ Evals \cap Exits = {} /\ Pnls \subseteq Verdicts /\ Rows = Evals \cup Exits
  /\ Move \in [Rows -> [0..OutcomeTime -> Verdicts]]
BY OutcomeAssumption DEF Rows

LEMMA OutcomeTypes ==
  ASSUME OutcomeTypeOK
  PROVE  /\ ot \in Nat /\ ot <= OutcomeTime
         /\ row \in [Rows -> RowRec] /\ trade \in [Evals -> Verdicts \cup {"none", "open"}]
         /\ bf \in [Backfillers -> BfRec] /\ ofaults \in 0..OutcomeFaults
         /\ \A r \in Rows : row[r].at \in Int /\ row[r].at <= LastScore /\ row[r].seen \in Int
         /\ \A r \in Rows : row[r].sig \in Int
BY OutcomeConstants DEF OutcomeTypeOK, RowRec, BfRec

LEMMA OutcomeStart == ASSUME OutcomeInit PROVE OutcomeIInv
<1>1. OutcomeTypeOK
  <2>1. [at |-> -1, sig |-> -1, label |-> "null", from |-> "none", seen |-> -1] \in RowRec
    BY OutcomeConstants DEF RowRec
  <2>2. IdleB \in BfRec
    BY DEF IdleB, BfRec
  <2>3. row \in [Rows -> RowRec] /\ bf \in [Backfillers -> BfRec]
    BY <2>1, <2>2 DEF OutcomeInit
  <2>4. ot \in 0..OutcomeTime /\ ofaults \in 0..OutcomeFaults
    BY OutcomeConstants DEF OutcomeInit
  <2> QED
    BY <2>3, <2>4 DEF OutcomeInit, OutcomeTypeOK, RowRec, BfRec
<1>2. RowsInv
  BY DEF OutcomeInit, RowsInv
<1>3. InHand
  BY DEF OutcomeInit, InHand, IdleB, Backfillers
<1>4. JudgedInTime
  BY DEF OutcomeInit, JudgedInTime
<1> QED
  BY <1>1, <1>2, <1>3, <1>4 DEF OutcomeIInv

(* The price of the candle near the target is one from the horizon on,     *)
(* give or take the tolerance, and not from the future.                    *)
LEMMA ClosesNear ==
  ASSUME OutcomeTypeOK, NEW r \in Rows, row[r].sig >= 0, NEW p \in CounterfactClose(r)
  PROVE  p \in 0..OutcomeTime /\ p <= ot /\ (p >= row[r].sig + Horizon - Tolerance)
<1>1. /\ ot \in Nat /\ ot <= OutcomeTime /\ row[r].sig \in Int
      /\ Horizon \in Nat /\ Candle \in Nat /\ Candle > 0 /\ Tolerance \in Nat /\ Tolerance <= Horizon /\ OutcomeTime \in Nat
  BY OutcomeTypes, OutcomeConstants
<1> DEFINE target == row[r].sig + Horizon
           opened == {h \in (target - Tolerance)..(target + Tolerance) : h % Candle = 0 /\ h <= ot}
<1>2. CounterfactClose(r) = {IF h + Candle < ot THEN h + Candle ELSE ot : h \in opened}
  BY DEF CounterfactClose
<1>3. PICK h \in opened : p = IF h + Candle < ot THEN h + Candle ELSE ot
  BY <1>2
<1>4. h \in (target - Tolerance)..(target + Tolerance) /\ h <= ot
  BY <1>3
<1>5. h \in Int /\ h >= target - Tolerance /\ target \in Int
  BY <1>1, <1>4
<1>6. p \in Int /\ p <= ot /\ p >= h
  BY <1>1, <1>3, <1>4, <1>5
<1> QED
  BY <1>1, <1>5, <1>6

(* Time passes, and what was true of the outcomes stays so.                *)
LEMMA OutcomeTickKeeps == ASSUME OutcomeIInv, OutcomeTick PROVE OutcomeIInv'
<1>1. ot' = ot + 1 /\ ot < OutcomeTime /\ UNCHANGED <<row, trade, bf, ofaults>>
  BY DEF OutcomeTick
<1>2. OutcomeTypeOK /\ ot \in Nat /\ OutcomeTime \in Nat
      /\ \A r \in Rows : row[r].sig \in Int
  BY OutcomeTypes, OutcomeConstants DEF OutcomeIInv
<1>3. OutcomeTypeOK'
  BY <1>1, <1>2 DEF OutcomeTypeOK
<1>4. JudgedInTime'
  BY <1>1, <1>2, OutcomeConstants DEF OutcomeIInv, JudgedInTime
<1>5. RowsInv' /\ InHand'
  BY <1>1 DEF OutcomeIInv, RowsInv, InHand
<1> QED
  BY <1>3, <1>4, <1>5 DEF OutcomeIInv

LEMMA InsertKeeps == ASSUME OutcomeIInv, NEW r \in Rows, Insert(r) PROVE OutcomeIInv'
<1>1. /\ row[r].at = -1 /\ ot <= LastScore /\ UNCHANGED <<ot, bf, ofaults>>
      /\ \/ r \in Evals /\ trade' = [trade EXCEPT ![r] = "open"]
         \/ UNCHANGED trade
  BY DEF Insert
<1>0. PICK t \in IF r \in Evals THEN 0..LastScore ELSE {ot} :
        row' = [row EXCEPT ![r] = [@ EXCEPT !.at = ot, !.sig = t]]
  BY DEF Insert
<1>2. /\ OutcomeTypeOK /\ ot \in Nat /\ row \in [Rows -> RowRec] /\ LastScore \in Nat
      /\ trade \in [Evals -> Verdicts \cup {"none", "open"}]
  BY OutcomeTypes, OutcomeConstants DEF OutcomeIInv
<1> DEFINE new == [row[r] EXCEPT !.at = ot, !.sig = t]
<1>3. row[r] \in RowRec /\ ot \in -1..LastScore /\ t \in -1..LastScore /\ t >= 0
  BY <1>0, <1>1, <1>2
<1>4. /\ new \in RowRec /\ new.at = ot /\ new.sig >= 0 /\ new.label = "null" /\ new.from = "none"
      /\ row[r].label = "null" /\ row[r].from = "none"
  BY <1>1, <1>3 DEF RowRec, OutcomeIInv, RowsInv
<1>5. row' = [row EXCEPT ![r] = new]
  BY <1>0
<1> HIDE DEF new
<1>6. row' \in [Rows -> RowRec] /\ row'[r] = new /\ \A q \in Rows \ {r} : row'[q] = row[q]
  BY <1>2, <1>4, <1>5
<1>7. trade' \in [Evals -> Verdicts \cup {"none", "open"}] /\ \A q \in Evals \ {r} : trade'[q] = trade[q]
  BY <1>1, <1>2
<1>8. OutcomeTypeOK'
  BY <1>1, <1>2, <1>6, <1>7 DEF OutcomeTypeOK, RowRec
<1>9. RowsInv'
  BY <1>2, <1>4, <1>6 DEF RowsInv, OutcomeIInv
<1>10. r \notin bf["entry"].left \cup bf["entry"].cur /\ r \notin bf["exit"].left \cup bf["exit"].cur
  BY <1>1 DEF OutcomeIInv, InHand, Backfillers
<1>11. InHand'
  <2>1. \A b \in Backfillers : \A q \in bf[b].left \cup bf[b].cur : q \in Rows
    BY OutcomeTypes, OutcomeKinds DEF OutcomeIInv, BfRec
  <2>2. \A b \in Backfillers : \A q \in bf[b].left \cup bf[b].cur : row'[q].at >= 0
    BY <1>6, <1>10, <2>1 DEF OutcomeIInv, InHand, Backfillers
  <2>3. bf["entry"].cur \subseteq Evals
    BY OutcomeTypes DEF OutcomeIInv, BfRec, Backfillers
  <2>4. bf["entry"].pnl # "none" => \A q \in bf["entry"].cur : trade'[q] = bf["entry"].pnl
    BY <1>7, <1>10, <2>3 DEF OutcomeIInv, InHand
  <2> QED
    BY <1>1, <2>2, <2>4 DEF OutcomeIInv, InHand
<1>12. JudgedInTime'
  <2>1. \A q \in Rows : row[q].from = "pnl" => q \in Evals /\ q # r
    BY <1>4 DEF OutcomeIInv, RowsInv
  <2> QED
    BY <1>1, <1>4, <1>6, <1>7, <2>1 DEF OutcomeIInv, JudgedInTime
<1> QED
  BY <1>8, <1>9, <1>11, <1>12 DEF OutcomeIInv

(* A trade that has closed stays as it closed.                             *)
LEMMA CloseTradeKeeps == ASSUME OutcomeIInv, NEW r \in Evals, CloseTrade(r) PROVE OutcomeIInv'
<1>1. trade[r] = "open" /\ UNCHANGED <<ot, row, bf, ofaults>>
  BY DEF CloseTrade
<1>2. PICK v \in Pnls : trade' = [trade EXCEPT ![r] = v]
  BY DEF CloseTrade
<1>3. OutcomeTypeOK /\ trade \in [Evals -> Verdicts \cup {"none", "open"}] /\ v \in Verdicts
      /\ row \in [Rows -> RowRec] /\ bf \in [Backfillers -> BfRec]
  BY OutcomeTypes, OutcomeKinds DEF OutcomeIInv
<1>4. trade' \in [Evals -> Verdicts \cup {"none", "open"}] /\ \A q \in Evals \ {r} : trade'[q] = trade[q]
  BY <1>2, <1>3
<1>5. OutcomeTypeOK'
  BY <1>1, <1>3, <1>4 DEF OutcomeTypeOK
<1>6. InHand'
  <2>1. bf["entry"].pnl \in Verdicts \cup {"none"} /\ bf["entry"].cur \subseteq Evals
    BY <1>3 DEF BfRec, Backfillers
  <2>2. bf["entry"].pnl # "none" => \A q \in bf["entry"].cur : q # r
    BY <1>1, <2>1 DEF OutcomeIInv, InHand, Verdicts
  <2> QED
    BY <1>1, <1>4, <2>1, <2>2 DEF OutcomeIInv, InHand
<1>7. JudgedInTime'
  <2>1. \A q \in Rows : row[q].from = "pnl" => q \in Evals /\ (row[q].label = trade[q])
    BY DEF OutcomeIInv, RowsInv, JudgedInTime
  <2>2. \A q \in Rows : row[q].label # "open"
    BY <1>3 DEF RowRec, Verdicts
  <2> QED
    BY <1>1, <1>4, <2>1, <2>2 DEF OutcomeIInv, JudgedInTime
<1> QED
  BY <1>1, <1>5, <1>6, <1>7 DEF OutcomeIInv, RowsInv

LEMMA PendingKeeps ==
  ASSUME OutcomeIInv, NEW b \in Backfillers, PendingEvaluations(b) PROVE OutcomeIInv'
<1>0. PICK T \in OldestFirst(Waiting(b)) :
        bf' = [bf EXCEPT ![b] = [pc |-> "row", left |-> T, cur |-> {}, pnl |-> "none"]]
  BY DEF PendingEvaluations
<1> DEFINE new == [pc |-> "row", left |-> T, cur |-> {}, pnl |-> "none"]
<1>1. UNCHANGED <<ot, row, trade, ofaults>> /\ bf' = [bf EXCEPT ![b] = new]
  BY <1>0 DEF PendingEvaluations
<1>2. OutcomeTypeOK /\ bf \in [Backfillers -> BfRec]
  BY OutcomeTypes DEF OutcomeIInv
<1>3. /\ \A r \in new.left : row[r].at >= 0
      /\ new.left \subseteq IF b = "entry" THEN Evals ELSE Exits
  BY DEF OldestFirst, Waiting
<1>4. new \in BfRec
  BY <1>3, OutcomeKinds DEF BfRec
<1>5. new.cur = {} /\ new.pnl = "none"
  OBVIOUS
<1> HIDE DEF new
<1>6. bf' \in [Backfillers -> BfRec] /\ bf'[b] = new /\ \A a \in Backfillers \ {b} : bf'[a] = bf[a]
  BY <1>1, <1>2, <1>4
<1>7. OutcomeTypeOK'
  BY <1>1, <1>2, <1>6 DEF OutcomeTypeOK, BfRec
<1>8. InHand'
  <2>1. bf'["entry"].left \subseteq Evals /\ bf'["exit"].left \subseteq Exits
    BY <1>3, <1>6 DEF OutcomeIInv, InHand, Backfillers
  <2>2. \A a \in Backfillers : \A r \in bf'[a].left \cup bf'[a].cur : row[r].at >= 0
    BY <1>3, <1>5, <1>6 DEF OutcomeIInv, InHand
  <2>3. bf'["entry"].pnl # "none" => \A r \in bf'["entry"].cur : trade[r] = bf'["entry"].pnl
    BY <1>5, <1>6 DEF OutcomeIInv, InHand, Backfillers
  <2> QED
    BY <1>1, <2>1, <2>2, <2>3 DEF InHand
<1> QED
  BY <1>1, <1>7, <1>8 DEF OutcomeIInv, RowsInv, JudgedInTime

(* What a step that writes a row, or none, must establish.                 *)
Judged ==
  /\ row' \in [Rows -> RowRec] /\ RowsInv' /\ JudgedInTime'
  /\ \A r \in Rows : row'[r].at = row[r].at

(* Whatever a batch holds has a time.                                      *)
LEMMA TimeKnown == ASSUME OutcomeIInv, NEW r \in Rows, row[r].at >= 0 PROVE row[r].sig >= 0
BY DEF OutcomeIInv, RowsInv

LEMMA NotWritten == ASSUME OutcomeIInv, UNCHANGED <<row, trade, ot>> PROVE Judged
BY OutcomeTypes DEF OutcomeIInv, Judged, RowsInv, JudgedInTime

LEMMA Written ==
  ASSUME OutcomeIInv, UNCHANGED <<trade, ot>>, NEW r \in Rows, row[r].at >= 0,
         NEW lb \in Verdicts \cup {"none", "unavailable"}, NEW from \in {"none", "pnl", "pct"},
         NEW seen \in -1..OutcomeTime, Write(r, lb, from, seen),
         lb = "unavailable" => ot - row[r].sig > StaleCutoff,
         from = "pct" => seen >= row[r].sig + Horizon - Tolerance,
         from = "pnl" => r \in Evals /\ lb = trade[r]
  PROVE  Judged
<1> DEFINE new == [row[r] EXCEPT !.label = lb, !.from = from, !.seen = seen]
<1>1. row \in [Rows -> RowRec] /\ row[r] \in RowRec
  BY OutcomeTypes DEF OutcomeIInv
<1>2. new \in RowRec /\ new.at = row[r].at /\ new.sig = row[r].sig /\ new.label = lb /\ new.from = from /\ new.seen = seen
  BY <1>1 DEF RowRec
<1>3. row' = [row EXCEPT ![r] = new]
  BY DEF Write
<1> HIDE DEF new
<1>4. row' \in [Rows -> RowRec] /\ row'[r] = new /\ \A q \in Rows \ {r} : row'[q] = row[q]
  BY <1>1, <1>2, <1>3
<1>5. row[r].at # -1
  BY OutcomeTypes DEF OutcomeIInv
<1>6. RowsInv'
  BY <1>2, <1>4, <1>5 DEF RowsInv, OutcomeIInv
<1>7. JudgedInTime'
  BY <1>2, <1>4 DEF JudgedInTime, OutcomeIInv
<1> QED
  BY <1>2, <1>4, <1>6, <1>7 DEF Judged

(* A batch shrinks by the row in hand.                                     *)
LEMMA DoneKeeps ==
  ASSUME OutcomeIInv, Judged, NEW b \in Backfillers, NEW r, Done(b, r), UNCHANGED <<trade, ot>>,
         ofaults' \in 0..OutcomeFaults
  PROVE  OutcomeIInv'
<1> DEFINE new == [pc |-> IF bf[b].left = {r} THEN "wait" ELSE "row", left |-> bf[b].left \ {r},
                   cur |-> {}, pnl |-> "none"]
<1>1. bf' = [bf EXCEPT ![b] = new]
  BY DEF Done
<1>2. OutcomeTypeOK /\ bf \in [Backfillers -> BfRec] /\ bf[b] \in BfRec
  BY OutcomeTypes DEF OutcomeIInv
<1>3. new \in BfRec /\ new.left \subseteq bf[b].left /\ new.cur = {} /\ new.pnl = "none"
  BY <1>2 DEF BfRec
<1> HIDE DEF new
<1>4. bf' \in [Backfillers -> BfRec] /\ bf'[b] = new /\ \A a \in Backfillers \ {b} : bf'[a] = bf[a]
  BY <1>1, <1>2, <1>3
<1>5. OutcomeTypeOK'
  BY <1>2, <1>4 DEF Judged, OutcomeTypeOK, BfRec, RowRec
<1>6. InHand'
  <2>1. bf'["entry"].left \subseteq Evals /\ bf'["exit"].left \subseteq Exits
    BY <1>3, <1>4 DEF OutcomeIInv, InHand, Backfillers
  <2>2. \A a \in Backfillers : \A q \in bf'[a].left \cup bf'[a].cur : q \in bf[a].left \cup bf[a].cur
    BY <1>3, <1>4
  <2>3. \A a \in Backfillers : \A q \in bf[a].left \cup bf[a].cur : q \in Rows /\ row[q].at >= 0
    BY <1>2, OutcomeKinds DEF BfRec, OutcomeIInv, InHand
  <2>4. \A a \in Backfillers : \A q \in bf'[a].left \cup bf'[a].cur : row'[q].at >= 0
    BY <2>2, <2>3 DEF Judged
  <2>5. bf'["entry"].pnl # "none" => \A q \in bf'["entry"].cur : trade[q] = bf'["entry"].pnl
    BY <1>3, <1>4 DEF OutcomeIInv, InHand, Backfillers
  <2> QED
    BY <2>1, <2>4, <2>5 DEF InHand
<1> QED
  BY <1>5, <1>6 DEF OutcomeIInv, Judged

LEMMA FaultCounted ==
  ASSUME OutcomeTypeOK, NoOFault \/ OFault PROVE ofaults' \in 0..OutcomeFaults
BY OutcomeConstants DEF OutcomeTypeOK, NoOFault, OFault

LEMMA PositionPnLKeeps == ASSUME OutcomeIInv, NEW r \in Evals, PositionPnL(r) PROVE OutcomeIInv'
<1>1. /\ r \in bf["entry"].left /\ UNCHANGED <<ot, row, trade>> /\ (NoOFault \/ OFault)
  BY DEF PositionPnL, IsNext
<1>2. PICK known \in {trade[r] \in Verdicts, FALSE} :
        bf' = [bf EXCEPT !["entry"] = [@ EXCEPT !.pc = "price", !.cur = {r},
                                         !.pnl = IF known THEN trade[r] ELSE "none"]]
  BY DEF PositionPnL
<1>3. /\ OutcomeTypeOK /\ bf \in [Backfillers -> BfRec] /\ bf["entry"] \in BfRec
      /\ "entry" \in Backfillers /\ "exit" \in Backfillers
  BY OutcomeTypes DEF OutcomeIInv, Backfillers
<1> DEFINE v == IF known THEN trade[r] ELSE "none"
           new == [bf["entry"] EXCEPT !.pc = "price", !.cur = {r}, !.pnl = v]
<1>4. v \in Verdicts \cup {"none"} /\ (v # "none" => v = trade[r])
  BY <1>2
<1> HIDE DEF v
<1>5. new \in BfRec /\ new.left = bf["entry"].left /\ new.cur = {r} /\ new.pnl = v
  BY <1>3, <1>4 DEF BfRec
<1>6. bf' = [bf EXCEPT !["entry"] = new]
  BY <1>2 DEF v
<1> HIDE DEF new
<1>7. bf' \in [Backfillers -> BfRec] /\ bf'["entry"] = new /\ \A a \in Backfillers \ {"entry"} : bf'[a] = bf[a]
  BY <1>3, <1>5, <1>6
<1>8. OutcomeTypeOK'
  BY <1>1, <1>3, <1>7, FaultCounted DEF OutcomeTypeOK, BfRec
<1>9. InHand'
  <2>1. bf'["entry"].left = bf["entry"].left /\ bf'["exit"].left = bf["exit"].left
    BY <1>3, <1>5, <1>7
  <2>2. row[r].at >= 0
    BY <1>1, <1>3 DEF OutcomeIInv, InHand
  <2>3. \A a \in Backfillers : \A q \in bf'[a].left \cup bf'[a].cur : row[q].at >= 0
    BY <1>5, <1>7, <2>2 DEF OutcomeIInv, InHand
  <2>4. bf'["entry"].pnl # "none" => \A q \in bf'["entry"].cur : trade[q] = bf'["entry"].pnl
    BY <1>4, <1>5, <1>7
  <2> QED
    BY <1>1, <2>1, <2>3, <2>4 DEF OutcomeIInv, InHand
<1> QED
  BY <1>1, <1>8, <1>9 DEF OutcomeIInv, RowsInv, JudgedInTime

LEMMA JudgeWrites ==
  ASSUME OutcomeIInv, UNCHANGED <<trade, ot>>, NEW r \in Evals, r \in bf["entry"].cur,
         NEW prices, prices \subseteq CounterfactClose(r), Judge(r, prices)
  PROVE  Judged
<1>1. r \in Rows /\ row[r].at >= 0 /\ "entry" \in Backfillers
  BY OutcomeKinds DEF OutcomeIInv, InHand, Backfillers
<1>2. /\ OutcomeTypeOK /\ ot \in 0..OutcomeTime /\ bf["entry"].pnl \in Verdicts \cup {"none"}
      /\ OutcomeTime \in Nat
  BY <1>1, OutcomeTypes, OutcomeConstants DEF OutcomeIInv, OutcomeTypeOK
<1>3. CASE bf["entry"].pnl # "none"
  <2>1. Write(r, bf["entry"].pnl, "pnl", ot) /\ bf["entry"].pnl = trade[r] /\ bf["entry"].pnl \in Verdicts
    BY <1>2, <1>3 DEF Judge, OutcomeIInv, InHand
  <2>2. ot \in -1..OutcomeTime
    BY <1>2
  <2> QED
    BY <1>1, <2>1, <2>2, Written DEF Verdicts
<1>4. CASE bf["entry"].pnl = "none" /\ prices # {}
  <2>1. PICK p \in prices : Write(r, Move[r][p], "pct", p)
    BY <1>4 DEF Judge
  <2>2. p \in 0..OutcomeTime /\ p >= row[r].sig + Horizon - Tolerance
    BY <1>1, <1>2, TimeKnown, ClosesNear
  <2>3. Move[r][p] \in Verdicts /\ p \in -1..OutcomeTime
    BY <1>1, <1>2, <2>2, OutcomeKinds
  <2> QED
    BY <1>1, <2>1, <2>2, <2>3, Written DEF Verdicts
<1>5. CASE bf["entry"].pnl = "none" /\ prices = {} /\ IsStale(r)
  <2>1. Write(r, "unavailable", "none", ot)
    BY <1>5 DEF Judge
  <2>2. ot \in -1..OutcomeTime /\ ot - row[r].sig > StaleCutoff
    BY <1>2, <1>5 DEF IsStale
  <2> QED
    BY <1>1, <2>1, <2>2, Written
<1>6. CASE bf["entry"].pnl = "none" /\ prices = {} /\ ~IsStale(r)
  BY <1>6, NotWritten DEF Judge
<1> QED
  BY <1>3, <1>4, <1>5, <1>6

LEMMA WriteOutcomeKeeps == ASSUME OutcomeIInv, NEW r \in Evals, WriteOutcome(r) PROVE OutcomeIInv'
<1>1. /\ r \in bf["entry"].cur /\ Done("entry", r) /\ UNCHANGED <<ot, trade>> /\ (NoOFault \/ OFault)
      /\ "entry" \in Backfillers
  BY DEF WriteOutcome, Backfillers
<1>2. Judged
  <2>1. CASE Judge(r, IF r \in Delisted THEN {} ELSE CounterfactClose(r))
    BY <1>1, <2>1, JudgeWrites
  <2>2. CASE Judge(r, {})
    BY <1>1, <2>2, JudgeWrites
  <2>3. CASE UNCHANGED row
    BY <1>1, <2>3, NotWritten
  <2> QED
    BY <2>1, <2>2, <2>3 DEF WriteOutcome
<1>3. ofaults' \in 0..OutcomeFaults
  BY <1>1, FaultCounted DEF OutcomeIInv
<1> QED
  BY <1>1, <1>2, <1>3, DoneKeeps

LEMMA SetIfHoldKeeps == ASSUME OutcomeIInv, NEW r \in Exits, SetIfHoldOutcome(r) PROVE OutcomeIInv'
<1>1. /\ r \in bf["exit"].left /\ Done("exit", r) /\ UNCHANGED <<ot, trade>> /\ (NoOFault \/ OFault)
      /\ "exit" \in Backfillers
  BY DEF SetIfHoldOutcome, IsNext, Backfillers
<1>2. r \in Rows /\ row[r].at >= 0
  BY <1>1, OutcomeKinds DEF OutcomeIInv, InHand
<1>3. OutcomeTypeOK /\ ot \in 0..OutcomeTime /\ OutcomeTime \in Nat
  BY OutcomeTypes, OutcomeConstants DEF OutcomeIInv, OutcomeTypeOK
<1>4. Judged
  <2>1. CASE UNCHANGED row
    BY <1>1, <2>1, NotWritten
  <2>2. CASE SetIfHold(r) /\ CounterfactClose(r) # {}
    <3>1. PICK p \in CounterfactClose(r) : Write(r, "none", "pct", p)
      BY <2>2 DEF SetIfHold
    <3>2. p \in -1..OutcomeTime /\ p >= row[r].sig + Horizon - Tolerance
      BY <1>2, <1>3, TimeKnown, ClosesNear
    <3> QED
      BY <1>1, <1>2, <3>1, <3>2, Written
  <2>3. CASE SetIfHold(r) /\ CounterfactClose(r) = {} /\ IsStale(r)
    <3>1. Write(r, "unavailable", "none", ot)
      BY <2>3 DEF SetIfHold
    <3>2. ot \in -1..OutcomeTime /\ ot - row[r].sig > StaleCutoff
      BY <1>3, <2>3 DEF IsStale
    <3> QED
      BY <1>1, <1>2, <3>1, <3>2, Written
  <2> QED
    BY <2>1, <2>2, <2>3 DEF SetIfHoldOutcome, SetIfHold
<1>5. ofaults' \in 0..OutcomeFaults
  BY <1>1, FaultCounted DEF OutcomeIInv
<1> QED
  BY <1>1, <1>4, <1>5, DoneKeeps

LEMMA OutcomeStep == ASSUME OutcomeIInv, [OutcomeNext]_outcomeVars PROVE OutcomeIInv'
<1>1. ASSUME NEW b \in Backfillers, PendingFails(b) PROVE OutcomeIInv'
  <2>1. UNCHANGED <<ot, row, trade, bf>> /\ ofaults' \in 0..OutcomeFaults
    BY <1>1, FaultCounted DEF PendingFails, OutcomeIInv
  <2> QED
    BY <2>1 DEF OutcomeIInv, OutcomeTypeOK, RowsInv, InHand, JudgedInTime
<1>2. CASE UNCHANGED outcomeVars
  BY <1>2 DEF OutcomeIInv, OutcomeTypeOK, RowsInv, InHand, JudgedInTime, outcomeVars
<1> QED
  BY <1>1, <1>2, OutcomeTickKeeps, InsertKeeps, CloseTradeKeeps, PendingKeeps, PositionPnLKeeps,
     WriteOutcomeKeeps, SetIfHoldKeeps
  DEF OutcomeNext, BackfillStep

(* A row is given up only when its signal or decision is a day old, never  *)
(* judged by a price from before the horizon, and a verdict from the       *)
(* trade's PnL is what the trade closed with (RunOnce of the two workers), *)
(* whatever fails, however long a batch takes and however late the row is. *)
THEOREM OutcomesInTime == OutcomeSpec => [](OutcomeTypeOK /\ JudgedInTime)
<1>1. OutcomeIInv => OutcomeTypeOK /\ JudgedInTime
  BY DEF OutcomeIInv
<1> QED
  BY <1>1, OutcomeStart, OutcomeStep, PTL DEF OutcomeSpec
----------------------------------------------------------------------------
(* The counter of drops.                                                   *)

(* The Publishes that have yet to serve s.                                 *)
Busy(s) == {p \in Publishers : s \in pub[p].todo}
(* Each drop of s, and each Publish that may still add one, is of an event *)
(* of its own.                                                             *)
DropCounted(s) ==
  drops[s] \in Nat /\ IsFiniteSet(Busy(s)) /\ drops[s] + Cardinality(Busy(s)) <= events
DropsCounted ==
  /\ drops \in [Subs -> Nat] /\ events \in 0..MaxEvents /\ skipped \subseteq Subs
  /\ \A s \in Subs : DropCounted(s)

LEMMA DropsStart == ASSUME FeedInit PROVE DropsCounted
<1>1. \A s \in Subs : Busy(s) = {}
  BY DEF FeedInit, Busy, IdlePub
<1>2. MaxEvents \in Nat
  BY FeedAssumption
<1>3. drops = [s \in Subs |-> 0] /\ events = 0 /\ skipped = {}
  BY DEF FeedInit
<1>4. \A s \in Subs : DropCounted(s)
  BY <1>1, <1>3, FS_EmptySet DEF DropCounted
<1> QED
  BY <1>2, <1>3, <1>4 DEF DropsCounted

(* A Publish that gives up the rest of its copy, or only goes on, has no   *)
(* more to serve than before.                                              *)
LEMMA FewerBusy ==
  ASSUME DropsCounted, NEW s \in Subs, Busy(s)' \subseteq Busy(s),
         drops'[s] \in Nat, drops'[s] <= drops[s], events' = events
  PROVE  DropCounted(s)'
<1>1. /\ drops[s] \in Nat /\ IsFiniteSet(Busy(s)) /\ drops[s] + Cardinality(Busy(s)) <= events
      /\ events \in Int
  BY FeedAssumption DEF DropsCounted, DropCounted
<1> DEFINE b == Busy(s)'
<1>2. IsFiniteSet(b) /\ Cardinality(b) <= Cardinality(Busy(s)) /\ Cardinality(b) \in Nat
      /\ Cardinality(Busy(s)) \in Nat
  BY <1>1, FS_Subset, FS_CardinalityType
<1> HIDE DEF b
<1>3. drops'[s] + Cardinality(b) <= events
  BY <1>1, <1>2
<1> QED
  BY <1>2, <1>3 DEF DropCounted, b

LEMMA QuietDrops ==
  ASSUME TypeF, DropsCounted, UNCHANGED <<drops, events>>, skipped' \subseteq Subs,
         \A p \in Publishers : pub'[p].todo \subseteq pub[p].todo
  PROVE  DropsCounted'
<1>1. \A s \in Subs : Busy(s)' \subseteq Busy(s)
  BY DEF Busy
<1>2. \A s \in Subs : drops'[s] \in Nat /\ drops'[s] <= drops[s]
  BY DEF DropsCounted, DropCounted
<1>3. \A s \in Subs : DropCounted(s)'
  BY <1>1, <1>2, FewerBusy
<1> QED
  BY <1>3 DEF DropsCounted

LEMMA PublishDrops == ASSUME TypeF, DropsCounted, NEW p \in Publishers, Publish(p) PROVE DropsCounted'
<1> DEFINE new == [pc |-> "send", todo |-> subs, cur |-> {}]
<1>1. /\ events < MaxEvents /\ events' = events + 1 /\ pub' = [pub EXCEPT ![p] = new]
      /\ UNCHANGED <<drops, skipped>> /\ MaxEvents \in Nat
  BY FeedAssumption DEF Publish
<1>2. pub'[p] = new /\ \A q \in Publishers \ {p} : pub'[q] = pub[q]
  BY <1>1 DEF TypeF
<1>3. ASSUME NEW s \in Subs PROVE DropCounted(s)'
  <2> DEFINE b == Busy(s)'
  <2>1. b \in SUBSET (Busy(s) \cup {p})
    BY <1>2 DEF Busy
  <2>2. /\ drops[s] \in Nat /\ IsFiniteSet(Busy(s)) /\ drops[s] + Cardinality(Busy(s)) <= events
        /\ events \in Int
    BY <1>1 DEF DropsCounted, DropCounted
  <2>3. /\ IsFiniteSet(Busy(s) \cup {p}) /\ Cardinality(Busy(s)) \in Nat
        /\ Cardinality(Busy(s) \cup {p}) <= Cardinality(Busy(s)) + 1
        /\ Cardinality(Busy(s) \cup {p}) \in Nat
    <3>1. IsFiniteSet(Busy(s) \cup {p}) /\ Cardinality(Busy(s)) \in Nat
      BY <2>2, FS_AddElement, FS_CardinalityType
    <3>2. Cardinality(Busy(s) \cup {p}) = IF p \in Busy(s) THEN Cardinality(Busy(s)) ELSE Cardinality(Busy(s)) + 1
      BY <2>2, FS_AddElement
    <3> QED
      BY <3>1, <3>2
  <2> HIDE DEF b
  <2>4. IsFiniteSet(b) /\ Cardinality(b) <= Cardinality(Busy(s) \cup {p}) /\ Cardinality(b) \in Nat
    BY <2>1, <2>3, FS_Subset, FS_CardinalityType
  <2>5. drops[s] + Cardinality(b) <= events + 1
    BY <2>2, <2>3, <2>4
  <2> QED
    BY <1>1, <2>2, <2>4, <2>5 DEF DropCounted, b
<1> QED
  BY <1>1, <1>3 DEF DropsCounted

LEMMA DropEventDrops ==
  ASSUME TypeF, DropsCounted, NEW p \in Publishers, NEW s \in Subs, DropEvent(p, s) PROVE DropsCounted'
<1>1. /\ s \in pub[p].todo /\ drops' = [drops EXCEPT ![s] = @ + 1] /\ UNCHANGED <<events, skipped>>
      /\ pub' = [pub EXCEPT ![p] = [pc |-> IF drops[s] + 1 >= DropLimit THEN "drop" ELSE "send",
                                    todo |-> @.todo \ {s}, cur |-> {s}]]
  BY DEF DropEvent, Served
<1>2. pub'[p].todo = pub[p].todo \ {s} /\ \A q \in Publishers \ {p} : pub'[q] = pub[q]
  BY <1>1 DEF TypeF
<1>3. drops \in [Subs -> Nat] /\ drops' \in [Subs -> Nat] /\ drops'[s] = drops[s] + 1
      /\ \A t \in Subs \ {s} : drops'[t] = drops[t]
  BY <1>1 DEF DropsCounted
<1>4. ASSUME NEW t \in Subs, t # s PROVE DropCounted(t)'
  <2>1. Busy(t)' \subseteq Busy(t)
    BY <1>2 DEF Busy
  <2> QED
    BY <1>1, <1>3, <1>4, <2>1, FewerBusy
<1>5. DropCounted(s)'
  <2> DEFINE b == Busy(s)'
  <2>1. b = Busy(s) \ {p} /\ p \in Busy(s)
    BY <1>1, <1>2 DEF Busy
  <2>2. /\ drops[s] \in Nat /\ IsFiniteSet(Busy(s)) /\ drops[s] + Cardinality(Busy(s)) <= events
        /\ events \in Int
    BY FeedAssumption DEF DropsCounted, DropCounted
  <2> HIDE DEF b
  <2>3. IsFiniteSet(b) /\ Cardinality(b) = Cardinality(Busy(s)) - 1 /\ Cardinality(Busy(s)) \in Nat
    BY <2>1, <2>2, FS_RemoveElement, FS_CardinalityType
  <2>4. drops'[s] \in Nat /\ drops'[s] + Cardinality(b) <= events
    BY <1>3, <2>2, <2>3
  <2> QED
    BY <1>1, <2>3, <2>4 DEF DropCounted, b
<1>6. \A t \in Subs : DropCounted(t)'
  BY <1>4, <1>5
<1> QED
  BY <1>1, <1>3, <1>6 DEF DropsCounted

LEMMA ResetDropsDrops == ASSUME TypeF, DropsCounted, NEW p \in Publishers, ResetDrops(p) PROVE DropsCounted'
<1>1. /\ drops' = [s \in Subs |-> IF s \in pub[p].cur THEN 0 ELSE drops[s]]
      /\ UNCHANGED <<events, skipped>>
      /\ pub' = [pub EXCEPT ![p] = [@ EXCEPT !.pc = "send", !.cur = {}]]
  BY DEF ResetDrops, TypeF, PubState
<1>2. \A q \in Publishers : pub'[q].todo = pub[q].todo
  BY <1>1 DEF TypeF, PubState
<1>3. drops' \in [Subs -> Nat] /\ \A s \in Subs : drops'[s] \in Nat /\ drops'[s] <= drops[s]
  BY <1>1 DEF DropsCounted
<1>4. \A s \in Subs : Busy(s)' \subseteq Busy(s)
  BY <1>2 DEF Busy
<1>5. \A s \in Subs : DropCounted(s)'
  BY <1>1, <1>3, <1>4, FewerBusy
<1> QED
  BY <1>1, <1>3, <1>5 DEF DropsCounted

LEMMA DropsStep == ASSUME TypeF, DropsCounted, [FeedNext]_feedVars PROVE DropsCounted'
<1>1. ASSUME NEW s \in Subs, Subscribe(s) \/ Stall(s) \/ Resume(s) \/ Leave(s) \/ HandlerStep(s)
      PROVE DropsCounted'
  <2>1. UNCHANGED <<drops, pub, events, skipped>>
    BY <1>1 DEF Subscribe, Stall, Resume, Leave, ClientTurns, HandlerStep, Receive, Flushed,
                ClientLeft, StreamEnds, CloseAfter
  <2> QED
    BY <2>1, QuietDrops DEF DropsCounted
<1>2. ASSUME NEW p \in Publishers, DropSub(p) \/ CloseDropped(p) \/ Return(p) PROVE DropsCounted'
  <2>1. UNCHANGED <<drops, events, skipped>>
    BY <1>2 DEF DropSub, CloseDropped, Return
  <2>2. pub[p] \in PubState
    BY DEF TypeF
  <2>3. pub'[p].todo \subseteq pub[p].todo
    <3> DEFINE back == [pub[p] EXCEPT !.pc = "send", !.cur = {}]
               close == [pub[p] EXCEPT !.pc = "close"]
    <3>1. back.todo = pub[p].todo /\ close.todo = pub[p].todo /\ IdlePub.todo = {}
      BY <2>2 DEF PubState, IdlePub
    <3> HIDE DEF back, close
    <3>2. pub' = [pub EXCEPT ![p] = back] \/ pub' = [pub EXCEPT ![p] = close] \/ pub' = [pub EXCEPT ![p] = IdlePub]
      BY <1>2 DEF DropSub, CloseDropped, Return, TypeF, back, close
    <3>3. pub'[p] \in {back, close, IdlePub}
      BY <3>2 DEF TypeF
    <3> QED
      BY <3>1, <3>3
  <2>4. \A q \in Publishers \ {p} : pub'[q] = pub[q]
    BY <1>2 DEF DropSub, CloseDropped, Return, TypeF
  <2>5. \A q \in Publishers : pub'[q].todo \subseteq pub[q].todo
    BY <2>3, <2>4
  <2> QED
    BY <2>1, <2>5, QuietDrops DEF DropsCounted
<1>3. ASSUME NEW p \in Publishers, NEW s \in Subs, Send(p, s) \/ Panic(p, s) PROVE DropsCounted'
  <2>1. UNCHANGED <<drops, events>>
    BY <1>3 DEF Send, Panic
  <2>2. skipped' \subseteq Subs
    BY <1>3 DEF Send, Panic, DropsCounted, TypeF
  <2>3. \A q \in Publishers : pub'[q].todo \subseteq pub[q].todo
    BY <1>3 DEF Send, Panic, Served, TypeF, IdlePub
  <2> QED
    BY <2>1, <2>2, <2>3, QuietDrops
<1>4. CASE UNCHANGED feedVars
  <2>1. UNCHANGED <<drops, events, skipped, pub>>
    BY <1>4 DEF feedVars
  <2> QED
    BY <2>1, QuietDrops DEF DropsCounted
<1> QED
  BY <1>1, <1>2, <1>3, <1>4, PublishDrops, DropEventDrops, ResetDropsDrops DEF FeedNext, PublishStep

(* What a client may be doing.                                             *)
ClientsTyped == client \in [Subs -> {"reads", "stalls", "left"}]

LEMMA ClientsStep == ASSUME ClientsTyped, [FeedNext]_feedVars PROVE ClientsTyped'
<1>1. ASSUME NEW s \in Subs, Stall(s) \/ Resume(s) \/ Leave(s) PROVE ClientsTyped'
  BY <1>1 DEF ClientsTyped, Stall, Resume, Leave, ClientTurns
<1>2. ASSUME NEW s \in Subs, Subscribe(s) \/ HandlerStep(s) PROVE client' = client
  BY <1>2 DEF Subscribe, HandlerStep, Receive, Flushed, ClientLeft, StreamEnds, CloseAfter
<1>3. ASSUME NEW p \in Publishers, Publish(p) \/ PublishStep(p) PROVE client' = client
  BY <1>3 DEF Publish, PublishStep, ResetDrops, DropSub, CloseDropped, Return, Send, DropEvent, Panic
<1> QED
  BY <1>1, <1>2, <1>3 DEF FeedNext, feedVars, ClientsTyped

LEMMA FeedTypes == ASSUME FeedIInv, DropsCounted, ClientsTyped PROVE FeedTypeOK
<1>1. ASSUME NEW s \in Subs PROVE drops[s] \in 0..MaxEvents
  <2>1. drops[s] \in Nat /\ Cardinality(Busy(s)) \in Nat /\ drops[s] + Cardinality(Busy(s)) <= events
    BY FS_CardinalityType DEF DropsCounted, DropCounted
  <2>2. events \in Nat /\ events <= MaxEvents /\ MaxEvents \in Nat
    BY FeedAssumption DEF DropsCounted
  <2> QED
    BY <2>1, <2>2
<1>2. drops \in [Subs -> 0..MaxEvents]
  BY <1>1 DEF DropsCounted
<1> QED
  BY <1>2 DEF FeedTypeOK, FeedIInv, TypeF, Chan, PubState, DropsCounted, ClientsTyped, Serving

(* A subscriber's counter never passes the number of events published,     *)
(* whichever of the Publishes that serve it count and reset it, in         *)
(* whatever order (Publish).                                               *)
THEOREM FeedTyped == FeedSpec => []FeedTypeOK
<1>1. FeedInit => FeedIInv /\ DropsCounted /\ ClientsTyped
  BY FeedInitInv, DropsStart DEF FeedInit, ClientsTyped
<1>2. (FeedIInv /\ DropsCounted /\ ClientsTyped) /\ [FeedNext]_feedVars
        => (FeedIInv /\ DropsCounted /\ ClientsTyped)'
  BY FeedStepInv, DropsStep, ClientsStep DEF FeedIInv
<1>3. FeedIInv /\ DropsCounted /\ ClientsTyped => FeedTypeOK
  BY FeedTypes
<1> QED
  BY <1>1, <1>2, <1>3, PTL DEF FeedSpec
----------------------------------------------------------------------------
(* The report of a replay.                                                 *)

(* Counts add up as the sets they count do.                                *)
Parts(S, F) == UNION {F[x] : x \in S}
Tagged(S, n) == UNION {{x} \X (1..n[x]) : x \in S}

LEMMA SumOfParts ==
  ASSUME NEW S, NEW F, NEW n, IsFiniteSet(Parts(S, F)), \A x \in S : n[x] = Cardinality(F[x]),
         \A x, y \in S : x # y => F[x] \cap F[y] = {}
  PROVE  Cardinality(Tagged(S, n)) = Cardinality(Parts(S, F))
<1> DEFINE U == Parts(S, F)
           D == Tagged(S, n)
           b == [x \in S |-> CHOOSE g : g \in Bijection(1..n[x], F[x])]
           h == [p \in D |-> b[p[1]][p[2]]]
<1>1. ASSUME NEW x \in S
      PROVE  /\ b[x] \in [1..n[x] -> F[x]]
             /\ \A i, k \in 1..n[x] : b[x][i] = b[x][k] => i = k
             /\ \A u \in F[x] : \E i \in 1..n[x] : b[x][i] = u
  <2>1. F[x] \in SUBSET U
    BY DEF Parts
  <2>2. IsFiniteSet(F[x])
    BY <2>1, FS_Subset
  <2>3. \E g : g \in Bijection(1..n[x], F[x])
    BY <2>2, FS_CardinalityType DEF ExistsBijection
  <2> DEFINE A == 1..n[x]
             B == F[x]
             g == b[x]
  <2>4. g \in Bijection(A, B)
    BY <2>3
  <2> HIDE DEF A, B, g
  <2>5. g \in [A -> B] /\ (\A i, k \in A : g[i] = g[k] => i = k) /\ (\A u \in B : \E i \in A : g[i] = u)
    BY <2>4, Fun_BijectionProperties
  <2> QED
    BY <2>5 DEF A, B, g
<1>0. \A x \in S : \A i \in 1..n[x] : b[x][i] \in F[x]
  BY <1>1
<1>2. \A x \in S : \A i \in 1..n[x] : <<x, i>> \in D
  BY DEF Tagged
<1>3. \A p \in D : p = <<p[1], p[2]>> /\ p[1] \in S /\ p[2] \in 1..n[p[1]]
  BY DEF Tagged
<1> HIDE DEF b, D
<1>4. h \in [D -> U]
  <2> SUFFICES ASSUME NEW p \in D PROVE b[p[1]][p[2]] \in U
    OBVIOUS
  <2>1. b[p[1]][p[2]] \in F[p[1]]
    BY <1>0, <1>3
  <2> QED
    BY <1>3, <2>1 DEF Parts
<1>5. \A p, q \in D : h[p] = h[q] => p = q
  <2> SUFFICES ASSUME NEW p \in D, NEW q \in D, b[p[1]][p[2]] = b[q[1]][q[2]] PROVE p = q
    OBVIOUS
  <2>1. b[p[1]][p[2]] \in F[p[1]] /\ b[q[1]][q[2]] \in F[q[1]]
    BY <1>0, <1>3
  <2>2. p[1] = q[1]
    BY <1>3, <2>1
  <2>3. p[2] = q[2]
    <3> DEFINE x == p[1]
    <3>1. x \in S /\ p[2] \in 1..n[x] /\ q[2] \in 1..n[x] /\ b[x][p[2]] = b[x][q[2]]
      BY <1>3, <2>2
    <3> HIDE DEF x
    <3> QED
      BY <1>1, <3>1
  <2> QED
    BY <1>3, <2>2, <2>3
<1>6. \A u \in U : \E p \in D : h[p] = u
  <2> SUFFICES ASSUME NEW u \in U PROVE \E p \in D : h[p] = u
    OBVIOUS
  <2>1. PICK x \in S : u \in F[x]
    BY DEF Parts
  <2>2. PICK i \in 1..n[x] : b[x][i] = u
    BY <1>1, <2>1
  <2>3. <<x, i>> \in D /\ h[<<x, i>>] = u
    BY <1>2, <2>2
  <2> QED
    BY <2>3
<1> HIDE DEF h, U
<1>7. h \in Bijection(D, U)
  BY <1>4, <1>5, <1>6, Fun_IsBij
<1>8. ExistsBijection(U, D)
  BY <1>7, Fun_ExistsBijSymmetric DEF ExistsBijection
<1> QED
  BY <1>8, FS_Bijection DEF D, U

Outcomes == [Cases -> ReplayOne]
(* A report and two counts that account for the rows rs.                   *)
AccountsFor(x, rs) ==
  /\ x.report = Report(rs)
  /\ x.done = Cardinality(Good(rs)) /\ x.failed = Cardinality(Cases \ Good(rs))

LEMMA CasesFinite ==
  /\ NumCases \in Nat /\ IsFiniteSet(Cases) /\ Cardinality(Cases) = NumCases
  /\ \A S \in SUBSET Cases : IsFiniteSet(S) /\ Cardinality(S) \in 0..NumCases
<1>1. NumCases \in Nat
  BY ReplayAssumption
<1>2. IsFiniteSet(Cases) /\ Cardinality(Cases) = NumCases
  BY <1>1, FS_Interval DEF Cases
<1>3. \A S \in SUBSET Cases : IsFiniteSet(S) /\ Cardinality(S) <= NumCases /\ Cardinality(S) \in Nat
  BY <1>2, FS_Subset, FS_CardinalityType
<1> QED
  BY <1>1, <1>2, <1>3

LEMMA GoodAndBad ==
  ASSUME NEW rs
  PROVE  Cardinality(Good(rs)) + Cardinality(Cases \ Good(rs)) = NumCases
<1>1. Good(rs) \in SUBSET Cases
  BY DEF Good
<1>2. /\ Good(rs) \cup (Cases \ Good(rs)) = Cases /\ Good(rs) \cap (Cases \ Good(rs)) = {}
      /\ IsFiniteSet(Good(rs)) /\ IsFiniteSet(Cases \ Good(rs))
      /\ Cardinality(Good(rs)) \in Nat /\ Cardinality(Cases \ Good(rs)) \in Nat
  BY <1>1, CasesFinite
<1> DEFINE g == Good(rs)
           b == Cases \ Good(rs)
<1>3. Cardinality(g \cup b) = Cardinality(g) + Cardinality(b) - Cardinality(g \cap b)
  BY <1>2, FS_Union
<1>4. Cardinality(g \cap b) = 0
  BY <1>2, FS_EmptySet
<1>5. g \cup b = Cases /\ Cardinality(g) \in Nat /\ Cardinality(b) \in Nat
  BY <1>2
<1> HIDE DEF g, b
<1>6. Cardinality(Cases) = Cardinality(g) + Cardinality(b)
  BY <1>3, <1>4, <1>5
<1> QED
  BY <1>6, CasesFinite DEF g, b

Signals(V) == [b \in 1..5 |-> V[b].signals]
Trades(V) == [b \in 1..5 |-> V[b].trades]

(* The buckets of a score hold each scored case once, and among them those *)
(* with a PnL.                                                             *)
LEMMA BucketsAddUp ==
  ASSUME NEW rs, NEW score
  PROVE  /\ Cardinality(Tagged(1..5, Signals(Bucketize(rs, score)))) = Cardinality(Good(rs))
         /\ Cardinality(Tagged(1..5, Trades(Bucketize(rs, score)))) =
              Cardinality({c \in Good(rs) : OldOf[c].pnl})
<1> DEFINE F == [b \in 1..5 |-> {c \in Good(rs) : BucketIndex(score[c]) = b}]
           G == [b \in 1..5 |-> {c \in F[b] : OldOf[c].pnl}]
           traded == {c \in Good(rs) : OldOf[c].pnl}
<1>1. \A b \in 1..5 : /\ Bucketize(rs, score)[b].signals = Cardinality(F[b])
                      /\ Bucketize(rs, score)[b].trades = Cardinality(G[b])
  BY DEF Bucketize
<1>2. \A c : BucketIndex(score[c]) \in 1..5
  BY DEF BucketIndex
<1>3. /\ Good(rs) = Parts(1..5, F) /\ \A x, y \in 1..5 : x # y => F[x] \cap F[y] = {}
      /\ traded = Parts(1..5, G) /\ \A x, y \in 1..5 : x # y => G[x] \cap G[y] = {}
  <2>1. \A c \in Good(rs) : c \in F[BucketIndex(score[c])]
    BY <1>2
  <2>2. \A c \in traded : c \in G[BucketIndex(score[c])]
    BY <1>2
  <2>3. \A b \in 1..5 : F[b] \subseteq Good(rs) /\ G[b] \subseteq traded
    OBVIOUS
  <2>4. \A b \in 1..5 : \A c : (c \in F[b] => BucketIndex(score[c]) = b) /\ (c \in G[b] => BucketIndex(score[c]) = b)
    OBVIOUS
  <2> HIDE DEF F, G, traded
  <2> QED
    BY <1>2, <2>1, <2>2, <2>3, <2>4 DEF Parts
<1>4. IsFiniteSet(Good(rs)) /\ IsFiniteSet(traded)
  <2>1. Good(rs) \in SUBSET Cases /\ traded \in SUBSET Cases
    BY DEF Good
  <2> HIDE DEF traded
  <2> QED
    BY <2>1, CasesFinite
<1> DEFINE n == Signals(Bucketize(rs, score))
           m == Trades(Bucketize(rs, score))
<1>5. \A b \in 1..5 : n[b] = Cardinality(F[b]) /\ m[b] = Cardinality(G[b])
  BY <1>1 DEF Signals, Trades
<1> HIDE DEF F, G, traded, n, m
<1>6. Cardinality(Tagged(1..5, n)) = Cardinality(Good(rs))
  BY <1>3, <1>4, <1>5, SumOfParts
<1>7. Cardinality(Tagged(1..5, m)) = Cardinality(traded)
  BY <1>3, <1>4, <1>5, SumOfParts
<1> QED
  BY <1>6, <1>7 DEF n, m, traded

Flips(rs) == [p \in Decisions \X Decisions |-> FlipMatrixOf(rs)[p]]

(* The flips count no case twice.                                          *)
LEMMA FlipsAddUp ==
  ASSUME NEW rs
  PROVE  Cardinality(Tagged(Decisions \X Decisions, Flips(rs))) <= Cardinality(Good(rs))
<1> DEFINE P == Decisions \X Decisions
           F == [p \in P |-> {c \in Good(rs) : OldOf[c].decision = p[1] /\ rs[c].decision = p[2]}]
           n == Flips(rs)
<1>1. \A p \in P : n[p] = Cardinality(F[p])
  BY DEF FlipMatrixOf, Flips
<1>2. \A x, y \in P : x # y => F[x] \cap F[y] = {}
  <2> SUFFICES ASSUME NEW x \in P, NEW y \in P, NEW c, c \in F[x], c \in F[y] PROVE x = y
    OBVIOUS
  <2>1. x = <<x[1], x[2]>> /\ y = <<y[1], y[2]>>
    OBVIOUS
  <2>2. x[1] = y[1] /\ x[2] = y[2]
    OBVIOUS
  <2> QED
    BY <2>1, <2>2
<1>3. Parts(P, F) \in SUBSET Good(rs)
  BY DEF Parts
<1>4. IsFiniteSet(Good(rs)) /\ Cardinality(Good(rs)) \in Nat
  <2>1. Good(rs) \in SUBSET Cases
    BY DEF Good
  <2> QED
    BY <2>1, CasesFinite, FS_CardinalityType
<1> HIDE DEF F, P, n
<1>5. IsFiniteSet(Parts(P, F)) /\ Cardinality(Parts(P, F)) <= Cardinality(Good(rs))
  BY <1>3, <1>4, FS_Subset
<1>6. Cardinality(Tagged(P, n)) = Cardinality(Parts(P, F))
  BY <1>1, <1>2, <1>5, SumOfParts
<1>7. Cardinality(Tagged(P, n)) <= Cardinality(Good(rs))
  BY <1>5, <1>6
<1> QED
  BY <1>7 DEF P, n
----------------------------------------------------------------------------
(* The runs of the replay.                                                 *)

Counts == 0..NumCases
RunRec == [st : {"none", "pending", "running"} \cup Final, total : Counts, done : Counts, failed : Counts,
           report : {NoReport} \cup {Report(rs) : rs \in Outcomes}]
WkRec == [pc : {"boot", "poll", "load", "run"}, r : 0..NumRuns, todo : SUBSET Cases]
GrRec == [pc : {"idle", "call", "count", "write"}, d : Counts, f : Counts]
CliRec == [pc : {"idle", "mark", "rows"}, r : 0..NumRuns, todo : SUBSET Cases]

ReplayTypes ==
  /\ run \in [RunIds -> RunRec] /\ saved \in [RunIds -> [Cases -> {"none", "error", "scored"}]]
  /\ wk \in WkRec /\ gr \in [Cases -> GrRec] /\ rows \in Outcomes
  /\ ndone \in Counts /\ nfailed \in Counts /\ cli \in CliRec /\ rfaults \in 0..ReplayFaults

(* Rows of replay_runs are inserted in order, those of the form 'pending'  *)
(* and those of agent-eval not.                                            *)
InOrder == \E n \in 0..NumRuns : \A r \in RunIds : run[r].st # "none" <=> r <= n
FormOnly == \A r \in RunIds : run[r].st = "pending" => r \notin ByCli
Accounted == \A r \in RunIds : run[r].st = "done" => \E rs \in Outcomes : AccountsFor(run[r], rs)

(* The run in hand is one of the form, and running, for nobody else ends   *)
(* it; goroutines there are for its cases only.                            *)
Held ==
  /\ wk.pc \in {"load", "run"} => wk.r \in RunIds \ ByCli /\ run[wk.r].st = "running"
  /\ cli.pc # "idle" => cli.r \in RunIds \cap ByCli /\ run[cli.r].st # "none"
  /\ \A c \in Cases : gr[c].pc # "idle" => wk.pc = "run" /\ c \notin wk.todo

(* The counters count the cases that have been called, those of them that  *)
(* failed and those whose goroutine has gone on to report it.              *)
Called == {c \in Cases : c \notin wk.todo /\ gr[c].pc # "call"}
Failed == {c \in Called : rows[c].err = TRUE}
Reported == {c \in Called : gr[c].pc # "count"}
Counted == wk.pc = "run" => ndone = Cardinality(Reported) /\ nfailed = Cardinality(Failed)
Fresh == wk.pc = "load" => ndone = 0 /\ nfailed = 0

RunsInv == ReplayTypes /\ InOrder /\ FormOnly /\ Accounted /\ Held
ReplayIInv == RunsInv /\ Fresh /\ Counted

LEMMA ReplayConstants ==
  /\ NumRuns \in Nat /\ NumRuns > 0 /\ NumCases \in Nat /\ 0 \in Counts /\ NumCases \in Counts
  /\ ByCli \subseteq RunIds /\ RunIds = 1..NumRuns /\ ReplayFaults \in Nat
BY ReplayAssumption DEF RunIds, Counts

LEMMA IdleRecords ==
  /\ NoRow \in ReplayOne /\ NoRun \in RunRec /\ NoRun.st = "none"
  /\ IdleWorker \in WkRec /\ IdleG \in GrRec /\ IdleCli \in CliRec
  /\ [IdleWorker EXCEPT !.pc = "boot"] \in WkRec /\ [IdleWorker EXCEPT !.pc = "boot"].pc = "boot"
<1>1. NoRow \in ReplayOne
  BY DEF ReplayOne
<1>2. NoRun \in RunRec /\ NoRun.st = "none"
  BY ReplayConstants DEF NoRun, RunRec
<1>3. IdleWorker \in WkRec /\ IdleG \in GrRec /\ IdleCli \in CliRec
  BY ReplayConstants DEF IdleWorker, IdleG, IdleCli, WkRec, GrRec, CliRec
<1>4. [IdleWorker EXCEPT !.pc = "boot"] \in WkRec /\ [IdleWorker EXCEPT !.pc = "boot"].pc = "boot"
  BY ReplayConstants DEF IdleWorker, WkRec
<1> QED
  BY <1>1, <1>2, <1>3, <1>4

LEMMA ReplayStart == ASSUME ReplayInit PROVE ReplayIInv
<1>1. ReplayTypes
  BY IdleRecords, ReplayConstants DEF ReplayInit, ReplayTypes, Outcomes
<1>2. \A r \in RunIds : run[r].st = "none"
  BY IdleRecords DEF ReplayInit
<1>3. InOrder
  <2>1. 0 \in 0..NumRuns /\ \A r \in RunIds : run[r].st # "none" <=> r <= 0
    BY <1>2, ReplayConstants
  <2> QED
    BY <2>1 DEF InOrder
<1>4. wk.pc = "boot"
  BY IdleRecords DEF ReplayInit
<1>5. Held
  BY <1>4 DEF ReplayInit, Held, IdleCli, IdleG
<1> QED
  BY <1>1, <1>2, <1>3, <1>4, <1>5 DEF ReplayIInv, RunsInv, FormOnly, Accounted, Fresh, Counted

LEMMA NewestIs ==
  ASSUME InOrder
  PROVE  Newest \in 0..NumRuns /\ \A r \in RunIds : run[r].st # "none" <=> r <= Newest
BY DEF InOrder, Newest

(* What a row of replay_runs may become: it exists from now on, it is not  *)
(* put back to 'pending', and when it is done its counts add up.           *)
Legal(r, x) ==
  /\ x \in RunRec /\ x.st \notin {"none", "pending"} /\ run[r].st # "none"
  /\ x.st = "done" => \E rs \in Outcomes : AccountsFor(x, rs)

RunsKept ==
  /\ run' \in [RunIds -> RunRec] /\ InOrder' /\ FormOnly' /\ Accounted'
  /\ \A r \in RunIds : run[r].st \notin {"none", "pending"} => run'[r].st # "pending"
  /\ \A r \in RunIds : run[r].st # "none" => run'[r].st # "none"

LEMMA RowsChanged ==
  ASSUME RunsInv, run' \in [RunIds -> RunRec], \A r \in RunIds : run'[r] = run[r] \/ Legal(r, run'[r])
  PROVE  RunsKept
<1>1. \A q \in RunIds : run'[q].st # "none" <=> run[q].st # "none"
  BY DEF Legal
<1>2. InOrder'
  BY <1>1 DEF RunsInv, InOrder
<1>3. FormOnly' /\ \A q \in RunIds : run[q].st \notin {"none", "pending"} => run'[q].st # "pending"
  BY DEF RunsInv, FormOnly, Legal
<1>4. Accounted'
  <2> SUFFICES ASSUME NEW q \in RunIds, run'[q].st = "done"
               PROVE  \E rs \in Outcomes : AccountsFor(run'[q], rs)
    BY DEF Accounted, AccountsFor
  <2>1. CASE Legal(q, run'[q])
    BY <2>1 DEF Legal
  <2>2. CASE run'[q] = run[q]
    BY <2>2 DEF RunsInv, Accounted
  <2> QED
    BY <2>1, <2>2
<1> QED
  BY <1>1, <1>2, <1>3, <1>4 DEF RunsKept

LEMMA RowChanged ==
  ASSUME RunsInv, NEW r \in RunIds, NEW x, Legal(r, x), run' = [run EXCEPT ![r] = x]
  PROVE  RunsKept /\ run'[r] = x /\ \A q \in RunIds \ {r} : run'[q] = run[q]
<1>1. run \in [RunIds -> RunRec]
  BY DEF RunsInv, ReplayTypes
<1>2. run' \in [RunIds -> RunRec] /\ run'[r] = x /\ \A q \in RunIds \ {r} : run'[q] = run[q]
  BY <1>1 DEF Legal
<1> QED
  BY <1>2, RowsChanged

LEMMA RunUnchanged == ASSUME RunsInv, UNCHANGED run PROVE RunsKept
BY DEF RunsInv, ReplayTypes, RunsKept, InOrder, FormOnly, Accounted, AccountsFor

(* The next row there may be.                                              *)
LEMMA RowInserted ==
  ASSUME RunsInv, Newest < NumRuns, NEW st \in {"pending", "running"},
         st = "pending" => Newest + 1 \notin ByCli, run' = [run EXCEPT ![Newest + 1].st = st]
  PROVE  /\ RunsKept /\ Newest + 1 \in RunIds /\ run'[Newest + 1].st = st
         /\ run[Newest + 1].st = "none" /\ \A q \in RunIds \ {Newest + 1} : run'[q] = run[q]
<1>1. run \in [RunIds -> RunRec]
  BY DEF RunsInv, ReplayTypes
<1>2. /\ Newest \in Nat /\ \A r \in RunIds : run[r].st # "none" <=> r <= Newest
      /\ NumRuns \in Nat /\ RunIds = 1..NumRuns
  BY NewestIs, ReplayConstants DEF RunsInv
<1>3. PICK n : n = Newest + 1
  OBVIOUS
<1>4. n \in RunIds /\ n \in Nat /\ n \in 0..NumRuns /\ run[n].st = "none" /\ \A r \in RunIds : r <= n <=> r <= Newest \/ r = n
  BY <1>2, <1>3
<1> DEFINE x == [run[n] EXCEPT !.st = st]
<1>5. x \in RunRec /\ x.st = st
  BY <1>1, <1>4 DEF RunRec
<1>6. run' = [run EXCEPT ![n] = x]
  BY <1>3
<1> HIDE DEF x
<1>7. run' \in [RunIds -> RunRec] /\ run'[n] = x /\ \A q \in RunIds \ {n} : run'[q] = run[q]
  BY <1>1, <1>4, <1>5, <1>6
<1>8. InOrder'
  <2>1. \A r \in RunIds : run'[r].st # "none" <=> r <= n
    BY <1>2, <1>4, <1>5, <1>7
  <2> QED
    BY <1>4, <2>1 DEF InOrder
<1>9. FormOnly' /\ \A q \in RunIds : run[q].st \notin {"none", "pending"} => run'[q].st # "pending"
  BY <1>3, <1>4, <1>5, <1>7 DEF RunsInv, FormOnly
<1>10. Accounted'
  BY <1>5, <1>7 DEF RunsInv, Accounted, AccountsFor
<1> QED
  BY <1>3, <1>4, <1>5, <1>7, <1>8, <1>9, <1>10 DEF RunsKept

ReplayKept == ReplayIInv' /\ RunsKept

LEMMA SameCounts ==
  ASSUME ReplayIInv, UNCHANGED <<wk, gr, rows, ndone, nfailed>> PROVE Fresh' /\ Counted'
BY DEF ReplayIInv, Fresh, Counted, Called, Failed, Reported

(* A step of the form or of agent-eval: it leaves the worker alone, and    *)
(* the run the worker holds.                                               *)
LEMMA OthersStep ==
  ASSUME ReplayIInv, RunsKept, UNCHANGED <<wk, gr, rows, ndone, nfailed>>,
         wk.pc \in {"load", "run"} => run'[wk.r] = run[wk.r],
         saved' \in [RunIds -> [Cases -> {"none", "error", "scored"}]],
         cli' \in CliRec, rfaults' \in 0..ReplayFaults,
         cli'.pc # "idle" => cli'.r \in RunIds \cap ByCli /\ run'[cli'.r].st # "none"
  PROVE  ReplayKept
<1>1. Fresh' /\ Counted'
  BY SameCounts
<1>2. ReplayTypes'
  BY DEF ReplayIInv, RunsInv, RunsKept, ReplayTypes
<1>3. Held'
  BY DEF ReplayIInv, RunsInv, Held
<1> QED
  BY <1>1, <1>2, <1>3 DEF ReplayKept, ReplayIInv, RunsInv, RunsKept

LEMMA PostCreateKeeps == ASSUME ReplayIInv, PostCreate PROVE ReplayKept
<1>1. /\ UNCHANGED <<saved, wk, gr, rows, ndone, nfailed, cli, rfaults>>
      /\ Newest < NumRuns /\ Newest + 1 \notin ByCli
      /\ run' = [run EXCEPT ![Newest + 1].st = "pending"]
  BY DEF PostCreate
<1>2. /\ RunsKept /\ run[Newest + 1].st = "none"
      /\ \A q \in RunIds \ {Newest + 1} : run'[q] = run[q]
  BY <1>1, RowInserted DEF ReplayIInv
<1>3. wk.pc \in {"load", "run"} => run'[wk.r] = run[wk.r]
  BY <1>2 DEF ReplayIInv, RunsInv, Held
<1>4. cli.pc # "idle" => cli.r \in RunIds \cap ByCli /\ run'[cli.r].st # "none"
  BY <1>2 DEF ReplayIInv, RunsInv, Held, RunsKept
<1> QED
  BY <1>1, <1>2, <1>3, <1>4, OthersStep DEF ReplayIInv, RunsInv, ReplayTypes

LEMMA CliStartKeeps == ASSUME ReplayIInv, CliStart PROVE ReplayKept
<1>1. /\ UNCHANGED <<saved, wk, gr, rows, ndone, nfailed, rfaults>>
      /\ Newest < NumRuns /\ Newest + 1 \in ByCli
      /\ run' = [run EXCEPT ![Newest + 1].st = "running"]
      /\ cli' = [pc |-> "mark", r |-> Newest + 1, todo |-> Cases]
  BY DEF CliStart
<1>2. /\ RunsKept /\ run[Newest + 1].st = "none" /\ Newest + 1 \in RunIds
      /\ run'[Newest + 1].st = "running"
      /\ \A q \in RunIds \ {Newest + 1} : run'[q] = run[q]
  BY <1>1, RowInserted DEF ReplayIInv
<1>3. wk.pc \in {"load", "run"} => run'[wk.r] = run[wk.r]
  BY <1>2 DEF ReplayIInv, RunsInv, Held
<1>4. cli' \in CliRec
  <2>1. Newest + 1 \in 0..NumRuns
    BY <1>2, ReplayConstants
  <2> QED
    BY <1>1, <2>1 DEF CliRec
<1>5. cli'.r \in RunIds \cap ByCli /\ run'[cli'.r].st # "none"
  BY <1>1, <1>2
<1> QED
  BY <1>1, <1>2, <1>3, <1>4, <1>5, OthersStep DEF ReplayIInv, RunsInv, ReplayTypes

(* Runs of agent-eval in hand.                                             *)
CliHolds ==
  /\ cli \in CliRec /\ cli.r \in RunIds /\ cli.r \in ByCli /\ run[cli.r] \in RunRec /\ run[cli.r].st # "none"
  /\ wk.pc \in {"load", "run"} => wk.r # cli.r /\ wk.r \in RunIds
  /\ rfaults \in 0..ReplayFaults /\ saved \in [RunIds -> [Cases -> {"none", "error", "scored"}]]
LEMMA CliInHand == ASSUME ReplayIInv, cli.pc # "idle" PROVE CliHolds
BY DEF ReplayIInv, RunsInv, Held, ReplayTypes, CliHolds

LEMMA CliMarkKeeps == ASSUME ReplayIInv, CliMark PROVE ReplayKept
<1>1. /\ UNCHANGED <<saved, wk, gr, rows, ndone, nfailed, rfaults>> /\ cli.pc = "mark"
      /\ cli' = [cli EXCEPT !.pc = "rows"]
  BY DEF CliMark
<1>2. CliHolds
  BY <1>1, CliInHand
<1> DEFINE x == [run[cli.r] EXCEPT !.st = "running", !.total = NumCases]
<1>3. x \in RunRec /\ x.st = "running"
  BY <1>2, ReplayConstants DEF CliHolds, RunRec
<1>4. run' = [run EXCEPT ![cli.r] = x]
  BY DEF CliMark
<1> HIDE DEF x
<1>5. Legal(cli.r, x)
  BY <1>2, <1>3 DEF CliHolds, Legal
<1>6. RunsKept /\ run'[cli.r] = x /\ \A q \in RunIds \ {cli.r} : run'[q] = run[q]
  BY <1>2, <1>4, <1>5, RowChanged DEF CliHolds, ReplayIInv
<1>7. cli' \in CliRec /\ cli'.r = cli.r
  BY <1>1, <1>2 DEF CliHolds, CliRec
<1>8. wk.pc \in {"load", "run"} => run'[wk.r] = run[wk.r]
  BY <1>2, <1>6 DEF CliHolds
<1>9. cli'.r \in RunIds \cap ByCli /\ run'[cli'.r].st # "none"
  BY <1>2, <1>3, <1>6, <1>7 DEF CliHolds
<1> QED
  BY <1>1, <1>2, <1>6, <1>7, <1>8, <1>9, OthersStep DEF CliHolds

LEMMA CliRowsKeeps == ASSUME ReplayIInv, CliRows PROVE ReplayKept
<1>1. UNCHANGED <<wk, gr, rows, ndone, nfailed, rfaults>> /\ cli.pc = "rows" /\ cli' = IdleCli
  BY DEF CliRows
<1>2. PICK rs \in Outcomes :
        /\ saved' = [saved EXCEPT ![cli.r] = [c \in Cases |-> IF rs[c].err THEN "error" ELSE "scored"]]
        /\ run' = [run EXCEPT ![cli.r].st = "done",
                              ![cli.r].done = NumCases - Cardinality(Cases \ Good(rs)),
                              ![cli.r].failed = Cardinality(Cases \ Good(rs)),
                              ![cli.r].report = Report(rs)]
  BY DEF CliRows, Outcomes
<1>3. CliHolds
  BY <1>1, CliInHand
<1> DEFINE bad == Cardinality(Cases \ Good(rs))
           good == NumCases - bad
           rep == Report(rs)
<1>4. good = Cardinality(Good(rs)) /\ good \in Counts /\ bad \in Counts
  <2>1. Good(rs) \in SUBSET Cases /\ Cases \ Good(rs) \in SUBSET Cases
    BY DEF Good
  <2>2. Cardinality(Good(rs)) \in 0..NumCases /\ bad \in 0..NumCases /\ NumCases \in Nat
    BY <2>1, CasesFinite
  <2> QED
    BY <2>2, GoodAndBad DEF Counts
<1> DEFINE x == [run[cli.r] EXCEPT !.st = "done", !.done = good, !.failed = bad, !.report = rep]
<1>5. rep \in {Report(a) : a \in Outcomes}
  OBVIOUS
<1>6. run' = [run EXCEPT ![cli.r] = x]
  BY <1>2
<1> HIDE DEF bad, good, rep
<1>7. x \in RunRec /\ x.st = "done" /\ x.done = good /\ x.failed = bad /\ x.report = rep
  BY <1>3, <1>4, <1>5 DEF CliHolds, RunRec, Final
<1> HIDE DEF x
<1>8. AccountsFor(x, rs)
  BY <1>4, <1>7 DEF AccountsFor, rep, bad
<1>9. Legal(cli.r, x)
  BY <1>3, <1>7, <1>8 DEF CliHolds, Legal
<1>10. RunsKept /\ run'[cli.r] = x /\ \A q \in RunIds \ {cli.r} : run'[q] = run[q]
  BY <1>3, <1>6, <1>9, RowChanged DEF CliHolds, ReplayIInv
<1>11. saved' \in [RunIds -> [Cases -> {"none", "error", "scored"}]]
  BY <1>2, <1>3 DEF CliHolds
<1>12. wk.pc \in {"load", "run"} => run'[wk.r] = run[wk.r]
  BY <1>3, <1>10 DEF CliHolds
<1>13. cli' \in CliRec /\ cli'.pc = "idle"
  BY <1>1, IdleRecords DEF IdleCli
<1> QED
  BY <1>1, <1>3, <1>10, <1>11, <1>12, <1>13, OthersStep DEF CliHolds

LEMMA RFaultCounted == ASSUME ReplayTypes, NoRFault \/ RFault PROVE rfaults' \in 0..ReplayFaults
BY ReplayConstants DEF ReplayTypes, NoRFault, RFault

LEMMA CliFailsKeeps == ASSUME ReplayIInv, CliFails PROVE ReplayKept
<1>1. UNCHANGED <<saved, wk, gr, rows, ndone, nfailed>> /\ cli.pc = "rows" /\ cli' = IdleCli
      /\ RFault /\ run' = [run EXCEPT ![cli.r].st = "failed"]
  BY DEF CliFails
<1>2. CliHolds
  BY <1>1, CliInHand
<1> DEFINE x == [run[cli.r] EXCEPT !.st = "failed"]
<1>3. x \in RunRec /\ x.st = "failed"
  BY <1>2 DEF CliHolds, RunRec, Final
<1>4. run' = [run EXCEPT ![cli.r] = x]
  BY <1>1
<1> HIDE DEF x
<1>5. Legal(cli.r, x)
  BY <1>2, <1>3 DEF CliHolds, Legal
<1>6. RunsKept /\ run'[cli.r] = x /\ \A q \in RunIds \ {cli.r} : run'[q] = run[q]
  BY <1>2, <1>4, <1>5, RowChanged DEF CliHolds, ReplayIInv
<1>7. wk.pc \in {"load", "run"} => run'[wk.r] = run[wk.r]
  BY <1>2, <1>6 DEF CliHolds
<1>8. cli' \in CliRec /\ cli'.pc = "idle" /\ rfaults' \in 0..ReplayFaults
  BY <1>1, IdleRecords, RFaultCounted DEF IdleCli, ReplayIInv, RunsInv
<1> QED
  BY <1>1, <1>2, <1>6, <1>7, <1>8, OthersStep DEF CliHolds

(* A step of the worker or its goroutines: it leaves agent-eval alone.     *)
LEMMA WorkerSide ==
  ASSUME ReplayIInv, RunsKept, UNCHANGED cli,
         saved' \in [RunIds -> [Cases -> {"none", "error", "scored"}]],
         wk' \in WkRec, gr' \in [Cases -> GrRec], rows' \in Outcomes, ndone' \in Counts, nfailed' \in Counts,
         NoRFault \/ RFault,
         wk'.pc \in {"load", "run"} => wk'.r \in RunIds \ ByCli /\ run'[wk'.r].st = "running",
         \A c \in Cases : gr'[c].pc # "idle" => wk'.pc = "run" /\ c \notin wk'.todo,
         Fresh', Counted'
  PROVE  ReplayKept
<1>1. ReplayTypes'
  BY RFaultCounted DEF ReplayIInv, RunsInv, RunsKept, ReplayTypes
<1>2. Held'
  BY DEF ReplayIInv, RunsInv, Held, RunsKept
<1> QED
  BY <1>1, <1>2 DEF ReplayKept, ReplayIInv, RunsInv, RunsKept

WorkerTypes ==
  /\ run \in [RunIds -> RunRec] /\ saved \in [RunIds -> [Cases -> {"none", "error", "scored"}]]
  /\ wk \in WkRec /\ gr \in [Cases -> GrRec] /\ rows \in Outcomes /\ ndone \in Counts /\ nfailed \in Counts
LEMMA WorkerTyped == ASSUME ReplayIInv PROVE WorkerTypes
BY DEF ReplayIInv, RunsInv, ReplayTypes, WorkerTypes

(* The run in hand.                                                        *)
WkHolds ==
  /\ wk.r \in RunIds /\ wk.r \notin ByCli /\ run[wk.r] \in RunRec /\ run[wk.r].st = "running"
  /\ wk.r \in 0..NumRuns
LEMMA WkInHand == ASSUME ReplayIInv, wk.pc \in {"load", "run"} PROVE WkHolds
BY WorkerTyped, ReplayConstants DEF ReplayIInv, RunsInv, Held, WorkerTypes, WkHolds

LEMMA NoneBusy ==
  ASSUME ReplayIInv, wk.pc # "run" PROVE \A c \in Cases : gr[c].pc = "idle"
BY DEF ReplayIInv, RunsInv, Held

LEMMA SweepKeeps == ASSUME ReplayIInv, Sweep PROVE ReplayKept
<1>1. /\ UNCHANGED <<saved, gr, rows, ndone, nfailed, cli>> /\ wk.pc = "boot"
      /\ wk' = [wk EXCEPT !.pc = "poll"] /\ (NoRFault \/ RFault)
      /\ run' = Swept \/ UNCHANGED run
  BY DEF Sweep, Worker
<1>2. WorkerTypes
  BY WorkerTyped
<1>3. RunsKept
  <2>1. CASE UNCHANGED run
    BY <2>1, RunUnchanged DEF ReplayIInv
  <2>2. CASE run' = Swept
    <3>1. \A r \in RunIds : run'[r] = IF run[r].st = "running" THEN [run[r] EXCEPT !.st = "aborted"] ELSE run[r]
      BY <2>2 DEF Swept
    <3>2. ASSUME NEW r \in RunIds PROVE run'[r] \in RunRec /\ (run'[r] = run[r] \/ Legal(r, run'[r]))
      <4>1. run[r] \in RunRec
        BY <1>2 DEF WorkerTypes
      <4> DEFINE x == [run[r] EXCEPT !.st = "aborted"]
      <4>2. x \in RunRec /\ x.st = "aborted"
        BY <4>1 DEF RunRec, Final
      <4>3. run'[r] = x \/ run'[r] = run[r]
        BY <3>1
      <4>4. run'[r] = x => run[r].st = "running" \/ run'[r] = run[r]
        BY <3>1
      <4> HIDE DEF x
      <4> QED
        BY <4>1, <4>2, <4>3, <4>4 DEF Legal
    <3>3. run' \in [RunIds -> RunRec]
      BY <2>2, <3>2 DEF Swept
    <3> QED
      BY <3>2, <3>3, RowsChanged DEF ReplayIInv
  <2> QED
    BY <1>1, <2>1, <2>2
<1>4. wk' \in WkRec /\ wk'.pc = "poll"
  BY <1>1, <1>2 DEF WorkerTypes, WkRec
<1>5. \A c \in Cases : gr'[c].pc = "idle"
  BY <1>1, NoneBusy
<1>6. Fresh' /\ Counted'
  BY <1>4 DEF Fresh, Counted
<1> QED
  BY <1>1, <1>2, <1>3, <1>4, <1>5, <1>6, WorkerSide DEF WorkerTypes

LEMMA LeastNatural == ASSUME NEW T \in SUBSET Nat, T # {} PROVE \E m \in T : \A n \in T : m <= n
<1>1. IsWellFoundedOn(OpToRel(<, Nat), Nat)
  BY NatLessThanWellFounded
<1>2. PICK m \in T : \A n \in T : ~(<<n, m>> \in OpToRel(<, Nat))
  BY <1>1, WFMin
<1>3. \A n \in T : ~(n < m)
  BY <1>2 DEF OpToRel
<1> QED
  BY <1>3

LEMMA ClaimKeeps == ASSUME ReplayIInv, Claim PROVE ReplayKept
<1> DEFINE r == CHOOSE x \in Pending : \A y \in Pending : x <= y
<1>1. /\ UNCHANGED <<saved, gr, cli>> /\ wk.pc = "poll" /\ (NoRFault \/ RFault)
      /\ \/ run' = [run EXCEPT ![r].st = "running"] /\ wk' = [pc |-> "load", r |-> r, todo |-> {}]
         \/ UNCHANGED wk /\ (UNCHANGED run \/ run' = [run EXCEPT ![r].st = "running"])
      /\ rows' = [c \in Cases |-> NoRow] /\ ndone' = 0 /\ nfailed' = 0 /\ Pending # {}
  BY DEF Claim
<1>2. WorkerTypes
  BY WorkerTyped
<1>3. r \in Pending
  <2>1. Pending \subseteq Nat /\ Pending # {}
    BY <1>1, ReplayConstants DEF Pending
  <2>2. \E x \in Pending : \A y \in Pending : x <= y
    BY <2>1, LeastNatural
  <2> QED
    BY <2>2
<1>4. r \in RunIds /\ run[r].st = "pending" /\ r \notin ByCli /\ r \in 0..NumRuns
  BY <1>3, ReplayConstants DEF Pending, ReplayIInv, RunsInv, FormOnly
<1> HIDE DEF r
<1> DEFINE x == [run[r] EXCEPT !.st = "running"]
<1>5. x \in RunRec /\ x.st = "running"
  BY <1>2, <1>4 DEF WorkerTypes, RunRec
<1>6. run' = [run EXCEPT ![r] = x] \/ UNCHANGED run
  BY <1>1
<1>7. (wk' = [pc |-> "load", r |-> r, todo |-> {}] /\ run' = [run EXCEPT ![r] = x]) \/ UNCHANGED wk
  BY <1>1
<1> HIDE DEF x
<1>8. Legal(r, x)
  BY <1>4, <1>5 DEF Legal
<1>9. RunsKept
  BY <1>4, <1>6, <1>8, RowChanged, RunUnchanged DEF ReplayIInv
<1>10. wk' \in WkRec /\ wk'.pc # "run" /\ (wk'.pc = "load" => wk'.r = r /\ run' = [run EXCEPT ![r] = x])
  BY <1>1, <1>2, <1>4, <1>7 DEF WorkerTypes, WkRec
<1>11. wk'.pc = "load" => wk'.r \in RunIds \ ByCli /\ run'[wk'.r].st = "running"
  BY <1>2, <1>4, <1>5, <1>10 DEF WorkerTypes
<1>12. \A c \in Cases : gr'[c].pc = "idle"
  BY <1>1, NoneBusy
<1>13. rows' \in Outcomes /\ ndone' \in Counts /\ nfailed' \in Counts
  BY <1>1, IdleRecords, ReplayConstants DEF Outcomes
<1>14. Fresh' /\ Counted'
  BY <1>1, <1>10 DEF Fresh, Counted
<1> QED
  BY <1>1, <1>2, <1>9, <1>10, <1>11, <1>12, <1>13, <1>14, WorkerSide DEF WorkerTypes

LEMMA LoadKeeps == ASSUME ReplayIInv, Load1 PROVE ReplayKept
<1>1. UNCHANGED <<saved, gr, rows, ndone, nfailed, cli>> /\ wk.pc = "load" /\ (NoRFault \/ RFault)
  BY DEF Load1
<1>2. WorkerTypes /\ WkHolds
  BY <1>1, WorkerTyped, WkInHand
<1> DEFINE x == [run[wk.r] EXCEPT !.st = "running", !.total = NumCases]
           y == [run[wk.r] EXCEPT !.st = "failed"]
           w == [wk EXCEPT !.pc = "run", !.todo = Cases]
<1>3. /\ x \in RunRec /\ x.st = "running" /\ y \in RunRec /\ y.st = "failed"
      /\ w \in WkRec /\ w.pc = "run" /\ w.r = wk.r /\ w.todo = Cases
  BY <1>2, ReplayConstants DEF WkHolds, WorkerTypes, RunRec, WkRec, Final
<1>4. \/ wk' = w /\ (UNCHANGED run \/ run' = [run EXCEPT ![wk.r] = x])
      \/ wk' = IdleWorker /\ run' = [run EXCEPT ![wk.r] = y]
  BY DEF Load1, WorkerEnds
<1> HIDE DEF x, y, w
<1>5. Legal(wk.r, x) /\ Legal(wk.r, y)
  BY <1>2, <1>3 DEF Legal, WkHolds
<1>6. RunsKept /\ (wk' = w => run'[wk.r].st = "running")
  <2>1. CASE UNCHANGED run
    BY <1>2, <2>1, RunUnchanged DEF ReplayIInv, WkHolds
  <2>2. CASE run' = [run EXCEPT ![wk.r] = x]
    BY <1>2, <1>3, <1>5, <2>2, RowChanged DEF ReplayIInv, WkHolds
  <2>3. CASE wk' = IdleWorker /\ run' = [run EXCEPT ![wk.r] = y]
    <3>1. wk' # w
      BY <1>3, <2>3 DEF IdleWorker
    <3> QED
      BY <1>2, <1>5, <2>3, <3>1, RowChanged DEF ReplayIInv, WkHolds
  <2> QED
    BY <1>4, <2>1, <2>2, <2>3
<1>7. wk' \in WkRec /\ (wk' = w \/ wk' = IdleWorker) /\ IdleWorker.pc = "poll"
  BY <1>3, <1>4, IdleRecords DEF IdleWorker
<1>8. \A c \in Cases : gr'[c].pc = "idle"
  BY <1>1, NoneBusy
<1>9. Fresh'
  BY <1>3, <1>7 DEF Fresh
<1>10. Counted'
  <2> SUFFICES ASSUME wk' = w PROVE ndone' = Cardinality(Reported') /\ nfailed' = Cardinality(Failed')
    BY <1>7 DEF Counted
  <2>1. Called' = {}
    BY <1>3 DEF Called
  <2>2. Reported' = {} /\ Failed' = {}
    BY <2>1 DEF Reported, Failed
  <2>3. ndone' = 0 /\ nfailed' = 0
    BY <1>1 DEF ReplayIInv, Fresh
  <2> QED
    BY <2>2, <2>3, FS_EmptySet
<1> QED
  BY <1>1, <1>2, <1>3, <1>6, <1>7, <1>8, <1>9, <1>10, WorkerSide DEF WorkerTypes, WkHolds

LEMMA RestartKeeps == ASSUME ReplayIInv, Restart PROVE ReplayKept
<1>1. /\ RFault /\ UNCHANGED <<run, saved, rows, ndone, nfailed, cli>>
      /\ wk' = [IdleWorker EXCEPT !.pc = "boot"] /\ gr' = [c \in Cases |-> IdleG]
  BY DEF Restart
<1>2. WorkerTypes /\ RunsKept
  BY <1>1, WorkerTyped, RunUnchanged DEF ReplayIInv
<1>3. wk' \in WkRec /\ wk'.pc = "boot" /\ gr' \in [Cases -> GrRec] /\ \A c \in Cases : gr'[c].pc = "idle"
  BY <1>1, IdleRecords DEF IdleG
<1>4. Fresh' /\ Counted'
  BY <1>3 DEF Fresh, Counted
<1> QED
  BY <1>1, <1>2, <1>3, <1>4, WorkerSide DEF WorkerTypes

(* A goroutine at work: the worker is in the run, and the case was started.*)
LEMMA AtWork ==
  ASSUME ReplayIInv, NEW c \in Cases, gr[c].pc # "idle"
  PROVE  /\ WorkerTypes /\ WkHolds /\ wk.pc = "run" /\ c \notin wk.todo /\ gr[c] \in GrRec
         /\ ndone = Cardinality(Reported) /\ nfailed = Cardinality(Failed)
<1>1. wk.pc = "run" /\ c \notin wk.todo
  BY DEF ReplayIInv, RunsInv, Held
<1> QED
  BY <1>1, WorkerTyped, WkInHand DEF ReplayIInv, Counted, WorkerTypes

LEMMA CalledFinite ==
  /\ IsFiniteSet(Reported) /\ IsFiniteSet(Failed) /\ Cardinality(Reported) \in Nat /\ Cardinality(Failed) \in Nat
  /\ Cardinality(Reported) \in Counts /\ Cardinality(Failed) \in Counts
<1>1. Reported \in SUBSET Cases /\ Failed \in SUBSET Cases
  BY DEF Reported, Failed, Called
<1> QED
  BY <1>1, CasesFinite DEF Counts

LEMMA StartKeeps == ASSUME ReplayIInv, NEW c \in Cases, Start(c) PROVE ReplayKept
<1> DEFINE g == [IdleG EXCEPT !.pc = "call"]
           w == [wk EXCEPT !.todo = @ \ {c}]
<1>1. /\ UNCHANGED <<run, saved, rows, ndone, nfailed, cli, rfaults>> /\ wk.pc = "run" /\ c \in wk.todo
      /\ wk' = w /\ gr' = [gr EXCEPT ![c] = g]
  BY DEF Start
<1>2. WorkerTypes /\ WkHolds /\ RunsKept
  BY <1>1, WorkerTyped, WkInHand, RunUnchanged DEF ReplayIInv
<1>3. g \in GrRec /\ g.pc = "call"
  BY ReplayConstants DEF IdleG, GrRec
<1>4. w \in WkRec /\ w.pc = "run" /\ w.r = wk.r /\ w.todo = wk.todo \ {c}
  BY <1>1, <1>2 DEF WorkerTypes, WkRec
<1> HIDE DEF g, w
<1>5. gr' \in [Cases -> GrRec] /\ gr'[c] = g /\ \A d \in Cases \ {c} : gr'[d] = gr[d]
  BY <1>1, <1>2, <1>3 DEF WorkerTypes
<1>6. Called' = Called
  BY <1>1, <1>3, <1>4, <1>5 DEF Called
<1>7. c \notin Called
  BY <1>1 DEF Called
<1>8. Reported' = Reported /\ Failed' = Failed
  BY <1>1, <1>5, <1>6, <1>7 DEF Reported, Failed, Called
<1>9. Fresh' /\ Counted'
  BY <1>1, <1>4, <1>8 DEF ReplayIInv, Fresh, Counted
<1>10. \A d \in Cases : gr'[d].pc # "idle" => wk'.pc = "run" /\ d \notin wk'.todo
  BY <1>1, <1>4, <1>5 DEF ReplayIInv, RunsInv, Held
<1> QED
  BY <1>1, <1>2, <1>4, <1>5, <1>9, <1>10, WorkerSide DEF WorkerTypes, WkHolds, NoRFault

LEMMA AnswerFlag == \A a \in ReplayOne : a.err \in BOOLEAN
<1>1. NoRow.err = TRUE
  BY DEF NoRow
<1>2. \A a \in [err : {FALSE}, score : NewScores, decision : Decisions] : a.err = FALSE
  OBVIOUS
<1> QED
  BY <1>1, <1>2 DEF ReplayOne

LEMMA CallKeeps == ASSUME ReplayIInv, NEW c \in Cases, Call(c) PROVE ReplayKept
<1>1. UNCHANGED <<run, wk, ndone, cli>> /\ gr[c].pc = "call" /\ gr' = [gr EXCEPT ![c].pc = "count"]
  BY DEF Call
<1>2. PICK a \in ReplayOne :
        /\ rows' = [rows EXCEPT ![c] = a]
        /\ \/ NoRFault /\ saved' = [saved EXCEPT ![wk.r][c] = IF a.err THEN "error" ELSE "scored"]
           \/ RFault /\ UNCHANGED saved
        /\ nfailed' = nfailed + (IF a.err THEN 1 ELSE 0)
  BY DEF Call
<1>3. /\ WorkerTypes /\ WkHolds /\ wk.pc = "run" /\ c \notin wk.todo /\ gr[c] \in GrRec
      /\ ndone = Cardinality(Reported) /\ nfailed = Cardinality(Failed)
  BY <1>1, AtWork
<1>4. RunsKept
  BY <1>1, RunUnchanged DEF ReplayIInv
<1> DEFINE g == [gr[c] EXCEPT !.pc = "count"]
<1>5. g \in GrRec /\ g.pc = "count"
  BY <1>3 DEF GrRec
<1>6. gr' = [gr EXCEPT ![c] = g]
  BY <1>1
<1> HIDE DEF g
<1>7. gr' \in [Cases -> GrRec] /\ gr'[c] = g /\ \A d \in Cases \ {c} : gr'[d] = gr[d]
  BY <1>3, <1>5, <1>6 DEF WorkerTypes
<1>8. rows' \in Outcomes /\ rows'[c] = a /\ \A d \in Cases \ {c} : rows'[d] = rows[d]
  BY <1>2, <1>3 DEF WorkerTypes, Outcomes
<1>9. saved' \in [RunIds -> [Cases -> {"none", "error", "scored"}]]
  <2> DEFINE v == IF a.err THEN "error" ELSE "scored"
             one == [saved[wk.r] EXCEPT ![c] = v]
  <2>1. v \in {"none", "error", "scored"}
    OBVIOUS
  <2> HIDE DEF v
  <2>2. one \in [Cases -> {"none", "error", "scored"}]
    BY <1>3, <2>1 DEF WorkerTypes, WkHolds
  <2>3. saved' = [saved EXCEPT ![wk.r] = one] \/ UNCHANGED saved
    BY <1>2 DEF v
  <2> HIDE DEF one
  <2> QED
    BY <1>3, <2>2, <2>3 DEF WorkerTypes, WkHolds
<1>10. Called' = Called \cup {c} /\ c \notin Called
  BY <1>1, <1>3, <1>5, <1>7 DEF Called
<1>11. Reported' = Reported
  BY <1>5, <1>7, <1>10 DEF Reported, Called
<1>12. Failed' = (IF a.err = TRUE THEN Failed \cup {c} ELSE Failed) /\ c \notin Failed
  BY <1>8, <1>10 DEF Failed, Called
<1>13. nfailed' = Cardinality(Failed')
  <2>1. a.err \in BOOLEAN
    BY AnswerFlag
  <2>2. Cardinality(Failed \cup {c}) = Cardinality(Failed) + 1
    BY <1>12, CalledFinite, FS_AddElement
  <2> QED
    BY <1>2, <1>3, <1>12, <2>1, <2>2, CalledFinite
<1>14. nfailed' \in Counts
  <2>1. Failed' \in SUBSET Cases
    BY DEF Failed, Called
  <2> QED
    BY <1>13, <2>1, CasesFinite DEF Counts
<1>15. Fresh' /\ Counted'
  BY <1>1, <1>3, <1>11, <1>13 DEF Fresh, Counted
<1>16. \A d \in Cases : gr'[d].pc # "idle" => wk'.pc = "run" /\ d \notin wk'.todo
  BY <1>1, <1>3, <1>7 DEF ReplayIInv, RunsInv, Held
<1> QED
  BY <1>1, <1>2, <1>3, <1>4, <1>7, <1>8, <1>9, <1>14, <1>15, <1>16, WorkerSide DEF WorkerTypes, WkHolds

LEMMA CountKeeps == ASSUME ReplayIInv, NEW c \in Cases, Count(c) PROVE ReplayKept
<1> DEFINE g == [pc |-> "write", d |-> ndone + 1, f |-> nfailed]
<1>1. /\ UNCHANGED <<run, saved, wk, rows, nfailed, cli, rfaults>> /\ gr[c].pc = "count"
      /\ ndone' = ndone + 1 /\ gr' = [gr EXCEPT ![c] = g] /\ g.pc = "write"
  BY DEF Count
<1>2. /\ WorkerTypes /\ WkHolds /\ wk.pc = "run" /\ c \notin wk.todo
      /\ ndone = Cardinality(Reported) /\ nfailed = Cardinality(Failed)
  BY <1>1, AtWork
<1>3. RunsKept
  BY <1>1, RunUnchanged DEF ReplayIInv
<1>4. c \in Called /\ c \notin Reported
  BY <1>1, <1>2 DEF Called, Reported
<1>5. Cardinality(Reported \cup {c}) = Cardinality(Reported) + 1 /\ Reported \cup {c} \in SUBSET Cases
  <2>1. Reported \cup {c} \in SUBSET Cases
    BY DEF Reported, Called
  <2> QED
    BY <1>4, <2>1, CalledFinite, FS_AddElement
<1>6. ndone' = Cardinality(Reported \cup {c}) /\ ndone' \in Counts
  BY <1>1, <1>2, <1>5, CasesFinite DEF Counts
<1>7. g \in GrRec
  BY <1>1, <1>2, <1>6 DEF GrRec, WorkerTypes
<1> HIDE DEF g
<1>8. gr' \in [Cases -> GrRec] /\ gr'[c] = g /\ \A d \in Cases \ {c} : gr'[d] = gr[d]
  BY <1>1, <1>2, <1>7 DEF WorkerTypes
<1>9. Called' = Called
  BY <1>1, <1>4, <1>8 DEF Called
<1>10. Reported' = Reported \cup {c} /\ Failed' = Failed
  BY <1>1, <1>4, <1>8, <1>9 DEF Reported, Failed, Called
<1>11. Fresh' /\ Counted'
  BY <1>1, <1>2, <1>6, <1>10 DEF Fresh, Counted
<1>12. \A d \in Cases : gr'[d].pc # "idle" => wk'.pc = "run" /\ d \notin wk'.todo
  BY <1>1, <1>2, <1>8 DEF ReplayIInv, RunsInv, Held
<1> QED
  BY <1>1, <1>2, <1>3, <1>6, <1>8, <1>11, <1>12, WorkerSide DEF WorkerTypes, WkHolds, NoRFault

LEMMA WriteProgressKeeps == ASSUME ReplayIInv, NEW c \in Cases, WriteProgress(c) PROVE ReplayKept
<1>1. /\ UNCHANGED <<saved, wk, rows, ndone, nfailed, cli>> /\ gr[c].pc = "write" /\ (NoRFault \/ RFault)
      /\ gr' = [gr EXCEPT ![c] = IdleG]
      /\ run' = [run EXCEPT ![wk.r].done = gr[c].d, ![wk.r].failed = gr[c].f] \/ UNCHANGED run
  BY DEF WriteProgress
<1>2. /\ WorkerTypes /\ WkHolds /\ wk.pc = "run" /\ c \notin wk.todo /\ gr[c] \in GrRec
      /\ ndone = Cardinality(Reported) /\ nfailed = Cardinality(Failed)
  BY <1>1, AtWork
<1> DEFINE x == [run[wk.r] EXCEPT !.done = gr[c].d, !.failed = gr[c].f]
<1>3. x \in RunRec /\ x.st = "running"
  BY <1>2 DEF WkHolds, RunRec, GrRec
<1>4. run' = [run EXCEPT ![wk.r] = x] \/ UNCHANGED run
  BY <1>1
<1> HIDE DEF x
<1>5. Legal(wk.r, x)
  BY <1>2, <1>3 DEF Legal, WkHolds
<1>6. RunsKept /\ run'[wk.r].st = "running"
  BY <1>2, <1>3, <1>4, <1>5, RowChanged, RunUnchanged DEF ReplayIInv, WkHolds
<1>7. gr' \in [Cases -> GrRec] /\ gr'[c].pc = "idle" /\ \A d \in Cases \ {c} : gr'[d] = gr[d]
  BY <1>1, <1>2, IdleRecords DEF WorkerTypes, IdleG
<1>8. Called' = Called
  BY <1>1, <1>7 DEF Called
<1>9. Reported' = Reported /\ Failed' = Failed
  BY <1>1, <1>7, <1>8 DEF Reported, Failed, Called
<1>10. Fresh' /\ Counted'
  BY <1>1, <1>2, <1>9 DEF Fresh, Counted
<1>11. \A d \in Cases : gr'[d].pc # "idle" => wk'.pc = "run" /\ d \notin wk'.todo
  BY <1>1, <1>2, <1>7 DEF ReplayIInv, RunsInv, Held
<1> QED
  BY <1>1, <1>2, <1>6, <1>7, <1>10, <1>11, WorkerSide DEF WorkerTypes, WkHolds

LEMMA MarkDoneKeeps == ASSUME ReplayIInv, MarkDone PROVE ReplayKept
<1>1. UNCHANGED <<saved, gr, rows, ndone, nfailed, cli>> /\ wk.pc = "run" /\ AllBack /\ (NoRFault \/ RFault)
      /\ wk' = IdleWorker
  BY DEF MarkDone, WorkerEnds
<1>2. WorkerTypes /\ WkHolds
  BY <1>1, WorkerTyped, WkInHand
<1>3. Called = Cases /\ \A c \in Cases : gr[c].pc = "idle"
  BY <1>1 DEF AllBack, Running, Called
<1>4. Reported = Cases /\ Failed = Cases \ Good(rows)
  <2>1. \A c \in Cases : rows[c].err \in BOOLEAN
    BY <1>2, AnswerFlag DEF WorkerTypes, Outcomes
  <2> QED
    BY <1>3, <2>1 DEF Reported, Failed, Good
<1>5. ndone = Cardinality(Reported) /\ nfailed = Cardinality(Failed)
  BY <1>1 DEF ReplayIInv, Counted
<1> DEFINE good == ndone - nfailed
           rep == Report(rows)
<1>6. nfailed = Cardinality(Cases \ Good(rows)) /\ good = Cardinality(Good(rows)) /\ good \in Counts
  <2>1. Good(rows) \in SUBSET Cases /\ Cases \ Good(rows) \in SUBSET Cases
    BY DEF Good
  <2>2. Cardinality(Good(rows)) \in 0..NumCases /\ Cardinality(Cases \ Good(rows)) \in 0..NumCases
    BY <2>1, CasesFinite
  <2>3. ndone = NumCases /\ nfailed = Cardinality(Cases \ Good(rows)) /\ NumCases \in Nat
    BY <1>4, <1>5, CasesFinite
  <2>4. ndone - nfailed = Cardinality(Good(rows))
    BY <2>2, <2>3, GoodAndBad
  <2> QED
    BY <2>2, <2>3, <2>4 DEF Counts
<1>7. rep \in {Report(rs) : rs \in Outcomes}
  BY <1>2 DEF WorkerTypes
<1> DEFINE x == [run[wk.r] EXCEPT !.st = "done", !.done = good, !.failed = nfailed, !.report = rep]
           y == [run[wk.r] EXCEPT !.st = "failed"]
<1>8. UNCHANGED run \/ run' = [run EXCEPT ![wk.r] = x] \/ run' = [run EXCEPT ![wk.r] = y]
  BY DEF MarkDone
<1> HIDE DEF good, rep
<1>9. /\ x \in RunRec /\ x.st = "done" /\ x.done = good /\ x.failed = nfailed /\ x.report = rep
      /\ y \in RunRec /\ y.st = "failed"
  BY <1>2, <1>6, <1>7 DEF WorkerTypes, WkHolds, RunRec, Final
<1> HIDE DEF x, y
<1>10. AccountsFor(x, rows) /\ rows \in Outcomes
  BY <1>2, <1>6, <1>9 DEF AccountsFor, rep, WorkerTypes
<1>11. Legal(wk.r, x) /\ Legal(wk.r, y)
  BY <1>2, <1>9, <1>10 DEF Legal, WkHolds
<1>12. RunsKept
  BY <1>2, <1>8, <1>11, RowChanged, RunUnchanged DEF ReplayIInv, WkHolds
<1>13. wk' \in WkRec /\ wk'.pc = "poll"
  BY <1>1, IdleRecords DEF IdleWorker
<1>14. Fresh' /\ Counted'
  BY <1>13 DEF Fresh, Counted
<1>15. \A c \in Cases : gr'[c].pc = "idle"
  BY <1>1, <1>3
<1> QED
  BY <1>1, <1>2, <1>12, <1>13, <1>14, <1>15, WorkerSide DEF WorkerTypes

LEMMA ReplayStep == ASSUME ReplayIInv, [ReplayNext]_replayVars PROVE ReplayKept
<1>1. CASE UNCHANGED replayVars
  <2>1. UNCHANGED <<run, saved, wk, gr, rows, ndone, nfailed, cli, rfaults>>
    BY <1>1 DEF replayVars
  <2>2. RunsKept
    BY <2>1, RunUnchanged DEF ReplayIInv
  <2>3. Fresh' /\ Counted'
    BY <2>1, SameCounts
  <2> QED
    BY <2>1, <2>2, <2>3 DEF ReplayKept, ReplayIInv, RunsInv, ReplayTypes, Held, RunsKept
<1> QED
  BY <1>1, PostCreateKeeps, SweepKeeps, ClaimKeeps, LoadKeeps, StartKeeps, CallKeeps, CountKeeps,
     WriteProgressKeeps, MarkDoneKeeps, RestartKeeps, CliStartKeeps, CliMarkKeeps, CliRowsKeeps, CliFailsKeeps
  DEF ReplayNext, WorkerStep

LEMMA ReplayTypesOK == ASSUME ReplayIInv PROVE ReplayTypeOK
<1>1. ReplayTypes
  BY DEF ReplayIInv, RunsInv
<1>2. \A r \in RunIds : run[r] \in RunRec
  BY <1>1 DEF ReplayTypes
<1> QED
  BY <1>1, <1>2 DEF ReplayTypes, ReplayTypeOK, RunRec, WkRec, Counts, Outcomes

LEMMA ReportAddsUp == ASSUME ReplayIInv PROVE DoneAddsUp
<1> SUFFICES ASSUME NEW r \in RunIds, run[r].st = "done"
             PROVE  LET rep == run[r].report
                    IN /\ run[r].done + run[r].failed = rep.size
                       /\ SumBy(1..5, LAMBDA b : rep.v1[b].signals) = run[r].done
                       /\ SumBy(1..5, LAMBDA b : rep.v2[b].signals) = run[r].done
                       /\ SumBy(1..5, LAMBDA b : rep.v2[b].trades) = rep.withPnL
                       /\ SumBy(Decisions \X Decisions, LAMBDA p : rep.flips[p]) <= run[r].done
  BY DEF DoneAddsUp
<1>1. PICK rs \in Outcomes : AccountsFor(run[r], rs)
  BY DEF ReplayIInv, RunsInv, Accounted
<1> DEFINE rep == run[r].report
<1>2. /\ rep = Report(rs) /\ run[r].done = Cardinality(Good(rs))
      /\ run[r].failed = Cardinality(Cases \ Good(rs))
  BY <1>1 DEF AccountsFor
<1> DEFINE old == [c \in Cases |-> OldOf[c].score]
           new == [c \in Cases |-> rs[c].score]
<1>3. /\ rep.size = NumCases /\ rep.v1 = Bucketize(rs, old) /\ rep.v2 = Bucketize(rs, new)
      /\ rep.withPnL = Cardinality({c \in Good(rs) : OldOf[c].pnl})
      /\ rep.flips = FlipMatrixOf(rs)
  BY <1>2 DEF Report
<1> HIDE DEF old, new
<1>4. SumBy(1..5, LAMBDA b : rep.v1[b].signals) = run[r].done
  <2>1. Tagged(1..5, Signals(rep.v1)) = UNION {{x} \X (1..rep.v1[x].signals) : x \in 1..5}
    BY DEF Tagged, Signals
  <2>2. Cardinality(Tagged(1..5, Signals(rep.v1))) = Cardinality(Good(rs))
    BY <1>3, BucketsAddUp
  <2> QED
    BY <1>2, <2>1, <2>2 DEF SumBy
<1>5. SumBy(1..5, LAMBDA b : rep.v2[b].signals) = run[r].done
  <2>1. Tagged(1..5, Signals(rep.v2)) = UNION {{x} \X (1..rep.v2[x].signals) : x \in 1..5}
    BY DEF Tagged, Signals
  <2>2. Cardinality(Tagged(1..5, Signals(rep.v2))) = Cardinality(Good(rs))
    BY <1>3, BucketsAddUp
  <2> QED
    BY <1>2, <2>1, <2>2 DEF SumBy
<1>6. SumBy(1..5, LAMBDA b : rep.v2[b].trades) = rep.withPnL
  <2>1. Tagged(1..5, Trades(rep.v2)) = UNION {{x} \X (1..rep.v2[x].trades) : x \in 1..5}
    BY DEF Tagged, Trades
  <2>2. Cardinality(Tagged(1..5, Trades(rep.v2))) = rep.withPnL
    BY <1>3, BucketsAddUp
  <2> QED
    BY <2>1, <2>2 DEF SumBy
<1>7. SumBy(Decisions \X Decisions, LAMBDA p : rep.flips[p]) <= run[r].done
  <2>1. Tagged(Decisions \X Decisions, Flips(rs)) = UNION {{x} \X (1..rep.flips[x]) : x \in Decisions \X Decisions}
    BY <1>3 DEF Tagged, Flips
  <2>2. Cardinality(Tagged(Decisions \X Decisions, Flips(rs))) <= Cardinality(Good(rs))
    BY FlipsAddUp
  <2> QED
    BY <1>2, <2>1, <2>2 DEF SumBy
<1>8. run[r].done + run[r].failed = rep.size
  BY <1>2, <1>3, GoodAndBad
<1> QED
  BY <1>4, <1>5, <1>6, <1>7, <1>8

(* A run that is done accounts for every case, its counts, its buckets and *)
(* its flips, however its goroutines interleave and whatever fails         *)
(* (replay.Worker, agent-eval --replay).                                   *)
THEOREM ReplaysAddUp == ReplaySpec => [](ReplayTypeOK /\ DoneAddsUp)
<1>1. ReplayIInv /\ [ReplayNext]_replayVars => ReplayIInv'
  BY ReplayStep DEF ReplayKept
<1>2. ReplayIInv => ReplayTypeOK /\ DoneAddsUp
  BY ReplayTypesOK, ReportAddsUp
<1> QED
  BY <1>1, <1>2, ReplayStart, PTL DEF ReplaySpec

(* No run that was claimed is claimed again, whatever fails or stops and   *)
(* however the two processes race (ClaimNextPending, AbortRunningRuns).    *)
THEOREM ReplaysOnce == ReplaySpec => NeverRequeued
<1>1. ReplayIInv /\ [ReplayNext]_replayVars => ReplayIInv'
  BY ReplayStep DEF ReplayKept
<1>2. ReplayIInv /\ [ReplayNext]_replayVars =>
        [\A r \in RunIds : run[r].st \notin {"none", "pending"} => run'[r].st # "pending"]_replayVars
  BY ReplayStep DEF ReplayKept, RunsKept
<1> QED
  BY <1>1, <1>2, ReplayStart, PTL DEF ReplaySpec, NeverRequeued
----------------------------------------------------------------------------
(* The services side by side.  A step is one of a single service, and the  *)
(* others stutter.                                                         *)

EvalInv ==
  /\ ReplayIInv /\ FeedIInv /\ DropsCounted /\ ClientsTyped
  /\ OutcomeIInv /\ TimesInv /\ PatternsInv

LEMMA EvalStart == ASSUME EvalInit PROVE EvalInv
<1>1. ClientsTyped
  BY DEF EvalInit, FeedInit, ClientsTyped
<1> QED
  BY <1>1, ReplayStart, FeedInitInv, DropsStart, OutcomeStart, TimesStart, PatternsStart
     DEF EvalInit, EvalInv

LEMMA OneMoves ==
  ASSUME [EvalNext]_evalVars
  PROVE  [ReplayNext]_replayVars /\ [FeedNext]_feedVars /\ [OutcomeNext]_outcomeVars /\ [CritNext]_critVars
<1>1. CASE UNCHANGED evalVars
  BY <1>1 DEF evalVars
<1>2. CASE EvalNext
  BY <1>2 DEF EvalNext
<1> QED
  BY <1>1, <1>2

LEMMA EvalStep == ASSUME EvalInv, [EvalNext]_evalVars PROVE EvalInv'
<1>1. [ReplayNext]_replayVars /\ [FeedNext]_feedVars /\ [OutcomeNext]_outcomeVars /\ [CritNext]_critVars
  BY OneMoves
<1>2. ReplayIInv'
  BY <1>1, ReplayStep DEF EvalInv, ReplayKept
<1>3. FeedIInv' /\ DropsCounted' /\ ClientsTyped'
  BY <1>1, FeedStepInv, DropsStep, ClientsStep DEF EvalInv, FeedIInv
<1>4. OutcomeIInv'
  BY <1>1, OutcomeStep DEF EvalInv
<1>5. TimesInv' /\ PatternsInv'
  BY <1>1, TimesStep, PatternsStep DEF EvalInv
<1> QED
  BY <1>2, <1>3, <1>4, <1>5 DEF EvalInv

(* The types of all four services in the specification the runs check.     *)
THEOREM EvalTyped == EvalSpec => []EvalTypeOK
<1>1. EvalInv => EvalTypeOK
  BY ReplayTypesOK, FeedTypes, CritTypes DEF EvalInv, OutcomeIInv, EvalTypeOK
<1> QED
  BY <1>1, EvalStart, EvalStep, PTL DEF EvalSpec

(* What holds of each service alone holds of them side by side: reports    *)
(* add up, registered subscribers can be sent to, outcomes are judged in   *)
(* time and no day goes without a critique.                                *)
THEOREM EvalSafe == EvalSpec => [](DoneAddsUp /\ RegisteredOpen /\ JudgedInTime /\ EveryDay)
<1>1. EvalInv => DoneAddsUp /\ RegisteredOpen /\ JudgedInTime /\ EveryDay
  BY ReportAddsUp, ChannelsOpen, DaysServed DEF EvalInv, OutcomeIInv
<1> QED
  BY <1>1, EvalStart, EvalStep, PTL DEF EvalSpec
=============================================================================
