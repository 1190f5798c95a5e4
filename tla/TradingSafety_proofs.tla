----------------------- MODULE TradingSafety_proofs -----------------------
(***************************************************************************)
(* When no two strategies trade the same symbol, no exposure is without an *)
(* owner (ExposureHasOwner of Trading) and, with the adapter as it is      *)
(* built, no open exposure without a live leg (Protected); and with one    *)
(* goroutine for each strategy no PnL is booked twice: for every number of *)
(* VPs, goroutines and faults.                                             *)
(***************************************************************************)
EXTENDS Trading_proofs, MCTradingSafety

USE DEF NoVP, Sides, AllLegs

OneStrategyPerSymbol ==
  \A s \in Strategies, t \in Strategies : SymbolOf[s] = SymbolOf[t] => s = t

----------------------------------------------------------------------------
(* The inductive invariant.                                                *)

(* Rows that have been committed and never go away again.                  *)
Committed(v) == st[v] \in {"open", "closed"}

(* The partial unique index of migration 0001.                             *)
OneActive ==
  \A v \in ActiveVPs, w \in ActiveVPs : owner[v] = owner[w] => v = w

(* What a goroutine knows about the VP it works on.                        *)
KnowsVP(a) ==
  /\ proc[a].pc \in {"insert", "entry", "legs", "tx"} => a \in Procs
  /\ proc[a].pc \in {"entry", "legs"} => st[proc[a].v] = "opening"
  /\ proc[a].pc = "entry" => \A o \in Orders : xord[proc[a].v][o] = "none"
  /\ proc[a].pc = "legs" => xord[proc[a].v]["entry"] = "filled"
  /\ proc[a].pc \in {"cancel", "tx"} => Committed(proc[a].v)
ProcKnows == \A a \in Actors : KnowsVP(a)

(* A VP that is being opened belongs to one goroutine.                     *)
Opens(a, v) == proc[a].pc \in {"entry", "legs"} /\ proc[a].v = v
OneOpener ==
  \A a \in Actors, b \in Actors, v \in VPs : Opens(a, v) /\ Opens(b, v) => a = b

RecKnows ==
  /\ \A x \in rec.todo : Committed(x[1])
  /\ rec.pc \in {"load", "mark", "history"} => Committed(rec.v)

HbKnows ==
  /\ \A v \in hb.todo : Committed(v)
  /\ hb.pc \in {"mark", "markOnly", "history"} => Committed(hb.v)

(* Orders exist only for rows that were inserted, order rows only for rows *)
(* that were committed.                                                    *)
OrdersHaveRows ==
  \A v \in VPs :
    /\ st[v] = "none" => \A o \in Orders : xord[v][o] = "none"
    /\ \A l \in Legs : ord[v][l] # "none" => Committed(v)

(* The net position of a symbol without an orphan: zero without an active  *)
(* VP and before that VP's entry, never more than that VP's own.           *)
PosMatches ==
  \A s \in Symbols : ~Orphaned(s) =>
    /\ (\A v \in ActiveVPs : Sym(v) # s) => pos[s] = 0
    /\ \A v \in ActiveVPs : Sym(v) = s =>
         /\ pos[s] \in {0, Dir(side[v])}
         /\ xord[v]["entry"] # "filled" => pos[s] = 0

(* Whoever is about to mark an active VP closed does so with good reason.  *)
Closing(v) ==
  \/ \E a \in Actors : proc[a].pc = "tx" /\ proc[a].v = v
  \/ rec.pc \in {"load", "mark"} /\ rec.v = v
  \/ hb.pc \in {"mark", "markOnly"} /\ hb.v = v
  \/ \E l \in Legs : xord[v][l] = "filled"
ClosingIsFlat ==
  \A v \in ActiveVPs :
    Closing(v) /\ ~Orphaned(Sym(v)) => pos[Sym(v)] = 0

IInv ==
  /\ OneActive /\ ProcKnows /\ OneOpener /\ RecKnows /\ HbKnows
  /\ OrdersHaveRows /\ PosMatches /\ ClosingIsFlat

----------------------------------------------------------------------------
(* What a step can do to rows and exposure.                                *)

EntriesKept == \A v \in VPs : xord'[v]["entry"] = xord[v]["entry"]

Keeps == UNCHANGED <<st, owner, side, pos>> /\ EntriesKept

Flattens(s) ==
  /\ UNCHANGED <<st, owner, side>> /\ EntriesKept
  /\ ~Orphaned(s) => pos'[s] = 0
  /\ \A t \in Symbols \ {s} : pos'[t] = pos[t]

Voids(v) ==
  /\ st[v] = "opening" /\ st' = [st EXCEPT ![v] = "void"]
  /\ UNCHANGED <<owner, side>>
  /\ \A w \in VPs \ {v} : xord'[w]["entry"] = xord[w]["entry"]
  /\ \A t \in Symbols \ {Sym(v)} : pos'[t] = pos[t]
  /\ \/ xord'[v]["entry"] = "filled"
     \/ xord[v]["entry"] = "none" /\ xord'[v]["entry"] = "none" /\ pos' = pos

Closes(v) ==
  /\ Committed(v)
  /\ st' = [st EXCEPT ![v] = "closed"]
  /\ UNCHANGED <<owner, side, xord, pos>>
  /\ v \in ActiveVPs /\ ~Orphaned(Sym(v)) => pos[Sym(v)] = 0

Effect ==
  \/ Keeps
  \/ \E s \in Symbols : Flattens(s)
  \/ \E p \in Procs : Insert(p) \/ EntryFilled(p) \/ OpenCommits(p)
  \/ \E v \in VPs : Voids(v) \/ Closes(v)
  \/ Crash

LEMMA OneOnSymbol ==
  ASSUME OneStrategyPerSymbol, TypeOK, OneActive,
         NEW v \in ActiveVPs, NEW w \in ActiveVPs, Sym(v) = Sym(w)
  PROVE  v = w
BY DEF OneStrategyPerSymbol, TypeOK, OneActive, ActiveVPs, Sym

(* Reducing a position that is not an orphan's leaves nothing of it.       *)
LEMMA ReduceFlattens ==
  ASSUME TypeOK, PosMatches, NEW v \in VPs, CanReduce(v), Reduce(v)
  PROVE  /\ ~Orphaned(Sym(v)) => pos'[Sym(v)] = 0
         /\ \A t \in Symbols \ {Sym(v)} : pos'[t] = pos[t]
<1>1. Sym(v) \in Symbols /\ side[v] \in Sides
  BY SymType DEF TypeOK
<1>2. pos' = [pos EXCEPT ![Sym(v)] = @ - Dir(side[v])]
  BY DEF Reduce
<1>3. \A w \in VPs : Dir(side[w]) \in {1, -1}
  BY DEF Dir
<1>4. ASSUME ~Orphaned(Sym(v)) PROVE pos[Sym(v)] = Dir(side[v])
  <2>1. pos[Sym(v)] # 0
    BY <1>1 DEF CanReduce, TypeOK
  <2>2. PICK w \in ActiveVPs : Sym(w) = Sym(v)
    BY <1>1, <1>4, <2>1 DEF PosMatches
  <2>3. pos[Sym(v)] \in {0, Dir(side[w])} /\ w \in VPs
    BY <1>1, <1>4, <2>2 DEF PosMatches, ActiveVPs
  <2> QED
    BY <1>1, <2>1, <2>3 DEF CanReduce, Dir
<1> QED
  BY <1>1, <1>2, <1>3, <1>4 DEF TypeOK

(* Two facts about writing a nested function.                              *)
LEMMA OrderChanged ==
  ASSUME TypeOK, NEW v \in VPs, NEW o \in Orders, NEW x,
         xord' = [xord EXCEPT ![v][o] = x]
  PROVE  /\ xord'[v][o] = x
         /\ \A w \in VPs, q \in Orders : w # v \/ q # o => xord'[w][q] = xord[w][q]
<1>1. xord'[v] = [xord[v] EXCEPT ![o] = x]
  BY DEF TypeOK
<1>2. \A w \in VPs : w # v => xord'[w] = xord[w]
  BY DEF TypeOK
<1> QED
  BY <1>1, <1>2 DEF TypeOK

LEMMA RowChanged ==
  ASSUME TypeOK, NEW v \in VPs, NEW l \in Legs, NEW x,
         ord' = [ord EXCEPT ![v][l] = x]
  PROVE  /\ ord'[v][l] = x
         /\ \A w \in VPs, k \in Legs : w # v \/ k # l => ord'[w][k] = ord[w][k]
<1>1. ord'[v] = [ord[v] EXCEPT ![l] = x]
  BY DEF TypeOK
<1>2. \A w \in VPs : w # v => ord'[w] = ord[w]
  BY DEF TypeOK
<1> QED
  BY <1>1, <1>2 DEF TypeOK

LEMMA EntryNotLeg == "entry" \in Orders /\ "entry" \notin Legs /\ "exit" \in Orders
                       /\ "ea-exit" \in Orders
BY ConstantsAssumption DEF Orders

LEMMA ExitOrderType == ASSUME NEW a PROVE ExitOrder(a) \in Orders /\ ExitOrder(a) # "entry"
                                          /\ ExitOrder(a) \notin Legs
BY ConstantsAssumption DEF ExitOrder, Orders

LEMMA EntryWritten ==
  ASSUME TypeOK, NEW v \in VPs, xord' = [xord EXCEPT ![v]["entry"] = "filled"]
  PROVE  /\ xord'[v]["entry"] = "filled"
         /\ \A w \in VPs, o \in Orders : w # v \/ o # "entry" => xord'[w][o] = xord[w][o]
<1>1. xord'[v] = [xord[v] EXCEPT !["entry"] = "filled"]
  BY DEF TypeOK
<1>2. \A w \in VPs : w # v => xord'[w] = xord[w]
  BY DEF TypeOK
<1> QED
  BY <1>1, <1>2, EntryNotLeg DEF TypeOK

(* Writing any order but the entry keeps the entries.                      *)
LEMMA EntriesStay ==
  ASSUME TypeOK, NEW v \in VPs, NEW o \in Orders, o # "entry", NEW x,
         xord' = [xord EXCEPT ![v][o] = x]
  PROVE  EntriesKept
BY OrderChanged, EntryNotLeg DEF EntriesKept

LEMMA EffectStep ==
  ASSUME TypeOK, IInv, Next
  PROVE  Effect
<1> USE DEF dbVars, rowVars, exVars, hbVars
<1>1. ASSUME NEW p \in Procs, NEW k \in Kinds, Load(p, k) PROVE Effect
  BY <1>1 DEF Load, Effect, Keeps, EntriesKept
<1>2. ASSUME NEW a \in Agents, NEW v \in VPs, ExitNow(a, v) PROVE Effect
  BY <1>2 DEF ExitNow, Effect, Keeps, EntriesKept
<1>3. ASSUME NEW p \in Procs, InsertFails(p) PROVE Effect
  BY <1>3 DEF InsertFails, Effect, Keeps, EntriesKept
<1>4. ASSUME NEW p \in Procs, EntryFails(p) PROVE Effect
  <2>1. PICK v \in VPs : v = proc[p].v /\ st[v] = "opening" /\ xord[v]["entry"] = "none"
    BY <1>4, ProcType, EntryNotLeg DEF EntryFails, IInv, ProcKnows, KnowsVP, Actors
  <2>2. CASE UNCHANGED exVars
    <3>1. xord' = xord /\ pos' = pos
      BY <2>2
    <3>2. Voids(v)
      BY <1>4, <2>1, <3>1 DEF EntryFails, Rollback, Voids
    <3> QED
      BY <2>1, <3>2 DEF Effect
  <2>3. CASE Enter(v) /\ xord' = [xord EXCEPT ![v]["entry"] = "filled"]
    <3>1. /\ xord'[v]["entry"] = "filled"
          /\ \A w \in VPs \ {v} : xord'[w]["entry"] = xord[w]["entry"]
      <4>1. xord' = [xord EXCEPT ![v]["entry"] = "filled"]
        BY <2>3
      <4> QED
        BY <4>1, EntryWritten, EntryNotLeg
    <3>2. \A t \in Symbols \ {Sym(v)} : pos'[t] = pos[t]
      BY <2>3 DEF Enter, TypeOK
    <3>3. Voids(v)
      BY <1>4, <2>1, <3>1, <3>2 DEF EntryFails, Rollback, Voids
    <3> QED
      BY <3>3 DEF Effect
  <2> QED
    BY <1>4, <2>1, <2>2, <2>3 DEF EntryFails
<1>5. ASSUME NEW p \in Procs, LegPlaced(p) PROVE Effect
  <2>1. proc[p].v \in VPs /\ FirstLeg(proc[p].legs) \in Orders /\ FirstLeg(proc[p].legs) # "entry"
    BY <1>5, ProcType, FirstLegIn, EntryNotLeg, LegsAreOrders DEF LegPlaced, Actors
  <2>2. EntriesKept
    BY <1>5, <2>1, EntriesStay DEF LegPlaced
  <2> QED
    BY <1>5, <2>2 DEF LegPlaced, Effect, Keeps
<1>6. ASSUME NEW p \in Procs, LegFails(p) PROVE Effect
  <2> DEFINE v == proc[p].v
  <2>1. v \in VPs /\ st[v] = "opening" /\ xord[v]["entry"] = "filled"
    BY <1>6, ProcType DEF LegFails, IInv, ProcKnows, KnowsVP, Actors
  <2>2. FirstLeg(proc[p].legs) \in Orders /\ FirstLeg(proc[p].legs) # "entry"
    BY <1>6, ProcType, FirstLegIn, EntryNotLeg, LegsAreOrders DEF LegFails, Actors
  <2>3. EntriesKept
    BY <1>6, <2>1, <2>2, EntriesStay DEF LegFails, EntriesKept
  <2>4. Voids(v)
    BY <1>6, <2>1, <2>3 DEF LegFails, Rollback, Voids, EntriesKept
  <2> QED
    BY <2>1, <2>4 DEF Effect
<1>7. ASSUME NEW p \in Procs, OpenCommitFails(p) PROVE Effect
  <2> DEFINE v == proc[p].v
  <2>1. v \in VPs /\ st[v] = "opening" /\ xord[v]["entry"] = "filled"
    BY <1>7, ProcType DEF OpenCommitFails, IInv, ProcKnows, KnowsVP, Actors
  <2>2. Voids(v)
    BY <1>7, <2>1 DEF OpenCommitFails, Rollback, Voids
  <2> QED
    BY <2>1, <2>2 DEF Effect
<1>8. ASSUME NEW a \in Actors, CancelLeg(a) PROVE Effect
  <2>1. proc[a].v \in VPs /\ FirstLeg(proc[a].legs) \in Orders /\ FirstLeg(proc[a].legs) # "entry"
    BY <1>8, ProcType, FirstLegIn, EntryNotLeg, LegsAreOrders DEF CancelLeg
  <2>2. EntriesKept
    BY <1>8, <2>1, EntriesStay DEF CancelLeg, CancelOnExchange, EntriesKept
  <2> QED
    BY <1>8, <2>2 DEF CancelLeg, Effect, Keeps
<1>9. ASSUME NEW a \in Actors, ExitFilled(a) PROVE Effect
  <2>1. proc[a].v \in VPs /\ Sym(proc[a].v) \in Symbols
    BY <1>9, ProcType, SymType DEF ExitFilled
  <2>2. EntriesKept
    BY <1>9, <2>1, EntriesStay, ExitOrderType DEF ExitFilled
  <2>3. Flattens(Sym(proc[a].v))
    BY <1>9, <2>1, <2>2, ReduceFlattens DEF ExitFilled, Flattens, IInv
  <2> QED
    BY <2>1, <2>3 DEF Effect
<1>10. ASSUME NEW a \in Actors, ExitFails(a) PROVE Effect
  <2>1. proc[a].v \in VPs /\ Sym(proc[a].v) \in Symbols
    BY <1>10, ProcType, SymType DEF ExitFails
  <2>2. CASE UNCHANGED exVars
    BY <1>10, <2>2 DEF ExitFails, Effect, Keeps, EntriesKept
  <2>3. CASE /\ CanReduce(proc[a].v) /\ Reduce(proc[a].v)
             /\ xord' = [xord EXCEPT ![proc[a].v][ExitOrder(a)] = "filled"]
    <3>1. EntriesKept
      BY <2>1, <2>3, EntriesStay, ExitOrderType
    <3>2. Flattens(Sym(proc[a].v))
      BY <1>10, <2>1, <2>3, <3>1, ReduceFlattens DEF ExitFails, Flattens, IInv
    <3> QED
      BY <2>1, <3>2 DEF Effect
  <2> QED
    BY <1>10, <2>2, <2>3 DEF ExitFails
<1>11. ASSUME NEW p \in Actors, CloseCommits(p) PROVE Effect
  <2>1. proc[p].v \in VPs /\ Committed(proc[p].v)
    BY <1>11, ProcType DEF CloseCommits, IInv, ProcKnows, KnowsVP
  <2>2. Closes(proc[p].v)
    BY <1>11, <2>1 DEF CloseCommits, Closes, IInv, ClosingIsFlat, Closing
  <2> QED
    BY <2>1, <2>2 DEF Effect
<1>12. ASSUME NEW p \in Actors, CloseCommitFails(p) PROVE Effect
  BY <1>12 DEF CloseCommitFails, Effect, Keeps, EntriesKept
<1>13. ASSUME RecNext PROVE Effect
  <2>1. CASE RecMark
    <3>1. rec.v \in VPs /\ Committed(rec.v)
      BY <2>1, RecType DEF RecMark, IInv, RecKnows
    <3>2. CASE st' = [st EXCEPT ![rec.v] = "closed"]
      <4>1. Closes(rec.v)
        BY <2>1, <3>1, <3>2 DEF RecMark, Closes, IInv, ClosingIsFlat, Closing
      <4> QED
        BY <3>1, <4>1 DEF Effect
    <3>3. CASE UNCHANGED st
      BY <2>1, <3>3 DEF RecMark, Effect, Keeps, EntriesKept
    <3> QED
      BY <2>1, <3>2, <3>3 DEF RecMark
  <2>2. ASSUME ~RecMark PROVE Keeps
    BY <1>13, <2>2 DEF RecNext, RecStart, RecSkip, RecDied, RecFill, RecLoad, RecHistory, Keeps, EntriesKept
  <2> QED
    BY <2>1, <2>2 DEF Effect
<1>14. ASSUME HbNext PROVE Effect
  <2>1. CASE HbMark
    <3>1. hb.v \in VPs /\ Committed(hb.v)
      BY <2>1, HbType DEF HbMark, IInv, HbKnows
    <3>2. CASE st' = [st EXCEPT ![hb.v] = "closed"]
      <4>1. Closes(hb.v)
        BY <2>1, <3>1, <3>2 DEF HbMark, Closes, IInv, ClosingIsFlat, Closing
      <4> QED
        BY <3>1, <4>1 DEF Effect
    <3>3. CASE UNCHANGED st
      BY <2>1, <3>3 DEF HbMark, Effect, Keeps, EntriesKept
    <3> QED
      BY <2>1, <3>2, <3>3 DEF HbMark
  <2>2. ASSUME ~HbMark PROVE Keeps
    BY <1>14, <2>2 DEF HbNext, HbStart, HbFlat, HbNotFlat, HbHistory, HbGhosts, Keeps, EntriesKept
  <2> QED
    BY <2>1, <2>2 DEF Effect
<1>15. ASSUME NEW v \in VPs, NEW l \in Legs, LegTriggers(v, l) PROVE Effect
  <2>1. Sym(v) \in Symbols /\ l \in Orders /\ l # "entry"
    BY SymType, EntryNotLeg, LegsAreOrders
  <2>2. EntriesKept
    BY <1>15, <2>1, EntriesStay DEF LegTriggers
  <2>3. CASE CanReduce(v)
    <3>1. Flattens(Sym(v))
      BY <1>15, <2>1, <2>2, <2>3, ReduceFlattens DEF LegTriggers, Flattens, IInv
    <3> QED
      BY <2>1, <3>1 DEF Effect
  <2>4. CASE ~CanReduce(v)
    BY <1>15, <2>2, <2>4 DEF LegTriggers, Effect, Keeps
  <2> QED
    BY <2>3, <2>4
<1>16. ASSUME NEW s \in Symbols, ManualClose(s) PROVE Effect
  <2>1. Flattens(s)
    BY <1>16 DEF ManualClose, Flattens, EntriesKept, TypeOK
  <2> QED
    BY <2>1 DEF Effect
<1> QED
  BY <1>1, <1>2, <1>3, <1>4, <1>5, <1>6, <1>7, <1>8, <1>9, <1>10, <1>11, <1>12,
     <1>13, <1>14, <1>15, <1>16
  DEF Next, Actors, ActorStep, OpenStep, CloseStep, Effect

----------------------------------------------------------------------------
(* The parts of the invariant that follow from the effect alone.           *)

LEMMA EntryEffect ==
  ASSUME TypeOK, IInv, NEW p \in Procs, EntryFilled(p)
  PROVE  /\ proc[p].v \in VPs /\ st[proc[p].v] = "opening"
         /\ xord[proc[p].v]["entry"] = "none"
         /\ xord'[proc[p].v]["entry"] = "filled"
         /\ \A w \in VPs, o \in Orders :
              w # proc[p].v \/ o # "entry" => xord'[w][o] = xord[w][o]
         /\ UNCHANGED <<st, owner, side>>
         /\ \A t \in Symbols \ {Sym(proc[p].v)} : pos'[t] = pos[t]
         /\ pos'[Sym(proc[p].v)] = pos[Sym(proc[p].v)] + Dir(side[proc[p].v])
<1>1. proc[p].v \in VPs /\ st[proc[p].v] = "opening" /\ xord[proc[p].v]["entry"] = "none"
  BY ProcType, EntryNotLeg DEF EntryFilled, IInv, ProcKnows, KnowsVP, Actors
<1>2. /\ xord'[proc[p].v]["entry"] = "filled"
      /\ \A w \in VPs, o \in Orders :
           w # proc[p].v \/ o # "entry" => xord'[w][o] = xord[w][o]
  BY <1>1, EntryWritten DEF EntryFilled
<1>3. /\ \A t \in Symbols \ {Sym(proc[p].v)} : pos'[t] = pos[t]
      /\ pos'[Sym(proc[p].v)] = pos[Sym(proc[p].v)] + Dir(side[proc[p].v])
  BY <1>1, SymType DEF EntryFilled, Enter, TypeOK
<1> QED
  BY <1>1, <1>2, <1>3 DEF EntryFilled, dbVars

(* Insert touches one row that was not there, of a strategy without an     *)
(* active VP.                                                              *)
LEMMA InsertEffect ==
  ASSUME TypeOK, NEW p \in Procs, Insert(p)
  PROVE  \E v \in VPs :
           /\ st[v] = "none" /\ st'[v] = "opening" /\ owner'[v] = Serves[p]
           /\ proc' = [proc EXCEPT ![p] = [pc |-> "entry", v |-> v, side |-> proc[p].side,
                                           legs |-> {}]]
           /\ \A w \in VPs : w # v =>
                st'[w] = st[w] /\ owner'[w] = owner[w] /\ side'[w] = side[w]
           /\ \A w \in ActiveVPs : owner[w] # Serves[p]
           /\ UNCHANGED <<xord, pos, ord>>
<1>1. PICK v \in Fresh :
        /\ st' = [st EXCEPT ![v] = "opening"]
        /\ owner' = [owner EXCEPT ![v] = Serves[p]]
        /\ side' = [side EXCEPT ![v] = proc[p].side]
        /\ Move(p, "entry", v, proc[p].side, {})
  BY DEF Insert
<1>2. v \in VPs /\ st[v] = "none"
  BY <1>1 DEF Fresh
<1>3. \A w \in ActiveVPs : owner[w] # Serves[p]
  BY DEF Insert, ActiveVPs, OpenOf, OpenVPs
<1> QED
  BY <1>1, <1>2, <1>3 DEF TypeOK, Insert, exVars, Move

LEMMA CommittedStays ==
  ASSUME TypeOK, IInv, Effect
  PROVE  \A v \in VPs : Committed(v) => Committed(v)'
<1> SUFFICES ASSUME NEW v \in VPs, Committed(v) PROVE Committed(v)'
  OBVIOUS
<1>1. CASE Keeps
  BY <1>1 DEF Keeps, Committed
<1>2. CASE \E s \in Symbols : Flattens(s)
  BY <1>2 DEF Flattens, Committed
<1>3. ASSUME NEW p \in Procs, Insert(p) PROVE Committed(v)'
  BY <1>3, InsertEffect DEF Committed
<1>4. ASSUME NEW p \in Procs, EntryFilled(p) PROVE Committed(v)'
  BY <1>4, EntryEffect DEF Committed
<1>5. ASSUME NEW p \in Procs, OpenCommits(p) PROVE Committed(v)'
  BY <1>5 DEF OpenCommits, Committed, TypeOK
<1>6. ASSUME NEW w \in VPs, Voids(w) PROVE Committed(v)'
  BY <1>6 DEF Voids, Committed, TypeOK
<1>7. ASSUME NEW w \in VPs, Closes(w) PROVE Committed(v)'
  BY <1>7 DEF Closes, Committed, TypeOK
<1>8. CASE Crash
  BY <1>8 DEF Crash, Committed, TypeOK
<1> QED
  BY <1>1, <1>2, <1>3, <1>4, <1>5, <1>6, <1>7, <1>8 DEF Effect

LEMMA OneActiveStep ==
  ASSUME TypeOK, IInv, Effect
  PROVE  OneActive'
<1>1. CASE Keeps
  BY <1>1 DEF Keeps, IInv, OneActive, ActiveVPs
<1>2. CASE \E s \in Symbols : Flattens(s)
  BY <1>2 DEF Flattens, IInv, OneActive, ActiveVPs
<1>3. ASSUME NEW p \in Procs, Insert(p) PROVE OneActive'
  BY <1>3, InsertEffect DEF IInv, OneActive, ActiveVPs
<1>4. ASSUME NEW p \in Procs, EntryFilled(p) PROVE OneActive'
  BY <1>4, EntryEffect DEF IInv, OneActive, ActiveVPs
<1>5. ASSUME NEW p \in Procs, OpenCommits(p) PROVE OneActive'
  BY <1>5, ProcType DEF OpenCommits, IInv, ProcKnows, KnowsVP, Actors, OneActive, ActiveVPs, TypeOK
<1>6. ASSUME NEW w \in VPs, Voids(w) PROVE OneActive'
  BY <1>6 DEF Voids, IInv, OneActive, ActiveVPs, TypeOK
<1>7. ASSUME NEW w \in VPs, Closes(w) PROVE OneActive'
  BY <1>7 DEF Closes, IInv, OneActive, ActiveVPs, TypeOK
<1>8. CASE Crash
  BY <1>8 DEF Crash, IInv, OneActive, ActiveVPs, TypeOK
<1> QED
  BY <1>1, <1>2, <1>3, <1>4, <1>5, <1>6, <1>7, <1>8 DEF Effect

LEMMA PosMatchesStep ==
  ASSUME OneStrategyPerSymbol, TypeOK, TypeOK', IInv, Effect
  PROVE  PosMatches'
<1> SUFFICES ASSUME NEW s \in Symbols, ~Orphaned(s)'
             PROVE  /\ (\A v \in ActiveVPs' : Sym(v)' # s) => pos'[s] = 0
                    /\ \A v \in ActiveVPs' : Sym(v)' = s =>
                         /\ pos'[s] \in {0, Dir(side'[v])}
                         /\ xord'[v]["entry"] # "filled" => pos'[s] = 0
  BY DEF PosMatches, Dir
<1> DEFINE Goal == /\ (\A v \in ActiveVPs' : Sym(v)' # s) => pos'[s] = 0
                   /\ \A v \in ActiveVPs' : Sym(v)' = s =>
                        /\ pos'[s] \in {0, Dir(side'[v])}
                        /\ xord'[v]["entry"] # "filled" => pos'[s] = 0
<1>0. ASSUME ~Orphaned(s)
      PROVE  /\ (\A v \in ActiveVPs : Sym(v) # s) => pos[s] = 0
             /\ \A v \in ActiveVPs : Sym(v) = s =>
                  /\ pos[s] \in {0, Dir(side[v])}
                  /\ xord[v]["entry"] # "filled" => pos[s] = 0
  BY <1>0 DEF IInv, PosMatches
<1>1. CASE Keeps
  BY <1>0, <1>1 DEF Keeps, EntriesKept, Orphaned, ActiveVPs, Sym, Dir
<1>2. ASSUME NEW t \in Symbols, Flattens(t) PROVE Goal
  <2>1. ~Orphaned(s)
    BY <1>2 DEF Flattens, EntriesKept, Orphaned, Sym
  <2>2. CASE s = t
    BY <1>2, <2>1, <2>2 DEF Flattens
  <2>3. CASE s # t
    BY <1>0, <1>2, <2>1, <2>3 DEF Flattens, EntriesKept, ActiveVPs, Sym, Dir
  <2> QED
    BY <2>2, <2>3
<1>3. ASSUME NEW p \in Procs, Insert(p) PROVE Goal
  <2>1. PICK v \in VPs :
           /\ st[v] = "none" /\ st'[v] = "opening" /\ owner'[v] = Serves[p]
           /\ \A w \in VPs : w # v =>
                st'[w] = st[w] /\ owner'[w] = owner[w] /\ side'[w] = side[w]
           /\ \A w \in ActiveVPs : owner[w] # Serves[p]
           /\ UNCHANGED <<xord, pos, ord>>
    BY <1>3, InsertEffect
  <2>2. ~Orphaned(s)
    BY <2>1 DEF Orphaned, Sym
  <2>3. ActiveVPs' = ActiveVPs \cup {v} /\ v \notin ActiveVPs
    BY <2>1 DEF ActiveVPs
  <2>4. CASE s = SymbolOf[Serves[p]]
    <3>1. Serves[p] \in Strategies
      BY ConstantsAssumption
    <3>2. \A w \in ActiveVPs : Sym(w) # s
      BY <2>1, <2>4, <3>1 DEF OneStrategyPerSymbol, Sym, ActiveVPs, TypeOK
    <3> QED
      BY <1>0, <2>1, <2>2, <3>2
  <2>5. CASE s # SymbolOf[Serves[p]]
    <3>1. \A w \in ActiveVPs' : Sym(w)' = s => w \in ActiveVPs /\ w # v
      BY <2>1, <2>3, <2>5 DEF Sym
    <3>2. \A w \in ActiveVPs : w # v /\ Sym(w)' = Sym(w) /\ w \in ActiveVPs'
      BY <2>1, <2>3 DEF Sym, ActiveVPs
    <3> QED
      BY <1>0, <2>1, <2>2, <3>1, <3>2 DEF Dir, ActiveVPs
  <2> QED
    BY <2>4, <2>5
<1>4. ASSUME NEW p \in Procs, EntryFilled(p) PROVE Goal
  <2>0. PICK u \in VPs : u = proc[p].v
    BY <1>4, EntryEffect
  <2>1. /\ u \in VPs /\ st[u] = "opening" /\ xord[u]["entry"] = "none"
        /\ xord'[u]["entry"] = "filled"
        /\ \A w \in VPs : w # u => xord'[w]["entry"] = xord[w]["entry"]
        /\ UNCHANGED <<st, owner, side>>
        /\ \A t \in Symbols \ {Sym(u)} : pos'[t] = pos[t]
        /\ pos'[Sym(u)] = pos[Sym(u)] + Dir(side[u])
    BY <1>4, <2>0, EntryEffect, EntryNotLeg
  <2>2. ~Orphaned(s)
    BY <2>1 DEF Orphaned, Sym
  <2>3. CASE s = Sym(u)
    <3>1. \A w \in ActiveVPs' : Sym(w)' = s => w = u
      BY <2>1, <2>3, OneOnSymbol DEF ActiveVPs, Sym, IInv
    <3>2. pos[s] = 0
      <4>1. u \in ActiveVPs /\ xord[u]["entry"] # "filled"
        BY <2>1 DEF ActiveVPs
      <4> QED
        BY <1>0, <2>2, <2>3, <4>1
    <3>3. pos'[s] = Dir(side[u])
      BY <2>1, <2>3, <3>2 DEF Dir
    <3>4. u \in ActiveVPs' /\ Sym(u)' = s
      BY <2>1, <2>3 DEF ActiveVPs, Sym
    <3>5. side'[u] = side[u] /\ xord'[u]["entry"] = "filled"
      BY <2>1
    <3> QED
      BY <3>1, <3>3, <3>4, <3>5 DEF Dir
  <2>4. CASE s # Sym(u)
    <3>1. ActiveVPs' = ActiveVPs /\ pos'[s] = pos[s] /\ \A w \in ActiveVPs : w \in VPs
      BY <2>1, <2>4 DEF ActiveVPs
    <3>2. \A w \in ActiveVPs : Sym(w)' = Sym(w) /\ Dir(side'[w]) = Dir(side[w])
      BY <2>1 DEF Sym, Dir
    <3>3. \A w \in ActiveVPs : Sym(w) = s => xord'[w]["entry"] = xord[w]["entry"]
      BY <2>1, <2>4, <3>1
    <3> QED
      BY <1>0, <2>2, <3>1, <3>2, <3>3
  <2> QED
    BY <2>3, <2>4
<1>5. ASSUME NEW p \in Procs, OpenCommits(p) PROVE Goal
  <2>1. PICK u \in VPs : u = proc[p].v /\ st[u] = "opening"
    BY <1>5, ProcType DEF OpenCommits, IInv, ProcKnows, KnowsVP, Actors
  <2>2. st'[u] = "open" /\ \A w \in VPs : w # u => st'[w] = st[w]
    BY <1>5, <2>1 DEF OpenCommits, TypeOK
  <2>3. UNCHANGED <<owner, side, xord, pos>>
    BY <1>5 DEF OpenCommits, exVars
  <2>4. ~Orphaned(s) /\ ActiveVPs' = ActiveVPs
    BY <2>1, <2>2, <2>3 DEF Orphaned, ActiveVPs, Sym
  <2> QED
    BY <1>0, <2>3, <2>4 DEF Sym, Dir
<1>6. ASSUME NEW u \in VPs, Voids(u) PROVE Goal
  <2>1. st'[u] = "void" /\ st[u] = "opening" /\ \A w \in VPs : w # u => st'[w] = st[w]
    BY <1>6 DEF Voids, TypeOK
  <2>2. ~Orphaned(s)
    BY <1>6, <2>1 DEF Voids, Orphaned, Sym
  <2>3. CASE s = Sym(u)
    <3>1. xord[u]["entry"] = "none" /\ pos' = pos
      BY <1>6, <2>1, <2>3 DEF Voids, Orphaned, Sym
    <3>2. pos[s] = 0
      BY <1>0, <2>1, <2>2, <2>3, <3>1 DEF ActiveVPs
    <3> QED
      BY <3>1, <3>2
  <2>4. CASE s # Sym(u)
    <3>1. pos'[s] = pos[s] /\ UNCHANGED <<owner, side>>
      BY <1>6, <2>4 DEF Voids
    <3>2. \A w \in VPs : w # u =>
            xord'[w]["entry"] = xord[w]["entry"] /\ (w \in ActiveVPs' <=> w \in ActiveVPs)
      BY <1>6, <2>1 DEF Voids, ActiveVPs
    <3>3. ActiveVPs' \subseteq VPs /\ ActiveVPs \subseteq VPs /\ u \notin ActiveVPs'
      BY <2>1 DEF ActiveVPs
    <3> QED
      BY <1>0, <2>2, <2>4, <3>1, <3>2, <3>3 DEF Sym, Dir
  <2> QED
    BY <2>3, <2>4
<1>7. ASSUME NEW u \in VPs, Closes(u) PROVE Goal
  <2>1. st'[u] = "closed" /\ Committed(u) /\ \A w \in VPs : w # u => st'[w] = st[w]
    BY <1>7 DEF Closes, TypeOK
  <2>2. UNCHANGED <<owner, side, xord, pos>>
    BY <1>7 DEF Closes
  <2>3. ~Orphaned(s)
    BY <2>1, <2>2 DEF Orphaned, Sym, Committed
  <2>4. ActiveVPs' = ActiveVPs \ {u}
    BY <2>1 DEF ActiveVPs
  <2>5. CASE u \in ActiveVPs /\ Sym(u) = s
    BY <1>7, <2>2, <2>3, <2>5 DEF Closes
  <2>6. CASE ~(u \in ActiveVPs /\ Sym(u) = s)
    BY <1>0, <2>2, <2>3, <2>4, <2>6 DEF Sym, Dir
  <2> QED
    BY <2>5, <2>6
<1>8. CASE Crash
  <2>1. /\ UNCHANGED <<owner, side, xord, pos>>
        /\ \A w \in VPs : st'[w] = IF st[w] = "opening" THEN "void" ELSE st[w]
    BY <1>8 DEF Crash, exVars
  <2>2. ~Orphaned(s)
    BY <2>1 DEF Orphaned, Sym
  <2>3. \A w \in ActiveVPs : w \notin ActiveVPs' /\ Sym(w) = s => pos[s] = 0
    BY <1>0, <2>1, <2>2 DEF ActiveVPs, Orphaned, Sym
  <2>4. ActiveVPs' \subseteq ActiveVPs
    BY <2>1 DEF ActiveVPs
  <2> QED
    BY <1>0, <2>1, <2>2, <2>3, <2>4 DEF Sym, Dir
<1> QED
  BY <1>1, <1>2, <1>3, <1>4, <1>5, <1>6, <1>7, <1>8 DEF Effect

----------------------------------------------------------------------------
(* What the goroutines know stays true.                                    *)

LEMMA MoveEffect ==
  ASSUME TypeOK, NEW a \in Actors, NEW l, NEW v, NEW d, NEW S, Move(a, l, v, d, S)
  PROVE  /\ proc'[a].pc = l /\ proc'[a].v = v /\ proc'[a].side = d /\ proc'[a].legs = S
         /\ \A b \in Actors : b # a => proc'[b] = proc[b]
BY DEF TypeOK, Move

LEMMA FinishEffect ==
  ASSUME TypeOK, NEW a \in Actors, Finish(a)
  PROVE  /\ proc'[a].pc = "idle"
         /\ \A b \in Actors : b # a => proc'[b] = proc[b]
BY DEF TypeOK, Finish, IdleProc

LEMMA NextLegEffect ==
  ASSUME TypeOK, NEW a \in Actors, NextLeg(a)
  PROVE  /\ proc'[a].pc = proc[a].pc /\ proc'[a].v = proc[a].v
         /\ \A b \in Actors : b # a => proc'[b] = proc[b]
BY MoveEffect DEF NextLeg

(* A goroutine whose VP a step does not touch.                             *)
LEMMA OtherKnows ==
  ASSUME TypeOK, IInv, NEW b \in Actors, proc'[b] = proc[b],
         NEW v, ~Opens(b, v),
         \A w \in VPs : Committed(w) => Committed(w)',
         \A w \in VPs : w # v => st'[w] = st[w] /\ xord'[w] = xord[w]
  PROVE  KnowsVP(b)'
<1>1. KnowsVP(b)
  BY DEF IInv, ProcKnows
<1>2. proc[b].pc \in {"entry", "legs"} => proc[b].v \in VPs /\ proc[b].v # v
  BY ProcType DEF Opens
<1>3. proc[b].pc \in {"cancel", "tx"} => Committed(proc[b].v)'
  <2> SUFFICES ASSUME proc[b].pc \in {"cancel", "tx"} PROVE Committed(proc[b].v)'
    OBVIOUS
  <2>1. PICK w \in VPs : w = proc[b].v
    BY ProcType
  <2>2. Committed(w)'
    BY <1>1, <2>1 DEF KnowsVP
  <2> QED
    BY <2>1, <2>2 DEF Committed
<1> QED
  BY <1>1, <1>2, <1>3 DEF KnowsVP

(* Nobody else is opening the VP a goroutine works on.                     *)
LEMMA NotOpener ==
  ASSUME TypeOK, IInv, NEW a \in Actors, NEW b \in Actors, b # a,
         proc[a].pc \in {"entry", "legs", "cancel", "tx"}
  PROVE  ~Opens(b, proc[a].v)
<1>1. PICK v \in VPs : v = proc[a].v
  BY ProcType
<1>2. CASE proc[a].pc \in {"entry", "legs"}
  BY <1>1, <1>2 DEF IInv, OneOpener, Opens
<1>3. CASE proc[a].pc \in {"cancel", "tx"}
  BY <1>1, <1>3 DEF IInv, ProcKnows, KnowsVP, Committed, Opens
<1> QED
  BY <1>2, <1>3

LEMMA KnowsStep ==
  ASSUME TypeOK, IInv, Next
  PROVE  ProcKnows'
<1> USE DEF dbVars, rowVars, exVars, hbVars
<1>0. \A w \in VPs : Committed(w) => Committed(w)'
  BY EffectStep, CommittedStays
<1> SUFFICES ASSUME NEW b \in Actors PROVE KnowsVP(b)'
  BY DEF ProcKnows
<1>k. KnowsVP(b)
  BY DEF IInv, ProcKnows
<1>n. ~Opens(b, NoVP)
  BY ProcType, VPFacts DEF Opens
<1>1. ASSUME NEW p \in Procs, NEW k \in Kinds, Load(p, k) PROVE KnowsVP(b)'
  <2>1. /\ proc'[p].pc \in {"insert", "cancel"} /\ p \in Actors
        /\ proc'[p].pc = "cancel" => proc'[p].v \in VPs /\ st[proc'[p].v] = "open"
        /\ \A c \in Actors : c # p => proc'[c] = proc[c]
    BY <1>1, MoveEffect DEF Load, OpenOf, OpenVPs, Actors
  <2>2. st' = st /\ xord' = xord
    BY <1>1 DEF Load
  <2>3. CASE b = p
    BY <1>1, <2>1, <2>2, <2>3 DEF KnowsVP, Committed
  <2>4. CASE b # p
    BY <1>0, <1>n, <2>1, <2>2, <2>4, OtherKnows
  <2> QED
    BY <2>3, <2>4
<1>2. ASSUME NEW a \in Agents, NEW v \in VPs, ExitNow(a, v) PROVE KnowsVP(b)'
  <2>1. /\ proc'[a].pc = "cancel" /\ a \in Actors /\ proc'[a].v = v /\ st[v] = "open"
        /\ \A c \in Actors : c # a => proc'[c] = proc[c]
    BY <1>2, MoveEffect DEF ExitNow, Actors
  <2>2. st' = st /\ xord' = xord
    BY <1>2 DEF ExitNow
  <2>3. CASE b = a
    BY <2>1, <2>2, <2>3 DEF KnowsVP, Committed
  <2>4. CASE b # a
    BY <1>0, <1>n, <2>1, <2>2, <2>4, OtherKnows
  <2> QED
    BY <2>3, <2>4
<1>3. ASSUME NEW p \in Procs, Insert(p) PROVE KnowsVP(b)'
  <2>1. PICK v \in VPs :
           /\ st[v] = "none" /\ st'[v] = "opening"
           /\ Move(p, "entry", v, proc[p].side, {})
           /\ \A w \in VPs : w # v => st'[w] = st[w]
           /\ xord' = xord
    BY <1>3, InsertEffect DEF Move
  <2>2. /\ p \in Actors /\ proc'[p].pc = "entry" /\ proc'[p].v = v
        /\ \A c \in Actors : c # p => proc'[c] = proc[c]
    BY <2>1, MoveEffect DEF Actors
  <2>3. CASE b = p
    <3>1. \A o \in Orders : xord[v][o] = "none"
      BY <2>1 DEF IInv, OrdersHaveRows
    <3> QED
      BY <1>3, <2>1, <2>2, <2>3, <3>1 DEF KnowsVP
  <2>4. CASE b # p
    <3>1. ~Opens(b, v)
      BY <1>k, <2>1 DEF Opens, KnowsVP
    <3> QED
      BY <1>0, <2>1, <2>2, <2>4, <3>1, OtherKnows
  <2> QED
    BY <2>3, <2>4
<1>4. ASSUME NEW p \in Procs, EntryFilled(p) PROVE KnowsVP(b)'
  <2>1. PICK v \in VPs : v = proc[p].v
    BY <1>4, EntryEffect
  <2>2. /\ p \in Actors /\ proc'[p].pc = "legs" /\ proc'[p].v = v
        /\ \A c \in Actors : c # p => proc'[c] = proc[c]
    BY <1>4, <2>1, MoveEffect DEF EntryFilled, Actors
  <2>3. st' = st /\ \A w \in VPs : w # v => xord'[w] = xord[w]
    BY <1>4, <2>1 DEF EntryFilled, TypeOK
  <2>4. CASE b = p
    BY <1>4, <2>1, <2>2, <2>4, EntryEffect DEF KnowsVP
  <2>5. CASE b # p
    <3>1. ~Opens(b, v)
      BY <1>4, <2>1, <2>2, <2>5, NotOpener DEF EntryFilled
    <3> QED
      BY <1>0, <2>2, <2>3, <2>5, <3>1, OtherKnows
  <2> QED
    BY <2>4, <2>5
<1>5. ASSUME NEW p \in Procs, EntryFails(p) \/ LegFails(p) \/ OpenCommitFails(p) PROVE KnowsVP(b)'
  <2>1. p \in Actors /\ proc[p].pc \in {"entry", "legs"} /\ Rollback(p)
    BY <1>5 DEF EntryFails, LegFails, OpenCommitFails, Actors
  <2>2. PICK v \in VPs : v = proc[p].v
    BY <2>1, ProcType
  <2>3. proc'[p].pc = "idle" /\ \A c \in Actors : c # p => proc'[c] = proc[c]
    BY <2>1, FinishEffect DEF Rollback
  <2>4. \A w \in VPs : w # v => st'[w] = st[w]
    BY <2>1, <2>2 DEF Rollback, TypeOK
  <2>5. \A w \in VPs : w # v => xord'[w] = xord[w]
    BY <1>5, <2>2 DEF EntryFails, LegFails, OpenCommitFails, TypeOK
  <2>6. CASE b = p
    BY <2>3, <2>6 DEF KnowsVP
  <2>7. CASE b # p
    <3>1. ~Opens(b, v)
      BY <2>1, <2>2, <2>7, NotOpener
    <3> QED
      BY <1>0, <2>3, <2>4, <2>5, <2>7, <3>1, OtherKnows
  <2> QED
    BY <2>6, <2>7
<1>6. ASSUME NEW p \in Procs, LegPlaced(p) PROVE KnowsVP(b)'
  <2>1. p \in Actors /\ proc[p].pc = "legs" /\ NextLeg(p) /\ proc[p].legs # {}
    BY <1>6 DEF LegPlaced, Actors
  <2>2. PICK v \in VPs : v = proc[p].v
    BY <2>1, ProcType
  <2>3. /\ proc'[p].pc = "legs" /\ proc'[p].v = v
        /\ \A c \in Actors : c # p => proc'[c] = proc[c]
    BY <2>1, <2>2, NextLegEffect
  <2>4. st' = st /\ \A w \in VPs : w # v => xord'[w] = xord[w]
    BY <1>6, <2>2 DEF LegPlaced, TypeOK
  <2>5. CASE b = p
    <3>1. FirstLeg(proc[p].legs) \in Orders /\ FirstLeg(proc[p].legs) # "entry"
      BY <2>1, ProcType, FirstLegIn, EntryNotLeg, LegsAreOrders
    <3>2. xord'[v]["entry"] = xord[v]["entry"]
      BY <1>6, <2>2, <3>1, EntriesStay DEF LegPlaced, EntriesKept
    <3> QED
      BY <1>k, <1>6, <2>1, <2>2, <2>3, <2>4, <2>5, <3>2 DEF KnowsVP
  <2>6. CASE b # p
    <3>1. ~Opens(b, v)
      BY <2>1, <2>2, <2>6, NotOpener
    <3> QED
      BY <1>0, <2>3, <2>4, <2>6, <3>1, OtherKnows
  <2> QED
    BY <2>5, <2>6
<1>7. ASSUME NEW p \in Procs, InsertFails(p) \/ OpenCommits(p) PROVE KnowsVP(b)'
  <2>1. p \in Actors /\ Finish(p) /\ xord' = xord
    BY <1>7 DEF InsertFails, OpenCommits, Actors
  <2>2. proc'[p].pc = "idle" /\ \A c \in Actors : c # p => proc'[c] = proc[c]
    BY <2>1, FinishEffect
  <2>3. CASE b = p
    BY <2>2, <2>3 DEF KnowsVP
  <2>4. CASE b # p /\ InsertFails(p)
    BY <1>0, <1>n, <2>1, <2>2, <2>4, OtherKnows DEF InsertFails
  <2>5. CASE b # p /\ OpenCommits(p)
    <3>1. PICK v \in VPs : v = proc[p].v
      BY <2>1, <2>5, ProcType DEF OpenCommits
    <3>2. ~Opens(b, v)
      BY <2>1, <2>5, <3>1, NotOpener DEF OpenCommits
    <3>3. \A w \in VPs : w # v => st'[w] = st[w]
      BY <2>5, <3>1 DEF OpenCommits, TypeOK
    <3> QED
      BY <1>0, <2>1, <2>2, <2>5, <3>2, <3>3, OtherKnows
  <2> QED
    BY <1>7, <2>3, <2>4, <2>5
<1>8. ASSUME NEW a \in Actors, CloseStep(a) PROVE KnowsVP(b)'
  <2>1. proc[a].pc \in {"cancel", "tx"}
    BY <1>8 DEF CloseStep, CancelLeg, ExitFilled, ExitFails, CloseCommits, CloseCommitFails
  <2>2. PICK v \in VPs : v = proc[a].v
    BY <2>1, ProcType
  <2>3. Committed(v)' /\ (proc[a].pc = "tx" => a \in Procs)
    BY <1>0, <2>1, <2>2 DEF IInv, ProcKnows, KnowsVP
  <2>4. \A w \in VPs : w # v => st'[w] = st[w]
    BY <1>8, <2>2 DEF CloseStep, CancelLeg, ExitFilled, ExitFails, CloseCommits, CloseCommitFails, TypeOK
  <2>5. \A w \in VPs : w # v => xord'[w] = xord[w]
    BY <1>8, <2>2 DEF CloseStep, CancelLeg, CancelOnExchange, ExitFilled, ExitFails,
                      CloseCommits, CloseCommitFails, TypeOK
  <2>6. /\ \A c \in Actors : c # a => proc'[c] = proc[c]
        /\ \/ proc'[a].pc = "idle"
           \/ proc'[a].pc = "insert" /\ proc[a].pc = "tx"
           \/ proc'[a].pc = "cancel" /\ proc'[a].v = v
           \/ proc'[a].pc = "tx" /\ proc'[a].v = v /\ a \notin Agents
    <3>1. CASE CancelLeg(a)
      BY <2>2, <3>1, NextLegEffect DEF CancelLeg
    <3>2. CASE ExitFilled(a)
      BY <2>2, <3>2, MoveEffect, FinishEffect DEF ExitFilled
    <3>3. CASE ExitFails(a) \/ CloseCommitFails(a)
      BY <3>3, FinishEffect DEF ExitFails, CloseCommitFails
    <3>4. CASE CloseCommits(a)
      BY <3>4, MoveEffect, FinishEffect DEF CloseCommits
    <3> QED
      BY <1>8, <3>1, <3>2, <3>3, <3>4 DEF CloseStep
  <2>7. CASE b = a
    BY <2>3, <2>6, <2>7 DEF KnowsVP, Committed, Actors
  <2>8. CASE b # a
    <3>1. ~Opens(b, v)
      BY <2>1, <2>2, <2>8, NotOpener
    <3> QED
      BY <1>0, <2>4, <2>5, <2>6, <2>8, <3>1, OtherKnows
  <2> QED
    BY <2>7, <2>8
<1>9. ASSUME RecNext \/ HbNext PROVE KnowsVP(b)'
  <2>1. proc' = proc /\ xord' = xord
    BY <1>9 DEF RecNext, RecStart, RecSkip, RecDied, RecFill, RecLoad, RecMark, RecHistory,
                HbNext, HbStart, HbFlat, HbNotFlat, HbMark, HbHistory, HbGhosts
  <2>2. CASE st' = st
    BY <1>0, <1>n, <2>1, <2>2, OtherKnows
  <2>3. ASSUME NEW v \in VPs, Committed(v), st' = [st EXCEPT ![v] = "closed"] PROVE KnowsVP(b)'
    <3>1. ~Opens(b, v)
      BY <1>k, <2>3 DEF Opens, KnowsVP, Committed
    <3>2. \A w \in VPs : w # v => st'[w] = st[w]
      BY <2>3 DEF TypeOK
    <3> QED
      BY <1>0, <2>1, <3>1, <3>2, OtherKnows
  <2>4. CASE RecMark
    BY <2>2, <2>3, <2>4, RecType DEF RecMark, IInv, RecKnows
  <2>5. CASE HbMark
    BY <2>2, <2>3, <2>5, HbType DEF HbMark, IInv, HbKnows
  <2>6. ASSUME ~RecMark, ~HbMark PROVE st' = st
    BY <1>9, <2>6 DEF RecNext, RecStart, RecSkip, RecDied, RecFill, RecLoad, RecHistory,
                HbNext, HbStart, HbFlat, HbNotFlat, HbHistory, HbGhosts
  <2> QED
    BY <2>2, <2>4, <2>5, <2>6
<1>10. ASSUME NEW v \in VPs, NEW l \in Legs, LegTriggers(v, l) PROVE KnowsVP(b)'
  <2>1. proc' = proc /\ st' = st /\ xord[v][l] = "live" /\ \A w \in VPs : w # v => xord'[w] = xord[w]
    BY <1>10 DEF LegTriggers, TypeOK
  <2>2. CASE Opens(b, v)
    <3>1. proc[b].pc = "legs" /\ proc[b].v = v
      BY <1>k, <2>1, <2>2, LegsAreOrders DEF Opens, KnowsVP
    <3>2. xord'[v]["entry"] = xord[v]["entry"]
      BY <1>10, EntriesStay, EntryNotLeg, LegsAreOrders DEF LegTriggers, EntriesKept
    <3> QED
      BY <1>k, <2>1, <3>1, <3>2 DEF KnowsVP
  <2>3. CASE ~Opens(b, v)
    BY <1>0, <2>1, <2>3, OtherKnows
  <2> QED
    BY <2>2, <2>3
<1>11. ASSUME NEW s \in Symbols, ManualClose(s) PROVE KnowsVP(b)'
  BY <1>0, <1>n, <1>11, OtherKnows DEF ManualClose
<1>12. ASSUME Crash PROVE KnowsVP(b)'
  BY <1>12 DEF Crash, IdleProc, KnowsVP
<1> QED
  BY <1>1, <1>2, <1>3, <1>4, <1>5, <1>6, <1>7, <1>8, <1>9, <1>10, <1>11, <1>12
  DEF Next, ActorStep, OpenStep

(* A VP gets an opener only when its row is inserted.                      *)
LEMMA OneOpenerStep ==
  ASSUME TypeOK, IInv, Next
  PROVE  OneOpener'
<1> USE DEF dbVars, rowVars, exVars, hbVars
<1>1. ASSUME \A a \in Actors, v \in VPs : Opens(a, v)' => Opens(a, v) PROVE OneOpener'
  BY <1>1 DEF IInv, OneOpener
<1>2. ASSUME NEW p \in Procs, Insert(p) PROVE OneOpener'
  <2>1. PICK v \in VPs :
           st[v] = "none" /\ Move(p, "entry", v, proc[p].side, {})
    BY <1>2, InsertEffect DEF Move
  <2>2. /\ p \in Actors /\ proc'[p].pc = "entry" /\ proc'[p].v = v
        /\ \A c \in Actors : c # p => proc'[c] = proc[c]
    BY <2>1, MoveEffect DEF Actors
  <2>3. \A c \in Actors : ~Opens(c, v)
    BY <2>1 DEF IInv, ProcKnows, KnowsVP, Opens
  <2> QED
    BY <2>2, <2>3 DEF IInv, OneOpener, Opens
<1>3. ASSUME NEW p \in Actors,
             \/ proc'[p].pc \notin {"entry", "legs"}
             \/ proc'[p].pc = "legs" /\ proc[p].pc \in {"entry", "legs"} /\ proc'[p].v = proc[p].v,
             \A b \in Actors : b # p => proc'[b] = proc[b]
      PROVE  OneOpener'
  BY <1>1, <1>3 DEF Opens
<1>4. ASSUME NEW p \in Procs, NEW k \in Kinds, Load(p, k) PROVE OneOpener'
  BY <1>3, <1>4, MoveEffect DEF Load, Actors
<1>5. ASSUME NEW a \in Agents, NEW v \in VPs, ExitNow(a, v) PROVE OneOpener'
  BY <1>3, <1>5, MoveEffect DEF ExitNow, Actors
<1>6. ASSUME NEW p \in Procs, EntryFilled(p) PROVE OneOpener'
  BY <1>3, <1>6, MoveEffect DEF EntryFilled, Actors
<1>7. ASSUME NEW p \in Procs, LegPlaced(p) PROVE OneOpener'
  BY <1>3, <1>7, NextLegEffect DEF LegPlaced, Actors
<1>8. ASSUME NEW p \in Procs,
             \/ InsertFails(p) \/ EntryFails(p) \/ LegFails(p)
             \/ OpenCommits(p) \/ OpenCommitFails(p)
      PROVE OneOpener'
  <2>1. Finish(p) /\ p \in Actors
    BY <1>8 DEF InsertFails, EntryFails, LegFails, OpenCommits, OpenCommitFails, Rollback, Actors
  <2> QED
    BY <1>3, <2>1, FinishEffect
<1>9. ASSUME NEW a \in Actors, CancelLeg(a) PROVE OneOpener'
  BY <1>3, <1>9, NextLegEffect DEF CancelLeg
<1>10. ASSUME NEW a \in Actors, ExitFilled(a) PROVE OneOpener'
  BY <1>3, <1>10, MoveEffect, FinishEffect DEF ExitFilled
<1>11. ASSUME NEW a \in Actors, ExitFails(a) \/ CloseCommitFails(a) PROVE OneOpener'
  BY <1>3, <1>11, FinishEffect DEF ExitFails, CloseCommitFails
<1>12. ASSUME NEW a \in Actors, CloseCommits(a) PROVE OneOpener'
  BY <1>3, <1>12, MoveEffect, FinishEffect DEF CloseCommits
<1>13. CASE UNCHANGED proc
  BY <1>1, <1>13 DEF Opens
<1>14. ASSUME Crash PROVE OneOpener'
  BY <1>1, <1>14 DEF Crash, IdleProc, Opens
<1>15. ASSUME RecNext \/ HbNext PROVE UNCHANGED proc
  BY <1>15 DEF RecNext, RecStart, RecSkip, RecDied, RecFill, RecLoad, RecMark, RecHistory,
               HbNext, HbStart, HbFlat, HbNotFlat, HbMark, HbHistory, HbGhosts
<1>16. ASSUME NEW v \in VPs, NEW l \in Legs, LegTriggers(v, l) PROVE UNCHANGED proc
  BY <1>16 DEF LegTriggers
<1>17. ASSUME NEW s \in Symbols, ManualClose(s) PROVE UNCHANGED proc
  BY <1>17 DEF ManualClose
<1> QED
  BY <1>2, <1>4, <1>5, <1>6, <1>7, <1>8, <1>9, <1>10, <1>11, <1>12, <1>13, <1>14, <1>15,
     <1>16, <1>17
  DEF Next, ActorStep, OpenStep, CloseStep

(* Outside their own actions the Reconciler's and Recovery's variables     *)
(* change only when the process dies.                                      *)
LEMMA OthersKeep ==
  ASSUME Next
  PROVE  /\ UNCHANGED rec \/ RecNext \/ Crash
         /\ UNCHANGED hb \/ HbNext \/ Crash
<1> USE DEF dbVars, rowVars, exVars, hbVars
<1>1. ASSUME NEW p \in Procs, OpenStep(p) PROVE UNCHANGED <<rec, hb>>
  BY <1>1 DEF OpenStep, Insert, InsertFails, EntryFilled, EntryFails, LegPlaced, LegFails,
              OpenCommits, OpenCommitFails, Rollback
<1>2. ASSUME NEW a \in Actors, CloseStep(a) PROVE UNCHANGED <<rec, hb>>
  BY <1>2 DEF CloseStep, CancelLeg, ExitFilled, ExitFails, CloseCommits, CloseCommitFails
<1>3. ASSUME RecNext PROVE UNCHANGED hb
  BY <1>3 DEF RecNext, RecStart, RecSkip, RecDied, RecFill, RecLoad, RecMark, RecHistory
<1>4. ASSUME HbNext PROVE UNCHANGED rec
  BY <1>4 DEF HbNext, HbStart, HbFlat, HbNotFlat, HbMark, HbHistory, HbGhosts
<1> QED
  BY <1>1, <1>2, <1>3, <1>4 DEF Next, ActorStep, Load, ExitNow, LegTriggers, ManualClose

LEMMA RecKnowsStep ==
  ASSUME TypeOK, IInv, Next
  PROVE  RecKnows'
<1>0. \A w \in VPs : Committed(w) => Committed(w)'
  BY EffectStep, CommittedStays
<1>t. /\ \A x \in rec.todo : x[1] \in VPs /\ x[2] \in Legs /\ Committed(x[1])
      /\ rec.pc \in {"load", "mark", "history"} => rec.v \in VPs /\ Committed(rec.v)
  BY RecType DEF IInv, RecKnows
<1>1. ASSUME /\ \A x \in rec'.todo : x[1] \in VPs /\ Committed(x[1])
             /\ rec'.pc \in {"load", "mark", "history"} =>
                  \E w \in VPs : w = rec'.v /\ Committed(w)
      PROVE  RecKnows'
  BY <1>0, <1>1 DEF RecKnows, Committed
<1>2. CASE UNCHANGED rec
  BY <1>1, <1>2, <1>t
<1>3. CASE RecStart
  <2>1. \A x \in rec'.todo : x[1] \in VPs /\ Committed(x[1])
    BY <1>3, ConstantsAssumption DEF RecStart, IInv, OrdersHaveRows
  <2> QED
    BY <1>1, <1>3, <2>1 DEF RecStart
<1>4. ASSUME NEW x \in rec.todo, RecSkip(x) \/ RecDied(x) PROVE RecKnows'
  BY <1>1, <1>4, <1>t DEF RecSkip, RecDied, RecDrop
<1>5. ASSUME NEW x \in rec.todo, RecFill(x) PROVE RecKnows'
  BY <1>1, <1>5, <1>t DEF RecFill
<1>6. CASE RecLoad
  BY <1>1, <1>6, <1>t DEF RecLoad, RecNextOrder
<1>7. CASE RecMark
  BY <1>1, <1>7, <1>t DEF RecMark
<1>8. CASE RecHistory
  BY <1>1, <1>8, <1>t DEF RecHistory, RecNextOrder
<1>9. CASE Crash
  BY <1>9 DEF Crash, IdleRec, RecKnows
<1> QED
  BY <1>2, <1>3, <1>4, <1>5, <1>6, <1>7, <1>8, <1>9, OthersKeep DEF RecNext

LEMMA HbKnowsStep ==
  ASSUME TypeOK, IInv, Next
  PROVE  HbKnows'
<1>0. \A w \in VPs : Committed(w) => Committed(w)'
  BY EffectStep, CommittedStays
<1>t. /\ \A w \in hb.todo : w \in VPs /\ Committed(w)
      /\ hb.pc \in {"mark", "markOnly", "history"} => hb.v \in VPs /\ Committed(hb.v)
  BY HbType DEF IInv, HbKnows
<1>1. ASSUME /\ \A w \in hb'.todo : w \in VPs /\ Committed(w)
             /\ hb'.pc \in {"mark", "markOnly", "history"} =>
                  \E w \in VPs : w = hb'.v /\ Committed(w)
      PROVE  HbKnows'
  BY <1>0, <1>1 DEF HbKnows, Committed
<1>2. CASE UNCHANGED hb
  BY <1>1, <1>2, <1>t
<1>3. CASE HbStart
  BY <1>1, <1>3 DEF HbStart, OpenVPs, Committed
<1>4. ASSUME NEW v \in hb.todo, HbFlat(v) PROVE HbKnows'
  BY <1>1, <1>4, <1>t DEF HbFlat, HbMove
<1>5. ASSUME NEW v \in hb.todo, HbNotFlat(v) PROVE HbKnows'
  BY <1>1, <1>5, <1>t DEF HbNotFlat, HbMove
<1>6. CASE HbMark
  BY <1>1, <1>6, <1>t DEF HbMark, HbMove
<1>7. CASE HbHistory
  BY <1>1, <1>7, <1>t DEF HbHistory, HbMove
<1>8. CASE HbGhosts
  BY <1>8 DEF HbGhosts, IdleHb, HbKnows
<1>9. CASE Crash
  BY <1>9 DEF Crash, IdleHb, HbKnows
<1> QED
  BY <1>2, <1>3, <1>4, <1>5, <1>6, <1>7, <1>8, <1>9, OthersKeep DEF HbNext

(* Orders are placed and cancelled for rows that exist, order rows written *)
(* for rows that are committed.                                            *)
LEMMA OrdersStep ==
  ASSUME TypeOK, IInv, Next
  PROVE  OrdersHaveRows'
<1> USE DEF dbVars, rowVars, exVars, hbVars
<1>0. \A w \in VPs : Committed(w) => Committed(w)'
  BY EffectStep, CommittedStays
<1>1. \A w \in VPs : st'[w] = "none" => st[w] = "none"
  <2> SUFFICES ASSUME NEW w \in VPs, st'[w] = "none", st[w] # "none" PROVE FALSE
    OBVIOUS
  <2>1. CASE Keeps \/ \E s \in Symbols : Flattens(s)
    BY <2>1 DEF Keeps, Flattens
  <2>2. ASSUME NEW p \in Procs, Insert(p) \/ EntryFilled(p) \/ OpenCommits(p) PROVE FALSE
    BY <2>2, InsertEffect, EntryEffect DEF OpenCommits, TypeOK
  <2>3. ASSUME NEW v \in VPs, Voids(v) \/ Closes(v) PROVE FALSE
    BY <2>3 DEF Voids, Closes, TypeOK
  <2>4. CASE Crash
    BY <2>4 DEF Crash
  <2> QED
    BY <2>1, <2>2, <2>3, <2>4, EffectStep DEF Effect
<1>2. ASSUME NEW v \in VPs, st[v] # "none", \A w \in VPs : w # v => xord'[w] = xord[w],
             \A w \in VPs : ord'[w] = ord[w] \/ Committed(w)'
      PROVE  OrdersHaveRows'
  BY <1>0, <1>1, <1>2 DEF IInv, OrdersHaveRows
<1>3. ASSUME xord' = xord, \A w \in VPs : ord'[w] = ord[w] \/ Committed(w)'
      PROVE  OrdersHaveRows'
  BY <1>0, <1>1, <1>3 DEF IInv, OrdersHaveRows
<1>4. ASSUME NEW p \in Procs, NEW k \in Kinds, Load(p, k) PROVE OrdersHaveRows'
  BY <1>3, <1>4 DEF Load
<1>5. ASSUME NEW a \in Agents, NEW v \in VPs, ExitNow(a, v) PROVE OrdersHaveRows'
  BY <1>3, <1>5 DEF ExitNow
<1>6. ASSUME NEW p \in Procs, OpenStep(p) PROVE OrdersHaveRows'
  <2>1. CASE Insert(p) \/ InsertFails(p)
    BY <1>3, <2>1 DEF Insert, InsertFails
  <2>2. CASE OpenCommits(p)
    <3>1. PICK v \in VPs : v = proc[p].v
      BY <2>2, ProcType DEF OpenCommits, Actors
    <3>2. st'[v] = "open" /\ \A w \in VPs : w # v => ord'[w] = ord[w]
      BY <2>2, <3>1 DEF OpenCommits, TypeOK
    <3> QED
      BY <1>3, <2>2, <3>2 DEF OpenCommits, Committed
  <2>3. CASE EntryFilled(p) \/ EntryFails(p) \/ LegPlaced(p) \/ LegFails(p) \/ OpenCommitFails(p)
    <3>1. proc[p].pc \in {"entry", "legs"} /\ p \in Actors
      BY <2>3 DEF EntryFilled, EntryFails, LegPlaced, LegFails, OpenCommitFails, Actors
    <3>2. PICK v \in VPs : v = proc[p].v /\ st[v] = "opening"
      BY <3>1, ProcType DEF IInv, ProcKnows, KnowsVP
    <3>3. ord' = ord /\ \A w \in VPs : w # v => xord'[w] = xord[w]
      BY <2>3, <3>2 DEF EntryFilled, EntryFails, LegPlaced, LegFails, OpenCommitFails, Rollback, TypeOK
    <3> QED
      BY <1>2, <3>2, <3>3
  <2> QED
    BY <1>6, <2>1, <2>2, <2>3 DEF OpenStep
<1>7. ASSUME NEW a \in Actors, CloseStep(a) PROVE OrdersHaveRows'
  <2>1. proc[a].pc \in {"cancel", "tx"}
    BY <1>7 DEF CloseStep, CancelLeg, ExitFilled, ExitFails, CloseCommits, CloseCommitFails
  <2>2. PICK v \in VPs : v = proc[a].v /\ Committed(v)
    BY <2>1, ProcType DEF IInv, ProcKnows, KnowsVP
  <2>3. \A w \in VPs : w # v => xord'[w] = xord[w]
    BY <1>7, <2>2 DEF CloseStep, CancelLeg, CancelOnExchange, ExitFilled, ExitFails,
                      CloseCommits, CloseCommitFails, TypeOK
  <2>4. \A w \in VPs : w # v => ord'[w] = ord[w]
    BY <1>7, <2>2 DEF CloseStep, CancelLeg, MarkOrderCanceled, ExitFilled, ExitFails,
                      CloseCommits, CloseCommitFails, TypeOK
  <2> QED
    BY <1>0, <1>2, <2>2, <2>3, <2>4 DEF Committed
<1>8. ASSUME RecNext PROVE OrdersHaveRows'
  <2>1. xord' = xord
    BY <1>8 DEF RecNext, RecStart, RecSkip, RecDied, RecFill, RecLoad, RecMark, RecHistory
  <2>2. ASSUME NEW x \in rec.todo, RecDied(x) \/ RecFill(x) PROVE OrdersHaveRows'
    <3>1. PICK v \in VPs : v = x[1] /\ Committed(v)
      BY RecType DEF IInv, RecKnows
    <3>2. \A w \in VPs : w # v => ord'[w] = ord[w]
      BY <2>2, <3>1 DEF RecDied, RecFill, TypeOK
    <3> QED
      BY <1>0, <1>3, <2>1, <3>1, <3>2
  <2>3. ASSUME ~\E x \in rec.todo : RecDied(x) \/ RecFill(x) PROVE ord' = ord
    BY <1>8, <2>3 DEF RecNext, RecStart, RecSkip, RecLoad, RecMark, RecHistory
  <2> QED
    BY <1>3, <2>1, <2>2, <2>3
<1>9. ASSUME HbNext PROVE OrdersHaveRows'
  <2>1. xord' = xord
    BY <1>9 DEF HbNext, HbStart, HbFlat, HbNotFlat, HbMark, HbHistory, HbGhosts
  <2>2. ASSUME NEW v \in hb.todo, HbFlat(v) PROVE OrdersHaveRows'
    <3>1. v \in VPs /\ Committed(v)
      BY HbType DEF IInv, HbKnows
    <3>2. \A w \in VPs : w # v => ord'[w] = ord[w]
      BY <2>2, <3>1 DEF HbFlat, SyncFilledLeg, TypeOK
    <3> QED
      BY <1>0, <1>3, <2>1, <3>1, <3>2
  <2>3. ASSUME ~\E v \in hb.todo : HbFlat(v) PROVE ord' = ord
    BY <1>9, <2>3 DEF HbNext, HbStart, HbNotFlat, HbMark, HbHistory, HbGhosts
  <2> QED
    BY <1>3, <2>1, <2>2, <2>3
<1>10. ASSUME NEW v \in VPs, NEW l \in Legs, LegTriggers(v, l) PROVE OrdersHaveRows'
  <2>1. ord' = ord /\ xord[v][l] = "live" /\ \A w \in VPs : w # v => xord'[w] = xord[w]
    BY <1>10 DEF LegTriggers, TypeOK
  <2>2. st[v] # "none"
    BY <2>1, LegsAreOrders DEF IInv, OrdersHaveRows
  <2> QED
    BY <1>2, <2>1, <2>2
<1>11. ASSUME NEW s \in Symbols, ManualClose(s) PROVE OrdersHaveRows'
  BY <1>3, <1>11 DEF ManualClose
<1>12. CASE Crash
  BY <1>3, <1>12 DEF Crash
<1> QED
  BY <1>4, <1>5, <1>6, <1>7, <1>8, <1>9, <1>10, <1>11, <1>12
  DEF Next, ActorStep

(* A step that makes somebody ready to close a VP leaves its symbol flat.  *)
LEMMA ClosingEffect ==
  ASSUME TypeOK, IInv, Next, NEW v \in VPs, Closing(v)', ~Closing(v),
         ~Orphaned(Sym(v))
  PROVE  pos'[Sym(v)] = 0
<1> USE DEF dbVars, rowVars, exVars, hbVars
<1>1. Sym(v) \in Symbols
  BY SymType
<1>2. ASSUME \A a \in Actors : proc'[a].pc = "tx" /\ proc'[a].v = v =>
                proc[a].pc = "tx" /\ proc[a].v = v,
             UNCHANGED <<rec, hb>> \/ Crash,
             \A l \in Legs : xord'[v][l] = "filled" => xord[v][l] = "filled"
      PROVE  FALSE
  BY <1>2 DEF Closing, Crash, IdleRec, IdleHb
<1>3. ASSUME NEW p \in Procs, NEW k \in Kinds, Load(p, k) PROVE FALSE
  BY <1>2, <1>3, MoveEffect DEF Load, Actors
<1>4. ASSUME NEW a \in Agents, NEW w \in VPs, ExitNow(a, w) PROVE FALSE
  BY <1>2, <1>4, MoveEffect DEF ExitNow, Actors
<1>5. ASSUME NEW p \in Procs, OpenStep(p) PROVE FALSE
  <2>1. p \in Actors /\ UNCHANGED <<rec, hb>>
    BY <1>5 DEF OpenStep, Insert, InsertFails, EntryFilled, EntryFails, LegPlaced, LegFails,
                OpenCommits, OpenCommitFails, Rollback, Actors
  <2>2. \A a \in Actors : proc'[a].pc = "tx" /\ proc'[a].v = v => proc[a].pc = "tx" /\ proc[a].v = v
    <3>1. CASE Insert(p)
      BY <2>1, <3>1, MoveEffect DEF Insert
    <3>2. CASE EntryFilled(p)
      BY <2>1, <3>2, MoveEffect DEF EntryFilled
    <3>3. CASE LegPlaced(p)
      BY <2>1, <3>3, NextLegEffect DEF LegPlaced
    <3>4. CASE Finish(p)
      BY <2>1, <3>4, FinishEffect
    <3> QED
      BY <1>5, <3>1, <3>2, <3>3, <3>4
      DEF OpenStep, InsertFails, EntryFails, LegFails, OpenCommits, OpenCommitFails, Rollback
  <2>3. CASE proc[p].pc = "insert"
    <3>1. xord' = xord
      BY <1>5, <2>3 DEF OpenStep, Insert, InsertFails, EntryFilled, EntryFails, LegPlaced,
                        LegFails, OpenCommits, OpenCommitFails
    <3> QED
      BY <1>2, <2>1, <2>2, <3>1
  <2>4. CASE proc[p].pc \in {"entry", "legs"}
    <3>1. PICK w \in VPs : w = proc[p].v
      BY <2>1, <2>4, ProcType
    <3>2. \/ xord' = xord
          \/ xord' = [xord EXCEPT ![w]["entry"] = "filled"]
          \/ \E l \in Legs : xord' = [xord EXCEPT ![w][l] = "live"]
      BY <1>5, <2>1, <2>4, <3>1, ProcType, FirstLegIn
      DEF OpenStep, Insert, InsertFails, EntryFilled, EntryFails, LegPlaced,
          LegFails, OpenCommits, OpenCommitFails
    <3>3. CASE xord' = [xord EXCEPT ![w]["entry"] = "filled"]
      <4>1. \A l \in Legs : xord'[v][l] = xord[v][l]
        BY <3>3, EntryWritten, EntryNotLeg, LegsAreOrders
      <4> QED
        BY <1>2, <2>1, <2>2, <4>1
    <3>4. ASSUME NEW l \in Legs, xord' = [xord EXCEPT ![w][l] = "live"] PROVE FALSE
      <4>1. \A k \in Legs : xord'[v][k] = "filled" => xord[v][k] = "filled"
        BY <3>4, OrderChanged, LegsAreOrders
      <4> QED
        BY <1>2, <2>1, <2>2, <4>1
    <3> QED
      BY <1>2, <2>1, <2>2, <3>2, <3>3, <3>4
  <2> QED
    BY <1>5, <2>3, <2>4 DEF OpenStep, Insert, InsertFails, EntryFilled, EntryFails, LegPlaced,
                            LegFails, OpenCommits, OpenCommitFails
<1>6. ASSUME NEW a \in Actors, CancelLeg(a) PROVE FALSE
  <2>1. PICK w \in VPs : w = proc[a].v
    BY <1>6, ProcType DEF CancelLeg
  <2>2. PICK l \in Legs : l = FirstLeg(proc[a].legs)
    BY <1>6, ProcType, FirstLegIn DEF CancelLeg
  <2>3. xord' = xord \/ xord' = [xord EXCEPT ![w][l] = "canceled"]
    BY <1>6, <2>1, <2>2 DEF CancelLeg, CancelOnExchange
  <2>4. \A k \in Legs : xord'[v][k] = "filled" => xord[v][k] = "filled"
    BY <2>3, OrderChanged, LegsAreOrders
  <2> QED
    BY <1>2, <1>6, <2>4, NextLegEffect DEF CancelLeg
<1>7. ASSUME NEW a \in Actors, ExitFilled(a) PROVE pos'[Sym(v)] = 0
  <2>1. PICK w \in VPs : w = proc[a].v
    BY <1>7, ProcType DEF ExitFilled
  <2>2. CASE w = v
    BY <1>7, <2>1, <2>2, ReduceFlattens DEF ExitFilled, IInv
  <2>3. CASE w # v
    <3>1. xord'[v] = xord[v]
      BY <1>7, <2>1, <2>3 DEF ExitFilled, TypeOK
    <3>2. \A b \in Actors : proc'[b].pc = "tx" /\ proc'[b].v = v => proc[b].pc = "tx" /\ proc[b].v = v
      BY <1>7, <2>1, <2>3, MoveEffect, FinishEffect DEF ExitFilled
    <3> QED
      BY <1>2, <1>7, <3>1, <3>2 DEF ExitFilled
  <2> QED
    BY <2>2, <2>3
<1>8. ASSUME NEW a \in Actors, ExitFails(a) PROVE FALSE
  <2>1. PICK w \in VPs : w = proc[a].v
    BY <1>8, ProcType DEF ExitFails
  <2>2. xord' = xord \/ xord' = [xord EXCEPT ![w][ExitOrder(a)] = "filled"]
    BY <1>8, <2>1 DEF ExitFails
  <2>3. \A k \in Legs : xord'[v][k] = xord[v][k]
    BY <2>2, OrderChanged, LegsAreOrders, ExitOrderType
  <2> QED
    BY <1>2, <1>8, <2>3, FinishEffect DEF ExitFails
<1>9. ASSUME NEW a \in Actors, CloseCommits(a) \/ CloseCommitFails(a) PROVE FALSE
  BY <1>2, <1>9, MoveEffect, FinishEffect DEF CloseCommits, CloseCommitFails
<1>10. ASSUME RecNext PROVE FALSE
  <2>1. proc' = proc /\ hb' = hb /\ xord' = xord
    BY <1>10 DEF RecNext, RecStart, RecSkip, RecDied, RecFill, RecLoad, RecMark, RecHistory
  <2>2. rec'.pc \in {"load", "mark"} /\ rec'.v = v
    BY <2>1 DEF Closing
  <2>3. CASE RecLoad \/ RecMark \/ RecHistory \/ RecStart
    BY <2>2, <2>3 DEF RecLoad, RecMark, RecHistory, RecStart, RecNextOrder, Closing
  <2>4. ASSUME NEW x \in rec.todo, RecSkip(x) \/ RecDied(x) PROVE FALSE
    BY <2>2, <2>4 DEF RecSkip, RecDied, RecDrop
  <2>5. ASSUME NEW x \in rec.todo, RecFill(x) PROVE FALSE
    <3>1. x[2] \in Legs /\ x[1] = v
      BY <2>2, <2>5, RecType DEF RecFill
    <3> QED
      BY <2>5, <3>1 DEF RecFill, Closing
  <2> QED
    BY <1>10, <2>3, <2>4, <2>5 DEF RecNext
<1>11. ASSUME HbNext PROVE pos'[Sym(v)] = 0
  <2>1. proc' = proc /\ rec' = rec /\ xord' = xord /\ pos' = pos
    BY <1>11 DEF HbNext, HbStart, HbFlat, HbNotFlat, HbMark, HbHistory, HbGhosts
  <2>2. hb'.pc \in {"mark", "markOnly"} /\ hb'.v = v
    BY <2>1 DEF Closing
  <2>3. CASE HbStart \/ HbMark \/ HbHistory \/ HbGhosts
    BY <2>2, <2>3 DEF HbStart, HbMark, HbHistory, HbGhosts, HbMove, IdleHb
  <2>4. ASSUME NEW w \in hb.todo, HbNotFlat(w) PROVE FALSE
    BY <2>2, <2>4 DEF HbNotFlat, HbMove
  <2>5. ASSUME NEW w \in hb.todo, HbFlat(w) PROVE pos'[Sym(v)] = 0
    BY <2>1, <2>2, <2>5 DEF HbFlat, HbMove
  <2> QED
    BY <1>11, <2>3, <2>4, <2>5 DEF HbNext
<1>12. ASSUME NEW w \in VPs, NEW l \in Legs, LegTriggers(w, l) PROVE pos'[Sym(v)] = 0
  <2>1. CASE w = v /\ CanReduce(v)
    BY <1>12, <2>1, ReduceFlattens DEF LegTriggers, IInv
  <2>2. CASE ~(w = v /\ CanReduce(v))
    <3>1. \A k \in Legs : xord'[v][k] = "filled" => xord[v][k] = "filled"
      BY <1>12, <2>2, OrderChanged, LegsAreOrders DEF LegTriggers
    <3> QED
      BY <1>2, <1>12, <3>1 DEF LegTriggers
  <2> QED
    BY <2>1, <2>2
<1>13. ASSUME NEW s \in Symbols, ManualClose(s) PROVE FALSE
  BY <1>2, <1>13 DEF ManualClose
<1>14. ASSUME Crash PROVE FALSE
  BY <1>2, <1>14 DEF Crash, IdleProc
<1> QED
  BY <1>3, <1>4, <1>5, <1>6, <1>7, <1>8, <1>9, <1>10, <1>11, <1>12, <1>13, <1>14
  DEF Next, ActorStep, CloseStep

LEMMA OrphanStays ==
  ASSUME TypeOK, IInv, Effect, NEW s \in Symbols, Orphaned(s)
  PROVE  Orphaned(s)'
<1>1. PICK v \in VPs : Sym(v) = s /\ st[v] = "void" /\ xord[v]["entry"] = "filled"
  BY DEF Orphaned
<1>2. st'[v] = "void" /\ owner'[v] = owner[v] /\ xord'[v]["entry"] = "filled"
  <2>1. CASE Keeps \/ \E t \in Symbols : Flattens(t)
    BY <1>1, <2>1 DEF Keeps, Flattens, EntriesKept
  <2>2. ASSUME NEW p \in Procs, Insert(p) \/ EntryFilled(p)
        PROVE  st'[v] = "void" /\ owner'[v] = owner[v] /\ xord'[v]["entry"] = "filled"
    BY <1>1, <2>2, InsertEffect, EntryEffect, EntryNotLeg
  <2>3. ASSUME NEW p \in Procs, OpenCommits(p)
        PROVE  st'[v] = "void" /\ owner'[v] = owner[v] /\ xord'[v]["entry"] = "filled"
    <3>1. PICK u \in VPs : u = proc[p].v /\ st[u] = "opening"
      BY <2>3, ProcType DEF OpenCommits, IInv, ProcKnows, KnowsVP, Actors
    <3> QED
      BY <1>1, <2>3, <3>1 DEF OpenCommits, TypeOK, exVars
  <2>4. ASSUME NEW u \in VPs, Voids(u) \/ Closes(u)
        PROVE  st'[v] = "void" /\ owner'[v] = owner[v] /\ xord'[v]["entry"] = "filled"
    BY <1>1, <2>4 DEF Voids, Closes, Committed, TypeOK
  <2>5. CASE Crash
    BY <1>1, <2>5 DEF Crash, exVars
  <2> QED
    BY <2>1, <2>2, <2>3, <2>4, <2>5 DEF Effect
<1> QED
  BY <1>1, <1>2 DEF Orphaned, Sym

(* An active VP was active before, or has just been inserted.              *)
LEMMA ActiveBefore ==
  ASSUME TypeOK, IInv, Effect, NEW v \in VPs, st'[v] \in {"opening", "open"}
  PROVE  \/ v \in ActiveVPs /\ owner'[v] = owner[v]
         \/ xord'[v]["entry"] # "filled"
<1>1. CASE Keeps \/ \E s \in Symbols : Flattens(s)
  BY <1>1 DEF Keeps, Flattens, ActiveVPs
<1>2. ASSUME NEW p \in Procs, Insert(p)
      PROVE  (v \in ActiveVPs /\ owner'[v] = owner[v]) \/ xord'[v]["entry"] # "filled"
  <2>1. \A w \in VPs : st[w] = "none" => xord[w]["entry"] = "none"
    BY EntryNotLeg DEF IInv, OrdersHaveRows
  <2> QED
    BY <1>2, <2>1, InsertEffect DEF ActiveVPs
<1>3. ASSUME NEW p \in Procs, EntryFilled(p)
      PROVE  v \in ActiveVPs /\ owner'[v] = owner[v]
  BY <1>3, EntryEffect DEF ActiveVPs
<1>4. ASSUME NEW p \in Procs, OpenCommits(p)
      PROVE  v \in ActiveVPs /\ owner'[v] = owner[v]
  <2>1. PICK u \in VPs : u = proc[p].v /\ st[u] = "opening"
    BY <1>4, ProcType DEF OpenCommits, IInv, ProcKnows, KnowsVP, Actors
  <2> QED
    BY <1>4, <2>1 DEF OpenCommits, TypeOK, ActiveVPs
<1>5. ASSUME NEW u \in VPs, Voids(u) \/ Closes(u)
      PROVE  v \in ActiveVPs /\ owner'[v] = owner[v]
  BY <1>5 DEF Voids, Closes, TypeOK, ActiveVPs
<1>6. CASE Crash
  BY <1>6 DEF Crash, ActiveVPs
<1> QED
  BY <1>1, <1>2, <1>3, <1>4, <1>5, <1>6 DEF Effect

(* A symbol flat under an active VP that is being closed stays flat.       *)
LEMMA FlatStays ==
  ASSUME OneStrategyPerSymbol, TypeOK, IInv, Effect, NEW v \in ActiveVPs, Closing(v),
         st'[v] \in {"opening", "open"}, pos[Sym(v)] = 0, ~Orphaned(Sym(v))
  PROVE  pos'[Sym(v)] = 0
<1>1. v \in VPs /\ Sym(v) \in Symbols
  BY SymType DEF ActiveVPs
<1>2. CASE Keeps \/ \E s \in Symbols : Flattens(s)
  BY <1>1, <1>2 DEF Keeps, Flattens
<1>3. ASSUME NEW p \in Procs, Insert(p) \/ OpenCommits(p) PROVE pos'[Sym(v)] = 0
  BY <1>3, InsertEffect DEF OpenCommits, exVars
<1>4. ASSUME NEW p \in Procs, EntryFilled(p) PROVE pos'[Sym(v)] = 0
  <2>1. PICK u \in VPs : u = proc[p].v /\ st[u] = "opening"
    BY <1>4, EntryEffect
  <2>2. CASE u = v
    <3>1. \A o \in Orders : xord[v][o] = "none"
      BY <1>4, <2>1, <2>2 DEF EntryFilled, IInv, ProcKnows, KnowsVP, Actors
    <3>2. ~Committed(v)
      BY <2>1, <2>2 DEF Committed
    <3> QED
      BY <3>1, <3>2, LegsAreOrders DEF Closing, IInv, ProcKnows, KnowsVP, RecKnows, HbKnows
  <2>3. CASE u # v
    <3>1. Sym(u) # Sym(v)
      BY <2>1, <2>3, OneOnSymbol DEF ActiveVPs, IInv
    <3> QED
      BY <1>1, <1>4, <2>1, <3>1, EntryEffect
  <2> QED
    BY <2>2, <2>3
<1>5. ASSUME NEW u \in VPs, Voids(u) PROVE pos'[Sym(v)] = 0
  <2>1. u # v /\ u \in ActiveVPs
    BY <1>1, <1>5 DEF Voids, TypeOK, ActiveVPs
  <2>2. Sym(u) # Sym(v)
    BY <2>1, OneOnSymbol DEF IInv
  <2> QED
    BY <1>1, <1>5, <2>2 DEF Voids
<1>6. ASSUME NEW u \in VPs, Closes(u) PROVE pos'[Sym(v)] = 0
  BY <1>6 DEF Closes
<1>7. CASE Crash
  BY <1>7 DEF Crash, exVars
<1> QED
  BY <1>2, <1>3, <1>4, <1>5, <1>6, <1>7 DEF Effect

LEMMA ClosingStep ==
  ASSUME OneStrategyPerSymbol, TypeOK, TypeOK', IInv, Next, PosMatches'
  PROVE  ClosingIsFlat'
<1>0. Effect
  BY EffectStep
<1>t. \A v \in VPs : SymbolOf[owner'[v]] \in Symbols
  BY ConstantsAssumption DEF TypeOK
<1> SUFFICES ASSUME NEW v \in VPs, NEW s \in Symbols, s = SymbolOf[owner'[v]],
                    st'[v] \in {"opening", "open"}, Closing(v)', ~Orphaned(s)'
             PROVE  pos'[s] = 0
  BY <1>t DEF ClosingIsFlat, ActiveVPs, Sym, Orphaned
<1>1. CASE xord'[v]["entry"] # "filled"
  BY <1>1 DEF PosMatches, ActiveVPs, Sym
<1>2. CASE v \in ActiveVPs /\ owner'[v] = owner[v]
  <2>1. s = Sym(v)
    BY <1>2 DEF Sym
  <2>2. ~Orphaned(Sym(v))
    <3>1. ~Orphaned(s)
      BY <1>0, OrphanStays
    <3> QED
      BY <2>1, <3>1
  <2>3. CASE Closing(v)
    <3>1. pos[Sym(v)] = 0
      BY <1>2, <2>2, <2>3 DEF IInv, ClosingIsFlat
    <3> QED
      BY <1>0, <1>2, <2>1, <2>2, <2>3, <3>1, FlatStays
  <2>4. CASE ~Closing(v)
    BY <2>1, <2>2, <2>4, ClosingEffect
  <2> QED
    BY <2>3, <2>4
<1> QED
  BY <1>0, <1>1, <1>2, ActiveBefore

----------------------------------------------------------------------------
(* The theorem.                                                            *)

LEMMA IInvInit == ASSUME Init PROVE IInv
<1>1. ActiveVPs = {}
  BY DEF Init, ActiveVPs
<1>2. PosMatches
  BY <1>1 DEF Init, PosMatches
<1>3. ProcKnows /\ OneOpener
  BY DEF Init, IdleProc, ProcKnows, KnowsVP, OneOpener, Opens
<1>4. RecKnows /\ HbKnows
  BY DEF Init, IdleRec, IdleHb, RecKnows, HbKnows
<1>5. OrdersHaveRows
  BY DEF Init, OrdersHaveRows
<1> QED
  BY <1>1, <1>2, <1>3, <1>4, <1>5 DEF IInv, OneActive, ClosingIsFlat

LEMMA IInvStep ==
  ASSUME OneStrategyPerSymbol, TypeOK, IInv, [Next]_vars
  PROVE  IInv'
<1>1. CASE Next
  <2>1. TypeOK' /\ Effect
    BY <1>1, TypeStep, EffectStep
  <2>2. PosMatches'
    BY <2>1, PosMatchesStep
  <2> QED
    BY <1>1, <2>1, <2>2, OneActiveStep, KnowsStep, OneOpenerStep, RecKnowsStep, HbKnowsStep,
       OrdersStep, ClosingStep DEF IInv
<1>2. CASE UNCHANGED vars
  BY <1>2 DEF vars, dbVars, exVars, hbVars, IInv, OneActive, ActiveVPs, ProcKnows, KnowsVP,
              Committed, OneOpener, Opens, RecKnows, HbKnows, OrdersHaveRows, PosMatches,
              Orphaned, Sym, Dir, ClosingIsFlat, Closing
<1> QED
  BY <1>1, <1>2

(* The invariant says who owns the exposure.                               *)
LEMMA OwnerKnown == ASSUME PosMatches PROVE ExposureHasOwner
BY DEF PosMatches, ExposureHasOwner

(* Exposure has an owner in every reachable state: no interleaving of      *)
(* ClosePosition, ExitNow, the Reconciler, Recovery, the exchange, faults  *)
(* and crashes marks a VP closed that still has exposure, as long as each  *)
(* symbol is traded by one strategy.                                       *)
THEOREM ExposureOwned == OneStrategyPerSymbol => (Spec => []ExposureHasOwner)
<1> SUFFICES ASSUME OneStrategyPerSymbol PROVE Spec => []ExposureHasOwner
  OBVIOUS
<1>1. Init => TypeOK /\ IInv
  BY TypeInit, IInvInit
<1>2. TypeOK /\ IInv /\ [Next]_vars => (TypeOK /\ IInv)'
  BY TypeStep, IInvStep
<1>3. IInv => ExposureHasOwner
  BY OwnerKnown DEF IInv
<1> QED
  BY <1>1, <1>2, <1>3, PTL DEF Spec

----------------------------------------------------------------------------
(* Protected.                                                              *)

(* The adapter as it is built sends no cancel of a leg where the leg is.   *)
LEMMA NoneRouted == RoutedAsBuilt = {}
BY ConstantsAssumption DEF RoutedAsBuilt, ClientPrefix, AlgoPrefixes

(* As long as the exposure of an active VP stands, so do its legs: all of  *)
(* an open one, those already placed of one that is being opened.          *)
LegsStand(v, S) == \A l \in Legs \ S : xord[v][l] = "live"
GuardedAt(v) ==
  ~Orphaned(Sym(v)) /\ pos[Sym(v)] = Dir(side[v]) =>
    /\ st[v] = "open" => LegsStand(v, {})
    /\ \A a \in Actors : proc[a].pc = "legs" /\ proc[a].v = v => LegsStand(v, proc[a].legs)
Guarded == \A v \in VPs : GuardedAt(v)

LegsKept(v) == \A l \in Legs : xord'[v][l] = xord[v][l]

(* A step that gives the VP no new exposure and no new goroutine.          *)
LEMMA GuardFollows ==
  ASSUME TypeOK, IInv, Effect, Guarded, NEW v \in VPs, owner'[v] = owner[v], side'[v] = side[v],
         pos'[Sym(v)] = pos[Sym(v)], LegsKept(v),
         st'[v] = "open" => st[v] = "open",
         \A a \in Actors : proc'[a].pc = "legs" /\ proc'[a].v = v => proc'[a] = proc[a]
  PROVE  GuardedAt(v)'
<1>1. Sym(v)' = Sym(v) /\ Sym(v) \in Symbols
  BY SymType DEF Sym
<1>2. Orphaned(Sym(v)) => Orphaned(Sym(v))'
  <2>1. PICK s \in Symbols : s = Sym(v)
    BY <1>1
  <2>2. Orphaned(s) => Orphaned(s)'
    BY OrphanStays
  <2>3. Orphaned(Sym(v))' <=> Orphaned(s)'
    BY <1>1, <2>1 DEF Orphaned
  <2> QED
    BY <2>1, <2>2, <2>3
<1>3. \A S : LegsStand(v, S) => LegsStand(v, S)'
  BY DEF LegsStand, LegsKept
<1>4. pos'[Sym(v)'] = pos[Sym(v)] /\ Dir(side'[v]) = Dir(side[v])
  BY <1>1
<1>5. \A a \in Actors : proc'[a].pc = "legs" /\ proc'[a].v = v =>
        proc[a].pc = "legs" /\ proc[a].v = v /\ proc'[a].legs = proc[a].legs
  OBVIOUS
<1>6. GuardedAt(v)
  BY DEF Guarded
<1> SUFFICES ASSUME ~Orphaned(Sym(v)), pos[Sym(v)] = Dir(side[v])
             PROVE  /\ st'[v] = "open" => \A l \in Legs : xord'[v][l] = "live"
                    /\ \A a \in Actors : proc'[a].pc = "legs" /\ proc'[a].v = v =>
                         \A l \in Legs \ proc'[a].legs : xord'[v][l] = "live"
  BY <1>2, <1>4 DEF GuardedAt, LegsStand
<1>7. st[v] = "open" => \A l \in Legs : xord[v][l] = "live"
  BY <1>6 DEF GuardedAt, LegsStand
<1>8. \A a \in Actors : proc[a].pc = "legs" /\ proc[a].v = v =>
        \A l \in Legs \ proc[a].legs : xord[v][l] = "live"
  BY <1>6 DEF GuardedAt, LegsStand
<1> QED
  BY <1>5, <1>7, <1>8 DEF LegsKept

(* A VP whose symbol is flat needs no legs.                                *)
LEMMA FlatIsGuarded ==
  ASSUME NEW v \in VPs, ~Orphaned(Sym(v))' => pos'[Sym(v)'] = 0
  PROVE  GuardedAt(v)'
BY DEF GuardedAt, Dir

(* A VP that is neither open nor being opened needs none either.           *)
LEMMA UnusedIsGuarded ==
  ASSUME NEW v \in VPs, st'[v] # "open", \A a \in Actors : proc'[a].pc = "legs" => proc'[a].v # v
  PROVE  GuardedAt(v)'
BY DEF GuardedAt

(* A reduce-only order that fills leaves the symbol flat.                  *)
LEMMA GuardReduced ==
  ASSUME TypeOK, IInv, Effect, Guarded, NEW w \in VPs, CanReduce(w), Reduce(w),
         UNCHANGED <<st, owner, side>>,
         \A v \in VPs \ {w} : LegsKept(v),
         \A a \in Actors : proc'[a].pc = "legs" => proc'[a] = proc[a]
  PROVE  Guarded'
<1>1. /\ ~Orphaned(Sym(w)) => pos'[Sym(w)] = 0
      /\ \A t \in Symbols \ {Sym(w)} : pos'[t] = pos[t]
  BY ReduceFlattens DEF IInv
<1> SUFFICES ASSUME NEW v \in VPs PROVE GuardedAt(v)'
  BY DEF Guarded
<1>2. Sym(v)' = Sym(v) /\ Sym(v) \in Symbols
  BY SymType DEF Sym
<1>3. CASE Sym(v) = Sym(w)
  <2>1. PICK s \in Symbols : s = Sym(v)
    BY <1>2
  <2>2. Orphaned(s) => Orphaned(s)'
    BY OrphanStays
  <2>3. Orphaned(Sym(v))' <=> Orphaned(s)'
    BY <1>2, <2>1 DEF Orphaned
  <2> QED
    BY <1>1, <1>2, <1>3, <2>1, <2>2, <2>3, FlatIsGuarded
<1>4. CASE Sym(v) # Sym(w)
  BY <1>1, <1>2, <1>4, GuardFollows
<1> QED
  BY <1>3, <1>4

(* OpenPosition gives up: with its exposure the symbol has an orphan.      *)
LEMMA GuardVoided ==
  ASSUME OneStrategyPerSymbol, TypeOK, IInv, Effect, Guarded, NEW p \in Procs,
         proc[p].pc \in {"entry", "legs"}, Voids(proc[p].v), Finish(p),
         \A v \in VPs \ {proc[p].v} : LegsKept(v)
  PROVE  Guarded'
<1>1. PICK u \in VPs : u = proc[p].v
  BY ProcType DEF Actors
<1>2. proc'[p].pc = "idle" /\ \A a \in Actors : a # p => proc'[a] = proc[a]
  BY FinishEffect DEF Actors
<1>3. st[u] = "opening" /\ st' = [st EXCEPT ![u] = "void"] /\ UNCHANGED <<owner, side>>
  BY <1>1 DEF Voids
<1> SUFFICES ASSUME NEW v \in VPs PROVE GuardedAt(v)'
  BY DEF Guarded
<1>4. CASE v = u
  <2>1. \A a \in Actors : proc'[a].pc = "legs" => proc'[a].v # u
    BY <1>1, <1>2, NotOpener DEF Opens, Actors
  <2>2. st'[u] = "void"
    BY <1>3 DEF TypeOK
  <2> QED
    BY <1>4, <2>1, <2>2, UnusedIsGuarded
<1>5. CASE v # u
  <2>1. Sym(v)' = Sym(v) /\ Sym(v) \in Symbols /\ st'[v] = st[v]
    BY <1>3, <1>5, SymType DEF Sym, TypeOK
  <2>2. CASE Sym(v) # Sym(u)
    BY <1>1, <1>2, <1>3, <1>5, <2>1, <2>2, GuardFollows DEF Voids
  <2>3. CASE Sym(v) = Sym(u)
    <3>1. v \notin ActiveVPs
      BY <1>3, <1>5, <2>3, OneOnSymbol DEF IInv, ActiveVPs
    <3>2. \A a \in Actors : proc[a].pc = "legs" => proc[a].v # v
      BY <3>1 DEF IInv, ProcKnows, KnowsVP, ActiveVPs
    <3> QED
      BY <1>2, <2>1, <3>1, <3>2, UnusedIsGuarded DEF ActiveVPs
  <2> QED
    BY <2>2, <2>3
<1> QED
  BY <1>4, <1>5

(* A step that touches neither exposure nor legs.                          *)
LEMMA GuardQuiet ==
  ASSUME TypeOK, IInv, Effect, Guarded, UNCHANGED <<owner, side, pos>>,
         \A v \in VPs : LegsKept(v) /\ (st'[v] = "open" => st[v] = "open"),
         \A a \in Actors : proc'[a].pc = "legs" => proc'[a] = proc[a]
  PROVE  Guarded'
<1> SUFFICES ASSUME NEW v \in VPs PROVE GuardedAt(v)'
  BY DEF Guarded
<1> QED
  BY GuardFollows

LEMMA GuardInsert ==
  ASSUME TypeOK, IInv, Effect, Guarded, NEW p \in Procs, Insert(p)
  PROVE  Guarded'
<1>1. PICK u \in VPs :
        /\ st[u] = "none" /\ st'[u] = "opening"
        /\ proc' = [proc EXCEPT ![p] = [pc |-> "entry", v |-> u, side |-> proc[p].side,
                                        legs |-> {}]]
        /\ \A w \in VPs : w # u =>
             st'[w] = st[w] /\ owner'[w] = owner[w] /\ side'[w] = side[w]
        /\ UNCHANGED <<xord, pos, ord>>
  BY InsertEffect
<1>2. p \in Actors /\ proc'[p].pc = "entry" /\ \A a \in Actors : a # p => proc'[a] = proc[a]
  BY <1>1 DEF Actors, TypeOK
<1> SUFFICES ASSUME NEW v \in VPs PROVE GuardedAt(v)'
  BY DEF Guarded
<1>3. CASE v = u
  <2>1. \A a \in Actors : proc[a].pc = "legs" => proc[a].v # u
    BY <1>1 DEF IInv, ProcKnows, KnowsVP
  <2> QED
    BY <1>1, <1>2, <1>3, <2>1, UnusedIsGuarded
<1>4. CASE v # u
  BY <1>1, <1>2, <1>4, GuardFollows DEF LegsKept
<1> QED
  BY <1>3, <1>4

(* The entry fills: none of the legs is promised yet, and no other VP of   *)
(* the symbol is active.                                                   *)
LEMMA GuardEntry ==
  ASSUME OneStrategyPerSymbol, TypeOK, IInv, Effect, Guarded, NEW p \in Procs, EntryFilled(p)
  PROVE  Guarded'
<1>1. PICK u \in VPs : u = proc[p].v
  BY EntryEffect
<1>2. /\ st[u] = "opening" /\ UNCHANGED <<st, owner, side>>
      /\ \A t \in Symbols \ {Sym(u)} : pos'[t] = pos[t]
      /\ \A w \in VPs : w # u => LegsKept(w)
  BY <1>1, EntryEffect, LegsAreOrders DEF LegsKept
<1>3. p \in Actors /\ proc[p].pc = "entry" /\ proc'[p].legs = Legs /\ proc'[p].v = u
      /\ \A a \in Actors : a # p => proc'[a] = proc[a]
  BY <1>1, MoveEffect DEF EntryFilled, Actors
<1> SUFFICES ASSUME NEW v \in VPs PROVE GuardedAt(v)'
  BY DEF Guarded
<1>4. CASE v = u
  <2>1. \A a \in Actors : proc'[a].pc = "legs" /\ proc'[a].v = v => a = p
    BY <1>1, <1>3, <1>4, NotOpener DEF Opens
  <2> QED
    BY <1>2, <1>3, <1>4, <2>1 DEF GuardedAt, LegsStand
<1>5. CASE v # u /\ Sym(v) # Sym(u)
  <2>1. Sym(v) \in Symbols
    BY SymType
  <2> QED
    BY <1>2, <1>3, <1>5, <2>1, GuardFollows
<1>6. CASE v # u /\ Sym(v) = Sym(u)
  <2>1. v \notin ActiveVPs
    BY <1>2, <1>6, OneOnSymbol DEF IInv, ActiveVPs
  <2>2. \A a \in Actors : proc[a].pc = "legs" => proc[a].v # v
    BY <2>1 DEF IInv, ProcKnows, KnowsVP, ActiveVPs
  <2> QED
    BY <1>2, <1>3, <1>6, <2>1, <2>2, UnusedIsGuarded DEF ActiveVPs
<1> QED
  BY <1>4, <1>5, <1>6

(* One more leg is placed.                                                 *)
LEMMA GuardLeg ==
  ASSUME TypeOK, IInv, Effect, Guarded, NEW p \in Procs, LegPlaced(p)
  PROVE  Guarded'
<1>1. PICK u \in VPs : u = proc[p].v
  BY ProcType DEF LegPlaced, Actors
<1>2. PICK k \in Legs : k = FirstLeg(proc[p].legs) /\ k \in proc[p].legs
  BY ProcType, FirstLegIn DEF LegPlaced, Actors
<1>3. xord' = [xord EXCEPT ![u][k] = "live"]
  BY <1>1, <1>2 DEF LegPlaced
<1>4. /\ UNCHANGED <<st, owner, side, pos>> /\ st[u] = "opening"
      /\ xord'[u][k] = "live" /\ \A w \in VPs : w # u => LegsKept(w)
      /\ \A l \in Legs : l # k => xord'[u][l] = xord[u][l]
  <2>1. UNCHANGED <<st, owner, side, pos>>
    BY DEF LegPlaced, dbVars, rowVars
  <2>2. st[u] = "opening"
    BY <1>1 DEF LegPlaced, IInv, ProcKnows, KnowsVP, Actors
  <2>3. k \in Orders /\ Legs \subseteq Orders
    BY LegsAreOrders
  <2>4. xord'[u] = [xord[u] EXCEPT ![k] = "live"]
    BY <1>3 DEF TypeOK
  <2>5. xord'[u][k] = "live" /\ \A q \in Orders : q # k => xord'[u][q] = xord[u][q]
    BY <2>3, <2>4 DEF TypeOK
  <2>6. \A w \in VPs : w # u => xord'[w] = xord[w]
    BY <1>3 DEF TypeOK
  <2> QED
    BY <2>1, <2>2, <2>3, <2>5, <2>6 DEF LegsKept
<1>5. /\ p \in Actors /\ proc[p].pc = "legs" /\ proc'[p].v = u
      /\ proc'[p].legs = proc[p].legs \ {k}
      /\ \A a \in Actors : a # p => proc'[a] = proc[a]
  BY <1>1, <1>2, MoveEffect DEF LegPlaced, NextLeg, Actors
<1> SUFFICES ASSUME NEW v \in VPs PROVE GuardedAt(v)'
  BY DEF Guarded
<1>6. CASE v # u
  BY <1>4, <1>5, <1>6, GuardFollows
<1>7. CASE v = u
  <2>1. \A a \in Actors : proc'[a].pc = "legs" /\ proc'[a].v = v => a = p
    BY <1>1, <1>5, <1>7, NotOpener DEF Opens
  <2>2. Sym(v)' = Sym(v) /\ Sym(v) \in Symbols
    BY <1>4, SymType DEF Sym
  <2>3. ~Orphaned(Sym(v))' => ~Orphaned(Sym(v))
    <3>1. PICK s \in Symbols : s = Sym(v)
      BY <2>2
    <3>2. Orphaned(s) => Orphaned(s)'
      BY OrphanStays
    <3>3. Orphaned(Sym(v))' <=> Orphaned(s)'
      BY <2>2, <3>1 DEF Orphaned
    <3> QED
      BY <3>1, <3>2, <3>3
  <2>4. pos'[Sym(v)'] = pos[Sym(v)] /\ Dir(side'[v]) = Dir(side[v])
    BY <1>4, <2>2
  <2>5. GuardedAt(v)
    BY DEF Guarded
  <2>6. ASSUME ~Orphaned(Sym(v)), pos[Sym(v)] = Dir(side[v])
        PROVE  \A l \in Legs \ proc'[p].legs : xord'[v][l] = "live"
    <3>1. \A l \in Legs \ proc[p].legs : xord[v][l] = "live"
      BY <1>1, <1>5, <1>7, <2>5, <2>6 DEF GuardedAt, LegsStand
    <3> QED
      BY <1>4, <1>5, <1>7, <3>1
  <2> QED
    BY <1>4, <1>7, <2>1, <2>3, <2>4, <2>6 DEF GuardedAt, LegsStand
<1> QED
  BY <1>6, <1>7

(* The transaction commits when the last leg has been placed.              *)
LEMMA GuardCommit ==
  ASSUME TypeOK, IInv, Effect, Guarded, NEW p \in Procs, OpenCommits(p)
  PROVE  Guarded'
<1>1. PICK u \in VPs : u = proc[p].v
  BY ProcType DEF OpenCommits, Actors
<1>2. /\ UNCHANGED <<owner, side, pos, xord>>
      /\ \A w \in VPs : LegsKept(w) /\ (w # u => st'[w] = st[w])
  BY <1>1 DEF OpenCommits, exVars, LegsKept, TypeOK
<1>3. /\ p \in Actors /\ proc[p].pc = "legs" /\ proc[p].legs = {} /\ proc'[p].pc = "idle"
      /\ \A a \in Actors : a # p => proc'[a] = proc[a]
  BY FinishEffect DEF OpenCommits, Actors
<1> SUFFICES ASSUME NEW v \in VPs PROVE GuardedAt(v)'
  BY DEF Guarded
<1>4. CASE v # u
  BY <1>2, <1>3, <1>4, GuardFollows
<1>5. CASE v = u
  <2>1. \A a \in Actors : proc'[a].pc = "legs" => proc'[a].v # v
    BY <1>1, <1>3, <1>5, NotOpener DEF Opens
  <2>2. Sym(v)' = Sym(v) /\ Sym(v) \in Symbols
    BY <1>2, SymType DEF Sym
  <2>3. ~Orphaned(Sym(v))' => ~Orphaned(Sym(v))
    <3>1. PICK s \in Symbols : s = Sym(v)
      BY <2>2
    <3>2. Orphaned(s) => Orphaned(s)'
      BY OrphanStays
    <3>3. Orphaned(Sym(v))' <=> Orphaned(s)'
      BY <2>2, <3>1 DEF Orphaned
    <3> QED
      BY <3>1, <3>2, <3>3
  <2>4. pos'[Sym(v)'] = pos[Sym(v)] /\ Dir(side'[v]) = Dir(side[v])
    BY <1>2, <2>2
  <2>5. GuardedAt(v)
    BY DEF Guarded
  <2>6. ASSUME ~Orphaned(Sym(v)), pos[Sym(v)] = Dir(side[v])
        PROVE  \A l \in Legs : xord'[v][l] = "live"
    BY <1>1, <1>2, <1>3, <1>5, <2>5, <2>6 DEF GuardedAt, LegsStand
  <2> QED
    BY <2>1, <2>3, <2>4, <2>6 DEF GuardedAt, LegsStand
<1> QED
  BY <1>4, <1>5

(* A leg that expires had nothing to protect.                              *)
LEMMA GuardTrigger ==
  ASSUME TypeOK, IInv, Effect, Guarded, NEW w \in VPs, NEW l \in Legs, LegTriggers(w, l)
  PROVE  Guarded'
<1>1. UNCHANGED <<st, owner, side, proc>>
  BY DEF LegTriggers, dbVars, rowVars
<1>2. \A v \in VPs \ {w} : LegsKept(v)
  BY OrderChanged, LegsAreOrders DEF LegTriggers, LegsKept
<1>3. CASE CanReduce(w)
  BY <1>1, <1>2, <1>3, GuardReduced DEF LegTriggers
<1>4. CASE ~CanReduce(w)
  <2>1. pos' = pos /\ pos[Sym(w)] # Dir(side[w])
    BY <1>4 DEF LegTriggers, CanReduce, Dir
  <2> SUFFICES ASSUME NEW v \in VPs PROVE GuardedAt(v)'
    BY DEF Guarded
  <2>2. CASE v = w
    <3>1. pos'[Sym(v)'] # Dir(side'[v])
      BY <1>1, <2>1, <2>2 DEF Sym
    <3> QED
      BY <3>1 DEF GuardedAt, Dir
  <2>3. CASE v # w
    BY <1>1, <1>2, <2>1, <2>3, GuardFollows
  <2> QED
    BY <2>2, <2>3
<1> QED
  BY <1>3, <1>4

LEMMA GuardManual ==
  ASSUME TypeOK, IInv, Effect, Guarded, NEW s \in Symbols, ManualClose(s)
  PROVE  Guarded'
<1>1. /\ UNCHANGED <<st, owner, side, proc, xord>> /\ pos'[s] = 0
      /\ \A t \in Symbols \ {s} : pos'[t] = pos[t]
  BY DEF ManualClose, dbVars, rowVars, TypeOK
<1> SUFFICES ASSUME NEW v \in VPs PROVE GuardedAt(v)'
  BY DEF Guarded
<1>2. Sym(v)' = Sym(v) /\ Sym(v) \in Symbols
  BY <1>1, SymType DEF Sym
<1>3. CASE Sym(v) = s
  BY <1>1, <1>2, <1>3, FlatIsGuarded
<1>4. CASE Sym(v) # s
  BY <1>1, <1>2, <1>4, GuardFollows DEF LegsKept
<1> QED
  BY <1>3, <1>4

(* Every step keeps the legs of every VP that still has its exposure.      *)
LEMMA GuardStep ==
  ASSUME OneStrategyPerSymbol, Routed = RoutedAsBuilt, TypeOK, IInv, Guarded, Next
  PROVE  Guarded'
<1> USE DEF dbVars, rowVars, exVars, hbVars
<1>0. Effect
  BY EffectStep
<1>1. ASSUME NEW p \in Procs, NEW k \in Kinds, Load(p, k) PROVE Guarded'
  <2>1. \A a \in Actors : proc'[a].pc = "legs" => proc'[a] = proc[a]
    BY <1>1, MoveEffect DEF Load, Actors
  <2> QED
    BY <1>0, <1>1, <2>1, GuardQuiet DEF Load, LegsKept
<1>2. ASSUME NEW a \in Agents, NEW v \in VPs, ExitNow(a, v) PROVE Guarded'
  <2>1. \A b \in Actors : proc'[b].pc = "legs" => proc'[b] = proc[b]
    BY <1>2, MoveEffect DEF ExitNow, Actors
  <2> QED
    BY <1>0, <1>2, <2>1, GuardQuiet DEF ExitNow, LegsKept
<1>3. ASSUME NEW p \in Procs, OpenStep(p) PROVE Guarded'
  <2>1. p \in Actors
    BY DEF Actors
  <2>2. CASE InsertFails(p)
    <3>1. \A b \in Actors : proc'[b].pc = "legs" => proc'[b] = proc[b]
      BY <2>1, <2>2, FinishEffect DEF InsertFails
    <3> QED
      BY <1>0, <2>2, <3>1, GuardQuiet DEF InsertFails, LegsKept
  <2>3. CASE EntryFails(p) \/ LegFails(p) \/ OpenCommitFails(p)
    <3>1. PICK u \in VPs : u = proc[p].v
      BY <2>1, <2>3, ProcType DEF EntryFails, LegFails, OpenCommitFails
    <3>2. proc[p].pc \in {"entry", "legs"} /\ Finish(p)
      BY <2>3 DEF EntryFails, LegFails, OpenCommitFails, Rollback
    <3>3. \A w \in VPs : w # u => xord'[w] = xord[w]
      BY <2>3, <3>1 DEF EntryFails, LegFails, OpenCommitFails, TypeOK
    <3>4. st[u] = "opening"
      BY <2>1, <3>1, <3>2 DEF IInv, ProcKnows, KnowsVP
    <3>5. /\ st' = [st EXCEPT ![u] = "void"] /\ UNCHANGED <<owner, side>>
      BY <2>3, <3>1 DEF EntryFails, LegFails, OpenCommitFails, Rollback
    <3>6. \/ xord'[u]["entry"] = "filled"
          \/ xord[u]["entry"] = "none" /\ xord'[u]["entry"] = "none" /\ pos' = pos
      <4>1. CASE EntryFails(p)
        <5>1. xord[u]["entry"] = "none"
          BY <2>1, <3>1, <4>1, EntryNotLeg DEF EntryFails, IInv, ProcKnows, KnowsVP
        <5> QED
          BY <3>1, <4>1, <5>1, EntryWritten DEF EntryFails
      <4>2. CASE LegFails(p) \/ OpenCommitFails(p)
        <5>1. xord[u]["entry"] = "filled"
          BY <2>1, <3>1, <4>2 DEF LegFails, OpenCommitFails, IInv, ProcKnows, KnowsVP
        <5>2. xord' = xord \/ \E l \in Legs : xord' = [xord EXCEPT ![u][l] = "live"]
          BY <2>1, <3>1, <4>2, ProcType, FirstLegIn DEF LegFails, OpenCommitFails
        <5>3. xord'[u]["entry"] = xord[u]["entry"]
          BY <5>2, OrderChanged, EntryNotLeg, LegsAreOrders
        <5> QED
          BY <5>1, <5>3
      <4> QED
        BY <2>3, <4>1, <4>2
    <3>7. \A t \in Symbols \ {Sym(u)} : pos'[t] = pos[t]
      BY <2>3, <3>1 DEF EntryFails, LegFails, OpenCommitFails, Enter, TypeOK
    <3>8. Voids(proc[p].v)
      BY <3>1, <3>3, <3>4, <3>5, <3>6, <3>7 DEF Voids
    <3>9. \A w \in VPs \ {proc[p].v} : LegsKept(w)
      BY <3>1, <3>3 DEF LegsKept
    <3> QED
      BY <1>0, <3>2, <3>8, <3>9, GuardVoided
  <2> QED
    BY <1>0, <1>3, <2>2, <2>3, GuardInsert, GuardEntry, GuardLeg, GuardCommit DEF OpenStep
<1>4. ASSUME NEW a \in Actors, CancelLeg(a) PROVE Guarded'
  <2>1. xord' = xord
    BY <1>4, NoneRouted DEF CancelLeg, CancelOnExchange
  <2>2. \A b \in Actors : proc'[b].pc = "legs" => proc'[b] = proc[b]
    BY <1>4, NextLegEffect DEF CancelLeg
  <2> QED
    BY <1>0, <1>4, <2>1, <2>2, GuardQuiet DEF CancelLeg, LegsKept
<1>5. ASSUME NEW a \in Actors, ExitFilled(a) \/ ExitFails(a) PROVE Guarded'
  <2>1. PICK u \in VPs : u = proc[a].v
    BY <1>5, ProcType DEF ExitFilled, ExitFails
  <2>2. UNCHANGED <<st, owner, side>>
    BY <1>5 DEF ExitFilled, ExitFails
  <2>3. \A b \in Actors : proc'[b].pc = "legs" => proc'[b] = proc[b]
    BY <1>5, FinishEffect, MoveEffect DEF ExitFilled, ExitFails
  <2>4. CASE UNCHANGED exVars
    BY <1>0, <2>2, <2>3, <2>4, GuardQuiet DEF LegsKept
  <2>5. CASE CanReduce(u) /\ Reduce(u) /\ xord' = [xord EXCEPT ![u][ExitOrder(a)] = "filled"]
    <3>1. \A w \in VPs : LegsKept(w)
      BY <2>5, OrderChanged, ExitOrderType, LegsAreOrders DEF LegsKept
    <3> QED
      BY <1>0, <2>2, <2>3, <2>5, <3>1, GuardReduced
  <2> QED
    BY <1>5, <2>1, <2>4, <2>5 DEF ExitFilled, ExitFails
<1>6. ASSUME NEW a \in Actors, CloseCommits(a) \/ CloseCommitFails(a) PROVE Guarded'
  <2>1. \A b \in Actors : proc'[b].pc = "legs" => proc'[b] = proc[b]
    BY <1>6, FinishEffect, MoveEffect DEF CloseCommits, CloseCommitFails
  <2>2. \A w \in VPs : st'[w] = "open" => st[w] = "open"
    BY <1>6 DEF CloseCommits, CloseCommitFails, TypeOK
  <2> QED
    BY <1>0, <1>6, <2>1, <2>2, GuardQuiet DEF CloseCommits, CloseCommitFails, LegsKept
<1>7. ASSUME RecNext PROVE Guarded'
  <2>1. UNCHANGED <<proc, xord, pos, owner, side>>
    BY <1>7 DEF RecNext, RecStart, RecSkip, RecDied, RecFill, RecLoad, RecMark, RecHistory
  <2>2. \A w \in VPs : st'[w] = "open" => st[w] = "open"
    BY <1>7 DEF RecNext, RecStart, RecSkip, RecDied, RecFill, RecLoad, RecMark, RecHistory, TypeOK
  <2> QED
    BY <1>0, <2>1, <2>2, GuardQuiet DEF LegsKept
<1>8. ASSUME HbNext PROVE Guarded'
  <2>1. UNCHANGED <<proc, xord, pos, owner, side>>
    BY <1>8 DEF HbNext, HbStart, HbFlat, HbNotFlat, HbMark, HbHistory, HbGhosts
  <2>2. \A w \in VPs : st'[w] = "open" => st[w] = "open"
    BY <1>8 DEF HbNext, HbStart, HbFlat, HbNotFlat, HbMark, HbHistory, HbGhosts, TypeOK
  <2> QED
    BY <1>0, <2>1, <2>2, GuardQuiet DEF LegsKept
<1>9. CASE Crash
  <2>1. \A b \in Actors : proc'[b].pc # "legs"
    BY <1>9 DEF Crash, IdleProc
  <2>2. \A w \in VPs : st'[w] = "open" => st[w] = "open"
    BY <1>9 DEF Crash
  <2> QED
    BY <1>0, <1>9, <2>1, <2>2, GuardQuiet DEF Crash, LegsKept
<1> QED
  BY <1>0, <1>1, <1>2, <1>3, <1>4, <1>5, <1>6, <1>7, <1>8, <1>9, GuardTrigger, GuardManual
  DEF Next, ActorStep, CloseStep

(* An open VP whose exposure is on the exchange has a live protective leg  *)
(* there in every reachable state, whatever closes, crashes and            *)
(* reconciliations went before: with the adapter as it is built, no cancel *)
(* of ClosePosition or ExitNow reaches a leg.                              *)
THEOREM LegsProtect ==
  ASSUME OneStrategyPerSymbol, Routed = RoutedAsBuilt
  PROVE  Spec => []Protected
<1>1. Init => TypeOK /\ IInv /\ Guarded
  <2> SUFFICES ASSUME Init PROVE Guarded
    BY TypeInit, IInvInit
  <2> QED
    BY DEF Init, IdleProc, Guarded, GuardedAt
<1>2. TypeOK /\ IInv /\ Guarded /\ [Next]_vars => (TypeOK /\ IInv /\ Guarded)'
  <2> SUFFICES ASSUME TypeOK, IInv, Guarded, [Next]_vars PROVE Guarded'
    BY TypeStep, IInvStep
  <2>1. CASE UNCHANGED vars
    BY <2>1 DEF vars, dbVars, exVars, hbVars, Guarded, GuardedAt, LegsStand, Orphaned, Sym, Dir
  <2> QED
    BY <2>1, GuardStep
<1>3. Guarded => Protected
  <2>1. Legs # {}
    BY ConstantsAssumption
  <2> QED
    BY <2>1 DEF Guarded, GuardedAt, LegsStand, Protected, OpenVPs
<1> QED
  BY <1>1, <1>2, <1>3, PTL DEF Spec

----------------------------------------------------------------------------
(* BookedAtMostOnce.                                                       *)

(* A VP that has been booked is closed, and no goroutine of its strategy   *)
(* works on it any more; ExitNow never reaches the transaction.            *)
Holds(p) == proc[p].pc \in {"entry", "legs", "cancel", "tx"}
BookedClosed == \A v \in VPs : booked[v] <= 1 /\ (booked[v] > 0 => st[v] = "closed")
Unbooked(p) ==
  Holds(p) => st[proc[p].v] # "none" /\ owner[proc[p].v] = Serves[p] /\ booked[proc[p].v] = 0
AgentsNeverBook == \A a \in Agents : proc[a].pc \in {"idle", "cancel"}
BInv == BookedClosed /\ AgentsNeverBook /\ \A p \in Procs : Unbooked(p)

(* One goroutine of a strategy at a time works on a VP.                    *)
OneHolds ==
  \A p \in Procs, q \in Procs : Holds(p) /\ Holds(q) /\ Serves[p] = Serves[q] => p = q

(* A row is inserted once, and a booked one stays closed.                  *)
RowsGoOn ==
  \A v \in VPs :
    /\ st[v] # "none" => st'[v] # "none" /\ owner'[v] = owner[v]
    /\ booked[v] > 0 => st'[v] = "closed"

(* A step that books nothing and gives nobody a VP he did not have.        *)
LEMMA BookedKept ==
  ASSUME TypeOK, BInv, booked' = booked, RowsGoOn,
         \A p \in Procs : Holds(p)' => Holds(p) /\ proc'[p].v = proc[p].v,
         \A a \in Agents : proc'[a].pc \in {"idle", proc[a].pc}
  PROVE  BInv'
<1>1. BookedClosed'
  BY DEF BInv, BookedClosed, RowsGoOn
<1>2. AgentsNeverBook'
  BY DEF BInv, AgentsNeverBook
<1>3. ASSUME NEW p \in Procs PROVE Unbooked(p)'
  <2>1. Holds(p)' => Holds(p) /\ proc[p].v \in VPs
    BY ProcType DEF Holds, Actors
  <2> QED
    BY <2>1 DEF BInv, Unbooked, RowsGoOn
<1> QED
  BY <1>1, <1>2, <1>3 DEF BInv

LEMMA BookedByOpening ==
  ASSUME TypeOK, BInv, NEW p \in Procs, OpenStep(p)
  PROVE  BInv'
<1>1. p \in Actors /\ p \notin Agents
  BY ConstantsAssumption DEF Actors
<1>2. CASE Insert(p)
  <2>1. PICK u \in VPs :
          /\ st[u] = "none" /\ st' = [st EXCEPT ![u] = "opening"]
          /\ owner' = [owner EXCEPT ![u] = Serves[p]]
          /\ Move(p, "entry", u, proc[p].side, {})
    BY <1>2 DEF Insert, Fresh
  <2>2. booked' = booked /\ booked[u] = 0
    <3>1. booked[u] \in 0..2 /\ ~(booked[u] > 0)
      BY <2>1 DEF BInv, BookedClosed, TypeOK
    <3> QED
      BY <1>2, <3>1 DEF Insert
  <2>3. /\ st'[u] = "opening" /\ owner'[u] = Serves[p]
        /\ \A w \in VPs : w # u => st'[w] = st[w] /\ owner'[w] = owner[w]
    BY <2>1 DEF TypeOK
  <2>4. /\ proc'[p].pc = "entry" /\ proc'[p].v = u
        /\ \A b \in Actors : b # p => proc'[b] = proc[b]
    BY <1>1, <2>1, MoveEffect
  <2>5. BookedClosed'
    BY <2>1, <2>2, <2>3 DEF BInv, BookedClosed
  <2>6. AgentsNeverBook'
    BY <1>1, <2>4 DEF BInv, AgentsNeverBook, Actors
  <2>7. ASSUME NEW q \in Procs, q # p PROVE Unbooked(q)'
    <3>1. q \in Actors /\ proc'[q] = proc[q]
      BY <2>4, <2>7 DEF Actors
    <3>2. Holds(q) => proc[q].v \in VPs /\ proc[q].v # u
      BY <2>1, <3>1, ProcType DEF BInv, Unbooked, Holds
    <3> QED
      BY <2>2, <2>3, <3>1, <3>2 DEF BInv, Unbooked, Holds
  <2>8. Unbooked(p)'
    BY <2>2, <2>3, <2>4 DEF Unbooked
  <2> QED
    BY <2>5, <2>6, <2>7, <2>8 DEF BInv
<1>3. CASE ~Insert(p)
  <2>1. booked' = booked
    BY <1>3 DEF OpenStep, InsertFails, EntryFilled, EntryFails, LegPlaced, LegFails, OpenCommits,
                OpenCommitFails, Rollback, dbVars
  <2>2. \/ UNCHANGED <<st, owner>>
        \/ /\ Holds(p) /\ owner' = owner
           /\ \/ st' = [st EXCEPT ![proc[p].v] = "void"]
              \/ st' = [st EXCEPT ![proc[p].v] = "open"]
    BY <1>3 DEF OpenStep, InsertFails, EntryFilled, EntryFails, LegPlaced, LegFails, OpenCommits,
                OpenCommitFails, Rollback, dbVars, rowVars, Holds
  <2>3. RowsGoOn
    <3>1. CASE UNCHANGED <<st, owner>>
      BY <3>1 DEF RowsGoOn, BInv, BookedClosed
    <3>2. CASE ~UNCHANGED <<st, owner>>
      <4>1. PICK u \in VPs : u = proc[p].v
        BY <1>1, <2>2, <3>2, ProcType DEF Holds
      <4>2. st[u] # "none" /\ booked[u] = 0
        BY <2>2, <3>2, <4>1 DEF BInv, Unbooked
      <4>3. \A w \in VPs : w # u => st'[w] = st[w]
        BY <2>2, <3>2, <4>1 DEF TypeOK
      <4>4. st'[u] \in {"void", "open"}
        BY <2>2, <3>2, <4>1 DEF TypeOK
      <4> QED
        BY <2>2, <3>2, <4>2, <4>3, <4>4 DEF RowsGoOn, BInv, BookedClosed
    <3> QED
      BY <3>1, <3>2
  <2>4. \A b \in Actors : b # p => proc'[b] = proc[b]
    BY <1>1, <1>3, FinishEffect, MoveEffect, NextLegEffect
    DEF OpenStep, InsertFails, EntryFilled, EntryFails, LegPlaced, LegFails, OpenCommits,
        OpenCommitFails, Rollback
  <2>5. Holds(p)' => Holds(p) /\ proc'[p].v = proc[p].v
    BY <1>1, <1>3, FinishEffect, MoveEffect, NextLegEffect
    DEF OpenStep, InsertFails, EntryFilled, EntryFails, LegPlaced, LegFails, OpenCommits,
        OpenCommitFails, Rollback, Holds
  <2>6. \A q \in Procs : Holds(q)' => Holds(q) /\ proc'[q].v = proc[q].v
    BY <2>4, <2>5 DEF Holds, Actors
  <2>7. \A a \in Agents : proc'[a].pc \in {"idle", proc[a].pc}
    BY <1>1, <2>4 DEF Actors
  <2> QED
    BY <2>1, <2>3, <2>6, <2>7, BookedKept
<1> QED
  BY <1>2, <1>3

LEMMA OneMoreOfNone == OneMore(0) = 1
BY DEF OneMore

(* ClosePosition commits: the VP is booked for the first time, and its     *)
(* goroutine leaves it.                                                    *)
LEMMA BookedByClosing ==
  ASSUME TypeOK, BInv, OneHolds, NEW p \in Procs, CloseCommits(p)
  PROVE  BInv'
<1>1. p \in Actors /\ p \notin Agents
  BY ConstantsAssumption DEF Actors
<1>2. PICK u \in VPs : u = proc[p].v
  BY <1>1, ProcType DEF CloseCommits
<1>3. Holds(p) /\ st[u] # "none" /\ owner[u] = Serves[p] /\ booked[u] = 0
  BY <1>2 DEF CloseCommits, Holds, BInv, Unbooked
<1>4. /\ st'[u] = "closed" /\ owner' = owner
      /\ \A w \in VPs : w # u => st'[w] = st[w] /\ booked'[w] = booked[w]
  BY <1>2 DEF CloseCommits, TypeOK
<1>5. booked'[u] = 1
  <2>1. booked'[u] = OneMore(booked[u])
    BY <1>2 DEF CloseCommits, TypeOK
  <2> QED
    BY <1>3, <2>1, OneMoreOfNone
<1>6. proc'[p].pc \in {"insert", "idle"} /\ \A b \in Actors : b # p => proc'[b] = proc[b]
  BY <1>1, FinishEffect, MoveEffect DEF CloseCommits
<1>7. BookedClosed'
  BY <1>4, <1>5 DEF BInv, BookedClosed
<1>8. AgentsNeverBook'
  BY <1>1, <1>6 DEF BInv, AgentsNeverBook, Actors
<1>9. ASSUME NEW q \in Procs PROVE Unbooked(q)'
  <2>1. CASE q = p
    BY <1>6, <2>1 DEF Unbooked, Holds
  <2>2. CASE q # p
    <3>1. q \in Actors /\ proc'[q] = proc[q]
      BY <1>6, <2>2 DEF Actors
    <3>2. Holds(q) => proc[q].v \in VPs /\ proc[q].v # u
      BY <1>3, <2>2, <3>1, ProcType DEF BInv, Unbooked, Holds, OneHolds
    <3> QED
      BY <1>4, <3>1, <3>2 DEF BInv, Unbooked, Holds
  <2> QED
    BY <2>1, <2>2
<1> QED
  BY <1>7, <1>8, <1>9 DEF BInv

(* A goroutine begins to close: the VP it loaded is open, so not booked.   *)
LEMMA BookedByLoad ==
  ASSUME TypeOK, BInv, NEW p \in Procs, NEW k \in Kinds, Load(p, k)
  PROVE  BInv'
<1>1. p \in Actors /\ p \notin Agents
  BY ConstantsAssumption DEF Actors
<1>2. UNCHANGED <<st, owner, booked>>
  BY DEF Load, dbVars, rowVars
<1>3. \/ Move(p, "insert", NoVP, k, {})
      \/ \E v \in OpenOf(Serves[p]), d \in Sides \cup {"none"} : Move(p, "cancel", v, d, Legs)
  BY DEF Load
<1>4. \A b \in Actors : b # p => proc'[b] = proc[b]
  BY <1>1, <1>3, MoveEffect
<1>5. Unbooked(p)'
  <2>1. CASE Move(p, "insert", NoVP, k, {})
    BY <1>1, <2>1, MoveEffect DEF Unbooked, Holds
  <2>2. ASSUME NEW v \in OpenOf(Serves[p]), NEW d, Move(p, "cancel", v, d, Legs)
        PROVE  Unbooked(p)'
    <3>1. v \in VPs /\ st[v] = "open" /\ owner[v] = Serves[p]
      BY DEF OpenOf, OpenVPs
    <3>2. booked[v] = 0
      BY <3>1 DEF BInv, BookedClosed, TypeOK
    <3>3. proc'[p].v = v
      BY <1>1, <2>2, MoveEffect
    <3> QED
      BY <1>2, <3>1, <3>2, <3>3 DEF Unbooked
  <2> QED
    BY <1>3, <2>1, <2>2
<1>6. \A q \in Procs : q # p => Unbooked(q)'
  BY <1>2, <1>4 DEF BInv, Unbooked, Holds, Actors
<1> QED
  BY <1>1, <1>2, <1>4, <1>5, <1>6 DEF BInv, BookedClosed, AgentsNeverBook, Actors

LEMMA BookedStep ==
  ASSUME TypeOK, BInv, OneHolds, Next
  PROVE  BInv'
<1> USE DEF dbVars, rowVars, exVars, hbVars
<1>1. ASSUME UNCHANGED <<st, owner>> PROVE RowsGoOn
  BY <1>1 DEF BInv, BookedClosed, RowsGoOn
<1>2. ASSUME NEW a \in Agents, NEW v \in VPs, ExitNow(a, v) PROVE BInv'
  <2>1. a \in Actors /\ a \notin Procs
    BY ConstantsAssumption DEF Actors
  <2>2. proc'[a].pc = "cancel" /\ \A b \in Actors : b # a => proc'[b] = proc[b]
    BY <1>2, <2>1, MoveEffect DEF ExitNow
  <2> QED
    BY <1>2, <2>1, <2>2 DEF ExitNow, BInv, BookedClosed, AgentsNeverBook, Unbooked, Holds, Actors
<1>3. ASSUME NEW a \in Actors, CancelLeg(a) PROVE BInv'
  <2>1. UNCHANGED <<st, owner, booked>>
    BY <1>3 DEF CancelLeg
  <2>2. proc'[a].pc = proc[a].pc /\ proc'[a].v = proc[a].v /\ \A b \in Actors : b # a => proc'[b] = proc[b]
    BY <1>3, NextLegEffect DEF CancelLeg
  <2>3. \A q \in Procs : Holds(q)' => Holds(q) /\ proc'[q].v = proc[q].v
    BY <2>2 DEF Holds, Actors
  <2>4. \A b \in Agents : proc'[b].pc \in {"idle", proc[b].pc}
    BY <2>2 DEF Actors
  <2> QED
    BY <1>1, <2>1, <2>3, <2>4, BookedKept
<1>4. ASSUME NEW a \in Actors, ExitFilled(a) \/ ExitFails(a) PROVE BInv'
  <2>1. UNCHANGED <<st, owner, booked>> /\ proc[a].pc = "cancel"
    BY <1>4 DEF ExitFilled, ExitFails
  <2>2. /\ \/ proc'[a].pc = "idle"
           \/ a \notin Agents /\ proc'[a].pc = "tx" /\ proc'[a].v = proc[a].v
        /\ \A b \in Actors : b # a => proc'[b] = proc[b]
    BY <1>4, FinishEffect, MoveEffect DEF ExitFilled, ExitFails
  <2>3. \A q \in Procs : Holds(q)' => Holds(q) /\ proc'[q].v = proc[q].v
    BY <2>1, <2>2 DEF Holds, Actors
  <2>4. \A b \in Agents : proc'[b].pc \in {"idle", proc[b].pc}
    BY <2>2 DEF Actors
  <2> QED
    BY <1>1, <2>1, <2>3, <2>4, BookedKept
<1>5. ASSUME NEW a \in Actors, CloseCommitFails(a) PROVE BInv'
  <2>1. UNCHANGED <<st, owner, booked>>
    BY <1>5 DEF CloseCommitFails
  <2>2. proc'[a].pc = "idle" /\ \A b \in Actors : b # a => proc'[b] = proc[b]
    BY <1>5, FinishEffect DEF CloseCommitFails
  <2>3. \A q \in Procs : Holds(q)' => Holds(q) /\ proc'[q].v = proc[q].v
    BY <2>2 DEF Holds, Actors
  <2>4. \A b \in Agents : proc'[b].pc \in {"idle", proc[b].pc}
    BY <2>2 DEF Actors
  <2> QED
    BY <1>1, <2>1, <2>3, <2>4, BookedKept
<1>6. ASSUME NEW a \in Actors, CloseCommits(a) PROVE BInv'
  <2>1. a \in Procs
    BY <1>6 DEF CloseCommits, BInv, AgentsNeverBook, Actors
  <2> QED
    BY <1>6, <2>1, BookedByClosing
<1>7. ASSUME UNCHANGED <<owner, booked>>,
             \A v \in VPs : st'[v] \in {st[v], "closed"},
             \A a \in Actors : proc'[a].pc = "idle" \/ proc'[a] = proc[a]
      PROVE  BInv'
  <2>1. RowsGoOn
    BY <1>7 DEF BInv, BookedClosed, RowsGoOn
  <2>2. \A q \in Procs : Holds(q)' => Holds(q) /\ proc'[q].v = proc[q].v
    BY <1>7 DEF Holds, Actors
  <2>3. \A b \in Agents : proc'[b].pc \in {"idle", proc[b].pc}
    BY <1>7 DEF Actors
  <2> QED
    BY <1>7, <2>1, <2>2, <2>3, BookedKept
<1>8. ASSUME RecNext PROVE BInv'
  <2>1. UNCHANGED <<owner, booked, proc>>
    BY <1>8 DEF RecNext, RecStart, RecSkip, RecDied, RecFill, RecLoad, RecMark, RecHistory
  <2>2. \A v \in VPs : st'[v] \in {st[v], "closed"}
    BY <1>8 DEF RecNext, RecStart, RecSkip, RecDied, RecFill, RecLoad, RecMark, RecHistory, TypeOK
  <2> QED
    BY <1>7, <2>1, <2>2
<1>9. ASSUME HbNext PROVE BInv'
  <2>1. UNCHANGED <<owner, booked, proc>>
    BY <1>9 DEF HbNext, HbStart, HbFlat, HbNotFlat, HbMark, HbHistory, HbGhosts
  <2>2. \A v \in VPs : st'[v] \in {st[v], "closed"}
    BY <1>9 DEF HbNext, HbStart, HbFlat, HbNotFlat, HbMark, HbHistory, HbGhosts, TypeOK
  <2> QED
    BY <1>7, <2>1, <2>2
<1>10. ASSUME NEW v \in VPs, NEW l \in Legs, LegTriggers(v, l) PROVE BInv'
  BY <1>7, <1>10 DEF LegTriggers
<1>11. ASSUME NEW s \in Symbols, ManualClose(s) PROVE BInv'
  BY <1>7, <1>11 DEF ManualClose
<1>12. CASE Crash
  <2>1. UNCHANGED <<owner, booked>> /\ \A a \in Actors : proc'[a].pc = "idle"
    BY <1>12 DEF Crash, IdleProc
  <2>2. RowsGoOn
    BY <1>12, <2>1 DEF Crash, BInv, BookedClosed, RowsGoOn
  <2>3. \A q \in Procs : ~Holds(q)'
    BY <2>1 DEF Holds, Actors
  <2>4. \A b \in Agents : proc'[b].pc = "idle"
    BY <2>1 DEF Actors
  <2> QED
    BY <2>1, <2>2, <2>3, <2>4, BookedKept
<1> QED
  BY <1>2, <1>3, <1>4, <1>5, <1>6, <1>8, <1>9, <1>10, <1>11, <1>12, BookedByLoad, BookedByOpening
  DEF Next, ActorStep, CloseStep

LEMMA BookedInit == ASSUME Init PROVE BInv
BY DEF Init, IdleProc, BInv, BookedClosed, AgentsNeverBook, Unbooked, Holds, Actors

LEMMA BookedSame == ASSUME BInv, UNCHANGED vars PROVE BInv'
BY DEF vars, dbVars, rowVars, BInv, BookedClosed, AgentsNeverBook, Unbooked, Holds

(* With one goroutine for each strategy, as a dispatcher queue alone would *)
(* have it, the PnL of a VP is booked at most once, whatever fails.        *)
THEOREM BookedOnce ==
  ASSUME \A p \in Procs, q \in Procs : Serves[p] = Serves[q] => p = q
  PROVE  Spec => []BookedAtMostOnce
<1>1. Init => TypeOK /\ BInv
  BY TypeInit, BookedInit
<1>2. OneHolds
  BY DEF OneHolds
<1>3. TypeOK /\ BInv /\ [Next]_vars => (TypeOK /\ BInv)'
  BY <1>2, TypeStep, BookedStep, BookedSame
<1>4. BInv => BookedAtMostOnce
  BY DEF BInv, BookedClosed, BookedAtMostOnce
<1> QED
  BY <1>1, <1>3, <1>4, PTL DEF Spec

(* The same of the two scenarios that are model-checked together: as long  *)
(* as only the worker of each strategy runs.                               *)
OnlyWorkers == \A p \in Procs : p # WorkerOf(Serves[p]) => proc[p].pc = "idle"

THEOREM BookedByWorkers == SafetySpec => []BookedBySingleWorker
<1> DEFINE Alone1 == ~overlap => BInv /\ OnlyWorkers
<1>1. SafetyInit => TypeOK /\ Alone1
  BY TypeInit, BookedInit DEF SafetyInit, Init, OnlyWorkers, IdleProc, Actors
<1>2. TypeOK /\ Alone1 /\ [SafetyNext]_<<vars, overlap>> => (TypeOK /\ Alone1)'
  <2> SUFFICES ASSUME TypeOK, Alone1, [SafetyNext]_<<vars, overlap>> PROVE TypeOK' /\ Alone1'
    OBVIOUS
  <2>1. TypeOK'
    BY TypeStep DEF SafetyNext
  <2>2. CASE UNCHANGED <<vars, overlap>>
    BY <2>1, <2>2, BookedSame DEF vars, OnlyWorkers
  <2>3. CASE SafetyNext /\ overlap
    BY <2>1, <2>3 DEF SafetyNext
  <2>4. CASE SafetyNext /\ ~overlap
    <3>1. Next /\ OthersRest
      BY <2>4 DEF SafetyNext
    <3>2. OneHolds
      BY <2>4 DEF OneHolds, OnlyWorkers, Holds
    <3>3. BInv'
      BY <2>4, <3>1, <3>2, BookedStep
    <3>4. OnlyWorkers'
      BY <2>4, <3>1 DEF OthersRest, OnlyWorkers
    <3> QED
      BY <2>1, <3>3, <3>4
  <2> QED
    BY <2>2, <2>3, <2>4
<1>3. Alone1 => BookedBySingleWorker
  BY DEF BInv, BookedClosed, BookedAtMostOnce, BookedBySingleWorker
<1> QED
  BY <1>1, <1>2, <1>3, PTL DEF SafetySpec

============================================================================
