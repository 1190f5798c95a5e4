------------------------------ MODULE Trading ------------------------------
(***************************************************************************)
(* The life of a virtual position (VP): trade.Service opens and closes it, *)
(* the exit agent's ExitNow closes it behind the database's back, the      *)
(* Reconciler (every 30 s) and the position heartbeat (at boot and every   *)
(* 2 min) bring the database back to what the exchange says.  All of them  *)
(* are goroutines of one process that share the PostgreSQL rows and one    *)
(* Binance account; none of them takes a lock.                             *)
(*                                                                         *)
(* One action is one network call together with the statement that records *)
(* its answer, or one database statement or transaction, so every window   *)
(* between a call and its effect on the rows is a state.                   *)
(*                                                                         *)
(* Abstractions: every VP has the same quantity, one unit; prices are left *)
(* out, so a protective leg may trigger at any time; a leg fills whole.    *)
(***************************************************************************)
EXTENDS Integers, FiniteSets

CONSTANTS
  Strategies,   \* strategy ids
  Symbols,      \* exchange symbols
  SymbolOf,     \* the symbol a strategy trades
  NumVPs,       \* bound: virtual_positions rows ever inserted
  Legs,         \* protective legs a VP gets ("tp" only with HasTakeProfit)
  Routed,       \* legs whose client id Cancel and GetOrder send to the Algo API
  Procs,        \* goroutines running processSignal
  Serves,       \* the strategy each of them works for
  Agents,       \* goroutines running ExitOrchestrator.ExitNow
  MaxFaults     \* bound: failed calls, lost answers, crashes, manual trades

AllLegs == {"stop", "backup", "tp"}
Sides == {"long", "short"}

ASSUME ConstantsAssumption ==
  /\ Strategies # {}
  /\ SymbolOf \in [Strategies -> Symbols]
  /\ Serves \in [Procs -> Strategies]
  /\ Legs \subseteq AllLegs /\ {"stop", "backup"} \subseteq Legs
  /\ Routed \subseteq Legs
  /\ NumVPs \in Nat \ {0}
  /\ MaxFaults \in Nat
  /\ Procs \cap Agents = {}

VPs == 1..NumVPs
NoVP == 0
Actors == Procs \cup Agents
Orders == Legs \cup {"entry", "exit", "ea-exit"}

(* The prefix service.go gives a leg's client id, and the prefixes the     *)
(* adapter's isAlgoClientOrderID knows.  They have no element in common,   *)
(* so the code as it stands is Routed = RoutedAsBuilt = {}; Routed = Legs  *)
(* is a Trader that keeps the contract of the port.                        *)
ClientPrefix(l) == CASE l = "stop" -> "s" [] l = "backup" -> "b" [] l = "tp" -> "t"
AlgoPrefixes == {"stop", "bstop", "tp"}
RoutedAsBuilt == {l \in Legs : ClientPrefix(l) \in AlgoPrefixes}

VARIABLES
  \* virtual_positions rows; "opening" is a row of a transaction that has not
  \* committed, "void" one that was rolled back (its id is never used again)
  st, owner, side,
  \* orders.status of each leg's row, position_history rows written for a VP,
  \* and how often its PnL was added to system_state.daily_pnl_usdc
  ord, hist, booked,
  \* the exchange: every order placed for a VP, and the net position
  xord, pos,
  proc,     \* trade goroutines: program counter, VP, side to open, legs left
  rec,      \* Reconciler: program counter, orders left of this tick, VP
  hb,       \* Recovery: program counter, VPs left, symbols held active, VP
  flagged,  \* symbols the current or last pass of Recovery raised an alert on
  phase,    \* "boot" until recovery.Run has returned, then "run"
  faults

rowVars == <<st, owner, side>>
dbVars == <<st, owner, side, ord, hist, booked>>
exVars == <<xord, pos>>
hbVars == <<hb, flagged, phase>>
vars == <<dbVars, exVars, proc, rec, hbVars, faults>>

----------------------------------------------------------------------------
Sym(v) == SymbolOf[owner[v]]
Dir(d) == IF d = "long" THEN 1 ELSE -1
Opposite(d) == IF d = "long" THEN "short" ELSE "long"

(* A committed row that GetActiveByStrategy and the heartbeat can see.     *)
OpenVPs == {v \in VPs : st[v] = "open"}
OpenOf(s) == {v \in OpenVPs : owner[v] = s}
(* A row the partial unique index counts, committed or not.                *)
ActiveVPs == {v \in VPs : st[v] \in {"opening", "open"}}
Fresh == {v \in VPs : st[v] = "none" /\ \A w \in 1..(v - 1) : st[w] # "none"}

(* The first of the legs S in the order service.go walks them.             *)
FirstLeg(S) == IF "stop" \in S THEN "stop" ELSE IF "backup" \in S THEN "backup" ELSE "tp"

(* position.Decide: what a signal of kind k asks for, given the position.  *)
Decide(cur, k) ==
  CASE cur = "flat" /\ k \in Sides -> "open"
    [] cur = "long" /\ k = "exit_long" -> "close"
    [] cur = "short" /\ k = "exit_short" -> "close"
    [] cur \in Sides /\ k = Opposite(cur) -> "reverse"
    [] OTHER -> "noop"
Kinds == Sides \cup {"exit_long", "exit_short"}

(* Exits and legs are reduce-only: the exchange executes one only against  *)
(* a position of the side it closes, and it never flips the position.      *)
CanReduce(v) == IF side[v] = "long" THEN pos[Sym(v)] > 0 ELSE pos[Sym(v)] < 0
Enter(v) == pos' = [pos EXCEPT ![Sym(v)] = @ + Dir(side[v])]
Reduce(v) == pos' = [pos EXCEPT ![Sym(v)] = @ - Dir(side[v])]

OneMore(n) == IF n = 0 THEN 1 ELSE 2    \* counts up to "more than once"

NoFault == UNCHANGED faults
Fault == faults < MaxFaults /\ faults' = faults + 1

IdleProc == [pc |-> "idle", v |-> NoVP, side |-> "none", legs |-> {}]
IdleRec == [pc |-> "idle", todo |-> {}, v |-> NoVP]
HbMove(l, v, S) == hb' = [pc |-> l, todo |-> S, syms |-> hb.syms, v |-> v]
IdleHb == [pc |-> "idle", todo |-> {}, syms |-> {}, v |-> NoVP]

(* Goroutine a is at l, working on v, with side d to open and legs S left. *)
Move(a, l, v, d, S) == proc' = [proc EXCEPT ![a] = [pc |-> l, v |-> v, side |-> d, legs |-> S]]
NextLeg(a) ==
  Move(a, proc[a].pc, proc[a].v, proc[a].side, proc[a].legs \ {FirstLeg(proc[a].legs)})
Finish(a) == proc' = [proc EXCEPT ![a] = IdleProc]

----------------------------------------------------------------------------
Init ==
  /\ st = [v \in VPs |-> "none"]
  /\ owner = [v \in VPs |-> CHOOSE s \in Strategies : TRUE]
  /\ side = [v \in VPs |-> "long"]
  /\ ord = [v \in VPs |-> [l \in Legs |-> "none"]]
  /\ hist = [v \in VPs |-> 0]
  /\ booked = [v \in VPs |-> 0]
  /\ xord = [v \in VPs |-> [o \in Orders |-> "none"]]
  /\ pos = [s \in Symbols |-> 0]
  /\ proc = [a \in Actors |-> IdleProc]
  /\ rec = IdleRec
  /\ hb = IdleHb
  /\ flagged = {}
  /\ phase = "boot"
  /\ faults = 0

----------------------------------------------------------------------------
(* Processing a signal.                                                    *)

(* processSignal reads the strategy's position and decides; a noop changes *)
(* nothing.  The row may change before the goroutine acts on what it read. *)
Load(p, k) ==
  /\ p \in Procs /\ phase = "run" /\ proc[p].pc = "idle"
  /\ \/ /\ OpenOf(Serves[p]) = {}
        /\ Decide("flat", k) = "open"
        /\ Move(p, "insert", NoVP, k, {})
     \/ \E v \in OpenOf(Serves[p]) :
        /\ Decide(side[v], k) \in {"close", "reverse"}
        /\ Move(p, "cancel", v, IF k \in Sides THEN k ELSE "none", Legs)
  /\ UNCHANGED <<dbVars, exVars, rec, hbVars, faults>>

(* Mutant: an INSERT that no unique index stops.                           *)
InsertUnchecked(p) ==
  /\ proc[p].pc = "insert"
  /\ \E v \in Fresh :
       /\ st' = [st EXCEPT ![v] = "opening"]
       /\ owner' = [owner EXCEPT ![v] = Serves[p]]
       /\ side' = [side EXCEPT ![v] = proc[p].side]
       /\ Move(p, "entry", v, proc[p].side, {})
  /\ UNCHANGED <<ord, hist, booked, exVars, rec, hbVars, faults>>

(* INSERT of the 'opening' row.  An uncommitted row of the same strategy   *)
(* makes it wait on the unique index, a committed one makes it fail; when  *)
(* the bound NumVPs is used up it fails too.                               *)
Insert(p) ==
  /\ proc[p].pc = "insert"
  /\ \A v \in VPs : owner[v] = Serves[p] => st[v] # "opening"
  /\ OpenOf(Serves[p]) = {}
  /\ \E v \in Fresh :
       /\ st' = [st EXCEPT ![v] = "opening"]
       /\ owner' = [owner EXCEPT ![v] = Serves[p]]
       /\ side' = [side EXCEPT ![v] = proc[p].side]
       /\ Move(p, "entry", v, proc[p].side, {})
  /\ UNCHANGED <<ord, hist, booked, exVars, rec, hbVars, faults>>

InsertFails(p) ==
  /\ proc[p].pc = "insert"
  /\ \A v \in VPs : owner[v] = Serves[p] => st[v] # "opening"
  /\ OpenOf(Serves[p]) # {} \/ Fresh = {}
  /\ Finish(p)
  /\ UNCHANGED <<dbVars, exVars, rec, hbVars, faults>>

Rollback(p) ==
  /\ st' = [st EXCEPT ![proc[p].v] = "void"]
  /\ Finish(p)
  /\ UNCHANGED <<owner, side, ord, hist, booked, rec, hbVars>>

(* The entry market order.                                                 *)
EntryFilled(p) ==
  /\ proc[p].pc = "entry"
  /\ Enter(proc[p].v)
  /\ xord' = [xord EXCEPT ![proc[p].v]["entry"] = "filled"]
  /\ Move(p, "legs", proc[p].v, proc[p].side, Legs)
  /\ UNCHANGED <<dbVars, rec, hbVars, faults>>

(* Place returns an error, or a result that is not 'filled'.  The order    *)
(* may have been executed all the same: a timeout loses the answer, not    *)
(* the order.  The transaction is rolled back either way.                  *)
EntryFails(p) ==
  /\ proc[p].pc = "entry"
  /\ Fault
  /\ \/ UNCHANGED exVars
     \/ /\ Enter(proc[p].v)
        /\ xord' = [xord EXCEPT ![proc[p].v]["entry"] = "filled"]
  /\ Rollback(p)

LegPlaced(p) ==
  /\ proc[p].pc = "legs" /\ proc[p].legs # {}
  /\ xord' = [xord EXCEPT ![proc[p].v][FirstLeg(proc[p].legs)] = "live"]
  /\ NextLeg(p)
  /\ UNCHANGED <<dbVars, pos, rec, hbVars, faults>>

(* Mutant: the error of a leg is logged and the next leg tried.            *)
LegErrorIgnored(p) ==
  /\ proc[p].pc = "legs" /\ proc[p].legs # {}
  /\ Fault
  /\ NextLeg(p)
  /\ UNCHANGED <<dbVars, exVars, rec, hbVars>>

(* A leg is refused (or its answer is lost, or its row cannot be written): *)
(* the VP row disappears, the entry and the legs already placed do not.    *)
LegFails(p) ==
  /\ proc[p].pc = "legs" /\ proc[p].legs # {}
  /\ Fault
  /\ \/ UNCHANGED xord
     \/ xord' = [xord EXCEPT ![proc[p].v][FirstLeg(proc[p].legs)] = "live"]
  /\ UNCHANGED pos
  /\ Rollback(p)

(* Mutant: the transaction commits before the legs have been placed.       *)
CommitsEarly(p) ==
  /\ proc[p].pc = "legs"
  /\ st' = [st EXCEPT ![proc[p].v] = "open"]
  /\ ord' = [ord EXCEPT ![proc[p].v] = [l \in Legs |-> "submitted"]]
  /\ Finish(p)
  /\ UNCHANGED <<owner, side, hist, booked, exVars, rec, hbVars, faults>>

(* The transaction of OpenPosition commits, or fails to.                   *)
OpenCommits(p) ==
  /\ proc[p].pc = "legs" /\ proc[p].legs = {}
  /\ st' = [st EXCEPT ![proc[p].v] = "open"]
  /\ ord' = [ord EXCEPT ![proc[p].v] = [l \in Legs |-> "submitted"]]
  /\ Finish(p)
  /\ UNCHANGED <<owner, side, hist, booked, exVars, rec, hbVars, faults>>

OpenCommitFails(p) ==
  /\ proc[p].pc = "legs" /\ proc[p].legs = {}
  /\ Fault
  /\ UNCHANGED exVars
  /\ Rollback(p)

----------------------------------------------------------------------------
(* Closing: ClosePosition on a signal, ExitNow for the exit agent.         *)

(* ExitNow starts on a VP that is 'open' in the database.  The exit agent  *)
(* runs from before the boot recovery on, so the phase does not matter.    *)
ExitNow(a, v) ==
  /\ a \in Agents /\ proc[a].pc = "idle"
  /\ st[v] = "open"
  /\ Move(a, "cancel", v, "none", Legs)
  /\ UNCHANGED <<dbVars, exVars, rec, hbVars, faults>>

(* Cancel of one leg and UPDATE of its row; without its client id neither  *)
(* is tried.  The errors are dropped, and the row says 'canceled' whatever *)
(* the exchange did: for a leg that is not Routed the request goes to the  *)
(* wrong endpoint, whose "Unknown order" is swallowed.                     *)
CancelOnExchange(v, l) ==
  IF l \in Routed /\ xord[v][l] = "live"
    THEN xord' = [xord EXCEPT ![v][l] = "canceled"]
    ELSE UNCHANGED xord
MarkOrderCancelled(v, l) ==  \* mutant: a status order_status does not have
  ord' = [ord EXCEPT ![v][l] = "cancelled"]
MarkOrderCanceled(v, l) == ord' = [ord EXCEPT ![v][l] = "canceled"]

CancelLeg(a) ==
  /\ proc[a].pc = "cancel" /\ proc[a].legs # {}
  /\ LET v == proc[a].v
         l == FirstLeg(proc[a].legs)
     IN \/ NoFault /\ CancelOnExchange(v, l) /\ MarkOrderCanceled(v, l)
        \/ Fault /\ UNCHANGED xord /\ MarkOrderCanceled(v, l)
        \/ Fault /\ CancelOnExchange(v, l) /\ UNCHANGED ord
        \/ Fault /\ UNCHANGED <<xord, ord>>
  /\ NextLeg(a)
  /\ UNCHANGED <<rowVars, hist, booked, pos, rec, hbVars>>

ExitOrder(a) == IF a \in Agents THEN "ea-exit" ELSE "exit"

(* The reduce-only market exit fills.  ExitNow is done here; ClosePosition *)
(* still has its transaction to run.                                       *)
ExitFilled(a) ==
  /\ proc[a].pc = "cancel" /\ proc[a].legs = {}
  /\ CanReduce(proc[a].v)
  /\ Reduce(proc[a].v)
  /\ xord' = [xord EXCEPT ![proc[a].v][ExitOrder(a)] = "filled"]
  /\ IF a \in Agents THEN Finish(a) ELSE Move(a, "tx", proc[a].v, proc[a].side, {})
  /\ UNCHANGED <<dbVars, rec, hbVars, faults>>

(* The exchange rejects a reduce-only order that has nothing to reduce;    *)
(* any other error may come with or without the order being executed.  The *)
(* legs stay cancelled and the VP stays open.                              *)
ExitFails(a) ==
  /\ proc[a].pc = "cancel" /\ proc[a].legs = {}
  /\ \/ ~CanReduce(proc[a].v) /\ NoFault /\ UNCHANGED exVars
     \/ CanReduce(proc[a].v) /\ Fault /\ UNCHANGED exVars
     \/ /\ CanReduce(proc[a].v) /\ Fault
        /\ Reduce(proc[a].v)
        /\ xord' = [xord EXCEPT ![proc[a].v][ExitOrder(a)] = "filled"]
  /\ Finish(a)
  /\ UNCHANGED <<dbVars, rec, hbVars>>

(* The transaction of ClosePosition: exit row, MarkClosed, history row and *)
(* daily PnL together.  MarkClosed does not look at the status it replaces. *)
CloseCommits(p) ==
  /\ proc[p].pc = "tx"
  /\ st' = [st EXCEPT ![proc[p].v] = "closed"]
  /\ hist' = [hist EXCEPT ![proc[p].v] = OneMore(@)]
  /\ booked' = [booked EXCEPT ![proc[p].v] = OneMore(@)]
  /\ IF proc[p].side \in Sides
       THEN Move(p, "insert", NoVP, proc[p].side, {})
       ELSE Finish(p)
  /\ UNCHANGED <<owner, side, ord, exVars, rec, hbVars, faults>>

(* Mutant: AddDailyPnL runs outside the transaction and survives it.       *)
BookedAllTheSame(p) ==
  /\ proc[p].pc = "tx"
  /\ Fault
  /\ booked' = [booked EXCEPT ![proc[p].v] = OneMore(@)]
  /\ Finish(p)
  /\ UNCHANGED <<rowVars, ord, hist, exVars, rec, hbVars>>

CloseCommitFails(p) ==
  /\ proc[p].pc = "tx"
  /\ Fault
  /\ Finish(p)
  /\ UNCHANGED <<dbVars, exVars, rec, hbVars>>

----------------------------------------------------------------------------
(* The Reconciler.                                                         *)

(* A tick lists the orders that are not final and walks the list, in no    *)
(* particular order.  For a leg that is not Routed GetOrder asks where the *)
(* order never was and reconcileOne returns the error, so the walk passes  *)
(* over it without any effect.                                             *)
RecStart ==
  /\ phase = "run" /\ rec.pc = "idle"
  /\ LET pending == {x \in VPs \X Routed : ord[x[1]][x[2]] = "submitted"}
     IN pending # {} /\ rec' = [pc |-> "next", todo |-> pending, v |-> NoVP]
  /\ UNCHANGED <<dbVars, exVars, proc, hbVars, faults>>

RecDrop(x) ==
  LET left == rec.todo \ {x}
  IN rec' = [pc |-> IF left = {} THEN "idle" ELSE "next", todo |-> left, v |-> NoVP]

(* GetOrder fails, or the status is what the row already says.             *)
RecSkip(x) ==
  /\ rec.pc = "next" /\ x \in rec.todo
  /\ \/ xord[x[1]][x[2]] = "live" /\ NoFault
     \/ Fault
  /\ RecDrop(x)
  /\ UNCHANGED <<dbVars, exVars, proc, hbVars>>

(* GetOrder reports an order that died unfilled; its row follows.          *)
RecDied(x) ==
  /\ rec.pc = "next" /\ x \in rec.todo
  /\ xord[x[1]][x[2]] \in {"canceled", "expired"}
  /\ ord' = [ord EXCEPT ![x[1]][x[2]] = xord[x[1]][x[2]]]
  /\ RecDrop(x)
  /\ UNCHANGED <<rowVars, hist, booked, exVars, proc, hbVars, faults>>

(* Mutant: every final status is taken for a fill.                         *)
RecFinalIsFill(x) ==
  /\ rec.pc = "next" /\ x \in rec.todo
  /\ xord[x[1]][x[2]] \in {"filled", "canceled", "expired"}
  /\ ord' = [ord EXCEPT ![x[1]][x[2]] = "filled"]
  /\ rec' = [pc |-> "load", todo |-> rec.todo \ {x}, v |-> x[1]]
  /\ UNCHANGED <<rowVars, hist, booked, exVars, proc, hbVars, faults>>

(* GetOrder reports a fill and UpdateOnFill records it.                    *)
RecFill(x) ==
  /\ rec.pc = "next" /\ x \in rec.todo
  /\ xord[x[1]][x[2]] = "filled"
  /\ ord' = [ord EXCEPT ![x[1]][x[2]] = "filled"]
  /\ rec' = [pc |-> "load", todo |-> rec.todo \ {x}, v |-> x[1]]
  /\ UNCHANGED <<rowVars, hist, booked, exVars, proc, hbVars, faults>>

RecNextOrder ==
  rec' = [pc |-> IF rec.todo = {} THEN "idle" ELSE "next", todo |-> rec.todo, v |-> NoVP]

(* GetByID: a VP that is already closed is left alone.  If the read fails  *)
(* the fill has been recorded and no later tick will look at it again.     *)
RecLoad ==
  /\ rec.pc = "load"
  /\ \/ st[rec.v] # "closed" /\ rec' = [pc |-> "mark", todo |-> rec.todo, v |-> rec.v] /\ NoFault
     \/ st[rec.v] = "closed" /\ RecNextOrder /\ NoFault
     \/ Fault /\ RecNextOrder
  /\ UNCHANGED <<dbVars, exVars, proc, hbVars>>

(* MarkClosed; its error is logged and the history row written all the same. *)
RecMark ==
  /\ rec.pc = "mark"
  /\ \/ st' = [st EXCEPT ![rec.v] = "closed"] /\ NoFault
     \/ UNCHANGED st /\ Fault
  /\ rec' = [pc |-> "history", todo |-> rec.todo, v |-> rec.v]
  /\ UNCHANGED <<owner, side, ord, hist, booked, exVars, proc, hbVars>>

RecHistory ==
  /\ rec.pc = "history"
  /\ \/ hist' = [hist EXCEPT ![rec.v] = OneMore(@)] /\ NoFault
     \/ UNCHANGED hist /\ Fault
  /\ RecNextOrder
  /\ UNCHANGED <<rowVars, ord, booked, exVars, proc, hbVars>>

----------------------------------------------------------------------------
(* Recovery: one pass at boot, then one every two minutes.                 *)

(* Mutant: Recovery runs at boot only.                                     *)
HbStartAtBoot ==
  /\ hb.pc = "idle" /\ phase = "boot"
  /\ hb' = [pc |-> "scan", todo |-> OpenVPs, syms |-> {Sym(v) : v \in OpenVPs}, v |-> NoVP]
  /\ flagged' = {}
  /\ UNCHANGED <<dbVars, exVars, proc, rec, phase, faults>>

(* The pass lists the active VPs, then their symbols; an error of the      *)
(* second query is dropped and leaves the set of symbols empty.            *)
HbStart ==
  /\ hb.pc = "idle"
  /\ \E S \in {{Sym(v) : v \in OpenVPs}, {}} :
       /\ hb' = [pc |-> "scan", todo |-> OpenVPs, syms |-> S, v |-> NoVP]
       /\ IF S = {Sym(v) : v \in OpenVPs} THEN NoFault ELSE Fault
  /\ flagged' = {}
  /\ UNCHANGED <<dbVars, exVars, proc, rec, phase>>

(* findOfflineExitFill syncs the row of the first leg reported filled.     *)
FilledLegs(v) == {l \in Legs \cap Routed : xord[v][l] = "filled"}
SyncFilledLeg(v) ==
  IF FilledLegs(v) = {} THEN UNCHANGED ord
  ELSE ord' = [ord EXCEPT ![v][FirstLeg(FilledLegs(v))] = "filled"]

(* Mutant: the VP is closed without asking the exchange first.             *)
HbClosesUnasked(v) ==
  /\ hb.pc = "scan" /\ v \in hb.todo
  /\ SyncFilledLeg(v)
  /\ HbMove("mark", v, hb.todo \ {v})
  /\ UNCHANGED <<rowVars, hist, booked, exVars, proc, rec, flagged, phase, faults>>

(* The exchange is flat on the VP's symbol.  The close data comes from a   *)
(* filled leg or from the income records; without either (or when the      *)
(* realised PnL is zero) there is no history row to write.  The VP's own   *)
(* status is not looked at again.                                          *)
HbFlat(v) ==
  /\ hb.pc = "scan" /\ v \in hb.todo
  /\ pos[Sym(v)] = 0
  /\ \/ /\ SyncFilledLeg(v)
        /\ HbMove("mark", v, hb.todo \ {v})
        /\ NoFault
     \/ /\ UNCHANGED ord
        /\ HbMove("markOnly", v, hb.todo \ {v})
        /\ Fault
  /\ UNCHANGED <<rowVars, hist, booked, exVars, proc, rec, flagged, phase>>

(* The exchange is not flat: it matches the VP, or an alert says it does   *)
(* not; and if it cannot be asked, an alert says that.                     *)
HbNotFlat(v) ==
  /\ hb.pc = "scan" /\ v \in hb.todo
  /\ \/ pos[Sym(v)] = Dir(side[v]) /\ UNCHANGED flagged /\ NoFault
     \/ pos[Sym(v)] \notin {0, Dir(side[v])} /\ flagged' = flagged \cup {Sym(v)} /\ NoFault
     \/ Fault /\ flagged' = flagged \cup {Sym(v)}
  /\ HbMove("scan", NoVP, hb.todo \ {v})
  /\ UNCHANGED <<dbVars, exVars, proc, rec, phase>>

HbMark ==
  /\ hb.pc \in {"mark", "markOnly"}
  /\ \/ /\ st' = [st EXCEPT ![hb.v] = "closed"]
        /\ IF hb.pc = "mark" THEN HbMove("history", hb.v, hb.todo)
                             ELSE HbMove("scan", NoVP, hb.todo)
        /\ UNCHANGED flagged /\ NoFault
     \/ /\ UNCHANGED st
        /\ HbMove("scan", NoVP, hb.todo)
        /\ flagged' = flagged \cup {Sym(hb.v)} /\ Fault
  /\ UNCHANGED <<owner, side, ord, hist, booked, exVars, proc, rec, phase>>

HbHistory ==
  /\ hb.pc = "history"
  /\ \/ hist' = [hist EXCEPT ![hb.v] = OneMore(@)] /\ NoFault
     \/ UNCHANGED hist /\ Fault
  /\ HbMove("scan", NoVP, hb.todo)
  /\ UNCHANGED <<rowVars, ord, booked, exVars, proc, rec, flagged, phase>>

(* Mutant: the pass ends without the ghost check.                          *)
HbNoGhosts ==
  /\ hb.pc = "scan" /\ hb.todo = {}
  /\ hb' = IdleHb
  /\ phase' = "run"
  /\ UNCHANGED <<dbVars, exVars, proc, rec, flagged, faults>>

(* The ghost check ends the pass: AllPositions against the symbols that    *)
(* were active when the pass began.  If it fails the check is skipped.     *)
HbGhosts ==
  /\ hb.pc = "scan" /\ hb.todo = {}
  /\ \/ flagged' = flagged \cup {s \in Symbols : pos[s] # 0 /\ s \notin hb.syms} /\ NoFault
     \/ UNCHANGED flagged /\ Fault
  /\ hb' = IdleHb
  /\ phase' = "run"
  /\ UNCHANGED <<dbVars, exVars, proc, rec>>

----------------------------------------------------------------------------
(* The exchange, the operator, and the end of the process.                 *)

(* A live leg's price is touched.  It fills if it can reduce the net       *)
(* position of its symbol, whoever's that is, and expires otherwise.       *)
LegTriggers(v, l) ==
  /\ xord[v][l] = "live"
  /\ IF CanReduce(v)
       THEN Reduce(v) /\ xord' = [xord EXCEPT ![v][l] = "filled"]
       ELSE UNCHANGED pos /\ xord' = [xord EXCEPT ![v][l] = "expired"]
  /\ UNCHANGED <<dbVars, proc, rec, hbVars, faults>>

(* The operator closes a position on the exchange's own pages.             *)
ManualClose(s) ==
  /\ pos[s] # 0
  /\ Fault
  /\ pos' = [pos EXCEPT ![s] = 0]
  /\ UNCHANGED <<dbVars, xord, proc, rec, hbVars>>

(* The process dies and starts again: goroutines are gone, transactions    *)
(* that had not committed are rolled back.                                 *)
Crash ==
  /\ Fault
  /\ st' = [v \in VPs |-> IF st[v] = "opening" THEN "void" ELSE st[v]]
  /\ proc' = [a \in Actors |-> IdleProc]
  /\ rec' = IdleRec
  /\ hb' = IdleHb
  /\ flagged' = {}
  /\ phase' = "boot"
  /\ UNCHANGED <<owner, side, ord, hist, booked, exVars>>

----------------------------------------------------------------------------
OpenStep(p) ==
  Insert(p) \/ InsertFails(p) \/ EntryFilled(p) \/ EntryFails(p) \/ LegPlaced(p)
    \/ LegFails(p) \/ OpenCommits(p) \/ OpenCommitFails(p)
CloseStep(a) ==
  CancelLeg(a) \/ ExitFilled(a) \/ ExitFails(a) \/ CloseCommits(a) \/ CloseCommitFails(a)
ActorStep(a) == (a \in Procs /\ OpenStep(a)) \/ CloseStep(a)

RecNext ==
  \/ RecStart
  \/ \E x \in rec.todo : RecSkip(x) \/ RecDied(x) \/ RecFill(x)
  \/ RecLoad \/ RecMark \/ RecHistory
HbNext ==
  \/ HbStart
  \/ \E v \in hb.todo : HbFlat(v) \/ HbNotFlat(v)
  \/ HbMark \/ HbHistory \/ HbGhosts

Next ==
  \/ \E p \in Procs, k \in Kinds : Load(p, k)
  \/ \E a \in Agents, v \in VPs : ExitNow(a, v)
  \/ \E a \in Actors : ActorStep(a)
  \/ RecNext
  \/ HbNext
  \/ \E v \in VPs, l \in Legs : LegTriggers(v, l)
  \/ \E s \in Symbols : ManualClose(s)
  \/ Crash

Spec == Init /\ [][Next]_vars

(* Every call has a timeout, so a goroutine that has begun goes on; the    *)
(* tickers of the Reconciler and of Recovery keep firing.  Nothing makes a *)
(* signal arrive, a price move or an operator act.                         *)
Fairness ==
  /\ \A a \in Actors : WF_vars(ActorStep(a))
  /\ WF_vars(RecNext)
  /\ WF_vars(HbNext)
FairSpec == Spec /\ Fairness

----------------------------------------------------------------------------
(* Every variable has its type, and a goroutine that acts on a VP holds    *)
(* one: the states the rows, the exchange and the goroutines of            *)
(* internal/application can be in.                                         *)
RowStatus == {"none", "opening", "open", "closed", "void"}
OrderStatus == {"none", "submitted", "filled", "canceled", "expired"}
ExchangeStatus == {"none", "live", "filled", "canceled", "expired"}
ProcRecords ==
  [pc : {"idle"}, v : {NoVP}, side : {"none"}, legs : {{}}]
    \cup [pc : {"insert"}, v : {NoVP}, side : Sides, legs : {{}}]
    \cup [pc : {"entry", "legs", "cancel", "tx"}, v : VPs,
          side : Sides \cup {"none"}, legs : SUBSET Legs]
RecRecords ==
  [pc : {"idle", "next"}, todo : SUBSET (VPs \X Legs), v : {NoVP}]
    \cup [pc : {"load", "mark", "history"}, todo : SUBSET (VPs \X Legs), v : VPs]
HbRecords ==
  [pc : {"idle", "scan"}, todo : SUBSET VPs, syms : SUBSET Symbols, v : {NoVP}]
    \cup [pc : {"mark", "markOnly", "history"}, todo : SUBSET VPs,
          syms : SUBSET Symbols, v : VPs]

TypeOK ==
  /\ st \in [VPs -> RowStatus]
  /\ owner \in [VPs -> Strategies]
  /\ side \in [VPs -> Sides]
  /\ ord \in [VPs -> [Legs -> OrderStatus]]
  /\ hist \in [VPs -> 0..2] /\ booked \in [VPs -> 0..2]
  /\ xord \in [VPs -> [Orders -> ExchangeStatus]]
  /\ pos \in [Symbols -> Int]
  /\ proc \in [Actors -> ProcRecords]
  /\ rec \in RecRecords
  /\ hb \in HbRecords
  /\ flagged \subseteq Symbols
  /\ phase \in {"boot", "run"}
  /\ faults \in 0..MaxFaults

(* A symbol carries exposure of a rolled back VP: OpenPosition returned an *)
(* error after its entry order had been executed.                          *)
Orphaned(s) == \E v \in VPs : Sym(v) = s /\ st[v] = "void" /\ xord[v]["entry"] = "filled"

(* No exposure without an owner: a symbol whose net position is not zero   *)
(* has an active VP of exactly that side and size, unless OpenPosition     *)
(* gave up after its entry order was executed.  So none of the closing     *)
(* paths (ClosePosition, ExitNow, the Reconciler, the heartbeat, a crash   *)
(* between any two of their steps) marks a VP closed that still has        *)
(* exposure.                                                               *)
ExposureHasOwner ==
  \A s \in Symbols :
    pos[s] # 0 /\ ~Orphaned(s) =>
      \E v \in ActiveVPs : Sym(v) = s /\ pos[s] = Dir(side[v])

(* While an open VP's exposure is on the exchange at least one of its      *)
(* protective legs is live there, however many failed closes, crashes and  *)
(* reconciliations it went through.                                        *)
Protected ==
  \A v \in OpenVPs :
    pos[Sym(v)] = Dir(side[v]) /\ ~Orphaned(Sym(v)) =>
      \E l \in Legs : xord[v][l] = "live"

(* The PnL of a VP enters daily_pnl_usdc at most once, although a close    *)
(* whose transaction failed may be tried again.                            *)
BookedAtMostOnce == \A v \in VPs : booked[v] <= 1

(* What the committed rows say the net position of a symbol is.            *)
Book(s) ==
  Cardinality({v \in OpenVPs : Sym(v) = s /\ side[v] = "long"})
    - Cardinality({v \in OpenVPs : Sym(v) = s /\ side[v] = "short"})

(* A VP that the database holds open while the exchange is flat is closed  *)
(* sooner or later, whatever closed the position on the exchange: this is  *)
(* what RunPeriodic is there for.                                          *)
Reconciled ==
  \A v \in VPs : (st[v] = "open" /\ pos[Sym(v)] = 0) ~> (st[v] # "open")

(* Rows and exchange that disagree about a symbol come to agree, or        *)
(* Recovery raises an alert about the symbol (Recovery.Run: "all active    *)
(* virtual_positions match reality (or anomalies are flagged)").           *)
AnomalyFlagged ==
  \A s \in Symbols : (pos[s] # Book(s)) ~> (pos[s] = Book(s) \/ s \in flagged)

----------------------------------------------------------------------------
(* What comments, the migrations and the README say, and the code does not *)
(* do; each is refuted by a run of its own.                                *)

(* position_history has one row per completed open and close: the          *)
(* Reconciler is "idempotent if recovery or another tick already closed it". *)
HistoryOnce == \A v \in VPs : hist[v] <= 1

(* daily_pnl_usdc is the day's accumulated result: a VP whose close went   *)
(* into position_history is in it.                                         *)
ClosedIsBooked ==
  \A v \in VPs : st[v] = "closed" /\ hist[v] > 0 => booked[v] > 0

(* Cancel and GetOrder "dispatch to the matching API": after a cancel that *)
(* met no fault an order whose row says 'canceled' is not live any more.   *)
CanceledIsCanceled ==
  faults = 0 => \A v \in VPs, l \in Legs : ord[v][l] = "canceled" => xord[v][l] # "live"

(* Strategies sharing a symbol are isolated: a VP is closed in the         *)
(* database only when one of its own exits has filled (or an operator      *)
(* closed the position by hand).                                           *)
SharedSymbolIsolated ==
  faults = 0 => \A v \in VPs : st[v] = "closed" =>
                  \E o \in Orders \ {"entry"} : xord[v][o] = "filled"

============================================================================
