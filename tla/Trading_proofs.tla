-------------------------- MODULE Trading_proofs ---------------------------
(***************************************************************************)
(* The type invariant of Trading, for every number of strategies, symbols, *)
(* VPs, goroutines and faults.                                             *)
(***************************************************************************)
EXTENDS Trading, TLAPS

USE DEF NoVP, Sides, AllLegs

----------------------------------------------------------------------------
(* Small facts about the operators.                                        *)

LEMMA FirstLegIn == ASSUME NEW S \in SUBSET Legs, S # {} PROVE FirstLeg(S) \in S
BY ConstantsAssumption DEF FirstLeg

LEMMA VPFacts == VPs \subseteq Nat \ {0} /\ NoVP \notin VPs
BY ConstantsAssumption DEF VPs

LEMMA SymType == ASSUME TypeOK, NEW v \in VPs PROVE Sym(v) \in Symbols
BY ConstantsAssumption DEF Sym, TypeOK

LEMMA LegsAreOrders == Legs \subseteq Orders
BY DEF Orders

(* What a goroutine that is not idle works on.                             *)
LEMMA ProcType ==
  ASSUME TypeOK, NEW a \in Actors
  PROVE  /\ proc[a] \in ProcRecords
         /\ proc[a].legs \subseteq Legs
         /\ proc[a].side \in Sides \cup {"none"}
         /\ proc[a].pc = "insert" => proc[a].side \in Sides
         /\ proc[a].pc \in {"entry", "legs", "cancel", "tx"} => proc[a].v \in VPs
BY DEF TypeOK, ProcRecords

LEMMA FinishType ==
  ASSUME TypeOK, NEW a \in Actors, Finish(a)
  PROVE  proc' \in [Actors -> ProcRecords]
<1>1. IdleProc \in ProcRecords
  BY DEF IdleProc, ProcRecords
<1> QED
  BY <1>1 DEF TypeOK, Finish

LEMMA MoveType ==
  ASSUME TypeOK, NEW a \in Actors, NEW l, NEW v, NEW d, NEW S \in SUBSET Legs,
         Move(a, l, v, d, S),
         \/ l = "insert" /\ v = NoVP /\ d \in Sides /\ S = {}
         \/ l \in {"entry", "legs", "cancel", "tx"} /\ v \in VPs /\ d \in Sides \cup {"none"}
  PROVE  proc' \in [Actors -> ProcRecords]
<1>1. [pc |-> l, v |-> v, side |-> d, legs |-> S] \in ProcRecords
  BY DEF ProcRecords
<1> QED
  BY <1>1 DEF TypeOK, Move

LEMMA NextLegType ==
  ASSUME TypeOK, NEW a \in Actors, proc[a].pc \in {"legs", "cancel"}, NextLeg(a)
  PROVE  proc' \in [Actors -> ProcRecords]
<1>1. proc[a].legs \ {FirstLeg(proc[a].legs)} \in SUBSET Legs
  BY ProcType
<1> QED
  BY <1>1, ProcType, MoveType DEF NextLeg

(* Writing one order, one order row, one counter, one position.            *)
LEMMA ExchangeWrite ==
  ASSUME TypeOK, NEW v, NEW o, NEW x \in ExchangeStatus,
         xord' = [xord EXCEPT ![v][o] = x]
  PROVE  xord' \in [VPs -> [Orders -> ExchangeStatus]]
<1>1. ASSUME v \in VPs PROVE [xord[v] EXCEPT ![o] = x] \in [Orders -> ExchangeStatus]
  BY <1>1 DEF TypeOK
<1> QED
  BY <1>1 DEF TypeOK

LEMMA OrderWrite ==
  ASSUME TypeOK, NEW v, NEW l, NEW x \in OrderStatus,
         ord' = [ord EXCEPT ![v][l] = x]
  PROVE  ord' \in [VPs -> [Legs -> OrderStatus]]
<1>1. ASSUME v \in VPs PROVE [ord[v] EXCEPT ![l] = x] \in [Legs -> OrderStatus]
  BY <1>1 DEF TypeOK
<1> QED
  BY <1>1 DEF TypeOK

LEMMA PositionWrite ==
  ASSUME TypeOK, NEW v, Enter(v) \/ Reduce(v)
  PROVE  pos' \in [Symbols -> Int]
<1>1. Dir(side[v]) \in {1, -1}
  BY DEF Dir
<1> QED
  BY <1>1 DEF TypeOK, Enter, Reduce

LEMMA CountWrite == ASSUME NEW n \in 0..2 PROVE OneMore(n) \in 0..2
BY DEF OneMore

LEMMA FaultType == ASSUME TypeOK, Fault \/ NoFault PROVE faults' \in 0..MaxFaults
BY ConstantsAssumption DEF TypeOK, Fault, NoFault

LEMMA RollbackType ==
  ASSUME TypeOK, NEW p \in Actors, Rollback(p)
  PROVE  st' \in [VPs -> RowStatus] /\ proc' \in [Actors -> ProcRecords]
BY FinishType DEF Rollback, TypeOK, RowStatus

LEMMA RecNextOrderType ==
  ASSUME TypeOK, RecNextOrder
  PROVE  rec' \in RecRecords
BY DEF TypeOK, RecNextOrder, RecRecords

LEMMA HbMoveType ==
  ASSUME TypeOK, NEW l, NEW v, NEW S \in SUBSET VPs, HbMove(l, v, S),
         \/ l = "scan" /\ v = NoVP
         \/ l \in {"mark", "markOnly", "history"} /\ v \in VPs
  PROVE  hb' \in HbRecords
BY DEF TypeOK, HbMove, HbRecords

LEMMA RecType ==
  ASSUME TypeOK
  PROVE  /\ rec.todo \subseteq VPs \X Legs
         /\ rec.pc \in {"load", "mark", "history"} => rec.v \in VPs
BY DEF TypeOK, RecRecords

LEMMA HbType ==
  ASSUME TypeOK
  PROVE  /\ hb.todo \subseteq VPs
         /\ hb.pc \in {"mark", "markOnly", "history"} => hb.v \in VPs
BY DEF TypeOK, HbRecords

----------------------------------------------------------------------------
(* Type correctness.                                                       *)

LEMMA TypeInit == Init => TypeOK
<1> SUFFICES ASSUME Init PROVE TypeOK
  OBVIOUS
<1>1. (CHOOSE s \in Strategies : TRUE) \in Strategies
  BY ConstantsAssumption
<1>2. proc \in [Actors -> ProcRecords]
  BY DEF Init, IdleProc, ProcRecords
<1>3. rec \in RecRecords /\ hb \in HbRecords
  BY DEF Init, IdleRec, IdleHb, RecRecords, HbRecords
<1>4. faults \in 0..MaxFaults
  BY ConstantsAssumption DEF Init
<1> QED
  BY <1>1, <1>2, <1>3, <1>4 DEF Init, TypeOK, RowStatus, OrderStatus, ExchangeStatus

LEMMA TypeStep == TypeOK /\ [Next]_vars => TypeOK'
<1> SUFFICES ASSUME TypeOK, [Next]_vars PROVE TypeOK'
  OBVIOUS
<1>1. ASSUME NEW p \in Procs, NEW k \in Kinds, Load(p, k) PROVE TypeOK'
  <2>1. proc' \in [Actors -> ProcRecords]
    BY <1>1, MoveType DEF Load, Decide, Kinds, OpenOf, OpenVPs, Actors
  <2> QED
    BY <1>1, <2>1 DEF TypeOK, Load, dbVars, rowVars, exVars, hbVars
<1>2. ASSUME NEW a \in Agents, NEW v \in VPs, ExitNow(a, v) PROVE TypeOK'
  <2>1. proc' \in [Actors -> ProcRecords]
    BY <1>2, MoveType DEF ExitNow, Actors
  <2> QED
    BY <1>2, <2>1 DEF TypeOK, ExitNow, dbVars, rowVars, exVars, hbVars
<1>3. ASSUME NEW p \in Procs, Insert(p) PROVE TypeOK'
  <2>1. proc' \in [Actors -> ProcRecords]
    BY <1>3, ProcType, MoveType DEF Insert, Fresh, Actors
  <2>2. st' \in [VPs -> RowStatus] /\ side' \in [VPs -> Sides]
    BY <1>3, ProcType DEF Insert, Fresh, Actors, TypeOK, RowStatus
  <2>3. owner' \in [VPs -> Strategies]
    BY <1>3, ConstantsAssumption DEF Insert, Fresh, TypeOK
  <2> QED
    BY <1>3, <2>1, <2>2, <2>3 DEF TypeOK, Insert, dbVars, rowVars, exVars, hbVars
<1>4. ASSUME NEW p \in Procs, InsertFails(p) PROVE TypeOK'
  BY <1>4, FinishType DEF TypeOK, InsertFails, Actors, dbVars, rowVars, exVars, hbVars
<1>5. ASSUME NEW p \in Procs, EntryFilled(p) PROVE TypeOK'
  <2>1. proc' \in [Actors -> ProcRecords]
    BY <1>5, ProcType, MoveType DEF EntryFilled, Actors
  <2>2. xord' \in [VPs -> [Orders -> ExchangeStatus]]
    BY <1>5, ExchangeWrite DEF EntryFilled, ExchangeStatus
  <2>3. pos' \in [Symbols -> Int]
    BY <1>5, PositionWrite DEF EntryFilled
  <2> QED
    BY <1>5, <2>1, <2>2, <2>3 DEF TypeOK, EntryFilled, dbVars, rowVars, exVars, hbVars
<1>6. ASSUME NEW p \in Procs, EntryFails(p) PROVE TypeOK'
  <2>1. st' \in [VPs -> RowStatus] /\ proc' \in [Actors -> ProcRecords]
    BY <1>6, RollbackType DEF EntryFails, Actors
  <2>2. xord' \in [VPs -> [Orders -> ExchangeStatus]]
    BY <1>6, ExchangeWrite DEF EntryFails, ExchangeStatus, exVars, TypeOK
  <2>3. pos' \in [Symbols -> Int]
    BY <1>6, PositionWrite DEF EntryFails, exVars, TypeOK
  <2>4. faults' \in 0..MaxFaults
    BY <1>6, FaultType DEF EntryFails
  <2> QED
    BY <1>6, <2>1, <2>2, <2>3, <2>4 DEF TypeOK, EntryFails, Rollback, dbVars, rowVars, exVars, hbVars
<1>7. ASSUME NEW p \in Procs, LegPlaced(p) PROVE TypeOK'
  <2>1. proc' \in [Actors -> ProcRecords]
    BY <1>7, NextLegType DEF LegPlaced, Actors
  <2>2. xord' \in [VPs -> [Orders -> ExchangeStatus]]
    BY <1>7, ExchangeWrite DEF LegPlaced, ExchangeStatus
  <2> QED
    BY <1>7, <2>1, <2>2 DEF TypeOK, LegPlaced, dbVars, rowVars, exVars, hbVars
<1>8. ASSUME NEW p \in Procs, LegFails(p) PROVE TypeOK'
  <2>1. st' \in [VPs -> RowStatus] /\ proc' \in [Actors -> ProcRecords]
    BY <1>8, RollbackType DEF LegFails, Actors
  <2>2. xord' \in [VPs -> [Orders -> ExchangeStatus]]
    BY <1>8, ExchangeWrite DEF LegFails, ExchangeStatus, TypeOK
  <2>3. faults' \in 0..MaxFaults
    BY <1>8, FaultType DEF LegFails
  <2> QED
    BY <1>8, <2>1, <2>2, <2>3 DEF TypeOK, LegFails, Rollback, dbVars, rowVars, exVars, hbVars
<1>9. ASSUME NEW p \in Procs, OpenCommits(p) PROVE TypeOK'
  <2>1. proc' \in [Actors -> ProcRecords]
    BY <1>9, FinishType DEF OpenCommits, Actors
  <2>2. ord' \in [VPs -> [Legs -> OrderStatus]]
    BY <1>9 DEF OpenCommits, TypeOK, OrderStatus
  <2>3. st' \in [VPs -> RowStatus]
    BY <1>9 DEF OpenCommits, TypeOK, RowStatus
  <2> QED
    BY <1>9, <2>1, <2>2, <2>3 DEF TypeOK, OpenCommits, dbVars, rowVars, exVars, hbVars
<1>10. ASSUME NEW p \in Procs, OpenCommitFails(p) PROVE TypeOK'
  <2>1. st' \in [VPs -> RowStatus] /\ proc' \in [Actors -> ProcRecords]
    BY <1>10, RollbackType DEF OpenCommitFails, Actors
  <2>2. faults' \in 0..MaxFaults
    BY <1>10, FaultType DEF OpenCommitFails
  <2> QED
    BY <1>10, <2>1, <2>2 DEF TypeOK, OpenCommitFails, Rollback, dbVars, rowVars, exVars, hbVars
<1>11. ASSUME NEW a \in Actors, CancelLeg(a) PROVE TypeOK'
  <2>1. proc' \in [Actors -> ProcRecords]
    BY <1>11, NextLegType DEF CancelLeg
  <2>2. xord' \in [VPs -> [Orders -> ExchangeStatus]]
    BY <1>11, ExchangeWrite DEF CancelLeg, CancelOnExchange, ExchangeStatus, TypeOK
  <2>3. ord' \in [VPs -> [Legs -> OrderStatus]]
    BY <1>11, OrderWrite DEF CancelLeg, MarkOrderCanceled, OrderStatus, TypeOK
  <2>4. faults' \in 0..MaxFaults
    BY <1>11, FaultType DEF CancelLeg
  <2> QED
    BY <1>11, <2>1, <2>2, <2>3, <2>4 DEF TypeOK, CancelLeg, dbVars, rowVars, exVars, hbVars
<1>12. ASSUME NEW a \in Actors, ExitFilled(a) PROVE TypeOK'
  <2>1. proc' \in [Actors -> ProcRecords]
    BY <1>12, ProcType, MoveType, FinishType DEF ExitFilled
  <2>2. xord' \in [VPs -> [Orders -> ExchangeStatus]]
    BY <1>12, ExchangeWrite DEF ExitFilled, ExchangeStatus
  <2>3. pos' \in [Symbols -> Int]
    BY <1>12, PositionWrite DEF ExitFilled
  <2> QED
    BY <1>12, <2>1, <2>2, <2>3 DEF TypeOK, ExitFilled, dbVars, rowVars, exVars, hbVars
<1>13. ASSUME NEW a \in Actors, ExitFails(a) PROVE TypeOK'
  <2>1. proc' \in [Actors -> ProcRecords]
    BY <1>13, FinishType DEF ExitFails
  <2>2. xord' \in [VPs -> [Orders -> ExchangeStatus]]
    BY <1>13, ExchangeWrite DEF ExitFails, ExchangeStatus, exVars, TypeOK
  <2>3. pos' \in [Symbols -> Int]
    BY <1>13, PositionWrite DEF ExitFails, exVars, TypeOK
  <2>4. faults' \in 0..MaxFaults
    BY <1>13, FaultType DEF ExitFails
  <2> QED
    BY <1>13, <2>1, <2>2, <2>3, <2>4 DEF TypeOK, ExitFails, dbVars, rowVars, exVars, hbVars
<1>14. ASSUME NEW p \in Actors, CloseCommits(p) PROVE TypeOK'
  <2>1. proc' \in [Actors -> ProcRecords]
    BY <1>14, MoveType, FinishType DEF CloseCommits
  <2>2. st' \in [VPs -> RowStatus]
    BY <1>14 DEF CloseCommits, TypeOK, RowStatus
  <2>3. hist' \in [VPs -> 0..2] /\ booked' \in [VPs -> 0..2]
    BY <1>14, CountWrite DEF CloseCommits, TypeOK
  <2> QED
    BY <1>14, <2>1, <2>2, <2>3 DEF TypeOK, CloseCommits, dbVars, rowVars, exVars, hbVars
<1>15. ASSUME NEW p \in Actors, CloseCommitFails(p) PROVE TypeOK'
  <2>1. proc' \in [Actors -> ProcRecords]
    BY <1>15, FinishType DEF CloseCommitFails
  <2>2. faults' \in 0..MaxFaults
    BY <1>15, FaultType DEF CloseCommitFails
  <2> QED
    BY <1>15, <2>1, <2>2 DEF TypeOK, CloseCommitFails, dbVars, rowVars, exVars, hbVars
<1>16. ASSUME RecStart PROVE TypeOK'
  <2>1. rec' \in RecRecords
    BY <1>16, ConstantsAssumption DEF RecStart, RecRecords
  <2> QED
    BY <1>16, <2>1 DEF TypeOK, RecStart, dbVars, rowVars, exVars, hbVars
<1>17. ASSUME NEW x \in rec.todo, RecSkip(x) PROVE TypeOK'
  <2>1. rec' \in RecRecords
    BY <1>17 DEF RecSkip, RecDrop, TypeOK, RecRecords
  <2>2. faults' \in 0..MaxFaults
    BY <1>17, FaultType DEF RecSkip
  <2> QED
    BY <1>17, <2>1, <2>2 DEF TypeOK, RecSkip, dbVars, rowVars, exVars, hbVars
<1>18. ASSUME NEW x \in rec.todo, RecDied(x) PROVE TypeOK'
  <2>1. rec' \in RecRecords
    BY <1>18 DEF RecDied, RecDrop, TypeOK, RecRecords
  <2>2. ord' \in [VPs -> [Legs -> OrderStatus]]
    BY <1>18, OrderWrite DEF RecDied, OrderStatus
  <2> QED
    BY <1>18, <2>1, <2>2 DEF TypeOK, RecDied, dbVars, rowVars, exVars, hbVars
<1>19. ASSUME NEW x \in rec.todo, RecFill(x) PROVE TypeOK'
  <2>1. rec' \in RecRecords
    BY <1>19, RecType DEF RecFill, TypeOK, RecRecords
  <2>2. ord' \in [VPs -> [Legs -> OrderStatus]]
    BY <1>19, OrderWrite DEF RecFill, OrderStatus
  <2> QED
    BY <1>19, <2>1, <2>2 DEF TypeOK, RecFill, dbVars, rowVars, exVars, hbVars
<1>20. ASSUME RecLoad PROVE TypeOK'
  <2>1. rec' \in RecRecords
    BY <1>20, RecType, RecNextOrderType DEF RecLoad, RecRecords
  <2>2. faults' \in 0..MaxFaults
    BY <1>20, FaultType DEF RecLoad
  <2> QED
    BY <1>20, <2>1, <2>2 DEF TypeOK, RecLoad, dbVars, rowVars, exVars, hbVars
<1>21. ASSUME RecMark PROVE TypeOK'
  <2>1. rec' \in RecRecords
    BY <1>21, RecType DEF RecMark, RecRecords
  <2>2. st' \in [VPs -> RowStatus]
    BY <1>21 DEF RecMark, TypeOK, RowStatus
  <2>3. faults' \in 0..MaxFaults
    BY <1>21, FaultType DEF RecMark
  <2> QED
    BY <1>21, <2>1, <2>2, <2>3 DEF TypeOK, RecMark, dbVars, rowVars, exVars, hbVars
<1>22. ASSUME RecHistory PROVE TypeOK'
  <2>1. rec' \in RecRecords
    BY <1>22, RecNextOrderType DEF RecHistory
  <2>2. hist' \in [VPs -> 0..2]
    BY <1>22, RecType DEF OneMore, RecHistory, TypeOK
  <2>3. faults' \in 0..MaxFaults
    BY <1>22, FaultType DEF RecHistory
  <2> QED
    BY <1>22, <2>1, <2>2, <2>3 DEF TypeOK, RecHistory, dbVars, rowVars, exVars, hbVars
<1>23. ASSUME HbStart PROVE TypeOK'
  <2>1. hb' \in HbRecords
    BY <1>23, SymType DEF HbStart, HbRecords, OpenVPs
  <2>2. faults' \in 0..MaxFaults
    BY <1>23, FaultType DEF HbStart
  <2> QED
    BY <1>23, <2>1, <2>2 DEF TypeOK, HbStart, dbVars, rowVars, exVars, hbVars
<1>24. ASSUME NEW v \in hb.todo, HbFlat(v) PROVE TypeOK'
  <2>1. hb' \in HbRecords
    BY <1>24, HbType, HbMoveType DEF HbFlat
  <2>2. ord' \in [VPs -> [Legs -> OrderStatus]]
    BY <1>24, OrderWrite DEF HbFlat, SyncFilledLeg, OrderStatus, TypeOK
  <2>3. faults' \in 0..MaxFaults
    BY <1>24, FaultType DEF HbFlat
  <2> QED
    BY <1>24, <2>1, <2>2, <2>3 DEF TypeOK, HbFlat, dbVars, rowVars, exVars, hbVars
<1>25. ASSUME NEW v \in hb.todo, HbNotFlat(v) PROVE TypeOK'
  <2>1. hb' \in HbRecords
    BY <1>25, HbType, HbMoveType DEF HbNotFlat
  <2>2. flagged' \subseteq Symbols
    BY <1>25, HbType, SymType DEF HbNotFlat, TypeOK
  <2>3. faults' \in 0..MaxFaults
    BY <1>25, FaultType DEF HbNotFlat
  <2> QED
    BY <1>25, <2>1, <2>2, <2>3 DEF TypeOK, HbNotFlat, dbVars, rowVars, exVars, hbVars
<1>26. ASSUME HbMark PROVE TypeOK'
  <2>1. hb' \in HbRecords
    BY <1>26, HbType, HbMoveType DEF HbMark
  <2>2. flagged' \subseteq Symbols
    BY <1>26, HbType, SymType DEF HbMark, TypeOK
  <2>3. st' \in [VPs -> RowStatus]
    BY <1>26 DEF HbMark, TypeOK, RowStatus
  <2>4. faults' \in 0..MaxFaults
    BY <1>26, FaultType DEF HbMark
  <2> QED
    BY <1>26, <2>1, <2>2, <2>3, <2>4 DEF TypeOK, HbMark, dbVars, rowVars, exVars, hbVars
<1>27. ASSUME HbHistory PROVE TypeOK'
  <2>1. hb' \in HbRecords
    BY <1>27, HbType, HbMoveType DEF HbHistory
  <2>2. hist' \in [VPs -> 0..2]
    BY <1>27 DEF OneMore, HbHistory, TypeOK
  <2>3. faults' \in 0..MaxFaults
    BY <1>27, FaultType DEF HbHistory
  <2> QED
    BY <1>27, <2>1, <2>2, <2>3 DEF TypeOK, HbHistory, dbVars, rowVars, exVars, hbVars
<1>28. ASSUME HbGhosts PROVE TypeOK'
  <2>1. hb' \in HbRecords
    BY <1>28 DEF HbGhosts, IdleHb, HbRecords
  <2>2. flagged' \subseteq Symbols
    BY <1>28 DEF HbGhosts, TypeOK
  <2>3. faults' \in 0..MaxFaults
    BY <1>28, FaultType DEF HbGhosts
  <2> QED
    BY <1>28, <2>1, <2>2, <2>3 DEF TypeOK, HbGhosts, dbVars, rowVars, exVars, hbVars
<1>29. ASSUME NEW v \in VPs, NEW l \in Legs, LegTriggers(v, l) PROVE TypeOK'
  <2>1. xord' \in [VPs -> [Orders -> ExchangeStatus]]
    BY <1>29, ExchangeWrite DEF LegTriggers, ExchangeStatus
  <2>2. pos' \in [Symbols -> Int]
    BY <1>29, PositionWrite DEF LegTriggers, TypeOK
  <2> QED
    BY <1>29, <2>1, <2>2 DEF TypeOK, LegTriggers, dbVars, rowVars, exVars, hbVars
<1>30. ASSUME NEW s \in Symbols, ManualClose(s) PROVE TypeOK'
  <2>1. faults' \in 0..MaxFaults
    BY <1>30, FaultType DEF ManualClose
  <2>2. pos' \in [Symbols -> Int]
    BY <1>30 DEF ManualClose, TypeOK
  <2> QED
    BY <1>30, <2>1, <2>2 DEF TypeOK, ManualClose, dbVars, rowVars, exVars, hbVars
<1>31. ASSUME Crash PROVE TypeOK'
  <2>1. proc' \in [Actors -> ProcRecords]
    BY <1>31 DEF Crash, IdleProc, ProcRecords
  <2>2. rec' \in RecRecords /\ hb' \in HbRecords
    BY <1>31 DEF Crash, IdleRec, IdleHb, RecRecords, HbRecords
  <2>3. st' \in [VPs -> RowStatus]
    BY <1>31 DEF Crash, TypeOK, RowStatus
  <2>4. faults' \in 0..MaxFaults
    BY <1>31, FaultType DEF Crash
  <2> QED
    BY <1>31, <2>1, <2>2, <2>3, <2>4 DEF TypeOK, Crash, dbVars, rowVars, exVars, hbVars
<1>32. ASSUME UNCHANGED vars PROVE TypeOK'
  BY <1>32 DEF TypeOK, vars, dbVars, rowVars, exVars, hbVars
<1> QED
  BY <1>1, <1>2, <1>3, <1>4, <1>5, <1>6, <1>7, <1>8, <1>9, <1>10, <1>11, <1>12, <1>13, <1>14, <1>15, <1>16, <1>17, <1>18, <1>19, <1>20, <1>21, <1>22, <1>23, <1>24, <1>25, <1>26, <1>27, <1>28, <1>29, <1>30, <1>31, <1>32
  DEF Next, Actors, ActorStep, OpenStep, CloseStep, RecNext, HbNext

(* Every reachable state is well typed, and a goroutine in the middle of   *)
(* an opening, a close or a reconciliation holds a VP.                     *)
THEOREM TypeCorrect == Spec => []TypeOK
<1>1. Init => TypeOK
  BY TypeInit
<1>2. TypeOK /\ [Next]_vars => TypeOK'
  BY TypeStep
<1> QED
  BY <1>1, <1>2, PTL DEF Spec

============================================================================
