---------------------------- MODULE Risk_proofs ----------------------------
(***************************************************************************)
(* DailyTotal for any number of strategies, goroutines, forms and days.    *)
(* It is not inductive alone: a booking that starts a day sets the sum to  *)
(* its own PnL, which is the day's total only if nothing was booked that   *)
(* day before.  Ledger adds that; it holds from a midnight until a close   *)
(* is booked under an old date.  That neither the sum nor a close waiting  *)
(* for its booking is ever dated into the future (Numbers) starts the next *)
(* day well, whatever the old one was.  The second half proves the types   *)
(* and that exits get through, from what a goroutine carries (Lawful);    *)
(* the last part that an opening has the room it was checked for (Roomy).  *)
(***************************************************************************)
EXTENDS Risk, FiniteSetTheorems, FunctionTheorems, TLAPS

(* The numbers the argument adds and compares.                             *)
SoundAt(d, r) ==
  {"pnl", "stamp"} \subseteq DOMAIN r /\ r.pnl \in Int /\ r.stamp \in Int /\ r.stamp <= d
Numbers ==
  /\ day \in Nat
  /\ state \in [pnl : Int, date : Int] /\ state.date <= day
  /\ past \in [today : Int, late : BOOLEAN, opens : Int, edits : Int]
  /\ DOMAIN proc = Procs
  /\ \A p \in Procs : SoundAt(day, proc[p])

Ledger ==
  ~past.late =>
    /\ state.date = day => state.pnl = past.today
    /\ state.date < day => past.today = 0

DailyInv == Numbers /\ Ledger

----------------------------------------------------------------------------
(* A goroutine's record changes, and its numbers stay numbers.             *)
Works(p) == \E r : SoundAt(day, r) /\ Becomes(p, r)

LEMMA WorkKeeps ==
  ASSUME DailyInv, NEW p \in Procs, Works(p)
  PROVE DOMAIN proc' = Procs /\ \A q \in Procs : SoundAt(day, proc'[q])
<1>1. PICK r : SoundAt(day, r) /\ proc' = [proc EXCEPT ![p] = r]
  BY DEF Works, Becomes
<1>2. DOMAIN proc' = Procs
  BY <1>1 DEF DailyInv, Numbers
<1>3. ASSUME NEW q \in Procs PROVE SoundAt(day, proc'[q])
  BY <1>1, <1>3 DEF DailyInv, Numbers
<1> QED
  BY <1>2, <1>3

(* Idle, and a record of which other fields change, are sound.             *)
LEMMA RestWorks == ASSUME DailyInv, NEW p \in Procs, Rest(p) PROVE Works(p)
  BY DEF Rest, Works, Idle, SoundAt, DailyInv, Numbers

(* The goroutine's own steps touch neither the day nor the sum.            *)
Aside == UNCHANGED <<state, day, past>> /\ \E p \in Procs : Works(p)

LEMMA AsideKeeps == ASSUME DailyInv, Aside PROVE DailyInv'
<1>1. DOMAIN proc' = Procs /\ \A q \in Procs : SoundAt(day, proc'[q])
  BY WorkKeeps DEF Aside
<1> QED
  BY <1>1 DEF Aside, DailyInv, Numbers, Ledger

LEMMA BeginIsAside == ASSUME DailyInv, NEW p \in Procs, NEW k \in Kinds, Begin(p, k) PROVE Aside
<1> DEFINE r == [Idle EXCEPT !.pc = "position", !.kind = k, !.row = rows[Serves[p]]]
<1>1. SoundAt(day, r)
  BY DEF SoundAt, Idle, DailyInv, Numbers
<1>2. Becomes(p, r) /\ UNCHANGED <<state, day, past>>
  BY DEF Begin, pvars
<1> QED
  BY <1>1, <1>2 DEF Aside, Works

LEMMA LoadIsAside == ASSUME DailyInv, NEW p \in Procs, Load(p) PROVE Aside
<1>1. SoundAt(day, proc[p]) /\ state.pnl \in Int
  BY DEF DailyInv, Numbers
<1>2. UNCHANGED <<state, day, past>>
  BY DEF Load, ReadPosition, ReadState, ReadSum, pvars
<1>3. CASE ReadPosition(p)
  <2> DEFINE r == [proc[p] EXCEPT !.pc = "state", !.open = held[Serves[p]] > 0]
  <2>1. SoundAt(day, r)
    BY <1>1 DEF SoundAt
  <2> QED
    BY <1>2, <1>3, <2>1 DEF ReadPosition, Aside, Works
<1>4. CASE ReadState(p)
  <2> DEFINE r == [proc[p] EXCEPT !.pc = "sum", !.pnl = state.pnl, !.today = past.today]
  <2>1. SoundAt(day, r)
    BY <1>1 DEF SoundAt
  <2> QED
    BY <1>2, <1>4, <2>1 DEF ReadState, Aside, Works
<1>5. CASE ReadSum(p)
  <2> DEFINE r == [proc[p] EXCEPT !.sum = OpenSum, !.pc =
                     IF proc[p].row.enabled /\ ~proc[p].row.archived
                       THEN "leverage" ELSE "refused"]
  <2>1. SoundAt(day, r)
    BY <1>1 DEF SoundAt
  <2> QED
    BY <1>2, <1>5, <2>1 DEF ReadSum, Aside, Works
<1> QED
  BY <1>3, <1>4, <1>5 DEF Load

LEMMA JudgeIsAside == ASSUME DailyInv, NEW p \in Procs, Judge(p) PROVE Aside
<1>1. SoundAt(day, proc[p])
  BY DEF DailyInv, Numbers
<1>2. UNCHANGED <<state, day, past>>
  BY DEF Judge, CheckLeverage, CheckLoss, Deny, pvars
<1>3. CASE CheckLeverage(p)
  <2> DEFINE r1 == [proc[p] EXCEPT !.pc = "loss", !.sum = 0]
             r2 == [proc[p] EXCEPT !.cap = limits.cap, !.pc =
                      IF PositionAllows(p) /\ LeverageAllows(p, limits.cap)
                        THEN "loss" ELSE "refused"]
  <2>1. SoundAt(day, r1) /\ SoundAt(day, r2)
    BY <1>1 DEF SoundAt
  <2>2. Becomes(p, r1) \/ Becomes(p, r2)
    BY <1>3 DEF CheckLeverage
  <2> HIDE DEF r1, r2
  <2> QED
    BY <1>2, <2>1, <2>2 DEF Aside, Works
<1>4. CASE CheckLoss(p)
  <2> DEFINE r1 == [proc[p] EXCEPT !.pc = "act", !.pnl = 0, !.today = 0]
             r2 == [proc[p] EXCEPT !.pc = "overdrawn"]
  <2>1. SoundAt(day, r1) /\ SoundAt(day, r2)
    BY <1>1 DEF SoundAt
  <2>2. Becomes(p, r1) \/ Becomes(p, r2)
    BY <1>4 DEF CheckLoss, Go
  <2> HIDE DEF r1, r2
  <2> QED
    BY <1>2, <2>1, <2>2 DEF Aside, Works
<1>5. CASE Deny(p)
  BY <1>2, <1>5, RestWorks DEF Deny, Aside
<1> QED
  BY <1>3, <1>4, <1>5 DEF Judge

(* Noops, exits that fill and goroutines that give up.                     *)
LEMMA CloseFillsIsAside ==
  ASSUME DailyInv, NEW p \in Procs, NEW x \in Results, CloseFills(p, x) PROVE Aside
<1> DEFINE r == [proc[p] EXCEPT !.pc = "book", !.stamp = day, !.pnl = x]
<1>1. SoundAt(day, r)
  BY RiskAssumption DEF DailyInv, Numbers, SoundAt
<1> QED
  BY <1>1 DEF CloseFills, pvars, Aside, Works

----------------------------------------------------------------------------
(* The steps that change the sum or the day.                               *)

LEMMA CloseBooksKeeps == ASSUME DailyInv, NEW p \in Procs, CloseBooks(p) PROVE DailyInv'
<1> DEFINE d == proc[p].stamp
           x == proc[p].pnl
           r == [proc[p] EXCEPT !.pc = "open", !.stamp = 0, !.pnl = 0]
<1>1. SoundAt(day, proc[p]) /\ d \in Int /\ x \in Int /\ d <= day /\ day \in Nat
  BY DEF DailyInv, Numbers, SoundAt
<1>2. Works(p)
  <2>1. SoundAt(day, r)
    BY <1>1 DEF SoundAt
  <2>2. Becomes(p, r) \/ Rest(p)
    BY DEF CloseBooks
  <2> QED
    BY <2>1, <2>2, RestWorks DEF Works
<1>3. DOMAIN proc' = Procs /\ \A q \in Procs : SoundAt(day, proc'[q])
  BY <1>2, WorkKeeps
<1>4. state' = [pnl |-> IF state.date = d THEN state.pnl + x ELSE x, date |-> d] /\ day' = day
  BY DEF CloseBooks, AddDailyPnL
<1>5. past' = IF d = day THEN [past EXCEPT !.today = @ + x] ELSE [past EXCEPT !.late = TRUE]
  BY DEF CloseBooks
<1>6. Numbers'
  <2>1. state' \in [pnl : Int, date : Int] /\ state'.date <= day' /\ day' \in Nat
    BY <1>1, <1>4 DEF DailyInv, Numbers
  <2>2. past' \in [today : Int, late : BOOLEAN, opens : Int, edits : Int]
    <3>1. CASE d = day
      BY <1>1, <1>5, <3>1 DEF DailyInv, Numbers
    <3>2. CASE d # day
      BY <1>5, <3>2 DEF DailyInv, Numbers
    <3> QED
      BY <3>1, <3>2
  <2> QED
    BY <1>3, <1>4, <2>1, <2>2 DEF Numbers
<1>7. Ledger'
  <2>1. CASE d = day
    <3>1. past'.late = past.late /\ past'.today = past.today + x
      BY <1>5, <2>1 DEF DailyInv, Numbers
    <3>2. SUFFICES ASSUME ~past.late
                   PROVE state'.date <= day /\ state'.date = day /\ state'.pnl = past'.today
      BY <1>4, <3>1, <2>1 DEF Ledger, DailyInv, Numbers
    <3>3. state.date = day \/ (state.date < day /\ past.today = 0)
      BY <3>2 DEF DailyInv, Numbers, Ledger
    <3> QED
      BY <1>1, <1>4, <2>1, <3>1, <3>2, <3>3 DEF DailyInv, Numbers, Ledger
  <2>2. CASE d # day
    BY <1>5, <2>2 DEF DailyInv, Numbers, Ledger
  <2> QED
    BY <2>1, <2>2
<1> QED
  BY <1>6, <1>7 DEF DailyInv

LEMMA OpenKeeps == ASSUME DailyInv, NEW p \in Procs, Open(p) PROVE DailyInv'
<1>1. DOMAIN proc' = Procs /\ \A q \in Procs : SoundAt(day, proc'[q])
  BY WorkKeeps, RestWorks DEF Open
<1>2. UNCHANGED <<state, day>> /\ past' = [past EXCEPT !.opens = @ + 1]
  BY DEF Open
<1> QED
  BY <1>1, <1>2 DEF DailyInv, Numbers, Ledger

LEMMA MidnightKeeps == ASSUME DailyInv, Midnight PROVE DailyInv'
<1>1. day' = day + 1 /\ UNCHANGED <<state, proc>>
  BY DEF Midnight
<1>2. past' = [past EXCEPT !.today = 0, !.late = FALSE]
  BY DEF Midnight
<1>3. past' \in [today : Int, late : BOOLEAN, opens : Int, edits : Int] /\ past'.today = 0
  <2> DEFINE fresh == [past EXCEPT !.today = 0]
  <2>1. past \in [today : Int, late : BOOLEAN, opens : Int, edits : Int]
    BY DEF DailyInv, Numbers
  <2>2. fresh \in [today : Int, late : BOOLEAN, opens : Int, edits : Int] /\ fresh.today = 0
    BY <2>1
  <2>3. past' = [fresh EXCEPT !.late = FALSE]
    BY <1>2, <2>1
  <2> HIDE DEF fresh
  <2> QED
    BY <2>2, <2>3
<1>4. ASSUME NEW p \in Procs PROVE SoundAt(day', proc'[p])
  BY <1>1 DEF DailyInv, Numbers, SoundAt
<1>5. Numbers'
  BY <1>1, <1>3, <1>4 DEF DailyInv, Numbers
<1>6. state'.date < day'
  BY <1>1 DEF DailyInv, Numbers
<1> QED
  BY <1>3, <1>5, <1>6 DEF DailyInv, Numbers, Ledger

LEMMA PagesKeep == ASSUME DailyInv, Pages PROVE DailyInv'
<1>1. ASSUME past' = [past EXCEPT !.edits = @ + 1], UNCHANGED <<state, day, proc>>
      PROVE DailyInv'
  BY <1>1 DEF DailyInv, Numbers, Ledger
<1>2. ASSUME NEW s \in Strategies, NEW f \in Forms, NEW e \in BOOLEAN, Save(s, f, e)
      PROVE DailyInv'
  <2>1. past' = [past EXCEPT !.edits = @ + 1] /\ UNCHANGED <<state, day, proc>>
    BY <1>2 DEF Save, SetRow
  <2> QED
    BY <1>1, <2>1
<1>3. ASSUME NEW s \in Strategies, NEW a \in BOOLEAN, SetArchived(s, a) PROVE DailyInv'
  BY <1>1, <1>3 DEF SetArchived, SetRow
<1>4. ASSUME NEW l \in Limits, SaveRisk(l) PROVE DailyInv'
  BY <1>1, <1>4 DEF SaveRisk
<1>5. CASE ResetBreaker
  <2>1. /\ state' \in [pnl : Int, date : Int]
        /\ state'.pnl = 0 /\ state'.date = state.date
    BY <1>5 DEF ResetBreaker, DailyInv, Numbers
  <2>2. /\ past' \in [today : Int, late : BOOLEAN, opens : Int, edits : Int]
        /\ past'.today = 0 /\ past'.late = past.late
    <3>1. past \in [today : Int, late : BOOLEAN, opens : Int, edits : Int]
      BY DEF DailyInv, Numbers
    <3>2. past' = [past EXCEPT !.today = 0, !.edits = past.edits + 1]
      BY <1>5 DEF ResetBreaker
    <3>3. past.edits + 1 \in Int
      BY <3>1
    <3> DEFINE reset == [past EXCEPT !.today = 0]
    <3>4. /\ reset \in [today : Int, late : BOOLEAN, opens : Int, edits : Int]
          /\ reset.today = 0 /\ reset.late = past.late
      BY <3>1
    <3>5. past' = [reset EXCEPT !.edits = past.edits + 1]
      BY <3>1, <3>2
    <3> HIDE DEF reset
    <3> QED
      BY <3>3, <3>4, <3>5
  <2>3. UNCHANGED <<day, proc>>
    BY <1>5 DEF ResetBreaker
  <2>4. Numbers'
    BY <2>1, <2>2, <2>3 DEF DailyInv, Numbers
  <2>5. Ledger'
    BY <2>1, <2>2, <2>3 DEF DailyInv, Ledger
  <2> QED
    BY <2>4, <2>5 DEF DailyInv
<1> QED
  BY <1>2, <1>3, <1>4, <1>5 DEF Pages

LEMMA StepKeeps == ASSUME DailyInv, [RiskNext]_rvars PROVE DailyInv'
<1>1. ASSUME NEW p \in Procs, NEW k \in Kinds, Begin(p, k) PROVE DailyInv'
  BY <1>1, BeginIsAside, AsideKeeps
<1>2. ASSUME NEW p \in Procs, Load(p) \/ Judge(p) PROVE DailyInv'
  BY <1>2, LoadIsAside, JudgeIsAside, AsideKeeps
<1>3. ASSUME NEW p \in Procs, Trade(p) PROVE DailyInv'
  <2>1. CASE Noop(p)
    BY <2>1, RestWorks, AsideKeeps DEF Noop, Aside, pvars
  <2>2. CASE \E r \in Results : CloseFills(p, r)
    BY <2>2, <1>3, CloseFillsIsAside, AsideKeeps
  <2>3. CASE CloseBooks(p)
    BY <2>3, CloseBooksKeeps
  <2>4. CASE Open(p)
    BY <2>4, OpenKeeps
  <2> QED
    BY <1>3, <2>1, <2>2, <2>3, <2>4 DEF Trade
<1>4. ASSUME NEW p \in Procs, GiveUp(p) PROVE DailyInv'
  BY <1>4, RestWorks, AsideKeeps DEF GiveUp, Aside, pvars
<1>5. ASSUME NEW s \in Strategies, ClosedElsewhere(s) PROVE DailyInv'
  BY <1>5 DEF ClosedElsewhere, DailyInv, Numbers, Ledger
<1>6. CASE Pages
  BY <1>6, PagesKeep
<1>7. CASE Midnight
  BY <1>7, MidnightKeeps
<1>8. CASE UNCHANGED rvars
  BY <1>8 DEF rvars, pvars, DailyInv, Numbers, Ledger
<1> QED
  BY <1>1, <1>2, <1>3, <1>4, <1>5, <1>6, <1>7, <1>8 DEF RiskNext

LEMMA StartsSound == ASSUME RiskInit PROVE DailyInv
<1>1. DOMAIN proc = Procs /\ \A p \in Procs : SoundAt(day, proc[p])
  BY DEF RiskInit, Idle, SoundAt
<1> QED
  BY <1>1 DEF RiskInit, DailyInv, Numbers, Ledger

(* daily_pnl_usdc is the sum of what was booked on the day it is dated,    *)
(* since the last reset, unless a transaction that took its time before    *)
(* midnight commits after it that day.                                     *)
THEOREM DailyTotalHolds == RiskSpec => []DailyTotal
<1>1. DailyInv => DailyTotal
  BY DEF DailyInv, Ledger, DailyTotal
<1> QED
  BY <1>1, StartsSound, StepKeeps, PTL DEF RiskSpec
----------------------------------------------------------------------------
(* Types, and exits.  A goroutine that is not idle carries a row that      *)
(* strategy.New accepted, and an exit is only ever refused for its row.    *)

Lawful(r) ==
  /\ DOMAIN r = DOMAIN Idle /\ r.stamp \in Nat
  /\ r.pc = "idle" <=> r = Idle
  /\ r.pc = "idle" \/ (r.row \in Rows /\ r.row.form.valid)
  /\ r.kind = "exit" /\ r.pc \in {"refused", "overdrawn"} => ~r.row.enabled \/ r.row.archived
Lawfully == DOMAIN proc = Procs /\ \A p \in Procs : Lawful(proc[p])

Held == UNION {0..(f.n + Slip) : f \in Forms}
Tables ==
  /\ rows \in [Strategies -> Rows]
  /\ held \in [Strategies -> Held]
  /\ limits \in Limits
  /\ state.date \in Nat /\ day <= LastDay
  /\ past.opens <= MaxOpens /\ past.edits <= MaxEdits

RulesInv == DailyInv /\ Lawfully /\ Tables

(* A goroutine's step leaves its record lawful.                            *)
Obeys(p) == \E r : Lawful(r) /\ Becomes(p, r)

LEMMA ObeysKeeps == ASSUME RulesInv, NEW p \in Procs, Obeys(p) PROVE Lawfully'
<1>1. PICK r : Lawful(r) /\ proc' = [proc EXCEPT ![p] = r]
  BY DEF Obeys, Becomes
<1>2. DOMAIN proc' = Procs /\ \A q \in Procs : proc'[q] = IF q = p THEN r ELSE proc[q]
  BY <1>1 DEF RulesInv, Lawfully
<1> QED
  BY <1>1, <1>2 DEF RulesInv, Lawfully

LEMMA RestObeys == ASSUME NEW p \in Procs, Rest(p) PROVE Obeys(p)
<1>1. Lawful(Idle)
  BY DEF Lawful, Idle
<1> QED
  BY <1>1 DEF Rest, Obeys

(* A record that goes on: what it carries stays, and it is not refused.    *)
LEMMA GoesOn ==
  ASSUME RulesInv, NEW p \in Procs, ~At(p, "idle"), NEW r, Becomes(p, r),
         DOMAIN r = DOMAIN proc[p], r.pc # "idle", r.stamp \in Nat, r.row = proc[p].row,
         r.kind = "exit" /\ r.pc \in {"refused", "overdrawn"} => ~r.row.enabled \/ r.row.archived
  PROVE Obeys(p)
<1>1. Lawful(proc[p])
  BY DEF RulesInv, Lawfully
<1>2. r # Idle
  BY DEF Idle
<1>3. Lawful(r)
  BY <1>1, <1>2 DEF Lawful, At
<1> QED
  BY <1>3 DEF Obeys

LEMMA BeginObeys == ASSUME RulesInv, NEW p \in Procs, NEW k \in Kinds, Begin(p, k) PROVE Obeys(p)
<1> DEFINE r == [Idle EXCEPT !.pc = "position", !.kind = k, !.row = rows[Serves[p]]]
<1>1. rows[Serves[p]] \in Rows /\ rows[Serves[p]].form.valid
  BY RiskAssumption DEF RulesInv, Tables, Begin
<1>2. DOMAIN r = DOMAIN Idle /\ r.stamp = 0 /\ r.pc = "position" /\ r.row = rows[Serves[p]]
  BY DEF Idle
<1>3. r # Idle
  BY DEF Idle
<1>4. Lawful(r)
  BY <1>1, <1>2, <1>3 DEF Lawful
<1> QED
  BY <1>4 DEF Begin, Obeys

LEMMA LoadObeys == ASSUME RulesInv, NEW p \in Procs, Load(p) PROVE Obeys(p)
<1>1. Lawful(proc[p])
  BY DEF RulesInv, Lawfully
<1>2. CASE ReadPosition(p)
  <2> DEFINE r == [proc[p] EXCEPT !.pc = "state", !.open = held[Serves[p]] > 0]
  <2>1. r.pc = "state" /\ DOMAIN r = DOMAIN proc[p] /\ r.stamp \in Nat /\ r.row = proc[p].row
    BY <1>1 DEF Lawful, Idle
  <2>2. Becomes(p, r) /\ ~At(p, "idle")
    BY <1>2 DEF ReadPosition, At
  <2> HIDE DEF r
  <2> QED
    BY <2>1, <2>2, GoesOn
<1>3. CASE ReadState(p)
  <2> DEFINE r == [proc[p] EXCEPT !.pc = "sum", !.pnl = state.pnl, !.today = past.today]
  <2>1. r.pc = "sum" /\ DOMAIN r = DOMAIN proc[p] /\ r.stamp \in Nat /\ r.row = proc[p].row
    BY <1>1 DEF Lawful, Idle
  <2>2. Becomes(p, r) /\ ~At(p, "idle")
    BY <1>3 DEF ReadState, At
  <2> HIDE DEF r
  <2> QED
    BY <2>1, <2>2, GoesOn
<1>4. CASE ReadSum(p)
  <2> DEFINE next == IF proc[p].row.enabled /\ ~proc[p].row.archived THEN "leverage" ELSE "refused"
             r == [proc[p] EXCEPT !.sum = OpenSum, !.pc = next]
  <2>1. next \in {"leverage", "refused"}
    OBVIOUS
  <2>2. next = "refused" => ~proc[p].row.enabled \/ proc[p].row.archived
    OBVIOUS
  <2>3. Becomes(p, r) /\ ~At(p, "idle")
    BY <1>4 DEF ReadSum, At
  <2> HIDE DEF next
  <2>4. r.pc = next /\ DOMAIN r = DOMAIN proc[p] /\ r.stamp \in Nat /\ r.row = proc[p].row
    BY <1>1 DEF Lawful, Idle
  <2> HIDE DEF r
  <2> QED
    BY <2>1, <2>2, <2>3, <2>4, GoesOn
<1> QED
  BY <1>2, <1>3, <1>4 DEF Load

LEMMA JudgeObeys == ASSUME RulesInv, NEW p \in Procs, Judge(p) PROVE Obeys(p)
<1>1. Lawful(proc[p])
  BY DEF RulesInv, Lawfully
<1>2. CASE CheckLeverage(p) /\ proc[p].kind = "exit"
  <2> DEFINE r == [proc[p] EXCEPT !.pc = "loss", !.sum = 0]
  <2>1. r.pc = "loss" /\ DOMAIN r = DOMAIN proc[p] /\ r.stamp \in Nat /\ r.row = proc[p].row
    BY <1>1 DEF Lawful, Idle
  <2>2. Becomes(p, r) /\ ~At(p, "idle")
    BY <1>2 DEF CheckLeverage, At
  <2> HIDE DEF r
  <2> QED
    BY <2>1, <2>2, GoesOn
<1>3. CASE CheckLeverage(p) /\ proc[p].kind # "exit"
  <2> DEFINE next == IF PositionAllows(p) /\ LeverageAllows(p, limits.cap) THEN "loss" ELSE "refused"
             r == [proc[p] EXCEPT !.cap = limits.cap, !.pc = next]
  <2>1. next \in {"loss", "refused"}
    OBVIOUS
  <2>2. Becomes(p, r) /\ ~At(p, "idle")
    BY <1>3 DEF CheckLeverage, At
  <2> HIDE DEF next
  <2>3. /\ r.pc = next /\ DOMAIN r = DOMAIN proc[p] /\ r.stamp \in Nat /\ r.row = proc[p].row
        /\ r.kind = proc[p].kind
    BY <1>1 DEF Lawful, Idle
  <2> HIDE DEF r
  <2> QED
    BY <1>3, <2>1, <2>2, <2>3, GoesOn
<1>4. CASE CheckLoss(p) /\ LossAllows(p)
  <2> DEFINE r == [proc[p] EXCEPT !.pc = "act", !.pnl = 0, !.today = 0]
  <2>1. r.pc = "act" /\ DOMAIN r = DOMAIN proc[p] /\ r.stamp \in Nat /\ r.row = proc[p].row
    BY <1>1 DEF Lawful, Idle
  <2>2. Becomes(p, r) /\ ~At(p, "idle")
    BY <1>4 DEF CheckLoss, At
  <2> HIDE DEF r
  <2> QED
    BY <2>1, <2>2, GoesOn
<1>5. CASE CheckLoss(p) /\ ~LossAllows(p)
  <2> DEFINE r == [proc[p] EXCEPT !.pc = "overdrawn"]
  <2>1. /\ r.pc = "overdrawn" /\ DOMAIN r = DOMAIN proc[p] /\ r.stamp \in Nat
        /\ r.row = proc[p].row /\ r.kind = proc[p].kind
    BY <1>1 DEF Lawful, Idle
  <2>2. Becomes(p, r) /\ ~At(p, "idle") /\ proc[p].kind # "exit"
    BY <1>5 DEF CheckLoss, At, Go, LossAllows
  <2> HIDE DEF r
  <2> QED
    BY <2>1, <2>2, GoesOn
<1>6. CASE Deny(p)
  BY <1>6, RestObeys DEF Deny
<1> QED
  BY <1>2, <1>3, <1>4, <1>5, <1>6 DEF Judge, CheckLeverage, CheckLoss

LEMMA TradeObeys == ASSUME RulesInv, NEW p \in Procs, Trade(p) PROVE Obeys(p)
<1>1. Lawful(proc[p]) /\ day \in Nat
  BY DEF RulesInv, Lawfully, DailyInv, Numbers
<1>2. CASE Noop(p) \/ Open(p)
  BY <1>2, RestObeys DEF Noop, Open
<1>3. ASSUME NEW x \in Results, CloseFills(p, x) PROVE Obeys(p)
  <2> DEFINE r == [proc[p] EXCEPT !.pc = "book", !.stamp = day, !.pnl = x]
  <2>1. r.pc = "book" /\ DOMAIN r = DOMAIN proc[p] /\ r.stamp \in Nat /\ r.row = proc[p].row
    BY <1>1 DEF Lawful, Idle
  <2>2. Becomes(p, r) /\ ~At(p, "idle")
    BY <1>3 DEF CloseFills, At
  <2> HIDE DEF r
  <2> QED
    BY <2>1, <2>2, GoesOn
<1>4. CASE CloseBooks(p)
  <2> DEFINE r == [proc[p] EXCEPT !.pc = "open", !.stamp = 0, !.pnl = 0]
  <2>1. r.pc = "open" /\ DOMAIN r = DOMAIN proc[p] /\ r.stamp \in Nat /\ r.row = proc[p].row
    BY <1>1 DEF Lawful, Idle
  <2>2. (Becomes(p, r) \/ Rest(p)) /\ ~At(p, "idle")
    BY <1>4 DEF CloseBooks, At
  <2> HIDE DEF r
  <2> QED
    BY <2>1, <2>2, GoesOn, RestObeys
<1> QED
  BY <1>2, <1>3, <1>4 DEF Trade

(* The tables: what the trade writes, the pages, and the day.              *)
LEMMA NoneHeld == 0 \in Held
<1>1. PICK f \in Forms : f.n \in Nat
  BY RiskAssumption
<1>2. Slip \in Nat
  BY RiskAssumption
<1>3. 0 \in 0..(f.n + Slip)
  BY <1>1, <1>2
<1> QED
  BY <1>3 DEF Held

LEMMA TradeWrites == ASSUME RulesInv, NEW p \in Procs, Trade(p) PROVE Tables'
<1>1. Serves[p] \in Strategies
  BY RiskAssumption
<1>2. CASE Noop(p) \/ \E x \in Results : CloseFills(p, x)
  BY <1>2 DEF Noop, CloseFills, pvars, RulesInv, Tables
<1>3. CASE CloseBooks(p)
  <2>1. held' = [held EXCEPT ![Serves[p]] = 0] /\ UNCHANGED <<rows, limits, day>>
    BY <1>3 DEF CloseBooks
  <2>5. held' \in [Strategies -> Held]
    BY <1>1, <2>1, NoneHeld DEF RulesInv, Tables
  <2>2. state'.date = proc[p].stamp
    BY <1>3 DEF CloseBooks, AddDailyPnL
  <2>3. proc[p].stamp \in Nat
    BY DEF RulesInv, Lawfully, Lawful
  <2>4. past'.opens = past.opens /\ past'.edits = past.edits
    BY <1>3 DEF CloseBooks, RulesInv, DailyInv, Numbers
  <2> QED
    BY <2>1, <2>2, <2>3, <2>4, <2>5 DEF RulesInv, Tables
<1>4. CASE Open(p)
  <2>1. PICK cost \in Costs(p) :
          /\ held' = [held EXCEPT ![Serves[p]] = cost]
          /\ UNCHANGED <<rows, state, limits, day>>
          /\ past.opens < MaxOpens /\ past' = [past EXCEPT !.opens = @ + 1]
    BY <1>4 DEF Open
  <2>2. proc[p].row.form \in Forms
    BY <1>4 DEF RulesInv, Lawfully, Lawful, Rows, Open, At
  <2>3. held' \in [Strategies -> Held]
    <3>1. cost \in 0..(proc[p].row.form.n + Slip)
      BY RiskAssumption, <2>2 DEF Costs
    <3>2. cost \in Held
      BY <2>2, <3>1 DEF Held
    <3> QED
      BY <1>1, <2>1, <3>2 DEF RulesInv, Tables
  <2>4. past.opens \in Int /\ past'.opens = past.opens + 1 /\ past'.edits = past.edits
    BY <2>1 DEF RulesInv, DailyInv, Numbers
  <2>5. past'.opens <= MaxOpens
    BY <2>1, <2>4, RiskAssumption
  <2> QED
    BY <2>1, <2>3, <2>4, <2>5 DEF RulesInv, Tables
<1> QED
  BY <1>2, <1>3, <1>4 DEF Trade

LEMMA PagesWrite == ASSUME RulesInv, Pages PROVE Tables' /\ UNCHANGED proc
<1>1. past.edits \in Int /\ past.opens \in Int
  BY DEF RulesInv, DailyInv, Numbers
<1>2. ASSUME NEW s \in Strategies, NEW row \in Rows, SetRow(s, row),
             UNCHANGED <<held, state, limits, day>>
      PROVE Tables'
  <2>1. past'.edits = past.edits + 1 /\ past'.opens = past.opens /\ past.edits < MaxEdits
    BY <1>2 DEF SetRow, Edit, RulesInv, DailyInv, Numbers
  <2>2. past'.edits <= MaxEdits
    BY <1>1, <2>1, RiskAssumption
  <2>3. rows' \in [Strategies -> Rows]
    BY <1>2 DEF SetRow, RulesInv, Tables
  <2> QED
    BY <1>2, <2>1, <2>2, <2>3 DEF RulesInv, Tables
<1>3. ASSUME NEW s \in Strategies, NEW f \in Forms, NEW e \in BOOLEAN, Save(s, f, e)
      PROVE Tables' /\ UNCHANGED proc
  <2> DEFINE row == [form |-> f, enabled |-> e, archived |-> rows[s].archived]
  <2>1. rows[s] \in Rows
    BY DEF RulesInv, Tables
  <2>2. row \in Rows
    BY <2>1 DEF Rows
  <2>3. SetRow(s, row) /\ UNCHANGED <<held, state, limits, day, proc>>
    BY <1>3 DEF Save
  <2> HIDE DEF row
  <2> QED
    BY <1>2, <2>2, <2>3
<1>4. ASSUME NEW s \in Strategies, NEW a \in BOOLEAN, SetArchived(s, a)
      PROVE Tables' /\ UNCHANGED proc
  <2> DEFINE row == [rows[s] EXCEPT !.archived = a]
  <2>1. rows[s] \in Rows
    BY DEF RulesInv, Tables
  <2>2. row \in Rows
    BY <2>1 DEF Rows
  <2>3. SetRow(s, row) /\ UNCHANGED <<held, state, limits, day, proc>>
    BY <1>4 DEF SetArchived
  <2> HIDE DEF row
  <2> QED
    BY <1>2, <2>2, <2>3
<1>5. ASSUME NEW l \in Limits, SaveRisk(l) PROVE Tables' /\ UNCHANGED proc
  <2>1. past'.edits = past.edits + 1 /\ past'.opens = past.opens /\ past.edits < MaxEdits
    BY <1>5 DEF SaveRisk, Edit, RulesInv, DailyInv, Numbers
  <2>2. past'.edits <= MaxEdits
    BY <1>1, <2>1, RiskAssumption
  <2> QED
    BY <1>5, <2>1, <2>2 DEF SaveRisk, RulesInv, Tables
<1>6. CASE ResetBreaker
  <2>1. past'.edits = past.edits + 1 /\ past'.opens = past.opens /\ past.edits < MaxEdits
    BY <1>6 DEF ResetBreaker, Edit, RulesInv, DailyInv, Numbers
  <2>2. past'.edits <= MaxEdits
    BY <1>1, <2>1, RiskAssumption
  <2>3. state'.date = state.date
    BY <1>6 DEF ResetBreaker, RulesInv, DailyInv, Numbers
  <2> QED
    BY <1>6, <2>1, <2>2, <2>3 DEF ResetBreaker, RulesInv, Tables
<1> QED
  BY <1>3, <1>4, <1>5, <1>6 DEF Pages

LEMMA MidnightWrites == ASSUME RulesInv, Midnight PROVE Tables' /\ UNCHANGED proc
<1>1. day \in Nat /\ day < LastDay /\ day' = day + 1 /\ UNCHANGED <<rows, held, state, limits, proc>>
  BY DEF Midnight, RulesInv, DailyInv, Numbers
<1>2. day' <= LastDay
  BY <1>1, RiskAssumption
<1>3. past'.opens = past.opens /\ past'.edits = past.edits
  BY DEF Midnight, RulesInv, DailyInv, Numbers
<1> QED
  BY <1>1, <1>2, <1>3 DEF RulesInv, Tables

LEMMA RulesStep == ASSUME RulesInv, [RiskNext]_rvars PROVE RulesInv'
<1>1. DailyInv'
  BY StepKeeps DEF RulesInv
<1>2. ASSUME NEW p \in Procs, Obeys(p), UNCHANGED pvars PROVE RulesInv'
  BY <1>1, <1>2, ObeysKeeps DEF pvars, RulesInv, Tables
<1>3. ASSUME NEW p \in Procs, NEW k \in Kinds, Begin(p, k) PROVE RulesInv'
  BY <1>2, <1>3, BeginObeys DEF Begin
<1>4. ASSUME NEW p \in Procs, Load(p) PROVE RulesInv'
  <2>1. UNCHANGED pvars
    BY <1>4 DEF Load, ReadPosition, ReadState, ReadSum
  <2> QED
    BY <1>2, <1>4, <2>1, LoadObeys
<1>5. ASSUME NEW p \in Procs, Judge(p) PROVE RulesInv'
  <2>1. UNCHANGED pvars
    BY <1>5 DEF Judge, CheckLeverage, CheckLoss, Deny
  <2> QED
    BY <1>2, <1>5, <2>1, JudgeObeys
<1>6. ASSUME NEW p \in Procs, Trade(p) PROVE RulesInv'
  BY <1>1, <1>6, TradeObeys, TradeWrites, ObeysKeeps DEF RulesInv
<1>7. ASSUME NEW p \in Procs, GiveUp(p) PROVE RulesInv'
  BY <1>2, <1>7, RestObeys DEF GiveUp
<1>8. ASSUME NEW s \in Strategies, ClosedElsewhere(s) PROVE RulesInv'
  <2>1. held' = [held EXCEPT ![s] = 0] /\ UNCHANGED <<rows, state, limits, day, past, proc>>
    BY <1>8 DEF ClosedElsewhere
  <2>2. held' \in [Strategies -> Held]
    BY <2>1, NoneHeld DEF RulesInv, Tables
  <2> QED
    BY <1>1, <2>1, <2>2 DEF RulesInv, Tables, Lawfully
<1>9. CASE Pages
  BY <1>1, <1>9, PagesWrite DEF RulesInv, Lawfully
<1>10. CASE Midnight
  BY <1>1, <1>10, MidnightWrites DEF RulesInv, Lawfully
<1>11. CASE UNCHANGED rvars
  BY <1>1, <1>11 DEF rvars, pvars, RulesInv, Tables, Lawfully
<1> QED
  BY <1>3, <1>4, <1>5, <1>6, <1>7, <1>8, <1>9, <1>10, <1>11 DEF RiskNext

LEMMA RulesStart == ASSUME RiskInit PROVE RulesInv
<1>1. Lawful(Idle)
  BY DEF Lawful, Idle
<1>2. Lawfully
  BY <1>1 DEF RiskInit, Lawfully
<1>3. rows \in [Strategies -> Rows]
  BY DEF RiskInit, Rows
<1>4. Tables
  BY <1>3, RiskAssumption, NoneHeld DEF RiskInit, Tables
<1> QED
  BY <1>2, <1>4, StartsSound DEF RulesInv

(* Every reachable state of the risk pipeline, the tables it reads and the *)
(* goroutines that trade is well typed.                                    *)
THEOREM RiskTyped == RiskSpec => []RiskTypeOK
<1>1. RulesInv => RiskTypeOK
  <2> SUFFICES ASSUME RulesInv PROVE RiskTypeOK
    OBVIOUS
  <2>1. ASSUME NEW p \in Procs
        PROVE /\ At(p, "idle") <=> proc[p] = Idle
              /\ At(p, "idle") \/ (proc[p].row \in Rows /\ proc[p].row.form.valid)
              /\ proc[p].stamp <= day
    BY DEF RulesInv, Lawfully, Lawful, At, DailyInv, Numbers, SoundAt
  <2>2. state.pnl \in Int /\ state.date \in 0..day /\ day \in 0..LastDay
    BY RiskAssumption DEF RulesInv, Tables, DailyInv, Numbers
  <2> QED
    BY <2>1, <2>2 DEF RiskTypeOK, RulesInv, Tables, Held
<1> QED
  BY <1>1, RulesStart, RulesStep, PTL DEF RiskSpec

(* The rules never refuse an exit: one that is 'risk_denied' belongs to a  *)
(* strategy that was disabled or archived when its row was read.           *)
THEOREM ExitsAllowed == RiskSpec => []ExitAllowed
<1>1. RulesInv => ExitAllowed
  BY DEF RulesInv, Lawfully, Lawful, ExitAllowed
<1> QED
  BY <1>1, RulesStart, RulesStep, PTL DEF RiskSpec
----------------------------------------------------------------------------
(* The leverage.  Who has passed TotalLeverage carries a sum and a limit   *)
(* that have room for its notional, and an opening adds just that to the   *)
(* open notional.                                                          *)

OpenUnits == UNION {Units(s) : s \in Strategies}

LEMMA UnitsFinite ==
  ASSUME IsFiniteSet(Strategies), Tables
  PROVE  IsFiniteSet(OpenUnits) /\ OpenSum \in Nat
<1> DEFINE T == {Units(s) : s \in Strategies}
           u == [s \in Strategies |-> Units(s)]
<1>1. u \in [Strategies -> T] /\ \A t \in T : \E s \in Strategies : u[s] = t
  OBVIOUS
<1>2. ASSUME NEW t \in T PROVE IsFiniteSet(t)
  <2>1. PICK s \in Strategies : t = Units(s)
    OBVIOUS
  <2>2. held[s] \in Nat
    BY RiskAssumption DEF Tables, Held
  <2> DEFINE h == held[s]
             A == {s}
             B == 1..h
  <2>3. IsFiniteSet(A)
    BY FS_Singleton
  <2>4. h \in Int /\ 1 \in Int
    BY <2>2
  <2> HIDE DEF h
  <2>5. IsFiniteSet(B)
    BY <2>4, FS_Interval
  <2> HIDE DEF A, B
  <2>6. IsFiniteSet(A \X B)
    BY <2>3, <2>5, FS_Product
  <2> QED
    BY <2>1, <2>6 DEF Units, A, B, h
<1> HIDE DEF T, u
<1>3. u \in Surjection(Strategies, T)
  BY <1>1, Fun_IsSurj
<1>4. IsFiniteSet(T)
  BY <1>3, FS_Surjection
<1>5. IsFiniteSet(UNION T)
  BY <1>2, <1>4, FS_UNION
<1>6. IsFiniteSet(OpenUnits)
  BY <1>5 DEF T, OpenUnits
<1> QED
  BY <1>6, FS_CardinalityType DEF OpenSum, OpenUnits

(* One position more, of n units.                                          *)
LEMMA OpenAdds ==
  ASSUME IsFiniteSet(Strategies), Tables, NEW s \in Strategies, NEW n \in Nat,
         held[s] = 0, held' = [held EXCEPT ![s] = n]
  PROVE  OpenSum' = OpenSum + n
<1> DEFINE new == {s} \X (1..n)
<1>1. OpenUnits' = OpenUnits \cup new
  <2>1. \A t \in Strategies : held'[t] = IF t = s THEN n ELSE held[t]
    BY DEF Tables
  <2>2. Units(s) = {} /\ Units(s)' = new
    BY <2>1 DEF Units
  <2>3. \A t \in Strategies : t # s => Units(t)' = Units(t)
    BY <2>1 DEF Units
  <2> QED
    BY <2>2, <2>3 DEF OpenUnits
<1>2. OpenUnits \cap new = {}
  BY DEF OpenUnits, Units
<1>3. IsFiniteSet(new) /\ Cardinality(new) = n
  <2> DEFINE A == {s}
             B == 1..n
  <2>1. IsFiniteSet(B) /\ Cardinality(B) = n
    BY FS_Interval
  <2>2. IsFiniteSet(A) /\ Cardinality(A) = 1
    BY FS_Singleton
  <2> HIDE DEF A, B
  <2>3. IsFiniteSet(A \X B) /\ Cardinality(A \X B) = Cardinality(A) * Cardinality(B)
    BY <2>1, <2>2, FS_Product
  <2>4. Cardinality(A \X B) = n
    BY <2>1, <2>2, <2>3
  <2> QED
    BY <2>3, <2>4 DEF A, B
<1> HIDE DEF new
<1>4. Cardinality(OpenUnits \cup new) = Cardinality(OpenUnits) + n - Cardinality({})
  BY <1>2, <1>3, UnitsFinite, FS_Union
<1>5. Cardinality({}) = 0 /\ Cardinality(OpenUnits) \in Nat
  BY UnitsFinite, FS_EmptySet, FS_CardinalityType
<1>6. OpenSum = Cardinality(OpenUnits) /\ OpenSum' = Cardinality(OpenUnits')
  BY DEF OpenSum, OpenUnits
<1> QED
  BY <1>1, <1>4, <1>5, <1>6

Passed == {"loss", "act", "book", "open"}
Roomy(r) ==
  /\ r.sum \in Nat /\ r.cap \in Nat
  /\ r.kind = "entry" /\ r.pc \in Passed => r.sum + r.row.form.n <= r.cap
  /\ r.pc = "open" => r.kind = "entry"
  /\ r.kind \in Kinds \cup {"none"}
LeverageInv == \A p \in Procs : Roomy(proc[p])

(* A goroutine's step keeps its room.                                      *)
KeepsRoom(p) == \E r : Becomes(p, r) /\ Roomy(r)

LEMMA RoomKept ==
  ASSUME RulesInv, LeverageInv, NEW p \in Procs, KeepsRoom(p) PROVE LeverageInv'
<1>1. PICK r : proc' = [proc EXCEPT ![p] = r] /\ Roomy(r)
  BY DEF KeepsRoom, Becomes
<1>2. ASSUME NEW q \in Procs PROVE Roomy(proc'[q])
  BY <1>1 DEF LeverageInv, RulesInv, Lawfully
<1> QED
  BY <1>2 DEF LeverageInv, Roomy

LEMMA RestRoomy == ASSUME NEW p \in Procs, Rest(p) PROVE KeepsRoom(p)
BY DEF Rest, KeepsRoom, Roomy, Idle, Passed

LEMMA BeginRoomy == ASSUME NEW p \in Procs, NEW k \in Kinds, Begin(p, k) PROVE KeepsRoom(p)
<1> DEFINE r == [Idle EXCEPT !.pc = "position", !.kind = k, !.row = rows[Serves[p]]]
<1>1. Roomy(r)
  BY DEF Roomy, Idle, Passed, Kinds
<1> QED
  BY <1>1 DEF Begin, KeepsRoom

(* A step that leaves row, kind, sum and limit, of one who had passed or   *)
(* has not.                                                                *)
LEMMA GoesOnRoomy ==
  ASSUME LeverageInv, NEW p \in Procs, NEW r, Becomes(p, r),
         r.kind = proc[p].kind, r.row = proc[p].row, r.sum = proc[p].sum, r.cap = proc[p].cap,
         r.pc \in Passed => proc[p].pc \in Passed, r.pc = "open" => r.kind = "entry"
  PROVE  KeepsRoom(p)
<1>1. Roomy(r)
  BY DEF LeverageInv, Roomy
<1> QED
  BY <1>1 DEF KeepsRoom

LEMMA LoadRoomy ==
  ASSUME IsFiniteSet(Strategies), RulesInv, LeverageInv, NEW p \in Procs, Load(p)
  PROVE  KeepsRoom(p)
<1>1. DOMAIN proc[p] = DOMAIN Idle
  BY DEF RulesInv, Lawfully, Lawful
<1>2. CASE ReadPosition(p)
  <2> DEFINE r == [proc[p] EXCEPT !.pc = "state", !.open = held[Serves[p]] > 0]
  <2>1. /\ r.kind = proc[p].kind /\ r.row = proc[p].row /\ r.sum = proc[p].sum
        /\ r.cap = proc[p].cap /\ r.pc = "state"
    BY <1>1 DEF Idle
  <2>2. Becomes(p, r)
    BY <1>2 DEF ReadPosition
  <2> HIDE DEF r
  <2> QED
    BY <2>1, <2>2, GoesOnRoomy DEF Passed
<1>3. CASE ReadState(p)
  <2> DEFINE r == [proc[p] EXCEPT !.pc = "sum", !.pnl = state.pnl, !.today = past.today]
  <2>1. /\ r.kind = proc[p].kind /\ r.row = proc[p].row /\ r.sum = proc[p].sum
        /\ r.cap = proc[p].cap /\ r.pc = "sum"
    BY <1>1 DEF Idle
  <2>2. Becomes(p, r)
    BY <1>3 DEF ReadState
  <2> HIDE DEF r
  <2> QED
    BY <2>1, <2>2, GoesOnRoomy DEF Passed
<1>4. CASE ReadSum(p)
  <2> DEFINE next == IF proc[p].row.enabled /\ ~proc[p].row.archived THEN "leverage" ELSE "refused"
             r == [proc[p] EXCEPT !.sum = OpenSum, !.pc = next]
  <2>1. next \in {"leverage", "refused"}
    OBVIOUS
  <2>2. Becomes(p, r)
    BY <1>4 DEF ReadSum
  <2>3. OpenSum \in Nat
    BY UnitsFinite DEF RulesInv
  <2> HIDE DEF next
  <2>4. r.kind = proc[p].kind /\ r.sum = OpenSum /\ r.cap = proc[p].cap /\ r.pc = next
    BY <1>1 DEF Idle
  <2> HIDE DEF r
  <2>5. Roomy(r)
    BY <2>1, <2>3, <2>4 DEF LeverageInv, Roomy, Passed
  <2> QED
    BY <2>2, <2>5 DEF KeepsRoom
<1> QED
  BY <1>2, <1>3, <1>4 DEF Load

(* TotalLeverage lets an entry pass only if there is room, with the limit  *)
(* it has just read.                                                       *)
LEMMA JudgeRoomy ==
  ASSUME RulesInv, LeverageInv, NEW p \in Procs, Judge(p) PROVE KeepsRoom(p)
<1>1. DOMAIN proc[p] = DOMAIN Idle
  BY DEF RulesInv, Lawfully, Lawful
<1>2. limits.cap \in Nat
  BY RiskAssumption DEF RulesInv, Tables
<1>3. CASE CheckLeverage(p) /\ proc[p].kind = "exit"
  <2> DEFINE r == [proc[p] EXCEPT !.pc = "loss", !.sum = 0]
  <2>1. r.kind = "exit" /\ r.sum = 0 /\ r.cap = proc[p].cap /\ r.pc = "loss"
    BY <1>1, <1>3 DEF Idle
  <2>2. Becomes(p, r)
    BY <1>3 DEF CheckLeverage
  <2> HIDE DEF r
  <2>3. Roomy(r)
    BY <2>1 DEF LeverageInv, Roomy, Kinds
  <2> QED
    BY <2>2, <2>3 DEF KeepsRoom
<1>4. CASE CheckLeverage(p) /\ proc[p].kind # "exit"
  <2> DEFINE next == IF PositionAllows(p) /\ LeverageAllows(p, limits.cap) THEN "loss" ELSE "refused"
             r == [proc[p] EXCEPT !.cap = limits.cap, !.pc = next]
  <2>1. next = "refused" \/ (next = "loss" /\ proc[p].sum + proc[p].row.form.n <= limits.cap)
    BY DEF LeverageAllows
  <2>2. Becomes(p, r)
    BY <1>4 DEF CheckLeverage
  <2> HIDE DEF next
  <2>3. /\ r.kind = proc[p].kind /\ r.row = proc[p].row /\ r.sum = proc[p].sum
        /\ r.cap = limits.cap /\ r.pc = next
    BY <1>1 DEF Idle
  <2> HIDE DEF r
  <2>4. Roomy(r)
    BY <1>2, <2>1, <2>3 DEF LeverageInv, Roomy, Passed
  <2> QED
    BY <2>2, <2>4 DEF KeepsRoom
<1>5. CASE CheckLoss(p)
  <2> DEFINE r1 == [proc[p] EXCEPT !.pc = "act", !.pnl = 0, !.today = 0]
             r2 == [proc[p] EXCEPT !.pc = "overdrawn"]
  <2>1. /\ r1.kind = proc[p].kind /\ r1.row = proc[p].row /\ r1.sum = proc[p].sum
        /\ r1.cap = proc[p].cap /\ r1.pc = "act"
    BY <1>1 DEF Idle
  <2>2. /\ r2.kind = proc[p].kind /\ r2.row = proc[p].row /\ r2.sum = proc[p].sum
        /\ r2.cap = proc[p].cap /\ r2.pc = "overdrawn"
    BY <1>1 DEF Idle
  <2>3. (Becomes(p, r1) \/ Becomes(p, r2)) /\ proc[p].pc = "loss"
    BY <1>5 DEF CheckLoss, Go, At
  <2> HIDE DEF r1, r2
  <2> QED
    BY <2>1, <2>2, <2>3, GoesOnRoomy DEF Passed
<1>6. CASE Deny(p)
  BY <1>6, RestRoomy DEF Deny
<1> QED
  BY <1>3, <1>4, <1>5, <1>6 DEF Judge, CheckLeverage

LEMMA TradeRoomy ==
  ASSUME RulesInv, LeverageInv, NEW p \in Procs, Trade(p) PROVE KeepsRoom(p)
<1>1. DOMAIN proc[p] = DOMAIN Idle
  BY DEF RulesInv, Lawfully, Lawful
<1>2. CASE Noop(p) \/ Open(p)
  BY <1>2, RestRoomy DEF Noop, Open
<1>3. ASSUME NEW x \in Results, CloseFills(p, x) PROVE KeepsRoom(p)
  <2> DEFINE r == [proc[p] EXCEPT !.pc = "book", !.stamp = day, !.pnl = x]
  <2>1. /\ r.kind = proc[p].kind /\ r.row = proc[p].row /\ r.sum = proc[p].sum
        /\ r.cap = proc[p].cap /\ r.pc = "book"
    BY <1>1 DEF Idle
  <2>2. Becomes(p, r) /\ proc[p].pc = "act"
    BY <1>3 DEF CloseFills, At
  <2> HIDE DEF r
  <2> QED
    BY <2>1, <2>2, GoesOnRoomy DEF Passed
<1>4. CASE CloseBooks(p)
  <2> DEFINE r == [proc[p] EXCEPT !.pc = "open", !.stamp = 0, !.pnl = 0]
  <2>1. /\ r.kind = proc[p].kind /\ r.row = proc[p].row /\ r.sum = proc[p].sum
        /\ r.cap = proc[p].cap /\ r.pc = "open"
    BY <1>1 DEF Idle
  <2>2. Rest(p) \/ (Becomes(p, r) /\ proc[p].kind = "entry" /\ proc[p].pc = "book")
    BY <1>4 DEF CloseBooks, At
  <2> HIDE DEF r
  <2> QED
    BY <2>1, <2>2, GoesOnRoomy, RestRoomy DEF Passed
<1> QED
  BY <1>2, <1>3, <1>4 DEF Trade

LEMMA LeverageStep ==
  ASSUME IsFiniteSet(Strategies), RulesInv, LeverageInv, [RiskNext]_rvars PROVE LeverageInv'
<1>1. ASSUME NEW p \in Procs, NEW k \in Kinds, Begin(p, k) PROVE LeverageInv'
  BY <1>1, BeginRoomy, RoomKept
<1>2. ASSUME NEW p \in Procs, Load(p) \/ Judge(p) PROVE LeverageInv'
  BY <1>2, LoadRoomy, JudgeRoomy, RoomKept
<1>3. ASSUME NEW p \in Procs, Trade(p) PROVE LeverageInv'
  BY <1>3, TradeRoomy, RoomKept
<1>4. ASSUME NEW p \in Procs, GiveUp(p) PROVE LeverageInv'
  BY <1>4, RestRoomy, RoomKept DEF GiveUp
<1>5. ASSUME UNCHANGED proc PROVE LeverageInv'
  BY <1>5 DEF LeverageInv, Roomy
<1>6. ASSUME NEW s \in Strategies, ClosedElsewhere(s) PROVE LeverageInv'
  BY <1>5, <1>6 DEF ClosedElsewhere
<1>7. CASE Pages
  BY <1>5, <1>7, PagesWrite
<1>8. CASE Midnight
  BY <1>5, <1>8 DEF Midnight
<1>9. CASE UNCHANGED rvars
  BY <1>5, <1>9 DEF rvars
<1> QED
  BY <1>1, <1>2, <1>3, <1>4, <1>6, <1>7, <1>8, <1>9 DEF RiskNext

(* An opening carries the open notional no further than the limit it was   *)
(* checked against and what its own fill slipped, if nothing was opened    *)
(* since that would have changed the answer: neither an edit of the        *)
(* strategy or of the limits, nor the close of the position it reverses,   *)
(* adds to it (loadAll, TotalLeverage, OpenPosition), for any number of    *)
(* strategies and goroutines.                                              *)
THEOREM LeverageKept == ASSUME IsFiniteSet(Strategies) PROVE RiskSpec => LeverageCapped
<1>1. RiskInit => RulesInv /\ LeverageInv
  <2>1. Roomy(Idle)
    BY DEF Roomy, Idle, Passed
  <2> QED
    BY <2>1, RulesStart DEF RiskInit, LeverageInv
<1>2. RulesInv /\ LeverageInv /\ [RiskNext]_rvars => (RulesInv /\ LeverageInv)'
  BY RulesStep, LeverageStep
<1>3. ASSUME RulesInv, LeverageInv, NEW p \in Procs, Open(p), OpenSum <= proc[p].sum
      PROVE  OpenSum' <= proc[p].cap + Slip
  <2> DEFINE n == proc[p].row.form.n
  <2>1. proc[p].row \in Rows /\ Serves[p] \in Strategies
    BY <1>3, RiskAssumption DEF RulesInv, Lawfully, Lawful, Open, At
  <2>2. n \in Nat /\ Slip \in Nat
    BY <2>1, RiskAssumption DEF Rows
  <2>3. PICK cost \in 1..(n + Slip) : held[Serves[p]] = 0 /\ held' = [held EXCEPT ![Serves[p]] = cost]
    BY <1>3 DEF Open, Costs
  <2>4. OpenSum' = OpenSum + cost /\ OpenSum \in Nat /\ cost \in Nat /\ cost <= n + Slip
    <3>1. cost \in Nat /\ cost <= n + Slip
      BY <2>2, <2>3
    <3> QED
      BY <1>3, <2>1, <2>3, <3>1, OpenAdds, UnitsFinite DEF RulesInv
  <2>5. /\ proc[p].sum \in Nat /\ proc[p].cap \in Nat
        /\ proc[p].sum + n <= proc[p].cap
    BY <1>3 DEF LeverageInv, Roomy, Passed, Open, At
  <2> HIDE DEF n
  <2> QED
    BY <1>3, <2>2, <2>4, <2>5
<1>4. RulesInv /\ LeverageInv /\ [RiskNext]_rvars =>
        [\A p \in Procs : Open(p) /\ OpenSum <= proc[p].sum => OpenSum' <= proc[p].cap + Slip]_rvars
  BY <1>3
<1> QED
  BY <1>1, <1>2, <1>4, PTL DEF RiskSpec, LeverageCapped
=============================================================================
