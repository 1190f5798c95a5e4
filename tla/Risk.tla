-------------------------------- MODULE Risk --------------------------------
(***************************************************************************)
(* What decides whether a signal may trade: loadAll takes a picture of the *)
(* strategy, its position, the day's PnL and the open notional, statement  *)
(* by statement; the rules of the risk pipeline judge that picture with    *)
(* settings they read themselves; and the trade that follows changes the   *)
(* very rows that the other strategies' pictures are made of.  Meanwhile   *)
(* the operator edits strategies and limits on the admin pages, and the    *)
(* UTC day changes.                                                        *)
(*                                                                         *)
(* One action is one statement, or one call of the trade service (Trading  *)
(* models it from inside; here it succeeds, or the goroutine gives up).    *)
(* Money is counted in units: a strategy's notional is size * leverage,    *)
(* and an open position counts for its quantity times the price it was     *)
(* filled at: the quantity is rounded down, the price may have slipped.    *)
(* breaker_tripped is left out: nothing ever calls TripBreaker.            *)
(***************************************************************************)
EXTENDS Integers, FiniteSets

CONSTANTS
  Strategies,   \* strategy ids
  Procs,        \* goroutines running processSignal
  Serves,       \* the strategy each of them works for
  Forms,        \* what the strategy form may hold: notional, max_open, valid
  Limits,       \* what the risk form may hold: max leverage * equity, max loss
  FirstLimits,  \* the limits before anybody writes the form
  Results,      \* PnL of a close
  Slip,         \* bound: units by which a fill costs more than the signal's price
  MaxOpens,     \* bound: positions ever opened
  MaxEdits,     \* bound: writes of the admin pages
  LastDay       \* bound: UTC days, counted from 0

ASSUME RiskAssumption ==
  /\ Serves \in [Procs -> Strategies]
  /\ Forms \subseteq [n : Nat \ {0}, max : Nat \ {0}, valid : BOOLEAN] /\ Forms # {}
  /\ Limits \subseteq [cap : Nat \ {0}, loss : Nat \ {0}] /\ FirstLimits \in Limits
  /\ Results \subseteq Int /\ Slip \in Nat
  /\ MaxOpens \in Nat /\ MaxEdits \in Nat /\ LastDay \in Nat

VARIABLES
  rows,    \* strategies: form, enabled, archived
  held,    \* notional of the active VP of a strategy, 0 for none
  state,   \* system_state: daily_pnl_usdc, daily_pnl_date
  limits,  \* settings: max_total_leverage (times the equity), max_daily_loss_usdc
  proc,    \* trade goroutines: program counter, kind of signal, picture taken
  day,     \* the UTC date
  past     \* what has happened (history only): PnL booked since midnight or the
           \* last reset, whether a close was booked today under an old date;
           \* openings and edits, for the bounds

pvars == <<rows, held, state, limits, day, past>>
rvars == <<pvars, proc>>

(* The open notional: as many units as all active positions have together. *)
Units(s) == {s} \X (1..held[s])
OpenSum == Cardinality(UNION {Units(s) : s \in Strategies})

NoForm == [n |-> 0, max |-> 0, valid |-> FALSE]
NoRow == [form |-> NoForm, enabled |-> FALSE, archived |-> FALSE]

(* The picture of a goroutine: the row, whether there is a position, the   *)
(* day's PnL (and what it should have been), the open notional and the     *)
(* leverage limit it was compared with; for a close its PnL and its date.  *)
Idle == [pc |-> "idle", kind |-> "none", row |-> NoRow, open |-> FALSE,
         pnl |-> 0, today |-> 0, sum |-> 0, cap |-> 0, stamp |-> 0]
At(p, l) == proc[p].pc = l
Becomes(p, r) == proc' = [proc EXCEPT ![p] = r]
Go(p, l) == Becomes(p, [proc[p] EXCEPT !.pc = l])
Rest(p) == Becomes(p, Idle)

RiskInit ==
  /\ rows \in [Strategies -> [form : {f \in Forms : f.valid}, enabled : {TRUE}, archived : {FALSE}]]
  /\ held = [s \in Strategies |-> 0]
  /\ state = [pnl |-> 0, date |-> 0]
  /\ limits = FirstLimits
  /\ proc = [p \in Procs |-> Idle]
  /\ day = 0
  /\ past = [today |-> 0, late |-> FALSE, opens |-> 0, edits |-> 0]

----------------------------------------------------------------------------
(* loadAll.                                                                *)

(* Mutant: the row is taken as it is, without strategy.New.                *)
BeginUnvalidated(p, k) ==
  /\ At(p, "idle")
  /\ Becomes(p, [Idle EXCEPT !.pc = "position", !.kind = k, !.row = rows[Serves[p]]])
  /\ UNCHANGED pvars

(* The row of the strategy; one that strategy.New rejects, or an error,    *)
(* makes the signal 'invalid'.                                             *)
Begin(p, k) ==
  /\ At(p, "idle")
  /\ rows[Serves[p]].form.valid
  /\ Becomes(p, [Idle EXCEPT !.pc = "position", !.kind = k, !.row = rows[Serves[p]]])
  /\ UNCHANGED pvars

ReadPosition(p) ==
  /\ At(p, "position")
  /\ Becomes(p, [proc[p] EXCEPT !.pc = "state", !.open = held[Serves[p]] > 0])
  /\ UNCHANGED pvars

(* daily_pnl_date is not among the columns anybody compares with today.    *)
ReadState(p) ==
  /\ At(p, "state")
  /\ Becomes(p, [proc[p] EXCEPT !.pc = "sum", !.pnl = state.pnl, !.today = past.today])
  /\ UNCHANGED pvars

(* The last read of loadAll; then disabled and archived strategies are     *)
(* refused, whatever kind the signal is.                                   *)
ReadSum(p) ==
  /\ At(p, "sum")
  /\ Becomes(p, [proc[p] EXCEPT !.sum = OpenSum, !.pc =
       IF proc[p].row.enabled /\ ~proc[p].row.archived THEN "leverage" ELSE "refused"])
  /\ UNCHANGED pvars

----------------------------------------------------------------------------
(* The pipeline: MaxPosition, TotalLeverage, DailyLossBreaker.             *)

PositionAllows(p) == proc[p].row.form.n <= proc[p].row.form.max

(* Mutant: the added notional is not counted.                              *)
LeverageAllowsSum(p, cap) == proc[p].sum <= cap
LeverageAllows(p, cap) == proc[p].sum + proc[p].row.form.n <= cap

(* The first two rules; exits pass without a look at the settings.         *)
CheckLeverage(p) ==
  /\ At(p, "leverage")
  /\ IF proc[p].kind = "exit"
       THEN Becomes(p, [proc[p] EXCEPT !.pc = "loss", !.sum = 0])
       ELSE Becomes(p, [proc[p] EXCEPT !.cap = limits.cap, !.pc =
              IF PositionAllows(p) /\ LeverageAllows(p, limits.cap) THEN "loss" ELSE "refused"])
  /\ UNCHANGED pvars

(* Mutant: exits are judged like entries.                                  *)
LossAllowsNoExit(p) == -proc[p].pnl <= limits.loss
LossAllows(p) == proc[p].kind = "exit" \/ -proc[p].pnl <= limits.loss

CheckLoss(p) ==
  /\ At(p, "loss")
  /\ IF LossAllows(p) THEN Becomes(p, [proc[p] EXCEPT !.pc = "act", !.pnl = 0, !.today = 0])
                      ELSE Go(p, "overdrawn")
  /\ UNCHANGED pvars

(* The 'risk_denied' row and the message.                                  *)
Deny(p) == proc[p].pc \in {"refused", "overdrawn"} /\ Rest(p) /\ UNCHANGED pvars

----------------------------------------------------------------------------
(* The trade, on the position and the strategy of the picture.             *)

(* position.Decide: an entry opens, reverses a position of the other side, *)
(* or is a noop on one of its own side; an exit closes or is a noop.       *)
Noop(p) ==
  /\ At(p, "act") /\ (proc[p].open \/ proc[p].kind = "exit")
  /\ Rest(p)
  /\ UNCHANGED pvars

(* The exit is filled and ClosePosition takes the time; its transaction    *)
(* has the row of system_state still to wait for.                          *)
CloseFills(p, r) ==
  /\ At(p, "act") /\ proc[p].open /\ held[Serves[p]] > 0
  /\ Becomes(p, [proc[p] EXCEPT !.pc = "book", !.stamp = day, !.pnl = r])
  /\ UNCHANGED pvars

(* Mutant: the day's PnL is never started anew.                            *)
AddDailyPnLForever(delta, date) == state' = [pnl |-> state.pnl + delta, date |-> date]
AddDailyPnL(delta, date) ==
  state' = [pnl |-> IF state.date = date THEN state.pnl + delta ELSE delta, date |-> date]

CloseBooks(p) ==
  /\ At(p, "book")
  /\ held' = [held EXCEPT ![Serves[p]] = 0]
  /\ AddDailyPnL(proc[p].pnl, proc[p].stamp)
  /\ past' = IF proc[p].stamp = day THEN [past EXCEPT !.today = @ + proc[p].pnl]
                                    ELSE [past EXCEPT !.late = TRUE]
  /\ IF proc[p].kind = "entry"
       THEN Becomes(p, [proc[p] EXCEPT !.pc = "open", !.stamp = 0, !.pnl = 0])
       ELSE Rest(p)
  /\ UNCHANGED <<rows, limits, day>>

(* OpenPosition commits, unless the strategy has an active VP.  What it    *)
(* costs is known when it is filled; no rule looks at it again.            *)
Costs(p) == 1..(proc[p].row.form.n + Slip)
Open(p) ==
  /\ At(p, "open") \/ (At(p, "act") /\ proc[p].kind = "entry" /\ ~proc[p].open)
  /\ past.opens < MaxOpens
  /\ held[Serves[p]] = 0
  /\ \E cost \in Costs(p) : held' = [held EXCEPT ![Serves[p]] = cost]
  /\ past' = [past EXCEPT !.opens = @ + 1]
  /\ Rest(p)
  /\ UNCHANGED <<rows, state, limits, day>>

(* A call fails, the system is disarmed, or the scorer abandons the signal *)
(* (Ingest has these): nothing is traded.                                  *)
GiveUp(p) == ~At(p, "idle") /\ Rest(p) /\ UNCHANGED pvars

(* A leg, ExitNow or the operator closes the position: no PnL is booked.   *)
ClosedElsewhere(s) ==
  /\ held[s] > 0
  /\ held' = [held EXCEPT ![s] = 0]
  /\ UNCHANGED <<rows, state, limits, day, past, proc>>

----------------------------------------------------------------------------
(* The admin pages.                                                        *)

Edit == past.edits < MaxEdits
SetRow(s, row) ==
  /\ Edit
  /\ rows' = [rows EXCEPT ![s] = row]
  /\ past' = [past EXCEPT !.edits = @ + 1]

(* StrategyRepo.Update, of Save and Toggle, writes form and enabled;       *)
(* SetArchived writes the other flag.  What the handlers read before these *)
(* statements is left out: no lock keeps it true until the statement, so   *)
(* they may come at any time.  Nothing validates the form before it.       *)
Save(s, f, e) ==
  /\ SetRow(s, [form |-> f, enabled |-> e, archived |-> rows[s].archived])
  /\ UNCHANGED <<held, state, limits, day, proc>>
SetArchived(s, a) ==
  /\ SetRow(s, [rows[s] EXCEPT !.archived = a])
  /\ UNCHANGED <<held, state, limits, day, proc>>

SaveRisk(l) ==
  /\ Edit
  /\ limits' = l
  /\ past' = [past EXCEPT !.edits = @ + 1]
  /\ UNCHANGED <<rows, held, state, day, proc>>

ResetBreaker ==
  /\ state' = [state EXCEPT !.pnl = 0]
  /\ Edit
  /\ past' = [past EXCEPT !.today = 0, !.edits = @ + 1]
  /\ UNCHANGED <<rows, held, limits, day, proc>>

(* Midnight UTC: nothing in the process wakes up for it.                   *)
Midnight ==
  /\ day < LastDay
  /\ day' = day + 1
  /\ past' = [past EXCEPT !.today = 0, !.late = FALSE]
  /\ UNCHANGED <<rows, held, state, limits, proc>>

----------------------------------------------------------------------------
Kinds == {"entry", "exit"}
Load(p) == ReadPosition(p) \/ ReadState(p) \/ ReadSum(p)
Judge(p) == CheckLeverage(p) \/ CheckLoss(p) \/ Deny(p)
Trade(p) == Noop(p) \/ (\E r \in Results : CloseFills(p, r)) \/ CloseBooks(p) \/ Open(p)
Pages ==
  \/ \E s \in Strategies, f \in Forms, e \in BOOLEAN : Save(s, f, e)
  \/ \E s \in Strategies, a \in BOOLEAN : SetArchived(s, a)
  \/ (\E l \in Limits : SaveRisk(l)) \/ ResetBreaker

RiskNext ==
  \/ \E p \in Procs, k \in Kinds : Begin(p, k)
  \/ \E p \in Procs : Load(p) \/ Judge(p) \/ Trade(p) \/ GiveUp(p)
  \/ \E s \in Strategies : ClosedElsewhere(s)
  \/ Pages
  \/ Midnight

RiskSpec == RiskInit /\ [][RiskNext]_rvars

----------------------------------------------------------------------------
(* Every variable has its type: the rows of strategies, settings and       *)
(* system_state, and the goroutines of internal/application/ingest.        *)
Rows == [form : Forms, enabled : BOOLEAN, archived : BOOLEAN]
RiskTypeOK ==
  /\ rows \in [Strategies -> Rows]
  /\ held \in [Strategies -> UNION {0..(f.n + Slip) : f \in Forms}]
  /\ state.pnl \in Int /\ state.date \in 0..day /\ day \in 0..LastDay
  /\ limits \in Limits
  /\ \A p \in Procs :
       /\ At(p, "idle") <=> proc[p] = Idle
       /\ At(p, "idle") \/ (proc[p].row \in Rows /\ proc[p].row.form.valid)
       /\ proc[p].stamp <= day
  /\ past.opens <= MaxOpens /\ past.edits <= MaxEdits

(* An opening keeps the total notional within the leverage limit it was    *)
(* checked against, but for the slippage of its own fill, also when it     *)
(* reverses a position or the strategy, the limits and other positions     *)
(* change on the way; only an opening of another strategy since the sum    *)
(* was read can carry the total further.                                   *)
LeverageCapped ==
  [][\A p \in Procs : Open(p) /\ OpenSum <= proc[p].sum => OpenSum' <= proc[p].cap + Slip]_rvars

(* "Exits are always allowed (the breaker must not lock up positions):" an *)
(* exit is 'risk_denied' only on a strategy that was disabled or archived. *)
ExitAllowed ==
  \A p \in Procs :
    proc[p].kind = "exit" /\ proc[p].pc \in {"refused", "overdrawn"} =>
      ~proc[p].row.enabled \/ proc[p].row.archived

(* On the day it is dated daily_pnl_usdc is the sum of what was booked     *)
(* that day since the last reset, with closes and resets in any order, as  *)
(* long as no transaction that took its time before midnight got the row   *)
(* after it: such a one dates the sum back and the day starts anew.        *)
DailyTotal == state.date = day /\ ~past.late => state.pnl = past.today

----------------------------------------------------------------------------
(* What the README says, and the code does not do; refuted by a run of its *)
(* own: the day's loss "is reset every day at 0:00 UTC", so an entry is    *)
(* refused for it only on a day that has a loss.                           *)
RefusedForTodaysLoss == \A p \in Procs : At(p, "overdrawn") => proc[p].today < 0

=============================================================================
