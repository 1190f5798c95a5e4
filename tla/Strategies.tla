----------------------------- MODULE Strategies -----------------------------
(***************************************************************************)
(* The strategies page against the signals that trade them.  A signal      *)
(* loads its strategy, goes on if it is enabled and not archived, and      *)
(* inserts a virtual position some time later; the page toggles with a     *)
(* read and a write, and archives after counting the active positions.     *)
(*                                                                         *)
(* Abstractions: the other columns of a strategy are one value; positions  *)
(* of a strategy are whether it has an active one and whether it ever had  *)
(* one, which a foreign key keeps it from being deleted for.               *)
(***************************************************************************)
EXTENDS Integers

CONSTANTS
  StrategyIds,
  Requests,    \* requests to the page being handled at the same time
  Params,      \* values of the other columns
  MaxSignals,  \* bound: signals
  MaxPosts     \* bound: requests

ASSUME StrategiesAssumption == MaxSignals \in Nat /\ MaxPosts \in Nat

VARIABLES
  strat,    \* strategies: the row, or none
  vp,       \* its virtual positions: one active, any at all
  sigs,     \* ingest: whether a signal has loaded the strategy and goes on
  req,      \* requests to the page
  late,     \* history: its position was inserted amid or after its archiving
  blind,    \* history: it was archived although the positions were not counted
  nsignals, nposts

strategiesVars == <<strat, vp, sigs, req, late, blind, nsignals, nposts>>

NoRow == [there |-> FALSE, enabled |-> FALSE, archived |-> FALSE, params |-> 0]
IdleReq == [pc |-> "idle", id |-> "", row |-> NoRow, counted |-> TRUE]

StrategiesInit ==
  /\ strat = [s \in StrategyIds |-> NoRow]
  /\ vp = [s \in StrategyIds |-> [active |-> FALSE, any |-> FALSE]]
  /\ sigs = [s \in StrategyIds |-> FALSE]
  /\ req = [r \in Requests |-> IdleReq]
  /\ late = {} /\ blind = {} /\ nsignals = 0 /\ nposts = 0

Post(r) == req[r].pc = "idle" /\ nposts < MaxPosts /\ nposts' = nposts + 1
Reply(r) == req' = [req EXCEPT ![r] = IdleReq]

Create(r, s, p) ==
  /\ Post(r) /\ ~strat[s].there
  /\ \E e \in BOOLEAN :
       strat' = [strat EXCEPT ![s] = [there |-> TRUE, enabled |-> e, archived |-> FALSE, params |-> p]]
  /\ UNCHANGED <<vp, sigs, req, late, blind, nsignals>>

UpdateWhole(s, row) ==  \* mutant: every column is written back, archived too
  strat' = [strat EXCEPT ![s] = IF @.there THEN row ELSE @]
(* StrategyRepo.Update writes every column but archived, of a row there is.*)
Update(s, row) ==
  strat' = [strat EXCEPT ![s] = IF @.there THEN [row EXCEPT !.archived = strat[s].archived] ELSE @]
SaveStrategy(r, s, p) ==
  /\ Post(r)
  /\ \E e \in BOOLEAN :
       Update(s, [there |-> TRUE, enabled |-> e, archived |-> strat[s].archived, params |-> p])
  /\ UNCHANGED <<vp, sigs, req, late, blind, nsignals>>

Toggle(r, s) ==
  /\ Post(r) /\ strat[s].there
  /\ req' = [req EXCEPT ![r] = [IdleReq EXCEPT !.pc = "toggle", !.id = s, !.row = strat[s]]]
  /\ UNCHANGED <<strat, vp, sigs, late, blind, nsignals>>
ToggleWrite(r) ==
  /\ req[r].pc = "toggle"
  /\ Update(req[r].id, [req[r].row EXCEPT !.enabled = ~ @])
  /\ Reply(r)
  /\ UNCHANGED <<vp, sigs, late, blind, nsignals, nposts>>

(* setArchived: the count, whose error is dropped and leaves 0; the flag.  *)
Archive(r, s) ==
  /\ Post(r)
  /\ \E counted \in BOOLEAN :
       /\ counted => ~vp[s].active
       /\ req' = [req EXCEPT ![r] = [IdleReq EXCEPT !.pc = "archive", !.id = s, !.counted = counted]]
  /\ UNCHANGED <<strat, vp, sigs, late, blind, nsignals>>
SetArchived(r) ==
  /\ req[r].pc = "archive"
  /\ LET s == req[r].id
     IN /\ strat' = [strat EXCEPT ![s].archived = @ \/ strat[s].there]
        /\ blind' = IF ~req[r].counted /\ vp[s].active THEN blind \cup {s} ELSE blind
  /\ Reply(r)
  /\ UNCHANGED <<vp, sigs, late, nsignals, nposts>>
Unarchive(r, s) ==
  /\ Post(r) /\ strat' = [strat EXCEPT ![s].archived = FALSE]
  /\ UNCHANGED <<vp, sigs, req, late, blind, nsignals>>
Delete(r, s) ==
  /\ Post(r) /\ strat[s].there /\ ~vp[s].any
  /\ strat' = [strat EXCEPT ![s] = NoRow]
  /\ UNCHANGED <<vp, sigs, req, late, blind, nsignals>>

(* loadAll and the two refusals of processSignal, then an opening, which   *)
(* may come to nothing; signals of a strategy come one after the other.    *)
SignalLoads(s) ==
  /\ nsignals < MaxSignals /\ nsignals' = nsignals + 1 /\ ~sigs[s]
  /\ strat[s].there /\ strat[s].enabled /\ ~strat[s].archived /\ ~vp[s].active
  /\ sigs' = [sigs EXCEPT ![s] = TRUE]
  /\ UNCHANGED <<strat, vp, req, late, blind, nposts>>
InsertPosition(s) ==
  /\ sigs[s] /\ sigs' = [sigs EXCEPT ![s] = FALSE]
  /\ \/ UNCHANGED <<vp, late>>
     \/ /\ strat[s].there /\ vp' = [vp EXCEPT ![s] = [active |-> TRUE, any |-> TRUE]]
        /\ late' = IF strat[s].archived \/ \E r \in Requests : req[r].pc = "archive" /\ req[r].id = s
                   THEN late \cup {s} ELSE late
  /\ UNCHANGED <<strat, req, blind, nsignals, nposts>>
PositionEnds(s) ==
  /\ vp[s].active /\ vp' = [vp EXCEPT ![s].active = FALSE]
  /\ late' = late \ {s} /\ blind' = blind \ {s}
  /\ UNCHANGED <<strat, sigs, req, nsignals, nposts>>

PageStep(r) ==
  \/ \E s \in StrategyIds :
       \/ (\E p \in Params : Create(r, s, p) \/ SaveStrategy(r, s, p))
       \/ Toggle(r, s) \/ Archive(r, s) \/ Unarchive(r, s) \/ Delete(r, s)
  \/ ToggleWrite(r) \/ SetArchived(r)
StrategiesNext ==
  \/ \E r \in Requests : PageStep(r)
  \/ \E s \in StrategyIds : SignalLoads(s) \/ InsertPosition(s) \/ PositionEnds(s)
StrategiesSpec == StrategiesInit /\ [][StrategiesNext]_strategiesVars
----------------------------------------------------------------------------
StrategiesTypeOK ==
  /\ \A s \in StrategyIds : strat[s].params \in Params \cup {0} /\ (vp[s].active => vp[s].any)
  /\ \A r \in Requests : req[r].pc \in {"idle", "toggle", "archive"}

(* An archived strategy is out of the market: it has an active position    *)
(* only if that was inserted amid or after the archiving by a signal that  *)
(* had loaded the strategy before, or if the positions could not be        *)
(* counted; when it is gone no other follows.                              *)
ArchivedIdle ==
  \A s \in StrategyIds : strat[s].archived /\ vp[s].active => s \in late \cup blind
=============================================================================
