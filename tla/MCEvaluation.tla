---------------------------- MODULE MCEvaluation ----------------------------
(* The evaluation services, for TLC.  They share neither state nor steps,  *)
(* so each behaviour runs one of them: "which", chosen at the start.  The  *)
(* two backfillers are told apart by the rows there are: "entry", "exit".  *)
EXTENDS Replay, Feed, Outcome, Critique

VARIABLE which

evalVars == <<replayVars, feedVars, outcomeVars, critVars, which>>

Old(pnl, score, decision) == [pnl |-> pnl, score |-> score, decision |-> decision]
MCOld == <<Old(TRUE, 20, "approve"), Old(FALSE, 90, "abandon")>>
MCMove == [r \in Rows |-> [t \in 0..OutcomeTime |-> IF t < 6 THEN "win" ELSE "loss"]]
Pattern(k, c) == [key |-> k, conf |-> c]
MCAnswers == {<<Pattern(1, "high"), Pattern(2, "low")>>, <<Pattern(1, "high"), Pattern(1, "high")>>}

EvalInit ==
  /\ ReplayInit /\ FeedInit /\ OutcomeInit /\ CritInit
  /\ which \in {"replay", "feed", "entry", "exit", "critique"}
  /\ which # "critique" => enabled.on
EvalNext ==
  /\ UNCHANGED which
  /\ \/ which = "replay" /\ ReplayNext /\ UNCHANGED <<feedVars, outcomeVars, critVars>>
     \/ which = "feed" /\ FeedNext /\ UNCHANGED <<replayVars, outcomeVars, critVars>>
     \/ /\ which \in Backfillers /\ OutcomeNext
        /\ \A r \in IF which = "entry" THEN Exits ELSE Evals : UNCHANGED row[r]
        /\ UNCHANGED <<replayVars, feedVars, critVars>>
     \/ which = "critique" /\ CritNext /\ UNCHANGED <<replayVars, feedVars, outcomeVars>>
EvalFairness ==
  /\ \A s \in Subs : WF_feedVars(which = "feed" /\ HandlerStep(s))
  /\ \A p \in Publishers : WF_feedVars(which = "feed" /\ PublishStep(p))
  /\ WF_outcomeVars(which \in Backfillers /\ OutcomeTick)
  /\ \A b \in Backfillers : WF_outcomeVars(which = b /\ BackfillStep(b))
EvalSpec == EvalInit /\ [][EvalNext]_evalVars /\ EvalFairness

EvalTypeOK == ReplayTypeOK /\ FeedTypeOK /\ OutcomeTypeOK /\ CritTypeOK
=============================================================================
