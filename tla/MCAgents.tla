------------------------------ MODULE MCAgents ------------------------------
(* Scoring and what surrounds it, for TLC.  The parts share neither state  *)
(* nor steps, so each behaviour runs one of them: "which", chosen at the   *)
(* start.  Of the context the calendar and the market are explored apart:  *)
(* they have only the clock and the load in common.                        *)
EXTENDS News, Context, Scoring, Settings, Strategies, TLC

VARIABLE which

agentVars == <<newsVars, contextVars, scoringVars, settingsVars, strategiesVars, which>>

MCSymbol == [c \in Scorings |-> "eth"]
MCGiven == [c \in Clearable |-> "config"]
MCSymmetry == Permutations(Signals)

AgentsInit ==
  /\ NewsInit /\ ContextInit /\ ScoringInit /\ SettingsInit /\ StrategiesInit
  /\ which \in {"news", "calendar", "market", "scoring", "settings", "strategies"}
  /\ which # "news" => ns.min = "low"
  /\ sset.dry = sset.closed /\ (which # "scoring" => ~sset.dry /\ sset.key)
AgentsNext ==
  /\ UNCHANGED which
  /\ \/ which = "news" /\ NewsNext /\ UNCHANGED <<contextVars, scoringVars, settingsVars, strategiesVars>>
     \/ which = "calendar" /\ CalendarNext
        /\ UNCHANGED <<newsVars, scoringVars, settingsVars, strategiesVars>>
     \/ which = "market" /\ MarketNext
        /\ UNCHANGED <<newsVars, scoringVars, settingsVars, strategiesVars>>
     \/ which = "scoring" /\ ScoringNext /\ UNCHANGED <<newsVars, contextVars, settingsVars, strategiesVars>>
     \/ which = "settings" /\ SettingsNext /\ UNCHANGED <<newsVars, contextVars, scoringVars, strategiesVars>>
     \/ which = "strategies" /\ StrategiesNext /\ UNCHANGED <<newsVars, contextVars, scoringVars, settingsVars>>
AgentsSpec == AgentsInit /\ [][AgentsNext]_agentVars

(* Bound: the perp poller ticks on whole minutes.                          *)
TicksOnMinutes == which = "market" => poll.at % Minute = 0

AgentsTypeOK ==
  NewsTypeOK /\ ContextTypeOK /\ ScoringTypeOK /\ SettingsTypeOK /\ StrategiesTypeOK
=============================================================================
