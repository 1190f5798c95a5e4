------------------------------ MODULE Scoring -------------------------------
(***************************************************************************)
(* Scoring a signal: the agent hook asks the LLM, records how the call     *)
(* went in the health tracker all signals share, alerts the operator about *)
(* an unhealthy LLM or a missing key, and turns the answer into a verdict  *)
(* by the settings that were read when the signal came.                    *)
(*                                                                         *)
(* Abstractions: the prompt (its parts are module Context) and everything  *)
(* in the answer but the score; statements that store the score or the     *)
(* evaluation may fail, and their errors are only logged.                  *)
(***************************************************************************)
EXTENDS Integers, Sequences, FiniteSets

CONSTANTS
  Signals,     \* signals being processed, each by a goroutine
  Thresholds,  \* values of agent_scorer_threshold
  Scores,      \* scores the LLM may give, out of range included
  HealthWindow, MinFailures, \* 10 minutes; 5
  AlertEvery, KeyAlertEvery, \* 10 minutes; 24 hours
  ScoreTime,   \* bound: the clock stops here
  ScoreFaults  \* bound: failed statements and changes of the settings

ASSUME ScoringAssumption ==
  /\ Thresholds \subseteq 0..100 /\ Scores \subseteq Int
  /\ \A n \in {HealthWindow, MinFailures, AlertEvery, KeyAlertEvery, ScoreTime, ScoreFaults} : n \in Nat

VARIABLES
  st,        \* the time
  sset,      \* the settings row
  sg,        \* a signal: program counter, settings it read, result, action
  entries,   \* HealthTracker.entries
  calls,     \* history: every call recorded, the mutex held
  lastSent,  \* llmAlertLastSent and keyAlertLastSent
  alerts,    \* history: alerts sent
  sigRow,    \* signals: agent_score, agent_decision
  sfaults

scoringVars == <<st, sset, sg, entries, calls, lastSent, alerts, sigRow, sfaults>>

SettingsRow == [on : {TRUE}, dry : BOOLEAN, closed : BOOLEAN, threshold : Thresholds, key : BOOLEAN]
Off == [on |-> FALSE, dry |-> FALSE, closed |-> FALSE, threshold |-> 0, key |-> FALSE]
NoResult == [score |-> -1, decision |-> ""]
LongAgo == -1000  \* time.Time{}: longer ago than any window

ScoringInit ==
  /\ st = 0 /\ sset \in SettingsRow
  /\ sg = [s \in Signals |-> [pc |-> "new", set |-> Off, res |-> NoResult, bad |-> 0, action |-> ""]]
  /\ entries = <<>> /\ calls = {} /\ lastSent = [llm |-> LongAgo, key |-> LongAgo]
  /\ alerts = {} /\ sfaults = 0
  /\ sigRow = [s \in Signals |-> NoResult]

SFault == sfaults < ScoreFaults /\ sfaults' = sfaults + 1
NoSFault == UNCHANGED sfaults
Goes(s, pc) == sg' = [sg EXCEPT ![s].pc = pc]

ScoringTick ==
  /\ st < ScoreTime /\ st' = st + 1
  /\ UNCHANGED <<sset, sg, entries, calls, lastSent, alerts, sigRow, sfaults>>
ChangeSettings ==
  /\ SFault /\ sset' \in SettingsRow \ {sset}
  /\ UNCHANGED <<st, sg, entries, calls, lastSent, alerts, sigRow>>

(* The settings, which count as off when they cannot be read: then the     *)
(* verdict is to trade.                                                    *)
ReadSettings(s) ==
  /\ sg[s].pc = "new"
  /\ \/ NoSFault /\ sg' = [sg EXCEPT ![s].pc = "score", ![s].set = sset]
     \/ SFault /\ sg' = [sg EXCEPT ![s].pc = "done", ![s].action = "trade"]
  /\ UNCHANGED <<st, sset, entries, calls, lastSent, alerts, sigRow>>

(* evictLocked: the entries from the first on that is young enough.        *)
Young(e) == e.at >= st - HealthWindow
FirstYoung(es) ==
  CHOOSE i \in 1..(Len(es) + 1) :
    (\A j \in 1..(i - 1) : ~Young(es[j])) /\ (i <= Len(es) => Young(es[i]))
Evicted(es) == SubSeq(es, FirstYoung(es), Len(es))
Record(s, ok) ==
  /\ entries' = Evicted(Append(entries, [at |-> st, ok |-> ok]))
  /\ calls' = calls \cup {[by |-> s, at |-> st, ok |-> ok]}

(* Score: no request is recorded if the prompt does not render; a request  *)
(* that fails and an answer out of range are failures of the LLM.          *)
Failed == [score |-> -1, decision |-> "failed"]
Score(s) ==
  /\ sg[s].pc = "score"
  /\ \/ \E n \in Scores :
          IF n \in 0..100
          THEN Record(s, TRUE) /\ sg' = [sg EXCEPT ![s].pc = "health", ![s].res.score = n]
          ELSE Record(s, FALSE) /\ sg' = [sg EXCEPT ![s].pc = "health", ![s].res = Failed]
     \/ /\ sg' = [sg EXCEPT ![s].pc = "health", ![s].res = Failed]
        /\ UNCHANGED <<entries, calls>>
  /\ UNCHANGED <<st, sset, lastSent, alerts, sigRow, sfaults>>

(* IsUnhealthy, and then, under another lock, the throttle.                *)
Failures(es) == Cardinality({i \in 1..Len(es) : ~es[i].ok})
IsUnhealthy(es) == Failures(es) >= MinFailures /\ 2 * Failures(es) >= Len(es)
CheckHealth(s) ==
  /\ sg[s].pc = "health"
  /\ entries' = Evicted(entries)
  /\ sg' = [sg EXCEPT ![s].pc = IF IsUnhealthy(entries') THEN "alert" ELSE "verdict",
                      ![s].bad = IF IsUnhealthy(entries') THEN st ELSE 0]
  /\ UNCHANGED <<st, sset, calls, lastSent, alerts, sigRow, sfaults>>

Told(kind, s) == alerts' = alerts \cup {[kind |-> kind, at |-> st, by |-> s, seen |-> sg[s].bad]}
Alert(kind, s) == lastSent' = [lastSent EXCEPT ![kind] = st] /\ Told(kind, s)
AlertForgotten(s) ==  \* mutant: a lost update of llmAlertLastSent
  /\ sg[s].pc = "alert" /\ Goes(s, "verdict")
  /\ IF st - lastSent.llm < AlertEvery THEN UNCHANGED <<lastSent, alerts>>
     ELSE Told("llm", s) /\ UNCHANGED lastSent
  /\ UNCHANGED <<st, sset, entries, calls, sigRow, sfaults>>
AlertUnhealthy(s) ==
  /\ sg[s].pc = "alert" /\ Goes(s, "verdict")
  /\ IF st - lastSent.llm < AlertEvery THEN UNCHANGED <<lastSent, alerts>> ELSE Alert("llm", s)
  /\ UNCHANGED <<st, sset, entries, calls, sigRow, sfaults>>

(* The verdict: what to do, and what the signal's row is to say.           *)
Approved(s) == sg[s].res.score >= sg[s].set.threshold
Action(s) ==
  IF sg[s].res = Failed THEN IF sg[s].set.closed THEN "abandon" ELSE "trade"
  ELSE IF Approved(s) \/ sg[s].set.dry THEN "trade" ELSE "abandon"
Verdict(s) ==
  /\ sg[s].pc = "verdict"
  /\ sg' = [sg EXCEPT ![s].pc = "done", ![s].action = Action(s), ![s].bad = 0, ![s].set.key = FALSE]
  /\ IF sg[s].res = Failed /\ ~sg[s].set.key /\ st - lastSent.key >= KeyAlertEvery
     THEN Alert("key", s) ELSE UNCHANGED <<lastSent, alerts>>
  /\ \/ /\ NoSFault
        /\ sigRow' = [sigRow EXCEPT ![s] =
             IF sg[s].res = Failed THEN Failed
             ELSE [score |-> sg[s].res.score, decision |-> IF Approved(s) THEN "approve" ELSE "abandon"]]
     \/ SFault /\ UNCHANGED sigRow
  /\ UNCHANGED <<st, sset, entries, calls>>

ScoringNext ==
  \/ ScoringTick \/ ChangeSettings
  \/ \E s \in Signals : ReadSettings(s) \/ Score(s) \/ CheckHealth(s) \/ AlertUnhealthy(s) \/ Verdict(s)
ScoringSpec == ScoringInit /\ [][ScoringNext]_scoringVars
----------------------------------------------------------------------------
ScoringTypeOK ==
  /\ st \in 0..ScoreTime /\ sset \in SettingsRow
  /\ \A s \in Signals :
       /\ sg[s].pc \in {"new", "score", "health", "alert", "verdict", "done"}
       /\ sg[s].res.score \in -1..100 /\ sigRow[s].decision \in {"", "failed", "approve", "abandon"}
  /\ Len(entries) <= Cardinality(calls)

(* The operator is alerted for cause and not over and over, whatever the   *)
(* number of signals scored at once: two alerts of a kind are an interval  *)
(* apart, one about the LLM goes back to a moment with enough failures in  *)
(* the window before it, and once evicted the tracker's entries are the    *)
(* calls of the window, so that its rate is the true one.                  *)
Within(t) == {c \in calls : c.at \in (t - HealthWindow)..t}
Justified(t) == Cardinality({c \in Within(t) : ~c.ok}) >= MinFailures
AlertSpaced ==
  /\ \A a, b \in alerts : a # b /\ a.kind = b.kind =>
       LET gap == IF a.at > b.at THEN a.at - b.at ELSE b.at - a.at
       IN gap >= IF a.kind = "llm" THEN AlertEvery ELSE KeyAlertEvery
  /\ \A a \in alerts : a.kind = "llm" => Justified(a.seen)
  /\ Len(Evicted(entries)) = Cardinality(Within(st))
  /\ Failures(Evicted(entries)) = Cardinality({c \in Within(st) : ~c.ok})

(* "Dry run: the agent scores but does not influence the order."           *)
DryRunHarmless == \A s \in Signals : sg[s].set.dry => sg[s].action # "abandon"
=============================================================================
