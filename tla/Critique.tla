------------------------------ MODULE Critique ------------------------------
(***************************************************************************)
(* The self-reflection of the scorer: a worker runs it once a day and when *)
(* an operator asks, stores what the LLM found as a critique with its      *)
(* patterns, and pins some of them; operators pin and unpin by hand, and   *)
(* what is pinned goes into the prompt of the scorer.                      *)
(*                                                                         *)
(* Abstractions: time is in steps of five minutes, a day is Day of them,   *)
(* and the cron expression is the time of day CronAt.  A pattern is its    *)
(* key and confidence.                                                     *)
(***************************************************************************)
EXTENDS Integers, Sequences, FiniteSets

CONSTANTS
  Day, CronAt,  \* length of a day; when the daily run is due
  Gap,          \* the idempotency window
  QueueCap,     \* slots of critiqueManualCh
  Answers,      \* what the LLM may answer: sequences of patterns
  AutoPinConf,  \* the automatic pinning read at boot
  CritTime,     \* bound: the clock stops here
  MaxClicks,    \* bound: requests for a run, changes of settings and pins
  MaxCritiques, \* bound: critiques with patterns
  CritFaults    \* bound: failed statements

Confidences == {"high", "medium", "low"}

ASSUME CritiqueAssumption ==
  /\ Day \in Nat \ {0} /\ CronAt \in 0..(Day - 1) /\ Gap \in Nat
  /\ QueueCap \in Nat \ {0} /\ AutoPinConf \in Confidences \cup {"off", "all"}
  /\ Answers \subseteq Seq([key : Nat, conf : STRING])
  /\ \A n \in {CritTime, MaxClicks, MaxCritiques, CritFaults} : n \in Nat

VARIABLES
  ct,        \* the time
  enabled,   \* settings.critique_enabled, and since when
  cw,        \* the worker: program counter, its copy of enabled and, history, since
             \*   when it is set, the timer
  lastRun,   \* Worker.lastRun: when the last run ended, -1 if none did
  queue,     \* requests in critiqueManualCh
  crits,     \* agent_critiques: the statuses, in order
  pats,      \* agent_critique_patterns: parent, confidence, who pinned it
  bulk,      \* a BulkPin in progress: patterns still to set, and to what
  ran,       \* history: when the last run began and, its end, or -1
  clicks, cfaults

critVars == <<ct, enabled, cw, lastRun, queue, crits, pats, bulk, ran, clicks, cfaults>>

NoBulk == [todo |-> {}, pin |-> "no"]

CritInit ==
  /\ ct = 0 /\ enabled \in [on : BOOLEAN, since : {0}]
  /\ cw = [pc |-> "boot", on |-> FALSE, since |-> 0, next |-> 0]
  /\ lastRun = -1 /\ queue = 0 /\ crits = <<>> /\ pats = <<>> /\ bulk = NoBulk
  /\ ran = [from |-> -1, to |-> -1] /\ clicks = 0 /\ cfaults = 0

CFault == cfaults < CritFaults /\ cfaults' = cfaults + 1
Click == clicks < MaxClicks /\ clicks' = clicks + 1

(* A timer fires when it is due, and an LLM call ends within a step.       *)
CritTick ==
  /\ ct < CritTime /\ ct' = ct + 1
  /\ \/ cw.pc = "off"
     \/ cw.pc = "wait" /\ ct < cw.next
     \/ cw.pc \in {"llm", "llmT"} /\ ct = ran.from
  /\ UNCHANGED <<enabled, cw, lastRun, queue, crits, pats, bulk, ran, clicks, cfaults>>

----------------------------------------------------------------------------
(* The worker.                                                             *)

(* Without its settings at start the worker is gone until the next boot.   *)
Boot ==
  /\ cw.pc = "boot"
  /\ \/ /\ UNCHANGED cfaults
        /\ cw' = [cw EXCEPT !.pc = "loop", !.on = enabled.on, !.since = ct]
     \/ CFault /\ cw' = [cw EXCEPT !.pc = "off"]
  /\ UNCHANGED <<ct, enabled, lastRun, queue, crits, pats, bulk, ran, clicks>>

NextDailyLate(now) ==  \* mutant: a whole day from now
  now + Day
(* nextDailyAt: the first time of day CronAt after now.                    *)
NextDailyAt(now) ==
  CHOOSE t \in (now + 1)..(now + Day) : t % Day = CronAt

Schedule ==
  /\ cw.pc = "loop"
  /\ cw' = [cw EXCEPT !.pc = "wait", !.next = IF cw.on THEN NextDailyAt(ct) ELSE ct + Day]
  /\ UNCHANGED <<ct, enabled, lastRun, queue, crits, pats, bulk, ran, clicks, cfaults>>

Refused == lastRun >= 0 /\ ct - lastRun < Gap
BeginRun(then) ==
  IF Refused THEN cw' = [cw EXCEPT !.pc = then] /\ UNCHANGED ran
  ELSE cw' = [cw EXCEPT !.pc = IF then = "loop" THEN "details" ELSE "detailsT"] /\ ran' = [from |-> ct, to |-> -1]

(* The timer: a run if enabled, and the settings are read again after it.  *)
TimerFires ==
  /\ cw.pc = "wait" /\ ct >= cw.next
  /\ IF cw.on THEN BeginRun("refresh")
     ELSE cw' = [cw EXCEPT !.pc = "refresh"] /\ UNCHANGED ran
  /\ UNCHANGED <<ct, enabled, lastRun, queue, crits, pats, bulk, clicks, cfaults>>
(* A request, enabled or not; the settings stay as they were read.         *)
ManualRun ==
  /\ cw.pc = "wait" /\ queue > 0 /\ queue' = queue - 1
  /\ BeginRun("loop")
  /\ UNCHANGED <<ct, enabled, lastRun, crits, pats, bulk, clicks, cfaults>>
Refresh ==
  /\ cw.pc = "refresh"
  /\ \/ /\ UNCHANGED cfaults
        /\ cw' = [cw EXCEPT !.pc = "loop", !.on = enabled.on,
                            !.since = IF cw.on THEN @ ELSE ct]
     \/ CFault /\ cw' = [cw EXCEPT !.pc = "loop"]
  /\ UNCHANGED <<ct, enabled, lastRun, queue, crits, pats, bulk, ran, clicks>>

----------------------------------------------------------------------------
(* Agent.Run.  Its last step is the deferred end of TryRun.                *)

ByTimer == cw.pc \in {"detailsT", "llmT", "pinT", "endT"}
Step(pc) == cw' = [cw EXCEPT !.pc = pc]

(* Details: an error ends the run, too few rows store a row that says so.  *)
Details ==
  /\ cw.pc \in {"details", "detailsT"}
  /\ \/ CFault /\ UNCHANGED crits /\ Step(IF ByTimer THEN "endT" ELSE "end")
     \/ /\ UNCHANGED cfaults /\ crits' = Append(crits, "insufficient_sample")
        /\ Len(crits) < MaxCritiques
        /\ Step(IF ByTimer THEN "endT" ELSE "end")
     \/ UNCHANGED <<crits, cfaults>> /\ Step(IF ByTimer THEN "llmT" ELSE "llm")
  /\ UNCHANGED <<ct, enabled, lastRun, queue, pats, bulk, ran, clicks>>

(* parsePatternSet: keys are distinct and confidences are known.           *)
Parsed(a) ==
  /\ \A i, j \in 1..Len(a) : i # j => a[i].key # a[j].key
  /\ \A i \in 1..Len(a) : a[i].conf \in Confidences
StoredBefore(a) ==  \* mutant: the critique's id is taken before it is inserted
  pats \o [i \in 1..Len(a) |-> [crit |-> Len(crits), conf |-> a[i].conf, by |-> "nobody"]]
Stored(a) ==
  pats \o [i \in 1..Len(a) |-> [crit |-> Len(crits) + 1, conf |-> a[i].conf, by |-> "nobody"]]

(* The prompt, the LLM and InsertWithPatterns, in one transaction.  What   *)
(* fails before it is stored as a failed critique.                         *)
Complete ==
  /\ cw.pc \in {"llm", "llmT"}
  /\ \/ /\ UNCHANGED cfaults /\ Len(crits) < MaxCritiques
        /\ \/ \E a \in Answers :
                IF Parsed(a)
                THEN crits' = Append(crits, "done") /\ pats' = Stored(a)
                     /\ Step(IF ByTimer THEN "pinT" ELSE "pin")
                ELSE crits' = Append(crits, "failed") /\ UNCHANGED pats
                     /\ Step(IF ByTimer THEN "endT" ELSE "end")
           \/ /\ crits' = Append(crits, "failed") /\ UNCHANGED pats
              /\ Step(IF ByTimer THEN "endT" ELSE "end")
     \/ CFault /\ UNCHANGED <<crits, pats>> /\ Step(IF ByTimer THEN "endT" ELSE "end")
  /\ UNCHANGED <<ct, enabled, lastRun, queue, bulk, ran, clicks>>

(* PinByConfidence: what is not pinned yet, of this critique.              *)
AutoPinned ==
  [i \in 1..Len(pats) |->
     IF pats[i].crit = Len(crits) /\ pats[i].by = "nobody" /\ AutoPinConf \in {"all", pats[i].conf}
     THEN [pats[i] EXCEPT !.by = "auto"] ELSE pats[i]]
AutoPin ==
  /\ cw.pc \in {"pin", "pinT"}
  /\ \/ UNCHANGED cfaults /\ pats' = AutoPinned
     \/ CFault /\ UNCHANGED pats
  /\ Step(IF ByTimer THEN "endT" ELSE "end")
  /\ UNCHANGED <<ct, enabled, lastRun, queue, crits, bulk, ran, clicks>>

FinishNoted ==  \* mutant: the window counts from the beginning of the run
  ran.from
Finished == ct
EndRun ==
  /\ cw.pc \in {"end", "endT"}
  /\ lastRun' = Finished /\ ran' = [ran EXCEPT !.to = ct]
  /\ Step(IF ByTimer THEN "refresh" ELSE "loop")
  /\ UNCHANGED <<ct, enabled, queue, crits, pats, bulk, clicks, cfaults>>

----------------------------------------------------------------------------
(* Operators: the pages and the settings form.                             *)

RunRequested ==
  /\ Click
  /\ queue < QueueCap /\ queue' = queue + 1
  /\ UNCHANGED <<ct, enabled, cw, lastRun, crits, pats, bulk, ran, cfaults>>
SaveSettings ==
  /\ Click
  /\ enabled' = [on |-> ~enabled.on, since |-> ct]
  /\ UNCHANGED <<ct, cw, lastRun, queue, crits, pats, bulk, ran, cfaults>>
Pinned(i, who) == pats' = [pats EXCEPT ![i].by = who]
SetPin(i) ==
  /\ Click /\ \E who \in {"manual", "nobody"} : Pinned(i, who)
  /\ UNCHANGED <<ct, enabled, cw, lastRun, queue, crits, bulk, ran, cfaults>>
(* BulkPin reads the patterns, then sets those that differ one by one.     *)
BulkPin(c) ==
  /\ Click /\ bulk.todo = {}
  /\ \E conf \in Confidences \cup {"all"}, who \in {"manual-bulk", "nobody"} :
       bulk' = [pin |-> who, todo |->
         {i \in 1..Len(pats) : /\ pats[i].crit = c /\ conf \in {"all", pats[i].conf}
                               /\ (pats[i].by = "nobody") # (who = "nobody")}]
  /\ UNCHANGED <<ct, enabled, cw, lastRun, queue, crits, pats, ran, cfaults>>
BulkNext(i) ==
  /\ i \in bulk.todo /\ \A j \in bulk.todo : i <= j
  /\ \/ /\ UNCHANGED cfaults /\ Pinned(i, bulk.pin)
        /\ bulk' = IF bulk.todo = {i} THEN NoBulk ELSE [bulk EXCEPT !.todo = @ \ {i}]
     \/ CFault /\ bulk' = NoBulk /\ UNCHANGED pats
  /\ UNCHANGED <<ct, enabled, cw, lastRun, queue, crits, ran, clicks>>

CritNext ==
  \/ CritTick \/ Boot \/ Schedule \/ TimerFires \/ ManualRun \/ Refresh
  \/ Details \/ Complete \/ AutoPin \/ EndRun
  \/ RunRequested \/ SaveSettings
  \/ \E i \in 1..Len(pats) : SetPin(i) \/ BulkNext(i)
  \/ \E c \in 1..Len(crits) : BulkPin(c)
CritSpec == CritInit /\ [][CritNext]_critVars
----------------------------------------------------------------------------
CritTypeOK ==
  /\ ct \in 0..CritTime /\ enabled \in [on : BOOLEAN, since : 0..CritTime]
  /\ cw.pc \in {"boot", "off", "loop", "wait", "refresh", "details", "detailsT", "llm", "llmT",
                "pin", "pinT", "end", "endT"}
  /\ lastRun \in -1..CritTime /\ queue \in 0..QueueCap
  /\ \A i \in 1..Len(pats) : pats[i].crit \in 1..Len(crits) /\ crits[pats[i].crit] = "done"
  /\ bulk.todo \subseteq 1..Len(pats)

(* "refuses to re-run within 5 minutes of the previous run completing",    *)
(* however many requests wait in the queue while a run is under way.       *)
SpacedRuns == [][ran'.from # ran.from => ran.from = -1 \/ (ran.to >= 0 /\ ct - ran.to >= Gap)]_critVars
(* While the worker's settings enable it, a run begins at every time of    *)
(* day CronAt, or is refused because one has just ended: requests, which   *)
(* restart the timer, and runs that fail or take long lose none.  A worker *)
(* that could not read its settings at start has none and runs nothing.    *)
LastDue == CHOOSE t \in (ct - Day)..(ct - 1) : t % Day = CronAt
EveryDay == cw.on /\ cw.since < LastDue => ran.from >= LastDue - Gap - 1
(* "Refresh settings each cycle so toggling Enabled / changing cron takes  *)
(* effect without restart": two days are enough for the worker to see it.  *)
ToggleTakesEffect ==
  enabled.on /\ ct - enabled.since > 2 * Day /\ cfaults = 0 => cw.on
=============================================================================
