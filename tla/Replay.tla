------------------------------- MODULE Replay -------------------------------
(***************************************************************************)
(* Replaying a prompt over evaluated signals.  The web form inserts        *)
(* replay_runs rows as 'pending'; the worker of the bot claims the oldest  *)
(* one each second, runs its cases in concurrent goroutines and writes the *)
(* report; agent-eval, another process, creates its run as 'running' and   *)
(* does the same in its own order.  A boot of the bot first aborts what is *)
(* still 'running'.                                                        *)
(*                                                                         *)
(* Abstractions: a case is its old score and decision and whether it had a *)
(* trade; the LLM may answer anything; averages and rank correlations are  *)
(* left out of the report, its counts are kept.                            *)
(***************************************************************************)
EXTENDS Integers, Sequences, FiniteSets

CONSTANTS
  NumRuns,        \* bound: replay_runs rows ever created
  NumCases,       \* cases LoadReplayCases returns
  OldOf,          \* their old score, old decision and whether a PnL is known
  NewScores,      \* scores the LLM may answer
  Concurrency,    \* concurrency the form sends, before it is clamped
  ByCli,          \* runs agent-eval creates; the form creates the others
  ReplayFaults    \* bound: failed statements and crashes

RunIds == 1..NumRuns
Cases == 1..NumCases
Decisions == {"approve", "abandon"}
Final == {"done", "failed", "aborted"}

ASSUME ReplayAssumption ==
  /\ NumRuns \in Nat \ {0} /\ NumCases \in Nat
  /\ OldOf \in [Cases -> [score : 0..100, decision : STRING, pnl : BOOLEAN]]
  /\ NewScores \subseteq 0..100 /\ Concurrency \in Int
  /\ ByCli \subseteq RunIds /\ ReplayFaults \in Nat

VARIABLES
  run,      \* replay_runs
  saved,    \* replay_run_rows: what InsertRow stored, per run and case
  wk,       \* the worker: program counter, run it executes, cases not started
  gr,       \* its goroutines: program counter, answer, counter values read
  rows,     \* rows []ReplayRow of the run in progress
  ndone, nfailed, \* the atomic counters of the run in progress
  cli,      \* agent-eval: program counter, run, cases left
  rfaults

replayVars == <<run, saved, wk, gr, rows, ndone, nfailed, cli, rfaults>>

NoRFault == UNCHANGED rfaults
RFault == rfaults < ReplayFaults /\ rfaults' = rfaults + 1

NoRow == [err |-> TRUE, score |-> 0, decision |-> "none"]
NoReport == [size |-> -1]
NoRun == [st |-> "none", total |-> 0, done |-> 0, failed |-> 0, report |-> NoReport]
IdleWorker == [pc |-> "poll", r |-> 0, todo |-> {}]
IdleG == [pc |-> "idle", d |-> 0, f |-> 0]
IdleCli == [pc |-> "idle", r |-> 0, todo |-> {}]

ReplayInit ==
  /\ run = [r \in RunIds |-> NoRun]
  /\ saved = [r \in RunIds |-> [c \in Cases |-> "none"]]
  /\ wk = [IdleWorker EXCEPT !.pc = "boot"]
  /\ gr = [c \in Cases |-> IdleG]
  /\ rows = [c \in Cases |-> NoRow]
  /\ ndone = 0 /\ nfailed = 0
  /\ cli = IdleCli
  /\ rfaults = 0

----------------------------------------------------------------------------
(* The report.                                                             *)

(* ReplayOne: any failure of the history, the prompt, the LLM or its       *)
(* answer makes an error row, an answer in range a scored one.             *)
ReplayOne == {NoRow} \cup [err : {FALSE}, score : NewScores, decision : Decisions]

BucketIndex(s) == IF s < 20 THEN 1 ELSE IF s < 40 THEN 2 ELSE IF s < 60 THEN 3
                  ELSE IF s < 80 THEN 4 ELSE 5
Good(rs) == {c \in Cases : ~rs[c].err}
Bucketize(rs, score) ==
  [b \in 1..5 |-> LET S == {c \in Good(rs) : BucketIndex(score[c]) = b}
                  IN [signals |-> Cardinality(S),
                      trades |-> Cardinality({c \in S : OldOf[c].pnl})]]
FlipMatrixOf(rs) ==
  [p \in Decisions \X Decisions |->
     Cardinality({c \in Good(rs) : OldOf[c].decision = p[1] /\ rs[c].decision = p[2]})]
Report(rs) ==
  [size |-> NumCases,
   withPnL |-> Cardinality({c \in Good(rs) : OldOf[c].pnl}),
   v1 |-> Bucketize(rs, [c \in Cases |-> OldOf[c].score]),
   v2 |-> Bucketize(rs, [c \in Cases |-> rs[c].score]),
   flips |-> FlipMatrixOf(rs)]

(* GetRun decodes summary_json.  FlipMatrix is written with snake case     *)
(* keys by its MarshalJSON and has no UnmarshalJSON: no key matches a      *)
(* field, and every count of the matrix reads back as zero.                *)
Decoded(rep) ==
  IF rep = NoReport THEN rep ELSE [rep EXCEPT !.flips = [p \in Decisions \X Decisions |-> 0]]

----------------------------------------------------------------------------
(* The form.                                                               *)

Newest == CHOOSE n \in 0..NumRuns : \A r \in RunIds : run[r].st # "none" <=> r <= n

(* PostCreate, after its validation.                                       *)
PostCreate ==
  /\ Newest < NumRuns /\ Newest + 1 \notin ByCli
  /\ run' = [run EXCEPT ![Newest + 1].st = "pending"]
  /\ UNCHANGED <<saved, wk, gr, rows, ndone, nfailed, cli, rfaults>>

----------------------------------------------------------------------------
(* The worker of the bot.                                                  *)

Worker(pc) == wk' = [wk EXCEPT !.pc = pc]
WorkerEnds == wk' = IdleWorker

SweepRequeues ==  \* mutant: what was running is to be run again
  [r \in RunIds |-> IF run[r].st = "running" THEN [run[r] EXCEPT !.st = "pending"] ELSE run[r]]
(* AbortRunningRuns, once, before the loop; its error is only logged.      *)
Swept ==
  [r \in RunIds |-> IF run[r].st = "running" THEN [run[r] EXCEPT !.st = "aborted"] ELSE run[r]]
Sweep ==
  /\ wk.pc = "boot"
  /\ \/ NoRFault /\ run' = Swept
     \/ RFault /\ UNCHANGED run
  /\ Worker("poll")
  /\ UNCHANGED <<saved, gr, rows, ndone, nfailed, cli>>

Pending == {r \in RunIds : run[r].st = "pending"}

(* ClaimNextPending takes the oldest; an error may have lost the answer of *)
(* an UPDATE that was made.                                                *)
Claim ==
  /\ wk.pc = "poll" /\ Pending # {}
  /\ LET r == CHOOSE x \in Pending : \A y \in Pending : x <= y
     IN \/ /\ NoRFault
           /\ run' = [run EXCEPT ![r].st = "running"]
           /\ wk' = [pc |-> "load", r |-> r, todo |-> {}]
        \/ RFault /\ UNCHANGED wk /\ (UNCHANGED run \/ run' = [run EXCEPT ![r].st = "running"])
  /\ rows' = [c \in Cases |-> NoRow] /\ ndone' = 0 /\ nfailed' = 0
  /\ UNCHANGED <<saved, gr, cli>>

(* LoadReplayCases, then MarkRunRunning, whose error is only logged: the   *)
(* total then stays 0.  When loading fails so does the run.                *)
Load1 ==
  /\ wk.pc = "load"
  /\ \/ /\ NoRFault
        /\ run' = [run EXCEPT ![wk.r].st = "running", ![wk.r].total = NumCases]
        /\ wk' = [wk EXCEPT !.pc = "run", !.todo = Cases]
     \/ RFault /\ UNCHANGED run /\ wk' = [wk EXCEPT !.pc = "run", !.todo = Cases]
     \/ RFault /\ run' = [run EXCEPT ![wk.r].st = "failed"] /\ WorkerEnds
  /\ UNCHANGED <<saved, gr, rows, ndone, nfailed, cli>>

Clamped == IF Concurrency < 1 THEN 1 ELSE IF Concurrency > 10 THEN 10 ELSE Concurrency
Running == {c \in Cases : gr[c].pc # "idle"}

Start(c) ==
  /\ wk.pc = "run" /\ c \in wk.todo /\ \A b \in wk.todo : c <= b
  /\ Cardinality(Running) < Clamped
  /\ wk' = [wk EXCEPT !.todo = @ \ {c}]
  /\ gr' = [gr EXCEPT ![c] = [IdleG EXCEPT !.pc = "call"]]
  /\ UNCHANGED <<run, saved, rows, ndone, nfailed, cli, rfaults>>

(* ReplayOne and InsertRow, whose error is only logged.                    *)
Call(c) ==
  /\ gr[c].pc = "call"
  /\ \E a \in ReplayOne :
       /\ rows' = [rows EXCEPT ![c] = a]
       /\ \/ NoRFault /\ saved' = [saved EXCEPT ![wk.r][c] = IF a.err THEN "error" ELSE "scored"]
          \/ RFault /\ UNCHANGED saved
       /\ nfailed' = nfailed + (IF a.err THEN 1 ELSE 0)
  /\ gr' = [gr EXCEPT ![c].pc = "count"]
  /\ UNCHANGED <<run, wk, ndone, cli>>

(* done.Add(1), failed.Load().                                             *)
Count(c) ==
  /\ gr[c].pc = "count"
  /\ ndone' = ndone + 1
  /\ gr' = [gr EXCEPT ![c] = [pc |-> "write", d |-> ndone + 1, f |-> nfailed]]
  /\ UNCHANGED <<run, saved, wk, rows, nfailed, cli, rfaults>>

(* UpdateProgress with the totals this goroutine read, older than those    *)
(* another one may have written since.                                     *)
WriteProgress(c) ==
  /\ gr[c].pc = "write"
  /\ \/ NoRFault /\ run' = [run EXCEPT ![wk.r].done = gr[c].d, ![wk.r].failed = gr[c].f]
     \/ RFault /\ UNCHANGED run
  /\ gr' = [gr EXCEPT ![c] = IdleG]
  /\ UNCHANGED <<saved, wk, rows, ndone, nfailed, cli>>

(* Mutant: the report is written without waiting for the goroutines.       *)
AllStarted == wk.todo = {}
(* wg.Wait.                                                                *)
AllBack == wk.todo = {} /\ Running = {}

(* The report and MarkRunDone, which replaces the progress by the final    *)
(* counts; when it fails MarkRunFailed is tried, whose error is dropped.   *)
MarkDone ==
  /\ wk.pc = "run" /\ AllBack
  /\ \/ /\ NoRFault
        /\ run' = [run EXCEPT ![wk.r].st = "done", ![wk.r].done = ndone - nfailed,
                              ![wk.r].failed = nfailed, ![wk.r].report = Report(rows)]
     \/ RFault /\ (UNCHANGED run \/ run' = [run EXCEPT ![wk.r].st = "failed"])
  /\ WorkerEnds
  /\ UNCHANGED <<saved, gr, rows, ndone, nfailed, cli>>

(* The bot stops, or its context is cancelled: every statement after that  *)
(* fails, and the run stays 'running' until the next boot.                 *)
Restart ==
  /\ RFault
  /\ wk' = [IdleWorker EXCEPT !.pc = "boot"]
  /\ gr' = [c \in Cases |-> IdleG]
  /\ UNCHANGED <<run, saved, rows, ndone, nfailed, cli>>

----------------------------------------------------------------------------
(* agent-eval --replay, a process of its own.                              *)

CliStart ==
  /\ cli.pc = "idle" /\ Newest < NumRuns /\ Newest + 1 \in ByCli
  /\ run' = [run EXCEPT ![Newest + 1].st = "running"]
  /\ cli' = [pc |-> "mark", r |-> Newest + 1, todo |-> Cases]
  /\ UNCHANGED <<saved, wk, gr, rows, ndone, nfailed, rfaults>>

(* MarkRunRunning sets the status again, whatever it has become.           *)
CliMark ==
  /\ cli.pc = "mark"
  /\ run' = [run EXCEPT ![cli.r].st = "running", ![cli.r].total = NumCases]
  /\ cli' = [cli EXCEPT !.pc = "rows"]
  /\ UNCHANGED <<saved, wk, gr, rows, ndone, nfailed, rfaults>>

(* All cases are run first; then the rows, and done if all were stored.    *)
CliRows ==
  /\ cli.pc = "rows"
  /\ \E rs \in [Cases -> ReplayOne] :
       LET bad == Cardinality(Cases \ Good(rs))
       IN /\ saved' = [saved EXCEPT ![cli.r] =
                         [c \in Cases |-> IF rs[c].err THEN "error" ELSE "scored"]]
          /\ run' = [run EXCEPT ![cli.r].st = "done", ![cli.r].done = NumCases - bad,
                                ![cli.r].failed = bad, ![cli.r].report = Report(rs)]
  /\ cli' = IdleCli
  /\ UNCHANGED <<wk, gr, rows, ndone, nfailed, rfaults>>

CliFails ==
  /\ cli.pc = "rows" /\ RFault
  /\ run' = [run EXCEPT ![cli.r].st = "failed"]
  /\ cli' = IdleCli
  /\ UNCHANGED <<saved, wk, gr, rows, ndone, nfailed>>

WorkerStep ==
  \/ Sweep \/ Claim \/ Load1 \/ MarkDone
  \/ \E c \in Cases : Start(c) \/ Call(c) \/ Count(c) \/ WriteProgress(c)
ReplayNext ==
  \/ PostCreate \/ WorkerStep \/ Restart
  \/ CliStart \/ CliMark \/ CliRows \/ CliFails
ReplaySpec == ReplayInit /\ [][ReplayNext]_replayVars

----------------------------------------------------------------------------
ReplayTypeOK ==
  /\ \A r \in RunIds :
       /\ run[r].st \in {"none", "pending", "running"} \cup Final
       /\ run[r].total \in 0..NumCases /\ run[r].done \in 0..NumCases
       /\ run[r].failed \in 0..NumCases
  /\ saved \in [RunIds -> [Cases -> {"none", "error", "scored"}]]
  /\ wk.pc \in {"boot", "poll", "load", "run"} /\ wk.todo \subseteq Cases
  /\ rows \in [Cases -> ReplayOne]
  /\ ndone \in 0..NumCases /\ nfailed \in 0..NumCases /\ rfaults \in 0..ReplayFaults

(* A run that is done accounts for every case: its two counts add up to    *)
(* the sample size, and so do the buckets and the flips of the report with *)
(* the cases that were scored and had a comparable decision.               *)
SumBy(S, f(_)) == Cardinality(UNION {{x} \X (1..f(x)) : x \in S})
DoneAddsUp ==
  \A r \in RunIds : run[r].st = "done" =>
    LET rep == run[r].report
    IN /\ run[r].done + run[r].failed = rep.size
       /\ SumBy(1..5, LAMBDA b : rep.v1[b].signals) = run[r].done
       /\ SumBy(1..5, LAMBDA b : rep.v2[b].signals) = run[r].done
       /\ SumBy(1..5, LAMBDA b : rep.v2[b].trades) = rep.withPnL
       /\ SumBy(Decisions \X Decisions, LAMBDA p : rep.flips[p]) <= run[r].done

(* A run is executed at most once: whatever fails or stops, none that was  *)
(* claimed goes back to 'pending', so its LLM calls are not paid twice.    *)
NeverRequeued ==
  [][\A r \in RunIds : run[r].st \notin {"none", "pending"} => run'[r].st # "pending"]_replayVars

(* "Cmd-mode creates runs with status='running' directly so it never       *)
(* competes with this worker."                                             *)
CliUndisturbed ==
  [][wk' # wk => \A r \in ByCli : run'[r] = run[r]]_replayVars

(* The page of a run shows the flip matrix the worker computed.            *)
SummaryKept == \A r \in RunIds : Decoded(run[r].report) = run[r].report
=============================================================================
