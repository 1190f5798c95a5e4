---------------------------- MODULE Agents_proofs ----------------------------
(***************************************************************************)
(* Proofs about what surrounds the scorer: the settings, the strategies    *)
(* page, the news worker, the context of a prompt and the scoring itself,  *)
(* and about the specification that runs them beside each other.  Each     *)
(* part has an inductive invariant: what its records are, what a step that *)
(* has read carries to the step that writes, and the property itself.      *)
(***************************************************************************)
EXTENDS MCAgents, FiniteSetTheorems, SequenceTheorems, WellFoundedInduction, TLAPS

----------------------------------------------------------------------------
(* Settings.                                                               *)

WorkerNames == {Workers[i] : i \in 1..5}

AdmOK == adm \in [Admins -> [pc : {"idle", "enable", "scorer", "macro"}, val : BOOLEAN,
                             want : SUBSET WorkerNames, n : 0..5]]

FlagsOK == scorer \in BOOLEAN /\ on \subseteq WorkerNames
MacroRuns == \A a \in Admins : adm[a].pc = "macro" => adm[a].n \in 1..5
TextsOK == conf \in [Clearable -> {Null, "config", "form"}]
KeysOK == key \in Keys /\ client \in Keys

(* What a request has checked or read still holds when it writes.          *)
Carried ==
  \A a \in Admins :
    /\ adm[a].pc = "enable" => key # ""
    /\ adm[a].pc = "scorer" /\ adm[a].val => key # ""
    /\ adm[a].pc = "macro" /\ "news" \in adm[a].want => key # ""

SettingsIInv == AdmOK /\ FlagsOK /\ MacroRuns /\ TextsOK /\ KeysOK /\ KeyedWhenOn /\ Carried

LEMMA IdleOK == IdleAdmin \in [pc : {"idle", "enable", "scorer", "macro"}, val : BOOLEAN,
                               want : SUBSET WorkerNames, n : 0..5]
BY DEF IdleAdmin

(* The initial state: no key, and nothing is on that needs one.            *)
LEMMA SettingsInitInv == SettingsInit => SettingsIInv
<1> SUFFICES ASSUME SettingsInit PROVE SettingsIInv  OBVIOUS
<1>1. AdmOK  BY IdleOK DEF SettingsInit, AdmOK
<1>2. MacroRuns /\ Carried  BY DEF SettingsInit, MacroRuns, Carried, IdleAdmin
<1>3. FlagsOK /\ TextsOK /\ KeyedWhenOn
  BY DEF SettingsInit, FlagsOK, TextsOK, KeyedWhenOn
<1>4. KeysOK  BY SettingsAssumption DEF SettingsInit, KeysOK
<1> QED  BY <1>1, <1>2, <1>3, <1>4 DEF SettingsIInv

(* No step of the system takes the key away again.                         *)
LEMMA KeyStays ==
  ASSUME [SettingsNext]_settingsVars, key # "" PROVE key' # ""
<1>1. CASE BootSettings  BY <1>1 DEF BootSettings
<1>2. CASE UNCHANGED settingsVars  BY <1>2 DEF settingsVars
<1>3. ASSUME NEW a \in Admins, AdminStep(a) PROVE key' # ""
  <2>1. ASSUME NEW v \in Keys, SaveLLMAPI(a, v) PROVE key' # ""
    BY <2>1 DEF SaveLLMAPI, UpdateLLMAPI
  <2>2. CASE \E c \in Clearable, v \in {"", "form"} : SaveText(a, c, v)  BY <2>2 DEF SaveText
  <2>3. CASE EnableAgentScorer(a) \/ SetAgentScorerEnabled(a) \/ DisableAgentScorer(a)
    BY <2>3 DEF EnableAgentScorer, SetAgentScorerEnabled, DisableAgentScorer
  <2>4. CASE SaveAgentScorer(a) \/ UpdateAgentScorer(a)
    BY <2>4 DEF SaveAgentScorer, UpdateAgentScorer
  <2>5. CASE (\E want \in Wishes : SaveMacro(a, want)) \/ UpdateWorker(a)
    BY <2>5 DEF SaveMacro, UpdateWorker
  <2> QED  BY <1>3, <2>1, <2>2, <2>3, <2>4, <2>5 DEF AdminStep
<1> QED  BY <1>1, <1>2, <1>3 DEF SettingsNext

(* A request that is answered, and every other request, carries what it    *)
(* carried, the key being there still.                                     *)
LEMMA AnsweredCarries ==
  ASSUME SettingsIInv, key # "" => key' # "", NEW a \in Admins, Answered(a)
  PROVE  AdmOK' /\ MacroRuns' /\ Carried'
<1>1. AdmOK'  BY IdleOK DEF SettingsIInv, AdmOK, Answered
<1>2. adm'[a] = IdleAdmin /\ \A b \in Admins \ {a} : adm'[b] = adm[b]
  BY DEF SettingsIInv, AdmOK, Answered
<1>i. IdleAdmin.pc = "idle"  BY DEF IdleAdmin
<1>3. MacroRuns'  BY <1>2, <1>i DEF SettingsIInv, MacroRuns
<1>4. Carried'  BY <1>2, <1>i DEF SettingsIInv, Carried
<1> QED  BY <1>1, <1>3, <1>4

(* The same when the request enters a new state r that is sound.           *)
LEMMA EntersCarries ==
  ASSUME SettingsIInv, key' = key, NEW a \in Admins,
         NEW r \in [pc : {"idle", "enable", "scorer", "macro"}, val : BOOLEAN,
                    want : SUBSET WorkerNames, n : 0..5],
         adm' = [adm EXCEPT ![a] = r],
         r.pc = "macro" => r.n \in 1..5,
         r.pc = "enable" => key # "",
         r.pc = "scorer" /\ r.val => key # "",
         r.pc = "macro" /\ "news" \in r.want => key # ""
  PROVE  AdmOK' /\ MacroRuns' /\ Carried'
<1>1. AdmOK'  BY DEF SettingsIInv, AdmOK
<1>2. adm'[a] = r /\ \A b \in Admins \ {a} : adm'[b] = adm[b]
  BY DEF SettingsIInv, AdmOK
<1>3. MacroRuns'  BY <1>2 DEF SettingsIInv, MacroRuns
<1>4. Carried'  BY <1>2 DEF SettingsIInv, Carried
<1> QED  BY <1>1, <1>3, <1>4

(* When the requests stay as they are, they carry what they carried.       *)
LEMMA RestCarries ==
  ASSUME SettingsIInv, key # "" => key' # "", adm' = adm
  PROVE  AdmOK' /\ MacroRuns' /\ Carried'
BY DEF SettingsIInv, AdmOK, MacroRuns, Carried

(* The two forms of an admin that write text columns.                      *)
LEMMA FormInv ==
  ASSUME SettingsIInv, NEW a \in Admins,
         \/ \E c \in Clearable, v \in {"", "form"} : SaveText(a, c, v)
         \/ \E v \in Keys : SaveLLMAPI(a, v)
  PROVE  SettingsIInv'
<1>1. ASSUME NEW c \in Clearable, NEW v \in {"", "form"}, SaveText(a, c, v) PROVE SettingsIInv'
  <2>1. UNCHANGED <<key, scorer, on, client, adm>>  BY <1>1 DEF SaveText
  <2>2. TextsOK'
    BY <1>1 DEF SaveText, UpdateText, SettingsIInv, TextsOK, Null
  <2>3. AdmOK' /\ MacroRuns' /\ Carried'  BY <2>1, RestCarries
  <2> QED  BY <2>1, <2>2, <2>3 DEF SettingsIInv, FlagsOK, KeysOK, KeyedWhenOn
<1>2. ASSUME NEW v \in Keys, SaveLLMAPI(a, v) PROVE SettingsIInv'
  <2>1. UNCHANGED <<conf, scorer, on, client, adm>>  BY <1>2 DEF SaveLLMAPI
  <2>2. key' \in Keys /\ (key # "" => key' # "")
    BY <1>2 DEF SaveLLMAPI, UpdateLLMAPI, SettingsIInv, KeysOK
  <2>3. AdmOK' /\ MacroRuns' /\ Carried'  BY <2>1, <2>2, RestCarries
  <2> QED  BY <2>1, <2>2, <2>3 DEF SettingsIInv, FlagsOK, KeysOK, KeyedWhenOn, TextsOK
<1> QED  BY <1>1, <1>2

(* Switching the scorer on and off, and saving its parameters.             *)
LEMMA ScorerInv ==
  ASSUME SettingsIInv, NEW a \in Admins,
         \/ EnableAgentScorer(a) \/ SetAgentScorerEnabled(a) \/ DisableAgentScorer(a)
         \/ SaveAgentScorer(a) \/ UpdateAgentScorer(a)
  PROVE  SettingsIInv'
<1>t. adm[a] \in [pc : {"idle", "enable", "scorer", "macro"}, val : BOOLEAN,
                  want : SUBSET WorkerNames, n : 0..5]
  BY DEF SettingsIInv, AdmOK
<1>1. CASE EnableAgentScorer(a)
  <2> DEFINE r == [adm[a] EXCEPT !.pc = "enable"]
  <2>1. UNCHANGED <<conf, key, scorer, on, client>> /\ key # "" /\ adm' = [adm EXCEPT ![a] = r]
    BY <1>1 DEF EnableAgentScorer
  <2>2. r \in [pc : {"idle", "enable", "scorer", "macro"}, val : BOOLEAN,
               want : SUBSET WorkerNames, n : 0..5] /\ r.pc = "enable"
    BY <1>t
  <2>3. AdmOK' /\ MacroRuns' /\ Carried'
    <3> HIDE DEF r
    <3> QED  BY <2>1, <2>2, EntersCarries
  <2> QED  BY <2>1, <2>3 DEF SettingsIInv, FlagsOK, KeysOK, KeyedWhenOn, TextsOK
<1>2. CASE SetAgentScorerEnabled(a)
  <2>1. UNCHANGED <<conf, key, on, client>> /\ scorer' = TRUE /\ key # ""
    BY <1>2 DEF SetAgentScorerEnabled, At, SettingsIInv, Carried
  <2>2. AdmOK' /\ MacroRuns' /\ Carried'
    BY <1>2, <2>1, AnsweredCarries DEF SetAgentScorerEnabled
  <2> QED  BY <2>1, <2>2 DEF SettingsIInv, FlagsOK, KeysOK, KeyedWhenOn, TextsOK
<1>3. CASE DisableAgentScorer(a)
  <2>1. UNCHANGED <<conf, key, on, client, adm>> /\ scorer' = FALSE
    BY <1>3 DEF DisableAgentScorer
  <2>2. AdmOK' /\ MacroRuns' /\ Carried'  BY <2>1, RestCarries
  <2> QED  BY <2>1, <2>2 DEF SettingsIInv, FlagsOK, KeysOK, KeyedWhenOn, TextsOK
<1>4. CASE SaveAgentScorer(a)
  <2> DEFINE r == [IdleAdmin EXCEPT !.pc = "scorer", !.val = scorer]
  <2>1. UNCHANGED <<conf, key, scorer, on, client>> /\ adm' = [adm EXCEPT ![a] = r]
    BY <1>4 DEF SaveAgentScorer
  <2>2. r \in [pc : {"idle", "enable", "scorer", "macro"}, val : BOOLEAN,
               want : SUBSET WorkerNames, n : 0..5] /\ r.pc = "scorer" /\ r.val = scorer
    BY IdleOK DEF SettingsIInv, FlagsOK
  <2>3. AdmOK' /\ MacroRuns' /\ Carried'
    <3>1. r.val => key # ""  BY <2>2 DEF SettingsIInv, KeyedWhenOn
    <3> HIDE DEF r
    <3> QED  BY <2>1, <2>2, <3>1, EntersCarries
  <2> QED  BY <2>1, <2>3 DEF SettingsIInv, FlagsOK, KeysOK, KeyedWhenOn, TextsOK
<1>5. CASE UpdateAgentScorer(a)
  <2>1. UNCHANGED <<conf, key, on, client>> /\ scorer' = adm[a].val /\ adm[a].pc = "scorer"
    BY <1>5 DEF UpdateAgentScorer, At
  <2>2. scorer' \in BOOLEAN  BY <2>1, <1>t
  <2>3. scorer' => key # ""  BY <2>1 DEF SettingsIInv, Carried
  <2>4. AdmOK' /\ MacroRuns' /\ Carried'
    BY <1>5, <2>1, AnsweredCarries DEF UpdateAgentScorer
  <2> QED  BY <2>1, <2>2, <2>3, <2>4 DEF SettingsIInv, FlagsOK, KeysOK, KeyedWhenOn, TextsOK
<1> QED  BY <1>1, <1>2, <1>3, <1>4, <1>5

(* The macro form: the check of the key, and one UPDATE for each worker.   *)
LEMMA MacroInv ==
  ASSUME SettingsIInv, NEW a \in Admins,
         (\E want \in Wishes : SaveMacro(a, want)) \/ UpdateWorker(a)
  PROVE  SettingsIInv'
<1>t. adm[a] \in [pc : {"idle", "enable", "scorer", "macro"}, val : BOOLEAN,
                  want : SUBSET WorkerNames, n : 0..5]
  BY DEF SettingsIInv, AdmOK
<1>1. ASSUME NEW want \in Wishes, SaveMacro(a, want) PROVE SettingsIInv'
  <2> DEFINE r == [IdleAdmin EXCEPT !.pc = "macro", !.want = want, !.n = 1]
  <2>1. UNCHANGED <<conf, key, scorer, on, client>> /\ adm' = [adm EXCEPT ![a] = r]
    BY <1>1 DEF SaveMacro
  <2>2. "news" \in want => key # ""  BY <1>1 DEF SaveMacro
  <2>3. want \subseteq WorkerNames  BY SettingsAssumption DEF WorkerNames
  <2>4. r \in [pc : {"idle", "enable", "scorer", "macro"}, val : BOOLEAN,
               want : SUBSET WorkerNames, n : 0..5]
    <3>1. want \in SUBSET WorkerNames /\ 1 \in 0..5  BY <2>3
    <3> QED  BY <3>1, IdleOK
  <2>6. r.pc = "macro" /\ r.want = want /\ r.n \in 1..5
    <3>1. r.pc = "macro"  BY IdleOK
    <3>2. r.want = want  BY IdleOK
    <3>3. r.n = 1  BY IdleOK
    <3> QED  BY <3>1, <3>2, <3>3
  <2>5. AdmOK' /\ MacroRuns' /\ Carried'
    <3> HIDE DEF r
    <3> QED  BY <2>1, <2>2, <2>4, <2>6, EntersCarries
  <2> QED  BY <2>1, <2>5 DEF SettingsIInv, FlagsOK, KeysOK, KeyedWhenOn, TextsOK
<1>2. CASE UpdateWorker(a)
  <2>1. UNCHANGED <<conf, key, scorer, client>> /\ adm[a].pc = "macro"
    BY <1>2 DEF UpdateWorker, At
  <2>2. adm[a].n \in 1..5 /\ adm[a].want \subseteq WorkerNames
    BY <2>1, <1>t DEF SettingsIInv, MacroRuns
  <2>3. on' = (on \ {Workers[adm[a].n]}) \cup (adm[a].want \cap {Workers[adm[a].n]})
    BY <1>2 DEF UpdateWorker
  <2>4. on' \subseteq WorkerNames  BY <2>2, <2>3 DEF SettingsIInv, FlagsOK
  <2>5. "news" \in on' => key # ""
    BY <2>1, <2>3 DEF SettingsIInv, KeyedWhenOn, Carried
  <2>6. AdmOK' /\ MacroRuns' /\ Carried'
    <3>1. CASE Answered(a)  BY <2>1, <3>1, AnsweredCarries
    <3>2. CASE adm[a].n # 5 /\ adm' = [adm EXCEPT ![a].n = @ + 1]
      <4> DEFINE r == [adm[a] EXCEPT !.n = adm[a].n + 1]
      <4>1. adm' = [adm EXCEPT ![a] = r]  BY <3>2
      <4>2. adm[a].n + 1 \in 1..5  BY <2>2, <3>2
      <4>3. r \in [pc : {"idle", "enable", "scorer", "macro"}, val : BOOLEAN,
                   want : SUBSET WorkerNames, n : 0..5]
            /\ r.pc = "macro" /\ r.want = adm[a].want /\ r.n \in 1..5
        BY <1>t, <2>1, <4>2
      <4>4. "news" \in r.want => key # ""  BY <2>1, <4>3 DEF SettingsIInv, Carried
      <4> HIDE DEF r
      <4> QED  BY <2>1, <4>1, <4>3, <4>4, EntersCarries
    <3> QED  BY <1>2, <3>1, <3>2 DEF UpdateWorker
  <2> QED  BY <2>1, <2>4, <2>5, <2>6 DEF SettingsIInv, FlagsOK, KeysOK, KeyedWhenOn, TextsOK
<1> QED  BY <1>1, <1>2

(* A boot fills what is NULL and forgets the requests.                     *)
LEMMA BootInv == ASSUME SettingsIInv, BootSettings PROVE SettingsIInv'
<1>1. UNCHANGED <<key, scorer, on>> /\ client' = key /\ adm' = [a \in Admins |-> IdleAdmin]
  BY DEF BootSettings
<1>2. AdmOK'  BY <1>1, IdleOK DEF AdmOK
<1>3. MacroRuns' /\ Carried'  BY <1>1 DEF MacroRuns, Carried, IdleAdmin
<1>4. TextsOK'
  <2>1. \A c \in Clearable : Given[c] \in {"", "config"}  BY SettingsAssumption
  <2> QED  BY <2>1 DEF BootSettings, Bootstrapped, SettingsIInv, TextsOK
<1> QED  BY <1>1, <1>2, <1>3, <1>4 DEF SettingsIInv, FlagsOK, KeysOK, KeyedWhenOn

LEMMA SettingsStepInv == SettingsIInv /\ [SettingsNext]_settingsVars => SettingsIInv'
<1> SUFFICES ASSUME SettingsIInv, [SettingsNext]_settingsVars PROVE SettingsIInv'  OBVIOUS
<1>1. CASE BootSettings  BY <1>1, BootInv
<1>2. ASSUME NEW a \in Admins, AdminStep(a) PROVE SettingsIInv'
  BY <1>2, FormInv, ScorerInv, MacroInv DEF AdminStep
<1>3. CASE UNCHANGED settingsVars
  BY <1>3 DEF settingsVars, SettingsIInv, AdmOK, FlagsOK, MacroRuns, TextsOK, KeysOK,
              KeyedWhenOn, Carried
<1> QED  BY <1>1, <1>2, <1>3 DEF SettingsNext

(* The columns and the requests have the values their types name.          *)
THEOREM SettingsTyped == SettingsSpec => []SettingsTypeOK
<1>1. SettingsIInv => SettingsTypeOK
  BY DEF SettingsIInv, SettingsTypeOK, AdmOK, FlagsOK, TextsOK, KeysOK, WorkerNames
<1> QED  BY <1>1, SettingsInitInv, SettingsStepInv, PTL DEF SettingsSpec

(* For any number of admins, forms and boots, neither the scorer nor the   *)
(* news worker is on while there is no LLM key (EnableAgentScorer,         *)
(* SaveAgentScorer, SaveMacro, and the repository's UPDATEs).              *)
THEOREM SettingsKeyed == SettingsSpec => []KeyedWhenOn
<1>1. SettingsIInv => KeyedWhenOn  BY DEF SettingsIInv
<1> QED  BY <1>1, SettingsInitInv, SettingsStepInv, PTL DEF SettingsSpec

(* A key that is stored is never lost again, by no form and by no boot     *)
(* (UpdateLLMAPI keeps the column when the field is empty).                *)
THEOREM KeyKept == SettingsSpec => [][key # "" => key' # ""]_settingsVars
<1>1. [SettingsNext]_settingsVars => [key # "" => key' # ""]_settingsVars  BY KeyStays
<1> QED  BY <1>1, PTL DEF SettingsSpec
----------------------------------------------------------------------------
(* The strategies page.                                                    *)

StratRow == [there : BOOLEAN, enabled : BOOLEAN, archived : BOOLEAN, params : Params \cup {0}]
Request == [pc : {"idle", "toggle", "archive"}, id : StrategyIds \cup {""}, row : StratRow,
            counted : BOOLEAN]

Tables ==
  /\ strat \in [StrategyIds -> StratRow]
  /\ vp \in [StrategyIds -> [active : BOOLEAN, any : BOOLEAN]]
  /\ \A s \in StrategyIds : vp[s].active => vp[s].any
Handlers ==
  /\ req \in [Requests -> Request]
  /\ \A r \in Requests : req[r].pc # "idle" => req[r].id \in StrategyIds

(* The count of a request that is about to archive is still right, or what *)
(* has changed since is on record.                                         *)
Awaited ==
  \A r \in Requests :
    req[r].pc = "archive" /\ req[r].counted /\ vp[req[r].id].active => req[r].id \in late \cup blind

StratInv == Tables /\ Handlers /\ ArchivedIdle /\ Awaited

LEMMA StratStarts == ASSUME StrategiesInit PROVE StratInv
<1>1. NoRow \in StratRow
  BY DEF NoRow, StratRow
<1>2. IdleReq \in Request /\ IdleReq.pc = "idle"
  BY <1>1 DEF IdleReq, Request
<1>3. Tables /\ ArchivedIdle
  BY <1>1 DEF StrategiesInit, Tables, ArchivedIdle
<1>4. Handlers /\ Awaited
  BY <1>2 DEF StrategiesInit, Handlers, Awaited
<1> QED
  BY <1>3, <1>4 DEF StratInv

----------------------------------------------------------------------------
(* A request that ends, or begins with something else than a count.        *)

LEMMA OthersWait ==
  ASSUME StratInv, NEW r \in Requests, NEW q \in Request, req' = [req EXCEPT ![r] = q],
         q.pc # "idle" => q.id \in StrategyIds,
         q.pc = "archive" /\ q.counted => ~vp[q.id].active,
         UNCHANGED vp, late \cup blind \subseteq late' \cup blind'
  PROVE Handlers' /\ Awaited'
<1>1. req' \in [Requests -> Request] /\ \A x \in Requests : req'[x] = IF x = r THEN q ELSE req[x]
  BY DEF StratInv, Handlers
<1>2. Handlers'
  BY <1>1 DEF StratInv, Handlers
<1>3. Awaited'
  <2> SUFFICES ASSUME NEW x \in Requests, req'[x].pc = "archive", req'[x].counted,
                      vp'[req'[x].id].active
               PROVE req'[x].id \in late' \cup blind'
    BY DEF Awaited
  <2>1. x # r
    BY <1>1
  <2> QED
    BY <1>1, <2>1 DEF StratInv, Awaited
<1> QED
  BY <1>2, <1>3

LEMMA IdleIsRequest == IdleReq \in Request /\ IdleReq.pc = "idle"
BY DEF IdleReq, NoRow, Request, StratRow

(* A write of one row that leaves archived as it is, or clears it.         *)
LEMMA RowWritten ==
  ASSUME StratInv, NEW s \in StrategyIds, NEW row \in StratRow,
         strat' = [strat EXCEPT ![s] = row], row.archived => strat[s].archived,
         UNCHANGED <<vp, late, blind>>
  PROVE Tables' /\ ArchivedIdle'
<1>1. /\ strat' \in [StrategyIds -> StratRow]
      /\ \A x \in StrategyIds : strat'[x] = IF x = s THEN row ELSE strat[x]
  BY DEF StratInv, Tables
<1> QED
  BY <1>1 DEF StratInv, Tables, ArchivedIdle

LEMMA UpdateWrites ==
  ASSUME StratInv, NEW s \in StrategyIds, NEW row \in StratRow, Update(s, row),
         UNCHANGED <<vp, late, blind>>
  PROVE Tables' /\ ArchivedIdle'
<1> DEFINE kept == [row EXCEPT !.archived = strat[s].archived]
<1>1. strat[s] \in StratRow
  BY DEF StratInv, Tables
<1>2. kept \in StratRow /\ kept.archived = strat[s].archived
  BY <1>1 DEF StratRow
<1>3. \/ strat' = [strat EXCEPT ![s] = kept]
      \/ strat' = [strat EXCEPT ![s] = strat[s]]
  BY DEF Update
<1> HIDE DEF kept
<1>4. CASE strat' = [strat EXCEPT ![s] = kept]
  BY <1>2, <1>4, RowWritten
<1>5. CASE strat' = [strat EXCEPT ![s] = strat[s]]
  BY <1>1, <1>5, RowWritten
<1> QED
  BY <1>3, <1>4, <1>5

(* Requests that write at once: req stays as it is.                        *)
LEMMA AtOnce ==
  ASSUME StratInv, Tables', ArchivedIdle', UNCHANGED <<vp, req, late, blind>>
  PROVE StratInv'
BY DEF StratInv, Handlers, Awaited

----------------------------------------------------------------------------
LEMMA CreateKeeps ==
  ASSUME StratInv, NEW r \in Requests, NEW s \in StrategyIds, NEW p \in Params, Create(r, s, p)
  PROVE StratInv'
<1>1. PICK e \in BOOLEAN :
        strat' = [strat EXCEPT ![s] = [there |-> TRUE, enabled |-> e, archived |-> FALSE, params |-> p]]
  BY DEF Create
<1> DEFINE row == [there |-> TRUE, enabled |-> e, archived |-> FALSE, params |-> p]
<1>2. row \in StratRow /\ ~row.archived
  BY DEF StratRow
<1>3. UNCHANGED <<vp, req, late, blind>>
  BY DEF Create
<1>4. strat' = [strat EXCEPT ![s] = row]
  BY <1>1
<1> HIDE DEF row
<1>5. Tables' /\ ArchivedIdle'
  BY <1>2, <1>3, <1>4, RowWritten
<1> QED
  BY <1>3, <1>5, AtOnce

LEMMA SaveKeeps ==
  ASSUME StratInv, NEW r \in Requests, NEW s \in StrategyIds, NEW p \in Params,
         SaveStrategy(r, s, p)
  PROVE StratInv'
<1>1. PICK e \in BOOLEAN :
        Update(s, [there |-> TRUE, enabled |-> e, archived |-> strat[s].archived, params |-> p])
  BY DEF SaveStrategy
<1> DEFINE row == [there |-> TRUE, enabled |-> e, archived |-> strat[s].archived, params |-> p]
<1>2. strat[s] \in StratRow
  BY DEF StratInv, Tables
<1>3. row \in StratRow
  BY <1>2 DEF StratRow
<1>4. UNCHANGED <<vp, req, late, blind>>
  BY DEF SaveStrategy
<1>5. Update(s, row)
  BY <1>1
<1> HIDE DEF row
<1>6. Tables' /\ ArchivedIdle'
  BY <1>3, <1>4, <1>5, UpdateWrites
<1> QED
  BY <1>4, <1>6, AtOnce

LEMMA ToggleKeeps ==
  ASSUME StratInv, NEW r \in Requests, NEW s \in StrategyIds, Toggle(r, s)
  PROVE StratInv'
<1> DEFINE q == [IdleReq EXCEPT !.pc = "toggle", !.id = s, !.row = strat[s]]
<1>1. strat[s] \in StratRow
  BY DEF StratInv, Tables
<1>2. q \in Request /\ q.pc = "toggle" /\ q.id = s
  BY <1>1 DEF IdleReq, NoRow, Request
<1>3. req' = [req EXCEPT ![r] = q] /\ UNCHANGED <<strat, vp, late, blind>>
  BY DEF Toggle
<1> HIDE DEF q
<1>4. Handlers' /\ Awaited'
  BY <1>2, <1>3, OthersWait
<1>5. Tables' /\ ArchivedIdle'
  BY <1>3 DEF StratInv, Tables, ArchivedIdle
<1> QED
  BY <1>4, <1>5 DEF StratInv

LEMMA ToggleWriteKeeps ==
  ASSUME StratInv, NEW r \in Requests, ToggleWrite(r) PROVE StratInv'
<1> DEFINE s == req[r].id
           row == [req[r].row EXCEPT !.enabled = ~ @]
<1>1. req[r] \in Request /\ s \in StrategyIds
  BY DEF StratInv, Handlers, ToggleWrite
<1>2. row \in StratRow
  BY <1>1 DEF Request, StratRow
<1>3. Update(s, row) /\ req' = [req EXCEPT ![r] = IdleReq] /\ UNCHANGED <<vp, late, blind>>
  BY DEF ToggleWrite, Reply
<1> HIDE DEF s, row
<1>4. Tables' /\ ArchivedIdle'
  BY <1>1, <1>2, <1>3, UpdateWrites
<1>5. Handlers' /\ Awaited'
  BY <1>3, OthersWait, IdleIsRequest
<1> QED
  BY <1>4, <1>5 DEF StratInv

LEMMA ArchiveKeeps ==
  ASSUME StratInv, NEW r \in Requests, NEW s \in StrategyIds, Archive(r, s) PROVE StratInv'
<1>1. PICK c \in BOOLEAN :
        /\ c => ~vp[s].active
        /\ req' = [req EXCEPT ![r] = [IdleReq EXCEPT !.pc = "archive", !.id = s, !.counted = c]]
  BY DEF Archive
<1> DEFINE q == [IdleReq EXCEPT !.pc = "archive", !.id = s, !.counted = c]
<1>2. q \in Request /\ q.pc = "archive" /\ q.id = s /\ q.counted = c
  BY DEF IdleReq, NoRow, Request, StratRow
<1>3. req' = [req EXCEPT ![r] = q] /\ UNCHANGED <<strat, vp, late, blind>>
  BY <1>1 DEF Archive
<1> HIDE DEF q
<1>4. Handlers' /\ Awaited'
  BY <1>1, <1>2, <1>3, OthersWait
<1>5. Tables' /\ ArchivedIdle'
  BY <1>3 DEF StratInv, Tables, ArchivedIdle
<1> QED
  BY <1>4, <1>5 DEF StratInv

(* The flag is set: positions that were counted are gone or on record,     *)
(* those that could not be counted are put on record.                      *)
LEMMA SetArchivedKeeps ==
  ASSUME StratInv, NEW r \in Requests, SetArchived(r) PROVE StratInv'
<1>1. PICK s \in StrategyIds : s = req[r].id
  BY DEF StratInv, Handlers, SetArchived
<1>2. /\ strat' = [strat EXCEPT ![s].archived = @ \/ strat[s].there]
      /\ blind' = IF ~req[r].counted /\ vp[s].active THEN blind \cup {s} ELSE blind
      /\ req' = [req EXCEPT ![r] = IdleReq] /\ UNCHANGED <<vp, late>> /\ req[r].pc = "archive"
  BY <1>1 DEF SetArchived, Reply
<1>3. blind \subseteq blind'
  BY <1>2
<1>4. Handlers' /\ Awaited'
  BY <1>2, <1>3, OthersWait, IdleIsRequest
<1>5. strat[s] \in StratRow /\ (strat[s].archived \/ strat[s].there) \in BOOLEAN
  BY DEF StratInv, Tables, StratRow
<1> DEFINE row == [strat[s] EXCEPT !.archived = strat[s].archived \/ strat[s].there]
<1>6. row \in StratRow /\ strat' = [strat EXCEPT ![s] = row]
  BY <1>2, <1>5 DEF StratRow
<1> HIDE DEF row
<1>7. /\ strat' \in [StrategyIds -> StratRow]
      /\ \A x \in StrategyIds : x # s => strat'[x] = strat[x]
  BY <1>6 DEF StratInv, Tables
<1>8. Tables'
  BY <1>2, <1>7 DEF StratInv, Tables
<1>9. ArchivedIdle'
  <2> SUFFICES ASSUME NEW x \in StrategyIds, strat'[x].archived, vp[x].active
               PROVE x \in late \cup blind'
    BY <1>2 DEF ArchivedIdle
  <2>1. CASE x # s
    BY <1>3, <1>7, <2>1 DEF StratInv, ArchivedIdle
  <2>2. CASE x = s /\ req[r].counted
    BY <1>1, <1>2, <1>3, <2>2 DEF StratInv, Awaited
  <2>3. CASE x = s /\ ~req[r].counted
    BY <1>2, <2>3
  <2> QED
    BY <2>1, <2>2, <2>3
<1> QED
  BY <1>4, <1>8, <1>9 DEF StratInv

LEMMA UnarchiveKeeps ==
  ASSUME StratInv, NEW r \in Requests, NEW s \in StrategyIds, Unarchive(r, s) PROVE StratInv'
<1> DEFINE row == [strat[s] EXCEPT !.archived = FALSE]
<1>1. strat[s] \in StratRow
  BY DEF StratInv, Tables
<1>2. row \in StratRow /\ ~row.archived
  BY <1>1 DEF StratRow
<1>3. strat' = [strat EXCEPT ![s] = row] /\ UNCHANGED <<vp, req, late, blind>>
  BY DEF Unarchive
<1> HIDE DEF row
<1>4. Tables' /\ ArchivedIdle'
  BY <1>2, <1>3, RowWritten
<1> QED
  BY <1>3, <1>4, AtOnce

LEMMA DeleteKeeps ==
  ASSUME StratInv, NEW r \in Requests, NEW s \in StrategyIds, Delete(r, s) PROVE StratInv'
<1>1. NoRow \in StratRow /\ ~NoRow.archived
  BY DEF NoRow, StratRow
<1>2. strat' = [strat EXCEPT ![s] = NoRow] /\ UNCHANGED <<vp, req, late, blind>>
  BY DEF Delete
<1>3. Tables' /\ ArchivedIdle'
  BY <1>1, <1>2, RowWritten
<1> QED
  BY <1>2, <1>3, AtOnce

----------------------------------------------------------------------------
(* A signal's position appears, and is late if an archiving has counted.   *)
LEMMA InsertKeeps ==
  ASSUME StratInv, NEW s \in StrategyIds, InsertPosition(s) PROVE StratInv'
<1>1. UNCHANGED <<strat, req, blind>>
  BY DEF InsertPosition
<1>2. CASE UNCHANGED <<vp, late>>
  BY <1>1, <1>2 DEF StratInv, Tables, Handlers, ArchivedIdle, Awaited
<1>3. CASE /\ vp' = [vp EXCEPT ![s] = [active |-> TRUE, any |-> TRUE]]
           /\ late' = IF strat[s].archived \/ \E r \in Requests : req[r].pc = "archive" /\ req[r].id = s
                      THEN late \cup {s} ELSE late
  <2>1. /\ vp' \in [StrategyIds -> [active : BOOLEAN, any : BOOLEAN]]
        /\ vp'[s].any /\ \A x \in StrategyIds : x # s => vp'[x] = vp[x]
    BY <1>3 DEF StratInv, Tables
  <2>2. late \subseteq late' /\ (strat[s].archived => s \in late')
    BY <1>3
  <2>3. ASSUME NEW r \in Requests, req[r].pc = "archive", req[r].id = s PROVE s \in late'
    BY <1>3, <2>3
  <2>4. Tables'
    BY <1>1, <2>1 DEF StratInv, Tables
  <2>5. ArchivedIdle'
    BY <1>1, <2>1, <2>2 DEF StratInv, ArchivedIdle
  <2>6. Handlers'
    BY <1>1 DEF StratInv, Handlers
  <2>7. Awaited'
    <3> SUFFICES ASSUME NEW r \in Requests, req[r].pc = "archive", req[r].counted,
                        vp'[req[r].id].active
                 PROVE req[r].id \in late' \cup blind
      BY <1>1 DEF Awaited
    <3>1. CASE req[r].id = s
      BY <2>3, <3>1
    <3>2. CASE req[r].id # s
      <4>1. req[r].id \in StrategyIds
        BY DEF StratInv, Handlers
      <4> QED
        BY <2>1, <2>2, <3>2, <4>1 DEF StratInv, Awaited
    <3> QED
      BY <3>1, <3>2
  <2> QED
    BY <2>4, <2>5, <2>6, <2>7 DEF StratInv
<1> QED
  BY <1>2, <1>3 DEF InsertPosition

LEMMA EndKeeps ==
  ASSUME StratInv, NEW s \in StrategyIds, PositionEnds(s) PROVE StratInv'
<1>1. /\ vp' = [vp EXCEPT ![s].active = FALSE]
      /\ late' = late \ {s} /\ blind' = blind \ {s} /\ UNCHANGED <<strat, req>>
  BY DEF PositionEnds
<1>2. vp \in [StrategyIds -> [active : BOOLEAN, any : BOOLEAN]]
  BY DEF StratInv, Tables
<1>3. /\ vp' \in [StrategyIds -> [active : BOOLEAN, any : BOOLEAN]]
      /\ ~vp'[s].active /\ \A x \in StrategyIds : x # s => vp'[x] = vp[x]
  BY <1>1, <1>2
<1>4. Tables' /\ Handlers'
  BY <1>1, <1>3 DEF StratInv, Tables, Handlers
<1>5. ArchivedIdle'
  BY <1>1, <1>3 DEF StratInv, ArchivedIdle
<1>6. Awaited'
  BY <1>1, <1>3 DEF StratInv, Handlers, Awaited
<1> QED
  BY <1>4, <1>5, <1>6 DEF StratInv

LEMMA StratStep == ASSUME StratInv, [StrategiesNext]_strategiesVars PROVE StratInv'
<1>1. ASSUME NEW r \in Requests, PageStep(r) PROVE StratInv'
  <2>1. ASSUME NEW s \in StrategyIds, NEW p \in Params, Create(r, s, p) \/ SaveStrategy(r, s, p)
        PROVE StratInv'
    BY <2>1, CreateKeeps, SaveKeeps
  <2>2. ASSUME NEW s \in StrategyIds, Toggle(r, s) \/ Archive(r, s) \/ Unarchive(r, s) \/ Delete(r, s)
        PROVE StratInv'
    BY <2>2, ToggleKeeps, ArchiveKeeps, UnarchiveKeeps, DeleteKeeps
  <2>3. CASE ToggleWrite(r) \/ SetArchived(r)
    BY <2>3, ToggleWriteKeeps, SetArchivedKeeps
  <2> QED
    BY <1>1, <2>1, <2>2, <2>3 DEF PageStep
<1>2. ASSUME NEW s \in StrategyIds, SignalLoads(s) PROVE StratInv'
  BY <1>2 DEF SignalLoads, StratInv, Tables, Handlers, ArchivedIdle, Awaited
<1>3. ASSUME NEW s \in StrategyIds, InsertPosition(s) \/ PositionEnds(s) PROVE StratInv'
  BY <1>3, InsertKeeps, EndKeeps
<1>4. CASE UNCHANGED strategiesVars
  BY <1>4 DEF strategiesVars, StratInv, Tables, Handlers, ArchivedIdle, Awaited
<1> QED
  BY <1>1, <1>2, <1>3, <1>4 DEF StrategiesNext

(* Every reachable state of the strategies page is well typed, and a       *)
(* strategy with an active position has had one.                           *)
THEOREM StrategiesTyped == StrategiesSpec => []StrategiesTypeOK
<1>1. StratInv => StrategiesTypeOK
  BY DEF StratInv, Tables, Handlers, StratRow, Request, StrategiesTypeOK
<1> QED
  BY <1>1, StratStarts, StratStep, PTL DEF StrategiesSpec

(* An archived strategy has an active position only if a signal inserted   *)
(* it amid or after the archiving, or the positions were not counted, in   *)
(* any interleaving of page requests and signals.                          *)
THEOREM ArchivedStaysIdle == StrategiesSpec => []ArchivedIdle
<1>1. StratInv => ArchivedIdle
  BY DEF StratInv
<1> QED
  BY <1>1, StratStarts, StratStep, PTL DEF StrategiesSpec
----------------------------------------------------------------------------
(* News.                                                                   *)

(* A set of naturals that is not empty has a least element.                *)
LEMMA LeastNatural == ASSUME NEW T \in SUBSET Nat, T # {} PROVE \E m \in T : \A n \in T : m <= n
<1>1. IsWellFoundedOn(OpToRel(<, Nat), Nat)
  BY NatLessThanWellFounded
<1>2. PICK m \in T : \A n \in T : ~(<<n, m>> \in OpToRel(<, Nat))
  BY <1>1, WFMin
<1>3. \A n \in T : ~(n < m)
  BY <1>2 DEF OpToRel
<1> QED
  BY <1>3

(* The newest TopN headlines are TopN at most: of all but the oldest of    *)
(* them fewer than TopN are newer than the oldest.                         *)
LEMMA NewestFits ==
  ASSUME NEW S \in SUBSET Headlines
  PROVE  Newest(S) \subseteq S /\ Cardinality(Newest(S)) <= TopN
<1>1. IsFiniteSet(S) /\ S \subseteq Nat /\ TopN \in Nat \ {0}
  BY NewsAssumption, FS_Subset
<1>2. Newest(S) \subseteq S /\ IsFiniteSet(Newest(S))
  <2>1. Newest(S) \subseteq S
    BY DEF Newest
  <2> QED
    BY <1>1, <2>1, FS_Subset
<1>3. CASE Newest(S) = {}
  BY <1>1, <1>2, <1>3, FS_EmptySet
<1>4. CASE Newest(S) # {}
  <2>1. PICK m \in Newest(S) : \A n \in Newest(S) : m <= n
    BY <1>1, <1>2, <1>4, LeastNatural
  <2> DEFINE Newer == {g \in S : g > m}
  <2>2. Cardinality(Newer) < TopN
    BY <2>1 DEF Newest
  <2>3. Newest(S) \ {m} \subseteq Newer
    <3> SUFFICES ASSUME NEW n \in Newest(S), n # m PROVE n \in S /\ n > m
      OBVIOUS
    <3>1. n \in Nat /\ m \in Nat /\ m <= n
      BY <1>1, <1>2, <2>1
    <3> QED
      BY <1>2, <3>1
  <2>4. IsFiniteSet(Newer) /\ Cardinality(Newer) \in Nat
    BY <1>1, FS_Subset, FS_CardinalityType
  <2>5. Cardinality(Newest(S) \ {m}) <= Cardinality(Newer)
    BY <2>3, <2>4, FS_Subset
  <2>6. Cardinality(Newest(S) \ {m}) = Cardinality(Newest(S)) - 1
    BY <1>2, <2>1, FS_RemoveElement
  <2>7. Cardinality(Newest(S)) \in Nat
    BY <1>2, FS_CardinalityType
  <2> QED
    BY <1>1, <1>2, <2>2, <2>4, <2>5, <2>6, <2>7
<1> QED
  BY <1>3, <1>4

(* The records of the worker, of the table and of what was told.           *)
ClassRec == [impact : Impacts, per : {"null", "json"}, err : BOOLEAN]
NewsRec ==
  [pc : {"idle", "fetch", "classify", "failed", "store", "publish", "notify"},
   min : MinImpacts \cup {""}, heads : SUBSET Headlines, c : ClassRec, id : Nat]
Snapshot == [impact : Impacts, err : BOOLEAN]
Notice == [how : {"event", "message"}, id : Nat, impact : Impacts, min : MinImpacts \cup {""}]

NewsRecords ==
  /\ ns \in [on : BOOLEAN, min : MinImpacts]
  /\ nw \in NewsRec /\ Cardinality(nw.heads) <= TopN
  /\ snaps \in Seq(Snapshot) /\ told \in Seq(Notice)
  /\ nruns \in 0..MaxNews

(* What the worker holds on to between its statements.                     *)
OnRecord == nw.id \in 1..Len(snaps) /\ snaps[nw.id] = [impact |-> nw.c.impact, err |-> nw.c.err]
Unstored == nw.pc \in {"fetch", "classify", "failed", "store"}
RunHolds ==
  /\ nw.pc \notin {"publish", "notify"} => nw.id = 0
  /\ nw.pc = "failed" => nw.c.err = TRUE /\ nw.c.impact = "none"
  /\ nw.pc = "store" => nw.c.err = FALSE
  /\ nw.pc = "publish" =>
       IF nw.id = 0 THEN nw.c.err = TRUE /\ nw.c.impact = "none"
       ELSE OnRecord /\ \A i \in 1..Len(told) : told[i].id # nw.id
  /\ nw.pc = "notify" =>
       /\ OnRecord /\ nw.c.err = FALSE
       /\ \A i \in 1..Len(told) : told[i].how = "message" => told[i].id # nw.id
RowsOfRuns == Len(snaps) + (IF Unstored THEN 1 ELSE 0) <= nruns
IdsStored == \A i \in 1..Len(told) : told[i].id <= Len(snaps)

NewsInv == NewsRecords /\ RunHolds /\ RowsOfRuns /\ IdsStored /\ NotifiedStored

LEMMA NoClassRec == NoClass \in ClassRec /\ NoClass.impact = "none"
BY NewsAssumption DEF NoClass, ClassRec

(* The records of runs whose feeds, or whose LLM, failed.                  *)
LEMMA FailedClassRec ==
  /\ \E c \in ClassRec : c = [NoClass EXCEPT !.per = "json", !.err = TRUE]
                          /\ c.err = TRUE /\ c.impact = "none"
  /\ \E c \in ClassRec : c = [NoClass EXCEPT !.err = TRUE] /\ c.err = TRUE /\ c.impact = "none"
<1> DEFINE c == [NoClass EXCEPT !.per = "json", !.err = TRUE]
           d == [NoClass EXCEPT !.err = TRUE]
<1>1. c \in ClassRec /\ d \in ClassRec
  BY NoClassRec DEF ClassRec
<1>2. c.err = TRUE /\ c.impact = NoClass.impact /\ d.err = TRUE /\ d.impact = NoClass.impact
  BY NoClassRec DEF ClassRec
<1> QED
  BY <1>1, <1>2, NoClassRec

LEMMA IdleNewsRec == IdleNews \in NewsRec /\ IdleNews.pc = "idle" /\ IdleNews.id = 0
                       /\ Cardinality(IdleNews.heads) <= TopN
BY NewsAssumption, FS_EmptySet DEF IdleNews, NoClass, NewsRec, ClassRec

LEMMA NewsStarts == ASSUME NewsInit PROVE NewsInv
<1>1. NewsRecords
  <2>1. MaxNews \in Nat
    BY NewsAssumption
  <2>2. <<>> \in Seq(Snapshot) /\ <<>> \in Seq(Notice)
    OBVIOUS
  <2>3. ns \in [on : BOOLEAN, min : MinImpacts]
    BY DEF NewsInit
  <2> QED
    BY <2>1, <2>2, <2>3, IdleNewsRec DEF NewsInit, NewsRecords
<1> QED
  BY <1>1, IdleNewsRec
  DEF NewsInit, NewsInv, RunHolds, RowsOfRuns, Unstored, IdsStored, NotifiedStored

(* A step that neither stores nor tells leaves what was told true.         *)
LEMMA ToldStays ==
  ASSUME NewsInv, UNCHANGED <<snaps, told>>
  PROVE  IdsStored' /\ NotifiedStored'
BY DEF NewsInv, IdsStored, NotifiedStored, ImpactRank

(* A row more changes none of the rows there are.                          *)
LEMMA RowAdded ==
  ASSUME NewsInv, told' = told, InsertNews(nw.c)
  PROVE  /\ snaps' \in Seq(Snapshot) /\ Len(snaps') = Len(snaps) + 1
         /\ snaps'[Len(snaps) + 1] = [impact |-> nw.c.impact, err |-> nw.c.err]
         /\ IdsStored' /\ NotifiedStored'
         /\ \A i \in 1..Len(told) : told[i].id # Len(snaps) + 1
<1> DEFINE row == [impact |-> nw.c.impact, err |-> nw.c.err]
<1>1. row \in Snapshot /\ snaps \in Seq(Snapshot) /\ told \in Seq(Notice)
  BY DEF NewsInv, NewsRecords, NewsRec, ClassRec, Snapshot
<1>2. snaps' = Append(snaps, row)
  BY DEF InsertNews
<1> HIDE DEF row
<1>3. /\ snaps' \in Seq(Snapshot) /\ Len(snaps') = Len(snaps) + 1
      /\ snaps'[Len(snaps) + 1] = row
      /\ \A k \in 1..Len(snaps) : snaps'[k] = snaps[k]
  BY <1>1, <1>2
<1>4. \A i \in 1..Len(told) : told[i].id \in 0..Len(snaps)
  <2> SUFFICES ASSUME NEW i \in 1..Len(told) PROVE told[i].id \in 0..Len(snaps)
    OBVIOUS
  <2>1. told[i] \in Notice
    BY <1>1
  <2>2. told[i].id \in Nat
    BY <2>1 DEF Notice
  <2>3. told[i].id <= Len(snaps) /\ Len(snaps) \in Nat
    BY <1>1 DEF NewsInv, IdsStored
  <2> QED
    BY <2>2, <2>3
<1>5. IdsStored'
  BY <1>1, <1>3, <1>4 DEF IdsStored
<1>6. NotifiedStored'
  <2>1. \A i \in 1..Len(told) : told[i].id > 0 => snaps'[told[i].id] = snaps[told[i].id]
    BY <1>1, <1>3, <1>4
  <2>2. \A i \in 1..Len(told) : told[i].how = "message" => told[i].id > 0
    BY <1>4 DEF NewsInv, NotifiedStored
  <2> QED
    BY <2>1, <2>2 DEF NewsInv, NotifiedStored
<1>7. \A i \in 1..Len(told) : told[i].id # Len(snaps) + 1
  BY <1>1, <1>4
<1> QED
  BY <1>3, <1>5, <1>6, <1>7 DEF row

LEMMA NewsReadKeeps == ASSUME NewsInv, NewsRead PROVE NewsInv'
<1>1. /\ nw.pc = "idle" /\ UNCHANGED <<ns, snaps, told>> /\ nruns' = nruns + 1 /\ nruns < MaxNews
  BY DEF NewsRead
<1>2. nw' = nw \/ nw' = [IdleNews EXCEPT !.pc = "fetch", !.min = ns.min]
  BY DEF NewsRead
<1>3. /\ nw' \in NewsRec /\ Cardinality(nw'.heads) <= TopN
      /\ nw'.pc \in {"idle", "fetch"} /\ nw'.id = 0
  <2>1. CASE nw' = nw
    BY <1>1, <2>1 DEF NewsInv, NewsRecords, RunHolds
  <2>2. CASE nw' = [IdleNews EXCEPT !.pc = "fetch", !.min = ns.min]
    BY <2>2, IdleNewsRec DEF NewsInv, NewsRecords, NewsRec
  <2> QED
    BY <1>2, <2>1, <2>2
<1>4. NewsRecords'
  <2>1. nruns' \in 0..MaxNews
    BY <1>1, NewsAssumption DEF NewsInv, NewsRecords
  <2> QED
    BY <1>1, <1>3, <2>1 DEF NewsInv, NewsRecords
<1>5. RunHolds'
  BY <1>3 DEF RunHolds
<1>6. RowsOfRuns'
  BY <1>1, <1>3 DEF NewsInv, NewsRecords, RowsOfRuns, Unstored
<1> QED
  BY <1>1, <1>4, <1>5, <1>6, ToldStays DEF NewsInv

LEMMA NewsFetchKeeps == ASSUME NewsInv, NewsFetch PROVE NewsInv'
<1>1. nw.pc = "fetch" /\ nw.id = 0 /\ nw \in NewsRec /\ UNCHANGED <<ns, snaps, told, nruns>>
  BY DEF NewsFetch, NewsInv, NewsRecords, RunHolds
<1>2. /\ nw' \in NewsRec /\ Cardinality(nw'.heads) <= TopN /\ nw'.id = 0
      /\ \/ nw'.pc = "classify"
         \/ nw'.pc = "failed" /\ nw'.c.err = TRUE /\ nw'.c.impact = "none"
  <2>1. ASSUME NEW ok \in SUBSET Feeds, NEW got \in [Feeds -> SUBSET Headlines],
               nw' = [nw EXCEPT !.pc = "classify", !.heads = Newest(UNION {got[f] : f \in ok})]
        PROVE  nw' \in NewsRec /\ Cardinality(nw'.heads) <= TopN /\ nw'.id = 0 /\ nw'.pc = "classify"
    <3>1. UNION {got[f] : f \in ok} \in SUBSET Headlines
      OBVIOUS
    <3>2. PICK H \in SUBSET Headlines : H = Newest(UNION {got[f] : f \in ok}) /\ Cardinality(H) <= TopN
      BY <3>1, NewestFits
    <3>3. nw' = [nw EXCEPT !.pc = "classify", !.heads = H]
      BY <2>1, <3>2
    <3> QED
      BY <1>1, <3>2, <3>3 DEF NewsRec
  <2>2. CASE nw' = [nw EXCEPT !.pc = "failed", !.c = [NoClass EXCEPT !.per = "json", !.err = TRUE]]
    <3>1. PICK c \in ClassRec : c = [NoClass EXCEPT !.per = "json", !.err = TRUE] /\ c.err = TRUE
                                /\ c.impact = "none"
      BY FailedClassRec
    <3>2. nw' = [nw EXCEPT !.pc = "failed", !.c = c]
      BY <2>2, <3>1
    <3> QED
      BY <1>1, <3>1, <3>2 DEF NewsInv, NewsRecords, NewsRec
  <2> QED
    BY <2>1, <2>2 DEF NewsFetch
<1>3. RunHolds' /\ RowsOfRuns'
  BY <1>1, <1>2 DEF NewsInv, RunHolds, RowsOfRuns, Unstored
<1> QED
  BY <1>1, <1>2, <1>3, ToldStays DEF NewsInv, NewsRecords

LEMMA ClassifyKeeps == ASSUME NewsInv, Classify PROVE NewsInv'
<1>1. nw.pc = "classify" /\ nw.id = 0 /\ nw \in NewsRec /\ UNCHANGED <<ns, snaps, told, nruns>>
  BY DEF Classify, NewsInv, NewsRecords, RunHolds
<1>2. \E c \in ClassRec :
        \/ c.err = FALSE /\ nw' = [nw EXCEPT !.pc = "store", !.c = c]
        \/ c.err = TRUE /\ c.impact = "none" /\ nw' = [nw EXCEPT !.pc = "failed", !.c = c]
  <2>1. \A impact \in Impacts : Classified(impact) \in ClassRec /\ Classified(impact).err = FALSE
    BY DEF Classified, ClassRec
  <2>2. \E c \in ClassRec : c = [NoClass EXCEPT !.err = TRUE] /\ c.err = TRUE /\ c.impact = "none"
    BY FailedClassRec
  <2>3. \/ \E impact \in Impacts : nw' = [nw EXCEPT !.pc = "store", !.c = Classified(impact)]
        \/ nw' = [nw EXCEPT !.pc = "failed", !.c = [NoClass EXCEPT !.err = TRUE]]
    BY NewsAssumption DEF Classify
  <2> QED
    BY <2>1, <2>2, <2>3
<1>3. PICK c \in ClassRec :
        \/ c.err = FALSE /\ nw' = [nw EXCEPT !.pc = "store", !.c = c]
        \/ c.err = TRUE /\ c.impact = "none" /\ nw' = [nw EXCEPT !.pc = "failed", !.c = c]
  BY <1>2
<1>4. /\ nw' \in NewsRec /\ nw'.heads = nw.heads /\ nw'.id = 0 /\ nw'.c = c
      /\ nw'.pc = (IF c.err THEN "failed" ELSE "store")
  BY <1>1, <1>3 DEF NewsRec
<1>5. RunHolds' /\ RowsOfRuns'
  BY <1>1, <1>3, <1>4 DEF NewsInv, RunHolds, RowsOfRuns, Unstored
<1> QED
  BY <1>1, <1>4, <1>5, ToldStays DEF NewsInv, NewsRecords

(* The row is written, or lost.                                            *)
LEMMA StoredKeeps ==
  ASSUME NewsInv, nw.pc \in {"failed", "store"}, UNCHANGED <<ns, told, nruns>>, InsertNews(nw.c),
         nw' = [nw EXCEPT !.pc = "publish", !.id = Len(snaps) + 1]
  PROVE  NewsInv'
<1>1. nw \in NewsRec /\ snaps \in Seq(Snapshot) /\ told \in Seq(Notice)
  BY DEF NewsInv, NewsRecords
<1>2. /\ nw' \in NewsRec /\ nw'.heads = nw.heads /\ nw'.id = Len(snaps) + 1 /\ nw'.c = nw.c
      /\ nw'.pc = "publish"
  <2>1. PICK n \in Nat : n = Len(snaps) + 1
    BY <1>1
  <2>2. nw' = [nw EXCEPT !.pc = "publish", !.id = n]
    BY <2>1
  <2> QED
    BY <1>1, <2>1, <2>2 DEF NewsRec
<1>3. NewsRecords'
  BY <1>2, RowAdded DEF NewsInv, NewsRecords
<1>4. RunHolds'
  BY <1>1, <1>2, RowAdded DEF RunHolds, OnRecord
<1>5. RowsOfRuns'
  BY <1>1, <1>2, RowAdded DEF NewsInv, NewsRecords, RowsOfRuns, Unstored
<1> QED
  BY <1>3, <1>4, <1>5, RowAdded DEF NewsInv

LEMMA LostKeeps ==
  ASSUME NewsInv, nw.pc \in {"failed", "store"}, UNCHANGED <<ns, told, nruns>>, Lost,
         \/ nw' = IdleNews
         \/ nw.pc = "failed" /\ ToPc("publish")
  PROVE  NewsInv'
<1>1. nw \in NewsRec /\ snaps' = snaps /\ nw.id = 0 /\ snaps \in Seq(Snapshot) /\ nruns \in Nat
  BY DEF NewsInv, NewsRecords, Lost, RunHolds
<1>2. /\ nw' \in NewsRec /\ Cardinality(nw'.heads) <= TopN /\ nw'.id = 0
      /\ \/ nw'.pc = "idle"
         \/ nw'.pc = "publish" /\ nw'.c.err = TRUE /\ nw'.c.impact = "none"
  <2>1. CASE nw' = IdleNews
    BY <2>1, IdleNewsRec
  <2>2. CASE nw.pc = "failed" /\ ToPc("publish")
    BY <1>1, <2>2 DEF ToPc, NewsInv, NewsRecords, RunHolds, NewsRec
  <2> QED
    BY <2>1, <2>2
<1>3. RunHolds' /\ RowsOfRuns'
  BY <1>1, <1>2 DEF NewsInv, RunHolds, RowsOfRuns, Unstored
<1> QED
  BY <1>1, <1>2, <1>3, ToldStays DEF NewsInv, NewsRecords

LEMMA PersistKeeps == ASSUME NewsInv, PersistFailure \/ PersistSuccess PROVE NewsInv'
<1>1. nw.pc \in {"failed", "store"} /\ UNCHANGED <<ns, told, nruns>>
  BY DEF PersistFailure, PersistSuccess
<1>2. \/ InsertNews(nw.c) /\ nw' = [nw EXCEPT !.pc = "publish", !.id = Len(snaps) + 1]
      \/ Lost /\ (nw' = IdleNews \/ (nw.pc = "failed" /\ ToPc("publish")))
  BY DEF PersistFailure, PersistSuccess
<1> QED
  BY <1>1, <1>2, StoredKeeps, LostKeeps

(* What is told now, about the row the run has stored.                     *)
LEMMA TellAdds ==
  ASSUME NewsInv, nw.pc \in {"publish", "notify"}, NEW how \in {"event", "message"}, Tell(how),
         snaps' = snaps,
         nw.id > 0 => OnRecord /\ \A i \in 1..Len(told) : told[i].how = how => told[i].id # nw.id,
         nw.id = 0 => nw.c.impact = "none" /\ how = "event",
         how = "message" => nw.c.err = FALSE /\ Meets(nw.c.impact, nw.min)
  PROVE  /\ told' \in Seq(Notice) /\ IdsStored' /\ NotifiedStored'
         /\ Len(told') = Len(told) + 1 /\ told'[Len(told) + 1].how = how
         /\ \A i \in 1..Len(told) : told'[i] = told[i]
<1> DEFINE note == [how |-> how, id |-> nw.id, impact |-> nw.c.impact, min |-> nw.min]
<1>1. note \in Notice /\ told \in Seq(Notice) /\ snaps \in Seq(Snapshot) /\ nw.id \in Nat
  BY DEF NewsInv, NewsRecords, NewsRec, ClassRec, Notice
<1>2. told' = Append(told, note)
  BY DEF Tell
<1>3. note.how = how /\ note.id = nw.id /\ note.impact = nw.c.impact /\ note.min = nw.min
  OBVIOUS
<1> HIDE DEF note
<1>4. /\ told' \in Seq(Notice) /\ Len(told') = Len(told) + 1 /\ Len(told) \in Nat
      /\ told'[Len(told) + 1] = note
      /\ \A i \in 1..Len(told) : told'[i] = told[i]
  BY <1>1, <1>2
<1>5. nw.id > 0 => nw.id \in 1..Len(snaps) /\ snaps[nw.id].impact = nw.c.impact /\ snaps[nw.id].err = nw.c.err
  BY DEF OnRecord
<1>6. \A i \in 1..Len(told') : i \in 1..Len(told) \/ i = Len(told) + 1
  BY <1>4
<1>7. IdsStored'
  <2>1. nw.id <= Len(snaps)
    BY <1>1, <1>5
  <2> QED
    BY <1>3, <1>4, <1>6, <2>1 DEF NewsInv, IdsStored
<1>8. ASSUME NEW i \in 1..Len(told')
      PROVE  /\ told'[i].id = 0 => told'[i].impact = "none" /\ told'[i].how = "event"
             /\ told'[i].id > 0 => snaps[told'[i].id].impact = told'[i].impact
             /\ told'[i].how = "message" =>
                  /\ ~snaps[told'[i].id].err
                  /\ ImpactRank(told'[i].impact) >= ImpactRank(told'[i].min)
  <2>1. CASE i \in 1..Len(told)
    BY <1>4, <2>1 DEF NewsInv, NotifiedStored
  <2>2. CASE i = Len(told) + 1
    <3>1. how = "message" => nw.id > 0
      BY <1>1
    <3>2. how = "message" => ~snaps[nw.id].err
      BY <1>5, <3>1
    <3>3. how = "message" => ImpactRank(nw.c.impact) >= ImpactRank(nw.min)
      BY DEF Meets
    <3> QED
      BY <1>3, <1>4, <1>5, <2>2, <3>2, <3>3
  <2> QED
    BY <1>6, <2>1, <2>2
<1>9. ASSUME NEW i \in 1..Len(told'), NEW j \in 1..Len(told'), i # j, told'[i].how = told'[j].how
      PROVE  told'[i].id = 0 \/ told'[i].id # told'[j].id
  <2>1. CASE i \in 1..Len(told) /\ j \in 1..Len(told)
    BY <1>4, <1>9, <2>1 DEF NewsInv, NotifiedStored
  <2>2. CASE i = Len(told) + 1 /\ j \in 1..Len(told)
    BY <1>1, <1>3, <1>4, <1>9, <2>2
  <2>3. CASE j = Len(told) + 1 /\ i \in 1..Len(told)
    BY <1>1, <1>3, <1>4, <1>9, <2>3
  <2> QED
    BY <1>6, <1>9, <2>1, <2>2, <2>3
<1>10. NotifiedStored'
  BY <1>8, <1>9 DEF NotifiedStored
<1> QED
  BY <1>3, <1>4, <1>7, <1>10

LEMMA PublishKeeps == ASSUME NewsInv, PublishNews PROVE NewsInv'
<1>1. /\ nw.pc = "publish" /\ Tell("event") /\ UNCHANGED <<ns, snaps, nruns>>
      /\ nw \in NewsRec /\ nw.id \in Nat /\ nw.c.err \in BOOLEAN
  BY DEF PublishNews, NewsInv, NewsRecords, NewsRec, ClassRec
<1>2. /\ nw.id > 0 => OnRecord /\ \A i \in 1..Len(told) : told[i].id # nw.id
      /\ nw.id = 0 => nw.c.err = TRUE /\ nw.c.impact = "none"
  BY <1>1 DEF NewsInv, RunHolds
<1>3. /\ told' \in Seq(Notice) /\ IdsStored' /\ NotifiedStored'
      /\ Len(told') = Len(told) + 1 /\ told'[Len(told) + 1].how = "event"
      /\ \A i \in 1..Len(told) : told'[i] = told[i]
  BY <1>1, <1>2, TellAdds
<1>4. CASE nw.c.err = TRUE
  <2>1. nw' = IdleNews
    BY <1>4 DEF PublishNews
  <2> QED
    BY <1>1, <1>3, <2>1, IdleNewsRec
    DEF NewsInv, NewsRecords, RunHolds, RowsOfRuns, Unstored
<1>5. CASE nw.c.err = FALSE
  <2>1. nw' = [nw EXCEPT !.pc = "notify"]
    BY <1>5 DEF PublishNews
  <2>2. /\ nw' \in NewsRec /\ nw'.pc = "notify" /\ nw'.heads = nw.heads /\ nw'.id = nw.id
        /\ nw'.c = nw.c
    BY <1>1, <2>1 DEF NewsRec
  <2>3. nw.id > 0
    BY <1>1, <1>2, <1>5
  <2>4. told \in Seq(Notice)
    BY DEF NewsInv, NewsRecords
  <2>5. \A i \in 1..Len(told') : told'[i].how = "message" => told'[i].id # nw.id
    BY <1>2, <1>3, <2>3, <2>4
  <2>6. RunHolds'
    BY <1>1, <1>2, <1>5, <2>2, <2>3, <2>5 DEF RunHolds, OnRecord
  <2> QED
    BY <1>1, <1>3, <2>2, <2>6 DEF NewsInv, NewsRecords, RowsOfRuns, Unstored
<1> QED
  BY <1>1, <1>4, <1>5

LEMMA NotifyKeeps == ASSUME NewsInv, MaybeNotify PROVE NewsInv'
<1>1. nw.pc = "notify" /\ nw' = IdleNews /\ UNCHANGED <<ns, snaps, nruns>>
  BY DEF MaybeNotify
<1>2. told' \in Seq(Notice) /\ IdsStored' /\ NotifiedStored'
  <2>1. CASE Meets(nw.c.impact, nw.min)
    <3>1. Tell("message")
      BY <2>1 DEF MaybeNotify
    <3>2. /\ OnRecord /\ nw.c.err = FALSE
          /\ \A i \in 1..Len(told) : told[i].how = "message" => told[i].id # nw.id
      BY <1>1 DEF NewsInv, RunHolds
    <3>3. nw.id # 0
      BY <3>2 DEF OnRecord
    <3> QED
      BY <1>1, <2>1, <3>1, <3>2, <3>3, TellAdds
  <2>2. CASE ~Meets(nw.c.impact, nw.min)
    BY <1>1, <2>2, ToldStays DEF MaybeNotify, NewsInv, NewsRecords
  <2> QED
    BY <2>1, <2>2
<1> QED
  BY <1>1, <1>2, IdleNewsRec DEF NewsInv, NewsRecords, RunHolds, RowsOfRuns, Unstored

LEMMA NewsStep == ASSUME NewsInv, [NewsNext]_newsVars PROVE NewsInv'
<1>1. CASE SaveNews
  <2>1. UNCHANGED <<nw, snaps, told, nruns>> /\ ns' \in [on : BOOLEAN, min : MinImpacts]
    BY <1>1 DEF SaveNews
  <2> QED
    BY <2>1, ToldStays DEF NewsInv, NewsRecords, RunHolds, OnRecord, RowsOfRuns, Unstored
<1>2. CASE UNCHANGED newsVars
  BY <1>2, ToldStays DEF newsVars, NewsInv, NewsRecords, RunHolds, OnRecord, RowsOfRuns, Unstored
<1> QED
  BY <1>1, <1>2, NewsReadKeeps, NewsFetchKeeps, ClassifyKeeps, PersistKeeps, PublishKeeps, NotifyKeeps
  DEF NewsNext

LEMMA NewsTypes == ASSUME NewsInv PROVE NewsTypeOK
<1>1. /\ nw \in NewsRec /\ Cardinality(nw.heads) <= TopN /\ nruns \in 0..MaxNews
      /\ Len(snaps) \in Nat /\ MaxNews \in Nat
  BY NewsAssumption DEF NewsInv, NewsRecords
<1>2. nw.id \in 0..Len(snaps)
  <2>1. nw.id = 0 \/ nw.id \in 1..Len(snaps)
    BY DEF NewsInv, RunHolds, OnRecord
  <2> QED
    BY <1>1, <2>1
<1>3. Len(snaps) <= nruns
  BY <1>1 DEF NewsInv, RowsOfRuns
<1>4. /\ nw.pc \in {"idle", "fetch", "classify", "failed", "store", "publish", "notify"}
      /\ nw.heads \subseteq Headlines /\ nw.c.impact \in Impacts
  BY <1>1 DEF NewsRec, ClassRec
<1>5. nruns <= MaxNews
  BY <1>1
<1> QED
  BY <1>1, <1>2, <1>3, <1>4, <1>5 DEF NewsTypeOK

(* What the news worker tells the pages and the operator is on record,     *)
(* with the impact it tells and once each way, whatever statements fail    *)
(* and whenever the settings change (persistSuccess, persistFailure and    *)
(* maybeNotify of the worker).                                             *)
THEOREM NewsToldStored == NewsSpec => []NotifiedStored
<1>1. NewsInv => NotifiedStored
  BY DEF NewsInv
<1> QED
  BY <1>1, NewsStarts, NewsStep, PTL DEF NewsSpec
----------------------------------------------------------------------------
(* Context.                                                                *)

TimeOrNever == Times \cup {Never}
Reading == {"events", "lookback", "self", "btc"}
CallRec ==
  [pc : {"idle", "fetch", "done"}, sym : Polled, from : Times, asof : TimeOrNever, took : Times]
LoadRec ==
  [pc : Reading \cup {"idle", "joined", "prompt"}, now : Times, lb : Lookbacks \cup {DefaultLookback},
   events : SUBSET [title : Titles, at : {2, 3}], self : TimeOrNever, btc : TimeOrNever]

CacheRec == [at : TimeOrNever, asof : TimeOrNever, took : Times]

ContextRecords ==
  /\ xt \in Times /\ feed \in [Titles -> {2, 3}] /\ events \subseteq [title : Titles, at : {2, 3}]
  /\ perp \in [Polled -> TimeOrNever]
  /\ poll \in [pc : {"idle", "sym", "price"}, todo : SUBSET Polled, at : Times]
  /\ cache \in [Polled -> CacheRec]
  /\ mkt \in [Callers -> CallRec]
  /\ load \in [Scorings -> LoadRec]

(* An entry of the cache, and a call on the way, are in the past.          *)
EntryAges(s) ==
  cache[s].at # Never =>
    cache[s].asof # Never /\ cache[s].at - cache[s].asof <= cache[s].took
    /\ cache[s].asof <= cache[s].at /\ cache[s].at <= xt
CallAges(c) ==
  /\ mkt[c].asof <= xt
  /\ mkt[c].pc = "fetch" => mkt[c].asof = Never /\ mkt[c].from <= xt

(* What a scoring has read is near enough to its now, and its now near     *)
(* enough to the time; a request for candles was sent at its now.          *)
CachedFor == IF TTL > 0 THEN TTL - 1 ELSE 0
LoadAges(c) ==
  /\ load[c].pc # "idle" =>
       /\ load[c].now <= xt /\ xt - load[c].now <= ProcessTime
       /\ mkt[c].pc = "fetch" => mkt[c].from = load[c].now
       /\ mkt[c].pc = "done" /\ mkt[c].asof # Never => load[c].now - mkt[c].asof <= CachedFor + mkt[c].took
       /\ mkt[c].pc # "idle"
  /\ load[c].pc = "prompt" => mkt[c].pc = "done"
Near(t, l) == t # Never => l.now - t < (l.lb + 1) * Minute
LoadNear(c) ==
  /\ Near(load[c].self, load[c]) /\ Near(load[c].btc, load[c])
  /\ load[c].pc \in {"events", "lookback"} => load[c].self = Never /\ load[c].btc = Never
  /\ \A r \in load[c].events : r.at \in (load[c].now - Around)..(load[c].now + Around)

ContextInv ==
  /\ ContextRecords
  /\ \A s \in Polled : EntryAges(s)
  /\ \A c \in Callers : CallAges(c)
  /\ \A c \in Scorings : LoadAges(c) /\ LoadNear(c)

LEMMA ContextBounds ==
  /\ ContextTime \in Nat /\ TTL \in Nat /\ Around \in Nat /\ ProcessTime \in Nat
  /\ Minute \in Nat \ {0} /\ CachedFor \in Nat
  /\ \A l \in Lookbacks \cup {DefaultLookback} : l \in Nat /\ (l + 1) * Minute \in Nat
  /\ 0 \in Times /\ Never \notin Times /\ \A t \in Times : t \in Nat /\ t <= ContextTime
  /\ \A t \in TimeOrNever : t \in Int /\ (t # Never => t \in Times)
<1>1. /\ ContextTime \in Nat /\ TTL \in Nat /\ Around \in Nat /\ ProcessTime \in Nat
      /\ Minute \in Nat \ {0}
  BY ContextAssumption
<1>2. ASSUME NEW l \in Lookbacks \cup {DefaultLookback} PROVE l \in Nat /\ (l + 1) * Minute \in Nat
  <2>1. l \in Nat
    BY ContextAssumption
  <2> QED
    BY <1>1, <2>1
<1>3. CachedFor \in Nat
  BY <1>1 DEF CachedFor
<1> QED
  BY <1>1, <1>2, <1>3 DEF Times, Never, TimeOrNever

(* What is cut off a whole number of minutes is less than one.             *)
LEMMA CutOff == ASSUME NEW a \in Int, NEW m \in Nat \ {0} PROVE a < ((a \div m) + 1) * m
OBVIOUS

LEMMA MoreMinutes ==
  ASSUME NEW q \in Int, NEW b \in Int, NEW m \in Nat \ {0}, q <= b PROVE (q + 1) * m <= (b + 1) * m
OBVIOUS

LEMMA WholeMinutes ==
  ASSUME NEW a \in Int, NEW m \in Nat \ {0}, NEW b \in Int, a \div m <= b PROVE a < (b + 1) * m
<1> DEFINE q == a \div m
<1>1. q \in Int /\ q <= b /\ a < (q + 1) * m
  BY CutOff
<1>2. (q + 1) * m <= (b + 1) * m
  BY <1>1, MoreMinutes
<1>3. (q + 1) * m \in Int /\ (b + 1) * m \in Int
  BY <1>1
<1> HIDE DEF q
<1> QED
  BY <1>1, <1>2, <1>3

LEMMA IdleContextRecs ==
  /\ IdleCall \in CallRec /\ IdleCall.pc = "idle" /\ IdleCall.asof = Never
  /\ IdlePoll \in [pc : {"idle", "sym", "price"}, todo : SUBSET Polled, at : Times]
  /\ IdleCall.took = 0
  /\ IdleLoad \in LoadRec /\ IdleLoad.pc = "idle" /\ IdleLoad.self = Never /\ IdleLoad.btc = Never
  /\ IdleLoad.events = {}
BY ContextBounds DEF IdleCall, IdlePoll, IdleLoad, CallRec, LoadRec, Polled, TimeOrNever

LEMMA ContextCallers ==
  /\ Scorings \subseteq Callers /\ "poller" \in Callers /\ "poller" \notin Scorings
  /\ \A c \in Scorings : SignalSymbol[c] \in Polled
  /\ BTC \in Polled
BY ContextAssumption DEF Callers, Polled

LEMMA ContextStarts == ASSUME ContextInit PROVE ContextInv
<1>1. ContextRecords
  <2>1. xt \in Times /\ events \subseteq [title : Titles, at : {2, 3}] /\ feed \in [Titles -> {2, 3}]
    BY ContextBounds DEF ContextInit
  <2>2. perp \in [Polled -> TimeOrNever] /\ cache \in [Polled -> CacheRec]
    BY ContextBounds DEF ContextInit, TimeOrNever, CacheRec
  <2>3. mkt \in [Callers -> CallRec] /\ load \in [Scorings -> LoadRec]
    BY IdleContextRecs DEF ContextInit
  <2> QED
    BY <2>1, <2>2, <2>3, IdleContextRecs DEF ContextInit, ContextRecords
<1>2. \A s \in Polled : EntryAges(s)
  BY DEF ContextInit, EntryAges
<1>3. \A c \in Callers : CallAges(c)
  BY IdleContextRecs DEF ContextInit, CallAges, Never
<1>4. \A c \in Scorings : LoadAges(c) /\ LoadNear(c)
  BY IdleContextRecs DEF ContextInit, LoadAges, LoadNear, Near
<1> QED
  BY <1>1, <1>2, <1>3, <1>4 DEF ContextInv

(* The clock.                                                              *)
LEMMA ContextTickKeeps == ASSUME ContextInv, ContextTick PROVE ContextInv'
<1>1. /\ xt' = xt + 1 /\ xt < ContextTime
      /\ UNCHANGED <<events, feed, perp, poll, cache, mkt, load>>
      /\ ContextRecords
  BY DEF ContextTick, ContextInv
<1>2. xt \in Times /\ xt' \in Times /\ xt \in Nat
  BY <1>1, ContextBounds DEF ContextRecords, Times
<1>3. ASSUME NEW s \in Polled PROVE EntryAges(s)'
  <2>1. cache[s] \in CacheRec /\ EntryAges(s)
    BY <1>1 DEF ContextRecords, ContextInv
  <2>2. cache[s].at \in Int /\ cache[s].asof \in Int /\ cache'[s] = cache[s]
    BY <1>1, <2>1, ContextBounds DEF CacheRec
  <2> QED
    BY <1>1, <1>2, <2>1, <2>2 DEF EntryAges
<1>4. ASSUME NEW c \in Callers PROVE CallAges(c)'
  <2>1. mkt[c].asof \in TimeOrNever /\ mkt[c].from \in Times /\ CallAges(c)
    BY <1>1 DEF ContextRecords, CallRec, ContextInv
  <2>2. mkt[c].asof \in Int /\ mkt[c].from \in Int
    BY <2>1, ContextBounds
  <2> QED
    BY <1>1, <1>2, <2>1, <2>2 DEF CallAges
<1>5. ASSUME NEW c \in Scorings PROVE LoadAges(c)' /\ LoadNear(c)'
  <2>1. load[c].now \in Times /\ LoadAges(c) /\ LoadNear(c)
    BY <1>1 DEF ContextRecords, LoadRec, ContextInv
  <2>2. load[c].pc # "idle" => xt - load[c].now < ProcessTime
    BY DEF ContextTick
  <2>3. load[c].pc # "idle" => load[c].now <= xt' /\ xt' - load[c].now <= ProcessTime
    <3>1. load[c].now \in Int /\ ProcessTime \in Int
      BY <2>1, ContextBounds
    <3> QED
      BY <1>1, <1>2, <2>1, <2>2, <3>1 DEF LoadAges
  <2> QED
    BY <1>1, <2>1, <2>3 DEF LoadAges, LoadNear, Near
<1> QED
  BY <1>1, <1>2, <1>3, <1>4, <1>5 DEF ContextInv, ContextRecords

(* A look into the cache: what it gives, by whomever.                      *)
LEMMA Looked ==
  ASSUME ContextInv, NEW c \in Callers, NEW s \in Polled, GetContext(c, s)
  PROVE  /\ mkt' \in [Callers -> CallRec]
         /\ \A d \in Callers : d # c => mkt'[d] = mkt[d]
         /\ \/ /\ mkt'[c].pc = "done"
               /\ mkt'[c].asof # Never => xt - mkt'[c].asof <= CachedFor + mkt'[c].took
               /\ mkt'[c].asof <= xt
            \/ mkt'[c].pc = "fetch" /\ mkt'[c].from = xt /\ mkt'[c].asof = Never
<1>1. /\ mkt \in [Callers -> CallRec] /\ xt \in Times
      /\ cache[s] \in CacheRec /\ EntryAges(s)
  BY DEF ContextInv, ContextRecords
<1>2. CASE cache[s].at # Never /\ xt - cache[s].at < TTL
  <2>1. PICK t \in TimeOrNever, w \in Times : t = cache[s].asof /\ w = cache[s].took
    BY <1>1 DEF CacheRec
  <2>2. mkt' = [mkt EXCEPT ![c] = [pc |-> "done", sym |-> s, from |-> 0, asof |-> t, took |-> w]]
    BY <1>2, <2>1 DEF GetContext
  <2>3. t \in Times
    BY <1>1, <1>2, <2>1 DEF EntryAges, TimeOrNever
  <2>4. [pc |-> "done", sym |-> s, from |-> 0, asof |-> t, took |-> w] \in CallRec
    BY <2>1, <2>3, ContextBounds DEF CallRec, TimeOrNever
  <2>5. xt - t <= CachedFor + w /\ t <= xt
    <3>1. cache[s].at \in Int /\ xt \in Int /\ t \in Int /\ w \in Int /\ TTL \in Nat
      BY <1>1, <2>1, ContextBounds DEF CacheRec
    <3> QED
      BY <1>1, <1>2, <2>1, <3>1 DEF EntryAges, CachedFor
  <2> QED
    BY <1>1, <2>2, <2>4, <2>5
<1>3. CASE ~(cache[s].at # Never /\ xt - cache[s].at < TTL)
  <2>1. mkt' = [mkt EXCEPT ![c] = [pc |-> "fetch", sym |-> s, from |-> xt, asof |-> Never, took |-> 0]]
    BY <1>3 DEF GetContext
  <2>2. [pc |-> "fetch", sym |-> s, from |-> xt, asof |-> Never, took |-> 0] \in CallRec
    BY <1>1, ContextBounds DEF CallRec, TimeOrNever
  <2> QED
    BY <1>1, <2>1, <2>2
<1> QED
  BY <1>2, <1>3

LEMMA FetchCandlesKeeps ==
  ASSUME ContextInv, NEW c \in Callers, FetchCandles(c) PROVE ContextInv'
<1>1. /\ mkt[c].pc = "fetch" /\ UNCHANGED <<xt, events, feed, perp, poll, load>>
      /\ ContextRecords /\ mkt \in [Callers -> CallRec] /\ xt \in Times
      /\ cache \in [Polled -> CacheRec]
      /\ CallAges(c)
  BY DEF FetchCandles, ContextInv, ContextRecords
<1>2. PICK f \in Times : f = mkt[c].from /\ f <= xt
  BY <1>1 DEF CallRec, CallAges
<1>3. PICK s \in Polled : s = mkt[c].sym
  BY <1>1 DEF CallRec
<1>4. PICK w \in Times : w = xt - f
  BY <1>1, <1>2, ContextBounds DEF Times
<1>5. PICK l \in CallRec :
        /\ mkt' = [mkt EXCEPT ![c] = l] /\ l.pc = "done"
        /\ \/ l.asof = f /\ l.took = w /\ cache' = [cache EXCEPT ![s] = [at |-> xt, asof |-> f, took |-> w]]
           \/ l.asof = Never /\ cache' = cache
  <2>1. CASE Fill(c) /\ Answer(c)
    <3> DEFINE l == [mkt[c] EXCEPT !.pc = "done", !.from = 0, !.asof = f, !.took = w]
    <3>1. l \in CallRec
      BY <1>1, <1>2, <1>4, ContextBounds DEF CallRec, TimeOrNever
    <3>2. l.pc = "done" /\ l.asof = f /\ l.took = w
      BY <1>1 DEF CallRec
    <3>3. mkt' = [mkt EXCEPT ![c] = l]
      BY <1>2, <1>4, <2>1 DEF Answer
    <3>4. cache' = [cache EXCEPT ![s] = [at |-> xt, asof |-> f, took |-> w]]
      BY <1>2, <1>3, <1>4, <2>1 DEF Fill
    <3> HIDE DEF l
    <3> QED
      BY <3>1, <3>2, <3>3, <3>4
  <2>2. CASE cache' = cache /\ mkt' = [mkt EXCEPT ![c] = [@ EXCEPT !.pc = "done", !.from = 0]]
    <3> DEFINE l == [mkt[c] EXCEPT !.pc = "done", !.from = 0]
    <3>1. l \in CallRec
      BY <1>1, ContextBounds DEF CallRec
    <3>2. l.pc = "done" /\ l.asof = Never
      BY <1>1 DEF CallRec, CallAges
    <3>3. mkt' = [mkt EXCEPT ![c] = l]
      BY <2>2
    <3> HIDE DEF l
    <3> QED
      BY <2>2, <3>1, <3>2, <3>3
  <2> QED
    BY <2>1, <2>2 DEF FetchCandles
<1>6. /\ mkt' \in [Callers -> CallRec] /\ mkt'[c] = l
      /\ \A d \in Callers : d # c => mkt'[d] = mkt[d]
  BY <1>1, <1>5
<1>7. cache' \in [Polled -> CacheRec]
  BY <1>1, <1>2, <1>4, <1>5 DEF TimeOrNever, CacheRec
<1>9. ASSUME NEW p \in Polled PROVE EntryAges(p)'
  <2>1. CASE cache'[p] = cache[p]
    BY <1>1, <2>1 DEF ContextInv, EntryAges
  <2>2. CASE cache'[p] = [at |-> xt, asof |-> f, took |-> w]
    BY <1>1, <1>2, <1>4, <2>2, ContextBounds DEF EntryAges, Times
  <2> QED
    BY <1>1, <1>5, <2>1, <2>2
<1>10. ASSUME NEW d \in Callers PROVE CallAges(d)'
  <2>1. l.asof <= xt
    BY <1>1, <1>2, <1>5, ContextBounds DEF Never
  <2>2. CASE d = c
    BY <1>1, <1>5, <1>6, <2>1, <2>2 DEF CallAges
  <2>3. CASE d # c
    BY <1>1, <1>6, <2>3 DEF ContextInv, CallAges
  <2> QED
    BY <2>2, <2>3
<1>11. ASSUME NEW d \in Scorings PROVE LoadAges(d)' /\ LoadNear(d)'
  <2>1. LoadAges(d) /\ LoadNear(d) /\ d \in Callers /\ load[d].now \in Times
    BY <1>1, ContextCallers DEF ContextInv, ContextRecords, LoadRec
  <2>2. d = c /\ load[d].pc # "idle" /\ l.asof # Never => load[d].now - l.asof <= CachedFor + l.took
    <3>1. d = c /\ load[d].pc # "idle" => f = load[d].now
      BY <1>1, <1>2, <2>1 DEF LoadAges
    <3>2. l.asof # Never => l.asof = f /\ l.took \in Nat
      BY <1>5, ContextBounds DEF CallRec
    <3> QED
      BY <1>2, <2>1, <3>1, <3>2, ContextBounds
  <2>3. LoadNear(d)'
    BY <1>1, <2>1 DEF LoadNear, Near
  <2>4. CASE d = c
    BY <1>1, <1>5, <1>6, <2>1, <2>2, <2>3, <2>4 DEF LoadAges
  <2>5. CASE d # c
    BY <1>1, <1>6, <2>1, <2>3, <2>5 DEF LoadAges
  <2> QED
    BY <2>3, <2>4, <2>5
<1> QED
  BY <1>1, <1>6, <1>7, <1>9, <1>10, <1>11 DEF ContextInv, ContextRecords

(* A step of the perp poller: of the calls only its own changes.           *)
LEMMA PollerCalls ==
  ASSUME ContextInv, UNCHANGED <<xt, events, feed, cache, load>>,
         perp' \in [Polled -> TimeOrNever],
         poll' \in [pc : {"idle", "sym", "price"}, todo : SUBSET Polled, at : Times],
         mkt' \in [Callers -> CallRec], CallAges("poller")',
         \A d \in Callers : d # "poller" => mkt'[d] = mkt[d]
  PROVE  ContextInv'
<1>1. ContextRecords'
  BY DEF ContextInv, ContextRecords
<1>2. \A s \in Polled : EntryAges(s)'
  BY DEF ContextInv, EntryAges
<1>3. ASSUME NEW d \in Callers PROVE CallAges(d)'
  BY DEF ContextInv, CallAges
<1>4. ASSUME NEW d \in Scorings PROVE LoadAges(d)' /\ LoadNear(d)'
  BY ContextCallers DEF ContextInv, LoadAges, LoadNear, Near
<1> QED
  BY <1>1, <1>2, <1>3, <1>4 DEF ContextInv

LEMMA ThroughPolls ==
  ASSUME ContextInv, NEW s, Through(s)
  PROVE  poll' \in [pc : {"idle", "sym", "price"}, todo : SUBSET Polled, at : Times]
BY IdleContextRecs DEF ContextInv, ContextRecords, Through

LEMMA PerpKeeps ==
  ASSUME ContextInv, PerpTick \/ (\E s \in Polled : FetchPerp(s)) \/ InsertPerp
  PROVE  ContextInv'
<1>1. /\ perp \in [Polled -> TimeOrNever] /\ mkt \in [Callers -> CallRec] /\ xt \in Times
      /\ poll \in [pc : {"idle", "sym", "price"}, todo : SUBSET Polled, at : Times]
      /\ CallAges("poller")
  BY ContextCallers DEF ContextInv, ContextRecords
<1>2. CASE PerpTick
  <2>1. UNCHANGED <<xt, events, feed, cache, load, perp, mkt>>
    BY <1>2 DEF PerpTick
  <2>2. poll' \in [pc : {"idle", "sym", "price"}, todo : SUBSET Polled, at : Times]
    BY <1>1, <1>2, ContextCallers DEF PerpTick
  <2> QED
    BY <1>1, <2>1, <2>2, PollerCalls DEF CallAges
<1>3. ASSUME NEW s \in Polled, FetchPerp(s) PROVE ContextInv'
  <2>1. UNCHANGED <<xt, events, feed, cache, load, perp>>
    BY <1>3 DEF FetchPerp
  <2>2. CASE GetContext("poller", s) /\ poll' = [poll EXCEPT !.pc = "price"]
    <3>1. poll' \in [pc : {"idle", "sym", "price"}, todo : SUBSET Polled, at : Times]
      BY <1>1, <2>2
    <3>2. CallAges("poller")'
      <4>1. \/ mkt'["poller"].pc = "done" /\ mkt'["poller"].asof <= xt
            \/ mkt'["poller"].pc = "fetch" /\ mkt'["poller"].from = xt /\ mkt'["poller"].asof = Never
        BY <1>3, <2>2, Looked, ContextCallers
      <4>2. xt \in Nat
        BY <1>1, ContextBounds
      <4> QED
        BY <2>1, <4>1, <4>2 DEF CallAges, Never
    <3> QED
      BY <1>1, <2>1, <2>2, <3>1, <3>2, Looked, ContextCallers, PollerCalls
  <2>3. CASE mkt' = mkt /\ Through(s)
    BY <1>1, <2>1, <2>3, ThroughPolls, PollerCalls DEF CallAges
  <2> QED
    BY <1>3, <2>2, <2>3 DEF FetchPerp
<1>4. CASE InsertPerp
  <2>1. UNCHANGED <<xt, events, feed, cache, load>> /\ mkt' = [mkt EXCEPT !["poller"] = IdleCall]
    BY <1>4 DEF InsertPerp
  <2>2. poll' \in [pc : {"idle", "sym", "price"}, todo : SUBSET Polled, at : Times]
    BY <1>4, ThroughPolls DEF InsertPerp
  <2>3. perp' \in [Polled -> TimeOrNever]
    <3>1. PICK a \in TimeOrNever : a = poll.at
      BY <1>1 DEF TimeOrNever
    <3>2. perp' = perp \/ perp' = [perp EXCEPT ![mkt["poller"].sym] = a]
      BY <1>4, <3>1 DEF InsertPerp
    <3> QED
      BY <1>1, <3>2
  <2>4. mkt' \in [Callers -> CallRec] /\ mkt'["poller"] = IdleCall
        /\ \A d \in Callers : d # "poller" => mkt'[d] = mkt[d]
    BY <1>1, <2>1, IdleContextRecs, ContextCallers
  <2>5. CallAges("poller")'
    BY <1>1, <2>1, <2>4, IdleContextRecs, ContextBounds DEF CallAges, Never
  <2> QED
    BY <2>1, <2>2, <2>3, <2>4, <2>5, PollerCalls
<1> QED
  BY <1>2, <1>3, <1>4

LEMMA CalendarKeeps ==
  ASSUME ContextInv, CalendarTick \/ \E e \in Titles : Reschedule(e) PROVE ContextInv'
<1>1. UNCHANGED <<xt, perp, poll, cache, mkt, load>>
  BY DEF CalendarTick, Reschedule
<1>2. feed' \in [Titles -> {2, 3}] /\ events' \subseteq [title : Titles, at : {2, 3}]
  <2>1. feed \in [Titles -> {2, 3}] /\ events \subseteq [title : Titles, at : {2, 3}]
    BY DEF ContextInv, ContextRecords
  <2>2. Batch \subseteq [title : Titles, at : {2, 3}]
    BY <2>1 DEF Batch
  <2>3. CASE CalendarTick
    BY <2>1, <2>2, <2>3 DEF CalendarTick
  <2>4. CASE \E e \in Titles : Reschedule(e)
    BY <2>1, <2>4 DEF Reschedule
  <2> QED
    BY <2>3, <2>4
<1> QED
  BY <1>1, <1>2 DEF ContextInv, ContextRecords, EntryAges, CallAges, LoadAges, LoadNear, Near

LEMMA AssembleKeeps == ASSUME ContextInv, NEW c \in Scorings, Assemble(c) PROVE ContextInv'
<1>1. /\ load' = [load EXCEPT ![c] = [IdleLoad EXCEPT !.pc = "events", !.now = xt]]
      /\ GetContext(c, SignalSymbol[c])
      /\ UNCHANGED <<xt, events, feed, perp, poll, cache>>
      /\ ContextRecords /\ load \in [Scorings -> LoadRec] /\ xt \in Times
  BY DEF Assemble, ContextInv, ContextRecords
<1>2. c \in Callers /\ SignalSymbol[c] \in Polled
  BY ContextCallers
<1>3. /\ mkt' \in [Callers -> CallRec]
      /\ \A d \in Callers : d # c => mkt'[d] = mkt[d]
      /\ \/ /\ mkt'[c].pc = "done"
            /\ mkt'[c].asof # Never => xt - mkt'[c].asof <= CachedFor + mkt'[c].took
            /\ mkt'[c].asof <= xt
         \/ mkt'[c].pc = "fetch" /\ mkt'[c].from = xt /\ mkt'[c].asof = Never
  BY <1>1, <1>2, Looked
<1>4. PICK l \in LoadRec : /\ l = [IdleLoad EXCEPT !.pc = "events", !.now = xt]
                           /\ l.pc = "events" /\ l.now = xt /\ l.self = Never /\ l.btc = Never
                           /\ l.events = {}
  <2> DEFINE l == [IdleLoad EXCEPT !.pc = "events", !.now = xt]
  <2>1. l \in LoadRec
    BY <1>1, IdleContextRecs DEF LoadRec, Reading
  <2>2. l.pc = "events" /\ l.now = xt /\ l.self = Never /\ l.btc = Never /\ l.events = {}
    BY IdleContextRecs DEF LoadRec
  <2> QED
    BY <2>1, <2>2
<1>5. /\ load' \in [Scorings -> LoadRec] /\ load'[c] = l
      /\ \A d \in Scorings : d # c => load'[d] = load[d]
  BY <1>1, <1>4
<1>6. \A s \in Polled : EntryAges(s)'
  BY <1>1 DEF ContextInv, EntryAges
<1>7. ASSUME NEW d \in Callers PROVE CallAges(d)'
  <2>1. CASE d = c
    BY <1>1, <1>3, <2>1, ContextBounds DEF CallAges, Never
  <2>2. CASE d # c
    BY <1>1, <1>3, <2>2 DEF ContextInv, CallAges
  <2> QED
    BY <2>1, <2>2
<1>8. ASSUME NEW d \in Scorings PROVE LoadAges(d)' /\ LoadNear(d)'
  <2>1. CASE d = c
    <3>1. LoadNear(d)'
      BY <1>4, <1>5, <2>1 DEF LoadNear, Near
    <3>2. LoadAges(d)'
      BY <1>1, <1>3, <1>4, <1>5, <2>1, ContextBounds DEF LoadAges
    <3> QED
      BY <3>1, <3>2
  <2>2. CASE d # c
    BY <1>1, <1>3, <1>5, <2>2, ContextCallers DEF ContextInv, LoadAges, LoadNear, Near
  <2> QED
    BY <2>1, <2>2
<1> QED
  BY <1>1, <1>3, <1>5, <1>6, <1>7, <1>8 DEF ContextInv, ContextRecords

(* A load that reads on: its now, and the call beside it, stay.            *)
LEMMA ReadingKeeps ==
  ASSUME ContextInv, NEW c \in Scorings, NEW l \in LoadRec, load' = [load EXCEPT ![c] = l],
         UNCHANGED <<xt, events, feed, perp, poll, cache, mkt>>,
         load[c].pc \in Reading, l.pc \in Reading \cup {"joined"}, l.now = load[c].now,
         Near(l.self, l), Near(l.btc, l),
         l.pc \in {"events", "lookback"} => l.self = Never /\ l.btc = Never,
         \A r \in l.events : r.at \in (l.now - Around)..(l.now + Around)
  PROVE  ContextInv'
<1>1. load \in [Scorings -> LoadRec] /\ xt \in Times
  BY DEF ContextInv, ContextRecords
<1>2. /\ load' \in [Scorings -> LoadRec] /\ load'[c] = l
      /\ \A d \in Scorings : d # c => load'[d] = load[d]
  BY <1>1
<1>3. ASSUME NEW d \in Scorings PROVE LoadAges(d)' /\ LoadNear(d)'
  <2>1. CASE d = c
    <3>1. LoadNear(d)'
      BY <1>2, <2>1 DEF LoadNear, Near
    <3>2. LoadAges(c) /\ load[c].pc # "idle" /\ l.pc # "prompt"
      BY DEF ContextInv, Reading
    <3>3. LoadAges(d)'
      BY <1>2, <2>1, <3>2 DEF LoadAges
    <3> QED
      BY <3>1, <3>3
  <2>2. CASE d # c
    BY <1>2, <2>2 DEF ContextInv, LoadAges, LoadNear, Near
  <2> QED
    BY <2>1, <2>2
<1> QED
  BY <1>2, <1>3 DEF ContextInv, ContextRecords, EntryAges, CallAges

LEMMA LatestNear ==
  ASSUME ContextInv, NEW s \in Polled, NEW now \in Times, NEW lb \in Lookbacks \cup {DefaultLookback}
  PROVE  /\ Latest(s, now, lb) \in TimeOrNever
         /\ Latest(s, now, lb) # Never => now - Latest(s, now, lb) < (lb + 1) * Minute
<1>1. PICK t \in TimeOrNever : t = perp[s]
  BY DEF ContextInv, ContextRecords
<1>2. CASE t # Never /\ MinutesBetween(t, now) <= lb
  <2>1. now - t \in Int /\ lb \in Int /\ Minute \in Nat \ {0}
    BY ContextBounds
  <2>2. (now - t) \div Minute <= lb
    BY <1>2 DEF MinutesBetween
  <2>3. now - t < (lb + 1) * Minute
    BY <2>1, <2>2, WholeMinutes
  <2>4. Latest(s, now, lb) = t
    BY <1>1, <1>2 DEF Latest
  <2> QED
    BY <2>3, <2>4
<1>3. CASE ~(t # Never /\ MinutesBetween(t, now) <= lb)
  BY <1>1, <1>3 DEF Latest, TimeOrNever
<1> QED
  BY <1>2, <1>3

LEMMA LoadStepKeeps == ASSUME ContextInv, NEW c \in Scorings, LoadStep(c) PROVE ContextInv'
<1>1. /\ load[c] \in LoadRec /\ LoadNear(c) /\ load[c].now \in Times /\ load \in [Scorings -> LoadRec]
      /\ load[c].lb \in Lookbacks \cup {DefaultLookback}
      /\ SignalSymbol[c] \in Polled /\ BTC \in Polled
  BY ContextCallers DEF ContextInv, ContextRecords, LoadRec
<1>2. ASSUME NEW from \in Reading, NEW to \in Reading \cup {"joined"}, NEW got \in LoadRec,
             ReadSource(c, from, to, got), got.now = load[c].now,
             from # "lookback", from = "events" <=> to \in {"events", "lookback"},
             Near(got.self, got), Near(got.btc, got),
             from = "events" => got.self = Never /\ got.btc = Never,
             \A r \in got.events : r.at \in (got.now - Around)..(got.now + Around)
      PROVE  ContextInv'
  <2>1. /\ load[c].pc = from /\ UNCHANGED <<xt, events, feed, perp, poll, cache, mkt>>
        /\ \/ load' = [load EXCEPT ![c] = [got EXCEPT !.pc = to]]
           \/ load' = [load EXCEPT ![c] = [load[c] EXCEPT !.pc = to]]
    BY <1>2 DEF ReadSource
  <2>2. ASSUME NEW g \in LoadRec, load' = [load EXCEPT ![c] = [g EXCEPT !.pc = to]],
               g.now = load[c].now, Near(g.self, g), Near(g.btc, g),
               from = "events" => g.self = Never /\ g.btc = Never,
               \A r \in g.events : r.at \in (g.now - Around)..(g.now + Around)
        PROVE  ContextInv'
    <3> DEFINE l == [g EXCEPT !.pc = to]
    <3>1. l \in LoadRec
      BY <2>2 DEF LoadRec
    <3>2. /\ l.pc = to /\ l.now = g.now /\ l.self = g.self /\ l.btc = g.btc /\ l.events = g.events
          /\ l.lb = g.lb
      BY <2>2 DEF LoadRec
    <3>3. load' = [load EXCEPT ![c] = l]
      BY <2>2
    <3> HIDE DEF l
    <3>4. /\ load[c].pc \in Reading /\ l.pc \in Reading \cup {"joined"} /\ l.now = load[c].now
          /\ Near(l.self, l) /\ Near(l.btc, l)
          /\ l.pc \in {"events", "lookback"} => l.self = Never /\ l.btc = Never
          /\ \A r \in l.events : r.at \in (l.now - Around)..(l.now + Around)
      BY <1>2, <2>1, <2>2, <3>2 DEF Near
    <3> QED
      BY <2>1, <3>1, <3>3, <3>4, ReadingKeeps
  <2>3. CASE load' = [load EXCEPT ![c] = [load[c] EXCEPT !.pc = to]]
    <3>1. from = "events" => load[c].self = Never /\ load[c].btc = Never
      BY <1>1, <2>1 DEF LoadNear
    <3> QED
      BY <1>1, <2>2, <2>3, <3>1 DEF LoadNear
  <2> QED
    BY <1>2, <2>1, <2>2, <2>3
<1>3. CASE ReadEvents(c)
  <2> DEFINE got == [load[c] EXCEPT !.events = ActiveBetween(load[c].now)]
  <2>1. ActiveBetween(load[c].now) \subseteq [title : Titles, at : {2, 3}]
    BY DEF ActiveBetween, ContextInv, ContextRecords
  <2>2. /\ got \in LoadRec /\ got.now = load[c].now /\ got.self = load[c].self /\ got.lb = load[c].lb
        /\ got.btc = load[c].btc /\ got.events = ActiveBetween(load[c].now)
    BY <1>1, <2>1 DEF LoadRec
  <2>3. ReadSource(c, "events", "lookback", got)
    BY <1>3 DEF ReadEvents
  <2> HIDE DEF got
  <2>4. got.self = Never /\ got.btc = Never
    BY <1>1, <2>2, <2>3 DEF ReadSource, LoadNear
  <2> QED
    BY <1>1, <1>2, <2>2, <2>3, <2>4 DEF Near, ActiveBetween, Reading
<1>4. CASE ReadSelf(c)
  <2>1. PICK t \in TimeOrNever : t = Latest(SignalSymbol[c], load[c].now, load[c].lb)
                                 /\ (t # Never => load[c].now - t < (load[c].lb + 1) * Minute)
    BY <1>1, LatestNear
  <2> DEFINE got == [load[c] EXCEPT !.self = t]
  <2>2. /\ got \in LoadRec /\ got.now = load[c].now /\ got.self = t /\ got.lb = load[c].lb
        /\ got.btc = load[c].btc /\ got.events = load[c].events
    BY <1>1 DEF LoadRec
  <2> HIDE DEF got
  <2>3. ReadSource(c, "self", "btc", got)
    BY <1>4, <2>1 DEF ReadSelf, got
  <2> QED
    BY <1>1, <1>2, <2>1, <2>2, <2>3 DEF LoadNear, Near, Reading
<1>5. CASE ReadBTC(c)
  <2>1. PICK t \in TimeOrNever :
          /\ t = IF SignalSymbol[c] = BTC THEN load[c].self ELSE Latest(BTC, load[c].now, load[c].lb)
          /\ (t # Never => load[c].now - t < (load[c].lb + 1) * Minute)
    <3>1. load[c].self \in TimeOrNever /\ Near(load[c].self, load[c])
      BY <1>1 DEF LoadRec, LoadNear
    <3> QED
      BY <1>1, <3>1, LatestNear DEF Near
  <2> DEFINE got == [load[c] EXCEPT !.btc = t]
  <2>2. /\ got \in LoadRec /\ got.now = load[c].now /\ got.btc = t /\ got.lb = load[c].lb
        /\ got.self = load[c].self /\ got.events = load[c].events
    BY <1>1 DEF LoadRec
  <2> HIDE DEF got
  <2>3. ReadSource(c, "btc", "joined", got)
    BY <1>5, <2>1 DEF ReadBTC, got
  <2> QED
    BY <1>1, <1>2, <2>1, <2>2, <2>3 DEF LoadNear, Near, Reading
<1>6. CASE ReadLookback(c)
  <2>1. PICK v \in Lookbacks \cup {DefaultLookback} :
          load' = [load EXCEPT ![c] = [@ EXCEPT !.pc = "self", !.lb = v]]
    BY <1>6 DEF ReadLookback
  <2> DEFINE l == [load[c] EXCEPT !.pc = "self", !.lb = v]
  <2>2. l \in LoadRec
    BY <1>1 DEF LoadRec, Reading
  <2>3. /\ l.pc = "self" /\ l.now = load[c].now /\ l.self = load[c].self /\ l.btc = load[c].btc
        /\ l.events = load[c].events
    BY <1>1 DEF LoadRec
  <2>4. load' = [load EXCEPT ![c] = l]
    BY <2>1
  <2> HIDE DEF l
  <2>5. load[c].pc = "lookback" /\ UNCHANGED <<xt, events, feed, perp, poll, cache, mkt>>
    BY <1>6 DEF ReadLookback
  <2>6. l.self = Never /\ l.btc = Never
    BY <1>1, <2>3, <2>5 DEF LoadNear
  <2>7. Near(l.self, l) /\ Near(l.btc, l) /\ \A r \in l.events : r.at \in (l.now - Around)..(l.now + Around)
    BY <1>1, <2>3, <2>6 DEF Near, LoadNear
  <2> QED
    BY <2>2, <2>3, <2>4, <2>5, <2>6, <2>7, ReadingKeeps DEF Reading
<1> QED
  BY <1>3, <1>4, <1>5, <1>6 DEF LoadStep

LEMMA JoinKeeps == ASSUME ContextInv, NEW c \in Scorings, Join(c) PROVE ContextInv'
<1>1. /\ load[c].pc = "joined" /\ mkt[c].pc = "done" /\ load' = [load EXCEPT ![c].pc = "prompt"]
      /\ UNCHANGED <<xt, events, feed, perp, poll, cache, mkt>>
      /\ load \in [Scorings -> LoadRec]
  BY DEF Join, ContextInv, ContextRecords
<1>2. PICK l \in LoadRec : /\ l = [load[c] EXCEPT !.pc = "prompt"] /\ l.pc = "prompt"
                           /\ l.now = load[c].now /\ l.self = load[c].self
                           /\ l.btc = load[c].btc /\ l.events = load[c].events /\ l.lb = load[c].lb
  BY <1>1 DEF LoadRec
<1>3. /\ load' \in [Scorings -> LoadRec] /\ load'[c] = l
      /\ \A d \in Scorings : d # c => load'[d] = load[d]
  BY <1>1, <1>2
<1>4. ASSUME NEW d \in Scorings PROVE LoadAges(d)' /\ LoadNear(d)'
  BY <1>1, <1>2, <1>3 DEF ContextInv, LoadAges, LoadNear, Near
<1> QED
  BY <1>1, <1>3, <1>4 DEF ContextInv, ContextRecords, EntryAges, CallAges

LEMMA PromptedKeeps == ASSUME ContextInv, NEW c \in Scorings, Prompted(c) PROVE ContextInv'
<1>1. /\ load' = [load EXCEPT ![c] = IdleLoad] /\ mkt' = [mkt EXCEPT ![c] = IdleCall]
      /\ UNCHANGED <<xt, events, feed, perp, poll, cache>>
      /\ load \in [Scorings -> LoadRec] /\ mkt \in [Callers -> CallRec] /\ xt \in Times
  BY DEF Prompted, ContextInv, ContextRecords
<1>2. /\ load' \in [Scorings -> LoadRec] /\ load'[c] = IdleLoad
      /\ \A d \in Scorings : d # c => load'[d] = load[d]
      /\ mkt' \in [Callers -> CallRec] /\ mkt'[c] = IdleCall
      /\ \A d \in Callers : d # c => mkt'[d] = mkt[d]
  BY <1>1, IdleContextRecs, ContextCallers
<1>3. ASSUME NEW d \in Scorings PROVE LoadAges(d)' /\ LoadNear(d)'
  <2>1. CASE d = c
    BY <1>2, <2>1, IdleContextRecs DEF LoadAges, LoadNear, Near
  <2>2. CASE d # c
    BY <1>1, <1>2, <2>2, ContextCallers DEF ContextInv, LoadAges, LoadNear, Near
  <2> QED
    BY <2>1, <2>2
<1>4. ASSUME NEW d \in Callers PROVE CallAges(d)'
  <2>1. CASE d = c
    BY <1>1, <1>2, <2>1, IdleContextRecs, ContextBounds DEF CallAges, Never
  <2>2. CASE d # c
    BY <1>1, <1>2, <2>2 DEF ContextInv, CallAges
  <2> QED
    BY <2>1, <2>2
<1> QED
  BY <1>1, <1>2, <1>3, <1>4 DEF ContextInv, ContextRecords, EntryAges

LEMMA ContextStep == ASSUME ContextInv, [ContextNext]_contextVars PROVE ContextInv'
<1>1. CASE UNCHANGED contextVars
  BY <1>1 DEF contextVars, ContextInv, ContextRecords, EntryAges, CallAges, LoadAges, LoadNear, Near
<1>2. CASE LoadNext
  BY <1>2, ContextTickKeeps, FetchCandlesKeeps, AssembleKeeps, LoadStepKeeps, JoinKeeps, PromptedKeeps
  DEF LoadNext
<1> QED
  BY <1>1, <1>2, PerpKeeps, CalendarKeeps DEF ContextNext, MarketNext, CalendarNext

LEMMA ContextTypes == ASSUME ContextInv PROVE ContextTypeOK
<1>1. /\ xt \in Times /\ perp \in [Polled -> TimeOrNever]
      /\ poll \in [pc : {"idle", "sym", "price"}, todo : SUBSET Polled, at : Times]
      /\ cache \in [Polled -> CacheRec]
  BY DEF ContextInv, ContextRecords
<1>2. \A c \in Callers : mkt[c].pc \in {"idle", "fetch", "done"} /\ mkt[c].asof <= xt
  BY DEF ContextInv, ContextRecords, CallRec, CallAges
<1>3. \A c \in Scorings :
        /\ load[c].pc \in {"idle", "events", "lookback", "self", "btc", "joined", "prompt"}
        /\ load[c].lb \in Lookbacks \cup {DefaultLookback}
  BY DEF ContextInv, ContextRecords, LoadRec, Reading
<1> QED
  BY <1>1, <1>2, <1>3 DEF ContextTypeOK, TimeOrNever, CacheRec

LEMMA FreshWhenPrompted == ASSUME ContextInv PROVE ContextFresh
<1> SUFFICES ASSUME NEW c \in Scorings, load[c].pc = "prompt"
    PROVE  /\ mkt[c].asof # Never =>
                xt - mkt[c].asof <= ProcessTime + mkt[c].took + (IF TTL > 0 THEN TTL - 1 ELSE 0)
           /\ \A t \in {load[c].self, load[c].btc} \ {Never} :
                xt - t < (load[c].lb + 1) * Minute + ProcessTime
           /\ \A r \in load[c].events : r.at \in (xt - Around - ProcessTime)..(xt + Around)
  BY DEF ContextFresh
<1>1. /\ load[c] \in LoadRec /\ mkt[c] \in CallRec /\ LoadAges(c) /\ LoadNear(c) /\ xt \in Times
  BY ContextCallers DEF ContextInv, ContextRecords
<1>2. /\ load[c].now \in Times /\ load[c].now <= xt /\ xt - load[c].now <= ProcessTime
      /\ mkt[c].asof # Never => load[c].now - mkt[c].asof <= CachedFor + mkt[c].took
  BY <1>1 DEF LoadRec, LoadAges
<1>3. mkt[c].asof # Never => xt - mkt[c].asof <= ProcessTime + mkt[c].took + CachedFor
  <2>1. mkt[c].asof \in TimeOrNever /\ mkt[c].took \in Times
    BY <1>1 DEF CallRec
  <2> QED
    BY <1>1, <1>2, <2>1, ContextBounds
<1>4. CachedFor = IF TTL > 0 THEN TTL - 1 ELSE 0
  BY DEF CachedFor
<1>5. ASSUME NEW t \in {load[c].self, load[c].btc} \ {Never}
      PROVE  xt - t < (load[c].lb + 1) * Minute + ProcessTime
  <2>1. t \in Times /\ load[c].now - t < (load[c].lb + 1) * Minute
    BY <1>1, <1>5, ContextBounds DEF LoadRec, LoadNear, Near
  <2>2. PICK m \in Nat : m = (load[c].lb + 1) * Minute
    BY <1>1, ContextBounds DEF LoadRec
  <2> QED
    BY <1>1, <1>2, <2>1, <2>2, ContextBounds
<1>6. ASSUME NEW r \in load[c].events PROVE r.at \in (xt - Around - ProcessTime)..(xt + Around)
  <2>1. r.at \in {2, 3} /\ r.at \in (load[c].now - Around)..(load[c].now + Around)
    BY <1>1, <1>6 DEF LoadRec, LoadNear
  <2> QED
    BY <1>1, <1>2, <2>1, ContextBounds
<1> QED
  BY <1>3, <1>4, <1>5, <1>6

(* What a prompt says of the world is no older than its parts may be, for  *)
(* any number of signals scored at once, however their misses overwrite    *)
(* each other's candles and whatever fails (GetContext of the provider,    *)
(* Load of the reader, assembleInput of the hook).                         *)
THEOREM PromptFresh == ContextSpec => []ContextFresh
<1> QED
  BY ContextStarts, ContextStep, FreshWhenPrompted, PTL DEF ContextSpec
----------------------------------------------------------------------------
(* Scoring.                                                                *)

Entry == [at : Nat, ok : BOOLEAN]
SetRec == [on : BOOLEAN, dry : BOOLEAN, closed : BOOLEAN, threshold : 0..100, key : BOOLEAN]
ResRec == [score : -1..100, decision : {"", "failed"}]
SigRec ==
  [pc : {"new", "score", "health", "alert", "verdict", "done"}, set : SetRec, res : ResRec,
   bad : 0..ScoreTime, action : {"", "trade", "abandon"}]
RowRec == [score : -1..100, decision : {"", "failed", "approve", "abandon"}]
CallOf == [by : Signals, at : 0..ScoreTime, ok : BOOLEAN]
AlertOf == [kind : {"llm", "key"}, at : 0..ScoreTime, by : Signals, seen : 0..ScoreTime]

ScoringRecords ==
  /\ st \in 0..ScoreTime /\ sset \in SettingsRow
  /\ sg \in [Signals -> SigRec] /\ sigRow \in [Signals -> RowRec]
  /\ entries \in Seq(Entry) /\ calls \subseteq CallOf /\ IsFiniteSet(calls)
  /\ lastSent \in [llm : Int, key : Int] /\ alerts \subseteq AlertOf

(* The tracker's entries are in the order of their times and none of them  *)
(* is of the future; they are the calls since some time before the window. *)
Sorted(es) == \A i, j \in 1..Len(es) : i <= j => es[i].at <= es[j].at
NoneLater(es, t) == \A i \in 1..Len(es) : es[i].at <= t
Enumerates(f, es, C) ==
  /\ f \in [1..Len(es) -> C]
  /\ \A i, j \in 1..Len(es) : f[i] = f[j] => i = j
  /\ \A c \in C : \E i \in 1..Len(es) : f[i] = c
  /\ \A i \in 1..Len(es) : es[i].at = f[i].at /\ es[i].ok = f[i].ok
Enumerated(es, C) == \E f : Enumerates(f, es, C)
Since(C, k) == {c \in C : c.at >= k}
Tracked == \E k \in Int : k <= st - HealthWindow /\ Enumerated(entries, Since(calls, k))

(* No call is of the future, or of a signal that has not yet been scored.  *)
CallsPast == \A c \in calls : c.at <= st /\ sg[c.by].pc \notin {"new", "score"}

(* The throttle holds the time of the latest alert, or a later one.        *)
Throttled ==
  /\ lastSent.llm <= st /\ lastSent.key <= st
  /\ \A a \in alerts : a.at <= st /\ a.at <= lastSent[a.kind]
  /\ \A a, b \in alerts : a # b /\ a.kind = b.kind =>
       LET gap == IF a.at > b.at THEN a.at - b.at ELSE b.at - a.at
       IN gap >= IF a.kind = "llm" THEN AlertEvery ELSE KeyAlertEvery
ForCause ==
  /\ \A a \in alerts : a.kind = "llm" => Justified(a.seen)
  /\ \A s \in Signals : sg[s].pc = "alert" => Justified(sg[s].bad)

ScoringInv ==
  /\ ScoringRecords /\ Sorted(entries) /\ NoneLater(entries, st) /\ Tracked
  /\ CallsPast /\ Throttled /\ ForCause

LEMMA ScoringBounds ==
  /\ Thresholds \subseteq 0..100 /\ Scores \subseteq Int
  /\ HealthWindow \in Nat /\ MinFailures \in Nat /\ AlertEvery \in Nat /\ KeyAlertEvery \in Nat
  /\ ScoreTime \in Nat /\ 0 \in 0..ScoreTime
BY ScoringAssumption

(* What is enumerated has as many members as the sequence, and as many of  *)
(* them are failures.                                                      *)
LEMMA CountedBy ==
  ASSUME NEW S, IsFiniteSet(S), NEW T, NEW f \in [S -> T],
         \A i, j \in S : f[i] = f[j] => i = j, \A t \in T : \E i \in S : f[i] = t
  PROVE  IsFiniteSet(T) /\ Cardinality(T) = Cardinality(S)
<1>1. f \in Bijection(S, T)
  BY DEF Bijection, Injection, IsInjective, Surjection
<1>2. ExistsBijection(S, T)
  BY <1>1 DEF ExistsBijection
<1> QED
  BY <1>2, FS_Bijection

LEMMA EnumeratedCounts ==
  ASSUME NEW es \in Seq(Entry), NEW C, Enumerated(es, C)
  PROVE  /\ IsFiniteSet(C) /\ Cardinality(C) = Len(es)
         /\ Failures(es) = Cardinality({c \in C : ~c.ok})
<1>1. PICK f : Enumerates(f, es, C)
  BY DEF Enumerated
<1>2. IsFiniteSet(1..Len(es)) /\ Cardinality(1..Len(es)) = Len(es)
  <2>1. Len(es) \in Nat
    OBVIOUS
  <2> QED
    BY <2>1, FS_Interval
<1>3. IsFiniteSet(C) /\ Cardinality(C) = Len(es)
  <2>1. /\ f \in [1..Len(es) -> C] /\ \A i, j \in 1..Len(es) : f[i] = f[j] => i = j
        /\ \A c \in C : \E i \in 1..Len(es) : f[i] = c
    BY <1>1 DEF Enumerates
  <2>2. IsFiniteSet(C) /\ Cardinality(C) = Cardinality(1..Len(es))
    BY <1>2, <2>1, CountedBy
  <2> QED
    BY <1>2, <2>2
<1> DEFINE F == {i \in 1..Len(es) : ~es[i].ok}
           G == {c \in C : ~c.ok}
           g == [i \in F |-> f[i]]
<1>4. IsFiniteSet(F)
  BY <1>2, FS_Subset
<1>5. g \in [F -> G]
  BY <1>1 DEF Enumerates
<1>6. \A i, j \in F : g[i] = g[j] => i = j
  BY <1>1 DEF Enumerates
<1>7. \A c \in G : \E i \in F : g[i] = c
  BY <1>1 DEF Enumerates
<1>8. Cardinality(G) = Cardinality(F)
  <2> HIDE DEF F, G, g
  <2> QED
    BY <1>4, <1>5, <1>6, <1>7, CountedBy
<1> QED
  BY <1>3, <1>8 DEF Failures

(* Eviction: the first entry that is young enough, and what is left.       *)
LEMMA FirstYoungIs ==
  ASSUME NEW es \in Seq(Entry)
  PROVE  /\ FirstYoung(es) \in 1..(Len(es) + 1)
         /\ \A j \in 1..(FirstYoung(es) - 1) : ~Young(es[j])
         /\ FirstYoung(es) <= Len(es) => Young(es[FirstYoung(es)])
<1> DEFINE T == {i \in 1..(Len(es) + 1) : i <= Len(es) => Young(es[i])}
<1>1. Len(es) \in Nat
  OBVIOUS
<1>2. T \in SUBSET Nat /\ T # {}
  <2>1. Len(es) + 1 \in T
    BY <1>1
  <2> QED
    BY <1>1, <2>1
<1>3. PICK m \in T : \A n \in T : m <= n
  <2> HIDE DEF T
  <2> QED
    BY <1>2, LeastNatural
<1>4. ASSUME NEW j \in 1..(m - 1), Young(es[j]) PROVE FALSE
  <2>1. j \in T /\ j < m
    BY <1>1, <1>3, <1>4
  <2> QED
    BY <1>1, <1>3, <2>1
<1>5. \E i \in 1..(Len(es) + 1) :
        (\A j \in 1..(i - 1) : ~Young(es[j])) /\ (i <= Len(es) => Young(es[i]))
  BY <1>3, <1>4
<1> QED
  BY <1>5 DEF FirstYoung

LEMMA EvictedIs ==
  ASSUME NEW es \in Seq(Entry)
  PROVE  /\ Evicted(es) \in Seq(Entry)
         /\ Len(Evicted(es)) = Len(es) + 1 - FirstYoung(es)
         /\ \A i \in 1..Len(Evicted(es)) : Evicted(es)[i] = es[FirstYoung(es) + i - 1]
<1>1. PICK n \in 1..(Len(es) + 1) : n = FirstYoung(es)
  BY FirstYoungIs
<1>2. Len(es) \in Nat /\ n \in Int /\ \A i \in n..Len(es) : es[i] \in Entry
  OBVIOUS
<1>3. Evicted(es) = SubSeq(es, n, Len(es))
  BY <1>1 DEF Evicted
<1>4. /\ Evicted(es) \in Seq(Entry)
      /\ Len(Evicted(es)) = IF n <= Len(es) THEN Len(es) - n + 1 ELSE 0
      /\ \A i \in 1..(Len(es) - n + 1) : Evicted(es)[i] = es[n + i - 1]
  BY <1>2, <1>3, SubSeqProperties
<1>5. Len(Evicted(es)) = Len(es) + 1 - n
  BY <1>2, <1>4
<1>6. Len(es) - n + 1 = Len(es) + 1 - n
  BY <1>2
<1> QED
  BY <1>1, <1>4, <1>5, <1>6

LEMMA EvictedKeeps ==
  ASSUME NEW es \in Seq(Entry), Sorted(es), NoneLater(es, st), st \in Nat,
         NEW C, NEW k \in Int, k <= st - HealthWindow, \A c \in C : c.at \in Nat,
         Enumerated(es, Since(C, k))
  PROVE  /\ Evicted(es) \in Seq(Entry) /\ Sorted(Evicted(es)) /\ NoneLater(Evicted(es), st)
         /\ Enumerated(Evicted(es), Since(C, st - HealthWindow))
<1>1. PICK n \in Nat : n = FirstYoung(es) /\ n >= 1 /\ n <= Len(es) + 1
  BY FirstYoungIs
<1> DEFINE ev == Evicted(es)
           low == st - HealthWindow
<1>2. /\ ev \in Seq(Entry) /\ Len(ev) = Len(es) + 1 - n /\ Len(es) \in Nat /\ Len(ev) \in Nat
      /\ \A i \in 1..Len(ev) : ev[i] = es[n + i - 1]
  BY <1>1, EvictedIs
<1>3. low \in Int /\ k <= low
  BY ScoringBounds
<1>4. \A i \in 1..Len(ev) : n + i - 1 \in 1..Len(es)
  BY <1>1, <1>2
<1>5. \A i \in 1..Len(es) : es[i].at \in Nat
  <2>1. \A i \in 1..Len(es) : es[i] \in Entry
    OBVIOUS
  <2> QED
    BY <2>1 DEF Entry
<1>6. \A i \in 1..Len(es) : i >= n => es[i].at >= low
  <2> SUFFICES ASSUME NEW i \in 1..Len(es), i >= n PROVE es[i].at >= low
    OBVIOUS
  <2>1. n \in 1..Len(es)
    BY <1>1
  <2>2. es[n].at >= low
    BY <1>1, <2>1, FirstYoungIs DEF Young
  <2>3. es[n].at <= es[i].at
    BY <2>1 DEF Sorted
  <2> QED
    BY <1>3, <1>5, <2>1, <2>2, <2>3
<1>7. \A i \in 1..Len(es) : i < n => ~(es[i].at >= low)
  <2>1. \A i \in 1..Len(es) : i < n => i \in 1..(n - 1)
    BY <1>1
  <2> QED
    BY <1>1, <2>1, FirstYoungIs DEF Young
<1> HIDE DEF ev, low
<1>8. Sorted(ev) /\ NoneLater(ev, st)
  <2>1. ASSUME NEW i \in 1..Len(ev), NEW j \in 1..Len(ev), i <= j PROVE ev[i].at <= ev[j].at
    <3>1. n + i - 1 \in 1..Len(es) /\ n + j - 1 \in 1..Len(es) /\ n + i - 1 <= n + j - 1
      BY <1>1, <1>2, <1>4, <2>1
    <3> QED
      BY <1>2, <3>1 DEF Sorted
  <2>2. ASSUME NEW i \in 1..Len(ev) PROVE ev[i].at <= st
    BY <1>2, <1>4 DEF NoneLater
  <2> QED
    BY <2>1, <2>2 DEF Sorted, NoneLater
<1>9. PICK f : Enumerates(f, es, Since(C, k))
  BY DEF Enumerated
<1> DEFINE g == [i \in 1..Len(ev) |-> f[n + i - 1]]
<1>10. g \in [1..Len(ev) -> Since(C, low)]
  <2> SUFFICES ASSUME NEW i \in 1..Len(ev) PROVE f[n + i - 1] \in Since(C, low)
    OBVIOUS
  <2>1. PICK j \in 1..Len(es) : j = n + i - 1 /\ j >= n
    BY <1>1, <1>2, <1>4
  <2>2. f[j] \in C /\ es[j].at = f[j].at
    BY <1>9 DEF Enumerates, Since
  <2> QED
    BY <1>6, <2>1, <2>2 DEF Since
<1>11. \A i, j \in 1..Len(ev) : g[i] = g[j] => i = j
  <2> SUFFICES ASSUME NEW i \in 1..Len(ev), NEW j \in 1..Len(ev), f[n + i - 1] = f[n + j - 1]
      PROVE  i = j
    OBVIOUS
  <2>1. n + i - 1 = n + j - 1
    BY <1>4, <1>9 DEF Enumerates
  <2> QED
    BY <1>1, <1>2, <2>1
<1>12. ASSUME NEW c \in Since(C, low) PROVE \E i \in 1..Len(ev) : g[i] = c
  <2>1. c \in Since(C, k) /\ c.at >= low
    BY <1>3 DEF Since
  <2>2. PICK j \in 1..Len(es) : f[j] = c
    BY <1>9, <2>1 DEF Enumerates
  <2>3. j >= n
    <3>1. es[j].at = c.at
      BY <1>9, <2>2 DEF Enumerates
    <3> QED
      BY <1>1, <1>7, <2>1, <3>1
  <2>4. PICK i \in 1..Len(ev) : n + i - 1 = j
    <3>1. j + 1 - n \in 1..Len(ev) /\ n + (j + 1 - n) - 1 = j
      <4>1. PICK L \in Nat : L = Len(es)
        OBVIOUS
      <4>2. Len(ev) = L + 1 - n /\ j \in Nat /\ j <= L
        BY <1>2, <4>1
      <4>3. j + 1 - n \in 1..(L + 1 - n) /\ n + (j + 1 - n) - 1 = j
        BY <1>1, <2>3, <4>2
      <4> QED
        BY <4>2, <4>3
    <3> QED
      BY <3>1
  <2>5. g[i] = f[n + i - 1]
    OBVIOUS
  <2> QED
    BY <2>2, <2>4, <2>5
<1>13. \A i \in 1..Len(ev) : ev[i].at = g[i].at /\ ev[i].ok = g[i].ok
  BY <1>2, <1>4, <1>9 DEF Enumerates
<1>14. Enumerates(g, ev, Since(C, low))
  BY <1>10, <1>11, <1>12, <1>13 DEF Enumerates
<1>15. Enumerated(ev, Since(C, low))
  BY <1>14 DEF Enumerated
<1> QED
  BY <1>2, <1>8, <1>15 DEF ev, low

LEMMA AppendedEnumerates ==
  ASSUME NEW es \in Seq(Entry), NEW C, NEW k \in Int, Enumerated(es, Since(C, k)),
         NEW c, c \notin C, c.at >= k, NEW e \in Entry, e.at = c.at, e.ok = c.ok
  PROVE  Enumerated(Append(es, e), Since(C \cup {c}, k))
<1>1. PICK f : Enumerates(f, es, Since(C, k))
  BY DEF Enumerated
<1>2. PICK n \in Nat : n = Len(es)
  OBVIOUS
<1> DEFINE ap == Append(es, e)
           g == [i \in 1..(n + 1) |-> IF i = n + 1 THEN c ELSE f[i]]
<1>3. Len(ap) = n + 1 /\ ap[n + 1] = e /\ \A i \in 1..n : ap[i] = es[i]
  BY <1>2
<1>4. \A i \in 1..(n + 1) : i # n + 1 => i \in 1..n
  BY <1>2
<1>5. Since(C \cup {c}, k) = Since(C, k) \cup {c}
  BY DEF Since
<1>6. /\ f \in [1..n -> Since(C, k)]
      /\ \A i, j \in 1..n : f[i] = f[j] => i = j
      /\ \A d \in Since(C, k) : \E i \in 1..n : f[i] = d
      /\ \A i \in 1..n : es[i].at = f[i].at /\ es[i].ok = f[i].ok
  BY <1>1, <1>2 DEF Enumerates
<1>7. \A i \in 1..n : i \in 1..(n + 1) /\ g[i] = f[i] /\ f[i] # c
  <2>1. \A i \in 1..n : f[i] \in C
    BY <1>6 DEF Since
  <2> QED
    BY <1>2, <2>1
<1>8. n + 1 \in 1..(n + 1) /\ g[n + 1] = c
  BY <1>2
<1>9. g \in [1..(n + 1) -> Since(C, k) \cup {c}]
  BY <1>4, <1>6
<1> HIDE DEF g, ap
<1>10. ASSUME NEW i \in 1..(n + 1), NEW j \in 1..(n + 1), g[i] = g[j] PROVE i = j
  <2>1. i # n + 1 => i \in 1..n /\ g[i] = f[i] /\ f[i] # c
    BY <1>4, <1>7
  <2>2. j # n + 1 => j \in 1..n /\ g[j] = f[j] /\ f[j] # c
    BY <1>4, <1>7
  <2>3. CASE i # n + 1 /\ j # n + 1
    BY <1>6, <1>10, <2>1, <2>2, <2>3
  <2> QED
    BY <1>8, <1>10, <2>1, <2>2, <2>3
<1>11. \A d \in Since(C, k) \cup {c} : \E i \in 1..(n + 1) : g[i] = d
  BY <1>6, <1>7, <1>8
<1>12. \A i \in 1..(n + 1) : ap[i].at = g[i].at /\ ap[i].ok = g[i].ok
  BY <1>3, <1>4, <1>6, <1>7, <1>8
<1>13. Enumerates(g, ap, Since(C, k) \cup {c})
  BY <1>3, <1>9, <1>10, <1>11, <1>12 DEF Enumerates
<1> QED
  BY <1>5, <1>13 DEF Enumerated, ap

LEMMA AppendedSorted ==
  ASSUME NEW es \in Seq(Entry), Sorted(es), NEW t \in Nat, NoneLater(es, t),
         NEW e \in Entry, e.at = t
  PROVE  Append(es, e) \in Seq(Entry) /\ Sorted(Append(es, e)) /\ NoneLater(Append(es, e), t)
<1>1. PICK n \in Nat : n = Len(es)
  OBVIOUS
<1> DEFINE ap == Append(es, e)
<1>2. ap \in Seq(Entry) /\ Len(ap) = n + 1 /\ ap[n + 1] = e /\ \A i \in 1..n : ap[i] = es[i]
  BY <1>1
<1>3. \A i \in 1..(n + 1) : i # n + 1 => i \in 1..n
  BY <1>1
<1> HIDE DEF ap
<1>4. ASSUME NEW i \in 1..(n + 1) PROVE ap[i].at <= t
  <2>1. CASE i = n + 1
    BY <1>2, <2>1
  <2>2. CASE i # n + 1
    BY <1>1, <1>2, <1>3, <2>2 DEF NoneLater
  <2> QED
    BY <2>1, <2>2
<1>5. ASSUME NEW i \in 1..(n + 1), NEW j \in 1..(n + 1), i <= j PROVE ap[i].at <= ap[j].at
  <2>1. CASE j = n + 1
    BY <1>2, <1>4, <2>1
  <2>2. CASE j # n + 1
    <3>1. i # n + 1
      BY <1>1, <1>3, <1>5, <2>2
    <3> QED
      BY <1>1, <1>2, <1>3, <1>5, <2>2, <3>1 DEF Sorted
  <2> QED
    BY <2>1, <2>2
<1> QED
  BY <1>2, <1>4, <1>5 DEF Sorted, NoneLater, ap

(* A call that is recorded: the tracker then has the calls of the window.  *)
LEMMA RecordTracks ==
  ASSUME ScoringInv, NEW s \in Signals, NEW ok \in BOOLEAN, sg[s].pc = "score", Record(s, ok)
  PROVE  /\ calls' \subseteq CallOf /\ IsFiniteSet(calls') /\ calls \subseteq calls'
         /\ \A c \in calls' \ calls : c.by = s /\ c.at = st
         /\ entries' \in Seq(Entry) /\ Sorted(entries') /\ NoneLater(entries', st)
         /\ Enumerated(entries', Since(calls', st - HealthWindow))
<1> DEFINE c == [by |-> s, at |-> st, ok |-> ok]
           e == [at |-> st, ok |-> ok]
<1>1. /\ entries \in Seq(Entry) /\ Sorted(entries) /\ NoneLater(entries, st) /\ st \in 0..ScoreTime
      /\ calls \subseteq CallOf /\ IsFiniteSet(calls) /\ st \in Nat /\ HealthWindow \in Nat
  BY ScoringBounds DEF ScoringInv, ScoringRecords
<1>2. calls' = calls \cup {c} /\ entries' = Evicted(Append(entries, e))
  BY DEF Record
<1>3. c \in CallOf /\ e \in Entry /\ c.by = s /\ c.at = st /\ e.at = st /\ e.ok = c.ok
  BY <1>1 DEF CallOf, Entry
<1> HIDE DEF c, e
<1>4. c \notin calls
  BY <1>3 DEF ScoringInv, CallsPast
<1>5. PICK k \in Int : k <= st - HealthWindow /\ Enumerated(entries, Since(calls, k))
  BY DEF ScoringInv, Tracked
<1>6. Append(entries, e) \in Seq(Entry) /\ Sorted(Append(entries, e)) /\ NoneLater(Append(entries, e), st)
  BY <1>1, <1>3, AppendedSorted
<1>7. Enumerated(Append(entries, e), Since(calls', k))
  <2>1. c.at >= k
    BY <1>1, <1>3, <1>5
  <2> QED
    BY <1>1, <1>2, <1>3, <1>4, <1>5, <2>1, AppendedEnumerates
<1>8. calls' \subseteq CallOf /\ IsFiniteSet(calls')
  BY <1>1, <1>2, <1>3, FS_AddElement
<1>9. \A d \in calls' : d.at \in Nat
  BY <1>8, ScoringBounds DEF CallOf
<1> QED
  BY <1>1, <1>2, <1>3, <1>5, <1>6, <1>7, <1>8, <1>9, EvictedKeeps

(* Once evicted the tracker counts the calls of the window.                *)
LEMMA EvictedCounts ==
  ASSUME ScoringInv
  PROVE  /\ Evicted(entries) \in Seq(Entry) /\ Sorted(Evicted(entries)) /\ NoneLater(Evicted(entries), st)
         /\ Enumerated(Evicted(entries), Since(calls, st - HealthWindow))
         /\ Len(Evicted(entries)) = Cardinality(Within(st))
         /\ Failures(Evicted(entries)) = Cardinality({c \in Within(st) : ~c.ok})
<1>1. /\ entries \in Seq(Entry) /\ Sorted(entries) /\ NoneLater(entries, st) /\ st \in Nat
      /\ \A c \in calls : c.at \in Nat /\ c.at <= st
  BY ScoringBounds DEF ScoringInv, ScoringRecords, CallsPast, CallOf
<1>2. PICK k \in Int : k <= st - HealthWindow /\ Enumerated(entries, Since(calls, k))
  BY DEF ScoringInv, Tracked
<1>3. /\ Evicted(entries) \in Seq(Entry) /\ Sorted(Evicted(entries)) /\ NoneLater(Evicted(entries), st)
      /\ Enumerated(Evicted(entries), Since(calls, st - HealthWindow))
  BY <1>1, <1>2, EvictedKeeps
<1>4. Within(st) = Since(calls, st - HealthWindow)
  BY <1>1, ScoringBounds DEF Within, Since
<1> QED
  BY <1>3, <1>4, EnumeratedCounts

LEMMA JustifiedStays ==
  ASSUME calls \subseteq calls', IsFiniteSet(calls'), NEW t \in Int, Justified(t)
  PROVE  Justified(t)'
<1> DEFINE F == {c \in Within(t) : ~c.ok}
           G == {c \in Within(t)' : ~c.ok}
<1>1. F \subseteq G /\ G \subseteq calls'
  BY DEF Within
<1>2. IsFiniteSet(G)
  <2> HIDE DEF F, G
  <2> QED
    BY <1>1, FS_Subset
<1>3. IsFiniteSet(F) /\ Cardinality(F) <= Cardinality(G)
  <2> HIDE DEF F, G
  <2> QED
    BY <1>1, <1>2, FS_Subset
<1>4. Cardinality(F) \in Nat /\ Cardinality(G) \in Nat
  <2> HIDE DEF F, G
  <2> QED
    BY <1>2, <1>3, FS_CardinalityType
<1>5. Cardinality(F) >= MinFailures
  BY DEF Justified
<1>6. Cardinality(G) >= MinFailures
  <2> HIDE DEF F, G
  <2> QED
    BY <1>3, <1>4, <1>5, ScoringBounds
<1> QED
  BY <1>6 DEF Justified, Within

LEMMA ScoringStarts == ASSUME ScoringInit PROVE ScoringInv
<1>1. 0 \in 0..ScoreTime /\ ScoreTime \in Nat /\ HealthWindow \in Nat
  BY ScoringBounds
<1>2. [pc |-> "new", set |-> Off, res |-> NoResult, bad |-> 0, action |-> ""] \in SigRec
  BY <1>1 DEF SigRec, SetRec, ResRec, Off, NoResult
<1>3. NoResult \in RowRec
  BY DEF NoResult, RowRec
<1>4. /\ st = 0 /\ entries = <<>> /\ calls = {} /\ alerts = {} /\ sset \in SettingsRow
      /\ lastSent = [llm |-> LongAgo, key |-> LongAgo]
      /\ sg = [s \in Signals |-> [pc |-> "new", set |-> Off, res |-> NoResult, bad |-> 0, action |-> ""]]
      /\ sigRow = [s \in Signals |-> NoResult]
  BY DEF ScoringInit
<1>5. ScoringRecords
  <2>1. entries \in Seq(Entry) /\ calls \subseteq CallOf /\ IsFiniteSet(calls) /\ alerts \subseteq AlertOf
    <3>1. <<>> \in Seq(Entry) /\ IsFiniteSet({})
      BY FS_EmptySet
    <3>2. entries = <<>> /\ calls = {} /\ alerts = {}
      BY <1>4
    <3> QED
      BY <3>1, <3>2
  <2>2. lastSent \in [llm : Int, key : Int]
    <3>1. LongAgo \in Int
      BY DEF LongAgo
    <3> QED
      BY <1>4, <3>1
  <2>3. sg \in [Signals -> SigRec] /\ sigRow \in [Signals -> RowRec]
    BY <1>2, <1>3, <1>4
  <2> QED
    BY <1>1, <1>4, <2>1, <2>2, <2>3 DEF ScoringRecords
<1>6. Len(entries) = 0
  BY <1>4
<1>7. Sorted(entries) /\ NoneLater(entries, st)
  BY <1>6 DEF Sorted, NoneLater
<1>8. Tracked
  <2>1. Since(calls, 0 - HealthWindow) = {}
    BY <1>4 DEF Since
  <2>2. Enumerates([i \in 1..0 |-> 0], entries, {})
    BY <1>6 DEF Enumerates
  <2>3. 0 - HealthWindow \in Int /\ 0 - HealthWindow <= st - HealthWindow
    <3>1. st = 0
      BY <1>4
    <3> QED
      BY <1>1, <3>1
  <2> QED
    BY <2>1, <2>2, <2>3 DEF Tracked, Enumerated
<1>9. CallsPast /\ Throttled /\ ForCause
  <2>1. calls = {} /\ alerts = {} /\ \A s \in Signals : sg[s].pc = "new"
    BY <1>4
  <2>2. lastSent.llm <= st /\ lastSent.key <= st
    <3>1. LongAgo <= 0
      BY DEF LongAgo
    <3>2. st = 0 /\ lastSent.llm = LongAgo /\ lastSent.key = LongAgo
      BY <1>4
    <3> QED
      BY <3>1, <3>2
  <2> QED
    BY <2>1, <2>2 DEF CallsPast, Throttled, ForCause
<1> QED
  BY <1>5, <1>7, <1>8, <1>9 DEF ScoringInv

(* A signal that moves on, with the calls and alerts of the step.          *)
LEMMA SignalMoves ==
  ASSUME ScoringInv, NEW s \in Signals, NEW r \in SigRec, sg' = [sg EXCEPT ![s] = r],
         r.pc \notin {"new", "score"} \/ sg[s].pc = "new",
         r.pc = "alert" => Justified(r.bad)', st' = st,
         calls \subseteq calls', IsFiniteSet(calls'), r.pc \in {"new", "score"} => calls' = calls,
         \A c \in calls' \ calls : c.by = s /\ c.at = st,
         \A a \in alerts' \ alerts : a.kind = "llm" => Justified(a.seen)'
  PROVE  sg' \in [Signals -> SigRec] /\ CallsPast' /\ ForCause'
<1>1. /\ sg \in [Signals -> SigRec] /\ calls \subseteq CallOf /\ st \in 0..ScoreTime /\ st \in Nat
      /\ alerts \subseteq AlertOf
  BY ScoringBounds DEF ScoringInv, ScoringRecords
<1>2. /\ sg' \in [Signals -> SigRec] /\ sg'[s] = r
      /\ \A q \in Signals : q # s => sg'[q] = sg[q]
  BY <1>1
<1>3. ASSUME NEW c \in calls' PROVE c.at <= st' /\ sg'[c.by].pc \notin {"new", "score"}
  <2>1. CASE c \in calls
    <3>1. c.by \in Signals /\ c.at <= st /\ sg[c.by].pc \notin {"new", "score"}
      BY <1>1, <2>1 DEF ScoringInv, CallsPast, CallOf
    <3> QED
      BY <1>2, <3>1
  <2>2. CASE c \notin calls
    BY <1>1, <1>2, <2>2
  <2> QED
    BY <2>1, <2>2
<1>4. \A t \in 0..ScoreTime : Justified(t) => Justified(t)'
  <2> SUFFICES ASSUME NEW t \in 0..ScoreTime, Justified(t) PROVE Justified(t)'
    OBVIOUS
  <2>1. t \in Int
    BY ScoringBounds
  <2> QED
    BY <2>1, JustifiedStays
<1>5. ASSUME NEW a \in alerts', a.kind = "llm" PROVE Justified(a.seen)'
  <2>1. CASE a \in alerts
    <3>1. a.seen \in 0..ScoreTime /\ Justified(a.seen)
      BY <1>1, <1>5, <2>1 DEF ScoringInv, ForCause, AlertOf
    <3> QED
      BY <1>4, <3>1
  <2> QED
    BY <1>5, <2>1
<1>6. ASSUME NEW q \in Signals PROVE (sg[q].pc = "alert" => Justified(sg[q].bad))'
  <2>1. CASE q = s
    <3>1. PICK t : t = r.bad
      OBVIOUS
    <3>2. sg'[q].pc = r.pc /\ sg'[q].bad = t /\ (r.pc = "alert" => Justified(t)')
      BY <1>2, <2>1, <3>1
    <3> QED
      BY <3>2 DEF Justified, Within
  <2>2. CASE q # s
    <3>1. sg'[q] = sg[q] /\ sg[q].bad \in 0..ScoreTime
      BY <1>1, <1>2, <2>2 DEF SigRec
    <3>2. PICK t \in 0..ScoreTime : t = sg[q].bad
      BY <3>1
    <3>3. sg'[q].pc = "alert" => Justified(t)'
      BY <1>4, <3>1, <3>2 DEF ScoringInv, ForCause
    <3>4. sg'[q].bad = t
      BY <3>1, <3>2
    <3> QED
      BY <3>3, <3>4 DEF Justified, Within
  <2> QED
    BY <2>1, <2>2
<1> QED
  BY <1>2, <1>3, <1>5, <1>6 DEF CallsPast, ForCause

(* An alert that is sent because the last one is long enough ago.          *)
LEMMA AlertKeeps ==
  ASSUME ScoringInv, NEW kind \in {"llm", "key"}, NEW s \in Signals, Alert(kind, s), st' = st,
         st - lastSent[kind] >= (IF kind = "llm" THEN AlertEvery ELSE KeyAlertEvery)
  PROVE  /\ lastSent' \in [llm : Int, key : Int] /\ alerts' \subseteq AlertOf /\ Throttled'
         /\ \A a \in alerts' \ alerts : a.kind = kind /\ a.seen = sg[s].bad
<1> DEFINE new == [kind |-> kind, at |-> st, by |-> s, seen |-> sg[s].bad]
           every == IF kind = "llm" THEN AlertEvery ELSE KeyAlertEvery
<1>1. /\ lastSent \in [llm : Int, key : Int] /\ alerts \subseteq AlertOf /\ st \in 0..ScoreTime /\ st \in Nat
      /\ sg[s].bad \in 0..ScoreTime /\ every \in Nat /\ Throttled
  <2>1. sg[s] \in SigRec /\ every \in Nat /\ st \in 0..ScoreTime /\ ScoreTime \in Nat
    BY ScoringBounds DEF ScoringInv, ScoringRecords
  <2>2. sg[s].bad \in 0..ScoreTime
    BY <2>1 DEF SigRec
  <2> QED
    BY <2>1, <2>2 DEF ScoringInv, ScoringRecords
<1>2. /\ new \in AlertOf /\ new.kind = kind /\ new.at = st /\ new.seen = sg[s].bad
  BY <1>1 DEF AlertOf
<1>3. lastSent' = [lastSent EXCEPT ![kind] = st] /\ alerts' = alerts \cup {new}
  BY DEF Alert, Told
<1> HIDE DEF new
<1>4. /\ lastSent' \in [llm : Int, key : Int] /\ lastSent'[kind] = st
      /\ \A other \in {"llm", "key"} : other # kind => lastSent'[other] = lastSent[other]
  BY <1>1, <1>3
<1>5. lastSent'.llm <= st /\ lastSent'.key <= st
  <2>1. \A other \in {"llm", "key"} : lastSent'[other] <= st
    BY <1>1, <1>4 DEF Throttled
  <2> QED
    BY <2>1
<1>6. \A a \in alerts : a.at \in Nat /\ a.kind \in {"llm", "key"} /\ a.at <= st /\ a.at <= lastSent[a.kind]
                          /\ lastSent[a.kind] \in Int
  BY <1>1, ScoringBounds DEF AlertOf, Throttled
<1>7. ASSUME NEW a \in alerts' PROVE a.at <= st /\ a.at <= lastSent'[a.kind]
  <2>1. CASE a \in alerts
    BY <1>1, <1>4, <1>6, <2>1
  <2>2. CASE a = new
    BY <1>1, <1>2, <1>4, <2>2
  <2> QED
    BY <1>3, <2>1, <2>2
<1>8. \A a \in alerts : a.kind = kind => st - a.at >= every /\ a.at <= st
  BY <1>1, <1>6
<1>9. ASSUME NEW a \in alerts', NEW b \in alerts', a # b, a.kind = b.kind
      PROVE  (IF a.at > b.at THEN a.at - b.at ELSE b.at - a.at)
               >= IF a.kind = "llm" THEN AlertEvery ELSE KeyAlertEvery
  <2>1. CASE a \in alerts /\ b \in alerts
    BY <1>1, <1>9, <2>1 DEF Throttled
  <2>2. CASE a = new /\ b \in alerts
    <3>1. b.kind = kind /\ b.at \in Nat /\ st - b.at >= every /\ b.at <= st
      BY <1>2, <1>6, <1>8, <1>9, <2>2
    <3> QED
      BY <1>1, <1>2, <2>2, <3>1
  <2>3. CASE a \in alerts /\ b = new
    <3>1. a.kind = kind /\ a.at \in Nat /\ st - a.at >= every /\ a.at <= st
      BY <1>2, <1>6, <1>8, <1>9, <2>3
    <3> QED
      BY <1>1, <1>2, <2>3, <3>1
  <2> QED
    BY <1>3, <1>9, <2>1, <2>2, <2>3
<1>10. Throttled'
  BY <1>5, <1>7, <1>9 DEF Throttled
<1>11. alerts' \subseteq AlertOf /\ \A a \in alerts' \ alerts : a.kind = kind /\ a.seen = sg[s].bad
  BY <1>1, <1>2, <1>3
<1> QED
  BY <1>4, <1>10, <1>11

(* The steps of a signal; each leaves a record for it.                     *)
LEMMA SigRecOf ==
  ASSUME ScoringInv, NEW s \in Signals
  PROVE  /\ sg[s] \in SigRec /\ sg[s].set \in SetRec /\ sg[s].res \in ResRec
         /\ sg \in [Signals -> SigRec] /\ st \in 0..ScoreTime /\ IsFiniteSet(calls)
         /\ sg[s].bad \in 0..ScoreTime
BY DEF ScoringInv, ScoringRecords, SigRec

LEMMA ReadSettingsKeeps == ASSUME ScoringInv, NEW s \in Signals, ReadSettings(s) PROVE ScoringInv'
<1>1. /\ sg[s].pc = "new" /\ UNCHANGED <<st, sset, entries, calls, lastSent, alerts, sigRow>>
      /\ \/ sg' = [sg EXCEPT ![s].pc = "score", ![s].set = sset]
         \/ sg' = [sg EXCEPT ![s].pc = "done", ![s].action = "trade"]
  BY DEF ReadSettings
<1>2. sset \in SetRec
  BY ScoringBounds DEF ScoringInv, ScoringRecords, SettingsRow, SetRec
<1>3. \E r \in SigRec : sg' = [sg EXCEPT ![s] = r] /\ r.pc \in {"score", "done"}
  <2> DEFINE r1 == [sg[s] EXCEPT !.pc = "score", !.set = sset]
             r2 == [sg[s] EXCEPT !.pc = "done", !.action = "trade"]
  <2>1. r1 \in SigRec /\ r1.pc = "score" /\ r2 \in SigRec /\ r2.pc = "done"
    BY <1>2, SigRecOf DEF SigRec
  <2>2. sg' = [sg EXCEPT ![s] = r1] \/ sg' = [sg EXCEPT ![s] = r2]
    BY <1>1
  <2> QED
    BY <2>1, <2>2
<1>4. PICK r \in SigRec : sg' = [sg EXCEPT ![s] = r] /\ r.pc \in {"score", "done"}
  BY <1>3
<1>5. sg' \in [Signals -> SigRec] /\ CallsPast' /\ ForCause'
  BY <1>1, <1>4, SigRecOf, SignalMoves
<1> QED
  BY <1>1, <1>5 DEF ScoringInv, ScoringRecords, Tracked, Throttled

LEMMA ScoreKeeps == ASSUME ScoringInv, NEW s \in Signals, Score(s) PROVE ScoringInv'
<1>1. /\ sg[s].pc = "score" /\ UNCHANGED <<st, sset, lastSent, alerts, sigRow>>
      /\ \/ (\E ok \in BOOLEAN : Record(s, ok)) \/ UNCHANGED <<entries, calls>>
  BY DEF Score
<1>2. \E r \in SigRec : sg' = [sg EXCEPT ![s] = r] /\ r.pc = "health"
  <2>1. ASSUME NEW n \in 0..100, sg' = [sg EXCEPT ![s].pc = "health", ![s].res.score = n]
        PROVE  \E r \in SigRec : sg' = [sg EXCEPT ![s] = r] /\ r.pc = "health"
    <3> DEFINE q == [sg[s].res EXCEPT !.score = n]
    <3>1. q \in ResRec
      <4>1. n \in -1..100 /\ sg[s].res \in ResRec
        BY SigRecOf
      <4> QED
        BY <4>1 DEF ResRec
    <3>2. sg' = [sg EXCEPT ![s] = [sg[s] EXCEPT !.pc = "health", !.res = q]]
      BY <2>1, SigRecOf DEF SigRec
    <3> HIDE DEF q
    <3> DEFINE r == [sg[s] EXCEPT !.pc = "health", !.res = q]
    <3>3. r \in SigRec /\ r.pc = "health"
      BY <3>1, SigRecOf DEF SigRec
    <3> QED
      BY <3>2, <3>3
  <2>2. CASE sg' = [sg EXCEPT ![s].pc = "health", ![s].res = Failed]
    <3> DEFINE r == [sg[s] EXCEPT !.pc = "health", !.res = Failed]
    <3>1. Failed \in ResRec
      BY DEF Failed, ResRec
    <3>2. r \in SigRec /\ r.pc = "health"
      BY <3>1, SigRecOf DEF SigRec
    <3>3. sg' = [sg EXCEPT ![s] = r]
      BY <2>2
    <3> QED
      BY <3>2, <3>3
  <2> QED
    BY <2>1, <2>2 DEF Score
<1>3. PICK r \in SigRec : sg' = [sg EXCEPT ![s] = r] /\ r.pc = "health"
  BY <1>2
<1>4. CASE \E ok \in BOOLEAN : Record(s, ok)
  <2>1. /\ calls' \subseteq CallOf /\ IsFiniteSet(calls') /\ calls \subseteq calls'
        /\ \A c \in calls' \ calls : c.by = s /\ c.at = st
        /\ entries' \in Seq(Entry) /\ Sorted(entries') /\ NoneLater(entries', st)
        /\ Enumerated(entries', Since(calls', st - HealthWindow))
    BY <1>1, <1>4, RecordTracks
  <2>2. sg' \in [Signals -> SigRec] /\ CallsPast' /\ ForCause'
    BY <1>1, <1>3, <2>1, SignalMoves
  <2>3. Tracked'
    <3>1. st - HealthWindow \in Int /\ st - HealthWindow <= st' - HealthWindow
      BY <1>1, SigRecOf, ScoringBounds
    <3> QED
      BY <1>1, <2>1, <3>1 DEF Tracked
  <2> QED
    BY <1>1, <2>1, <2>2, <2>3 DEF ScoringInv, ScoringRecords, Throttled
<1>5. CASE UNCHANGED <<entries, calls>>
  <2>1. sg' \in [Signals -> SigRec] /\ CallsPast' /\ ForCause'
    BY <1>1, <1>3, <1>5, SigRecOf, SignalMoves
  <2> QED
    BY <1>1, <1>5, <2>1 DEF ScoringInv, ScoringRecords, Tracked, Throttled
<1> QED
  BY <1>1, <1>4, <1>5

LEMMA CheckHealthKeeps == ASSUME ScoringInv, NEW s \in Signals, CheckHealth(s) PROVE ScoringInv'
<1>1. /\ UNCHANGED <<st, sset, calls, lastSent, alerts, sigRow>> /\ entries' = Evicted(entries)
      /\ sg' = [sg EXCEPT ![s].pc = IF IsUnhealthy(entries') THEN "alert" ELSE "verdict",
                          ![s].bad = IF IsUnhealthy(entries') THEN st ELSE 0]
  BY DEF CheckHealth
<1>2. /\ entries' \in Seq(Entry) /\ Sorted(entries') /\ NoneLater(entries', st)
      /\ Enumerated(entries', Since(calls, st - HealthWindow))
      /\ Failures(entries') = Cardinality({c \in Within(st) : ~c.ok})
  BY <1>1, EvictedCounts
<1>3. IsUnhealthy(entries') => Justified(st)'
  BY <1>1, <1>2 DEF IsUnhealthy, Justified, Within
<1>4. \E r \in SigRec : /\ sg' = [sg EXCEPT ![s] = r]
                        /\ \/ r.pc = "verdict"
                           \/ r.pc = "alert" /\ r.bad = st /\ IsUnhealthy(entries')
  <2> DEFINE r1 == [sg[s] EXCEPT !.pc = "alert", !.bad = st]
             r2 == [sg[s] EXCEPT !.pc = "verdict", !.bad = 0]
  <2>1. r1 \in SigRec /\ r1.pc = "alert" /\ r1.bad = st /\ r2 \in SigRec /\ r2.pc = "verdict"
    <3>1. st \in 0..ScoreTime /\ 0 \in 0..ScoreTime /\ sg[s] \in SigRec
      BY SigRecOf, ScoringBounds
    <3> QED
      BY <3>1 DEF SigRec
  <2>2. (IsUnhealthy(entries') /\ sg' = [sg EXCEPT ![s] = r1]) \/ sg' = [sg EXCEPT ![s] = r2]
    BY <1>1
  <2> QED
    BY <2>1, <2>2
<1>5. PICK r \in SigRec : /\ sg' = [sg EXCEPT ![s] = r]
                          /\ \/ r.pc = "verdict"
                             \/ r.pc = "alert" /\ r.bad = st /\ IsUnhealthy(entries')
  BY <1>4
<1>6. r.pc = "alert" => Justified(r.bad)'
  <2>1. PICK t : t = st
    OBVIOUS
  <2>2. IsUnhealthy(entries') => Justified(t)'
    BY <1>1, <1>3, <2>1 DEF Justified, Within
  <2> QED
    BY <1>5, <2>1, <2>2
<1>7. sg' \in [Signals -> SigRec] /\ CallsPast' /\ ForCause'
  BY <1>1, <1>5, <1>6, SigRecOf, SignalMoves
<1>8. Tracked'
  <2>1. st - HealthWindow \in Int /\ st - HealthWindow <= st' - HealthWindow
    BY <1>1, SigRecOf, ScoringBounds
  <2> QED
    BY <1>1, <1>2, <2>1 DEF Tracked
<1> QED
  BY <1>1, <1>2, <1>7, <1>8 DEF ScoringInv, ScoringRecords, Throttled

LEMMA AlertUnhealthyKeeps == ASSUME ScoringInv, NEW s \in Signals, AlertUnhealthy(s) PROVE ScoringInv'
<1>1. /\ sg[s].pc = "alert" /\ Goes(s, "verdict") /\ UNCHANGED <<st, sset, entries, calls, sigRow>>
      /\ \/ UNCHANGED <<lastSent, alerts>>
         \/ ~(st - lastSent.llm < AlertEvery) /\ Alert("llm", s)
  BY DEF AlertUnhealthy
<1>2. PICK r \in SigRec : sg' = [sg EXCEPT ![s] = r] /\ r.pc = "verdict"
  <2> DEFINE r == [sg[s] EXCEPT !.pc = "verdict"]
  <2>1. r \in SigRec /\ r.pc = "verdict"
    BY SigRecOf DEF SigRec
  <2> QED
    BY <1>1, <2>1 DEF Goes
<1>3. CASE UNCHANGED <<lastSent, alerts>>
  <2>1. sg' \in [Signals -> SigRec] /\ CallsPast' /\ ForCause'
    BY <1>1, <1>2, <1>3, SigRecOf, SignalMoves
  <2> QED
    BY <1>1, <1>3, <2>1 DEF ScoringInv, ScoringRecords, Tracked, Throttled
<1>4. CASE ~(st - lastSent.llm < AlertEvery) /\ Alert("llm", s)
  <2>1. st - lastSent["llm"] >= (IF "llm" = "llm" THEN AlertEvery ELSE KeyAlertEvery)
    <3>1. st \in Int /\ AlertEvery \in Int /\ lastSent.llm \in Int
      BY ScoringBounds DEF ScoringInv, ScoringRecords
    <3> QED
      BY <1>4, <3>1
  <2>2. /\ lastSent' \in [llm : Int, key : Int] /\ alerts' \subseteq AlertOf /\ Throttled'
        /\ \A a \in alerts' \ alerts : a.kind = "llm" /\ a.seen = sg[s].bad
    BY <1>1, <1>4, <2>1, AlertKeeps
  <2>3. \A a \in alerts' \ alerts : a.kind = "llm" => Justified(a.seen)'
    <3>1. PICK t : t = sg[s].bad
      OBVIOUS
    <3>2. Justified(t)'
      BY <1>1, <3>1 DEF ScoringInv, ForCause, Justified, Within
    <3> QED
      BY <2>2, <3>1, <3>2
  <2>4. sg' \in [Signals -> SigRec] /\ CallsPast' /\ ForCause'
    BY <1>1, <1>2, <2>3, SigRecOf, SignalMoves
  <2> QED
    BY <1>1, <2>2, <2>4 DEF ScoringInv, ScoringRecords, Tracked
<1> QED
  BY <1>1, <1>3, <1>4

LEMMA VerdictKeeps == ASSUME ScoringInv, NEW s \in Signals, Verdict(s) PROVE ScoringInv'
<1>1. /\ sg' = [sg EXCEPT ![s].pc = "done", ![s].action = Action(s), ![s].bad = 0, ![s].set.key = FALSE]
      /\ UNCHANGED <<st, sset, entries, calls>>
      /\ \/ UNCHANGED <<lastSent, alerts>>
         \/ st - lastSent.key >= KeyAlertEvery /\ Alert("key", s)
  BY DEF Verdict
<1>2. \E r \in SigRec : sg' = [sg EXCEPT ![s] = r] /\ r.pc = "done"
  <2>1. PICK a \in {"", "trade", "abandon"} : a = Action(s)
    BY DEF Action
  <2> DEFINE q == [sg[s].set EXCEPT !.key = FALSE]
  <2>2. q \in SetRec
    BY SigRecOf DEF SetRec
  <2>3. sg' = [sg EXCEPT ![s] = [sg[s] EXCEPT !.pc = "done", !.action = a, !.bad = 0, !.set = q]]
    BY <1>1, <2>1, SigRecOf DEF SigRec
  <2> HIDE DEF q
  <2> DEFINE r == [sg[s] EXCEPT !.pc = "done", !.action = a, !.bad = 0, !.set = q]
  <2>4. r \in SigRec /\ r.pc = "done"
    <3>1. 0 \in 0..ScoreTime
      BY ScoringBounds
    <3>2. sg[s] \in SigRec
      BY SigRecOf
    <3> QED
      BY <2>2, <3>1, <3>2 DEF SigRec
  <2> QED
    BY <2>3, <2>4
<1>3. PICK r \in SigRec : sg' = [sg EXCEPT ![s] = r] /\ r.pc = "done"
  BY <1>2
<1>4. sigRow' \in [Signals -> RowRec]
  <2>1. sigRow \in [Signals -> RowRec]
    BY DEF ScoringInv, ScoringRecords
  <2>2. Failed \in RowRec
    BY DEF Failed, RowRec
  <2>3. sg[s].res.score \in -1..100
    BY SigRecOf DEF ResRec
  <2>4. PICK d \in {"approve", "abandon"} : d = IF Approved(s) THEN "approve" ELSE "abandon"
    OBVIOUS
  <2>5. [score |-> sg[s].res.score, decision |-> d] \in RowRec
    BY <2>3 DEF RowRec
  <2>6. \/ sigRow' = sigRow \/ sigRow' = [sigRow EXCEPT ![s] = Failed]
        \/ sigRow' = [sigRow EXCEPT ![s] = [score |-> sg[s].res.score, decision |-> d]]
    BY <2>4 DEF Verdict
  <2> QED
    BY <2>1, <2>2, <2>5, <2>6
<1>5. CASE UNCHANGED <<lastSent, alerts>>
  <2>1. sg' \in [Signals -> SigRec] /\ CallsPast' /\ ForCause'
    BY <1>1, <1>3, <1>5, SigRecOf, SignalMoves
  <2> QED
    BY <1>1, <1>4, <1>5, <2>1 DEF ScoringInv, ScoringRecords, Tracked, Throttled
<1>6. CASE st - lastSent.key >= KeyAlertEvery /\ Alert("key", s)
  <2>1. st - lastSent["key"] >= (IF "key" = "llm" THEN AlertEvery ELSE KeyAlertEvery)
    BY <1>6
  <2>2. /\ lastSent' \in [llm : Int, key : Int] /\ alerts' \subseteq AlertOf /\ Throttled'
        /\ \A a \in alerts' \ alerts : a.kind = "key" /\ a.seen = sg[s].bad
    BY <1>1, <1>6, <2>1, AlertKeeps
  <2>3. sg' \in [Signals -> SigRec] /\ CallsPast' /\ ForCause'
    BY <1>1, <1>3, <2>2, SigRecOf, SignalMoves
  <2> QED
    BY <1>1, <1>4, <2>2, <2>3 DEF ScoringInv, ScoringRecords, Tracked
<1> QED
  BY <1>1, <1>5, <1>6

LEMMA ScoringTickKeeps == ASSUME ScoringInv, ScoringTick PROVE ScoringInv'
<1>1. /\ st' = st + 1 /\ st < ScoreTime
      /\ UNCHANGED <<sset, sg, entries, calls, lastSent, alerts, sigRow>>
      /\ st \in 0..ScoreTime /\ ScoreTime \in Nat /\ HealthWindow \in Nat
  BY ScoringBounds DEF ScoringTick, ScoringInv, ScoringRecords
<1>2. st' \in 0..ScoreTime /\ st \in Nat
  BY <1>1
<1>3. ScoringRecords'
  BY <1>1, <1>2 DEF ScoringInv, ScoringRecords
<1>4. NoneLater(entries, st')
  <2>1. \A i \in 1..Len(entries) : entries[i].at \in Nat
    <3>1. \A i \in 1..Len(entries) : entries[i] \in Entry
      BY DEF ScoringInv, ScoringRecords
    <3> QED
      BY <3>1 DEF Entry
  <2> QED
    BY <1>1, <1>2, <2>1 DEF ScoringInv, NoneLater
<1>5. Tracked'
  <2>1. PICK k \in Int : k <= st - HealthWindow /\ Enumerated(entries, Since(calls, k))
    BY DEF ScoringInv, Tracked
  <2>2. k <= st' - HealthWindow
    BY <1>1, <1>2, <2>1
  <2> QED
    BY <1>1, <2>1, <2>2 DEF Tracked
<1>6. CallsPast'
  <2>1. \A c \in calls : c.at \in Nat
    BY ScoringBounds DEF ScoringInv, ScoringRecords, CallOf
  <2> QED
    BY <1>1, <1>2, <2>1 DEF ScoringInv, CallsPast
<1>7. Throttled'
  <2>1. lastSent.llm \in Int /\ lastSent.key \in Int /\ \A a \in alerts : a.at \in Nat
    BY ScoringBounds DEF ScoringInv, ScoringRecords, AlertOf
  <2>2. /\ lastSent.llm <= st' /\ lastSent.key <= st'
        /\ \A a \in alerts : a.at <= st' /\ a.at <= lastSent[a.kind]
    BY <1>1, <1>2, <2>1 DEF ScoringInv, Throttled
  <2> QED
    BY <1>1, <2>2 DEF ScoringInv, Throttled
<1>8. ForCause'
  BY <1>1 DEF ScoringInv, ForCause, Justified, Within
<1> QED
  BY <1>1, <1>3, <1>4, <1>5, <1>6, <1>7, <1>8 DEF ScoringInv

LEMMA ScoringStep == ASSUME ScoringInv, [ScoringNext]_scoringVars PROVE ScoringInv'
<1>1. CASE UNCHANGED scoringVars
  BY <1>1 DEF scoringVars, ScoringInv, ScoringRecords, Tracked, CallsPast, Throttled, ForCause, Justified, Within
<1>2. CASE ChangeSettings
  BY <1>2 DEF ChangeSettings, ScoringInv, ScoringRecords, Tracked, CallsPast, Throttled, ForCause, Justified, Within
<1> QED
  BY <1>1, <1>2, ScoringTickKeeps, ReadSettingsKeeps, ScoreKeeps, CheckHealthKeeps, AlertUnhealthyKeeps,
     VerdictKeeps
  DEF ScoringNext

LEMMA ScoringTypes == ASSUME ScoringInv PROVE ScoringTypeOK
<1>1. st \in 0..ScoreTime /\ sset \in SettingsRow
  BY DEF ScoringInv, ScoringRecords
<1>2. ASSUME NEW s \in Signals
      PROVE  /\ sg[s].pc \in {"new", "score", "health", "alert", "verdict", "done"}
             /\ sg[s].res.score \in -1..100 /\ sigRow[s].decision \in {"", "failed", "approve", "abandon"}
  <2>1. sg[s].res \in ResRec /\ sg[s] \in SigRec /\ sigRow[s] \in RowRec
    BY SigRecOf DEF ScoringInv, ScoringRecords
  <2> QED
    BY <2>1 DEF ResRec, SigRec, RowRec
<1>3. Len(entries) <= Cardinality(calls)
  <2>1. PICK k \in Int : Enumerated(entries, Since(calls, k))
    BY DEF ScoringInv, Tracked
  <2>2. Cardinality(Since(calls, k)) = Len(entries)
    BY <2>1, EnumeratedCounts DEF ScoringInv, ScoringRecords
  <2>3. Since(calls, k) \subseteq calls /\ IsFiniteSet(calls)
    BY DEF Since, ScoringInv, ScoringRecords
  <2>4. Cardinality(Since(calls, k)) <= Cardinality(calls)
    BY <2>3, FS_Subset
  <2> QED
    BY <2>2, <2>4
<1> QED
  BY <1>1, <1>2, <1>3 DEF ScoringTypeOK

(* The operator is alerted for cause and not over and over, and the health *)
(* tracker's rate is the true one, for any number of signals scored at     *)
(* once (the hook's maybeAlert functions, Record, IsUnhealthy and          *)
(* evictLocked of the health tracker).                                     *)
THEOREM AlertsForCause == ScoringSpec => []AlertSpaced
<1>1. ASSUME ScoringInv PROVE AlertSpaced
  BY <1>1, EvictedCounts DEF ScoringInv, Throttled, ForCause, AlertSpaced
<1> QED
  BY <1>1, ScoringStarts, ScoringStep, PTL DEF ScoringSpec
----------------------------------------------------------------------------
(* The parts beside each other, as the runs check them.                    *)

AgentsInv == NewsInv /\ ContextInv /\ ScoringInv /\ SettingsIInv /\ StratInv

LEMMA AgentsStart == ASSUME AgentsInit PROVE AgentsInv
<1>1. NewsInit /\ ContextInit /\ ScoringInit /\ SettingsInit /\ StrategiesInit
  BY DEF AgentsInit
<1> QED
  BY <1>1, NewsStarts, ContextStarts, ScoringStarts, SettingsInitInv, StratStarts DEF AgentsInv

(* A step of one part leaves what the others are about as it is.           *)
LEMMA AgentsParts ==
  ASSUME [AgentsNext]_agentVars
  PROVE  /\ [NewsNext]_newsVars /\ [ContextNext]_contextVars /\ [ScoringNext]_scoringVars
         /\ [SettingsNext]_settingsVars /\ [StrategiesNext]_strategiesVars
<1>1. CASE UNCHANGED agentVars
  BY <1>1 DEF agentVars
<1>2. CASE AgentsNext
  BY <1>2 DEF AgentsNext, ContextNext
<1> QED
  BY <1>1, <1>2

LEMMA AgentsStep == ASSUME AgentsInv, [AgentsNext]_agentVars PROVE AgentsInv'
BY AgentsParts, NewsStep, ContextStep, ScoringStep, SettingsStepInv, StratStep DEF AgentsInv

(* Every part of what surrounds the scorer is well typed in every          *)
(* reachable state, whatever the sets and bounds are.                      *)
THEOREM AgentsTyped == AgentsSpec => []AgentsTypeOK
<1>1. ASSUME AgentsInv PROVE AgentsTypeOK
  <2>1. NewsTypeOK /\ ContextTypeOK /\ ScoringTypeOK
    BY <1>1, NewsTypes, ContextTypes, ScoringTypes DEF AgentsInv
  <2>2. SettingsTypeOK
    BY <1>1 DEF AgentsInv, SettingsIInv, SettingsTypeOK, AdmOK, FlagsOK, TextsOK, KeysOK, WorkerNames
  <2>3. StrategiesTypeOK
    BY <1>1 DEF AgentsInv, StratInv, Tables, Handlers, StratRow, Request, StrategiesTypeOK
  <2> QED
    BY <2>1, <2>2, <2>3 DEF AgentsTypeOK
<1> QED
  BY <1>1, AgentsStart, AgentsStep, PTL DEF AgentsSpec

(* What the runs over all parts check of each of them follows too: the     *)
(* news told, the prompt's age, the alerts, the keys and the archive.      *)
THEOREM AgentsSafe ==
  AgentsSpec => [](NotifiedStored /\ ContextFresh /\ AlertSpaced /\ KeyedWhenOn /\ ArchivedIdle)
<1>1. ASSUME AgentsInv
      PROVE  NotifiedStored /\ ContextFresh /\ AlertSpaced /\ KeyedWhenOn /\ ArchivedIdle
  BY <1>1, FreshWhenPrompted, EvictedCounts
  DEF AgentsInv, NewsInv, SettingsIInv, StratInv, ScoringInv, Throttled, ForCause, AlertSpaced
<1> QED
  BY <1>1, AgentsStart, AgentsStep, PTL DEF AgentsSpec
=============================================================================
