------------------------------ MODULE Settings ------------------------------
(***************************************************************************)
(* The settings of the bot, columns of the one row of system_state.  The   *)
(* admin forms read and write them, several at a time, each statement on   *)
(* its own; a boot first fills what is NULL from the configuration and     *)
(* then builds the LLM client from the key it finds.                       *)
(*                                                                         *)
(* Abstractions: a text setting is NULL, what the configuration gives, or  *)
(* what a form gave; numbers that are only checked to be in range are left *)
(* out, but a form may be refused half way for one of them.                *)
(***************************************************************************)
EXTENDS Integers, Sequences

CONSTANTS
  Admins,     \* requests being handled at the same time
  Clearable,  \* text settings a form may clear: URL, token, Binance key, whitelist
  Given,      \* what the configuration gives for each of them
  Keys,       \* what may be entered as LLM key: "", blanks, a key
  Wishes,     \* the sets of workers a macro form asks for
  MaxForms,   \* bound: requests
  MaxBoots    \* bound: boots after the first

Null == "null"
Workers == <<"news", "perp", "outcome", "critique", "exit">>  \* the order of SaveMacro

ASSUME SettingsAssumption ==
  /\ Given \in [Clearable -> {"", "config"}] /\ "" \in Keys
  /\ \A w \in Wishes : w \subseteq {Workers[i] : i \in 1..5}
  /\ MaxForms \in Nat /\ MaxBoots \in Nat

VARIABLES
  up,      \* whether the process runs
  conf,    \* the clearable columns
  known,   \* max_total_leverage IS NOT NULL
  key,     \* llm_api_key
  scorer,  \* agent_scorer_enabled
  on,      \* the workers that are enabled
  client,  \* the key the LLM client was built with
  adm,     \* a request: what its handler is at, and what it has read or was asked
  nforms, nboots

settingsVars == <<up, conf, known, key, scorer, on, client, adm, nforms, nboots>>

IdleAdmin == [pc |-> "idle", val |-> FALSE, want |-> {}, n |-> 0]

(* Bootstrap: COALESCE for each column by itself.                          *)
Bootstrapped == [c \in Clearable |-> IF conf[c] = Null /\ Given[c] # "" THEN Given[c] ELSE conf[c]]

SettingsInit ==
  /\ up = FALSE /\ conf = [c \in Clearable |-> Null] /\ known = FALSE
  /\ key = "" /\ scorer = FALSE /\ on = {} /\ client = ""
  /\ adm = [a \in Admins |-> IdleAdmin] /\ nforms = 0 /\ nboots = 0

(* main up to the LLM client; a restart ends the requests there are.       *)
BootSettings ==
  /\ up => nboots < MaxBoots
  /\ nboots' = IF up THEN nboots + 1 ELSE nboots
  /\ up' = TRUE /\ conf' = Bootstrapped /\ known' = TRUE /\ client' = key
  /\ adm' = [a \in Admins |-> IdleAdmin]
  /\ UNCHANGED <<key, scorer, on, nforms>>

Posted(a) == up /\ adm[a].pc = "idle" /\ nforms < MaxForms /\ nforms' = nforms + 1
At(a, pc) == up /\ adm[a].pc = pc
Answered(a) == adm' = [adm EXCEPT ![a] = IdleAdmin]

(* SaveNotifier, SaveBinance and SaveIPWhitelist: what is empty is stored  *)
(* as NULL.                                                                *)
UpdateText(c, v) == conf' = [conf EXCEPT ![c] = IF v = "" THEN Null ELSE v]
SaveText(a, c, v) ==
  /\ Posted(a) /\ UpdateText(c, v)
  /\ UNCHANGED <<up, known, key, scorer, on, client, adm, nboots>>

UpdateLLMAPIClears(v) == key' = v  \* mutant: an empty field clears the key
UpdateLLMAPI(v) == key' = IF v = "" THEN key ELSE v
SaveLLMAPI(a, v) ==
  /\ Posted(a) /\ UpdateLLMAPI(v)
  /\ UNCHANGED <<up, conf, known, scorer, on, client, adm, nboots>>

(* The scorer is enabled in two statements, the check and the flag, and    *)
(* disabled in one.                                                        *)
EnableAgentScorer(a) ==
  /\ Posted(a) /\ key \notin {"", "blank"}
  /\ adm' = [adm EXCEPT ![a].pc = "enable"]
  /\ UNCHANGED <<up, conf, known, key, scorer, on, client, nboots>>
SetAgentScorerEnabled(a) ==
  /\ At(a, "enable") /\ scorer' = TRUE /\ Answered(a)
  /\ UNCHANGED <<up, conf, known, key, on, client, nforms, nboots>>
DisableAgentScorer(a) ==
  /\ Posted(a) /\ scorer' = FALSE
  /\ UNCHANGED <<up, conf, known, key, on, client, adm, nboots>>

(* SaveAgentScorer reads the flag and writes it back with the parameters.  *)
SaveAgentScorer(a) ==
  /\ Posted(a)
  /\ adm' = [adm EXCEPT ![a] = [IdleAdmin EXCEPT !.pc = "scorer", !.val = scorer]]
  /\ UNCHANGED <<up, conf, known, key, scorer, on, client, nboots>>
UpdateAgentScorer(a) ==
  /\ At(a, "scorer") /\ scorer' = adm[a].val /\ Answered(a)
  /\ UNCHANGED <<up, conf, known, key, on, client, nforms, nboots>>

(* SaveMacro checks the key if the news are asked for, and then makes one  *)
(* UPDATE for each worker in turn.  A number out of range or a failed      *)
(* statement ends it, and the workers before it stay as they were set.     *)
SaveMacro(a, want) ==
  /\ Posted(a) /\ ("news" \in want => key # "")
  /\ adm' = [adm EXCEPT ![a] = [IdleAdmin EXCEPT !.pc = "macro", !.want = want, !.n = 1]]
  /\ UNCHANGED <<up, conf, known, key, scorer, on, client, nboots>>
UpdateWorker(a) ==
  /\ At(a, "macro")
  /\ LET w == Workers[adm[a].n]
     IN on' = (on \ {w}) \cup (adm[a].want \cap {w})
  /\ IF adm[a].n = 5 THEN Answered(a)
     ELSE Answered(a) \/ adm' = [adm EXCEPT ![a].n = @ + 1]
  /\ UNCHANGED <<up, conf, known, key, scorer, client, nforms, nboots>>

AdminStep(a) ==
  \/ \E c \in Clearable, v \in {"", "form"} : SaveText(a, c, v)
  \/ \E v \in Keys : SaveLLMAPI(a, v)
  \/ EnableAgentScorer(a) \/ SetAgentScorerEnabled(a) \/ DisableAgentScorer(a)
  \/ SaveAgentScorer(a) \/ UpdateAgentScorer(a)
  \/ (\E want \in Wishes : SaveMacro(a, want)) \/ UpdateWorker(a)
SettingsNext == BootSettings \/ \E a \in Admins : AdminStep(a)
SettingsSpec == SettingsInit /\ [][SettingsNext]_settingsVars
----------------------------------------------------------------------------
SettingsTypeOK ==
  /\ conf \in [Clearable -> {Null, "config", "form"}]
  /\ key \in Keys /\ client \in Keys
  /\ on \subseteq {Workers[i] : i \in 1..5}
  /\ \A a \in Admins : adm[a].pc \in {"idle", "enable", "scorer", "macro"} /\ adm[a].n \in 0..5

(* Neither the scorer nor the news worker is ever on without an LLM key,   *)
(* whatever forms are saved at the same time, half saved, or cut off by a  *)
(* restart: each path checks the key in one statement and writes the flag  *)
(* in a later one.                                                         *)
KeyedWhenOn == scorer \/ "news" \in on => key # ""

(* "Once the numeric thresholds are set the entire block becomes a no-op,  *)
(* preserving any changes made via the admin UI."                          *)
BootKeepsChanges == [][nboots' # nboots /\ known => conf' = conf]_settingsVars

(* "Empty LLMAPIKey here ... only happens if someone toggled the flag in   *)
(* DB by hand."                                                            *)
ClientKeyed == up /\ scorer => client # ""
=============================================================================
