-------------------------------- MODULE News --------------------------------
(***************************************************************************)
(* The news worker: every interval it gathers headlines from several       *)
(* feeds, has the LLM rate them, stores a snapshot row, tells the pages    *)
(* (an event on the broker) and, if the impact is high enough, the         *)
(* operator.  Failed runs are stored too, with the impact "none".          *)
(*                                                                         *)
(* Abstractions: a headline is its key, numbered by time of publication;   *)
(* of the LLM's answer the impact and the indices it rates are kept.       *)
(***************************************************************************)
EXTENDS Integers, Sequences, FiniteSets

CONSTANTS
  Feeds,       \* the RSS feeds
  Headlines,   \* keys of headlines, a larger one is newer
  TopN,        \* headlines a run looks at
  MinImpacts,  \* values of news_notify_min_impact
  Impacts,     \* what the LLM may say
  MaxNews,     \* bound: runs of the worker
  MaxSaves,    \* bound: changes of the settings
  NewsFaults   \* bound: failed statements and requests

ASSUME NewsAssumption ==
  /\ Headlines \subseteq Nat /\ IsFiniteSet(Headlines) /\ Feeds # {} /\ TopN \in Nat \ {0}
  /\ "none" \in Impacts
  /\ \A n \in {MaxNews, MaxSaves, NewsFaults} : n \in Nat

VARIABLES
  ns,       \* settings: news_enabled, news_notify_min_impact
  nw,       \* the worker: program counter, threshold read, headlines, Classification, id
  snaps,    \* news_snapshots: impact and whether error_message is set, in order
  told,     \* history: what was published and sent, newest last
  nruns, nsaves, nfaults

newsVars == <<ns, nw, snaps, told, nruns, nsaves, nfaults>>

NoClass == [impact |-> "none", per |-> "null", err |-> FALSE]
IdleNews == [pc |-> "idle", min |-> "", heads |-> {}, c |-> NoClass, id |-> 0]

NewsInit ==
  /\ ns \in [on : {TRUE}, min : MinImpacts]
  /\ nw = IdleNews
  /\ snaps = <<>> /\ told = <<>>
  /\ nruns = 0 /\ nsaves = 0 /\ nfaults = 0

NFault == nfaults < NewsFaults /\ nfaults' = nfaults + 1
NoNFault == UNCHANGED nfaults
ToPc(pc) == nw' = [nw EXCEPT !.pc = pc]

(* The settings, read once; disabled or unreadable, the tick is over.      *)
NewsRead ==
  /\ nw.pc = "idle" /\ nruns < MaxNews /\ nruns' = nruns + 1
  /\ \/ NoNFault /\ nw' = IF ns.on THEN [IdleNews EXCEPT !.pc = "fetch", !.min = ns.min] ELSE nw
     \/ NFault /\ UNCHANGED nw
  /\ UNCHANGED <<ns, snaps, told, nsaves>>

(* MultiFetcher.Fetch: what the feeds that answer have, without doubles,   *)
(* the newest TopN; an error only if no feed answers.  Then the failed run *)
(* is to be stored, with an empty list of judgments.                       *)
NewestFew(S) == S  \* mutant: the headlines are not cut to TopN
Newest(S) == {h \in S : Cardinality({g \in S : g > h}) < TopN}
NewsFetch ==
  /\ nw.pc = "fetch"
  /\ \/ /\ \E ok \in SUBSET Feeds \ {{}}, got \in [Feeds -> SUBSET Headlines] :
             nw' = [nw EXCEPT !.pc = "classify", !.heads = Newest(UNION {got[f] : f \in ok})]
        /\ NoNFault
     \/ /\ nw' = [nw EXCEPT !.pc = "failed", !.c = [NoClass EXCEPT !.per = "json", !.err = TRUE]]
        /\ NFault
  /\ UNCHANGED <<ns, snaps, told, nruns, nsaves>>

(* Classify.  No headlines need no LLM.  An answer must rate as many as    *)
(* there are, by an index in range (the same one twice will do); what      *)
(* fails leaves PerHeadlineJSON nil.                                       *)
Rated(ix) == Len(ix) = Cardinality(nw.heads) /\ \A i \in 1..Len(ix) : ix[i] < Cardinality(nw.heads)
Classified(impact) == [impact |-> impact, per |-> "json", err |-> FALSE]
Classify ==
  /\ nw.pc = "classify"
  /\ \/ nw.heads = {} /\ nw' = [nw EXCEPT !.pc = "store", !.c = Classified("none")]
     \/ /\ nw.heads # {}
        /\ \E impact \in Impacts, n \in {Cardinality(nw.heads), TopN + 1} :
             \E ix \in [1..n -> 0..1] :
               nw' = IF Rated(ix) THEN [nw EXCEPT !.pc = "store", !.c = Classified(impact)]
                     ELSE [nw EXCEPT !.pc = "failed", !.c = [NoClass EXCEPT !.err = TRUE]]
  /\ UNCHANGED <<ns, snaps, told, nruns, nsaves, nfaults>>

(* Insert; per_headline is NOT NULL.                                       *)
InsertNews(c) ==
  /\ c.per # "null"
  /\ snaps' = Append(snaps, [impact |-> c.impact, err |-> c.err])
Lost == UNCHANGED snaps

(* The id of a failed row that could not be stored is 0, its error is      *)
(* dropped, and the event goes out all the same.                           *)
PersistFailure ==
  /\ nw.pc = "failed"
  /\ \/ NoNFault /\ InsertNews(nw.c) /\ nw' = [nw EXCEPT !.pc = "publish", !.id = Len(snaps) + 1]
     \/ NoNFault /\ nw.c.per = "null" /\ Lost /\ ToPc("publish")
     \/ NFault /\ Lost /\ ToPc("publish")
  /\ UNCHANGED <<ns, told, nruns, nsaves>>

PersistAnyway ==  \* mutant: a failed insert is not the end of the run
  /\ nw.pc = "store"
  /\ \/ NoNFault /\ InsertNews(nw.c) /\ nw' = [nw EXCEPT !.pc = "publish", !.id = Len(snaps) + 1]
     \/ NFault /\ Lost /\ ToPc("publish")
  /\ UNCHANGED <<ns, told, nruns, nsaves>>
PersistSuccess ==
  /\ nw.pc = "store"
  /\ \/ NoNFault /\ InsertNews(nw.c) /\ nw' = [nw EXCEPT !.pc = "publish", !.id = Len(snaps) + 1]
     \/ NFault /\ Lost /\ nw' = IdleNews
  /\ UNCHANGED <<ns, told, nruns, nsaves>>

Tell(how) == told' = Append(told, [how |-> how, id |-> nw.id, impact |-> nw.c.impact, min |-> nw.min])
PublishNews ==
  /\ nw.pc = "publish"
  /\ Tell("event")
  /\ nw' = IF nw.c.err THEN IdleNews ELSE [nw EXCEPT !.pc = "notify"]
  /\ UNCHANGED <<ns, snaps, nruns, nsaves, nfaults>>

(* impactRank, and maybeNotify: an unknown threshold never notifies, an    *)
(* unknown impact has rank -1.                                             *)
Known == <<"none", "low", "medium", "high">>
ImpactRank(s) == IF \E i \in 1..4 : Known[i] = s THEN (CHOOSE i \in 1..4 : Known[i] = s) - 1 ELSE -1
Meets(impact, min) == ImpactRank(min) >= 0 /\ ImpactRank(impact) >= ImpactRank(min)
MaybeNotify ==
  /\ nw.pc = "notify"
  /\ IF Meets(nw.c.impact, nw.min) THEN Tell("message") ELSE UNCHANGED told
  /\ nw' = IdleNews
  /\ UNCHANGED <<ns, snaps, nruns, nsaves, nfaults>>

SaveNews ==
  /\ nsaves < MaxSaves /\ nsaves' = nsaves + 1
  /\ ns' \in [on : BOOLEAN, min : MinImpacts]
  /\ UNCHANGED <<nw, snaps, told, nruns, nfaults>>

NewsNext ==
  \/ NewsRead \/ NewsFetch \/ Classify \/ PersistFailure \/ PersistSuccess
  \/ PublishNews \/ MaybeNotify \/ SaveNews
NewsSpec == NewsInit /\ [][NewsNext]_newsVars
----------------------------------------------------------------------------
NewsTypeOK ==
  /\ nw.pc \in {"idle", "fetch", "classify", "failed", "store", "publish", "notify"}
  /\ nw.heads \subseteq Headlines /\ Cardinality(nw.heads) <= TopN
  /\ nw.id \in 0..Len(snaps) /\ nw.c.impact \in Impacts
  /\ Len(snaps) <= nruns /\ nruns <= MaxNews

(* Whatever the worker tells anybody about news is on record under the id  *)
(* it tells, with the same impact and told once each way; the operator     *)
(* hears only of runs without error, at or above the threshold.  Nothing   *)
(* but a failed run is told without a row.                                 *)
NotifiedStored ==
  /\ \A i \in 1..Len(told) :
       /\ told[i].id = 0 => told[i].impact = "none" /\ told[i].how = "event"
       /\ told[i].id > 0 => snaps[told[i].id].impact = told[i].impact
       /\ told[i].how = "message" =>
            /\ ~snaps[told[i].id].err
            /\ ImpactRank(told[i].impact) >= ImpactRank(told[i].min)
  /\ \A i, j \in 1..Len(told) :
       i # j /\ told[i].how = told[j].how => told[i].id = 0 \/ told[i].id # told[j].id
(* "One row each interval, written for successes and failures": a finished *)
(* run whose statements did not fail is on record.                         *)
FailureRecorded == nw.pc = "idle" /\ nfaults = 0 /\ nsaves = 0 => Len(snaps) = nruns
=============================================================================
