---------------------------- MODULE SignalLedger ----------------------------
(***************************************************************************)
(* What the signals table promises, seen from outside the process: a       *)
(* signal (one TradingView alert) gets one row; a row that is 'pending' is *)
(* decided once and its decision never changes again; the trade service is *)
(* called for a signal only while its row is 'pending', at most once in a  *)
(* life of the process, and a signal it was called for is 'accepted'.      *)
(* Only a restart makes the process forget what it has tried.              *)
(***************************************************************************)
CONSTANT Keys

VARIABLES
  decision,   \* signals.decision; "absent" before the row exists
  tried       \* signals handed to the trade service in this life

ledgerVars == <<decision, tried>>

Verdicts == {"invalid", "risk_denied", "disarmed", "abandoned", "accepted"}

LedgerInit == decision = [k \in Keys |-> "absent"] /\ tried = {}

Write(k, from, d) ==
  /\ decision[k] = from
  /\ decision' = [decision EXCEPT ![k] = d]
  /\ UNCHANGED tried

(* The row is written: to be worked on, or to record that it will not be.  *)
Record(k) == Write(k, "absent", "pending") \/ Write(k, "absent", "duplicate")

Try(k) ==
  /\ decision[k] = "pending" /\ k \notin tried
  /\ tried' = tried \cup {k}
  /\ UNCHANGED decision

Resolve(k) == \E d \in IF k \in tried THEN {"accepted"} ELSE Verdicts : Write(k, "pending", d)

(* At a restart the signals that waited for too long are given up at once. *)
GiveUp ==
  /\ tried = {}
  /\ \E S \in SUBSET {k \in Keys : decision[k] = "pending"} :
       decision' = [k \in Keys |-> IF k \in S THEN "abandoned" ELSE decision[k]]
  /\ UNCHANGED tried

Restart == tried' = {} /\ UNCHANGED decision

LedgerNext == (\E k \in Keys : Record(k) \/ Try(k) \/ Resolve(k)) \/ GiveUp \/ Restart

LedgerSpec == LedgerInit /\ [][LedgerNext]_ledgerVars
=============================================================================
