---------------------------- MODULE RunPublication ----------------------------
(***************************************************************************)
(* What a pool backtest promises to its reader: the result of a symbol is  *)
(* published once and never changes, the run ends once, and a report       *)
(* covers exactly the symbols that succeeded, when all are decided.  It    *)
(* knows nothing of claims, leases, retries or crashes.                    *)
(***************************************************************************)
EXTENDS Naturals

CONSTANT Symbols

VARIABLES
  published,  \* the result of each symbol
  outcome,    \* how the run ended, "open" while it has not
  reports     \* the reports stored, each the set of symbols it covers

pubVars == <<published, outcome, reports>>

Succeeded == {s \in Symbols : published[s] = "succeeded"}
Decided   == \A s \in Symbols : published[s] # "pending"

PubInit ==
  /\ published = [s \in Symbols |-> "pending"]
  /\ outcome = "open"
  /\ reports = {}

Publish(s) ==
  /\ outcome = "open" /\ published[s] = "pending"
  /\ \E result \in {"succeeded", "failed"} :
       published' = [published EXCEPT ![s] = result]
  /\ UNCHANGED <<outcome, reports>>

\* A cancellation may come after the report was written.
Report ==
  /\ outcome = "open" /\ Decided
  /\ reports' = {Succeeded}
  /\ outcome' \in {IF Succeeded = Symbols THEN "succeeded" ELSE "partial_failed", "cancelled"}
  /\ UNCHANGED published

Abandon ==
  /\ outcome = "open"
  /\ outcome' \in {"failed", "cancelled"}
  /\ UNCHANGED <<published, reports>>

PubNext == Report \/ Abandon \/ \E s \in Symbols : Publish(s)

PubSpec == PubInit /\ [][PubNext]_pubVars
=============================================================================
