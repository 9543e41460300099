----------------------------- MODULE ResearchPlan -----------------------------
(***************************************************************************)
(* What an analysis run promises, whatever happens to the process that     *)
(* executes it.  A run consists of five roles.  Each is decided once, for  *)
(* good, and only when it can be: it produces an output or fails when all  *)
(* the roles it builds on have an output, and it is blocked when one of    *)
(* them will never have one.  The run then publishes one report, which     *)
(* shows exactly the outputs that exist and whose verdict is the one those *)
(* decisions call for; or it is abandoned (cancelled or failed) and        *)
(* publishes none.                                                         *)
(*                                                                         *)
(* Claims, attempts, retries, crashes and resumptions do not appear here:  *)
(* AnalysisRun has them, and every step of it is a step of this module or  *)
(* leaves its variables alone.                                             *)
(***************************************************************************)
EXTENDS FiniteSets

CONSTANTS
    Roles,      \* the roles of a run
    Deps        \* Deps[x]: the roles whose outputs role x reads

VARIABLES
    decision,   \* [Roles -> {"open", "done", "failed", "blocked"}]
    verdict,    \* "open" until the run ends
    shown       \* the roles whose outputs the report shows

vars == <<decision, verdict, shown>>

Having(d) == {x \in Roles : decision[x] = d}

Init ==
    /\ decision = [x \in Roles |-> "open"]
    /\ verdict = "open"
    /\ shown = {}

(* A run that retries a stage of an earlier one starts from its outputs:   *)
(* a set of roles that holds everything its members were built on.         *)
Adopt ==
    /\ Having("open") = Roles
    /\ \E D \in SUBSET Roles :
         /\ \A x \in D : Deps[x] \subseteq D
         /\ decision' = [x \in Roles |-> IF x \in D THEN "done" ELSE "open"]
    /\ UNCHANGED <<verdict, shown>>

Decide(x, d) ==
    /\ verdict = "open"
    /\ decision[x] = "open"
    /\ decision' = [decision EXCEPT ![x] = d]
    /\ UNCHANGED <<verdict, shown>>

Produce(x) == Deps[x] \subseteq Having("done") /\ Decide(x, "done")

Fail(x) == Deps[x] \subseteq Having("done") /\ Decide(x, "failed")

Block(x) ==
    /\ \E y \in Deps[x] : decision[y] \in {"failed", "blocked"}
    /\ Decide(x, "blocked")

(* Without the critical evidence no role is asked at all.                  *)
Refuse(x) ==
    /\ Having("done") \cup Having("failed") = {}
    /\ Decide(x, "blocked")

Publish ==
    /\ verdict = "open"
    /\ Having("open") = {}
    /\ verdict' \in IF Having("failed") # {} THEN {"partial"}
                    ELSE IF Having("done") = Roles
                         THEN {"succeeded", "insufficient_evidence"}
                         ELSE {"insufficient_evidence"}
    /\ shown' = Having("done")
    /\ UNCHANGED decision

Abandon ==
    /\ verdict = "open"
    /\ verdict' = "abandoned"
    /\ UNCHANGED <<decision, shown>>

Next ==
    \/ Adopt
    \/ \E x \in Roles : Produce(x) \/ Fail(x) \/ Block(x) \/ Refuse(x)
    \/ Publish
    \/ Abandon

Spec == Init /\ [][Next]_vars
================================================================================
