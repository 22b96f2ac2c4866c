---------------------------- MODULE MatchService ----------------------------
(***************************************************************************)
(* What SafeMatcher.finditer promises its callers, without processes,      *)
(* queues or clocks: one caller, one request at a time, and every request  *)
(* ends in exactly one outcome - its own matches, its own error, or a      *)
(* failure (RegexTimeout, or the caller being interrupted).  Only a search *)
(* that ends is answered, and its answer is an error exactly when it       *)
(* raised one.  The promise ends when a worker survives being killed.      *)
(***************************************************************************)
CONSTANTS
  CallId, Task, NoCall,
  Runaway,     \* tasks whose search never ends
  Faulty       \* tasks whose search raises

VARIABLES
  pending,     \* the request being served, or NoCall
  outcome,     \* how the last request ended
  broken       \* a worker could not be stopped: nothing is promised any more

svars == <<pending, outcome, broken>>

Call == [id : CallId, task : Task]

Failures == {"timeout", "interrupted"}

SInit == /\ pending = NoCall
         /\ outcome = [kind |-> "none"]
         /\ broken = FALSE

Request == /\ pending = NoCall
           /\ pending' \in Call
           /\ UNCHANGED outcome

\* Whose answer it is (id) and whose matches it carries (of).
Answer == /\ pending # NoCall
          /\ pending.task \notin Runaway
          /\ outcome' = [id |-> pending.id, of |-> pending.id,
                         kind |-> IF pending.task \in Faulty THEN "error" ELSE "ok"]
          /\ pending' = NoCall

Fail == /\ pending # NoCall
        /\ \E k \in Failures : outcome' = [id |-> pending.id, kind |-> k]
        /\ pending' = NoCall

Serve == /\ ~broken /\ ~broken'
         /\ Request \/ Answer \/ Fail

SNext == Serve \/ broken' = TRUE

SSpec == SInit /\ [][SNext]_svars
=============================================================================
