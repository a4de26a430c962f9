-------------------------------- MODULE Failover --------------------------------
(***************************************************************************)
(* What the routing engine promises about a request, without saying how it    *)
(* gets there: no keys' states, no policies, no quarantine, no statistics.    *)
(* A request calls one key for one candidate at a time, goes forward through  *)
(* its candidates, gives up a pair of a candidate and a key for good, and     *)
(* ends served by the call it was making, or failed.  RoutingEngine           *)
(* implements it.                                                            *)
(***************************************************************************)
EXTENDS Integers

CONSTANTS
  Requests,    \* the requests
  Keys,        \* the keys
  Budget,      \* the calls a key may get for one candidate
  NULL

VARIABLES
  call,        \* the call each request is making or about to repeat
  left,        \* the pairs it will not come back to
  outcome      \* how it ended

vars == <<call, left, outcome>>

Call == [cand : Nat \ {0}, key : Keys, try : Nat \ {0}]

Pair(c) == <<c.cand, c.key>>

Init ==
  /\ call = [r \in Requests |-> NULL]
  /\ left = [r \in Requests |-> {}]
  /\ outcome = [r \in Requests |-> NULL]

Unborn(r) == call[r] = NULL /\ outcome[r] = NULL

(* A first call of a key for a candidate. *)
Calls(r, c) ==
  /\ c \in Call
  /\ c.try = 1
  /\ call' = [call EXCEPT ![r] = c]

Begin(r) ==
  /\ Unborn(r)
  /\ Calls(r, call'[r])
  /\ UNCHANGED <<left, outcome>>

(* The request finds nothing to call. *)
Refuse(r) ==
  /\ Unborn(r)
  /\ outcome' = [outcome EXCEPT ![r] = "failed"]
  /\ UNCHANGED <<call, left>>

(* The same key again, while it has calls left. *)
Again(r) ==
  /\ call[r] # NULL
  /\ call[r].try < Budget[call[r].key]
  /\ call' = [call EXCEPT ![r].try = @ + 1]
  /\ UNCHANGED <<left, outcome>>

(* Another key, or a candidate further on. *)
MoveOn(r) ==
  /\ call[r] # NULL
  /\ left' = [left EXCEPT ![r] = @ \cup {Pair(call[r])}]
  /\ Calls(r, call'[r])
  /\ call'[r].cand >= call[r].cand
  /\ Pair(call'[r]) \notin left'[r]
  /\ UNCHANGED outcome

End(r) ==
  /\ call[r] # NULL
  /\ left' = [left EXCEPT ![r] = @ \cup {Pair(call[r])}]
  /\ call' = [call EXCEPT ![r] = NULL]
  /\ \E result \in {"served", "failed"} : outcome' = [outcome EXCEPT ![r] = result]

Next == \E r \in Requests : Begin(r) \/ Refuse(r) \/ Again(r) \/ MoveOn(r) \/ End(r)

Spec == Init /\ [][Next]_vars
=============================================================================
