---------------------------- MODULE ModelQuarantine ----------------------------
(***************************************************************************)
(* The quarantine of models: the table model_runtime_state, the requests of  *)
(* the gateway that read and write it, and the operator who resets it.       *)
(*                                                                           *)
(* A request looks at the table once, when it plans: it takes the models in  *)
(* quarantine out of its whole list of candidates.  It then calls one         *)
(* candidate after the other, each as often as keys and retries allow,        *)
(* without looking again, and every failure is recorded by a SELECT and an    *)
(* upsert computed from what the SELECT returned.  The event loop keeps       *)
(* other requests out of the gap between the two; the panel of "sor", a       *)
(* process of its own, may fall into it.                                      *)
(***************************************************************************)
EXTENDS ModelRow, Sequences

CONSTANTS
  Models,      \* the candidates, pairs of a provider and a model
  Requests,    \* the requests
  Plans,       \* the lists of candidates that requests are planned on
  Failures,    \* the error classes a call may fail with
  MaxTime,     \* bound on the clock
  MaxFails     \* bound on consecutive_failures

ASSUME QuarantineAssumption ==
  /\ Plans \subseteq Seq(Models)
  /\ Failures \subseteq ErrorClass
  /\ MaxTime \in Nat
  /\ MaxFails \in Nat

VARIABLES
  mrow,      \* the table model_runtime_state
  now,       \* the clock
  plan,      \* what each request has left of its list, {} when it is over
  pending,   \* the failure being recorded, between the SELECT and the upsert
  since,     \* history: the failures recorded since a success or a reset
  raced      \* history: models reset while a failure was being recorded

vars == <<mrow, now, plan, pending, since, raced>>

(* A place in the list and the model that stands there. *)
Candidate == Nat \X Models

Pending == [model : Models, class : ErrorClass, read : ModelRow]

TypeOK ==
  /\ mrow \in [Models -> ModelRow]
  /\ now \in Nat
  /\ plan \in [Requests -> SUBSET Candidate]
  /\ pending \in Pending \cup {NULL}
  /\ since \in [Models -> Nat]
  /\ raced \subseteq Models

Init ==
  /\ mrow = [m \in Models |-> NewModelRow]
  /\ now = 0
  /\ plan = [r \in Requests |-> {}]
  /\ pending = NULL
  /\ since = [m \in Models |-> 0]
  /\ raced = {}

-----------------------------------------------------------------------------
(* Where a request with these candidates may stand next: at any of them, with *)
(* the earlier ones behind it, or at none.  It stays where it is to retry or  *)
(* to use another key, it passes over candidates without a key, and policies, *)
(* the budget of a free alias and an answer end it early.                     *)
Onward(candidates) ==
  {{}} \cup {{c \in candidates : c[1] >= at[1]} : at \in candidates}

Candidates(list) == {<<i, list[i]>> : i \in DOMAIN list}

(* A request plans: it keeps the candidates that are not in quarantine now.   *)
Start_IgnoresQuarantine(r, list) ==
  /\ pending = NULL
  /\ plan[r] = {}
  /\ \E next \in Onward(Candidates(list)) : plan' = [plan EXCEPT ![r] = next]
  /\ UNCHANGED <<mrow, now, pending, since, raced>>

Start(r, list) ==
  LET allowed == {c \in Candidates(list) : ~ Quarantined(mrow[c[2]], now)}
  IN  /\ pending = NULL
      /\ plan[r] = {}
      /\ \E next \in Onward(allowed) : plan' = [plan EXCEPT ![r] = next]
      /\ UNCHANGED <<mrow, now, pending, since, raced>>

(* A request calls the first of the candidates it has left, whatever the      *)
(* table says of it by now.                                                   *)
Calls(r, m) ==
  /\ pending = NULL
  /\ \E c \in plan[r] : c[2] = m /\ \A d \in plan[r] : c[1] <= d[1]

Succeed(r, m) ==
  /\ Calls(r, m)
  /\ mrow' = [mrow EXCEPT ![m] = Cleared]
  /\ since' = [since EXCEPT ![m] = 0]
  /\ raced' = raced \ {m}
  /\ plan' = [plan EXCEPT ![r] = {}]
  /\ UNCHANGED <<now, pending>>

(* An auth failure is not the model's. *)
FailAuth(r, m) ==
  /\ Calls(r, m)
  /\ Failures \cap AuthErrors # {}
  /\ \E next \in Onward(plan[r]) : plan' = [plan EXCEPT ![r] = next]
  /\ UNCHANGED <<mrow, now, pending, since, raced>>

(* Any other failure is: the row is read, to be written one higher. *)
ReadState(r, m, class) ==
  /\ Calls(r, m)
  /\ class \notin AuthErrors
  /\ mrow[m].fails < MaxFails
  /\ pending' = [model |-> m, class |-> class, read |-> mrow[m]]
  /\ \E next \in Onward(plan[r]) : plan' = [plan EXCEPT ![r] = next]
  /\ UNCHANGED <<mrow, now, since, raced>>

Upsert ==
  /\ pending # NULL
  /\ mrow' = [mrow EXCEPT ![pending.model] = Upserted(pending.read, pending.class, now)]
  /\ since' = [since EXCEPT ![pending.model] = @ + 1]
  /\ pending' = NULL
  /\ UNCHANGED <<now, plan, raced>>

(* The panel's "Reset model quarantine state", for one model or for all. *)
Reset(ms) ==
  /\ mrow' = [m \in Models |-> IF m \in ms THEN Cleared ELSE mrow[m]]
  /\ since' = [m \in Models |-> IF m \in ms THEN 0 ELSE since[m]]
  /\ raced' = IF pending # NULL /\ pending.model \in ms
              THEN (raced \ ms) \cup {pending.model} ELSE raced \ ms
  /\ UNCHANGED <<now, plan, pending>>

(* The gateway dies and is started again: the table is what it has left.      *)
Restart ==
  /\ plan' = [r \in Requests |-> {}]
  /\ pending' = NULL
  /\ UNCHANGED <<mrow, now, since, raced>>

Tick ==
  /\ now < MaxTime
  /\ now' = now + 1
  /\ UNCHANGED <<mrow, plan, pending, since, raced>>

Next ==
  \/ \E r \in Requests, list \in Plans : Start(r, list)
  \/ \E r \in Requests, m \in Models : Succeed(r, m) \/ FailAuth(r, m)
  \/ \E r \in Requests, m \in Models, class \in Failures : ReadState(r, m, class)
  \/ Upsert
  \/ \E m \in Models : Reset({m})
  \/ Reset(Models)
  \/ Restart
  \/ Tick

Spec == Init /\ [][Next]_vars

-----------------------------------------------------------------------------
(* A model is in quarantine only for failures it really had: as many as the   *)
(* threshold asks, with no success and no reset in between, whatever requests *)
(* overlap -- save for a model reset while a failure was being recorded.      *)
QuarantineEarned ==
  \A m \in Models \ raced :
    /\ mrow[m].fails = since[m]
    /\ mrow[m].until # NULL => since[m] >= FailureThreshold

(* A request that plans while a model is in quarantine does not get it, and   *)
(* so only requests that planned before the quarantine began can call the     *)
(* model and extend it.  They do: a request that is busy with another         *)
(* candidate goes on to it without looking.  Once a quarantined model is left *)
(* in no request's plan it is in none, and nothing but the operator's reset   *)
(* touches its row, until its time is up.                                     *)
QuarantineUndisturbed ==
  [][\A m \in Models :
       Quarantined(mrow[m], now) /\ (\A r \in Requests : \A c \in plan[r] : c[2] # m)
         /\ pending = NULL
         => /\ \A r \in Requests : \A c \in plan'[r] : c[2] # m
            /\ mrow'[m] \in {mrow[m], Cleared}]_vars
=============================================================================
