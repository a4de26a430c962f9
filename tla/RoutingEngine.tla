----------------------------- MODULE RoutingEngine -----------------------------
(***************************************************************************)
(* The routing engine: what happens to a request between its arrival and    *)
(* the answer or the error the client gets.  Every request is a coroutine    *)
(* of the gateway's event loop.  It runs without interruption between two    *)
(* awaits, and it awaits in two places: for the provider it called           *)
(* ("calling") and for the pause before it calls the same key again          *)
(* ("sleeping").  Everything between two awaits is one action.               *)
(*                                                                           *)
(* A request plans once, when it arrives.  The list of candidates, with the  *)
(* quarantined models taken out, and the runtime state of the keys are       *)
(* copies it works with to its end; the other requests go on changing the    *)
(* originals.  The cooldowns in the copy are compared with the real clock.   *)
(*                                                                           *)
(* What comes before (the alias planner and the context filter) is the set   *)
(* Plans of the candidate lists it may return.                               *)
(***************************************************************************)
EXTENDS KeyRow, ModelRow, SequencesExt

CONSTANTS
  Requests,              \* the requests
  Keys,                  \* the configured keys
  Models,                \* the candidates, pairs of a provider and a model
  KeysOf,                \* the active keys of each candidate's provider
  Sources,               \* the keys that discovered the candidate, {} if unknown
  Rank,                  \* the place of each key by descending priority, then id
  MaxRetries,            \* key.max_retries
  MaxAttemptsPerCandidate,  \* routing.retry.max_attempts_per_candidate
  Policy,                \* routing.error_policy, a policy action per error class
  Strategy,              \* the key selection strategy
  MaxFreeCandidates,     \* routing.free_alias.max_candidates_per_request
  StopOnFreeTier,        \* routing.free_alias.stop_on_provider_free_tier_rate_limit
  Plans,                 \* the candidate lists a request may start from
  Routes,                \* how requests name their model
  Answers,               \* what providers may answer
  StartRows,             \* the states of the keys a run may start from
  MaxTime                \* bound on the clock

(* What comes back from a provider: an answer that passes validation, an      *)
(* error of some class, or the rate limit of a provider's free tier.  For a   *)
(* streaming request the answer is its first chunk.                           *)
Answer == ErrorClass \cup {"success", "free_tier"}

(* What a request can fail with. *)
Error == (Answer \ {"success"}) \cup
  {"free_tier_stop", "cooldown_429", "blocked_503", "unavailable_503"}

PolicyAction == {"switch_key", "switch_provider", "retry",
                 "retry_then_switch_key", "retry_then_switch_provider"}

(* A model named outright has no alias; "free" stands for the free aliases.   *)
Route == {"direct", "alias", "free"}

ASSUME EngineAssumption ==
  /\ NULL \notin Keys /\ NULL \notin Models /\ NULL \notin Error
  /\ NULL \notin [cand : Nat, key : Keys, try : Nat]
  /\ KeysOf \in [Models -> SUBSET Keys]
  /\ IsFiniteSet(Keys)
  /\ Sources \in [Models -> SUBSET Keys]
  /\ Rank \in Injection(Keys, 0 .. Cardinality(Keys))
  /\ MaxRetries \in [Keys -> Int]
  /\ MaxAttemptsPerCandidate \in Int
  /\ Policy \in [ErrorClass -> PolicyAction]
  /\ Strategy \in {"strict_priority", "least_errors", "random_by_weight"}
  /\ MaxFreeCandidates \in Int
  /\ StopOnFreeTier \in BOOLEAN
  /\ Plans \subseteq Seq(Models)
  /\ Routes \subseteq Route
  /\ Answers \subseteq Answer
  /\ StartRows \subseteq [Keys -> Row]
  /\ MaxTime \in Nat

VARIABLES
  row,        \* the table key_runtime_state
  mrow,       \* the table model_runtime_state
  memory,     \* route memory: the candidate remembered for each alias
  stats,      \* usage_stats: the successes and failures counted for each key
  switches,   \* key_runtime_state.switch_count
  now,        \* the clock
  task        \* the requests

vars == <<row, mrow, memory, stats, switches, now, task>>

Attempt == [cand : Nat \ {0}, key : Keys, try : Nat \ {0}, answer : Answer]

Task ==
  [pc       : {"idle", "calling", "sleeping", "done"},
   route    : Route \cup {NULL},
   plan     : Seq(Models),         \* the candidates, after all the filters
   states   : [Keys -> Row],       \* runtime_states, read once
   cand     : Nat,                 \* the candidate in use, 0 before the first
   key      : Keys \cup {NULL},    \* the key in use
   queue    : Seq(Keys),           \* the selected keys still to be tried
   try      : Nat,                 \* key_attempt
   offered  : Seq(SUBSET Keys),    \* candidate_details: the keys found for each
   attempts : Seq(Attempt),        \* decision.attempts
   error    : Error \cup {NULL}]   \* final_error

TypeOK ==
  /\ row \in [Keys -> Row]
  /\ mrow \in [Models -> ModelRow]
  /\ memory \in [{"alias", "free"} -> Models \cup {NULL}]
  /\ stats \in [Keys -> [success : Nat, failure : Nat]]
  /\ switches \in [Keys -> Nat]
  /\ now \in Nat
  /\ task \in [Requests -> Task]

Init ==
  /\ row \in StartRows
  /\ mrow = [m \in Models |-> NewModelRow]
  /\ memory = [alias \in {"alias", "free"} |-> NULL]
  /\ stats = [k \in Keys |-> [success |-> 0, failure |-> 0]]
  /\ switches = [k \in Keys |-> 0]
  /\ now = 0
  /\ task = [r \in Requests |->
               [pc |-> "idle", route |-> NULL, plan |-> <<>>,
                states |-> row, cand |-> 0, key |-> NULL, queue |-> <<>>, try |-> 0,
                offered |-> <<>>, attempts |-> <<>>, error |-> NULL]]

-----------------------------------------------------------------------------
(* Planning *)

(* A remembered candidate that is still in the list goes to its head. *)
Prioritized(plan, route) ==
  LET places == {i \in DOMAIN plan : plan[i] = memory[route]}
  IN  IF route # "direct" /\ places # {}
      THEN <<memory[route]>> \o RemoveAt(plan, Min(places))
      ELSE plan

(* allowed[n] is what the loop over the candidates has after the first n.      *)
Unquarantined(plan) ==
  LET allowed[n \in 0 .. Len(plan)] ==
        IF n = 0 THEN <<>>
        ELSE IF Quarantined(mrow[plan[n]], now) THEN allowed[n - 1]
        ELSE Append(allowed[n - 1], plan[n])
  IN  allowed[Len(plan)]

FreeBudget == IF MaxFreeCandidates > 1 THEN MaxFreeCandidates ELSE 1

Budgeted(plan, route) ==
  IF route = "free" /\ Len(plan) > FreeBudget THEN SubSeq(plan, 1, FreeBudget) ELSE plan

(* The keys the request may use for a candidate: the available ones of its    *)
(* provider, cut down to those that discovered it unless that leaves none.    *)
Usable(m, states) ==
  LET available == {k \in Keys : k \in KeysOf[m] /\ Available(states[k], TRUE, now)}
  IN  IF available \cap Sources[m] = {} THEN available ELSE available \cap Sources[m]

(* The orders select_keys may return.  The place of a key under               *)
(* least_recently_used depends on a column left out here: any order stands    *)
(* for it, as for random_by_weight.                                           *)
Precedes(k, l, states) ==
  CASE Strategy = "strict_priority" -> Rank[k] < Rank[l]
    [] Strategy = "least_errors" ->
         \/ states[k].errs < states[l].errs
         \/ states[k].errs = states[l].errs /\ Rank[k] < Rank[l]
    [] OTHER -> TRUE

KeyOrders(keys, states) ==
  {q \in SetToSeqs(keys) :
     \A i, j \in DOMAIN q : i < j => Precedes(q[i], q[j], states)}

(* No candidate had a key to offer.  The error tells a client that must wait  *)
(* for a rate limit from one that must not: any key of the plan's providers   *)
(* whose last error is a rate limit, and that is cooling or blocked, will do. *)
NothingToTry(plan, states) ==
  LET keys == {k \in UNION {KeysOf[m] : m \in ToSet(plan)} : states[k].active}
      rateLimited(k) == states[k].lastErr = "rate_limit"
                        /\ (states[k].status = "blocked" \/ Cooling(states[k], now))
  IN  CASE \E k \in keys : rateLimited(k) -> "cooldown_429"
        [] OTHER -> IF \E k \in keys : states[k].status = "blocked"
                    THEN "blocked_503" ELSE "unavailable_503"

-----------------------------------------------------------------------------
(* Where a request goes next.  Each of these is the set of what it may become. *)

(* Operators whose names end in a capitalised remark, here and below, are      *)
(* faulty variants of the definition that follows them.  Nothing uses them:   *)
(* put in its place they show which property notices the fault.               *)
CallKey_CountsFromZero(t, q) ==
  [t EXCEPT !.pc = "calling", !.key = Head(q), !.queue = Tail(q), !.try = 0]

CallKey(t, q) == [t EXCEPT !.pc = "calling", !.key = Head(q), !.queue = Tail(q), !.try = 1]

Finished(t, error) ==
  [t EXCEPT !.pc = "done", !.key = NULL, !.queue = <<>>, !.error = error]

NextCandidate_StaysOnCandidate(t) ==
  LET ready == {i \in 1 .. Len(t.plan) : i >= t.cand /\ Usable(t.plan[i], t.states) # {}}
  IN  IF ready = {} THEN {Finished(t, t.error)}
      ELSE LET i == Min(ready)
               keys == Usable(t.plan[i], t.states)
           IN  {CallKey([t EXCEPT !.cand = i, !.offered[i] = keys], q) :
                  q \in KeyOrders(keys, t.states)}

(* The first of the remaining candidates with a usable key; if there is none  *)
(* the request fails with its last error.                                     *)
NextCandidate(t) ==
  LET ready == {i \in 1 .. Len(t.plan) : i > t.cand /\ Usable(t.plan[i], t.states) # {}}
  IN  IF ready = {}
      THEN {Finished(t, IF t.attempts = <<>> THEN NothingToTry(t.plan, t.states)
                                             ELSE t.error)}
      ELSE LET i == Min(ready)
               keys == Usable(t.plan[i], t.states)
           IN  {CallKey([t EXCEPT !.cand = i, !.offered[i] = keys], q) :
                  q \in KeyOrders(keys, t.states)}

NextKey(t) == IF t.queue = <<>> THEN NextCandidate(t) ELSE {CallKey(t, t.queue)}

SleepOnKey(t) == [t EXCEPT !.pc = "sleeping", !.try = @ + 1]

(* The calls one key may get for one candidate. *)
MaxAttempts(k) ==
  LET limit == IF MaxRetries[k] + 1 < MaxAttemptsPerCandidate
               THEN MaxRetries[k] + 1 ELSE MaxAttemptsPerCandidate
  IN  IF limit > 1 THEN limit ELSE 1

-----------------------------------------------------------------------------
(* A request arrives and runs to its first call, or fails at once. *)
Arrive(r) ==
  /\ task[r].pc = "idle"
  /\ \E route \in Routes, plan \in Plans :
       LET cands == Budgeted(Unquarantined(Prioritized(plan, route)), route)
           t == [task[r] EXCEPT !.route = route, !.plan = cands,
                                !.states = row, !.offered = [i \in 1 .. Len(cands) |-> {}]]
       IN  \E u \in NextCandidate(t) : task' = [task EXCEPT ![r] = u]
  /\ UNCHANGED <<row, mrow, memory, stats, switches, now>>

Attempted(t, answer) ==
  Append(t.attempts, [cand |-> t.cand, key |-> t.key, try |-> t.try, answer |-> answer])

(* The provider answered, and the answer was good. *)
Succeed(r) ==
  LET t == task[r]
      m == t.plan[t.cand]
  IN  /\ t.pc = "calling"
      /\ "success" \in Answers
      /\ row' = [row EXCEPT ![t.key] = Succeeded(@)]
      /\ mrow' = [mrow EXCEPT ![m] = Cleared]
      /\ stats' = [stats EXCEPT ![t.key].success = @ + 1]
      /\ memory' = IF t.route = "direct" THEN memory ELSE [memory EXCEPT ![t.route] = m]
      /\ task' = [task EXCEPT ![r] =
                    Finished([t EXCEPT !.attempts = Attempted(t, "success")], NULL)]
      /\ UNCHANGED <<switches, now>>

ClassOf(answer) == IF answer = "free_tier" THEN "rate_limit" ELSE answer

(* record_failure of the key registry, which no other request interrupts. *)
Counted(r, class) ==
  LET failed == Failed(r, class, now)
  IN  IF AtThreshold(failed) THEN Blocked(failed) ELSE failed

(* What every failed attempt writes, wherever the request goes from there.    *)
(* Auth failures say nothing about the model.                                 *)
RecordFailure(t, class) ==
  LET m == t.plan[t.cand]
  IN  /\ row' = [row EXCEPT ![t.key] = Counted(@, class)]
      /\ mrow' = IF class \in AuthErrors THEN mrow
                 ELSE [mrow EXCEPT ![m] = Upserted(@, class, now)]
      /\ stats' = [stats EXCEPT ![t.key].failure = @ + 1]
      /\ UNCHANGED <<memory, now>>

Verdict_AsksPolicyFirst(t, answer) ==
  LET action == Policy[ClassOf(answer)]
      again == t.try < MaxAttempts(t.key)
  IN  CASE again /\ action \in {"retry", "retry_then_switch_key",
                                 "retry_then_switch_provider"} -> "back_off"
        [] answer = "free_tier" /\ t.route = "free" /\ StopOnFreeTier -> "stop"
        [] OTHER -> IF action \in {"switch_provider", "retry_then_switch_provider"}
                    THEN "switch_provider" ELSE "switch_key"

(* What a failed call leads to, decided in this order.  (The engine has one    *)
(* more case, for a stream that ends without a chunk and without an error.    *)
(* StreamNormalizer shows that there is none: CommitsOnContent.)              *)
Verdict(t, answer) ==
  LET action == Policy[ClassOf(answer)]
      again == t.try < MaxAttempts(t.key)
  IN  CASE answer = "free_tier" /\ t.route = "free" /\ StopOnFreeTier -> "stop"
        [] OTHER ->
             IF ClassOf(answer) = "rate_limit" /\ t.cand < Len(t.plan) THEN "switch_key"
             ELSE IF again /\ action \in {"retry", "retry_then_switch_key",
                                          "retry_then_switch_provider"} THEN "back_off"
             ELSE IF action \in {"switch_provider", "retry_then_switch_provider"}
                  THEN "switch_provider" ELSE "switch_key"

Onward_LeavesProvider(t, verdict) ==
  CASE verdict = "back_off"        -> {SleepOnKey(t)}
    [] verdict = "stop"            -> {Finished(t, "free_tier_stop")}
    [] OTHER                       -> NextCandidate(t)

Onward(t, verdict) ==
  CASE verdict = "back_off"        -> {SleepOnKey(t)}
    [] verdict = "switch_provider" -> NextCandidate(t)
    [] verdict = "stop"            -> {Finished(t, "free_tier_stop")}
    [] OTHER                       -> NextKey(t)

Fail_CountsRetries(r, answer) ==
  LET t == [task[r] EXCEPT !.attempts = Attempted(task[r], answer), !.error = answer]
  IN  /\ task[r].pc = "calling"
      /\ RecordFailure(task[r], ClassOf(answer))
      /\ switches' = [switches EXCEPT ![task[r].key] = @ + 1]
      /\ \E u \in Onward(t, Verdict(task[r], answer)) : task' = [task EXCEPT ![r] = u]

Fail(r, answer) ==
  LET t == [task[r] EXCEPT !.attempts = Attempted(task[r], answer), !.error = answer]
      verdict == Verdict(task[r], answer)
  IN  /\ task[r].pc = "calling"
      /\ RecordFailure(task[r], ClassOf(answer))
      /\ switches' = IF verdict \in {"switch_key", "switch_provider", "stop"}
                     THEN [switches EXCEPT ![task[r].key] = @ + 1] ELSE switches
      /\ \E u \in Onward(t, verdict) : task' = [task EXCEPT ![r] = u]

Wake_WaitsForKey(r) ==
  /\ task[r].pc = "sleeping"
  /\ Available(row[task[r].key], TRUE, now)
  /\ task' = [task EXCEPT ![r].pc = "calling"]
  /\ UNCHANGED <<row, mrow, memory, stats, switches, now>>

(* The pause of sleep_with_backoff is over. *)
Wake(r) ==
  /\ task[r].pc = "sleeping"
  /\ task' = [task EXCEPT ![r].pc = "calling"]
  /\ UNCHANGED <<row, mrow, memory, stats, switches, now>>

Tick ==
  /\ now < MaxTime
  /\ now' = now + 1
  /\ UNCHANGED <<row, mrow, memory, stats, switches, task>>

(* All requests have been answered: the gateway waits for more. *)
AllServed ==
  /\ \A r \in Requests : task[r].pc = "done"
  /\ UNCHANGED vars

Next ==
  \/ \E r \in Requests : Arrive(r) \/ Succeed(r) \/ Wake(r)
  \/ \E r \in Requests : \E answer \in Answers \ {"success"} : Fail(r, answer)
  \/ Tick
  \/ AllServed

Spec == Init /\ [][Next]_vars

(* Every call to a provider ends, because the HTTP client has a timeout, and  *)
(* so does every pause.  Nothing is assumed about what the answers are.       *)
Returns(r) == Succeed(r) \/ \E answer \in Answers \ {"success"} : Fail(r, answer)

FairSpec == Spec /\ \A r \in Requests : WF_vars(Returns(r)) /\ WF_vars(Wake(r))

-----------------------------------------------------------------------------
(* The attempts of a request and, while one is under way, its current call.   *)
Trail(t) ==
  IF t.pc \in {"calling", "sleeping"} THEN Attempted(t, NULL) ELSE t.attempts

(* The calls of a request walk the plan once: never back to a candidate or to *)
(* a key it has left, only keys it was offered, and the calls of one key for  *)
(* one candidate number 1, 2, ... without a gap, within its retry budget.     *)
WalksPlanOnce ==
  \A r \in Requests :
    LET calls == Trail(task[r])
        same(i, j) == calls[i].cand = calls[j].cand /\ calls[i].key = calls[j].key
    IN  \A i \in DOMAIN calls :
          /\ calls[i].try <= MaxAttempts(calls[i].key)
          /\ calls[i].key \in task[r].offered[calls[i].cand]
          /\ \A j \in 1 .. (i - 1) :
               /\ calls[j].cand <= calls[i].cand
               /\ same(i, j) <=> calls[i].try + j = calls[j].try + i

(* A request fails only when nothing is left that it should try: every key of *)
(* every candidate that was open when the request arrived has been called for *)
(* it, unless an answer made the policy leave the provider, or a free tier    *)
(* stopped the request.  (A key that was cooling may have come back since.)   *)
OpenKeys(m, states) ==
  {k \in KeysOf[m] : /\ Sources[m] = {} \/ k \in Sources[m]
                     /\ states[k].active /\ states[k].status # "blocked"
                     /\ states[k].cooldown = NULL}

FailsOnlyExhausted ==
  \A r \in Requests :
    LET t == task[r]
        calls(i) == {a \in ToSet(t.attempts) : a.cand = i}
        leaves(a) == /\ a.answer # "success"
                     /\ Policy[ClassOf(a.answer)] \in
                          {"switch_provider", "retry_then_switch_provider"}
    IN  t.pc = "done" /\ t.error \notin {NULL, "free_tier_stop"} =>
          \A i \in DOMAIN t.plan : \A k \in OpenKeys(t.plan[i], t.states) :
            (\E a \in calls(i) : a.key = k) \/ (\E a \in calls(i) : leaves(a))

(* What the client is told is what happened: the first good answer ends the   *)
(* request and is its result, a failed request reports its last failure, and  *)
(* a request of a free alias that hit a provider's free-tier limit stops      *)
(* there, within its budget of candidates, and says so.                       *)
OutcomeTold ==
  \A r \in Requests :
    LET t == task[r]
        a == t.attempts
        stops(i) == a[i].answer = "free_tier" /\ t.route = "free" /\ StopOnFreeTier
    IN  /\ \A i \in DOMAIN a :
             a[i].answer = "success" \/ stops(i) => i = Len(a) /\ t.pc = "done"
        /\ t.route = "free" => Cardinality({x.cand : x \in ToSet(a)}) <= FreeBudget
        /\ t.pc = "done" /\ a # <<>> =>
             t.error = CASE Last(a).answer = "success" -> NULL
                         [] stops(Len(a)) -> "free_tier_stop"
                         [] OTHER -> Last(a).answer

(* The counters of all keys balance with the attempts of all requests: one    *)
(* success or failure for each, and one switch for each failed call after     *)
(* which its key was not called again.                                        *)
Counters ==
  LET attempts(P(_, _)) ==
        Cardinality({x \in UNION {{r} \X DOMAIN task[r].attempts : r \in Requests} :
                       P(task[x[1]], x[2])})
      last(t, i) == i = Len(Trail(t)) \/ Trail(t)[i + 1].try = 1
  IN  \A k \in Keys :
        /\ stats[k].success =
             attempts(LAMBDA t, i : t.attempts[i].key = k /\ t.attempts[i].answer = "success")
        /\ stats[k].failure =
             attempts(LAMBDA t, i : t.attempts[i].key = k /\ t.attempts[i].answer # "success")
        /\ switches[k] =
             attempts(LAMBDA t, i : /\ t.attempts[i].key = k
                                    /\ t.attempts[i].answer # "success"
                                    /\ last(t, i))

(* Every request ends, whatever the providers answer and whatever the other   *)
(* requests do to the keys meanwhile.                                         *)
EveryRequestEnds ==
  \A r \in Requests : task[r].pc = "calling" ~> task[r].pc = "done"

-----------------------------------------------------------------------------
(* The engine implements Failover.  Its call is the one under way or, during  *)
(* a pause, the one to come; the pairs it left are those of its attempts,     *)
(* except the current one.  Wake and Tick are stuttering steps.               *)
CurrentCall(t) ==
  IF t.pc \in {"calling", "sleeping"} THEN [cand |-> t.cand, key |-> t.key, try |-> t.try]
                                      ELSE NULL

LeftPairs(t) ==
  {<<a.cand, a.key>> : a \in ToSet(t.attempts)}
    \ (IF t.pc \in {"calling", "sleeping"} THEN {<<t.cand, t.key>>} ELSE {})

Outcome(t) == IF t.pc # "done" THEN NULL ELSE IF t.error = NULL THEN "served" ELSE "failed"

Abstract == INSTANCE Failover WITH
  Budget <- [k \in Keys |-> MaxAttempts(k)],
  call <- [r \in Requests |-> CurrentCall(task[r])],
  left <- [r \in Requests |-> LeftPairs(task[r])],
  outcome <- [r \in Requests |-> Outcome(task[r])]

(* Every step of the engine is a step of one request that Failover allows, or  *)
(* none: retries, key switches and provider switches together never let a      *)
(* request return to a pair it left or go back to an earlier candidate.       *)
ImplementsFailover == Abstract!Spec
=============================================================================
