------------------------- MODULE RoutingEngine_proofs -------------------------
(***************************************************************************)
(* Proofs about RoutingEngine, for any requests, keys, plans, policies and    *)
(* answers.  Three invariants, each of one request on its own, carry them:    *)
(*                                                                           *)
(*  - TaskOK: what keeps the next call from going back is what a request      *)
(*    carries with it: the keys of its queue are distinct, offered, and not   *)
(*    among those it has called for this candidate, and it has called none    *)
(*    for the candidates ahead.  From it follow WalksPlanOnce and that the    *)
(*    engine implements Failover.                                            *)
(*                                                                           *)
(*  - Honest: every open key of a candidate it is past has been called, or an *)
(*    answer made it leave; those of the current candidate are called, in the *)
(*    queue, or under way; and only the last answer of a request that is over *)
(*    is a good one or a stop.  From it follow FailsOnlyExhausted,            *)
(*    OutcomeTold and, with Tables, TypeOK.                                   *)
(*                                                                           *)
(*  - Balance: each counter of a key is the number of its attempts of that    *)
(*    kind, of which there are finitely many.  From it follows Counters.      *)
(***************************************************************************)
EXTENDS RoutingEngine, FiniteSetTheorems, SequenceTheorems, WellFoundedInduction, TLAPS

Active == {"calling", "sleeping"}

(* A call: an attempt whose answer need not have come. *)
Call == [cand : Nat \ {0}, key : Keys, try : Nat \ {0}, answer : Answer \cup {NULL}]

SamePair(a, b) == a.cand = b.cand /\ a.key = b.key

(* The fields of a request, but for the values no step looks into. *)
Shaped(t) ==
  t \in [pc : {"idle", "done"} \cup Active, route : {t.route}, plan : {t.plan},
         states : {t.states}, cand : Nat, key : Keys \cup {NULL}, queue : Seq(Keys),
         try : Nat, offered : {t.offered}, attempts : Seq(Call), error : {t.error}]

(* WalksPlanOnce for one request. *)
Walk(calls, offered) ==
  \A i \in 1 .. Len(calls) :
    /\ calls[i].try <= MaxAttempts(calls[i].key)
    /\ calls[i].cand \in DOMAIN offered
    /\ calls[i].key \in offered[calls[i].cand]
    /\ \A j \in 1 .. (i - 1) :
         /\ calls[j].cand <= calls[i].cand
         /\ SamePair(calls[i], calls[j]) <=> calls[i].try + j = calls[j].try + i

(* The call c, the same key again or a pair not called before, may come next. *)
Continues(calls, offered, c) ==
  /\ calls \in Seq(Call) /\ c \in Call
  /\ Walk(calls, offered)
  /\ c.try <= MaxAttempts(c.key)
  /\ c.cand \in DOMAIN offered /\ c.key \in offered[c.cand]
  /\ \A j \in 1 .. Len(calls) : calls[j].cand <= c.cand
  /\ \/ /\ calls # <<>> /\ SamePair(c, calls[Len(calls)])
        /\ c.try = calls[Len(calls)].try + 1
     \/ c.try = 1 /\ \A j \in 1 .. Len(calls) : ~ SamePair(c, calls[j])

(* The keys of q may be called next for the current candidate. *)
Untried(t, q) ==
  /\ t.cand \in 1 .. Len(t.plan)
  /\ q \in Seq(Keys)
  /\ \A i, j \in 1 .. Len(q) : q[i] = q[j] => i = j
  /\ \A i \in 1 .. Len(q) : q[i] \in t.offered[t.cand]
  /\ \A i \in 1 .. Len(t.attempts), j \in 1 .. Len(q) :
       t.attempts[i].cand = t.cand => t.attempts[i].key # q[j]

TaskOK(t) ==
  /\ Shaped(t)
  /\ t.offered = [i \in 1 .. Len(t.plan) |-> t.offered[i]]
  /\ Walk(Trail(t), t.offered)
  /\ t.pc = "idle" => t.attempts = <<>> /\ t.cand = 0 /\ t.error = NULL
  /\ t.pc \in Active =>
       /\ t.key \in Keys /\ t.try \in Nat \ {0}
       /\ Untried(t, t.queue) /\ \A i \in 1 .. Len(t.queue) : t.queue[i] # t.key

(* A request between two keys, with its last failure told. *)
Between(t) ==
  /\ Shaped(t)
  /\ t.offered = [i \in 1 .. Len(t.plan) |-> t.offered[i]]
  /\ Walk(t.attempts, t.offered)
  /\ \A i \in 1 .. Len(t.attempts) : t.attempts[i].cand <= t.cand
  /\ t.attempts # <<>> => t.error # NULL

(* Where it may go from there. *)
MovesOn(t, u) ==
  /\ TaskOK(u)
  /\ u.attempts = t.attempts
  /\ \/ u.pc = "done" /\ u.error # NULL
     \/ /\ u.pc = "calling" /\ u.try = 1 /\ u.cand >= t.cand
        /\ \A i \in 1 .. Len(t.attempts) : ~ SamePair(u, t.attempts[i])

Inv == task = [r \in Requests |-> task[r]] /\ \A r \in Requests : TaskOK(task[r])

-----------------------------------------------------------------------------
(* Planning *)

(* The least of some natural numbers is one of them.                          *)
LEMMA LeastPlace ==
  ASSUME NEW S, S \subseteq Nat, S # {}
  PROVE  Min(S) \in S /\ \A y \in S : Min(S) =< y
<1>1. IsWellFoundedOn(OpToRel(<, Nat), Nat)
  BY NatLessThanWellFounded, Zenon
<1>2. PICK x \in S : \A y \in S : <<y, x>> \notin OpToRel(<, Nat)
  BY <1>1, WFMin, Zenon
<1>3. \A y \in S : x =< y
  <2> SUFFICES ASSUME NEW y \in S, ~ (x =< y) PROVE FALSE
    OBVIOUS
  <2>1. y < x /\ x \in Nat /\ y \in Nat
    OBVIOUS
  <2>2. <<y, x>> \in OpToRel(<, Nat)
    BY <2>1, Zenon DEF OpToRel
  <2> QED
    BY <1>2, <2>2
<1> QED
  BY <1>3 DEF Min

(* An order of selected keys has each of them once, and nothing else.         *)
LEMMA OrderedKeys ==
  ASSUME NEW keys, keys \subseteq Keys, keys # {}, NEW states, NEW q \in KeyOrders(keys, states)
  PROVE  /\ q \in Seq(Keys) /\ q # <<>>
         /\ \A i, j \in 1 .. Len(q) : q[i] = q[j] => i = j
         /\ \A i \in 1 .. Len(q) : q[i] \in keys
<1>1. q \in SetToSeqs(keys)
  BY DEF KeyOrders
<1>2. IsFiniteSet(keys)
  BY EngineAssumption, FS_Subset
<1>3. Cardinality(keys) \in Nat
  BY <1>2, FS_CardinalityType
<1>4. q \in [1 .. Cardinality(keys) -> keys]
  BY <1>1 DEF SetToSeqs
<1>5. q \in Seq(Keys) /\ Len(q) = Cardinality(keys)
  BY <1>3, <1>4
<1>6. Cardinality(keys) # 0
  BY <1>2, FS_EmptySet
<1> QED
  BY <1>1, <1>3, <1>4, <1>5, <1>6 DEF SetToSeqs

(* A key may always be called once.                                           *)
LEMMA BudgetType ==
  ASSUME NEW k \in Keys
  PROVE  MaxAttempts(k) \in Nat \ {0}
BY EngineAssumption DEF MaxAttempts

-----------------------------------------------------------------------------
(* Walks *)

(* One more call, the same key again or a pair not called before, keeps the   *)
(* walk a walk.                                                               *)
LEMMA WalkOn ==
  ASSUME NEW calls, NEW offered, NEW c
  PROVE  Continues(calls, offered, c) => Walk(Append(calls, c), offered)
<1>0. SUFFICES ASSUME Continues(calls, offered, c) PROVE Walk(Append(calls, c), offered)
  OBVIOUS
<1>n. PICK n \in Nat : n = Len(calls)
  BY <1>0 DEF Continues
<1> DEFINE longer == Append(calls, c)
<1>1. Len(longer) = n + 1 /\ longer[n + 1] = c
  BY <1>0, <1>n DEF Continues
<1>2. \A i \in 1 .. n : longer[i] = calls[i] /\ calls[i] \in Call
  BY <1>0, <1>n DEF Continues
<1> HIDE DEF longer
<1>3. ASSUME NEW i \in 1 .. n
      PROVE  /\ longer[i].try <= MaxAttempts(longer[i].key)
             /\ longer[i].cand \in DOMAIN offered
             /\ longer[i].key \in offered[longer[i].cand]
             /\ \A j \in 1 .. (i - 1) :
                  /\ longer[j].cand <= longer[i].cand
                  /\ SamePair(longer[i], longer[j])
                       <=> longer[i].try + j = longer[j].try + i
  <2>1. /\ calls[i].try <= MaxAttempts(calls[i].key)
        /\ calls[i].cand \in DOMAIN offered
        /\ calls[i].key \in offered[calls[i].cand]
        /\ \A j \in 1 .. (i - 1) :
             /\ calls[j].cand <= calls[i].cand
             /\ SamePair(calls[i], calls[j]) <=> calls[i].try + j = calls[j].try + i
    BY <1>0, <1>n DEF Walk, Continues
  <2>2. longer[i] = calls[i] /\ \A j \in 1 .. (i - 1) : longer[j] = calls[j]
    BY <1>2
  <2> QED
    BY <2>1, <2>2
<1>4. ASSUME NEW j \in 1 .. n
      PROVE  /\ longer[j].cand <= c.cand
             /\ SamePair(c, longer[j]) <=> c.try + j = longer[j].try + (n + 1)
  <2>1. longer[j] = calls[j]
    BY <1>2
  <2>2. calls[j].try \in Nat \ {0} /\ calls[n].try \in Nat \ {0} /\ c.try \in Nat
    BY <1>0, <1>2 DEF Call, Continues
  <2>3. calls[j].cand <= c.cand
    BY <1>0, <1>n DEF Continues
  <2>4. CASE c.try = 1 /\ \A l \in 1 .. Len(calls) : ~ SamePair(c, calls[l])
    <3>1. ~ SamePair(c, calls[j])
      BY <1>n, <2>4
    <3>2. c.try + j # calls[j].try + (n + 1)
      BY <2>2, <2>4
    <3> QED
      BY <2>1, <2>3, <3>1, <3>2
  <2>5. CASE SamePair(c, calls[n]) /\ c.try = calls[n].try + 1
    <3>1. SamePair(c, calls[j]) <=> SamePair(calls[n], calls[j])
      BY <2>5 DEF SamePair
    <3>2. SamePair(calls[n], calls[j]) <=> calls[n].try + j = calls[j].try + n
      <4>1. CASE j = n
        BY <2>2, <4>1 DEF SamePair
      <4>2. CASE j # n
        BY <1>0, <1>n, <4>2 DEF Walk, Continues
      <4> QED
        BY <4>1, <4>2
    <3>3. calls[n].try + j = calls[j].try + n <=> c.try + j = calls[j].try + (n + 1)
      BY <2>2, <2>5
    <3> QED
      BY <2>1, <2>3, <3>1, <3>2, <3>3
  <2> QED
    BY <1>0, <1>n, <2>4, <2>5 DEF Continues
<1>5. ASSUME NEW i \in 1 .. Len(longer)
      PROVE  /\ longer[i].try <= MaxAttempts(longer[i].key)
             /\ longer[i].cand \in DOMAIN offered
             /\ longer[i].key \in offered[longer[i].cand]
             /\ \A j \in 1 .. (i - 1) :
                  /\ longer[j].cand <= longer[i].cand
                  /\ SamePair(longer[i], longer[j])
                       <=> longer[i].try + j = longer[j].try + i
  <2>1. CASE i \in 1 .. n
    BY <1>3, <2>1
  <2>2. CASE i = n + 1
    <3>1. \A j \in 1 .. (i - 1) : j \in 1 .. n
      BY <2>2
    <3>2. longer[i] = c
      BY <1>1, <2>2
    <3>3. /\ c.try <= MaxAttempts(c.key)
          /\ c.cand \in DOMAIN offered /\ c.key \in offered[c.cand]
      BY <1>0 DEF Continues
    <3> QED
      BY <1>4, <2>2, <3>1, <3>2, <3>3
  <2> QED
    BY <1>1, <2>1, <2>2
<1> QED
  BY <1>5 DEF Walk, longer

(* The walk does not depend on the answers.                                   *)
LEMMA WalkAnswered ==
  ASSUME NEW calls \in Seq(Call), NEW c \in Call, NEW d \in Call, NEW offered,
         Walk(Append(calls, c), offered), SamePair(c, d), c.try = d.try
  PROVE  Walk(Append(calls, d), offered)
<1>1. /\ Len(Append(calls, c)) = Len(calls) + 1 /\ Len(Append(calls, d)) = Len(calls) + 1
      /\ Append(calls, c)[Len(calls) + 1] = c /\ Append(calls, d)[Len(calls) + 1] = d
      /\ Len(calls) \in Nat
  OBVIOUS
<1>2. \A i \in 1 .. Len(calls) : Append(calls, c)[i] = Append(calls, d)[i]
  OBVIOUS
<1>3. \A i \in 1 .. Len(calls) + 1 : SamePair(Append(calls, c)[i], Append(calls, d)[i])
                                     /\ Append(calls, c)[i].try = Append(calls, d)[i].try
  <2> TAKE i \in 1 .. Len(calls) + 1
  <2>1. CASE i \in 1 .. Len(calls)
    BY <1>2, <2>1 DEF SamePair
  <2>2. CASE i = Len(calls) + 1
    BY <1>1, <2>2
  <2> QED
    BY <1>1, <2>1, <2>2
<1> HIDE DEF Call
<1> DEFINE x == Append(calls, c)
           y == Append(calls, d)
<1>4. Len(x) = Len(y) /\ Len(x) = Len(calls) + 1
  BY <1>1
<1>5. \A i \in 1 .. Len(y) : x[i].cand = y[i].cand /\ x[i].key = y[i].key /\ x[i].try = y[i].try
  BY <1>1, <1>3 DEF SamePair
<1> HIDE DEF x, y
<1>6. Walk(x, offered)
  BY DEF x
<1>7. \A i \in 1 .. Len(y), j \in 1 .. Len(y) : SamePair(x[i], x[j]) <=> SamePair(y[i], y[j])
  BY <1>5 DEF SamePair
<1>8. \A i \in 1 .. Len(y) : \A j \in 1 .. (i - 1) : j \in 1 .. Len(y)
  BY <1>1, <1>4
<1> QED
  BY <1>4, <1>5, <1>6, <1>7, <1>8 DEF Walk, y

(* Nor on the keys offered for a candidate not called yet.                    *)
LEMMA WalkOffered ==
  ASSUME NEW calls, NEW offered, Walk(calls, offered), NEW i, NEW keys,
         \A j \in 1 .. Len(calls) : calls[j].cand # i
  PROVE  Walk(calls, [offered EXCEPT ![i] = keys])
BY DEF Walk

-----------------------------------------------------------------------------
(* Steps of one request *)

(* The attempts of a request are calls.                                       *)
LEMMA AttemptsAreCalls ==
  ASSUME NEW t, Shaped(t), NEW n \in 1 .. Len(t.attempts)
  PROVE  t.attempts[n].cand \in Nat /\ t.attempts[n].key \in Keys
<1>1. t.attempts \in Seq(Call)
  BY DEF Shaped
<1>2. t.attempts[n] \in Call
  BY <1>1
<1> QED
  BY <1>2 DEF Call

(* A request that ends keeps its walk and its attempts.                       *)
LEMMA FinishedOK ==
  ASSUME NEW t, NEW e, Shaped(t), Walk(t.attempts, t.offered),
         t.offered = [i \in 1 .. Len(t.plan) |-> t.offered[i]]
  PROVE  /\ TaskOK(Finished(t, e))
         /\ Finished(t, e).attempts = t.attempts
         /\ Finished(t, e).pc = "done" /\ Finished(t, e).error = e
<1> DEFINE u == Finished(t, e)
<1>0. <<>> \in Seq(Keys)
  OBVIOUS
<1>1. /\ u.attempts = t.attempts /\ u.offered = t.offered /\ u.plan = t.plan
      /\ u.pc = "done" /\ u.error = e
  BY DEF Finished, Shaped
<1>a. Shaped(u)
  BY <1>0 DEF Finished, Shaped
<1> HIDE DEF u
<1>2. Trail(u) = t.attempts
  BY <1>1 DEF Trail
<1>3. TaskOK(u)
  BY <1>1, <1>a, <1>2 DEF TaskOK, Active
<1> QED
  BY <1>1, <1>3 DEF u

(* A request that turns to an untried key continues its walk.                 *)
LEMMA CallKeyOK ==
  ASSUME NEW t, NEW q, Between(t), Untried(t, q), q # <<>>
  PROVE  /\ TaskOK(CallKey(t, q))
         /\ CallKey(t, q).attempts = t.attempts
         /\ CallKey(t, q).pc = "calling" /\ CallKey(t, q).try = 1
         /\ CallKey(t, q).cand = t.cand
         /\ \A i \in 1 .. Len(t.attempts) : ~ SamePair(CallKey(t, q), t.attempts[i])
<1> DEFINE u == CallKey(t, q)
           c == [cand |-> t.cand, key |-> Head(q), try |-> 1, answer |-> NULL]
<1>1. /\ Head(q) = q[1] /\ 1 \in 1 .. Len(q) /\ Head(q) \in Keys /\ Tail(q) \in Seq(Keys)
      /\ Len(Tail(q)) = Len(q) - 1
      /\ \A i \in 1 .. Len(Tail(q)) : Tail(q)[i] = q[i + 1] /\ i + 1 \in 1 .. Len(q)
  BY DEF Untried
<1>2. /\ u.attempts = t.attempts /\ u.offered = t.offered /\ u.plan = t.plan
      /\ u.pc = "calling" /\ u.error = t.error /\ u.key = Head(q) /\ u.queue = Tail(q)
      /\ u.try = 1 /\ u.cand = t.cand
      /\ Shaped(u)
  BY <1>1 DEF CallKey, Between, Shaped, Active
<1> HIDE DEF u
<1>3. t.cand \in Nat \ {0} /\ t.attempts \in Seq(Call)
  BY DEF Between, Shaped, Untried
<1>4. c \in Call
  BY <1>1, <1>3 DEF Call
<1>5. \A i \in 1 .. Len(t.attempts) : ~ SamePair(c, t.attempts[i])
  BY <1>1 DEF Untried, SamePair
<1>6. c.try <= MaxAttempts(c.key)
  <2>1. MaxAttempts(Head(q)) \in Nat \ {0}
    BY <1>1, BudgetType
  <2> QED
    BY <2>1
<1>7. Continues(t.attempts, t.offered, c)
  <2>1. t.cand \in DOMAIN t.offered
    BY DEF Between, Untried
  <2>2. Head(q) \in t.offered[t.cand]
    BY <1>1 DEF Untried
  <2> QED
    BY <1>3, <1>4, <1>5, <1>6, <2>1, <2>2 DEF Continues, Between
<1>8. Trail(u) = Append(t.attempts, c)
  BY <1>2 DEF Trail, Attempted
<1>9. Walk(Trail(u), u.offered)
  BY <1>2, <1>7, <1>8, WalkOn
<1>10. Untried(u, u.queue)
  BY <1>1, <1>2 DEF Untried
<1>11. \A i \in 1 .. Len(u.queue) : u.queue[i] # u.key
  BY <1>1, <1>2 DEF Untried
<1>12. TaskOK(u)
  <2>1. u.offered = [i \in 1 .. Len(u.plan) |-> u.offered[i]]
    BY <1>2 DEF Between
  <2>2. u.key \in Keys /\ u.try \in Nat \ {0}
    BY <1>1, <1>2
  <2>3. u.pc # "idle"
    BY <1>2
  <2> QED
    BY <1>2, <1>9, <1>10, <1>11, <2>1, <2>2, <2>3 DEF TaskOK
<1>13. \A i \in 1 .. Len(t.attempts) : ~ SamePair(u, t.attempts[i])
  BY <1>2, <1>5 DEF SamePair
<1> QED
  BY <1>2, <1>12, <1>13 DEF u

(* The error of a request that found nothing to call is an error.             *)
LEMMA NothingToTryIsError ==
  ASSUME NEW plan, NEW states
  PROVE  NothingToTry(plan, states) # NULL
<1>1. NothingToTry(plan, states) \in {"cooldown_429", "blocked_503", "unavailable_503"}
  BY DEF NothingToTry
<1> QED
  BY <1>1, EngineAssumption DEF Error

(* The next candidate is one further on, with untried keys, or the request    *)
(* has failed.                                                                *)
LEMMA NextCandidateMoves ==
  ASSUME NEW t, Between(t), NEW u \in NextCandidate(t)
  PROVE  MovesOn(t, u)
<1> DEFINE ready == {i \in 1 .. Len(t.plan) : i > t.cand /\ Usable(t.plan[i], t.states) # {}}
<1>1. CASE ready = {}
  <2> DEFINE e == IF t.attempts = <<>> THEN NothingToTry(t.plan, t.states) ELSE t.error
  <2>1. u = Finished(t, e)
    BY <1>1 DEF NextCandidate
  <2>2. e # NULL
    BY NothingToTryIsError DEF Between
  <2> HIDE DEF e
  <2> QED
    BY <2>1, <2>2, FinishedOK DEF MovesOn, Between
<1>2. CASE ready # {}
  <2> DEFINE i == Min(ready)
             keys == Usable(t.plan[i], t.states)
             s == [t EXCEPT !.cand = i, !.offered[i] = keys]
  <2>1. PICK q \in KeyOrders(keys, t.states) : u = CallKey(s, q)
    BY <1>2 DEF NextCandidate
  <2>2. t.cand \in Nat
    BY DEF Between, Shaped
  <2>3. i \in ready
    <3>1. ready \subseteq Nat
      BY <2>2
    <3> HIDE DEF ready
    <3> QED
      BY <1>2, <3>1, LeastPlace
  <2>5. keys \subseteq Keys
    BY DEF Usable
  <2> HIDE DEF i
  <2>4. i \in 1 .. Len(t.plan) /\ i > t.cand /\ keys # {} /\ i \in Nat
    BY <2>2, <2>3
  <2> HIDE DEF keys, ready
  <2>6. /\ q \in Seq(Keys) /\ q # <<>>
        /\ \A m, n \in 1 .. Len(q) : q[m] = q[n] => m = n
        /\ \A n \in 1 .. Len(q) : q[n] \in keys
    <3>1. q \in KeyOrders(keys, t.states)
      BY <2>1
    <3> QED
      BY <2>4, <2>5, <3>1, OrderedKeys
  <2>7. /\ Shaped(s) /\ s.cand = i /\ s.plan = t.plan /\ s.attempts = t.attempts
        /\ s.error = t.error /\ s.offered = [t.offered EXCEPT ![i] = keys]
    BY <2>4 DEF Between, Shaped
  <2> HIDE DEF s
  <2>8. \A n \in 1 .. Len(t.attempts) : t.attempts[n].cand < i /\ t.attempts[n].cand # i
    <3> TAKE n \in 1 .. Len(t.attempts)
    <3>1. t.attempts[n].cand \in Nat /\ t.attempts[n].cand <= t.cand
      BY AttemptsAreCalls DEF Between
    <3> QED
      BY <2>2, <2>4, <3>1
  <2>9. Between(s)
    <3>1. Walk(s.attempts, s.offered)
      <4>1. Walk(t.attempts, t.offered)
        BY DEF Between
      <4>2. Walk(t.attempts, [t.offered EXCEPT ![i] = keys])
        BY <2>8, <4>1, WalkOffered
      <4> QED
        BY <2>7, <4>2
    <3>2. s.offered = [n \in 1 .. Len(s.plan) |-> s.offered[n]]
      BY <2>7 DEF Between
    <3>3. \A n \in 1 .. Len(s.attempts) : s.attempts[n].cand <= s.cand
      <4> SUFFICES ASSUME NEW n \in 1 .. Len(t.attempts) PROVE t.attempts[n].cand <= i
        BY <2>7
      <4>1. t.attempts[n].cand \in Nat
        BY AttemptsAreCalls DEF Between
      <4> QED
        BY <2>4, <2>8, <4>1
    <3> QED
      BY <2>7, <3>1, <3>2, <3>3 DEF Between
  <2>10. Untried(s, q)
    <3>1. s.offered[s.cand] = keys
      BY <2>4, <2>7 DEF Between
    <3> QED
      BY <2>4, <2>6, <2>7, <2>8, <3>1 DEF Untried
  <2> QED
    BY <2>1, <2>2, <2>4, <2>6, <2>7, <2>9, <2>10, CallKeyOK DEF MovesOn
<1> QED
  BY <1>1, <1>2

(* The next key is the next of the queue, or the next candidate's first.      *)
LEMMA NextKeyMoves ==
  ASSUME NEW t, Between(t), Untried(t, t.queue), NEW u \in NextKey(t)
  PROVE  MovesOn(t, u)
<1>1. CASE t.queue = <<>>
  BY <1>1, NextCandidateMoves DEF NextKey
<1>2. CASE t.queue # <<>>
  <2>1. u = CallKey(t, t.queue)
    BY <1>2 DEF NextKey
  <2>2. t.cand \in Nat
    BY DEF Between, Shaped
  <2> QED
    BY <1>2, <2>1, <2>2, CallKeyOK DEF MovesOn
<1> QED
  BY <1>1, <1>2

(* The attempt whose call has just returned, and a request that goes on from   *)
(* it: past the key, or back to it within its budget when it backs off.       *)
Return(t, answer) ==
  [t EXCEPT !.attempts = Attempted(t, answer), !.error = answer]

GoesOn(t, u, answer) ==
  /\ TaskOK(u)
  /\ u.attempts = Attempted(t, answer)
  /\ u.pc = "sleeping" <=> Verdict(t, answer) = "back_off"
  /\ \/ u.pc = "done" /\ u.error # NULL
     \/ /\ u.pc = "calling" /\ u.try = 1 /\ u.cand >= t.cand
        /\ \A i \in 1 .. Len(u.attempts) : ~ SamePair(u, u.attempts[i])
     \/ /\ u.pc = "sleeping" /\ SamePair(u, t) /\ u.try = t.try + 1
        /\ t.try < MaxAttempts(t.key)

(* The answer turns the current call into an attempt of the same walk.        *)
LEMMA ReturnBetween ==
  ASSUME NEW t, TaskOK(t), t.pc = "calling", NEW answer \in Answer
  PROVE  /\ Shaped(Return(t, answer))
         /\ Walk(Attempted(t, answer), t.offered)
         /\ answer # "success" => Between(Return(t, answer))
         /\ Untried(Return(t, answer), t.queue)
         /\ Attempted(t, answer) \in Seq(Call)
         /\ Len(Attempted(t, answer)) = Len(t.attempts) + 1
         /\ SamePair(Attempted(t, answer)[Len(t.attempts) + 1], t)
         /\ Attempted(t, answer)[Len(t.attempts) + 1].try = t.try
<1> DEFINE u == Return(t, answer)
           c == [cand |-> t.cand, key |-> t.key, try |-> t.try, answer |-> NULL]
           d == [cand |-> t.cand, key |-> t.key, try |-> t.try, answer |-> answer]
           more == Append(t.attempts, d)
<1>1. /\ Shaped(t) /\ Untried(t, t.queue) /\ Walk(Trail(t), t.offered)
      /\ t.key \in Keys /\ t.try \in Nat \ {0}
      /\ \A i \in 1 .. Len(t.queue) : t.queue[i] # t.key
      /\ t.offered = [i \in 1 .. Len(t.plan) |-> t.offered[i]]
  BY DEF TaskOK, Active
<1>2. t.attempts \in Seq(Call) /\ t.cand \in Nat \ {0}
  BY <1>1 DEF Shaped, Untried
<1>3. c \in Call /\ d \in Call
  BY <1>1, <1>2 DEF Call
<1>4. Trail(t) = Append(t.attempts, c) /\ Attempted(t, answer) = more
  BY DEF Trail, Attempted
<1>5. Walk(more, t.offered)
  <2>1. SamePair(c, d) /\ c.try = d.try
    BY DEF SamePair
  <2>2. Walk(Append(t.attempts, c), t.offered)
    BY <1>1, <1>4
  <2> HIDE DEF c, d
  <2> QED
    BY <1>2, <1>3, <2>1, <2>2, WalkAnswered
<1>6. /\ more \in Seq(Call) /\ Len(more) = Len(t.attempts) + 1
      /\ more[Len(t.attempts) + 1] = d
      /\ \A i \in 1 .. Len(t.attempts) : more[i] = t.attempts[i]
  BY <1>2, <1>3
<1> HIDE DEF more
<1>7. /\ u.attempts = more /\ u.offered = t.offered /\ u.plan = t.plan /\ u.cand = t.cand
      /\ u.queue = t.queue /\ u.error = answer
      /\ Shaped(u)
  BY <1>1, <1>4, <1>6 DEF Return, Shaped, Active
<1> HIDE DEF u
<1>8. \A i \in 1 .. Len(more) : i \in 1 .. Len(t.attempts) \/ i = Len(t.attempts) + 1
  BY <1>2, <1>6
<1>9. Untried(u, t.queue)
  <2>1. \A i \in 1 .. Len(more), j \in 1 .. Len(t.queue) :
          more[i].cand = t.cand => more[i].key # t.queue[j]
    <3> SUFFICES ASSUME NEW i \in 1 .. Len(more), NEW j \in 1 .. Len(t.queue),
                        more[i].cand = t.cand
                 PROVE  more[i].key # t.queue[j]
      OBVIOUS
    <3>1. CASE i \in 1 .. Len(t.attempts)
      BY <1>1, <1>6, <3>1 DEF Untried
    <3>2. CASE i = Len(t.attempts) + 1
      BY <1>1, <1>6, <3>2
    <3> QED
      BY <1>8, <3>1, <3>2
  <2> QED
    BY <1>1, <1>7, <2>1 DEF Untried
<1>10. \A i \in 1 .. Len(more) : more[i].cand <= t.cand
  <2> SUFFICES ASSUME NEW i \in 1 .. Len(more) PROVE more[i].cand <= t.cand
    OBVIOUS
  <2>1. CASE i = Len(t.attempts) + 1
    BY <1>2, <1>6, <2>1
  <2>2. CASE i \in 1 .. Len(t.attempts)
    <3>1. i \in 1 .. (Len(more) - 1) /\ Len(more) \in 1 .. Len(more)
      BY <1>2, <1>6, <2>2
    <3>2. more[i].cand <= more[Len(more)].cand
      BY <1>5, <3>1 DEF Walk
    <3> QED
      BY <1>6, <3>2
  <2> QED
    BY <1>8, <2>1, <2>2
<1>11. answer # "success" => answer # NULL
  BY EngineAssumption DEF Error
<1>12. answer # "success" => Between(u)
  BY <1>1, <1>5, <1>7, <1>10, <1>11 DEF Between
<1> QED
  BY <1>4, <1>5, <1>6, <1>7, <1>9, <1>12 DEF SamePair, u

(* A pause before the same key is called again leaves it within its budget.   *)
LEMMA SleepOnKeyOK ==
  ASSUME NEW t, TaskOK(t), t.pc = "calling", NEW answer \in Answer, answer # "success",
         t.try < MaxAttempts(t.key), Verdict(t, answer) = "back_off"
  PROVE  GoesOn(t, SleepOnKey(Return(t, answer)), answer)
<1> DEFINE s == Return(t, answer)
           u == SleepOnKey(s)
           calls == Attempted(t, answer)
           n == Len(t.attempts) + 1
           c == [cand |-> t.cand, key |-> t.key, try |-> t.try + 1, answer |-> NULL]
<1>1. /\ Shaped(t) /\ t.key \in Keys /\ t.try \in Nat \ {0}
      /\ t.cand \in Nat \ {0} /\ t.queue \in Seq(Keys)
      /\ \A i \in 1 .. Len(t.queue) : t.queue[i] # t.key
  BY DEF TaskOK, Active, Untried, Shaped
<1>2. /\ Shaped(s) /\ Between(s) /\ Untried(s, t.queue)
      /\ calls \in Seq(Call) /\ Len(calls) = n
      /\ SamePair(calls[n], t) /\ calls[n].try = t.try
  BY ReturnBetween
<1>3. /\ s.attempts = calls /\ s.offered = t.offered /\ s.plan = t.plan /\ s.cand = t.cand
      /\ s.queue = t.queue /\ s.key = t.key /\ s.try = t.try
  BY <1>1 DEF Return, Shaped
<1> HIDE DEF s
<1>4. /\ u.pc = "sleeping" /\ u.try = t.try + 1 /\ u.attempts = calls /\ u.offered = s.offered
      /\ u.plan = s.plan /\ u.cand = t.cand /\ u.queue = t.queue /\ u.key = t.key
      /\ u.error = s.error
  BY <1>2, <1>3 DEF SleepOnKey, Shaped
<1>5. Shaped(u)
  <2>1. s.try + 1 \in Nat
    BY <1>1, <1>3
  <2> QED
    BY <1>2, <2>1 DEF SleepOnKey, Shaped, Active
<1> HIDE DEF u, calls
<1>6. Continues(calls, u.offered, c)
  <2>1. c \in Call
    BY <1>1 DEF Call
  <2>2. Walk(calls, u.offered) /\ \A i \in 1 .. Len(calls) : calls[i].cand <= c.cand
    BY <1>2, <1>3, <1>4 DEF Between
  <2>3. MaxAttempts(t.key) \in Nat /\ c.try <= MaxAttempts(c.key)
    BY <1>1, BudgetType
  <2>4. n \in 1 .. Len(calls) /\ Len(calls) = n
    BY <1>1, <1>2 DEF Shaped
  <2>5. calls[n].cand = t.cand /\ calls[n].key = t.key
    BY <1>2 DEF SamePair
  <2>6. c.cand \in DOMAIN u.offered /\ c.key \in u.offered[c.cand]
    BY <2>2, <2>4, <2>5 DEF Walk
  <2>7. calls # <<>> /\ SamePair(c, calls[Len(calls)]) /\ c.try = calls[Len(calls)].try + 1
    BY <1>2, <2>4, <2>5 DEF SamePair
  <2> QED
    BY <1>2, <2>1, <2>2, <2>3, <2>6, <2>7 DEF Continues
<1>7. Trail(u) = Append(calls, c)
  BY <1>4 DEF Trail, Attempted
<1>8. Walk(Trail(u), u.offered)
  BY <1>6, <1>7, WalkOn
<1>9. Untried(u, u.queue)
  BY <1>2, <1>3, <1>4 DEF Untried
<1>10. u.offered = [i \in 1 .. Len(u.plan) |-> u.offered[i]]
  BY <1>2, <1>4 DEF Between
<1>11. u.key \in Keys /\ u.try \in Nat \ {0}
  BY <1>1, <1>4
<1>12. TaskOK(u)
  BY <1>1, <1>4, <1>5, <1>8, <1>9, <1>10, <1>11 DEF TaskOK
<1>13. SamePair(u, t)
  BY <1>4 DEF SamePair
<1> QED
  BY <1>4, <1>12, <1>13 DEF GoesOn, u, s, calls

(* The verdict decides where a request goes after a failure; whatever it is,  *)
(* the request goes on as GoesOn says.                                        *)
LEMMA OnwardGoesOn ==
  ASSUME NEW t, TaskOK(t), t.pc = "calling", NEW answer \in Answer, answer # "success",
         NEW u \in Onward(Return(t, answer), Verdict(t, answer))
  PROVE  GoesOn(t, u, answer)
<1> DEFINE s == Return(t, answer)
<1>1. /\ Shaped(s) /\ Between(s) /\ Untried(s, t.queue)
      /\ Walk(Attempted(t, answer), t.offered)
  BY ReturnBetween
<1>2. /\ s.attempts = Attempted(t, answer) /\ s.offered = t.offered /\ s.plan = t.plan
      /\ s.cand = t.cand /\ s.queue = t.queue
  BY DEF TaskOK, Return, Shaped
<1>3. ASSUME MovesOn(s, u), Verdict(t, answer) # "back_off" PROVE GoesOn(t, u, answer)
  BY <1>2, <1>3 DEF MovesOn, GoesOn
<1>4. CASE Verdict(t, answer) = "back_off"
  <2>1. t.try < MaxAttempts(t.key)
    BY <1>4 DEF Verdict
  <2>2. u = SleepOnKey(s)
    BY <1>4 DEF Onward
  <2> QED
    BY <1>4, <2>1, <2>2, SleepOnKeyOK
<1>5. CASE Verdict(t, answer) = "switch_provider"
  <2>1. u \in NextCandidate(s)
    BY <1>5 DEF Onward
  <2> QED
    BY <1>1, <1>3, <1>5, <2>1, NextCandidateMoves
<1>6. CASE Verdict(t, answer) = "stop"
  <2>1. u = Finished(s, "free_tier_stop")
    BY <1>6 DEF Onward
  <2>2. "free_tier_stop" # NULL
    BY EngineAssumption DEF Error
  <2>3. s.offered = [i \in 1 .. Len(s.plan) |-> s.offered[i]] /\ Walk(s.attempts, s.offered)
    BY <1>1, <1>2 DEF Between
  <2> QED
    BY <1>1, <1>2, <1>3, <1>6, <2>1, <2>2, <2>3, FinishedOK DEF MovesOn
<1>7. CASE Verdict(t, answer) \notin {"back_off", "switch_provider", "stop"}
  <2>1. u \in NextKey(s)
    BY <1>7 DEF Onward
  <2> QED
    BY <1>1, <1>2, <1>3, <1>7, <2>1, NextKeyMoves
<1> QED
  BY <1>4, <1>5, <1>6, <1>7

(* A failure moves one request on.                                            *)
LEMMA FailStep ==
  ASSUME Inv, NEW r \in Requests, NEW answer \in Answers \ {"success"}, Fail(r, answer)
  PROVE  /\ task[r].pc = "calling" /\ answer \in Answer
         /\ \E u : GoesOn(task[r], u, answer) /\ task' = [task EXCEPT ![r] = u]
<1>1. TaskOK(task[r]) /\ task[r].pc = "calling" /\ answer \in Answer /\ answer # "success"
  BY EngineAssumption DEF Inv, Fail
<1>2. PICK u \in Onward(Return(task[r], answer), Verdict(task[r], answer)) :
        task' = [task EXCEPT ![r] = u]
  BY DEF Fail, Return
<1> QED
  BY <1>1, <1>2, OnwardGoesOn

(* A request that arrives calls its first key, or fails at once.              *)
LEMMA ArriveStep ==
  ASSUME Inv, NEW r \in Requests, Arrive(r)
  PROVE  /\ task[r].pc = "idle" /\ task[r].attempts = <<>> /\ task[r].error = NULL
         /\ \E u : /\ TaskOK(u) /\ u.attempts = <<>>
                  /\ \/ u.pc = "done" /\ u.error # NULL
                     \/ u.pc = "calling" /\ u.try = 1
                  /\ task' = [task EXCEPT ![r] = u]
<1>1. TaskOK(task[r]) /\ task[r].pc = "idle"
  BY DEF Inv, Arrive
<1>2. /\ task[r].attempts = <<>> /\ task[r].error = NULL /\ task[r].cand = 0
      /\ Shaped(task[r])
  BY <1>1 DEF TaskOK
<1>3. PICK route, plan :
        LET cands == Budgeted(Unquarantined(Prioritized(plan, route)), route)
            t == [task[r] EXCEPT !.route = route, !.plan = cands, !.states = row,
                                 !.offered = [i \in 1 .. Len(cands) |-> {}]]
        IN  \E u \in NextCandidate(t) : task' = [task EXCEPT ![r] = u]
  BY DEF Arrive
<1> DEFINE cands == Budgeted(Unquarantined(Prioritized(plan, route)), route)
           t == [task[r] EXCEPT !.route = route, !.plan = cands, !.states = row,
                                !.offered = [i \in 1 .. Len(cands) |-> {}]]
<1>4. PICK u \in NextCandidate(t) : task' = [task EXCEPT ![r] = u]
  BY <1>3
<1> HIDE DEF cands
<1>5. /\ t.plan = cands /\ t.offered = [i \in 1 .. Len(cands) |-> {}]
      /\ t.attempts = <<>> /\ t.cand = 0
      /\ Shaped(t)
  BY <1>2 DEF Shaped
<1> HIDE DEF t
<1>6. Between(t)
  <2>1. Walk(<<>>, t.offered)
    BY DEF Walk
  <2>2. t.offered = [i \in 1 .. Len(t.plan) |-> t.offered[i]]
    BY <1>5
  <2> QED
    BY <1>5, <2>1, <2>2 DEF Between
<1>7. MovesOn(t, u)
  BY <1>6, NextCandidateMoves
<1> QED
  BY <1>1, <1>2, <1>4, <1>5, <1>7 DEF MovesOn

(* A good answer ends the request.                                            *)
LEMMA SucceedStep ==
  ASSUME Inv, NEW r \in Requests, Succeed(r)
  PROVE  /\ task[r].pc = "calling"
         /\ \E u : /\ TaskOK(u) /\ u.attempts = Attempted(task[r], "success")
                  /\ u.pc = "done" /\ u.error = NULL
                  /\ task' = [task EXCEPT ![r] = u]
<1> DEFINE t == task[r]
           s == [t EXCEPT !.attempts = Attempted(t, "success")]
           u == Finished(s, NULL)
<1>1. TaskOK(t) /\ t.pc = "calling" /\ task' = [task EXCEPT ![r] = u]
  BY DEF Inv, Succeed
<1>2. "success" \in Answer
  BY DEF Answer
<1> HIDE DEF t
<1>3. Walk(Attempted(t, "success"), t.offered) /\ Attempted(t, "success") \in Seq(Call)
  BY <1>1, <1>2, ReturnBetween
<1>4. Shaped(t) /\ t.offered = [i \in 1 .. Len(t.plan) |-> t.offered[i]]
  BY <1>1 DEF TaskOK
<1>5. /\ s.attempts = Attempted(t, "success") /\ s.offered = t.offered /\ s.plan = t.plan
      /\ Shaped(s)
  BY <1>3, <1>4 DEF Shaped
<1> HIDE DEF s
<1>6. TaskOK(u) /\ u.attempts = s.attempts /\ u.pc = "done" /\ u.error = NULL
  BY <1>3, <1>4, <1>5, FinishedOK
<1> QED
  BY <1>1, <1>5, <1>6 DEF t

(* A request that wakes is where it was.                                      *)
LEMMA WakeStep ==
  ASSUME Inv, NEW r \in Requests, Wake(r)
  PROVE  \E u : /\ TaskOK(u) /\ u.attempts = task[r].attempts /\ u.error = task[r].error
              /\ task[r].pc = "sleeping" /\ u.pc = "calling"
              /\ SamePair(u, task[r]) /\ u.try = task[r].try
              /\ task' = [task EXCEPT ![r] = u]
<1> DEFINE t == task[r]
           u == [t EXCEPT !.pc = "calling"]
<1>1. TaskOK(t) /\ t.pc = "sleeping" /\ task' = [task EXCEPT ![r] = u]
  BY DEF Inv, Wake
<1> HIDE DEF t
<1>2. /\ u.pc = "calling" /\ u.attempts = t.attempts /\ u.error = t.error /\ u.cand = t.cand
      /\ u.key = t.key /\ u.try = t.try /\ u.queue = t.queue /\ u.offered = t.offered
      /\ u.plan = t.plan
      /\ Shaped(u)
  BY <1>1 DEF TaskOK, Shaped, Active
<1> HIDE DEF u
<1>3. Trail(u) = Trail(t)
  BY <1>1, <1>2 DEF Trail, Attempted
<1>4. Untried(u, u.queue)
  <2>1. Untried(t, t.queue)
    BY <1>1 DEF TaskOK, Active
  <2> QED
    BY <1>2, <2>1 DEF Untried
<1>5. TaskOK(u)
  BY <1>1, <1>2, <1>3, <1>4 DEF TaskOK, Active
<1> QED
  BY <1>1, <1>2, <1>5 DEF SamePair, t

-----------------------------------------------------------------------------
(* The invariant *)

(* No step disturbs what a request carries with it.                           *)
LEMMA NextInv == Inv /\ [Next]_vars => Inv'
<1> SUFFICES ASSUME Inv, [Next]_vars PROVE Inv'
  OBVIOUS
<1>1. ASSUME NEW r \in Requests, NEW u, TaskOK(u), task' = [task EXCEPT ![r] = u] PROVE Inv'
  <2>1. task = [q \in Requests |-> task[q]] /\ \A q \in Requests : TaskOK(task[q])
    BY DEF Inv
  <2>2. task' = [q \in Requests |-> IF q = r THEN u ELSE task[q]]
    BY <1>1, <2>1
  <2>3. \A q \in Requests : TaskOK(task'[q])
    BY <1>1, <2>1, <2>2
  <2> QED
    BY <2>2, <2>3 DEF Inv
<1>2. ASSUME task' = task PROVE Inv'
  BY <1>2 DEF Inv
<1>3. ASSUME NEW r \in Requests, Arrive(r) PROVE Inv'
  BY <1>1, <1>3, ArriveStep
<1>4. ASSUME NEW r \in Requests, Succeed(r) PROVE Inv'
  BY <1>1, <1>4, SucceedStep
<1>5. ASSUME NEW r \in Requests, Wake(r) PROVE Inv'
  BY <1>1, <1>5, WakeStep
<1>6. ASSUME NEW r \in Requests, NEW answer \in Answers \ {"success"}, Fail(r, answer)
      PROVE  Inv'
  <2>1. PICK u : GoesOn(task[r], u, answer) /\ task' = [task EXCEPT ![r] = u]
    BY <1>6, FailStep, Zenon
  <2> QED
    BY <1>1, <2>1 DEF GoesOn
<1>7. CASE Tick
  BY <1>2, <1>7 DEF Tick
<1>8. CASE AllServed
  BY <1>2, <1>8 DEF AllServed, vars
<1>9. CASE UNCHANGED vars
  BY <1>2, <1>9 DEF vars
<1> QED
  BY <1>3, <1>4, <1>5, <1>6, <1>7, <1>8, <1>9 DEF Next

(* An idle request has nothing to disturb.                                    *)
LEMMA InitInv == Init => Inv
<1> SUFFICES ASSUME Init PROVE Inv
  OBVIOUS
<1>1. ASSUME NEW r \in Requests PROVE TaskOK(task[r])
  <2> DEFINE t == task[r]
  <2>1. t = [pc |-> "idle", route |-> NULL, plan |-> <<>>, states |-> row, cand |-> 0,
             key |-> NULL, queue |-> <<>>, try |-> 0, offered |-> <<>>, attempts |-> <<>>,
             error |-> NULL]
    BY DEF Init
  <2> HIDE DEF t
  <2>2. Shaped(t)
    <3>1. <<>> \in Seq(Keys) /\ <<>> \in Seq(Call)
      OBVIOUS
    <3> QED
      BY <2>1, <3>1 DEF Shaped
  <2>3. t.offered = [i \in 1 .. Len(t.plan) |-> t.offered[i]]
    BY <2>1
  <2>4. Trail(t) = <<>>
    BY <2>1 DEF Trail
  <2>5. Walk(Trail(t), t.offered)
    BY <2>4 DEF Walk
  <2> QED
    BY <2>1, <2>2, <2>3, <2>5 DEF TaskOK, Active, t
<1> QED
  BY <1>1 DEF Init, Inv

(* Every request always carries with it what keeps its next call from going   *)
(* back: its queue holds distinct offered keys that it has not called for     *)
(* this candidate, and its calls so far walk the plan.                        *)
THEOREM Carried == Spec => []Inv
BY InitInv, NextInv, PTL DEF Spec

(* The calls of every request walk its plan once, whatever the providers       *)
(* answer, the policy says and the other requests do (execute, _execute_key   *)
(* and the candidate loop of the engine).                                     *)
THEOREM AlwaysWalksPlanOnce == Spec => []WalksPlanOnce
<1>1. Inv => WalksPlanOnce
  <2> SUFFICES ASSUME Inv, NEW r \in Requests
               PROVE  LET calls == Trail(task[r])
                          same(i, j) == calls[i].cand = calls[j].cand
                                        /\ calls[i].key = calls[j].key
                      IN  \A i \in DOMAIN calls :
                            /\ calls[i].try <= MaxAttempts(calls[i].key)
                            /\ calls[i].key \in task[r].offered[calls[i].cand]
                            /\ \A j \in 1 .. (i - 1) :
                                 /\ calls[j].cand <= calls[i].cand
                                 /\ same(i, j) <=> calls[i].try + j = calls[j].try + i
    BY DEF WalksPlanOnce
  <2> DEFINE calls == Trail(task[r])
  <2>1. TaskOK(task[r])
    BY DEF Inv
  <2>2. Walk(calls, task[r].offered)
    BY <2>1 DEF TaskOK
  <2>3. DOMAIN calls = 1 .. Len(calls)
    <3>1. task[r].attempts \in Seq(Call)
      BY <2>1 DEF TaskOK, Shaped
    <3> QED
      BY <3>1 DEF Trail, Attempted
  <2> HIDE DEF calls
  <2> QED
    BY <2>2, <2>3 DEF Walk, SamePair, calls
<1> QED
  BY <1>1, Carried, PTL

-----------------------------------------------------------------------------
(* Failover *)

Calls == [r \in Requests |-> CurrentCall(task[r])]

Left == [r \in Requests |-> LeftPairs(task[r])]

Outcomes == [r \in Requests |-> Outcome(task[r])]

(* A step of one request is a step of its call, its pairs and its outcome.    *)
LEMMA OneRequest ==
  ASSUME Inv, NEW r \in Requests, NEW u, task' = [task EXCEPT ![r] = u]
  PROVE  /\ Calls' = [Calls EXCEPT ![r] = CurrentCall(u)]
         /\ Left' = [Left EXCEPT ![r] = LeftPairs(u)]
         /\ Outcomes' = [Outcomes EXCEPT ![r] = Outcome(u)]
<1>1. task = [q \in Requests |-> task[q]]
  BY DEF Inv
<1>2. task' = [q \in Requests |-> IF q = r THEN u ELSE task[q]]
  BY <1>1
<1>3. task'[r] = u /\ \A q \in Requests : q # r => task'[q] = task[q]
  BY <1>2
<1>4. Calls' = [Calls EXCEPT ![r] = CurrentCall(u)]
  <2>1. Calls' = [q \in Requests |-> CurrentCall(task'[q])]
    BY DEF Calls
  <2>2. [Calls EXCEPT ![r] = CurrentCall(u)]
          = [q \in Requests |-> IF q = r THEN CurrentCall(u) ELSE CurrentCall(task[q])]
    BY DEF Calls
  <2>3. \A q \in Requests :
          CurrentCall(task'[q]) = IF q = r THEN CurrentCall(u) ELSE CurrentCall(task[q])
    BY <1>3
  <2> QED
    BY <2>1, <2>2, <2>3
<1>5. Left' = [Left EXCEPT ![r] = LeftPairs(u)]
  <2>1. Left' = [q \in Requests |-> LeftPairs(task'[q])]
    BY DEF Left
  <2>2. [Left EXCEPT ![r] = LeftPairs(u)]
          = [q \in Requests |-> IF q = r THEN LeftPairs(u) ELSE LeftPairs(task[q])]
    BY DEF Left
  <2>3. \A q \in Requests :
          LeftPairs(task'[q]) = IF q = r THEN LeftPairs(u) ELSE LeftPairs(task[q])
    BY <1>3
  <2> QED
    BY <2>1, <2>2, <2>3
<1>6. Outcomes' = [Outcomes EXCEPT ![r] = Outcome(u)]
  <2>1. Outcomes' = [q \in Requests |-> Outcome(task'[q])]
    BY DEF Outcomes
  <2>2. [Outcomes EXCEPT ![r] = Outcome(u)]
          = [q \in Requests |-> IF q = r THEN Outcome(u) ELSE Outcome(task[q])]
    BY DEF Outcomes
  <2>3. \A q \in Requests :
          Outcome(task'[q]) = IF q = r THEN Outcome(u) ELSE Outcome(task[q])
    BY <1>3
  <2> QED
    BY <2>1, <2>2, <2>3
<1> QED
  BY <1>4, <1>5, <1>6

(* The pairs of a request's attempts, and what one more attempt adds.         *)
LEMMA PairsOfAttempts ==
  ASSUME NEW t, Shaped(t), NEW answer \in Answer, t.key \in Keys, t.try \in Nat \ {0},
         t.cand \in Nat \ {0}
  PROVE  {<<a.cand, a.key>> : a \in ToSet(Attempted(t, answer))}
           = {<<a.cand, a.key>> : a \in ToSet(t.attempts)} \cup {<<t.cand, t.key>>}
<1> DEFINE d == [cand |-> t.cand, key |-> t.key, try |-> t.try, answer |-> answer]
<1>1. t.attempts \in Seq(Call) /\ d \in Call
  BY DEF Shaped, Call
<1>2. Attempted(t, answer) = Append(t.attempts, d)
  BY DEF Attempted
<1>3. ToSet(Append(t.attempts, d)) = ToSet(t.attempts) \cup {d}
  <2> DEFINE more == Append(t.attempts, d)
  <2>1. /\ DOMAIN more = 1 .. Len(t.attempts) + 1 /\ more[Len(t.attempts) + 1] = d
        /\ \A i \in 1 .. Len(t.attempts) : more[i] = t.attempts[i]
        /\ DOMAIN t.attempts = 1 .. Len(t.attempts) /\ Len(t.attempts) \in Nat
    BY <1>1
  <2> HIDE DEF more, d
  <2>2. \A i : i \in DOMAIN more <=> i \in DOMAIN t.attempts \/ i = Len(t.attempts) + 1
    BY <2>1
  <2>3. ToSet(more) \subseteq ToSet(t.attempts) \cup {d}
    BY <2>1, <2>2 DEF ToSet
  <2>4. ToSet(t.attempts) \cup {d} \subseteq ToSet(more)
    BY <2>1, <2>2 DEF ToSet
  <2> QED
    BY <2>3, <2>4 DEF more
<1>4. <<d.cand, d.key>> = <<t.cand, t.key>>
  OBVIOUS
<1> HIDE DEF d
<1> QED
  BY <1>2, <1>3, <1>4

(* A pair that differs from those of all attempts is none of them.            *)
LEMMA NewPair ==
  ASSUME NEW u, NEW calls \in Seq(Call),
         \A i \in 1 .. Len(calls) : ~ SamePair(u, calls[i])
  PROVE  <<u.cand, u.key>> \notin {<<a.cand, a.key>> : a \in ToSet(calls)}
BY DEF ToSet, SamePair

(* The current call of a request is one of Failover's.                        *)
LEMMA CurrentCallType ==
  ASSUME NEW u, TaskOK(u), u.pc \in Active
  PROVE  /\ CurrentCall(u) = [cand |-> u.cand, key |-> u.key, try |-> u.try]
         /\ CurrentCall(u) \in Abstract!Call /\ CurrentCall(u) # NULL
         /\ u.cand \in Nat \ {0} /\ u.key \in Keys /\ u.try \in Nat \ {0}
<1>1. u.cand \in Nat \ {0} /\ u.key \in Keys /\ u.try \in Nat \ {0}
  BY DEF TaskOK, Untried, Shaped
<1>2. CurrentCall(u) = [cand |-> u.cand, key |-> u.key, try |-> u.try]
  BY DEF CurrentCall, Active
<1>3. CurrentCall(u) \in [cand : Nat, key : Keys, try : Nat]
  BY <1>1, <1>2
<1>4. CurrentCall(u) # NULL
  BY <1>3, EngineAssumption
<1> QED
  BY <1>1, <1>2, <1>4 DEF Abstract!Call

(* Arriving begins the walk or ends it.                                       *)
LEMMA ArriveImplements ==
  ASSUME Inv, NEW r \in Requests, Arrive(r)
  PROVE  Abstract!Begin(r) \/ Abstract!Refuse(r)
<1> DEFINE t == task[r]
<1>1. PICK u : /\ TaskOK(u) /\ u.attempts = <<>>
               /\ \/ u.pc = "done" /\ u.error # NULL
                  \/ u.pc = "calling" /\ u.try = 1
               /\ task' = [task EXCEPT ![r] = u]
  BY ArriveStep
<1>2. t.pc = "idle" /\ t.attempts = <<>>
  BY ArriveStep
<1>3. CurrentCall(t) = NULL /\ Outcome(t) = NULL /\ LeftPairs(t) = {}
  BY <1>2 DEF CurrentCall, Outcome, LeftPairs, ToSet
<1>4. LeftPairs(u) = {}
  BY <1>1 DEF LeftPairs, ToSet
<1>5. /\ Calls' = [Calls EXCEPT ![r] = CurrentCall(u)]
      /\ Left' = [Left EXCEPT ![r] = LeftPairs(u)]
      /\ Outcomes' = [Outcomes EXCEPT ![r] = Outcome(u)]
  BY <1>1, OneRequest
<1>6. Calls[r] = NULL /\ Left[r] = {} /\ Outcomes[r] = NULL
  BY <1>3 DEF Calls, Left, Outcomes
<1>7. Left' = Left
  BY <1>4, <1>5, <1>6 DEF Left
<1>8. CASE u.pc = "done"
  <2>1. CurrentCall(u) = NULL /\ Outcome(u) = "failed"
    BY <1>1, <1>8 DEF CurrentCall, Outcome
  <2>2. Calls' = Calls
    BY <1>5, <1>6, <2>1 DEF Calls
  <2> QED
    BY <1>5, <1>6, <1>7, <2>1, <2>2
       DEF Abstract!Refuse, Abstract!Unborn, Calls, Left, Outcomes
<1>9. CASE u.pc = "calling"
  <2>1. Outcome(u) = NULL
    BY <1>9 DEF Outcome
  <2>2. Outcomes' = Outcomes
    BY <1>5, <1>6, <2>1 DEF Outcomes
  <2>3. CurrentCall(u) \in Abstract!Call /\ CurrentCall(u).try = 1
    BY <1>1, <1>9, CurrentCallType DEF Active
  <2>4. Calls'[r] = CurrentCall(u)
    BY <1>5 DEF Calls
  <2> QED
    BY <1>5, <1>6, <1>7, <2>2, <2>3, <2>4
       DEF Abstract!Begin, Abstract!Unborn, Abstract!Calls, Calls, Left, Outcomes
<1> QED
  BY <1>1, <1>8, <1>9

(* Ending a call, served or failed, leaves its pair.                          *)
LEMMA EndImplements ==
  ASSUME Inv, NEW r \in Requests, NEW u, NEW answer \in Answer, task[r].pc = "calling",
         u.pc = "done", u.attempts = Attempted(task[r], answer),
         task' = [task EXCEPT ![r] = u]
  PROVE  Abstract!End(r)
<1> DEFINE t == task[r]
<1>1. TaskOK(t) /\ t.pc = "calling"
  BY DEF Inv
<1>2. /\ CurrentCall(t) = [cand |-> t.cand, key |-> t.key, try |-> t.try]
      /\ CurrentCall(t) # NULL
      /\ t.cand \in Nat \ {0} /\ t.key \in Keys /\ t.try \in Nat \ {0}
  BY <1>1, CurrentCallType DEF Active
<1>3. LeftPairs(u) = LeftPairs(t) \cup {<<t.cand, t.key>>}
  <2>1. LeftPairs(u) = {<<a.cand, a.key>> : a \in ToSet(t.attempts)} \cup {<<t.cand, t.key>>}
    <3>1. LeftPairs(u) = {<<a.cand, a.key>> : a \in ToSet(Attempted(t, answer))}
      BY DEF LeftPairs
    <3>2. Shaped(t)
      BY <1>1 DEF TaskOK
    <3> QED
      BY <1>2, <3>1, <3>2, PairsOfAttempts
  <2>2. LeftPairs(t) = {<<a.cand, a.key>> : a \in ToSet(t.attempts)} \ {<<t.cand, t.key>>}
    BY <1>1 DEF LeftPairs
  <2> QED
    BY <2>1, <2>2
<1>4. CurrentCall(u) = NULL
  BY DEF CurrentCall
<1>5. Outcome(u) \in {"served", "failed"}
  BY DEF Outcome
<1>6. /\ Calls' = [Calls EXCEPT ![r] = NULL]
      /\ Left' = [Left EXCEPT ![r] = LeftPairs(t) \cup {<<t.cand, t.key>>}]
      /\ Outcomes' = [Outcomes EXCEPT ![r] = Outcome(u)]
  <2>1. /\ Calls' = [Calls EXCEPT ![r] = CurrentCall(u)]
        /\ Left' = [Left EXCEPT ![r] = LeftPairs(u)]
        /\ Outcomes' = [Outcomes EXCEPT ![r] = Outcome(u)]
    BY OneRequest
  <2> QED
    BY <1>3, <1>4, <2>1
<1>7. Calls[r] = CurrentCall(t) /\ Left[r] = LeftPairs(t)
  BY DEF Calls, Left
<1>8. Abstract!Pair(Calls[r]) = <<t.cand, t.key>>
  BY <1>2, <1>7 DEF Abstract!Pair
<1>9. Left' = [Left EXCEPT ![r] = Left[r] \cup {Abstract!Pair(Calls[r])}]
  BY <1>6, <1>7, <1>8
<1> HIDE DEF t
<1> QED
  BY <1>2, <1>5, <1>6, <1>7, <1>9 DEF Abstract!End, Calls, Left, Outcomes

(* Going on after a failure: the same key again, another pair, or the end.    *)
LEMMA FailImplements ==
  ASSUME Inv, NEW r \in Requests, NEW answer \in Answers \ {"success"}, Fail(r, answer)
  PROVE  Abstract!Again(r) \/ Abstract!MoveOn(r) \/ Abstract!End(r)
<1> DEFINE t == task[r]
<1>0. t.pc = "calling" /\ answer \in Answer /\ TaskOK(t)
  BY FailStep DEF Inv
<1>1. PICK u : GoesOn(t, u, answer) /\ task' = [task EXCEPT ![r] = u]
  BY FailStep, Zenon
<1>2. /\ CurrentCall(t) = [cand |-> t.cand, key |-> t.key, try |-> t.try]
      /\ CurrentCall(t) # NULL
      /\ t.cand \in Nat \ {0} /\ t.key \in Keys /\ t.try \in Nat \ {0}
  BY <1>0, CurrentCallType DEF Active
<1>3. /\ TaskOK(u) /\ u.attempts = Attempted(t, answer)
  BY <1>1 DEF GoesOn
<1> DEFINE pairs == {<<a.cand, a.key>> : a \in ToSet(t.attempts)}
<1>4. {<<a.cand, a.key>> : a \in ToSet(u.attempts)} = pairs \cup {<<t.cand, t.key>>}
  <2>1. Shaped(t)
    BY <1>0 DEF TaskOK
  <2> QED
    BY <1>0, <1>2, <1>3, <2>1, PairsOfAttempts
<1>5. LeftPairs(t) = pairs \ {<<t.cand, t.key>>}
  BY <1>0 DEF LeftPairs
<1> HIDE DEF pairs
<1>6. /\ Calls' = [Calls EXCEPT ![r] = CurrentCall(u)]
      /\ Left' = [Left EXCEPT ![r] = LeftPairs(u)]
      /\ Outcomes' = [Outcomes EXCEPT ![r] = Outcome(u)]
  BY <1>1, OneRequest
<1>7. Calls[r] = CurrentCall(t) /\ Left[r] = LeftPairs(t) /\ Outcomes[r] = NULL
  BY <1>0 DEF Calls, Left, Outcomes, Outcome
<1>8. CASE u.pc = "done"
  BY <1>0, <1>1, <1>3, <1>8, EndImplements
<1>9. CASE u.pc = "calling" /\ u.try = 1 /\ u.cand >= t.cand
           /\ \A i \in 1 .. Len(u.attempts) : ~ SamePair(u, u.attempts[i])
  <2>1. /\ CurrentCall(u) = [cand |-> u.cand, key |-> u.key, try |-> u.try]
        /\ CurrentCall(u) \in Abstract!Call
    BY <1>3, <1>9, CurrentCallType DEF Active
  <2>2. <<u.cand, u.key>> \notin pairs \cup {<<t.cand, t.key>>}
    <3>1. u.attempts \in Seq(Call)
      BY <1>3 DEF TaskOK, Shaped
    <3> QED
      BY <1>4, <1>9, <3>1, NewPair
  <2>3. LeftPairs(u) = LeftPairs(t) \cup {<<t.cand, t.key>>}
    <3>1. LeftPairs(u) = (pairs \cup {<<t.cand, t.key>>}) \ {<<u.cand, u.key>>}
      BY <1>4, <1>9 DEF LeftPairs
    <3> QED
      BY <1>5, <2>2, <3>1
  <2>4. Outcomes' = Outcomes
    <3>1. Outcome(u) = NULL
      BY <1>9 DEF Outcome
    <3> QED
      BY <1>6, <1>7, <3>1 DEF Outcomes
  <2>5. Abstract!Pair(Calls[r]) = <<t.cand, t.key>>
    BY <1>2, <1>7 DEF Abstract!Pair
  <2>6. Left' = [Left EXCEPT ![r] = Left[r] \cup {Abstract!Pair(Calls[r])}]
    BY <1>6, <1>7, <2>3, <2>5
  <2>7. /\ Calls'[r] = CurrentCall(u) /\ CurrentCall(u).try = 1
        /\ CurrentCall(u).cand >= Calls[r].cand
    BY <1>2, <1>6, <1>7, <1>9, <2>1 DEF Calls
  <2>8. Abstract!Pair(CurrentCall(u)) \notin Left'[r]
    <3>1. Abstract!Pair(CurrentCall(u)) = <<u.cand, u.key>>
      BY <2>1 DEF Abstract!Pair
    <3>2. Left'[r] = LeftPairs(t) \cup {<<t.cand, t.key>>}
      BY <1>6, <2>3 DEF Left
    <3> QED
      BY <1>5, <2>2, <3>1, <3>2
  <2>9. Abstract!MoveOn(r)
    BY <1>2, <1>6, <1>7, <2>1, <2>4, <2>6, <2>7, <2>8
       DEF Abstract!MoveOn, Abstract!Calls, Calls, Left, Outcomes
  <2> QED
    BY <2>9
<1>10. CASE u.pc = "sleeping" /\ SamePair(u, t) /\ u.try = t.try + 1
            /\ t.try < MaxAttempts(t.key)
  <2>1. CurrentCall(u) = [cand |-> t.cand, key |-> t.key, try |-> t.try + 1]
    BY <1>10 DEF CurrentCall, SamePair
  <2>2. LeftPairs(u) = LeftPairs(t)
    <3>1. LeftPairs(u) = (pairs \cup {<<t.cand, t.key>>}) \ {<<u.cand, u.key>>}
      BY <1>4, <1>10 DEF LeftPairs
    <3> QED
      BY <1>5, <1>10, <3>1 DEF SamePair
  <2>3. Left' = Left
    BY <1>6, <1>7, <2>2 DEF Left
  <2>4. Outcomes' = Outcomes
    <3>1. Outcome(u) = NULL
      BY <1>10 DEF Outcome
    <3> QED
      BY <1>6, <1>7, <3>1 DEF Outcomes
  <2>5. Calls' = [Calls EXCEPT ![r].try = @ + 1]
    <3>1. CurrentCall(u) = [Calls[r] EXCEPT !.try = Calls[r].try + 1]
      BY <1>2, <1>7, <2>1
    <3> QED
      BY <1>6, <3>1
  <2>6. Calls[r].try < [k \in Keys |-> MaxAttempts(k)][Calls[r].key]
    BY <1>2, <1>7, <1>10
  <2>7. Abstract!Again(r)
    BY <1>2, <1>7, <2>3, <2>4, <2>5, <2>6 DEF Abstract!Again, Calls, Left, Outcomes
  <2> QED
    BY <2>7
<1> QED
  BY <1>1, <1>8, <1>9, <1>10 DEF GoesOn

(* A pause ends on the call it was for.                                       *)
LEMMA WakeStutters ==
  ASSUME Inv, NEW r \in Requests, Wake(r)
  PROVE  Calls' = Calls /\ Left' = Left /\ Outcomes' = Outcomes
<1> DEFINE t == task[r]
<1>1. PICK u : /\ u.attempts = t.attempts /\ t.pc = "sleeping" /\ u.pc = "calling"
               /\ SamePair(u, t) /\ u.try = t.try
               /\ task' = [task EXCEPT ![r] = u]
  BY WakeStep
<1>2. CurrentCall(u) = CurrentCall(t) /\ LeftPairs(u) = LeftPairs(t) /\ Outcome(u) = Outcome(t)
  BY <1>1 DEF CurrentCall, LeftPairs, Outcome, SamePair
<1>3. /\ Calls' = [Calls EXCEPT ![r] = CurrentCall(t)]
      /\ Left' = [Left EXCEPT ![r] = LeftPairs(t)]
      /\ Outcomes' = [Outcomes EXCEPT ![r] = Outcome(t)]
  <2>1. /\ Calls' = [Calls EXCEPT ![r] = CurrentCall(u)]
        /\ Left' = [Left EXCEPT ![r] = LeftPairs(u)]
        /\ Outcomes' = [Outcomes EXCEPT ![r] = Outcome(u)]
    BY <1>1, OneRequest
  <2> QED
    BY <1>2, <2>1
<1> QED
  BY <1>3 DEF Calls, Left, Outcomes

(* The engine implements Failover: between its arrival and its end, whatever   *)
(* the answers and the policy, a request repeats its call within the key's    *)
(* budget, moves on to a pair it has not called, or ends.                     *)
THEOREM Implements == Spec => ImplementsFailover
<1>1. Init => Abstract!Init
  <2> SUFFICES ASSUME Init PROVE Abstract!Init
    OBVIOUS
  <2>1. \A r \in Requests : task[r].pc = "idle" /\ task[r].attempts = <<>>
    BY DEF Init
  <2>2. \A r \in Requests : CurrentCall(task[r]) = NULL /\ Outcome(task[r]) = NULL
    BY <2>1 DEF CurrentCall, Outcome
  <2>3. \A r \in Requests : LeftPairs(task[r]) = {}
    BY <2>1 DEF LeftPairs, ToSet
  <2> QED
    BY <2>2, <2>3 DEF Abstract!Init
<1>2. Inv /\ [Next]_vars => [Abstract!Next]_(Abstract!vars)
  <2> SUFFICES ASSUME Inv, [Next]_vars PROVE [Abstract!Next]_(Abstract!vars)
    OBVIOUS
  <2>1. ASSUME Calls' = Calls, Left' = Left, Outcomes' = Outcomes PROVE UNCHANGED Abstract!vars
    BY <2>1 DEF Abstract!vars, Calls, Left, Outcomes
  <2>2. ASSUME task' = task PROVE UNCHANGED Abstract!vars
    BY <2>1, <2>2 DEF Calls, Left, Outcomes
  <2>3. ASSUME NEW r \in Requests, Arrive(r) PROVE Abstract!Next
    BY <2>3, ArriveImplements DEF Abstract!Next
  <2>4. ASSUME NEW r \in Requests, Succeed(r) PROVE Abstract!Next
    <3>1. PICK u : /\ u.attempts = Attempted(task[r], "success") /\ u.pc = "done"
                   /\ task' = [task EXCEPT ![r] = u]
      BY <2>4, SucceedStep
    <3>2. task[r].pc = "calling" /\ "success" \in Answer
      BY <2>4 DEF Succeed, Answer
    <3> QED
      BY <3>1, <3>2, EndImplements DEF Abstract!Next
  <2>5. ASSUME NEW r \in Requests, Wake(r) PROVE UNCHANGED Abstract!vars
    BY <2>1, <2>5, WakeStutters
  <2>6. ASSUME NEW r \in Requests, NEW answer \in Answers \ {"success"}, Fail(r, answer)
        PROVE  Abstract!Next
    BY <2>6, FailImplements DEF Abstract!Next
  <2>7. CASE Tick
    BY <2>2, <2>7 DEF Tick
  <2>8. CASE AllServed
    BY <2>2, <2>8 DEF AllServed, vars
  <2>9. CASE UNCHANGED vars
    BY <2>2, <2>9 DEF vars
  <2> QED
    BY <2>3, <2>4, <2>5, <2>6, <2>7, <2>8, <2>9 DEF Next
<1> QED
  BY <1>1, <1>2, Carried, PTL DEF Spec, ImplementsFailover, Abstract!Spec

-----------------------------------------------------------------------------
(* What the quarantine lets through *)

(* What the loop of Unquarantined has after each of the first n candidates. *)
AllowedUpTo(plan, allowed, n) ==
  allowed = [m \in 0 .. n |->
               IF m = 0 THEN <<>>
               ELSE IF Quarantined(mrow[plan[m]], now) THEN allowed[m - 1]
               ELSE Append(allowed[m - 1], plan[m])]

(* The loop gets there: were there a first candidate it does not get to, it    *)
(* would get there from the one before.  (This and the next proof are the      *)
(* induction over the plan that the recursive function calls for.)            *)
LEMMA AllowedDefined ==
  ASSUME NEW plan, NEW n \in Nat
  PROVE  \E allowed : AllowedUpTo(plan, allowed, n)
<1> DEFINE bad == {m \in Nat : ~ \E allowed : AllowedUpTo(plan, allowed, m)}
<1>1. SUFFICES ASSUME bad # {} PROVE FALSE
  OBVIOUS
<1>2. PICK m \in bad : \A l \in bad : m <= l
  BY <1>1, LeastPlace
<1>3. AllowedUpTo(plan, [l \in 0 .. 0 |-> <<>>], 0)
  BY DEF AllowedUpTo
<1>4. m # 0 /\ m - 1 \in Nat
  BY <1>2, <1>3
<1>5. PICK allowed : AllowedUpTo(plan, allowed, m - 1)
  <2>1. m - 1 \notin bad
    BY <1>2, <1>4
  <2> QED
    BY <1>4, <2>1
<1> DEFINE more == [l \in 0 .. m |-> IF l < m THEN allowed[l]
                                     ELSE IF Quarantined(mrow[plan[m]], now)
                                     THEN allowed[m - 1]
                                     ELSE Append(allowed[m - 1], plan[m])]
<1>6. AllowedUpTo(plan, more, m)
  <2>1. \A l \in 0 .. m - 1 :
          allowed[l] = IF l = 0 THEN <<>>
                       ELSE IF Quarantined(mrow[plan[l]], now) THEN allowed[l - 1]
                       ELSE Append(allowed[l - 1], plan[l])
    BY <1>5 DEF AllowedUpTo
  <2>2. \A l \in 0 .. m :
          more[l] = IF l = 0 THEN <<>>
                    ELSE IF Quarantined(mrow[plan[l]], now) THEN more[l - 1]
                    ELSE Append(more[l - 1], plan[l])
    <3> SUFFICES ASSUME NEW l \in 0 .. m
                 PROVE  more[l] = IF l = 0 THEN <<>>
                                  ELSE IF Quarantined(mrow[plan[l]], now) THEN more[l - 1]
                                  ELSE Append(more[l - 1], plan[l])
      OBVIOUS
    <3>1. CASE l = m
      <4>1. more[l - 1] = allowed[m - 1]
        BY <1>4, <3>1
      <4> QED
        BY <1>4, <3>1, <4>1
    <3>2. CASE l # m
      <4>1. l \in 0 .. m - 1 /\ more[l] = allowed[l]
        BY <1>4, <3>2
      <4>2. l # 0 => more[l - 1] = allowed[l - 1]
        BY <1>4, <3>2
      <4> HIDE DEF more
      <4> QED
        BY <2>1, <4>1, <4>2
    <3> QED
      BY <3>1, <3>2
  <2>3. more = [l \in 0 .. m |-> more[l]]
    OBVIOUS
  <2> HIDE DEF more
  <2> QED
    BY <2>2, <2>3 DEF AllowedUpTo
<1> QED
  BY <1>2, <1>6

(* What the quarantine lets through of some candidates are candidates.        *)
LEMMA UnquarantinedType ==
  ASSUME NEW T, NEW plan \in Seq(T)
  PROVE  Unquarantined(plan) \in Seq(T)
<1> DEFINE n == Len(plan)
           allowed == CHOOSE f : AllowedUpTo(plan, f, n)
<1>1. n \in Nat /\ \A m \in 1 .. n : plan[m] \in T
  OBVIOUS
<1>2. Unquarantined(plan) = allowed[n]
  BY DEF Unquarantined, AllowedUpTo
<1> HIDE DEF n
<1>3. AllowedUpTo(plan, allowed, n)
  BY <1>1, AllowedDefined
<1> HIDE DEF allowed
<1>4. \A m \in 0 .. n :
        allowed[m] = IF m = 0 THEN <<>>
                     ELSE IF Quarantined(mrow[plan[m]], now) THEN allowed[m - 1]
                     ELSE Append(allowed[m - 1], plan[m])
  BY <1>3 DEF AllowedUpTo
<1> DEFINE bad == {m \in 0 .. n : allowed[m] \notin Seq(T)}
<1>5. bad = {}
  <2> SUFFICES ASSUME bad # {} PROVE FALSE
    OBVIOUS
  <2>1. bad \subseteq Nat
    BY <1>1
  <2>2. PICK m \in bad : \A l \in bad : m <= l
    <3> HIDE DEF bad
    <3> QED
      BY <2>1, LeastPlace
  <2>3. m \in 0 .. n /\ m # 0
    <3>1. <<>> \in Seq(T) /\ allowed[0] = <<>>
      BY <1>1, <1>4
    <3> QED
      BY <3>1
  <2>4. m - 1 \in 0 .. n /\ m \in 1 .. n
    BY <1>1, <2>3
  <2>5. allowed[m - 1] \in Seq(T)
    BY <1>1, <2>2, <2>4
  <2>6. allowed[m] \in Seq(T)
    <3>1. allowed[m] = IF Quarantined(mrow[plan[m]], now) THEN allowed[m - 1]
                       ELSE Append(allowed[m - 1], plan[m])
      BY <1>4, <2>3
    <3> QED
      BY <1>1, <2>4, <2>5, <3>1
  <2> QED
    BY <2>6
<1> QED
  BY <1>1, <1>2, <1>5
-----------------------------------------------------------------------------
(* What a request has tried, and what its client is told *)

Stops(t, a) == a.answer = "free_tier" /\ t.route = "free" /\ StopOnFreeTier

Leaves(a) ==
  a.answer # "success" /\ Policy[ClassOf(a.answer)] \in
                            {"switch_provider", "retry_then_switch_provider"}

(* The i-th candidate has nothing left that should be called. *)
Exhausted(t, i) ==
  \A k \in OpenKeys(t.plan[i], t.states) :
    \E n \in 1 .. Len(t.attempts) :
      t.attempts[n].cand = i /\ (t.attempts[n].key = k \/ Leaves(t.attempts[n]))

(* Every open key of the current candidate has been called, is being called   *)
(* or is in the queue, and the earlier candidates are exhausted.              *)
Pursued(t) ==
  /\ \A i \in 1 .. Len(t.plan) : i < t.cand => Exhausted(t, i)
  /\ \A k \in OpenKeys(t.plan[t.cand], t.states) :
       \/ k = t.key
       \/ \E j \in 1 .. Len(t.queue) : t.queue[j] = k
       \/ \E n \in 1 .. Len(t.attempts) :
            t.attempts[n].cand = t.cand /\ t.attempts[n].key = k

(* The result the last attempt gives. *)
Told(t) ==
  LET last == t.attempts[Len(t.attempts)]
  IN  CASE last.answer = "success" -> NULL
        [] Stops(t, last) -> "free_tier_stop"
        [] OTHER -> last.answer

Honest(t) ==
  /\ t \in Task
  /\ t.route = "free" => Len(t.plan) <= FreeBudget
  /\ \A i \in 1 .. Len(t.attempts) :
       t.attempts[i].answer = "success" \/ Stops(t, t.attempts[i])
         => i = Len(t.attempts) /\ t.pc = "done"
  /\ t.pc = "done" /\ t.attempts # <<>> => t.error = Told(t)
  /\ t.pc \in Active => Pursued(t)
  /\ t.pc = "done" /\ t.error \notin {NULL, "free_tier_stop"} =>
       \A i \in 1 .. Len(t.plan) : Exhausted(t, i)

(* What no request is part of, and what every request has. *)
Tables ==
  /\ row \in [Keys -> Row]
  /\ mrow \in [Models -> ModelRow]
  /\ memory \in [{"alias", "free"} -> Models \cup {NULL}]
  /\ stats \in [Keys -> [success : Nat, failure : Nat]]
  /\ switches \in [Keys -> Nat]
  /\ now \in Nat

AllHonest == \A r \in Requests : Honest(task[r])

-----------------------------------------------------------------------------
(* Fields of one request *)

(* The fields a step of a request carries over. *)
Same(t, u) ==
  u.route = t.route /\ u.plan = t.plan /\ u.states = t.states /\ u.attempts = t.attempts

(* A request that ends is well formed and keeps what it has tried.            *)
LEMMA FinishedTask ==
  ASSUME NEW t \in Task, NEW e \in Error \cup {NULL}
  PROVE  /\ Finished(t, e) \in Task /\ Same(t, Finished(t, e))
         /\ Finished(t, e).pc = "done" /\ Finished(t, e).error = e
<1>1. <<>> \in Seq(Keys)
  OBVIOUS
<1> QED
  BY <1>1 DEF Finished, Task, Same

(* Replacing an element of a sequence gives a sequence.                       *)
LEMMA ReplacedElement ==
  ASSUME NEW S, NEW s \in Seq(S), NEW i, NEW x \in S
  PROVE  [s EXCEPT ![i] = x] \in Seq(S)
<1>1. Len(s) \in Nat /\ s \in [1 .. Len(s) -> S]
  OBVIOUS
<1>2. [s EXCEPT ![i] = x] \in [1 .. Len(s) -> S]
  BY <1>1
<1> QED
  BY <1>1, <1>2, SeqDef

(* So is one that turns to another key.                                       *)
LEMMA CallKeyTask ==
  ASSUME NEW t \in Task, NEW q \in Seq(Keys), q # <<>>
  PROVE  /\ CallKey(t, q) \in Task /\ Same(t, CallKey(t, q))
         /\ CallKey(t, q).pc = "calling" /\ CallKey(t, q).cand = t.cand
         /\ CallKey(t, q).key = q[1] /\ CallKey(t, q).error = t.error
         /\ Len(CallKey(t, q).queue) = Len(q) - 1
         /\ \A i \in 2 .. Len(q) : CallKey(t, q).queue[i - 1] = q[i]
<1>1. Head(q) = q[1] /\ q[1] \in Keys /\ Tail(q) \in Seq(Keys) /\ Len(Tail(q)) = Len(q) - 1
  OBVIOUS
<1>2. \A i \in 2 .. Len(q) : Tail(q)[i - 1] = q[i]
  OBVIOUS
<1> QED
  BY <1>1, <1>2 DEF CallKey, Task, Same

(* And one that waits to call its key again.                                  *)
LEMMA SleepTask ==
  ASSUME NEW t \in Task
  PROVE  /\ SleepOnKey(t) \in Task /\ Same(t, SleepOnKey(t))
         /\ SleepOnKey(t).pc = "sleeping" /\ SleepOnKey(t).cand = t.cand
         /\ SleepOnKey(t).key = t.key /\ SleepOnKey(t).queue = t.queue
<1>1. t.try + 1 \in Nat
  BY DEF Task
<1> QED
  BY <1>1 DEF SleepOnKey, Task, Same

(* A key that was open when the request arrived is usable at any time.        *)
LEMMA OpenIsUsable ==
  ASSUME NEW m \in Models, NEW states, NEW k \in OpenKeys(m, states)
  PROVE  k \in Usable(m, states)
<1>1. k \in KeysOf[m] /\ k \in Keys
  BY EngineAssumption DEF OpenKeys
<1>2. Available(states[k], TRUE, now)
  BY DEF OpenKeys, Available, Cooling
<1> DEFINE available == {l \in Keys : l \in KeysOf[m] /\ Available(states[l], TRUE, now)}
<1>3. k \in available
  BY <1>1, <1>2
<1>4. Sources[m] = {} \/ k \in Sources[m]
  BY DEF OpenKeys
<1> HIDE DEF available
<1> QED
  BY <1>3, <1>4 DEF Usable, available

(* An order of selected keys leaves none out.                                 *)
LEMMA OrderedAll ==
  ASSUME NEW keys, keys \subseteq Keys, NEW states, NEW q \in KeyOrders(keys, states),
         NEW k \in keys
  PROVE  \E i \in 1 .. Len(q) : q[i] = k
<1>1. q \in SetToSeqs(keys)
  BY DEF KeyOrders
<1>2. IsFiniteSet(keys)
  BY EngineAssumption, FS_Subset
<1> DEFINE n == Cardinality(keys)
<1>3. n \in Nat
  BY <1>2, FS_CardinalityType
<1> HIDE DEF n
<1>4. q \in [1 .. n -> keys] /\ \A i, j \in 1 .. n : i # j => q[i] # q[j]
  BY <1>1 DEF SetToSeqs, n
<1>5. IsFiniteSet(1 .. n) /\ Cardinality(1 .. n) = n
  BY <1>3, FS_Interval
<1>6. q \in Injection(1 .. n, keys)
  BY <1>4 DEF Injection, IsInjective
<1>7. q \in Surjection(1 .. n, keys)
  BY <1>2, <1>5, <1>6, FS_Injection DEF n
<1>8. Len(q) = n
  BY <1>3, <1>4
<1> QED
  BY <1>7, <1>8 DEF Surjection

(* What a request says when it has found nothing to call is an error.         *)
LEMMA NothingToTryError ==
  ASSUME NEW plan, NEW states
  PROVE  NothingToTry(plan, states) \in Error
<1>1. NothingToTry(plan, states) \in {"cooldown_429", "blocked_503", "unavailable_503"}
  BY DEF NothingToTry
<1> QED
  BY <1>1 DEF Error

(* What is exhausted depends on what was tried only.                          *)
LEMMA SameExhausted ==
  ASSUME NEW t, NEW u, Same(t, u), NEW i, Exhausted(t, i)
  PROVE  Exhausted(u, i)
BY DEF Same, Exhausted

(* The search for the next candidate passes over none that has an open key,    *)
(* whatever the clock says.                                                   *)
LEMMA NextCandidateHonest ==
  ASSUME NEW t \in Task, NEW u \in NextCandidate(t),
         \A i \in 1 .. Len(t.plan) : i <= t.cand => Exhausted(t, i)
  PROVE  /\ u \in Task /\ Same(t, u)
         /\ \/ /\ u.pc = "done"
               /\ u.error = IF t.attempts = <<>> THEN NothingToTry(t.plan, t.states) ELSE t.error
               /\ \A i \in 1 .. Len(u.plan) : Exhausted(u, i)
            \/ u.pc = "calling" /\ Pursued(u)
<1> DEFINE ready == {i \in 1 .. Len(t.plan) : i > t.cand /\ Usable(t.plan[i], t.states) # {}}
<1>0. /\ t.plan \in Seq(Models) /\ t.cand \in Nat /\ t.error \in Error \cup {NULL}
      /\ t.offered \in Seq(SUBSET Keys) /\ Len(t.plan) \in Nat
  BY DEF Task
<1>1. \A i \in 1 .. Len(t.plan) :
        Usable(t.plan[i], t.states) = {} => OpenKeys(t.plan[i], t.states) = {}
  BY <1>0, OpenIsUsable
<1>2. \A i \in 1 .. Len(t.plan) : i \notin ready => Exhausted(t, i)
  <2> SUFFICES ASSUME NEW i \in 1 .. Len(t.plan), i \notin ready PROVE Exhausted(t, i)
    OBVIOUS
  <2>1. CASE i <= t.cand
    BY <2>1
  <2>2. CASE ~ (i <= t.cand)
    <3>1. Usable(t.plan[i], t.states) = {}
      BY <1>0, <2>2
    <3> QED
      BY <1>1, <3>1 DEF Exhausted
  <2> QED
    BY <2>1, <2>2
<1>3. CASE ready = {}
  <2> DEFINE e == IF t.attempts = <<>> THEN NothingToTry(t.plan, t.states) ELSE t.error
  <2>1. u = Finished(t, e)
    BY <1>3 DEF NextCandidate
  <2>2. e \in Error \cup {NULL}
    BY <1>0, NothingToTryError
  <2>3. \A i \in 1 .. Len(t.plan) : Exhausted(t, i)
    BY <1>2, <1>3
  <2> HIDE DEF e, ready
  <2>4. u \in Task /\ Same(t, u) /\ u.pc = "done" /\ u.error = e
    BY <2>1, <2>2, FinishedTask
  <2>5. \A i \in 1 .. Len(u.plan) : Exhausted(u, i)
    BY <2>3, <2>4, SameExhausted DEF Same
  <2> QED
    BY <2>4, <2>5 DEF e
<1>4. CASE ready # {}
  <2> DEFINE i == Min(ready)
             keys == Usable(t.plan[i], t.states)
             s == [t EXCEPT !.cand = i, !.offered[i] = keys]
  <2>1. PICK q \in KeyOrders(keys, t.states) : u = CallKey(s, q)
    BY <1>4 DEF NextCandidate
  <2>2. ready \subseteq Nat
    BY <1>0
  <2>3. i \in ready /\ \A j \in ready : i =< j
    <3> HIDE DEF ready
    <3> QED
      BY <1>4, <2>2, LeastPlace
  <2>4. keys \subseteq Keys
    BY DEF Usable
  <2> HIDE DEF i
  <2>5. i \in 1 .. Len(t.plan) /\ i \in Nat /\ keys # {}
    BY <1>0, <2>3
  <2>6. \A j \in 1 .. Len(t.plan) : j < i => Exhausted(t, j)
    <3> SUFFICES ASSUME NEW j \in 1 .. Len(t.plan), j < i PROVE Exhausted(t, j)
      OBVIOUS
    <3>1. j \notin ready
      <4> HIDE DEF ready
      <4>1. j \in Nat /\ ~ (i =< j)
        BY <2>5
      <4> QED
        BY <2>3, <4>1
    <3> QED
      BY <1>2, <3>1
  <2>7. \A k \in OpenKeys(t.plan[i], t.states) : k \in keys
    BY <1>0, <2>5, OpenIsUsable
  <2> HIDE DEF keys, ready
  <2>8. q \in Seq(Keys) /\ q # <<>>
    BY <2>4, <2>5, OrderedKeys
  <2>9. \A k \in keys : \E j \in 1 .. Len(q) : q[j] = k
    BY <2>4, OrderedAll
  <2>10. s \in Task /\ Same(t, s) /\ s.cand = i
    <3>1. [t.offered EXCEPT ![i] = keys] \in Seq(SUBSET Keys)
      <4>1. keys \in SUBSET Keys
        BY <2>4
      <4> QED
        BY <1>0, <4>1, ReplacedElement
    <3> QED
      BY <2>5, <3>1 DEF Task, Same
  <2> HIDE DEF s
  <2>11. /\ u \in Task /\ Same(s, u) /\ u.pc = "calling" /\ u.cand = i /\ u.key = q[1]
         /\ Len(u.queue) = Len(q) - 1
         /\ \A j \in 2 .. Len(q) : u.queue[j - 1] = q[j]
    BY <2>1, <2>8, <2>10, CallKeyTask
  <2>12. Same(t, u)
    BY <2>10, <2>11 DEF Same
  <2>13. \A j \in 1 .. Len(u.plan) : j < u.cand => Exhausted(u, j)
    BY <2>6, <2>11, <2>12, SameExhausted DEF Same
  <2>14. \A k \in keys : k = u.key \/ \E j \in 1 .. Len(u.queue) : u.queue[j] = k
    <3> SUFFICES ASSUME NEW k \in keys, k # u.key
                 PROVE  \E j \in 1 .. Len(u.queue) : u.queue[j] = k
      OBVIOUS
    <3>1. PICK j \in 1 .. Len(q) : q[j] = k
      BY <2>9
    <3>2. j - 1 \in 1 .. Len(u.queue) /\ u.queue[j - 1] = k
      BY <2>8, <2>11, <3>1
    <3> QED
      BY <3>2
  <2>15. Pursued(u)
    <3>1. OpenKeys(u.plan[u.cand], u.states) = OpenKeys(t.plan[i], t.states)
      BY <2>11, <2>12 DEF Same
    <3> QED
      BY <2>7, <2>13, <2>14, <3>1 DEF Pursued
  <2> QED
    BY <2>11, <2>12, <2>15
<1> QED
  BY <1>3, <1>4

(* The answer becomes the last attempt.                                       *)
LEMMA ReturnTask ==
  ASSUME NEW t, TaskOK(t), t \in Task, t.pc = "calling", NEW answer \in Answer
  PROVE  LET s == Return(t, answer)
             more == Attempted(t, answer)
             n == Len(t.attempts)
         IN  /\ more \in Seq(Attempt) /\ Len(more) = n + 1 /\ n \in Nat
             /\ more[n + 1] = [cand |-> t.cand, key |-> t.key, try |-> t.try, answer |-> answer]
             /\ \A i \in 1 .. n : more[i] = t.attempts[i]
             /\ answer # "success" => s \in Task
             /\ s.attempts = more /\ s.error = answer /\ s.pc = "calling"
             /\ s.route = t.route /\ s.plan = t.plan /\ s.states = t.states
             /\ s.cand = t.cand /\ s.key = t.key /\ s.queue = t.queue
<1> DEFINE d == [cand |-> t.cand, key |-> t.key, try |-> t.try, answer |-> answer]
<1>1. t.key \in Keys /\ t.try \in Nat \ {0} /\ t.cand \in 1 .. Len(t.plan)
  BY DEF TaskOK, Active, Untried
<1>2. t.plan \in Seq(Models) /\ t.attempts \in Seq(Attempt)
  BY DEF Task
<1>3. t.cand \in Nat \ {0}
  BY <1>1, <1>2
<1>4. d \in Attempt
  BY <1>1, <1>3 DEF Attempt
<1>5. Attempted(t, answer) = Append(t.attempts, d)
  BY DEF Attempted
<1> HIDE DEF d
<1>6. /\ Attempted(t, answer) \in Seq(Attempt)
      /\ Len(Attempted(t, answer)) = Len(t.attempts) + 1 /\ Len(t.attempts) \in Nat
      /\ Attempted(t, answer)[Len(t.attempts) + 1] = d
      /\ \A i \in 1 .. Len(t.attempts) : Attempted(t, answer)[i] = t.attempts[i]
  BY <1>2, <1>4, <1>5
<1>7. answer # "success" => answer \in Error
  BY DEF Error
<1> QED
  BY <1>6, <1>7 DEF Return, Task, d

(* A request stays honest if it ends when it must, says what its last attempt  *)
(* says, and ends on its own only when everything is exhausted.               *)
LEMMA HonestAfter ==
  ASSUME NEW t, TaskOK(t), Honest(t), t.pc = "calling",
         NEW answer \in Answer, answer # "success",
         NEW u \in Task, Same(Return(t, answer), u),
         IF answer = "free_tier" /\ t.route = "free" /\ StopOnFreeTier
         THEN u.pc = "done" /\ u.error = "free_tier_stop"
         ELSE \/ u.pc = "done" /\ u.error = answer /\ \A i \in 1 .. Len(u.plan) : Exhausted(u, i)
              \/ u.pc \in Active /\ Pursued(u)
  PROVE  Honest(u)
<1> DEFINE more == Attempted(t, answer)
           n == Len(t.attempts)
<1>1. /\ Len(more) = n + 1 /\ n \in Nat
      /\ more[n + 1] = [cand |-> t.cand, key |-> t.key, try |-> t.try, answer |-> answer]
      /\ \A i \in 1 .. n : more[i] = t.attempts[i]
  BY ReturnTask DEF Honest
<1>2. u.attempts = more /\ u.route = t.route /\ u.plan = t.plan /\ u.states = t.states
  <2> DEFINE s == Return(t, answer)
  <2>1. s.attempts = more /\ s.route = t.route /\ s.plan = t.plan /\ s.states = t.states
    BY ReturnTask DEF Honest
  <2> HIDE DEF s, more
  <2>2. Same(s, u)
    BY DEF s
  <2> QED
    BY <2>1, <2>2 DEF Same
<1> HIDE DEF more
<1>3. u.attempts[Len(u.attempts)].answer = answer
  BY <1>1, <1>2
<1>4. u.route = "free" => Len(u.plan) <= FreeBudget
  BY <1>2 DEF Honest
<1>5. \A i \in 1 .. Len(u.attempts) :
        u.attempts[i].answer = "success" \/ Stops(u, u.attempts[i])
          => i = Len(u.attempts) /\ u.pc = "done"
  <2> SUFFICES ASSUME NEW i \in 1 .. n + 1,
                      more[i].answer = "success" \/ Stops(u, more[i])
               PROVE  i = n + 1 /\ u.pc = "done"
    BY <1>1, <1>2
  <2>1. CASE i \in 1 .. n
    BY <1>1, <1>2, <2>1 DEF Honest, Stops
  <2>2. CASE i = n + 1
    BY <1>1, <1>2, <2>2 DEF Stops
  <2> QED
    BY <1>1, <2>1, <2>2
<1>6. u.pc = "done" => u.error = Told(u)
  <2>1. Told(u) = IF Stops(u, u.attempts[Len(u.attempts)]) THEN "free_tier_stop" ELSE answer
    BY <1>3 DEF Told
  <2> QED
    BY <1>2, <1>3, <2>1 DEF Stops, Active
<1> QED
  BY <1>4, <1>5, <1>6 DEF Honest, Active

(* The only verdict that stops a request of a free alias is the free tier's.   *)
LEMMA VerdictStops ==
  ASSUME NEW t, NEW answer
  PROVE  /\ Verdict(t, answer) = "stop"
              <=> answer = "free_tier" /\ t.route = "free" /\ StopOnFreeTier
         /\ Verdict(t, answer) \in {"stop", "switch_key", "switch_provider", "back_off"}
         /\ Verdict(t, answer) = "switch_provider" =>
              Policy[ClassOf(answer)] \in {"switch_provider", "retry_then_switch_provider"}
BY DEF Verdict

(* A failure takes a request no further than to what is left to try.          *)
LEMMA OnwardHonest ==
  ASSUME NEW t, TaskOK(t), Honest(t), t.pc = "calling",
         NEW answer \in Answer, answer # "success",
         NEW u \in Onward(Return(t, answer), Verdict(t, answer))
  PROVE  Honest(u)
<1> DEFINE s == Return(t, answer)
           n == Len(t.attempts)
<1>1. /\ s \in Task
      /\ Len(s.attempts) = n + 1 /\ n \in Nat
      /\ s.attempts[n + 1] = [cand |-> t.cand, key |-> t.key, try |-> t.try, answer |-> answer]
      /\ \A i \in 1 .. n : s.attempts[i] = t.attempts[i]
      /\ s.error = answer /\ s.pc = "calling"
      /\ s.route = t.route /\ s.plan = t.plan /\ s.states = t.states
      /\ s.cand = t.cand /\ s.key = t.key /\ s.queue = t.queue
  BY ReturnTask DEF Honest
<1>2. Pursued(t) /\ t.plan \in Seq(Models) /\ t.cand \in 1 .. Len(t.plan)
  BY DEF Honest, Active, Task, TaskOK, Untried
<1> HIDE DEF s, n
<1>3. \A i \in 1 .. Len(s.plan) : i < s.cand => Exhausted(s, i)
  <2> SUFFICES ASSUME NEW i \in 1 .. Len(t.plan), i < t.cand PROVE Exhausted(s, i)
    BY <1>1
  <2> SUFFICES ASSUME NEW k \in OpenKeys(t.plan[i], t.states)
               PROVE  \E m \in 1 .. Len(s.attempts) :
                        s.attempts[m].cand = i
                          /\ (s.attempts[m].key = k \/ Leaves(s.attempts[m]))
    BY <1>1 DEF Exhausted
  <2>1. Exhausted(t, i)
    BY <1>2 DEF Pursued
  <2>2. PICK m \in 1 .. n : t.attempts[m].cand = i
                              /\ (t.attempts[m].key = k \/ Leaves(t.attempts[m]))
    BY <2>1 DEF Exhausted, n
  <2>3. m \in 1 .. Len(s.attempts) /\ s.attempts[m] = t.attempts[m]
    BY <1>1, <2>2
  <2> QED
    BY <2>2, <2>3
<1>4. \A k \in OpenKeys(s.plan[s.cand], s.states) :
        \/ \E j \in 1 .. Len(s.queue) : s.queue[j] = k
        \/ \E m \in 1 .. Len(s.attempts) : s.attempts[m].cand = s.cand /\ s.attempts[m].key = k
  <2> SUFFICES ASSUME NEW k \in OpenKeys(t.plan[t.cand], t.states),
                      ~ \E j \in 1 .. Len(t.queue) : t.queue[j] = k
               PROVE  \E m \in 1 .. n + 1 : s.attempts[m].cand = t.cand /\ s.attempts[m].key = k
    BY <1>1
  <2>1. CASE k = t.key
    BY <1>1, <2>1
  <2>2. CASE k # t.key
    <3>1. PICK m \in 1 .. n : t.attempts[m].cand = t.cand /\ t.attempts[m].key = k
      BY <1>2, <2>2 DEF Pursued, n
    <3>2. m \in 1 .. n + 1 /\ s.attempts[m] = t.attempts[m]
      BY <1>1, <3>1
    <3> QED
      BY <3>1, <3>2
  <2> QED
    BY <2>1, <2>2
<1>5. s.attempts # <<>>
  BY <1>1 DEF Task
<1>6. CASE Verdict(t, answer) = "stop"
  <2>1. u = Finished(s, "free_tier_stop") /\ "free_tier_stop" \in Error
    BY <1>6 DEF Onward, Error, s
  <2>2. u \in Task /\ Same(s, u) /\ u.pc = "done" /\ u.error = "free_tier_stop"
    BY <1>1, <2>1, FinishedTask
  <2> QED
    BY <1>6, <2>2, VerdictStops, HonestAfter DEF s
<1>7. CASE Verdict(t, answer) = "back_off"
  <2>1. u = SleepOnKey(s)
    BY <1>7 DEF Onward, s
  <2>2. /\ u \in Task /\ Same(s, u) /\ u.pc = "sleeping"
        /\ u.cand = s.cand /\ u.key = s.key /\ u.queue = s.queue
    BY <1>1, <2>1, SleepTask
  <2>3. \A i \in 1 .. Len(u.plan) : i < u.cand => Exhausted(u, i)
    BY <1>3, <2>2, SameExhausted DEF Same
  <2>4. Pursued(u)
    BY <1>4, <2>2, <2>3 DEF Pursued, Same
  <2>5. ~ (answer = "free_tier" /\ t.route = "free" /\ StopOnFreeTier)
    BY <1>7, VerdictStops
  <2> QED
    BY <2>2, <2>4, <2>5, HonestAfter DEF s, Active
<1>8. ASSUME u \in NextCandidate(s), Exhausted(s, s.cand),
             ~ (answer = "free_tier" /\ t.route = "free" /\ StopOnFreeTier)
      PROVE  Honest(u)
  <2>1. \A i \in 1 .. Len(s.plan) : i <= s.cand => Exhausted(s, i)
    <3> SUFFICES ASSUME NEW i \in 1 .. Len(s.plan), i <= s.cand PROVE Exhausted(s, i)
      OBVIOUS
    <3>1. i = s.cand \/ i < s.cand
      BY <1>1, <1>2
    <3> QED
      BY <1>3, <1>8, <3>1
  <2>2. /\ u \in Task /\ Same(s, u)
        /\ \/ u.pc = "done" /\ u.error = answer /\ \A i \in 1 .. Len(u.plan) : Exhausted(u, i)
           \/ u.pc = "calling" /\ Pursued(u)
    BY <1>1, <1>5, <1>8, <2>1, NextCandidateHonest
  <2> QED
    BY <1>8, <2>2, HonestAfter DEF s, Active
<1>9. CASE Verdict(t, answer) = "switch_provider"
  <2>1. u \in NextCandidate(s)
    BY <1>9 DEF Onward, s
  <2>2. Leaves(s.attempts[n + 1])
    BY <1>1, <1>9, VerdictStops DEF Leaves
  <2>3. Exhausted(s, s.cand)
    <3>1. n + 1 \in 1 .. Len(s.attempts) /\ s.attempts[n + 1].cand = s.cand
      BY <1>1
    <3> QED
      BY <2>2, <3>1 DEF Exhausted
  <2> QED
    BY <1>8, <1>9, <2>1, <2>3, VerdictStops
<1>10. CASE Verdict(t, answer) = "switch_key"
  <2>0. ~ (answer = "free_tier" /\ t.route = "free" /\ StopOnFreeTier)
    BY <1>10, VerdictStops
  <2>1. u \in NextKey(s)
    BY <1>10 DEF Onward, s
  <2>2. CASE s.queue = <<>>
    <3>1. u \in NextCandidate(s)
      BY <2>1, <2>2 DEF NextKey
    <3>2. Exhausted(s, s.cand)
      BY <1>4, <2>2 DEF Exhausted
    <3> QED
      BY <1>8, <2>0, <3>1, <3>2
  <2>3. CASE s.queue # <<>>
    <3>1. u = CallKey(s, s.queue) /\ s.queue \in Seq(Keys)
      BY <1>1, <2>1, <2>3 DEF NextKey, Task
    <3>2. /\ u \in Task /\ Same(s, u) /\ u.pc = "calling" /\ u.cand = s.cand
          /\ u.key = s.queue[1] /\ Len(u.queue) = Len(s.queue) - 1
          /\ \A j \in 2 .. Len(s.queue) : u.queue[j - 1] = s.queue[j]
      BY <1>1, <2>3, <3>1, CallKeyTask
    <3>3. \A i \in 1 .. Len(u.plan) : i < u.cand => Exhausted(u, i)
      BY <1>3, <3>2, SameExhausted DEF Same
    <3>4. \A j \in 1 .. Len(s.queue) :
            s.queue[j] = u.key \/ \E i \in 1 .. Len(u.queue) : u.queue[i] = s.queue[j]
      <4> SUFFICES ASSUME NEW j \in 1 .. Len(s.queue), j # 1
                   PROVE  \E i \in 1 .. Len(u.queue) : u.queue[i] = s.queue[j]
        BY <3>2
      <4>1. j - 1 \in 1 .. Len(u.queue) /\ u.queue[j - 1] = s.queue[j]
        BY <3>1, <3>2
      <4> QED
        BY <4>1
    <3>5. Pursued(u)
      <4>1. /\ OpenKeys(u.plan[u.cand], u.states) = OpenKeys(s.plan[s.cand], s.states)
            /\ u.attempts = s.attempts /\ u.cand = s.cand
        BY <3>2 DEF Same
      <4> SUFFICES ASSUME NEW k \in OpenKeys(s.plan[s.cand], s.states)
                   PROVE  \/ k = u.key
                          \/ \E j \in 1 .. Len(u.queue) : u.queue[j] = k
                          \/ \E m \in 1 .. Len(u.attempts) :
                               u.attempts[m].cand = u.cand /\ u.attempts[m].key = k
        BY <3>3, <4>1 DEF Pursued
      <4> QED
        BY <1>4, <3>4, <4>1
    <3> QED
      BY <2>0, <3>2, <3>5, HonestAfter DEF s, Active
  <2> QED
    BY <2>2, <2>3
<1> QED
  BY <1>6, <1>7, <1>9, <1>10, VerdictStops

-----------------------------------------------------------------------------
(* The tables *)

(* A request under way has a candidate and a key.                             *)
LEMMA Underway ==
  ASSUME NEW t, TaskOK(t), Honest(t), t.pc \in Active
  PROVE  t.key \in Keys /\ t.cand \in 1 .. Len(t.plan) /\ t.plan[t.cand] \in Models
<1>1. t.key \in Keys /\ t.cand \in 1 .. Len(t.plan) /\ t.plan \in Seq(Models)
  BY DEF TaskOK, Untried, Honest, Task
<1> QED
  BY <1>1

(* What an answer makes of the row of its key is a row.                       *)
LEMMA KeyRowTypes ==
  ASSUME NEW k \in Row, now \in Nat
  PROVE  /\ Succeeded(k) \in Row
         /\ \A class \in ErrorClass : Counted(k, class) \in Row
<1>1. Succeeded(k) \in Row
  BY DEF Succeeded, Row, Status
<1>2. ASSUME NEW class \in ErrorClass PROVE Counted(k, class) \in Row
  <2>1. now + CooldownSeconds(class) \in Nat
    BY KeyRowAssumption DEF CooldownSeconds
  <2>2. FailureStatus(class) \in Status \cup {NULL}
    BY DEF FailureStatus, Status
  <2>3. class \in ProbeCodes
    BY DEF ProbeCodes
  <2>4. Failed(k, class, now) \in Row
    <3>1. CASE FailureStatus(class) = NULL
      BY <2>1, <2>3, <3>1 DEF Failed, Row
    <3>2. CASE FailureStatus(class) # NULL
      BY <2>1, <2>2, <2>3, <3>2 DEF Failed, Row
    <3> QED
      BY <3>1, <3>2
  <2>5. Blocked(Failed(k, class, now)) \in Row
    BY <2>4 DEF Blocked, Row, Status
  <2> QED
    BY <2>4, <2>5 DEF Counted
<1> QED
  BY <1>1, <1>2

(* Clearing a row of the quarantine and counting a failure of one keep it one. *)
LEMMA ModelRowTypes ==
  /\ NewModelRow \in ModelRow /\ Cleared \in ModelRow
  /\ \A read \in ModelRow, class \in ErrorClass, t \in Nat :
       Upserted(read, class, t) \in ModelRow
<1>1. NewModelRow \in ModelRow /\ Cleared \in ModelRow
  BY DEF Cleared, NewModelRow, ModelRow
<1>2. ASSUME NEW read \in ModelRow, NEW class \in ErrorClass, NEW t \in Nat
      PROVE  Upserted(read, class, t) \in ModelRow
  BY ModelRowAssumption DEF Upserted, ModelRow
<1> QED
  BY <1>1, <1>2

(* The class of what a provider failed with is an error class.                *)
LEMMA ClassOfType ==
  ASSUME NEW answer \in Answer \ {"success"}
  PROVE  ClassOf(answer) \in ErrorClass
BY DEF ClassOf, Answer, ErrorClass

(* No step of a request writes anything but rows to the tables.               *)
LEMMA NextTables == Inv /\ AllHonest /\ Tables /\ [Next]_vars => Tables'
<1> SUFFICES ASSUME Inv, AllHonest, Tables, [Next]_vars PROVE Tables'
  OBVIOUS
<1>0. ASSUME UNCHANGED <<row, mrow, memory, stats, switches, now>> PROVE Tables'
  BY <1>0 DEF Tables
<1>1. ASSUME NEW r \in Requests, Arrive(r) PROVE Tables'
  BY <1>0, <1>1 DEF Arrive
<1>2. ASSUME NEW r \in Requests, Wake(r) PROVE Tables'
  BY <1>0, <1>2 DEF Wake
<1>3. ASSUME NEW r \in Requests, Succeed(r) PROVE Tables'
  <2> DEFINE t == task[r]
             m == t.plan[t.cand]
  <2>1. t.key \in Keys /\ m \in Models
    <3>1. TaskOK(t) /\ Honest(t) /\ t.pc \in Active
      BY <1>3 DEF Succeed, Inv, AllHonest, Active
    <3> QED
      BY <3>1, Underway
  <2>2. /\ row' = [row EXCEPT ![t.key] = Succeeded(row[t.key])]
        /\ mrow' = [mrow EXCEPT ![m] = Cleared]
        /\ stats' = [stats EXCEPT ![t.key].success = stats[t.key].success + 1]
        /\ memory' = IF t.route = "direct" THEN memory ELSE [memory EXCEPT ![t.route] = m]
        /\ UNCHANGED <<switches, now>>
    BY <1>3 DEF Succeed
  <2> HIDE DEF t, m
  <2>3. row' \in [Keys -> Row]
    <3>1. row[t.key] \in Row
      BY <2>1 DEF Tables
    <3>2. Succeeded(row[t.key]) \in Row
      BY <3>1, KeyRowTypes DEF Tables
    <3> QED
      BY <2>2, <3>2 DEF Tables
  <2>4. mrow' \in [Models -> ModelRow]
    BY <2>2, ModelRowTypes DEF Tables
  <2>5. memory' \in [{"alias", "free"} -> Models \cup {NULL}]
    BY <2>1, <2>2 DEF Tables
  <2>6. stats' \in [Keys -> [success : Nat, failure : Nat]]
    <3>1. stats[t.key] \in [success : Nat, failure : Nat]
      BY <2>1 DEF Tables
    <3>2. [stats[t.key] EXCEPT !.success = stats[t.key].success + 1]
            \in [success : Nat, failure : Nat]
      BY <3>1
    <3> QED
      BY <2>2, <3>2 DEF Tables
  <2> QED
    BY <2>2, <2>3, <2>4, <2>5, <2>6 DEF Tables
<1>4. ASSUME NEW r \in Requests, NEW answer \in Answers \ {"success"}, Fail(r, answer)
      PROVE  Tables'
  <2> DEFINE t == task[r]
             m == t.plan[t.cand]
             class == ClassOf(answer)
  <2>1. t.key \in Keys /\ m \in Models
    <3>1. TaskOK(t) /\ Honest(t) /\ t.pc \in Active
      BY <1>4 DEF Fail, Inv, AllHonest, Active
    <3> QED
      BY <3>1, Underway
  <2>2. class \in ErrorClass
    BY EngineAssumption, ClassOfType
  <2>3. /\ row' = [row EXCEPT ![t.key] = Counted(row[t.key], class)]
        /\ mrow' = IF class \in AuthErrors THEN mrow
                   ELSE [mrow EXCEPT ![m] = Upserted(mrow[m], class, now)]
        /\ stats' = [stats EXCEPT ![t.key].failure = stats[t.key].failure + 1]
        /\ switches' \in {switches, [switches EXCEPT ![t.key] = switches[t.key] + 1]}
        /\ UNCHANGED <<memory, now>>
    BY <1>4 DEF Fail, RecordFailure
  <2> HIDE DEF t, m, class
  <2>4. row' \in [Keys -> Row]
    <3>1. row[t.key] \in Row /\ now \in Nat
      BY <2>1 DEF Tables
    <3>2. Counted(row[t.key], class) \in Row
      BY <2>2, <3>1, KeyRowTypes
    <3> QED
      BY <2>3, <3>2 DEF Tables
  <2>5. mrow' \in [Models -> ModelRow]
    <3>1. mrow[m] \in ModelRow /\ now \in Nat
      BY <2>1 DEF Tables
    <3>2. Upserted(mrow[m], class, now) \in ModelRow
      BY <2>2, <3>1, ModelRowTypes
    <3> QED
      BY <2>3, <3>2 DEF Tables
  <2>6. stats' \in [Keys -> [success : Nat, failure : Nat]]
    <3>1. stats[t.key] \in [success : Nat, failure : Nat]
      BY <2>1 DEF Tables
    <3>2. [stats[t.key] EXCEPT !.failure = stats[t.key].failure + 1]
            \in [success : Nat, failure : Nat]
      BY <3>1
    <3> QED
      BY <2>3, <3>2 DEF Tables
  <2>7. switches' \in [Keys -> Nat]
    <3>1. switches[t.key] + 1 \in Nat
      BY <2>1 DEF Tables
    <3> QED
      BY <2>3, <3>1 DEF Tables
  <2> QED
    BY <2>3, <2>4, <2>5, <2>6, <2>7 DEF Tables
<1>5. CASE Tick
  BY <1>5 DEF Tick, Tables
<1>6. CASE AllServed
  BY <1>0, <1>6 DEF AllServed, vars
<1>7. CASE UNCHANGED vars
  BY <1>0, <1>7 DEF vars
<1> QED
  BY <1>1, <1>2, <1>3, <1>4, <1>5, <1>6, <1>7 DEF Next

-----------------------------------------------------------------------------
(* Every request *)

(* Whatever the tables hold, the candidates a request starts from are some of  *)
(* the plan's, in number within the budget of a free alias.                   *)
LEMMA PlannedType ==
  ASSUME NEW plan \in Seq(Models), NEW route
  PROVE  LET cands == Budgeted(Unquarantined(Prioritized(plan, route)), route)
         IN  cands \in Seq(Models) /\ (route = "free" => Len(cands) <= FreeBudget)
<1> DEFINE places == {i \in DOMAIN plan : plan[i] = memory[route]}
           first == Prioritized(plan, route)
           open == Unquarantined(first)
           cands == Budgeted(open, route)
<1>1. first \in Seq(Models)
  <2>1. CASE places # {}
    <3>1. places \subseteq Nat
      OBVIOUS
    <3>2. Min(places) \in places
      <4> HIDE DEF places
      <4> QED
        BY <2>1, <3>1, LeastPlace
    <3> DEFINE i == Min(places)
    <3>3. i \in 1 .. Len(plan) /\ plan[i] = memory[route] /\ Len(plan) \in Nat
      BY <3>2
    <3>4. first = <<memory[route]>> \o RemoveAt(plan, i) \/ first = plan
      BY DEF Prioritized
    <3> HIDE DEF i, first
    <3>5. memory[route] \in Models
      BY <3>3
    <3>6. /\ SubSeq(plan, 1, i - 1) \in Seq(Models)
          /\ SubSeq(plan, i + 1, Len(plan)) \in Seq(Models)
      BY <3>3
    <3>7. RemoveAt(plan, i) \in Seq(Models)
      BY <3>6 DEF RemoveAt
    <3>8. <<memory[route]>> \in Seq(Models)
      BY <3>5
    <3>9. <<memory[route]>> \o RemoveAt(plan, i) \in Seq(Models)
      BY <3>7, <3>8
    <3> QED
      BY <3>4, <3>9
  <2>2. CASE places = {}
    BY <2>2 DEF Prioritized
  <2> QED
    BY <2>1, <2>2
<1> HIDE DEF first
<1>2. open \in Seq(Models)
  BY <1>1, UnquarantinedType
<1> HIDE DEF open
<1>3. FreeBudget \in Nat \ {0} /\ Len(open) \in Nat
  BY <1>2, EngineAssumption DEF FreeBudget
<1>4. Len(open) > FreeBudget =>
        SubSeq(open, 1, FreeBudget) \in Seq(Models) /\ Len(SubSeq(open, 1, FreeBudget)) = FreeBudget
  BY <1>2, <1>3
<1>5. cands \in Seq(Models) /\ (route = "free" => Len(cands) <= FreeBudget)
  BY <1>2, <1>3, <1>4 DEF Budgeted
<1> QED
  BY <1>5 DEF open, first

(* A request is honest when it has called its first key or failed at once.    *)
LEMMA ArriveHonest ==
  ASSUME Inv, AllHonest, Tables, NEW r \in Requests, Arrive(r)
  PROVE  \E u : Honest(u) /\ task' = [task EXCEPT ![r] = u]
<1>1. PICK route \in Routes, plan \in Plans :
        LET cands == Budgeted(Unquarantined(Prioritized(plan, route)), route)
            t == [task[r] EXCEPT !.route = route, !.plan = cands, !.states = row,
                                 !.offered = [i \in 1 .. Len(cands) |-> {}]]
        IN  \E u \in NextCandidate(t) : task' = [task EXCEPT ![r] = u]
  BY DEF Arrive
<1> DEFINE cands == Budgeted(Unquarantined(Prioritized(plan, route)), route)
           t == [task[r] EXCEPT !.route = route, !.plan = cands, !.states = row,
                                !.offered = [i \in 1 .. Len(cands) |-> {}]]
<1>2. PICK u \in NextCandidate(t) : task' = [task EXCEPT ![r] = u]
  BY <1>1
<1>3. cands \in Seq(Models) /\ (route = "free" => Len(cands) <= FreeBudget)
  BY PlannedType, EngineAssumption
<1> HIDE DEF cands
<1>4. /\ task[r] \in Task /\ task[r].pc = "idle"
      /\ task[r].attempts = <<>> /\ task[r].cand = 0
  BY DEF Inv, AllHonest, TaskOK, Honest, Arrive
<1>5. t \in Task /\ t.attempts = <<>> /\ t.cand = 0 /\ t.route = route /\ t.plan = cands
  <2>1. [i \in 1 .. Len(cands) |-> {}] \in Seq(SUBSET Keys)
    <3>1. Len(cands) \in Nat /\ {} \in SUBSET Keys
      BY <1>3
    <3>2. [i \in 1 .. Len(cands) |-> {}] \in [1 .. Len(cands) -> SUBSET Keys]
      BY <3>1
    <3> QED
      BY <3>1, <3>2, SeqDef
  <2>2. route \in Route /\ row \in [Keys -> Row]
    BY EngineAssumption DEF Tables
  <2> QED
    BY <1>3, <1>4, <2>1, <2>2 DEF Task
<1> HIDE DEF t
<1>6. /\ u \in Task /\ Same(t, u)
      /\ \/ u.pc = "done" /\ \A i \in 1 .. Len(u.plan) : Exhausted(u, i)
         \/ u.pc = "calling" /\ Pursued(u)
  BY <1>3, <1>5, NextCandidateHonest
<1>7. u.attempts = <<>> /\ u.route = route /\ u.plan = cands
  BY <1>5, <1>6 DEF Same
<1>8. Honest(u)
  BY <1>3, <1>6, <1>7 DEF Honest, Active
<1> QED
  BY <1>2, <1>8

(* A good answer ends the request with its result.                            *)
LEMMA SucceedHonest ==
  ASSUME Inv, AllHonest, NEW r \in Requests, Succeed(r)
  PROVE  \E u : Honest(u) /\ task' = [task EXCEPT ![r] = u]
<1> DEFINE t == task[r]
           s == [t EXCEPT !.attempts = Attempted(t, "success")]
           u == Finished(s, NULL)
           n == Len(t.attempts)
<1>1. TaskOK(t) /\ Honest(t) /\ t.pc = "calling" /\ task' = [task EXCEPT ![r] = u]
  BY DEF Inv, AllHonest, Succeed
<1> HIDE DEF t
<1>2. /\ Attempted(t, "success") \in Seq(Attempt) /\ n \in Nat
      /\ Len(Attempted(t, "success")) = n + 1
      /\ Attempted(t, "success")[n + 1].answer = "success"
      /\ \A i \in 1 .. n : Attempted(t, "success")[i] = t.attempts[i]
  <2>1. "success" \in Answer /\ t \in Task
    BY <1>1 DEF Answer, Honest
  <2>2. /\ Attempted(t, "success") \in Seq(Attempt)
        /\ Len(Attempted(t, "success")) = Len(t.attempts) + 1 /\ Len(t.attempts) \in Nat
        /\ Attempted(t, "success")[Len(t.attempts) + 1]
             = [cand |-> t.cand, key |-> t.key, try |-> t.try, answer |-> "success"]
        /\ \A i \in 1 .. Len(t.attempts) : Attempted(t, "success")[i] = t.attempts[i]
    BY <1>1, <2>1, ReturnTask
  <2> QED
    BY <2>2
<1>3. s \in Task /\ s.attempts = Attempted(t, "success") /\ s.route = t.route /\ s.plan = t.plan
  BY <1>1, <1>2 DEF Honest, Task
<1> HIDE DEF s, n
<1>4. u \in Task /\ Same(s, u) /\ u.pc = "done" /\ u.error = NULL
  BY <1>3, FinishedTask
<1> HIDE DEF u
<1>5. u.attempts = Attempted(t, "success") /\ u.route = t.route /\ u.plan = t.plan
  BY <1>3, <1>4 DEF Same
<1>6. \A i \in 1 .. Len(u.attempts) :
        u.attempts[i].answer = "success" \/ Stops(u, u.attempts[i]) => i = Len(u.attempts)
  <2> SUFFICES ASSUME NEW i \in 1 .. n,
                      u.attempts[i].answer = "success" \/ Stops(u, u.attempts[i])
               PROVE  FALSE
    BY <1>2, <1>5
  <2>1. t.attempts[i].answer = "success" \/ Stops(t, t.attempts[i])
    BY <1>2, <1>5 DEF Stops
  <2> QED
    BY <1>1, <2>1 DEF Honest, n
<1>7. Told(u) = NULL
  <2>1. u.attempts[Len(u.attempts)].answer = "success"
    BY <1>2, <1>5
  <2> QED
    BY <2>1 DEF Told, Stops
<1>8. Honest(u)
  <2>1. u.route = "free" => Len(u.plan) <= FreeBudget
    BY <1>1, <1>5 DEF Honest
  <2> QED
    BY <1>4, <1>6, <1>7, <2>1 DEF Honest, Active
<1> QED
  BY <1>1, <1>8

(* A request that wakes has the same left to try.                             *)
LEMMA WakeHonest ==
  ASSUME Inv, AllHonest, NEW r \in Requests, Wake(r)
  PROVE  \E u : Honest(u) /\ task' = [task EXCEPT ![r] = u]
<1> DEFINE t == task[r]
           u == [t EXCEPT !.pc = "calling"]
<1>1. TaskOK(t) /\ Honest(t) /\ t.pc = "sleeping" /\ task' = [task EXCEPT ![r] = u]
  BY DEF Inv, AllHonest, Wake
<1> HIDE DEF t
<1>2. /\ u \in Task /\ Same(t, u) /\ u.pc = "calling"
      /\ u.cand = t.cand /\ u.key = t.key /\ u.queue = t.queue
  BY <1>1 DEF Honest, Task, Same
<1> HIDE DEF u
<1>3. Pursued(t)
  BY <1>1 DEF Honest, Active
<1>4. \A i \in 1 .. Len(u.plan) : i < u.cand => Exhausted(u, i)
  BY <1>2, <1>3, SameExhausted DEF Pursued, Same
<1>5. Pursued(u)
  BY <1>2, <1>3, <1>4 DEF Pursued, Same
<1>6. \A i \in 1 .. Len(u.attempts) :
        ~ (u.attempts[i].answer = "success" \/ Stops(u, u.attempts[i]))
  BY <1>1, <1>2 DEF Honest, Same, Stops
<1>7. u.route = "free" => Len(u.plan) <= FreeBudget
  BY <1>1, <1>2 DEF Honest, Same
<1>8. Honest(u)
  BY <1>2, <1>5, <1>6, <1>7 DEF Honest
<1> QED
  BY <1>1, <1>8

(* No step makes a request dishonest.                                         *)
LEMMA NextHonest == Inv /\ AllHonest /\ Tables /\ [Next]_vars => AllHonest'
<1> SUFFICES ASSUME Inv, AllHonest, Tables, [Next]_vars PROVE AllHonest'
  OBVIOUS
<1>1. ASSUME NEW r \in Requests, NEW u, Honest(u), task' = [task EXCEPT ![r] = u]
      PROVE  AllHonest'
  <2>1. task = [q \in Requests |-> task[q]] /\ \A q \in Requests : Honest(task[q])
    BY DEF Inv, AllHonest
  <2>2. \A q \in Requests : task'[q] = IF q = r THEN u ELSE task[q]
    BY <1>1, <2>1
  <2>3. \A q \in Requests : Honest(task'[q])
    BY <1>1, <2>1, <2>2
  <2> QED
    BY <2>3 DEF AllHonest
<1>2. ASSUME task' = task PROVE AllHonest'
  BY <1>2 DEF AllHonest
<1>3. ASSUME NEW r \in Requests, Arrive(r) PROVE AllHonest'
  BY <1>1, <1>3, ArriveHonest
<1>4. ASSUME NEW r \in Requests, Succeed(r) PROVE AllHonest'
  BY <1>1, <1>4, SucceedHonest
<1>5. ASSUME NEW r \in Requests, Wake(r) PROVE AllHonest'
  BY <1>1, <1>5, WakeHonest
<1>6. ASSUME NEW r \in Requests, NEW answer \in Answers \ {"success"}, Fail(r, answer)
      PROVE  AllHonest'
  <2>1. TaskOK(task[r]) /\ Honest(task[r]) /\ task[r].pc = "calling"
    BY <1>6 DEF Inv, AllHonest, Fail
  <2>2. answer \in Answer /\ answer # "success"
    BY EngineAssumption
  <2>3. PICK u \in Onward(Return(task[r], answer), Verdict(task[r], answer)) :
          task' = [task EXCEPT ![r] = u]
    BY <1>6 DEF Fail, Return
  <2> QED
    BY <1>1, <2>1, <2>2, <2>3, OnwardHonest
<1>7. CASE Tick
  BY <1>2, <1>7 DEF Tick
<1>8. CASE AllServed
  BY <1>2, <1>8 DEF AllServed, vars
<1>9. CASE UNCHANGED vars
  BY <1>2, <1>9 DEF vars
<1> QED
  BY <1>3, <1>4, <1>5, <1>6, <1>7, <1>8, <1>9 DEF Next

(* An idle request has tried nothing and said nothing.                        *)
LEMMA InitHonest == Init => AllHonest /\ Tables
<1> SUFFICES ASSUME Init PROVE AllHonest /\ Tables
  OBVIOUS
<1>1. row \in [Keys -> Row]
  BY EngineAssumption DEF Init
<1>2. NewModelRow \in ModelRow
  BY ModelRowTypes
<1>3. Tables
  BY <1>1, <1>2 DEF Init, Tables
<1>4. ASSUME NEW r \in Requests PROVE Honest(task[r])
  <2> DEFINE t == task[r]
  <2>1. t = [pc |-> "idle", route |-> NULL, plan |-> <<>>, states |-> row, cand |-> 0,
             key |-> NULL, queue |-> <<>>, try |-> 0, offered |-> <<>>, attempts |-> <<>>,
             error |-> NULL]
    BY DEF Init
  <2>2. /\ <<>> \in Seq(Models) /\ <<>> \in Seq(Keys) /\ <<>> \in Seq(SUBSET Keys)
        /\ <<>> \in Seq(Attempt) /\ Len(<<>>) = 0
    OBVIOUS
  <2> HIDE DEF t
  <2>3. t \in Task
    BY <1>1, <2>1, <2>2 DEF Task
  <2>4. FreeBudget \in Nat
    BY EngineAssumption DEF FreeBudget
  <2> QED
    BY <2>1, <2>2, <2>3, <2>4 DEF Honest, Active, t
<1> QED
  BY <1>3, <1>4 DEF AllHonest

(* The attempts of a request are for candidates of its plan.                  *)
LEMMA AttemptsOfPlan ==
  ASSUME NEW t, TaskOK(t), NEW i \in 1 .. Len(t.attempts)
  PROVE  t.attempts[i].cand \in 1 .. Len(t.plan)
<1>1. t.attempts \in Seq(Call) /\ DOMAIN t.offered = 1 .. Len(t.plan)
  BY DEF TaskOK, Shaped
<1> DEFINE calls == Trail(t)
<1>2. calls[i] = t.attempts[i] /\ i \in 1 .. Len(calls)
  BY <1>1 DEF Trail, Attempted
<1>3. Walk(calls, t.offered)
  BY DEF TaskOK
<1> HIDE DEF calls
<1> QED
  BY <1>1, <1>2, <1>3 DEF Walk

(* Every request is always honest about what it has tried, and every table    *)
(* always well formed.                                                        *)
LEMMA AlwaysHonest == Spec => [](Inv /\ AllHonest /\ Tables)
<1>1. Inv /\ AllHonest /\ Tables /\ [Next]_vars => Inv' /\ AllHonest' /\ Tables'
  BY NextInv, NextHonest, NextTables
<1> QED
  BY <1>1, InitInv, InitHonest, PTL DEF Spec

(* Every reachable state of the engine is well formed.                        *)
THEOREM TypeCorrect == Spec => []TypeOK
<1>1. Inv /\ AllHonest /\ Tables => TypeOK
  <2> SUFFICES ASSUME Inv, AllHonest, Tables PROVE TypeOK
    OBVIOUS
  <2>1. task \in [Requests -> Task]
    BY DEF Inv, AllHonest, Honest
  <2> QED
    BY <2>1 DEF TypeOK, Tables
<1> QED
  BY <1>1, AlwaysHonest, PTL

(* Whatever the providers answer and the other requests do, a request that    *)
(* fails has called every key that was open when it arrived, or left its      *)
(* provider because the policy said so (the candidate loop of execute, and    *)
(* _execute_key).                                                             *)
THEOREM AlwaysFailsOnlyExhausted == Spec => []FailsOnlyExhausted
<1>1. AllHonest => FailsOnlyExhausted
  <2> SUFFICES ASSUME AllHonest PROVE FailsOnlyExhausted
    OBVIOUS
  <2>1. ASSUME NEW r \in Requests,
               task[r].pc = "done", task[r].error \notin {NULL, "free_tier_stop"},
               NEW i \in DOMAIN task[r].plan,
               NEW k \in OpenKeys(task[r].plan[i], task[r].states)
        PROVE  \E a \in ToSet(task[r].attempts) : a.cand = i /\ (a.key = k \/ Leaves(a))
    <3> DEFINE t == task[r]
    <3>1. Honest(t)
      BY DEF AllHonest
    <3>2. i \in 1 .. Len(t.plan) /\ t.attempts \in Seq(Attempt)
      BY <2>1, <3>1 DEF Honest, Task
    <3>3. Exhausted(t, i)
      BY <2>1, <3>1, <3>2 DEF Honest
    <3>4. PICK n \in 1 .. Len(t.attempts) :
            t.attempts[n].cand = i /\ (t.attempts[n].key = k \/ Leaves(t.attempts[n]))
      BY <2>1, <3>3 DEF Exhausted
    <3>5. t.attempts[n] \in ToSet(t.attempts)
      BY <3>2 DEF ToSet
    <3> QED
      BY <3>4, <3>5
  <2>2. ASSUME NEW r \in Requests,
               task[r].pc = "done", task[r].error \notin {NULL, "free_tier_stop"},
               NEW i \in DOMAIN task[r].plan,
               NEW k \in OpenKeys(task[r].plan[i], task[r].states)
        PROVE  LET calls == {a \in ToSet(task[r].attempts) : a.cand = i}
               IN  (\E a \in calls : a.key = k) \/ (\E a \in calls : Leaves(a))
    BY <2>1, <2>2
  <2> QED
    BY <2>2 DEF FailsOnlyExhausted, Leaves
<1> QED
  BY <1>1, AlwaysHonest, PTL

(* Whatever happens to it, the client of a request is told what happened, and *)
(* a request of a free alias keeps to its budget of candidates.               *)
THEOREM AlwaysOutcomeTold == Spec => []OutcomeTold
<1>1. Inv /\ AllHonest => OutcomeTold
  <2> SUFFICES ASSUME Inv, AllHonest PROVE OutcomeTold
    OBVIOUS
  <2>1. ASSUME NEW r \in Requests
        PROVE  LET t == task[r]
                   a == t.attempts
               IN  /\ \A i \in DOMAIN a :
                        a[i].answer = "success" \/ Stops(t, a[i]) => i = Len(a) /\ t.pc = "done"
                   /\ t.route = "free" => Cardinality({x.cand : x \in ToSet(a)}) <= FreeBudget
                   /\ t.pc = "done" /\ a # <<>> => t.error = Told(t)
    <3> DEFINE t == task[r]
               cands == {x.cand : x \in ToSet(t.attempts)}
    <3>1. Honest(t) /\ TaskOK(t)
      BY DEF Inv, AllHonest
    <3> HIDE DEF t
    <3>2. /\ t.attempts \in Seq(Attempt) /\ t.plan \in Seq(Models)
          /\ DOMAIN t.attempts = 1 .. Len(t.attempts) /\ Len(t.plan) \in Nat
      BY <3>1 DEF Honest, Task
    <3>3. \A i \in DOMAIN t.attempts : t.attempts[i].cand \in 1 .. Len(t.plan)
      BY <3>1, <3>2, AttemptsOfPlan
    <3>4. cands \subseteq 1 .. Len(t.plan)
      BY <3>3 DEF ToSet
    <3>5. \A n \in Nat : IsFiniteSet(1 .. n) /\ Cardinality(1 .. n) = n
      BY FS_Interval
    <3> HIDE DEF cands
    <3>6. Cardinality(cands) <= Len(t.plan) /\ Cardinality(cands) \in Nat
      <4>1. IsFiniteSet(1 .. Len(t.plan)) /\ Cardinality(1 .. Len(t.plan)) = Len(t.plan)
        BY <3>2, <3>5
      <4> QED
        BY <3>4, <4>1, FS_Subset, FS_CardinalityType
    <3>7. FreeBudget \in Nat
      BY EngineAssumption DEF FreeBudget
    <3>8. t.route = "free" => Cardinality(cands) <= FreeBudget
      BY <3>1, <3>2, <3>6, <3>7 DEF Honest
    <3> QED
      BY <3>1, <3>2, <3>8 DEF Honest, t, cands
  <2> QED
    BY <2>1, Zenon DEF OutcomeTold, Told, Stops, Last
<1> QED
  BY <1>1, AlwaysHonest, PTL

-----------------------------------------------------------------------------
(* Counters *)

(* All attempts of all requests, those of one key that succeeded and failed,   *)
(* and the failed ones after which it was not called again.                   *)
AttemptIds == UNION {{r} \X DOMAIN task[r].attempts : r \in Requests}

Nth(x) == task[x[1]].attempts[x[2]]

IsLast(t, i) == i = Len(Trail(t)) \/ Trail(t)[i + 1].try = 1

Won(k) == {x \in AttemptIds : Nth(x).key = k /\ Nth(x).answer = "success"}

Lost(k) == {x \in AttemptIds : Nth(x).key = k /\ Nth(x).answer # "success"}

Switched(k) == {x \in Lost(k) : IsLast(task[x[1]], x[2])}

Counts(n, S) == IsFiniteSet(S) /\ n = Cardinality(S)

Balance ==
  \A k \in Keys : /\ Counts(stats[k].success, Won(k))
                  /\ Counts(stats[k].failure, Lost(k))
                  /\ Counts(switches[k], Switched(k))

(* Where a request may go from a call: it ends, turns to another key, or       *)
(* waits to call the same key again.                                          *)
Follows(t, u) ==
  \/ u.pc = "done"
  \/ u.pc = "calling" /\ u.try = 1
  \/ u.pc = "sleeping" /\ u.try = t.try + 1

(* What the counters do then. *)
CountsAttempt(key, answer, u) ==
  \A k \in Keys :
    /\ stats'[k].success = IF k = key /\ answer = "success"
                           THEN stats[k].success + 1 ELSE stats[k].success
    /\ stats'[k].failure = IF k = key /\ answer # "success"
                           THEN stats[k].failure + 1 ELSE stats[k].failure
    /\ switches'[k] = IF k = key /\ answer # "success" /\ u.pc # "sleeping"
                      THEN switches[k] + 1 ELSE switches[k]

(* One more element counts one more.                                          *)
LEMMA CountsOneMore ==
  ASSUME NEW n, NEW S, Counts(n, S), NEW x, x \notin S
  PROVE  Counts(n + 1, S \cup {x})
BY FS_AddElement DEF Counts

(* A step that leaves the attempts alone, and whether their keys were called  *)
(* again, leaves the balance.                                                 *)
LEMMA SameAttempts ==
  ASSUME Balance, Inv, NEW r \in Requests, NEW u, task' = [task EXCEPT ![r] = u],
         u.attempts = task[r].attempts,
         \A i \in DOMAIN u.attempts : IsLast(u, i) <=> IsLast(task[r], i),
         stats' = stats, switches' = switches
  PROVE  Balance'
<1>1. task' = [q \in Requests |-> IF q = r THEN u ELSE task[q]]
  BY DEF Inv
<1>2. \A q \in Requests : task'[q].attempts = task[q].attempts
  BY <1>1
<1>3. AttemptIds' = AttemptIds
  BY <1>2 DEF AttemptIds
<1>4. \A x \in AttemptIds : x[1] \in Requests /\ x[2] \in DOMAIN task[x[1]].attempts
  BY DEF AttemptIds
<1>5. \A x \in AttemptIds : /\ task'[x[1]].attempts[x[2]] = Nth(x)
                            /\ IsLast(task'[x[1]], x[2]) <=> IsLast(task[x[1]], x[2])
  BY <1>1, <1>2, <1>4 DEF Nth
<1>6. \A k \in Keys : Won(k)' = Won(k) /\ Lost(k)' = Lost(k)
  BY <1>3, <1>5 DEF Won, Lost, Nth
<1>7. \A k \in Keys : Switched(k)' = Switched(k)
  <2>1. \A k \in Keys : Lost(k) \subseteq AttemptIds
    BY DEF Lost
  <2> QED
    BY <1>5, <1>6, <2>1 DEF Switched
<1> QED
  BY <1>6, <1>7 DEF Balance

(* The attempt a call becomes is the last of its key unless the request will  *)
(* call the key again; whether the earlier ones were does not change.         *)
LEMMA LastAttempt ==
  ASSUME NEW t, TaskOK(t), t.pc = "calling", NEW answer \in Answer,
         NEW u, TaskOK(u), u.attempts = Attempted(t, answer),
         Follows(t, u)
  PROVE  LET n == Len(t.attempts)
         IN  /\ n \in Nat /\ DOMAIN t.attempts = 1 .. n /\ DOMAIN u.attempts = 1 .. n + 1
             /\ u.attempts[n + 1]
                  = [cand |-> t.cand, key |-> t.key, try |-> t.try, answer |-> answer]
             /\ \A i \in 1 .. n : u.attempts[i] = t.attempts[i]
             /\ \A i \in 1 .. n : IsLast(u, i) <=> IsLast(t, i)
             /\ IsLast(u, n + 1) <=> u.pc # "sleeping"
<1> DEFINE n == Len(t.attempts)
           c == [cand |-> t.cand, key |-> t.key, try |-> t.try, answer |-> NULL]
           d == [cand |-> t.cand, key |-> t.key, try |-> t.try, answer |-> answer]
           e == [cand |-> u.cand, key |-> u.key, try |-> u.try, answer |-> NULL]
<1>1. t.attempts \in Seq(Call) /\ u.attempts \in Seq(Call) /\ t.try \in Nat \ {0}
  BY DEF TaskOK, Shaped, Active
<1>2. /\ Trail(t) = Append(t.attempts, c) /\ u.attempts = Append(t.attempts, d)
      /\ Trail(u) = IF u.pc = "done" THEN u.attempts ELSE Append(u.attempts, e)
  BY DEF Trail, Attempted, Follows
<1>3. c.try = t.try /\ d.try = t.try /\ e.try = u.try
  OBVIOUS
<1> HIDE DEF c, d, e
<1>4. /\ n \in Nat /\ DOMAIN t.attempts = 1 .. n /\ DOMAIN u.attempts = 1 .. n + 1
      /\ Len(u.attempts) = n + 1 /\ u.attempts[n + 1] = d
      /\ \A i \in 1 .. n : u.attempts[i] = t.attempts[i]
      /\ Len(Trail(t)) = n + 1 /\ Trail(t)[n + 1] = c
      /\ \A i \in 1 .. n : Trail(t)[i] = t.attempts[i]
  BY <1>1, <1>2
<1>5. /\ Len(Trail(u)) = IF u.pc = "done" THEN n + 1 ELSE n + 2
      /\ \A i \in 1 .. n + 1 : Trail(u)[i] = u.attempts[i]
      /\ u.pc # "done" => Trail(u)[n + 2] = e
  BY <1>1, <1>2, <1>4
<1> HIDE DEF n
<1>6. \A i \in 1 .. n : IsLast(u, i) <=> IsLast(t, i)
  <2> SUFFICES ASSUME NEW i \in 1 .. n PROVE IsLast(u, i) <=> IsLast(t, i)
    OBVIOUS
  <2>1. i # Len(Trail(u)) /\ i # Len(Trail(t)) /\ i + 1 \in 1 .. n + 1
    BY <1>4, <1>5
  <2>2. Trail(u)[i + 1].try = Trail(t)[i + 1].try
    <3>1. CASE i = n
      BY <1>3, <1>4, <1>5, <2>1, <3>1
    <3>2. CASE i # n
      BY <1>4, <1>5, <2>1, <3>2
    <3> QED
      BY <3>1, <3>2
  <2> QED
    BY <2>1, <2>2 DEF IsLast
<1>7. IsLast(u, n + 1) <=> u.pc # "sleeping"
  <2>1. CASE u.pc = "done"
    BY <1>5, <2>1 DEF IsLast
  <2>2. CASE u.pc # "done"
    <3>1. Trail(u)[(n + 1) + 1].try = u.try /\ n + 1 # Len(Trail(u))
      BY <1>3, <1>4, <1>5, <2>2
    <3>2. u.try = 1 <=> u.pc # "sleeping"
      BY <1>1, <2>2 DEF Follows
    <3> QED
      BY <3>1, <3>2 DEF IsLast
  <2> QED
    BY <2>1, <2>2
<1> QED
  BY <1>4, <1>6, <1>7 DEF n, d

(* One attempt more is counted once, for its key.                             *)
LEMMA OneMoreAttempt ==
  ASSUME Balance, Inv, NEW r \in Requests, task[r].pc = "calling", NEW answer \in Answer,
         NEW u, TaskOK(u), u.attempts = Attempted(task[r], answer),
         Follows(task[r], u),
         task' = [task EXCEPT ![r] = u],
         CountsAttempt(task[r].key, answer, u)
  PROVE  Balance'
<1> DEFINE t == task[r]
<1>1. TaskOK(t)
  BY DEF Inv
<1>2. PICK n \in Nat :
        /\ DOMAIN t.attempts = 1 .. n /\ DOMAIN u.attempts = 1 .. n + 1
        /\ u.attempts[n + 1].key = t.key /\ u.attempts[n + 1].answer = answer
        /\ \A i \in 1 .. n : u.attempts[i] = t.attempts[i]
        /\ \A i \in 1 .. n : IsLast(u, i) <=> IsLast(t, i)
        /\ IsLast(u, n + 1) <=> u.pc # "sleeping"
  <2> DEFINE n == Len(t.attempts)
  <2>1. /\ n \in Nat /\ DOMAIN t.attempts = 1 .. n /\ DOMAIN u.attempts = 1 .. n + 1
        /\ u.attempts[n + 1]
             = [cand |-> t.cand, key |-> t.key, try |-> t.try, answer |-> answer]
        /\ \A i \in 1 .. n : u.attempts[i] = t.attempts[i]
        /\ \A i \in 1 .. n : IsLast(u, i) <=> IsLast(t, i)
        /\ IsLast(u, n + 1) <=> u.pc # "sleeping"
    BY <1>1, LastAttempt
  <2> HIDE DEF n
  <2> QED
    BY <2>1
<1>0. PICK new : new = <<r, n + 1>>
  OBVIOUS
<1>3. task' = [q \in Requests |-> IF q = r THEN u ELSE task[q]]
  BY DEF Inv
<1>4. task'[r] = u /\ \A q \in Requests : q # r => task'[q] = task[q]
  BY <1>3
<1>5. \A x : x \in AttemptIds' <=> x \in AttemptIds \/ x = new
  <2>1. \A q \in Requests : q # r => DOMAIN task'[q].attempts = DOMAIN task[q].attempts
    BY <1>4
  <2>2. \A i : i \in DOMAIN task'[r].attempts <=> i \in DOMAIN task[r].attempts \/ i = n + 1
    BY <1>2, <1>4
  <2>3. \A x : x \in AttemptIds
               <=> \E q \in Requests : \E i \in DOMAIN task[q].attempts : x = <<q, i>>
    BY DEF AttemptIds
  <2>4. \A x : x \in AttemptIds'
               <=> \E q \in Requests : \E i \in DOMAIN task'[q].attempts : x = <<q, i>>
    BY DEF AttemptIds
  <2> QED
    BY <1>0, <2>1, <2>2, <2>3, <2>4
<1>6. new \notin AttemptIds
  BY <1>0, <1>2 DEF AttemptIds
<1>7. /\ Nth(new)'.key = t.key /\ Nth(new)'.answer = answer
      /\ IsLast(task'[new[1]], new[2]) <=> u.pc # "sleeping"
  <2>1. Nth(new)' = u.attempts[n + 1] /\ new[1] = r /\ new[2] = n + 1
    BY <1>0, <1>4 DEF Nth
  <2> QED
    BY <1>2, <1>4, <2>1
<1>8. ASSUME NEW x \in AttemptIds
      PROVE  Nth(x)' = Nth(x) /\ (IsLast(task'[x[1]], x[2]) <=> IsLast(task[x[1]], x[2]))
  <2>0. PICK q \in Requests : \E i \in DOMAIN task[q].attempts : x = <<q, i>>
    BY DEF AttemptIds
  <2>1. PICK i \in DOMAIN task[q].attempts : x = <<q, i>>
    BY <2>0
  <2>2. CASE q = r
    BY <1>2, <1>4, <2>1, <2>2 DEF Nth
  <2>3. CASE q # r
    BY <1>4, <2>1, <2>3 DEF Nth
  <2> QED
    BY <2>2, <2>3
<1> HIDE DEF t
<1>9. SUFFICES ASSUME NEW k \in Keys
               PROVE  /\ Counts(stats'[k].success, Won(k)')
                      /\ Counts(stats'[k].failure, Lost(k)')
                      /\ Counts(switches'[k], Switched(k)')
  BY DEF Balance, Counts
<1>10. Counts(stats[k].success, Won(k)) /\ Counts(stats[k].failure, Lost(k))
       /\ Counts(switches[k], Switched(k))
  BY DEF Balance
<1>11. new \notin Won(k) /\ new \notin Lost(k) /\ new \notin Switched(k)
  BY <1>6 DEF Won, Lost, Switched
<1>12. Won(k)' = IF k = t.key /\ answer = "success" THEN Won(k) \cup {new} ELSE Won(k)
  <2>1. \A x \in AttemptIds : x \in Won(k)' <=> x \in Won(k)
    BY <1>5, <1>8 DEF Won
  <2>2. new \in Won(k)' <=> k = t.key /\ answer = "success"
    BY <1>5, <1>7 DEF Won
  <2>3. Won(k)' \subseteq AttemptIds \cup {new} /\ Won(k) \subseteq AttemptIds
    BY <1>5 DEF Won
  <2>4. \A x : x \in Won(k)' <=> x \in Won(k)
                                       \/ (x = new /\ k = t.key /\ answer = "success")
    BY <1>11, <2>1, <2>2, <2>3
  <2> QED
    BY <2>4
<1>13. Lost(k)' = IF k = t.key /\ answer # "success" THEN Lost(k) \cup {new} ELSE Lost(k)
  <2>1. \A x \in AttemptIds : x \in Lost(k)' <=> x \in Lost(k)
    BY <1>5, <1>8 DEF Lost
  <2>2. new \in Lost(k)' <=> k = t.key /\ answer # "success"
    BY <1>5, <1>7 DEF Lost
  <2>3. Lost(k)' \subseteq AttemptIds \cup {new} /\ Lost(k) \subseteq AttemptIds
    BY <1>5 DEF Lost
  <2>4. \A x : x \in Lost(k)' <=> x \in Lost(k)
                                        \/ (x = new /\ k = t.key /\ answer # "success")
    BY <1>11, <2>1, <2>2, <2>3
  <2> QED
    BY <2>4
<1>14. Switched(k)' = IF k = t.key /\ answer # "success" /\ u.pc # "sleeping"
                      THEN Switched(k) \cup {new} ELSE Switched(k)
  <2>1. \A x \in AttemptIds : x \in Switched(k)' <=> x \in Switched(k)
    <3> SUFFICES ASSUME NEW x \in AttemptIds PROVE x \in Switched(k)' <=> x \in Switched(k)
      OBVIOUS
    <3>1. x \in Lost(k)' <=> x \in Lost(k)
      BY <1>6, <1>13
    <3> QED
      BY <1>8, <3>1 DEF Switched
  <2>2. new \in Switched(k)' <=> k = t.key /\ answer # "success" /\ u.pc # "sleeping"
    <3>1. new \in Lost(k)' <=> k = t.key /\ answer # "success"
      BY <1>11, <1>13
    <3> QED
      BY <1>7, <3>1 DEF Switched
  <2>3. Switched(k)' \subseteq AttemptIds \cup {new} /\ Switched(k) \subseteq AttemptIds
    BY <1>5 DEF Switched, Lost
  <2> QED
    BY <1>11, <2>1, <2>2, <2>3
<1>15. Counts(stats'[k].success, Won(k)')
  BY <1>10, <1>11, <1>12, CountsOneMore DEF t, CountsAttempt
<1>16. Counts(stats'[k].failure, Lost(k)')
  BY <1>10, <1>11, <1>13, CountsOneMore DEF t, CountsAttempt
<1>17. Counts(switches'[k], Switched(k)')
  BY <1>10, <1>11, <1>14, CountsOneMore DEF t, CountsAttempt
<1> QED
  BY <1>15, <1>16, <1>17

(* Every step keeps the counters in balance with the attempts.                *)
LEMMA NextBalance == Inv /\ AllHonest /\ Tables /\ Balance /\ [Next]_vars => Balance'
<1> SUFFICES ASSUME Inv, AllHonest, Tables, Balance, [Next]_vars PROVE Balance'
  OBVIOUS
<1>1. ASSUME task' = task, stats' = stats, switches' = switches PROVE Balance'
  <2>1. AttemptIds' = AttemptIds /\ \A x : Nth(x)' = Nth(x)
    BY <1>1 DEF AttemptIds, Nth
  <2>2. \A k \in Keys : Won(k)' = Won(k) /\ Lost(k)' = Lost(k)
    BY <2>1 DEF Won, Lost
  <2>3. \A k \in Keys : Switched(k)' = Switched(k)
    BY <1>1, <2>2 DEF Switched
  <2> QED
    BY <1>1, <2>2, <2>3 DEF Balance
<1>2. ASSUME NEW r \in Requests, Arrive(r) PROVE Balance'
  <2>1. task[r].attempts = <<>> /\ \E u : u.attempts = <<>> /\ task' = [task EXCEPT ![r] = u]
    BY <1>2, ArriveStep
  <2>2. PICK u : u.attempts = <<>> /\ task' = [task EXCEPT ![r] = u]
    BY <2>1
  <2>3. \A i \in DOMAIN u.attempts : IsLast(u, i) <=> IsLast(task[r], i)
    BY <2>2
  <2>4. stats' = stats /\ switches' = switches
    BY <1>2 DEF Arrive
  <2> QED
    BY <2>1, <2>2, <2>3, <2>4, SameAttempts
<1>3. ASSUME NEW r \in Requests, Wake(r) PROVE Balance'
  <2>1. PICK u : /\ TaskOK(u) /\ u.attempts = task[r].attempts
                 /\ task[r].pc = "sleeping" /\ u.pc = "calling"
                 /\ SamePair(u, task[r]) /\ u.try = task[r].try
                 /\ task' = [task EXCEPT ![r] = u]
    BY <1>3, WakeStep
  <2>2. Trail(u) = Trail(task[r])
    BY <2>1 DEF Trail, Attempted, SamePair
  <2>3. \A i \in DOMAIN u.attempts : IsLast(u, i) <=> IsLast(task[r], i)
    BY <2>2 DEF IsLast
  <2>4. stats' = stats /\ switches' = switches
    BY <1>3 DEF Wake
  <2> QED
    BY <2>1, <2>3, <2>4, SameAttempts
<1>4. ASSUME NEW r \in Requests, Succeed(r) PROVE Balance'
  <2>1. PICK u : /\ TaskOK(u) /\ u.attempts = Attempted(task[r], "success")
                 /\ u.pc = "done" /\ task' = [task EXCEPT ![r] = u]
    BY <1>4, SucceedStep
  <2>2. /\ task[r].pc = "calling" /\ switches' = switches
        /\ stats' = [stats EXCEPT ![task[r].key].success = @ + 1]
    BY <1>4 DEF Succeed
  <2>3. "success" \in Answer
    BY DEF Answer
  <2>4. \A k \in Keys :
          /\ stats'[k].success = IF k = task[r].key THEN stats[k].success + 1
                                                    ELSE stats[k].success
          /\ stats'[k].failure = stats[k].failure
    BY <2>2 DEF Tables
  <2>5. CountsAttempt(task[r].key, "success", u) /\ Follows(task[r], u)
    BY <2>1, <2>2, <2>4 DEF CountsAttempt, Follows
  <2> QED
    BY <2>1, <2>2, <2>3, <2>5, OneMoreAttempt
<1>5. ASSUME NEW r \in Requests, NEW answer \in Answers \ {"success"}, Fail(r, answer)
      PROVE  Balance'
  <2>1. PICK u : GoesOn(task[r], u, answer) /\ task' = [task EXCEPT ![r] = u]
    BY <1>5, FailStep, Zenon
  <2>2. /\ TaskOK(u) /\ u.attempts = Attempted(task[r], answer)
        /\ Follows(task[r], u)
    BY <2>1 DEF GoesOn, Follows
  <2>3. u.pc # "sleeping"
          <=> Verdict(task[r], answer) \in {"switch_key", "switch_provider", "stop"}
    BY <2>1, VerdictStops DEF GoesOn
  <2>4. /\ task[r].pc = "calling" /\ answer \in Answer /\ answer # "success"
        /\ stats' = [stats EXCEPT ![task[r].key].failure = @ + 1]
        /\ switches' = IF u.pc # "sleeping" THEN [switches EXCEPT ![task[r].key] = @ + 1]
                                            ELSE switches
    BY <1>5, <2>3, EngineAssumption DEF Fail, RecordFailure
  <2>5. \A k \in Keys :
          /\ stats'[k].success = stats[k].success
          /\ stats'[k].failure = IF k = task[r].key THEN stats[k].failure + 1
                                                    ELSE stats[k].failure
    BY <2>4 DEF Tables
  <2>6. \A k \in Keys :
          switches'[k] = IF k = task[r].key /\ u.pc # "sleeping" THEN switches[k] + 1
                                                                 ELSE switches[k]
    BY <2>4 DEF Tables
  <2>7. CountsAttempt(task[r].key, answer, u)
    BY <2>4, <2>5, <2>6 DEF CountsAttempt
  <2> QED
    BY <2>1, <2>2, <2>4, <2>7, OneMoreAttempt
<1>6. CASE Tick
  BY <1>1, <1>6 DEF Tick
<1>7. CASE AllServed
  BY <1>1, <1>7 DEF AllServed, vars
<1>8. CASE UNCHANGED vars
  BY <1>1, <1>8 DEF vars
<1> QED
  BY <1>2, <1>3, <1>4, <1>5, <1>6, <1>7, <1>8 DEF Next

(* Before the first request arrives there is nothing to count.                *)
LEMMA InitBalance == Init => Balance
<1> SUFFICES ASSUME Init PROVE Balance
  OBVIOUS
<1>1. AttemptIds = {}
  BY DEF Init, AttemptIds
<1>2. \A k \in Keys : Won(k) = {} /\ Lost(k) = {} /\ Switched(k) = {}
  BY <1>1 DEF Won, Lost, Switched
<1>3. Counts(0, {})
  BY FS_EmptySet DEF Counts
<1>4. \A k \in Keys : stats[k].success = 0 /\ stats[k].failure = 0 /\ switches[k] = 0
  BY DEF Init
<1> QED
  BY <1>2, <1>3, <1>4 DEF Balance

(* The counters of every key balance with the attempts of all requests, in    *)
(* whatever order the requests run: one success or failure for each attempt,  *)
(* and one switch for each key given up (the statements of                    *)
(* usage_stats and switch_count in _execute_key).                             *)
THEOREM AlwaysCounters == Spec => []Counters
<1>1. Inv /\ AllHonest /\ Tables /\ Balance /\ [Next]_vars => Balance'
  BY NextBalance
<1>2. Balance => Counters
  <2> SUFFICES ASSUME Balance PROVE Counters
    OBVIOUS
  <2>1. \A k \in Keys : /\ stats[k].success = Cardinality(Won(k))
                        /\ stats[k].failure = Cardinality(Lost(k))
                        /\ switches[k] = Cardinality(Switched(k))
    BY DEF Balance, Counts
  <2>2. \A k \in Keys : Switched(k) = {x \in AttemptIds : /\ Nth(x).key = k
                                                         /\ Nth(x).answer # "success"
                                                         /\ IsLast(task[x[1]], x[2])}
    BY DEF Switched, Lost
  <2> QED
    BY <2>1, <2>2 DEF Counters, Won, Lost, AttemptIds, Nth, IsLast
<1> QED
  BY <1>1, <1>2, InitBalance, AlwaysHonest, PTL DEF Spec
=============================================================================
