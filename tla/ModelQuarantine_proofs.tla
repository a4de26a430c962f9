------------------------ MODULE ModelQuarantine_proofs ------------------------
(***************************************************************************)
(* Proofs about ModelQuarantine, for any models, requests and settings.      *)
(*                                                                           *)
(* QuarantineEarned speaks of the table and the history only.  What makes it *)
(* inductive is PendingIsCurrent: the row a failure was computed from is     *)
(* still the row in the table, unless the operator has reset it.             *)
(***************************************************************************)
EXTENDS ModelQuarantine, TLAPS

-----------------------------------------------------------------------------
(* What each statement on a row leaves *)

(* A reset row, like a missing one, has neither failures nor a quarantine.    *)
LEMMA ClearedRow ==
  /\ Cleared \in ModelRow
  /\ Cleared.fails = 0 /\ Cleared.until = NULL
  /\ NewModelRow = Cleared
BY DEF Cleared, NewModelRow, ModelRow

(* The upsert counts one failure on top of the row it read, and quarantines   *)
(* the model only if that makes as many as the threshold.                     *)
LEMMA UpsertedRow ==
  ASSUME NEW read \in ModelRow, NEW class \in ErrorClass, NEW t \in Nat
  PROVE  /\ Upserted(read, class, t) \in ModelRow
         /\ Upserted(read, class, t).fails = read.fails + 1
         /\ Upserted(read, class, t).until # NULL => read.fails + 1 >= FailureThreshold
<1>1. QuarantineSeconds[class] \in Int /\ FailureThreshold \in Nat
  BY ModelRowAssumption
<1>2. read.fails + 1 \in Nat
  BY DEF ModelRow
<1> DEFINE quarantine == read.fails + 1 >= FailureThreshold /\ QuarantineSeconds[class] > 0
           until == IF quarantine THEN t + QuarantineSeconds[class] ELSE NULL
<1>3. until \in Nat \cup {NULL} /\ (until # NULL => quarantine)
  BY <1>1
<1>4. Upserted(read, class, t) = [fails |-> read.fails + 1, until |-> until]
  BY DEF Upserted
<1> HIDE DEF until
<1> QED
  BY <1>2, <1>3, <1>4 DEF ModelRow

-----------------------------------------------------------------------------
(* What a request has before it *)

(* A list of candidates is a set of places with a model at each.              *)
LEMMA CandidatesType ==
  ASSUME NEW list \in Plans
  PROVE  Candidates(list) \subseteq Candidate
<1>1. list \in Seq(Models)
  BY QuarantineAssumption
<1>2. \A i \in DOMAIN list : i \in Nat /\ list[i] \in Models
  BY <1>1
<1> QED
  BY <1>2 DEF Candidates, Candidate

(* A request that goes on goes on to candidates it had before it.             *)
LEMMA OnwardIsLeft ==
  ASSUME NEW candidates, NEW next \in Onward(candidates)
  PROVE  next \subseteq candidates
BY DEF Onward

(* The model a request calls is one of the models it has left.                *)
LEMMA CalledIsLeft ==
  ASSUME TypeOK, NEW r \in Requests, NEW m, Calls(r, m)
  PROVE  m \in Models /\ pending = NULL /\ \E c \in plan[r] : c[2] = m
BY DEF TypeOK, Calls, Candidate

-----------------------------------------------------------------------------
(* Type correctness *)

(* No step of the gateway or of the operator stores an ill-formed row.        *)
LEMMA NextTypeOK == TypeOK /\ [Next]_vars => TypeOK'
<1> SUFFICES ASSUME TypeOK, [Next]_vars PROVE TypeOK'
  OBVIOUS
<1> USE DEF TypeOK
<1>1. ASSUME NEW r \in Requests, NEW list \in Plans, Start(r, list) PROVE TypeOK'
  <2>1. PICK next : next \subseteq Candidates(list) /\ plan' = [plan EXCEPT ![r] = next]
    BY <1>1, OnwardIsLeft DEF Start
  <2>2. plan' \in [Requests -> SUBSET Candidate]
    BY <2>1, CandidatesType
  <2> QED
    BY <1>1, <2>2 DEF Start
<1>2. ASSUME NEW r \in Requests, NEW m \in Models, Succeed(r, m) PROVE TypeOK'
  <2>1. plan' \in [Requests -> SUBSET Candidate]
    BY <1>2 DEF Succeed
  <2> QED
    BY <1>2, <2>1, ClearedRow DEF Succeed, Calls
<1>3. ASSUME NEW r \in Requests, NEW m \in Models, FailAuth(r, m) PROVE TypeOK'
  <2>1. PICK next : next \subseteq plan[r] /\ plan' = [plan EXCEPT ![r] = next]
    BY <1>3, OnwardIsLeft DEF FailAuth
  <2>2. plan' \in [Requests -> SUBSET Candidate]
    BY <2>1
  <2> QED
    BY <1>3, <2>2 DEF FailAuth
<1>4. ASSUME NEW r \in Requests, NEW m \in Models, NEW class \in Failures,
             ReadState(r, m, class)
      PROVE  TypeOK'
  <2>1. class \in ErrorClass
    BY QuarantineAssumption
  <2>2. pending' \in Pending
    BY <1>4, <2>1 DEF ReadState, Pending
  <2>3. PICK next : next \subseteq plan[r] /\ plan' = [plan EXCEPT ![r] = next]
    BY <1>4, OnwardIsLeft DEF ReadState
  <2>4. plan' \in [Requests -> SUBSET Candidate]
    BY <2>3
  <2> QED
    BY <1>4, <2>2, <2>4 DEF ReadState
<1>5. CASE Upsert
  <2>1. /\ pending.model \in Models /\ pending.class \in ErrorClass
        /\ pending.read \in ModelRow
    BY <1>5 DEF Upsert, Pending
  <2>2. Upserted(pending.read, pending.class, now) \in ModelRow
    BY <2>1, UpsertedRow
  <2> QED
    BY <1>5, <2>1, <2>2 DEF Upsert
<1>6. ASSUME NEW ms \in SUBSET Models, Reset(ms) PROVE TypeOK'
  <2>1. pending # NULL => pending.model \in Models
    BY DEF Pending
  <2> QED
    BY <1>6, <2>1, ClearedRow DEF Reset
<1>7. CASE Restart
  BY <1>7 DEF Restart
<1>8. CASE Tick
  BY <1>8 DEF Tick
<1>9. CASE UNCHANGED vars
  BY <1>9 DEF vars
<1> QED
  BY <1>1, <1>2, <1>3, <1>4, <1>5, <1>6, <1>7, <1>8, <1>9 DEF Next

(* Every reachable state of the quarantine is well formed.                    *)
THEOREM TypeCorrect == Spec => []TypeOK
<1>1. Init => TypeOK
  BY ClearedRow DEF Init, TypeOK
<1> QED
  BY <1>1, NextTypeOK, PTL DEF Spec

-----------------------------------------------------------------------------
(* Quarantines are earned *)

PendingIsCurrent ==
  pending # NULL /\ pending.model \notin raced =>
    pending.read.fails = mrow[pending.model].fails

Earned == QuarantineEarned /\ PendingIsCurrent

(* Every statement of every process keeps the two.                            *)
LEMMA NextEarned == TypeOK /\ Earned /\ [Next]_vars => Earned'
<1> SUFFICES ASSUME TypeOK, Earned, [Next]_vars PROVE Earned'
  OBVIOUS
<1> USE DEF Earned
<1>a. /\ mrow \in [Models -> ModelRow]
      /\ since \in [Models -> Nat]
      /\ raced \subseteq Models
      /\ \A m \in Models : mrow[m].fails \in Nat
  BY DEF TypeOK, ModelRow
<1>b. pending # NULL => pending.model \in Models /\ pending.read \in ModelRow
                        /\ pending.class \in ErrorClass
  BY DEF TypeOK, Pending
<1>1. ASSUME NEW r \in Requests, NEW list \in Plans, Start(r, list) PROVE Earned'
  BY <1>1 DEF Start, QuarantineEarned, PendingIsCurrent
<1>2. ASSUME NEW r \in Requests, NEW m \in Models, Succeed(r, m) PROVE Earned'
  <2>1. QuarantineEarned'
    BY <1>2, <1>a, ClearedRow DEF Succeed, QuarantineEarned
  <2> QED
    BY <1>2, <2>1 DEF Succeed, Calls, PendingIsCurrent
<1>3. ASSUME NEW r \in Requests, NEW m \in Models, FailAuth(r, m) PROVE Earned'
  BY <1>3 DEF FailAuth, QuarantineEarned, PendingIsCurrent
<1>4. ASSUME NEW r \in Requests, NEW m \in Models, NEW class \in Failures,
             ReadState(r, m, class)
      PROVE  Earned'
  BY <1>4 DEF ReadState, QuarantineEarned, PendingIsCurrent
<1>5. CASE Upsert
  <2> DEFINE m == pending.model
  <2>1. m \in Models
    BY <1>5, <1>b DEF Upsert
  <2>2. /\ mrow'[m].fails = pending.read.fails + 1
        /\ mrow'[m].until # NULL => pending.read.fails + 1 >= FailureThreshold
        /\ since'[m] = since[m] + 1
        /\ \A k \in Models \ {m} : mrow'[k] = mrow[k] /\ since'[k] = since[k]
    BY <1>5, <1>a, <1>b, <2>1, UpsertedRow DEF Upsert, TypeOK
  <2>3. m \notin raced => pending.read.fails = since[m]
    BY <1>5, <2>1 DEF Upsert, PendingIsCurrent, QuarantineEarned
  <2>4. raced' = raced /\ pending' = NULL
    BY <1>5 DEF Upsert
  <2> HIDE DEF m
  <2>5. QuarantineEarned'
    BY <2>2, <2>3, <2>4 DEF QuarantineEarned
  <2> QED
    BY <2>4, <2>5 DEF PendingIsCurrent
<1>6. ASSUME NEW ms \in SUBSET Models, Reset(ms) PROVE Earned'
  <2>1. \A m \in ms : mrow'[m].fails = 0 /\ mrow'[m].until = NULL /\ since'[m] = 0
    BY <1>6, ClearedRow DEF Reset
  <2>2. \A m \in Models \ ms : mrow'[m] = mrow[m] /\ since'[m] = since[m]
    BY <1>6 DEF Reset
  <2>3. \A m \in Models \ raced' : m \in ms \/ m \notin raced
    BY <1>6 DEF Reset
  <2>4. QuarantineEarned'
    BY <2>1, <2>2, <2>3 DEF QuarantineEarned
  <2>5. PendingIsCurrent'
    <3>1. SUFFICES ASSUME pending # NULL, pending.model \notin raced'
                   PROVE  pending.read.fails = mrow'[pending.model].fails
      BY <1>6 DEF Reset, PendingIsCurrent
    <3>2. pending.model \in Models \ ms /\ pending.model \notin raced
      BY <1>6, <1>b, <3>1 DEF Reset
    <3> QED
      BY <2>2, <3>1, <3>2 DEF PendingIsCurrent
  <2> QED
    BY <2>4, <2>5
<1>7. CASE Restart
  BY <1>7 DEF Restart, QuarantineEarned, PendingIsCurrent
<1>8. CASE Tick
  BY <1>8 DEF Tick, QuarantineEarned, PendingIsCurrent
<1>9. CASE UNCHANGED vars
  BY <1>9 DEF vars, QuarantineEarned, PendingIsCurrent
<1> QED
  BY <1>1, <1>2, <1>3, <1>4, <1>5, <1>6, <1>7, <1>8, <1>9 DEF Next

(* A model is in quarantine only for failures it really had, in every         *)
(* reachable state: no two requests and no reset outside the gap of           *)
(* record_failure can make the count and the history disagree.                *)
THEOREM QuarantineAlwaysEarned == Spec => []QuarantineEarned
<1>1. Init => TypeOK /\ Earned
  <2>1. Init => TypeOK
    BY ClearedRow DEF Init, TypeOK
  <2>2. Init => Earned
    BY ClearedRow DEF Init, Earned, QuarantineEarned, PendingIsCurrent
  <2> QED
    BY <2>1, <2>2
<1>2. (TypeOK /\ Earned) /\ [Next]_vars => (TypeOK /\ Earned)'
  BY NextTypeOK, NextEarned
<1>3. Earned => QuarantineEarned
  BY DEF Earned
<1> QED
  BY <1>1, <1>2, <1>3, PTL DEF Spec

-----------------------------------------------------------------------------
(* Quarantines are left alone *)

(* No request has the model before it. *)
Unplanned(m) == \A r \in Requests : \A c \in plan[r] : c[2] # m

(* What QuarantineUndisturbed says of one step and one model.                 *)
Undisturbed(m) ==
  Quarantined(mrow[m], now) /\ Unplanned(m) /\ pending = NULL
    => Unplanned(m)' /\ mrow'[m] \in {mrow[m], Cleared}

(* A step after which no request has more before it than it had.              *)
LEMMA FewerPlanned ==
  ASSUME TypeOK, NEW m \in Models, Unplanned(m), NEW r \in Requests,
         NEW next \in SUBSET plan[r], plan' = [plan EXCEPT ![r] = next]
  PROVE  Unplanned(m)'
<1>1. \A q \in Requests : plan'[q] \subseteq plan[q]
  BY DEF TypeOK
<1> QED
  BY <1>1 DEF Unplanned

(* No step touches a quarantined model that is left in no request's plan: a   *)
(* plan is made without it, and a plan only gets shorter.                     *)
LEMMA NextUndisturbed ==
  ASSUME TypeOK, [Next]_vars, NEW m \in Models
  PROVE  Undisturbed(m)
<1> SUFFICES ASSUME Quarantined(mrow[m], now), Unplanned(m), pending = NULL
             PROVE  Unplanned(m)' /\ mrow'[m] \in {mrow[m], Cleared}
  BY DEF Undisturbed
<1> USE DEF TypeOK
<1>1. ASSUME NEW r \in Requests, NEW list \in Plans, Start(r, list)
      PROVE  Unplanned(m)' /\ mrow'[m] = mrow[m]
  <2> DEFINE allowed == {c \in Candidates(list) : ~ Quarantined(mrow[c[2]], now)}
  <2>1. PICK next \in Onward(allowed) : plan' = [plan EXCEPT ![r] = next]
    BY <1>1 DEF Start
  <2>2. \A c \in next : c[2] # m
    BY <2>1, OnwardIsLeft
  <2> QED
    BY <1>1, <2>1, <2>2 DEF Start, Unplanned
<1>2. ASSUME NEW r \in Requests, NEW k \in Models, Succeed(r, k)
      PROVE  Unplanned(m)' /\ mrow'[m] = mrow[m]
  <2>1. k # m
    BY <1>2, CalledIsLeft DEF Succeed, Unplanned
  <2>2. Unplanned(m)'
    BY <1>2, FewerPlanned DEF Succeed
  <2> QED
    BY <1>2, <2>1, <2>2 DEF Succeed
<1>3. ASSUME NEW r \in Requests, NEW k \in Models, FailAuth(r, k)
      PROVE  Unplanned(m)' /\ mrow'[m] = mrow[m]
  <2>1. Unplanned(m)'
    BY <1>3, OnwardIsLeft, FewerPlanned DEF FailAuth
  <2> QED
    BY <1>3, <2>1 DEF FailAuth
<1>4. ASSUME NEW r \in Requests, NEW k \in Models, NEW class \in Failures,
             ReadState(r, k, class)
      PROVE  Unplanned(m)' /\ mrow'[m] = mrow[m]
  <2>1. Unplanned(m)'
    BY <1>4, OnwardIsLeft, FewerPlanned DEF ReadState
  <2> QED
    BY <1>4, <2>1 DEF ReadState
<1>5. CASE Upsert
  BY <1>5 DEF Upsert
<1>6. ASSUME NEW ms \in SUBSET Models, Reset(ms)
      PROVE  Unplanned(m)' /\ mrow'[m] \in {mrow[m], Cleared}
  BY <1>6 DEF Reset, Unplanned
<1>7. CASE Restart
  BY <1>7 DEF Restart, Unplanned
<1>8. CASE Tick
  BY <1>8 DEF Tick, Unplanned
<1>9. CASE UNCHANGED vars
  BY <1>9 DEF vars, Unplanned
<1> QED
  BY <1>1, <1>2, <1>3, <1>4, <1>5, <1>6, <1>7, <1>8, <1>9 DEF Next

(* A quarantined model that no request has before it gets into no plan and is *)
(* left alone until its time is up or the operator resets it.                 *)
THEOREM QuarantinesUndisturbed == Spec => QuarantineUndisturbed
<1> DEFINE A ==
      \A m \in Models :
        Quarantined(mrow[m], now) /\ (\A r \in Requests : \A c \in plan[r] : c[2] # m)
          /\ pending = NULL
          => /\ \A r \in Requests : \A c \in plan'[r] : c[2] # m
             /\ mrow'[m] \in {mrow[m], Cleared}
<1>1. TypeOK /\ [Next]_vars => [A]_vars
  BY NextUndisturbed DEF Undisturbed, Unplanned
<1> QED
  BY <1>1, TypeCorrect, PTL DEF Spec, QuarantineUndisturbed
=============================================================================
