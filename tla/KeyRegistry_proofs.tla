-------------------------- MODULE KeyRegistry_proofs --------------------------
(***************************************************************************)
(* Proofs about KeyRegistry, for any set of keys and any configuration.      *)
(*                                                                           *)
(* What each statement on a row leaves are lemmas on their own.  TypeOK is     *)
(* inductive.  The three safety invariants are inductive together with        *)
(* ExceededHasErrors, which says what the gateway knows between the read of   *)
(* record_failure and its last write.                                         *)
(***************************************************************************)
EXTENDS KeyRegistry, TLAPS

-----------------------------------------------------------------------------
(* The statements on a row of key_runtime_state *)

(* Every error class has a cooldown, a number of seconds.                     *)
LEMMA CooldownType ==
  ASSUME NEW class
  PROVE  CooldownSeconds(class) \in Nat
BY KeyRowAssumption DEF CooldownSeconds

(* Counting a failure keeps the row well formed, raises the count by one and  *)
(* starts a cooldown; the row is blocked only if it was.                      *)
LEMMA FailedRow ==
  ASSUME NEW r \in Row, NEW class \in ErrorClass, NEW t \in Nat
  PROVE  /\ Failed(r, class, t) \in Row
         /\ Failed(r, class, t).errs = r.errs + 1
         /\ Failed(r, class, t).cooldown \in Nat
         /\ Failed(r, class, t).status = "blocked" => r.status = "blocked"
<1>1. CooldownSeconds(class) \in Nat
  BY CooldownType
<1>2. t + CooldownSeconds(class) \in Nat
  BY <1>1
<1>3. FailureStatus(class) \in {NULL, "degraded", "invalid"}
  BY DEF FailureStatus
<1>4. class \in ProbeCodes
  BY DEF ProbeCodes
<1>5. CASE FailureStatus(class) = NULL
  BY <1>2, <1>4, <1>5 DEF Failed, Row
<1>6. CASE FailureStatus(class) # NULL
  <2>1. FailureStatus(class) \in Status \ {"blocked"}
    BY <1>3, <1>6 DEF Status
  <2> QED
    BY <1>2, <1>4, <1>6, <2>1 DEF Failed, Row
<1> QED
  BY <1>5, <1>6

(* A success clears the count and the cooldown together.                      *)
LEMMA SucceededRow ==
  ASSUME NEW r \in Row
  PROVE  /\ Succeeded(r) \in Row
         /\ Succeeded(r).errs = 0 /\ Succeeded(r).cooldown = NULL
         /\ Succeeded(r).status = "valid"
BY DEF Succeeded, Row, Status

(* Blocking leaves the count and the cooldown it was decided on.              *)
LEMMA BlockedRow ==
  ASSUME NEW r \in Row
  PROVE  /\ Blocked(r) \in Row
         /\ Blocked(r).errs = r.errs /\ Blocked(r).cooldown = r.cooldown
BY DEF Blocked, Row, Status

(* A report never blocks, and clears the count and the cooldown or neither.   *)
LEMMA ProbedRow ==
  ASSUME NEW r \in Row, NEW p \in ProbeReport
  PROVE  /\ Probed(r, p.status, p.code) \in Row
         /\ Probed(r, p.status, p.code).status # "blocked"
         /\ \/ /\ Probed(r, p.status, p.code).errs = 0
               /\ Probed(r, p.status, p.code).cooldown = NULL
            \/ /\ Probed(r, p.status, p.code).errs = r.errs
               /\ Probed(r, p.status, p.code).cooldown = r.cooldown
<1>1. /\ p.status \in {"valid", "invalid", "degraded"}
      /\ p.code \in ProbeCodes \cup {NULL}
  BY DEF ProbeReport, ProbeCodes, ErrorClass
<1> QED
  BY <1>1 DEF Probed, Row, Status

(* sync_defaults touches nothing but the runtime switch of an existing row.   *)
LEMMA SyncedRow ==
  ASSUME NEW r \in Row, NEW active \in BOOLEAN
  PROVE  /\ Synced(r, active) \in Row
         /\ Synced(r, active).errs = r.errs /\ Synced(r, active).cooldown = r.cooldown
         /\ Synced(r, active).status = r.status
BY DEF Synced, Row

(* A new row, and one the operator has reset, has neither errors nor cooldown.*)
LEMMA NewRowRow ==
  ASSUME NEW active \in BOOLEAN
  PROVE  /\ NewRow(active) \in Row
         /\ NewRow(active).errs = 0 /\ NewRow(active).cooldown = NULL
         /\ NewRow(active).status = "unknown"
BY DEF NewRow, Row, Status

-----------------------------------------------------------------------------
(* Type correctness *)

(* The table the gateway starts with is well formed.                          *)
LEMMA InitTypeOK == Init => TypeOK
BY NewRowRow, RegistryAssumption DEF Init, TypeOK

(* sync_defaults maps a table to a table.                                     *)
LEMMA SyncDefaultsType ==
  ASSUME NEW f \in [Keys -> Row], NEW a \in [Keys -> BOOLEAN]
  PROVE  [k \in Keys |-> Synced(f[k], a[k])] \in [Keys -> Row]
BY SyncedRow

(* No step of either process stores an ill-formed row.                        *)
LEMMA NextTypeOK == TypeOK /\ [Next]_vars => TypeOK'
<1> SUFFICES ASSUME TypeOK, [Next]_vars PROVE TypeOK'
  OBVIOUS
<1> USE DEF TypeOK, history
<1>1. ASSUME NEW k \in Keys, RecordSuccess(k) PROVE TypeOK'
  BY <1>1, SucceededRow DEF RecordSuccess
<1>2. ASSUME NEW k \in Keys, CountFailure(k) PROVE TypeOK'
  <2>1. PICK class \in Failures : row' = [row EXCEPT ![k] = Failed(@, class, now)]
    BY <1>2 DEF CountFailure
  <2>2. Failed(row[k], class, now) \in Row
    BY FailedRow, RegistryAssumption
  <2> QED
    BY <1>2, <2>1, <2>2, RegistryAssumption DEF CountFailure
<1>3. CASE ReadBack
  BY <1>3, RegistryAssumption DEF ReadBack
<1>4. CASE Block
  <2>1. failing \in Keys
    BY <1>4 DEF Block
  <2>2. Blocked(row[failing]) \in Row
    BY <2>1, BlockedRow
  <2> QED
    BY <1>4, <2>1, <2>2 DEF Block
<1>5. CASE Reload
  BY <1>5, SyncDefaultsType DEF Reload, SyncDefaults
<1>6. CASE Restart
  BY <1>6, SyncDefaultsType DEF Restart, SyncDefaults
<1>7. ASSUME NEW p \in Process, NEW k \in Keys, StartProbe(p, k) PROVE TypeOK'
  <2>1. row' \in [Keys -> Row]
    BY <1>7, SyncDefaultsType DEF StartProbe, SyncDefaults
  <2> QED
    BY <1>7, <2>1 DEF StartProbe, Process
<1>8. ASSUME NEW p \in Process, NEW k \in Keys, FinishProbe(p, k) PROVE TypeOK'
  <2>1. PICK r \in Reports :
          row' = LET reported == [row EXCEPT ![k] = Probed(@, r.status, r.code)]
                 IN  IF p = "operator" THEN [j \in Keys |-> Synced(reported[j], yaml[j])]
                                       ELSE reported
    BY <1>8 DEF FinishProbe
  <2>2. Probed(row[k], r.status, r.code) \in Row
    BY ProbedRow, RegistryAssumption
  <2>3. [row EXCEPT ![k] = Probed(@, r.status, r.code)] \in [Keys -> Row]
    BY <2>2
  <2>4. row' \in [Keys -> Row]
    BY <2>1, <2>3, SyncDefaultsType
  <2> QED
    BY <1>8, <2>4 DEF FinishProbe, Rewritten
<1>9. CASE RunCommand
  BY <1>9, SyncDefaultsType DEF RunCommand, SyncDefaults
<1>10. ASSUME NEW k \in Keys, NEW active \in BOOLEAN, SetActive(k, active) PROVE TypeOK'
  BY <1>10, SyncedRow DEF SetActive
<1>11. ASSUME NEW k \in Keys, NEW active \in BOOLEAN, ToggleActive(k, active) PROVE TypeOK'
  BY <1>11 DEF ToggleActive
<1>12. ASSUME NEW k \in Keys, NEW active \in BOOLEAN, ResetState(k, active) PROVE TypeOK'
  BY <1>12, SyncedRow, NewRowRow DEF ResetState, Rewritten
<1>13. CASE Tick
  BY <1>13 DEF Tick
<1>14. CASE UNCHANGED vars
  BY <1>14 DEF vars
<1> QED
  BY <1>1, <1>2, <1>3, <1>4, <1>5, <1>6, <1>7, <1>8, <1>9, <1>10, <1>11, <1>12,
     <1>13, <1>14 DEF Next

(* Every reachable state of the registry is well formed. *)
THEOREM TypeCorrect == Spec => []TypeOK
BY InitTypeOK, NextTypeOK, PTL DEF Spec

-----------------------------------------------------------------------------
(* Safety *)

(* Between the read of record_failure and its last write the count is at the  *)
(* limit, unless another process has cleared it in that gap.                  *)
ExceededHasErrors ==
  pc = "exceeded" => failing \in raced \/ row[failing].errs >= MaxConsecutiveErrors

Safety ==
  /\ ErrorsHaveCooldown
  /\ ThresholdEnforced
  /\ BlockedHasErrors
  /\ ExceededHasErrors

(* The columns the invariants speak of; sync_defaults leaves them alone.      *)
SameColumns ==
  \A k \in Keys : /\ row'[k].errs = row[k].errs
                  /\ row'[k].cooldown = row[k].cooldown
                  /\ row'[k].status = row[k].status

(* sync_defaults leaves the columns the invariants speak of as they were.     *)
LEMMA SyncDefaultsColumns ==
  ASSUME row \in [Keys -> Row], NEW a \in [Keys -> BOOLEAN], SyncDefaults(a)
  PROVE  SameColumns
BY SyncedRow DEF SyncDefaults, SameColumns

(* A step that leaves those columns, record_failure and its history alone     *)
(* keeps the invariants.                                                      *)
LEMMA SameColumnsSafety ==
  ASSUME Safety, SameColumns, UNCHANGED <<pc, failing, writer, raced>>, TypeOK
  PROVE  Safety'
BY DEF Safety, SameColumns, ErrorsHaveCooldown, ThresholdEnforced, BlockedHasErrors,
       ExceededHasErrors, TypeOK

(* A new table satisfies the invariants.                                      *)
LEMMA InitSafety == Init => Safety
<1> SUFFICES ASSUME Init PROVE Safety
  OBVIOUS
<1>1. \A k \in Keys : /\ row[k].errs = 0 /\ row[k].cooldown = NULL
                      /\ row[k].status = "unknown" /\ writer[k] = "new"
  BY NewRowRow DEF Init
<1> QED
  BY <1>1 DEF Init, Safety, ErrorsHaveCooldown, ThresholdEnforced, BlockedHasErrors,
              ExceededHasErrors

(* Every statement of every process keeps the invariants.                     *)
LEMMA NextSafety == TypeOK /\ Safety /\ [Next]_vars => Safety'
<1> SUFFICES ASSUME TypeOK, Safety, [Next]_vars PROVE Safety'
  OBVIOUS
<1> USE DEF Safety
<1>a. /\ row \in [Keys -> Row]
      /\ yaml \in [Keys -> BOOLEAN]
      /\ writer \in [Keys -> {"new", "success", "failure", "block", "probe", "reset", "crash"}]
      /\ raced \subseteq Keys
      /\ now \in Nat
  BY DEF TypeOK
<1>b. \A k \in Keys : row[k].errs \in Nat
  BY <1>a DEF Row
<1>1. ASSUME NEW k \in Keys, RecordSuccess(k) PROVE Safety'
  <2>1. /\ row'[k].errs = 0 /\ row'[k].cooldown = NULL /\ row'[k].status = "valid"
        /\ \A j \in Keys \ {k} : row'[j] = row[j]
    BY <1>1, <1>a, SucceededRow DEF RecordSuccess
  <2>2. /\ writer'[k] = "success"
        /\ \A j \in Keys \ {k} : writer'[j] = writer[j]
    BY <1>1, <1>a DEF RecordSuccess
  <2>3. ErrorsHaveCooldown'
    BY <2>1 DEF ErrorsHaveCooldown
  <2>4. ThresholdEnforced'
    BY <1>1, <2>1, <2>2 DEF RecordSuccess, ThresholdEnforced
  <2>5. BlockedHasErrors'
    BY <1>1, <2>1 DEF RecordSuccess, BlockedHasErrors
  <2> QED
    BY <1>1, <2>3, <2>4, <2>5 DEF RecordSuccess, ExceededHasErrors
<1>2. ASSUME NEW k \in Keys, CountFailure(k) PROVE Safety'
  <2>1. PICK class \in Failures : row' = [row EXCEPT ![k] = Failed(@, class, now)]
    BY <1>2 DEF CountFailure
  <2>2. /\ row'[k].errs = row[k].errs + 1 /\ row'[k].cooldown \in Nat
        /\ row'[k].status = "blocked" => row[k].status = "blocked"
        /\ \A j \in Keys \ {k} : row'[j] = row[j]
    BY <1>a, <2>1, FailedRow, RegistryAssumption
  <2>3. \A j \in Keys \ {k} : writer'[j] = writer[j]
    BY <1>2, <1>a DEF CountFailure
  <2>4. ErrorsHaveCooldown'
    BY <1>b, <2>2, NullAssumption DEF ErrorsHaveCooldown
  <2>5. ThresholdEnforced'
    <3>1. failing = NULL
      BY <1>2 DEF CountFailure, TypeOK
    <3> QED
      BY <1>2, <2>2, <2>3, <3>1, RegistryAssumption DEF CountFailure, ThresholdEnforced
  <2>6. BlockedHasErrors'
    BY <1>2, <1>b, <2>2, KeyRowAssumption DEF CountFailure, BlockedHasErrors
  <2> QED
    BY <1>2, <2>4, <2>5, <2>6 DEF CountFailure, ExceededHasErrors
<1>3. CASE ReadBack
  <2>1. failing \in Keys
    BY <1>3 DEF ReadBack, TypeOK
  <2>2. ThresholdEnforced'
    BY <1>3, <1>b, <2>1, KeyRowAssumption
       DEF ReadBack, AtThreshold, ThresholdEnforced, history
  <2>3. ExceededHasErrors'
    BY <1>3 DEF ReadBack, AtThreshold, ExceededHasErrors
  <2> QED
    BY <1>3, <2>2, <2>3 DEF ReadBack, history, ErrorsHaveCooldown, BlockedHasErrors
<1>4. CASE Block
  <2>1. failing \in Keys
    BY <1>4 DEF Block, TypeOK
  <2>2. /\ \A j \in Keys : /\ row'[j].errs = row[j].errs
                           /\ row'[j].cooldown = row[j].cooldown
        /\ \A j \in Keys \ {failing} : row'[j] = row[j]
    BY <1>4, <1>a, <2>1, BlockedRow DEF Block
  <2>3. /\ writer'[failing] = "block"
        /\ \A j \in Keys \ {failing} : writer'[j] = writer[j]
    BY <1>4, <1>a, <2>1 DEF Block
  <2>4. ErrorsHaveCooldown'
    BY <2>2 DEF ErrorsHaveCooldown
  <2>5. ThresholdEnforced'
    BY <1>4, <2>2, <2>3 DEF Block, ThresholdEnforced
  <2>6. BlockedHasErrors'
    BY <1>4, <2>1, <2>2 DEF Block, BlockedHasErrors, ExceededHasErrors
  <2> QED
    BY <1>4, <2>4, <2>5, <2>6 DEF Block, ExceededHasErrors
<1>5. CASE Reload
  BY <1>5, <1>a, SyncDefaultsColumns, SameColumnsSafety DEF Reload, history
<1>6. CASE Restart
  <2>1. SameColumns
    BY <1>6, <1>a, SyncDefaultsColumns DEF Restart
  <2>2. \A j \in Keys : writer'[j] = "failure" => writer[j] = "failure" /\ failing # j
    <3>1. CASE pc = "idle"
      BY <1>6, <3>1, RegistryAssumption DEF Restart, TypeOK
    <3>2. CASE pc # "idle"
      BY <1>6, <1>a, <3>2 DEF Restart
    <3> QED
      BY <3>1, <3>2
  <2>3. ErrorsHaveCooldown'
    BY <2>1 DEF SameColumns, ErrorsHaveCooldown
  <2>4. ThresholdEnforced'
    BY <2>1, <2>2 DEF SameColumns, ThresholdEnforced
  <2>5. BlockedHasErrors'
    BY <1>6, <2>1 DEF Restart, SameColumns, BlockedHasErrors
  <2> QED
    BY <1>6, <2>3, <2>4, <2>5 DEF Restart, ExceededHasErrors
<1>7. ASSUME NEW p \in Process, NEW k \in Keys, StartProbe(p, k) PROVE Safety'
  <2>1. SameColumns
    <3>1. CASE SyncDefaults(yaml)
      BY <1>a, <3>1, SyncDefaultsColumns
    <3>2. CASE UNCHANGED row
      BY <3>2 DEF SameColumns
    <3> QED
      BY <1>7, <3>1, <3>2 DEF StartProbe
  <2> QED
    BY <1>7, <2>1, SameColumnsSafety DEF StartProbe, history
<1>8. ASSUME NEW p \in Process, NEW k \in Keys, FinishProbe(p, k) PROVE Safety'
  <2>1. PICK r \in Reports :
          row' = LET reported == [row EXCEPT ![k] = Probed(@, r.status, r.code)]
                 IN  IF p = "operator" THEN [j \in Keys |-> Synced(reported[j], yaml[j])]
                                       ELSE reported
    BY <1>8 DEF FinishProbe
  <2> DEFINE reported == [row EXCEPT ![k] = Probed(@, r.status, r.code)]
  <2>2. /\ Probed(row[k], r.status, r.code) \in Row
        /\ Probed(row[k], r.status, r.code).status # "blocked"
        /\ \/ /\ Probed(row[k], r.status, r.code).errs = 0
              /\ Probed(row[k], r.status, r.code).cooldown = NULL
           \/ /\ Probed(row[k], r.status, r.code).errs = row[k].errs
              /\ Probed(row[k], r.status, r.code).cooldown = row[k].cooldown
    BY <1>a, ProbedRow, RegistryAssumption
  <2>3. reported \in [Keys -> Row]
    BY <1>a, <2>2
  <2>4. \A j \in Keys : /\ row'[j].errs = reported[j].errs
                        /\ row'[j].cooldown = reported[j].cooldown
                        /\ row'[j].status = reported[j].status
    <3>1. CASE p = "operator"
      <4>1. row' = [j \in Keys |-> Synced(reported[j], yaml[j])]
        BY <2>1, <3>1
      <4> HIDE DEF reported
      <4> QED
        BY <1>a, <2>3, <4>1, SyncedRow
    <3>2. CASE p # "operator"
      BY <2>1, <3>2
    <3> QED
      BY <3>1, <3>2
  <2>5. /\ row'[k].status # "blocked"
        /\ \/ row'[k].errs = 0 /\ row'[k].cooldown = NULL
           \/ row'[k].errs = row[k].errs /\ row'[k].cooldown = row[k].cooldown
        /\ \A j \in Keys \ {k} : /\ row'[j].errs = row[j].errs
                                  /\ row'[j].cooldown = row[j].cooldown
                                  /\ row'[j].status = row[j].status
    BY <1>a, <2>2, <2>4
  <2>6. /\ writer'[k] = "probe"
        /\ \A j \in Keys \ {k} : writer'[j] = writer[j]
    BY <1>8, <1>a DEF FinishProbe, Rewritten
  <2>7. ErrorsHaveCooldown'
    BY <2>5 DEF ErrorsHaveCooldown
  <2>8. ThresholdEnforced'
    BY <1>8, <2>5, <2>6 DEF FinishProbe, ThresholdEnforced
  <2>9. BlockedHasErrors'
    BY <1>8, <2>5 DEF FinishProbe, Rewritten, BlockedHasErrors
  <2>10. ExceededHasErrors'
    BY <1>8, <2>5 DEF FinishProbe, Rewritten, ExceededHasErrors, TypeOK
  <2> QED
    BY <2>7, <2>8, <2>9, <2>10
<1>9. CASE RunCommand
  BY <1>9, <1>a, SyncDefaultsColumns, SameColumnsSafety DEF RunCommand, history
<1>10. ASSUME NEW k \in Keys, NEW active \in BOOLEAN, SetActive(k, active) PROVE Safety'
  <2>1. SameColumns
    BY <1>10, <1>a, SyncedRow DEF SetActive, SameColumns
  <2> QED
    BY <1>10, <2>1, SameColumnsSafety DEF SetActive
<1>11. ASSUME NEW k \in Keys, NEW active \in BOOLEAN, ToggleActive(k, active) PROVE Safety'
  <2>1. SameColumns
    BY <1>11 DEF ToggleActive, SameColumns
  <2> QED
    BY <1>11, <2>1, SameColumnsSafety DEF ToggleActive
<1>12. ASSUME NEW k \in Keys, NEW active \in BOOLEAN, ResetState(k, active) PROVE Safety'
  <2>1. /\ row'[k].errs = 0 /\ row'[k].cooldown = NULL /\ row'[k].status = "unknown"
        /\ \A j \in Keys \ {k} : /\ row'[j].errs = row[j].errs
                                  /\ row'[j].cooldown = row[j].cooldown
                                  /\ row'[j].status = row[j].status
    BY <1>12, <1>a, NewRowRow, SyncedRow DEF ResetState
  <2>2. /\ writer'[k] = "reset"
        /\ \A j \in Keys \ {k} : writer'[j] = writer[j]
    BY <1>12, <1>a DEF ResetState, Rewritten
  <2>3. ErrorsHaveCooldown'
    BY <2>1 DEF ErrorsHaveCooldown
  <2>4. ThresholdEnforced'
    BY <1>12, <2>1, <2>2 DEF ResetState, ThresholdEnforced
  <2>5. BlockedHasErrors'
    BY <1>12, <2>1 DEF ResetState, Rewritten, BlockedHasErrors
  <2>6. ExceededHasErrors'
    BY <1>12, <2>1 DEF ResetState, Rewritten, ExceededHasErrors, TypeOK
  <2> QED
    BY <2>3, <2>4, <2>5, <2>6
<1>13. CASE Tick
  BY <1>13, SameColumnsSafety DEF Tick, SameColumns, history
<1>14. CASE UNCHANGED vars
  BY <1>14, SameColumnsSafety DEF vars, SameColumns
<1> QED
  BY <1>1, <1>2, <1>3, <1>4, <1>5, <1>6, <1>7, <1>8, <1>9, <1>10, <1>11, <1>12,
     <1>13, <1>14 DEF Next

(* The error columns of the table agree with each other, and with what the     *)
(* gateway is about to write, in every reachable state.                        *)
THEOREM Safe == Spec => []Safety
<1>1. Init => TypeOK /\ Safety
  BY InitTypeOK, InitSafety
<1>2. (TypeOK /\ Safety) /\ [Next]_vars => (TypeOK /\ Safety)'
  BY NextTypeOK, NextSafety
<1> QED
  BY <1>1, <1>2, PTL DEF Spec

(* A key has a cooldown exactly as long as it has errors.                     *)
THEOREM ErrorsAlwaysHaveCooldown == Spec => []ErrorsHaveCooldown
BY Safe, PTL DEF Safety

(* record_failure leaves no key at the limit with its last word a failure.    *)
THEOREM ThresholdAlwaysEnforced == Spec => []ThresholdEnforced
BY Safe, PTL DEF Safety

(* A blocked key has the errors it is blocked for, but for the reset race.    *)
THEOREM BlockedAlwaysHasErrors == Spec => []BlockedHasErrors
BY Safe, PTL DEF Safety
=============================================================================
