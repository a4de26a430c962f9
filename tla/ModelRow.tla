------------------------------- MODULE ModelRow -------------------------------
(***************************************************************************)
(* One row of the SQLite table model_runtime_state: the consecutive failures *)
(* of a provider's model and the time until which routing skips it.  A row   *)
(* that does not exist yet reads as NewModelRow.                             *)
(***************************************************************************)
EXTENDS GatewayErrors

CONSTANTS
  FailureThreshold,    \* routing.model_quarantine.failure_threshold, overrides applied
  QuarantineSeconds    \* the ttl of each error class, overrides applied

ASSUME ModelRowAssumption ==
  /\ FailureThreshold \in Nat \ {0}
  /\ QuarantineSeconds \in [ErrorClass -> Int]

ModelRow == [fails : Nat, until : Nat \cup {NULL}]

NewModelRow_Missing == NULL

NewModelRow == [fails |-> 0, until |-> NULL]

(* record_success and the operator's reset write the same columns. *)
Cleared == [fails |-> 0, until |-> NULL]

Upserted_WithoutThreshold(read, class, now) ==
  LET quarantine == QuarantineSeconds[class] > 0
  IN  [fails |-> read.fails + 1,
       until |-> IF quarantine THEN now + QuarantineSeconds[class] ELSE NULL]

(* The upsert of record_failure.  It sets the columns to values computed from *)
(* "read", the row a separate SELECT returned before, whatever the row is now. *)
(* A class without a ttl, and a count below the threshold, leave no quarantine.*)
Upserted(read, class, now) ==
  LET fails == read.fails + 1
      quarantine == fails >= FailureThreshold /\ QuarantineSeconds[class] > 0
  IN  [fails |-> fails,
       until |-> IF quarantine THEN now + QuarantineSeconds[class] ELSE NULL]

Quarantined(mrow, now) == mrow.until # NULL /\ mrow.until > now
=============================================================================
