-------------------------------- MODULE KeyRow --------------------------------
(***************************************************************************)
(* One row of the SQLite table key_runtime_state and the statements that    *)
(* write it.  Each operator below is one UPDATE or INSERT, which SQLite     *)
(* runs in a transaction of its own; the modules that EXTEND this one say   *)
(* which process issues which statement, and when.                          *)
(*                                                                          *)
(* The columns that only feed reports (the timestamps, the error message    *)
(* and the average latency) are left out.                                   *)
(***************************************************************************)
EXTENDS GatewayErrors

CONSTANTS
  ErrorSeconds,          \* key.cooldown.error_seconds
  RateLimitSeconds,      \* key.cooldown.rate_limit_seconds
  AuthSeconds,           \* the floor of the cooldown after an auth failure
  MaxConsecutiveErrors   \* key.max_consecutive_errors

(* The configuration takes any integer for the limit; a negative cooldown      *)
(* would only be over before it began, and is left out.                        *)
ASSUME KeyRowAssumption ==
  /\ ErrorSeconds \in Nat
  /\ RateLimitSeconds \in Nat
  /\ AuthSeconds \in Nat
  /\ MaxConsecutiveErrors \in Int

-----------------------------------------------------------------------------
(* What a health check can store in last_error_code besides an error class:   *)
(* an empty catalogue, a timed-out check and an exception of the adapter.     *)
ProbeCodes == ErrorClass \cup
  {"no_models_discovered", "health_check_timeout", "validation_exception"}

Status == {"unknown", "valid", "degraded", "invalid", "blocked"}

Row == [active   : BOOLEAN,              \* the runtime switch of the key
        status   : Status,
        errs     : Nat,                  \* consecutive_errors
        cooldown : Nat \cup {NULL},      \* cooldown_until, an absolute time
        lastErr  : ProbeCodes \cup {NULL}]

-----------------------------------------------------------------------------
(* A row as the schema's defaults make it, for a key whose configured switch  *)
(* is "active".                                                               *)
NewRow(active) ==
  [active |-> active, status |-> "unknown", errs |-> 0,
   cooldown |-> NULL, lastErr |-> NULL]

(* sync_defaults on a row that exists: the configured switch replaces the     *)
(* runtime one, the health columns stay.                                      *)
Synced(row, active) == [row EXCEPT !.active = active]

(* A request was answered. *)
Succeeded(row) ==
  [row EXCEPT !.status = "valid", !.errs = 0, !.cooldown = NULL]

(* The cooldown and the status KeyRegistry.record_failure picks for a class;  *)
(* NULL leaves the status as it is.                                           *)
CooldownSeconds(class) ==
  CASE class = "rate_limit" -> RateLimitSeconds
    [] class \in AuthErrors -> IF ErrorSeconds > AuthSeconds THEN ErrorSeconds
                                                             ELSE AuthSeconds
    [] OTHER -> ErrorSeconds

FailureStatus(class) ==
  CASE class \in {"rate_limit", "provider_unavailable"} -> "degraded"
    [] class \in AuthErrors -> "invalid"
    [] OTHER -> NULL

(* The UPDATE of record_failure, issued at time "now".  The count restarts    *)
(* the cooldown whatever was left of the previous one.                        *)
Failed(row, class, now) ==
  [active   |-> row.active,
   status   |-> IF FailureStatus(class) = NULL THEN row.status
                                               ELSE FailureStatus(class),
   errs     |-> row.errs + 1,
   cooldown |-> now + CooldownSeconds(class),
   lastErr  |-> class]

(* Operators whose names end in a capitalised remark, here and in the other    *)
(* modules, are faulty variants of the definition that follows them.  Nothing *)
(* uses them: put in its place they show which property notices the fault.    *)
AtThreshold_OffByOne(row) == row.errs > MaxConsecutiveErrors

(* The test record_failure makes on the row it reads back, and the second     *)
(* UPDATE that follows when it holds.                                         *)
AtThreshold(row) == row.errs >= MaxConsecutiveErrors

Blocked(row) == [row EXCEPT !.status = "blocked"]

Probed_KeepsCooldown(row, status, code) ==
  IF status = "valid" THEN [row EXCEPT !.status = status, !.errs = 0, !.lastErr = NULL]
                      ELSE [row EXCEPT !.status = status, !.lastErr = code]

Probed_KeepsBlock(row, status, code) ==
  LET kept == IF row.status = "blocked" THEN "blocked" ELSE status
  IN  IF status = "valid"
      THEN [row EXCEPT !.status = kept, !.errs = 0, !.cooldown = NULL, !.lastErr = NULL]
      ELSE [row EXCEPT !.status = kept, !.lastErr = code]

(* A health check reported.  A good one clears the error columns; any other   *)
(* one overwrites status and code and leaves the count and the cooldown.      *)
Probed(row, status, code) ==
  IF status = "valid"
  THEN [row EXCEPT !.status = status, !.errs = 0, !.cooldown = NULL, !.lastErr = NULL]
  ELSE [row EXCEPT !.status = status, !.lastErr = code]

(* What the adapters' validate_key, or the checker around it, may report: an  *)
(* auth error makes the key invalid, anything else degrades it (an empty      *)
(* catalogue of the Gemini and Code Assist adapters without any code).        *)
ProbeReport ==
  {[status |-> "valid", code |-> NULL]}
    \cup {[status |-> "invalid", code |-> c] : c \in AuthErrors}
    \cup {[status |-> "degraded", code |-> c] : c \in (ProbeCodes \ AuthErrors) \cup {NULL}}

(* Does the registry offer the key to the router at time "now"?  "configured" *)
(* is the key's active flag in the configuration the gateway has loaded.      *)
Cooling(row, now) == row.cooldown # NULL /\ row.cooldown > now

Available(row, configured, now) ==
  /\ configured
  /\ row.active
  /\ row.status # "blocked"
  /\ ~ Cooling(row, now)
=============================================================================
