---------------------------- MODULE MCKeyRegistry ----------------------------
(***************************************************************************)
(* The instances of KeyRegistry that TLC checks.                            *)
(***************************************************************************)
EXTENDS KeyRegistry

(* One class of each kind record_failure and the router tell apart. *)
MCFailures == {"rate_limit", "auth_invalid", "network_timeout"}

(* A good report, an auth failure, and a timed-out check. *)
MCReports == {[status |-> "valid", code |-> NULL],
              [status |-> "invalid", code |-> "auth_invalid"],
              [status |-> "degraded", code |-> "health_check_timeout"]}
=============================================================================
