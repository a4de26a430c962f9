----------------------------- MODULE GatewayErrors -----------------------------
(***************************************************************************)
(* The error classes every adapter, repository and the router speak of, and *)
(* the SQL value NULL of the columns they are stored in.                     *)
(***************************************************************************)
EXTENDS Integers

CONSTANT NULL            \* the SQL value NULL

ASSUME NullAssumption ==
  /\ NULL \notin Nat
  /\ NULL \notin STRING

(* The error classes of app.core.errors. *)
AuthErrors == {"auth_invalid", "auth_forbidden"}

ErrorClass ==
  AuthErrors \cup {"rate_limit", "provider_unavailable", "network_timeout",
                   "malformed_response", "unsupported_model", "unknown"}
=============================================================================
