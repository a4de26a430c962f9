---------------------------- MODULE MCRoutingEngine ----------------------------
(***************************************************************************)
(* The instances of RoutingEngine that TLC checks: two providers, one with   *)
(* two keys and two models, the other with one of each.                      *)
(***************************************************************************)
EXTENDS RoutingEngine

CONSTANTS k1, k2, k3, a1, a2, b1

MCKeysOf == [m \in Models |-> IF m = b1 THEN {k3} ELSE {k1, k2}]

(* a1 was seen by both keys, a2 by the second only, b1 is a configured model. *)
MCSources == [m \in Models |-> CASE m = a1 -> {k1, k2} [] m = a2 -> {k2} [] m = b1 -> {}]

MCRank == [k \in Keys |-> CASE k = k1 -> 0 [] k = k2 -> 1 [] k = k3 -> 2]

MCMaxRetries == [k \in Keys |-> IF k = k2 THEN 0 ELSE 1]

(* The default error policy, with the classes it does not name. *)
MCPolicy ==
  [c \in ErrorClass |->
     CASE c \in AuthErrors -> "switch_key"
       [] c \in {"rate_limit", "network_timeout"} -> "retry_then_switch_key"
       [] c = "provider_unavailable" -> "retry_then_switch_provider"
       [] OTHER -> "switch_provider"]

MCQuarantineSeconds == [c \in ErrorClass |-> 2]

MCPlans == {<<a2, a1, b1>>, <<a1, b1, a2>>}
MCShortPlans == {<<a1, b1>>}

(* All keys are new; the first provider rests after a rate limit or is        *)
(* blocked by timeouts; everything rests or is blocked.                       *)
MCNew == NewRow(TRUE)
MCResting == [MCNew EXCEPT !.status = "degraded", !.errs = 1, !.cooldown = 1, !.lastErr = "rate_limit"]
MCBlocked == [MCResting EXCEPT !.status = "blocked", !.errs = 2, !.lastErr = "network_timeout"]
MCNewRows == {[k \in Keys |-> MCNew]}
MCStartRows == MCNewRows \cup
  {[k \in Keys |-> CASE k = k1 -> MCResting [] k = k2 -> MCBlocked [] k = k3 -> last] :
     last \in {MCNew, MCResting, MCBlocked}}
=============================================================================
