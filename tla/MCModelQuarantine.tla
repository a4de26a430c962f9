--------------------------- MODULE MCModelQuarantine ---------------------------
(* The instances of ModelQuarantine that TLC checks. *)
EXTENDS ModelQuarantine

CONSTANTS m1, m2

(* Either model may come first. *)
MCPlans == {<<m1, m2>>, <<m2, m1>>}

(* A long quarantine, a short one, and a class configured not to cause any.   *)
MCQuarantineSeconds ==
  [c \in ErrorClass |-> CASE c = "unsupported_model" -> 3
                          [] c = "rate_limit" -> 0
                          [] OTHER -> 1]
=============================================================================
