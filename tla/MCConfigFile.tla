------------------------------ MODULE MCConfigFile ------------------------------
(* Two operators and the gateway; an endpoint with a placeholder key, and a     *)
(* provider with a key from the environment, one not set and one as it is.     *)
EXTENDS ConfigFile, TLC

CONSTANTS s1, s2, x1, bad, good, worse

MCProviders == <<"local", "cloud">>

MCSettings == {"time"}

MCRefused == [x \in MCSettings |-> {worse}]

MCPatterns == <<x1>>

MCExample == [x \in MCSettings |-> good]

MCFirst ==
  [keys |-> ("local" :> <<[id |-> "k1", value |-> "local", rest |-> 0]>>) @@
            ("cloud" :> <<[id |-> "k2", value |-> "variable", rest |-> 0],
                          [id |-> "k3", value |-> "unset", rest |-> 0],
                          [id |-> "k4", value |-> "secret", rest |-> 0]>>),
   open |-> ("local" :> TRUE) @@ ("cloud" :> FALSE),
   lists |-> [l \in {"patterns", "overrides", "chain", "quarantine"} |->
                IF l = "chain" THEN NULL ELSE <<>>],
   settings |-> [x \in MCSettings |-> NULL]]

Sessions == Permutations({s1, s2})
=============================================================================
