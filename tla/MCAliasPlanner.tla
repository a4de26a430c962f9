----------------------------- MODULE MCAliasPlanner -----------------------------
(* Two providers, five models and a special route, with and without overrides. *)
EXTENDS AliasPlanner

CONSTANTS nano, opus, coder, freebie, painter, route

MCName == nano :> {"nano", "gpt-4.1"} @@ opus :> {"opus"} @@ coder :> {"coder", "qwen"}
          @@ freebie :> {":free", "qwen"} @@ painter :> {"image"}
          @@ route :> {"openrouter/free"}

NoLimits == [own  |-> [context |-> NULL, input |-> NULL, output |-> NULL],
             limits |-> [context |-> NULL, input |-> NULL, output |-> NULL],
             top  |-> [context |-> NULL], arch |-> [input |-> NULL]]

Entry(provider, id, key) ==
  [provider |-> provider, id |-> id, key |-> key, hints |-> {}, meta |-> NoLimits]

Small(entry) == [entry EXCEPT !.meta.limits.input = 1000, !.meta.own.context = 0]

MCCatalogs ==
  { << Entry("groq", coder, "g1"), Entry("groq", nano, "g1"), Entry("groq", nano, "g2"),
       Entry("groq", painter, "g1"), Entry("openrouter", freebie, "o1"),
       Entry("openrouter", opus, "o1"), Entry("openrouter", route, "o1") >>,
    << [Entry("groq", nano, "g1") EXCEPT !.hints = {"text generation"}],
       [Entry("groq", opus, "g1") EXCEPT !.hints = {"summarization"}],
       Small(Entry("openrouter", freebie, "o1")), Entry("openrouter", nano, "o1") >> }

Override == [matches |-> {}, modality |-> NULL, include |-> FALSE, exclude |-> FALSE,
             categories |-> {}, toolCapable |-> NULL, toolDisabled |-> NULL]

MCOverrides ==
  << [Override EXCEPT !.matches = { <<"groq", painter>>, <<"groq", opus>> }, !.modality = "text",
                      !.include = TRUE],
     [Override EXCEPT !.matches = { <<"openrouter", freebie>> }, !.exclude = TRUE],
     [Override EXCEPT !.matches = { <<"openrouter", opus>> }, !.categories = {"free"},
                      !.toolCapable = TRUE] >>

Static == [form |-> "static", name |-> "custom"]

BaseConfig ==
  [providers |-> {"openrouter", "groq"}, enabled |-> <<"openrouter", "groq">>, keyed |-> <<"openrouter", "groq">>, overrides |-> <<>>,
   toolCapable |-> {"coder", "qwen"}, toolDisabled |-> {"nano"},
   aliases |-> Static :> [candidates |-> << <<"openrouter", nano>>, <<"groq", coder>> >>,
                          adaptive |-> TRUE]]

MCPlannerConfigs ==
  { BaseConfig, [BaseConfig EXCEPT !.overrides = MCOverrides],
    [BaseConfig EXCEPT !.keyed = <<"groq">>],
    [BaseConfig EXCEPT !.enabled = <<"groq">>, !.keyed = <<"groq">>, !.providers = {"groq"}] }

Hits == [k \in HintKind |-> 0]

MCHits == {Hits} \cup {[Hits EXCEPT ![k] = 1] : k \in HintKind}
          \cup {[Hits EXCEPT !.code = 2], [Hits EXCEPT !.critical = 1, !.constraints = 2]}

Names == {AliasId("auto", "text", k) : k \in ToSet(TextCategories)}
         \cup {AliasId("compat", "text", "free"), AliasId("groq", "text", "fast"),
               AliasId("openrouter", "text", "free"), AliasId("groq", "image", "default"), Static,
               [form |-> "direct", provider |-> "openrouter", model |-> opus],
               [form |-> "bare", model |-> coder]}

MCAsks == [name : Names, hits : MCHits, short : {TRUE}, chars : {40, 200000}, budget : {0, 8000},
           tools : BOOLEAN, explicit : {NULL, "fast"}]
=============================================================================
