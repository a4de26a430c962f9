------------------------------ MODULE AliasPlanner ------------------------------
(***************************************************************************)
(* From the providers' catalogs to the list of candidates a request is       *)
(* tried on.  Discovery makes a snapshot with the generated aliases in it,   *)
(* under the configuration of that moment; a request is planned later, with  *)
(* the snapshot that is there and the configuration of its own moment.       *)
(*                                                                           *)
(* The list this module plans is where module RoutingEngine begins.          *)
(***************************************************************************)
EXTENDS ModelCatalog

CONSTANTS
  PlannerConfigs,  \* the configurations
  Catalogs,        \* what the providers may list, by provider and model id
  Asks             \* the requests

(* What a request can be for: TaskProfile. *)
Profiles == {"fast", "balanced", "strong", "code"}

IsList(s) == s \in Seq(ToSet(s))

(* A configuration.  Only what the planner reads: its providers, the enabled   *)
(* ones by priority, those of them with an active configured key, the operator's       *)
(* overrides and capability hints, and the aliases of routes.aliases.  No      *)
(* provider is called as the scopes of the aliases of all providers are.      *)
Config(cfg) ==
  /\ DOMAIN cfg = {"providers", "enabled", "keyed", "overrides", "toolCapable",
                   "toolDisabled", "aliases"}
  /\ IsList(cfg.enabled) /\ IsList(cfg.keyed) /\ IsList(cfg.overrides)
  /\ ToSet(cfg.keyed) \subseteq ToSet(cfg.enabled)
  /\ ToSet(cfg.enabled) \subseteq cfg.providers
  /\ "auto" \notin ToSet(cfg.enabled) /\ "compat" \notin ToSet(cfg.enabled)
  /\ \A name \in DOMAIN cfg.aliases : IsList(cfg.aliases[name].candidates)

ASSUME PlannerAssumption ==
  /\ \A cfg \in PlannerConfigs : Config(cfg)
  /\ \A catalog \in Catalogs :
       IsList(catalog) /\ \A i \in DOMAIN catalog : catalog[i].id \in DOMAIN Name
  /\ \A r \in Asks : r.explicit # NULL => r.explicit \in Profiles

VARIABLES
  cfg,        \* the loaded configuration
  snapshot,   \* the current snapshot of the inventory
  ask,        \* the request planned last
  plan        \* its candidates

plannerVars == <<cfg, snapshot, ask, plan>>

Candidate(m) == <<m.provider, m.id>>

-----------------------------------------------------------------------------
(* Generated aliases *)

TextCategories == <<"free", "free-cheap", "fast", "general", "reasoning", "code">>

MediaModalities == <<"image", "video", "audio">>

(* The name of a generated alias; the compatibility aliases auto/fast and the   *)
(* like are in a scope of their own.                                          *)
AliasId(scope, modality, category) ==
  [form |-> "generated", scope |-> scope, modality |-> modality, category |-> category]

MatchesCategory(category, class) ==
  IF category = "free-cheap" THEN class.score.free > 0 \/ class.score.fast > 0
                             ELSE class.score[category] > 0

Bonus(category, m, class) ==
  LET chat == IF ChatState(m) = "supported" THEN 1 ELSE 0
  IN  CASE category = "code" ->
             (CASE ToolsState(m, class) = "supported" -> 3
                [] ToolsState(m, class) = "unknown" -> 1
                [] OTHER -> 0)
        [] category = "free" -> chat
        [] OTHER -> 3 * chat

CategoryKey(category, m, class) ==
  LET primary == IF category # "free-cheap" THEN class.score[category]
                 ELSE IF class.score.free > class.score.fast THEN class.score.free
                                                             ELSE class.score.fast
  IN  <<primary, class.score.general, Bonus(category, m, class),
        IF class.capable /\ ~ class.disabled THEN 1 ELSE 0>>

(* The candidates of a provider in a category: the free special routes, then   *)
(* the models by score.  The cheap ones follow the free ones, if there are     *)
(* any free ones.                                                             *)
ProviderCandidates(provider, category, models, class, specials) ==
  LET usable == Kept(models, {i \in DOMAIN models :
                                models[i].provider = provider /\ ServesText(models[i])})
      key(m) == CategoryKey(category, m, class[Candidate(m)])
      ranked == Ranked(usable, [i \in DOMAIN usable |-> key(usable[i])])
      names == [i \in DOMAIN ranked |-> Candidate(ranked[i])]
      routes == IF category \in {"free", "free-cheap"}
                THEN Kept(specials, {i \in DOMAIN specials :
                       specials[i][1] = provider /\ "free" \in SpecialHints(provider, specials[i][2])})
                ELSE <<>>
      free  == {i \in DOMAIN names : class[names[i]].score.free > 0}
      cheap == {i \in DOMAIN names \ free : class[names[i]].score.fast > 0}
      fit   == {i \in DOMAIN names : MatchesCategory(category, class[names[i]])}
  IN  IF category # "free-cheap" THEN Dedupe(routes \o Kept(names, fit))
      ELSE IF routes = <<>> /\ free = {} THEN <<>>
      ELSE Dedupe(routes \o Kept(names, free) \o Kept(names, cheap))

MediaCandidates(provider, modality, models) ==
  LET usable == Kept(models, {i \in DOMAIN models :
                                models[i].provider = provider /\ models[i].modality = modality})
      key(m) == <<IF m.free THEN 1 ELSE 0, IF m.preview THEN 0 ELSE 1, Cardinality(m.keys)>>
      ranked == Ranked(usable, [i \in DOMAIN usable |-> key(usable[i])])
  IN  Dedupe([i \in DOMAIN ranked |-> Candidate(ranked[i])])

(* build_generated_aliases, as a function on the names of the aliases that     *)
(* have a candidate.  An alias of all providers merges theirs by priority.     *)
GeneratedAliases(c, models, class, specials) ==
  LET text(p, category) == ProviderCandidates(p, category, models, class, specials)
      media(p, modality) == MediaCandidates(p, modality, models)
      merged(of(_, _), what) ==
        Dedupe(Concat([i \in DOMAIN c.enabled |-> of(c.enabled[i], what)]))
      scopes == ToSet(c.enabled)
      all == [id \in {AliasId(s, "text", k) : s \in scopes \cup {"auto", "compat"},
                                              k \in ToSet(TextCategories)}
                     \cup {AliasId(s, d, "default") : s \in scopes \cup {"auto"},
                                                      d \in ToSet(MediaModalities)} |->
                IF id.modality = "text"
                THEN IF id.scope \in scopes THEN text(id.scope, id.category)
                                            ELSE merged(text, id.category)
                ELSE IF id.scope \in scopes THEN media(id.scope, id.modality)
                                            ELSE merged(media, id.modality)]
  IN  [id \in {i \in DOMAIN all : all[i] # <<>>} |-> all[id]]

(* What refresh makes of what the providers with a key list. *)
Discovered(c, catalog) ==
  LET listed == Kept(catalog, {i \in DOMAIN catalog : catalog[i].provider \in ToSet(c.keyed)})
      models == Merged(listed, c)
      class == [cand \in {Candidate(models[i]) : i \in DOMAIN models} |->
                  Classified(models[CHOOSE i \in DOMAIN models : Candidate(models[i]) = cand], c)]
      routes == Kept(listed, {i \in DOMAIN listed : IsSpecial(listed[i])})
      specials == Dedupe([i \in DOMAIN routes |-> Candidate(routes[i])])
  IN  [of |-> c,                      \* the configuration, which nobody records
       models |-> models, class |-> class,
       aliases |-> GeneratedAliases(c, models, class, specials)]

-----------------------------------------------------------------------------
(* What a request asks for *)

(* The intent and the profile, from the hints its text contains, its size and  *)
(* its tools.  A request has: hits, the number of hints of each kind; short,   *)
(* whether its text is below 80 characters; chars and budget, its size and     *)
(* max_tokens; tools; and explicit, the profile its metadata names.            *)
HintKind == {"trivial", "light", "planning", "architecture", "analysis", "code",
             "critical", "constraints"}

TokenEstimate(r) == (IF r.chars \div 4 > 1 THEN r.chars \div 4 ELSE 1) + r.budget

ComplexityScore(r) ==
  LET weight == [trivial |-> -40, light |-> -20, planning |-> 30, architecture |-> 35,
                 analysis |-> 25, code |-> 30, critical |-> 45]
      total == 20
               + FoldSet(LAMBDA k, sum : sum + weight[k], 0,
                         {k \in DOMAIN weight : r.hits[k] > 0})
               + (IF r.tools THEN 45 ELSE 0)
               + (IF r.hits.constraints >= 2 THEN 15 ELSE 0)
               + (IF TokenEstimate(r) >= 128000 THEN 30
                  ELSE IF TokenEstimate(r) >= 32000 THEN 15 ELSE 0)
               + (IF r.budget >= 8000 THEN 25 ELSE IF r.budget >= 2500 THEN 10 ELSE 0)
  IN  CASE total < 0 -> 0 [] total > 100 -> 100 [] OTHER -> total

ClassifiedIntent(r, score) ==
  LET hit(k) == r.hits[k] > 0
  IN  IF r.tools \/ r.hits.code >= 2 THEN "code"
      ELSE IF hit("critical") THEN "critical"
      ELSE IF hit("planning") \/ hit("architecture") THEN "planning"
      ELSE IF hit("analysis") THEN "analysis"
      ELSE IF hit("trivial") /\ score <= 10 /\ r.short THEN "trivial"
      ELSE IF hit("light") /\ score <= 25 THEN "light"
      ELSE "standard"

ProfileForIntent(intent, score, tokens) ==
  CASE intent = "code" -> "code"
    [] intent = "critical" -> "strong"
    [] intent \in {"planning", "analysis"} ->
         IF score >= 55 \/ tokens >= 32000 THEN "strong" ELSE "balanced"
    [] intent \in {"trivial", "light"} -> "fast"
    [] OTHER -> IF score >= 66 \/ tokens >= 128000 THEN "strong" ELSE "balanced"

(* analyze_request_route: a profile that the metadata names goes before all. *)
Analysis(r) ==
  LET score == ComplexityScore(r)
      intent == ClassifiedIntent(r, score)
  IN  IF r.explicit # NULL
      THEN [intent |-> IF r.explicit = "code" THEN "code" ELSE "standard", profile |-> r.explicit]
      ELSE [intent |-> intent, profile |-> ProfileForIntent(intent, score, TokenEstimate(r))]

-----------------------------------------------------------------------------
(* Resolving the name *)

IsKeyed(c, provider) == provider \in ToSet(c.keyed)

(* A name that can only be a generated alias: auto/..., or provider/text/...   *)
(* of a provider of the configuration.                                       *)
LooksGenerated(c, name) ==
  /\ name.form = "generated"
  /\ \/ name.scope \in {"auto", "compat"}
     \/ name.modality = "text" /\ name.scope \in c.providers

KeyedOnly_KeepsAll(c, candidates) == candidates

KeyedOnly(c, candidates) ==
  Kept(candidates, {i \in DOMAIN candidates : IsKeyed(c, candidates[i][1])})

NamedProvider(name) ==
  CASE name.form = "direct" -> name.provider
    [] name.form = "generated" -> name.scope
    [] OTHER -> NULL

(* What is left of a name when the provider is taken off, or not. *)
ModelPart(name) == IF name.form \in {"direct", "bare"} THEN name.model ELSE name

WholeName(name) == IF name.form = "bare" THEN name.model ELSE name

(* The candidates of a name, and whether it is an alias.  A model of a         *)
(* provider that has no key, and a model without a provider, are looked for   *)
(* at every provider that has one.                                            *)
Resolved(c, name, aliases) ==
  LET found(candidates) == [candidates |-> candidates, alias |-> TRUE]
  IN  IF name \in DOMAIN aliases THEN found(KeyedOnly(c, aliases[name]))
      ELSE IF LooksGenerated(c, name) THEN found(<<>>)
      ELSE IF name \in DOMAIN c.aliases THEN found(KeyedOnly(c, c.aliases[name].candidates))
      ELSE   [candidates |-> IF IsKeyed(c, NamedProvider(name))
                             THEN << <<NamedProvider(name), ModelPart(name)>> >>
                             ELSE [i \in DOMAIN c.keyed |-> <<c.keyed[i], WholeName(name)>>],
              alias |-> FALSE]

-----------------------------------------------------------------------------
(* Adapting the candidates of an alias to the request *)

CategoryForProfile(profile) ==
  CASE profile = "balanced" -> "general" [] profile = "strong" -> "reasoning" [] OTHER -> profile

CategoryFallbacks_FreeIsOrdinary(requested, preferred, intent) ==
  Dedupe(<<preferred, "general", requested>>)

CategoryFallbacks(requested, preferred, intent) ==
  LET weighty == intent \in {"planning", "analysis", "critical"}
      usual == CASE preferred = "code" -> <<"code", "reasoning", "general", requested>>
                 [] preferred = "reasoning" -> <<"reasoning", "general", requested>>
                 [] preferred = "general" -> <<"general", "fast", requested>>
                 [] OTHER -> <<"fast", "general", requested>>
      reasoning == IF intent = "trivial" THEN <<"fast", "general", "reasoning">>
                   ELSE IF weighty THEN <<"reasoning", "general">>
                   ELSE IF preferred = "fast" THEN <<"general", "reasoning">>
                   ELSE Dedupe(usual)
  IN  CASE requested = "free" -> <<"free">>
        [] requested = "free-cheap" -> <<"free", "fast">>
        [] requested = "reasoning" -> reasoning
        [] requested = "general" /\ weighty -> Dedupe(<<preferred, "reasoning", "general">>)
        [] OTHER -> Dedupe(usual)

(* The aliases of the categories, in the scope of the one asked for: a          *)
(* provider's stays with the provider.                                        *)
FallbackIds(name, categories) ==
  [i \in DOMAIN categories |->
     AliasId(IF name.scope = "compat" THEN "auto" ELSE name.scope, "text", categories[i])]

(* The candidates of those of these aliases that there are. *)
CandidatesOf(ids, aliases) ==
  LET there == Kept(ids, {i \in DOMAIN ids : ids[i] \in DOMAIN aliases})
  IN  Dedupe(Concat([i \in DOMAIN there |-> aliases[there[i]]]))

AdaptiveCandidates(name, aliases, r) ==
  LET preferred == CategoryForProfile(Analysis(r).profile)
  IN  CandidatesOf(FallbackIds(name, CategoryFallbacks(name.category, preferred, Analysis(r).intent)),
                   aliases)

SupportsTools(c, candidate) ==
  /\ c.toolDisabled \cap Name[candidate[2]] = {}
  /\ c.toolCapable \cap Name[candidate[2]] # {}

ToolCapable(c, candidates) ==
  Kept(candidates, {i \in DOMAIN candidates : SupportsTools(c, candidates[i])})

ProfileMarkers == <<
  <<{"codex", "coder", "grok-code", "customtools", "kimi-k2.5"}, "code">>,
  <<{"nano", "flash-lite", "haiku", "gpt-4.1-mini", "gemini-2.5-flash"}, "fast">>,
  <<{"gpt-5.4-mini", "gemini-3-flash", "sonnet", "qwen3.6", "gpt-4.1"}, "balanced">>,
  <<{"gpt-5.4-pro", "gpt-5.4", "gemini-3.1-pro", "opus", "grok-4.20"}, "strong">> >>

CandidateProfile(candidate) == FirstMatch(ProfileMarkers, Name[candidate[2]], "balanced")

ProfileScore ==
  [fast     |-> [fast |-> 100, balanced |-> 70, code |-> 45, strong |-> 30],
   balanced |-> [balanced |-> 100, fast |-> 75, strong |-> 70, code |-> 60],
   strong   |-> [strong |-> 100, code |-> 85, balanced |-> 65, fast |-> 25],
   code     |-> [code |-> 100, strong |-> 85, balanced |-> 60, fast |-> 25]]

RankAdaptive(c, candidates, profile) ==
  LET capable == ToolCapable(c, candidates)
      narrowed == IF profile = "code" /\ capable # <<>> THEN capable ELSE candidates
      noCode == \A i \in DOMAIN narrowed : CandidateProfile(narrowed[i]) # "code"
      key(k) == <<IF profile # "code" \/ SupportsTools(c, k) THEN 1 ELSE 0,
                  ProfileScore[profile][CandidateProfile(k)]>>
  IN  IF profile = "code" /\ capable # <<>> /\ noCode THEN narrowed
      ELSE Ranked(narrowed, [i \in DOMAIN narrowed |-> key(narrowed[i])])

(* A request with tools narrows the candidates to the models that support      *)
(* them, and gives the profile up if none does.                               *)
Adapted_IgnoresTools(c, candidates, r) == RankAdaptive(c, candidates, "fast")

Adapted(c, candidates, r) ==
  LET capable == ToolCapable(c, candidates)
      toolsMatter == Analysis(r).profile = "code" /\ r.tools
  IN  IF toolsMatter /\ capable # <<>> THEN RankAdaptive(c, capable, "code")
      ELSE IF toolsMatter /\ candidates # <<>> THEN RankAdaptive(c, candidates, "fast")
      ELSE RankAdaptive(c, candidates, Analysis(r).profile)

IsAdaptiveGenerated(name) == name.modality = "text" /\ name.scope \in {"auto", "compat"}

(* plan_candidates *)
PlanCandidates_RanksFreeCheap(c, r, aliases) ==
  LET adaptive == AdaptiveCandidates(r.name, aliases, r)
      resolved == Resolved(c, r.name, aliases)
  IN  IF r.name \in DOMAIN aliases /\ IsAdaptiveGenerated(r.name)
      THEN Adapted(c, IF adaptive # <<>> THEN adaptive ELSE resolved.candidates, r)
      ELSE resolved.candidates

PlanCandidates(c, r, aliases) ==
  LET name == r.name
      resolved == Resolved(c, name, aliases)
      adaptive == AdaptiveCandidates(name, aliases, r)
      candidates == IF adaptive # <<>> THEN adaptive ELSE resolved.candidates
  IN  IF ~ resolved.alias THEN resolved.candidates
      ELSE IF name \in DOMAIN aliases /\ IsAdaptiveGenerated(name)
      THEN IF name.category = "free-cheap" THEN candidates ELSE Adapted(c, candidates, r)
      ELSE IF name \in DOMAIN c.aliases /\ c.aliases[name].adaptive
      THEN Adapted(c, resolved.candidates, r)
      ELSE resolved.candidates

(* The candidates whose known limit the request fits. *)
FitsContext(m, r) ==
  LET limit == Else(m.limits.context, m.limits.input)
  IN  limit = NULL \/ TokenEstimate(r) <= limit

FilteredByContext(candidates, models, r) ==
  LET fits(k) == \A i \in DOMAIN models : Candidate(models[i]) = k => FitsContext(models[i], r)
  IN  Kept(candidates, {n \in DOMAIN candidates : fits(candidates[n])})

-----------------------------------------------------------------------------
(* Behaviour *)

PlannerInit ==
  /\ cfg \in PlannerConfigs
  /\ snapshot = NULL
  /\ ask = NULL
  /\ plan = <<>>

Refresh ==
  /\ ask = NULL
  /\ \E catalog \in Catalogs : snapshot' = Discovered(cfg, catalog)
  /\ UNCHANGED <<cfg, ask, plan>>

(* The configuration changes; the snapshot stays until the next refresh ends. *)
Reload ==
  /\ ask = NULL
  /\ cfg' \in PlannerConfigs \ {cfg}
  /\ UNCHANGED <<snapshot, ask, plan>>

(* Requests are planned on the text aliases only. *)
TextAliases == [id \in {i \in DOMAIN snapshot.aliases : i.modality = "text"} |-> snapshot.aliases[id]]

Plan ==
  /\ snapshot # NULL
  /\ ask = NULL
  /\ ask' \in Asks
  /\ plan' = FilteredByContext(PlanCandidates(cfg, ask', TextAliases), snapshot.models, ask')
  /\ UNCHANGED <<cfg, snapshot>>

(* The request goes on to the routing engine with its plan. *)
Planned ==
  /\ ask # NULL
  /\ ask' = NULL /\ plan' = <<>>
  /\ UNCHANGED <<cfg, snapshot>>

PlannerNext == Refresh \/ Reload \/ Plan \/ Planned

PlannerSpec == PlannerInit /\ [][PlannerNext]_plannerVars

-----------------------------------------------------------------------------
(* Properties *)

Aliases == IF snapshot = NULL THEN <<>> ELSE snapshot.aliases

(* A free candidate: a free special route, or a model scored as free. *)
IsFree(k) == IF k \in DOMAIN snapshot.class THEN snapshot.class[k].score.free > 0
                                            ELSE "free" \in SpecialHints(k[1], k[2])

AsksAlias(category) ==
  /\ ask # NULL
  /\ ask.name \in DOMAIN Aliases
  /\ ask.name.modality = "text" /\ ask.name.category = category

(* Whatever the request is like and whichever fallback its profile prefers, a   *)
(* free alias is planned on free candidates only (plan_candidates,            *)
(* _category_fallbacks).                                                      *)
StrictlyFree == AsksAlias("free") => \A i \in DOMAIN plan : IsFree(plan[i])

(* The free-cheap alias tries every free candidate before a cheap one, even     *)
(* when the request's profile would rank another first, and is there only if   *)
(* some candidate of the snapshot is free.  An alias of the operator that is   *)
(* called like the one of a provider gets its candidates ranked after all.     *)
FreeFirst ==
  AsksAlias("free-cheap") /\ ask.name \notin DOMAIN cfg.aliases =>
    /\ \A i, j \in DOMAIN plan : i < j /\ IsFree(plan[j]) => IsFree(plan[i])
    /\ \E i \in DOMAIN Aliases[ask.name] : IsFree(Aliases[ask.name][i])

(* After a refresh under the loaded configuration, and until the next reload,  *)
(* every candidate planned is of a provider that has a key: neither the        *)
(* aliases of the snapshot nor those of the operator bring in another.        *)
OnlyKeyed ==
  ask # NULL /\ snapshot.of = cfg =>
    \A i \in DOMAIN plan : IsKeyed(cfg, plan[i][1])

(* A request with tools for an adaptive alias other than free-cheap goes only   *)
(* to models that support tools, if the alias has such, unless its metadata    *)
(* names another profile.                                                     *)
ToolsHonoured ==
  /\ ask # NULL
  /\ ask.tools /\ ask.explicit \in {NULL, "code"}
  /\ ask.name \in DOMAIN Aliases /\ IsAdaptiveGenerated(ask.name)
  /\ ask.name.category # "free-cheap"
  /\ \E i \in DOMAIN Aliases[ask.name] : SupportsTools(cfg, Aliases[ask.name][i])
  => \A i \in DOMAIN plan : SupportsTools(cfg, plan[i])

(* A text alias never offers a model the filter or an override took out, and   *)
(* the general one offers every other text model of the enabled providers.     *)
GeneralIsComplete ==
  snapshot # NULL =>
    LET texts == {Candidate(m) : m \in {m \in ToSet(snapshot.models) : ServesText(m)}}
        specials(k) == SpecialHints(k[1], k[2]) # {}
        id == AliasId("auto", "text", "general")
    IN  /\ \A a \in DOMAIN Aliases : a.modality = "text" =>
              \A i \in DOMAIN Aliases[a] : Aliases[a][i] \in texts \/ specials(Aliases[a][i])
        /\ texts = IF id \in DOMAIN Aliases THEN ToSet(Aliases[id]) ELSE {}
=============================================================================
