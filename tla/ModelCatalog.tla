------------------------------ MODULE ModelCatalog ------------------------------
(***************************************************************************)
(* What discovery makes of one entry of a provider's catalog: its modality, *)
(* whether it can serve text, what the operator's overrides change, how it   *)
(* scores in each category and what it is thought to support.                *)
(*                                                                           *)
(* A name is the set of the markers it contains; so is what the metadata of  *)
(* an entry says of its type and task.                                       *)
(***************************************************************************)
EXTENDS GatewayErrors, Lists, SequencesExt, FiniteSetsExt

CONSTANT
  Name        \* the markers in the lower-case name of each model

Modality == {"text", "image", "video", "audio", "embedding", "other"}

Category == {"free", "fast", "general", "reasoning", "code"}

(* The value that comes with the first set of markers met. *)
FirstMatch(rules, marks, default) ==
  LET met == {i \in DOMAIN rules : rules[i][1] \cap marks # {}}
  IN  IF met = {} THEN default ELSE rules[Min(met)][2]

(* The Python idiom "a or b" on optional values. *)
Else(a, b) == IF a = NULL THEN b ELSE a

-----------------------------------------------------------------------------
(* Normalization *)

MetadataModality == <<
  <<{"embedding"}, "embedding">>,
  <<{"text-to-image", "image generation", "image to text", "vision", "image"}, "image">>,
  <<{"video"}, "video">>,
  <<{"speech", "audio", "transcription", "asr", "text-to-speech"}, "audio">>,
  <<{"text generation", "language", "chat", "summarization", "translation"}, "text">> >>

NameModality == <<
  <<{"embedding"}, "embedding">>,
  <<{"veo", "video", "seedance", "hailuo"}, "video">>,
  <<{"image", "imagen"}, "image">>,
  <<{"audio", "tts", "lyria", "live", "speech"}, "audio">>,
  <<{"robotics", "computer-use", "research", "aqa"}, "other">> >>

GuessModality(raw) ==
  Else(FirstMatch(MetadataModality, raw.hints, NULL),
       FirstMatch(NameModality, Name[raw.id], "text"))

ChatTask == <<
  <<{"text generation", "language model", "large language model", "chat", "dialogue",
     "instruct"}, TRUE>>,
  <<{"text classification", "summarization", "translation", "embeddings",
     "automatic speech recognition", "speech recognition", "rerank", "reranker",
     "feature extraction"}, FALSE>> >>

SupportsChatTask(modality, raw) == modality = "text" /\ FirstMatch(ChatTask, raw.hints, TRUE)

Positive(n) == IF n # NULL /\ n > 0 THEN n ELSE NULL

(* The limits of an entry may stand in the entry itself or in one of three    *)
(* records inside it.  An unknown context window is taken to be the input's.  *)
TokenLimits(raw) ==
  LET in(part, field) == Positive(raw.meta[part][field])
      context == Else(in("own", "context"), Else(in("limits", "context"), in("top", "context")))
      input   == Else(in("own", "input"), Else(in("limits", "input"), in("arch", "input")))
  IN  [input   |-> input,
       output  |-> Else(in("own", "output"), in("limits", "output")),
       context |-> Else(context, input)]

Normalized(raw) ==
  LET modality == GuessModality(raw)
      chat == SupportsChatTask(modality, raw)
  IN  [provider |-> raw.provider, id |-> raw.id, modality |-> modality,
       chat     |-> chat,             \* supports_chat, _responses and _stream
       text     |-> chat,             \* is_text_candidate
       excluded |-> NULL,
       tools    |-> {"codex", "coder", "customtools", "grok-code"} \cap Name[raw.id] # {},
       free     |-> ":free" \in Name[raw.id],
       preview  |-> "preview" \in Name[raw.id],
       limits   |-> TokenLimits(raw),
       keys     |-> {raw.key}]

-----------------------------------------------------------------------------
(* The text filter *)

TextExcludeMarkers == <<
  <<{"embedding"}, "embedding_model">>,
  <<{"image"}, "image_or_vision_model">>,
  <<{"audio", "speech", "tts"}, "audio_model">>,
  <<{"generate"}, "generation_or_media_model">>,
  <<{"seedance", "hailuo", "veo"}, "video_model">>,
  <<{"imagen"}, "image_model">>,
  <<{"lyria"}, "audio_model">>,
  <<{"robotics"}, "robotics_model">>,
  <<{"computer-use"}, "computer_use_model">>,
  <<{"live"}, "live_or_realtime_model">>,
  <<{"research"}, "research_model">> >>

ProviderExcludeMarkers(provider) ==
  CASE provider = "gemini" -> << <<{"aqa"}, "non_chat_model">> >>
    [] provider = "openrouter" ->
         << <<{"search"}, "search_or_retrieval_route">>,
            <<{"router"}, "special_router_route">>,
            <<{"guard", "safeguard"}, "guard_or_safeguard_model">>,
            <<{"bodybuilder"}, "special_provider_route">> >>
    [] OTHER -> <<>>

Filtered(m) ==
  LET byName == Else(FirstMatch(TextExcludeMarkers, Name[m.id], NULL),
                     FirstMatch(ProviderExcludeMarkers(m.provider), Name[m.id], NULL))
      why == IF m.modality # "text" THEN "non_text_modality"
             ELSE IF ~ m.chat THEN "non_chat_text_task"
             ELSE byName
  IN  [m EXCEPT !.text = (why = NULL), !.excluded = why]

-----------------------------------------------------------------------------
(* The operator's overrides.  They apply in order, the later ones to what the  *)
(* earlier ones left.                                                         *)

Matches(override, m) == <<m.provider, m.id>> \in override.matches

OverrideModel(m, o) ==
  LET forced ==
        CASE o.modality = NULL   -> m
          [] o.modality = "text" ->
               [m EXCEPT !.modality = "text", !.text = TRUE, !.chat = TRUE,
                         !.excluded = IF @ = "non_text_modality" THEN NULL ELSE @]
          [] OTHER ->
               [m EXCEPT !.modality = o.modality, !.text = FALSE, !.chat = FALSE,
                         !.excluded = "manual_override_modality"]
      included == IF o.include /\ forced.modality = "text"
                  THEN [forced EXCEPT !.text = TRUE, !.excluded = NULL] ELSE forced
  IN  IF ~ Matches(o, m) THEN m
      ELSE IF o.exclude
      THEN [included EXCEPT !.text = FALSE, !.excluded = "manual_override_exclude"]
      ELSE included

Overridden(m, overrides) ==
  LET after[n \in 0 .. Len(overrides)] ==
        IF n = 0 THEN m ELSE OverrideModel(after[n - 1], overrides[n])
  IN  after[Len(overrides)]

OverrideClass(class, o, m) ==
  LET scored == [c \in Category |->
                   IF c \in o.categories
                   THEN IF class.score[c] > 100 THEN class.score[c] ELSE 100
                   ELSE IF c = "general" /\ o.include /\ m.modality = "text" /\ class.score[c] = 0
                   THEN 1 ELSE class.score[c]]
      disabled == IF o.toolCapable = TRUE THEN FALSE ELSE class.disabled
  IN  IF ~ Matches(o, m) THEN class
      ELSE [score    |-> scored,
            capable  |-> Else(o.toolCapable, class.capable),
            disabled |-> Else(o.toolDisabled, disabled)]

-----------------------------------------------------------------------------
(* Classification *)

FastMarkers == {"nano", "lite", "flash", "haiku", "small"}
ReasoningMarkers == {"pro", "opus", "sonnet", "thinking", "reasoning", "o1", "o3", "o4"}
CodeMarkers == {"codex", "coder", "codestral", "devstral", "mercury-coder", "grok-code"}
GeneralMarkers == {"gpt-4.1", "gpt-4o", "gpt-5-chat", "gemini-2.5-flash",
                   "gemini-2.0-flash", "claude-sonnet", "qwen-plus", "qwen-max"}

MarkerScores_NoBase(m) ==
  LET hits(markers) == Cardinality(markers \cap Name[m.id])
  IN  [free |-> IF m.free THEN 100 ELSE 0, fast |-> 30 * hits(FastMarkers),
       reasoning |-> 30 * hits(ReasoningMarkers), code |-> 45 * hits(CodeMarkers),
       general |-> 15 * hits(GeneralMarkers)]

(* "mini" counts when it stands between separators: its marker is "-mini-".   *)
MarkerScores(m) ==
  LET hits(markers) == Cardinality(markers \cap Name[m.id])
  IN  [free      |-> IF m.free THEN 100 ELSE 0,
       fast      |-> 30 * hits(FastMarkers \cup {"-mini-"}),
       reasoning |-> 30 * hits(ReasoningMarkers),
       code      |-> 45 * hits(CodeMarkers),
       general   |-> (IF m.text THEN 20 ELSE 0) + 15 * hits(GeneralMarkers)]

Classified(m, cfg) ==
  LET score == MarkerScores(m)
      class == [score    |-> score,
                capable  |-> \/ m.tools \/ score.code > 0
                             \/ (cfg.toolCapable \cup {"customtools"}) \cap Name[m.id] # {},
                disabled |-> ({"haiku", "nano"} \cup cfg.toolDisabled) \cap Name[m.id] # {}]
      after[n \in 0 .. Len(cfg.overrides)] ==
        IF n = 0 THEN class ELSE OverrideClass(after[n - 1], cfg.overrides[n], m)
  IN  after[Len(cfg.overrides)]

(* What enrichment says of a model: the states of chat, responses and stream   *)
(* are one, those of the tools depend on the classification.                  *)
ServesText(m) == m.text /\ m.excluded = NULL

ChatState(m) == IF ServesText(m) /\ m.chat THEN "supported" ELSE "unsupported"

ToolsState(m, class) ==
  IF ~ ServesText(m) \/ class.disabled THEN "unsupported"
  ELSE IF class.capable \/ m.tools THEN "supported" ELSE "unknown"

-----------------------------------------------------------------------------
(* The catalog of a snapshot *)

(* The routes openrouter itself offers as models, with what they are good for. *)
SpecialHints(provider, id) ==
  CASE provider = "openrouter" /\ "openrouter/free" \in Name[id] -> {"free"}
    [] provider = "openrouter" /\ "openrouter/auto" \in Name[id] -> {"general"}
    [] OTHER -> {}

IsSpecial(raw) == SpecialHints(raw.provider, raw.id) # {}

(* _merge_models: the first key that lists a model describes it, the others    *)
(* are added to its sources.                                                  *)
Merged(raws, cfg) ==
  LET same(i) == {j \in DOMAIN raws :
                    raws[j].provider = raws[i].provider /\ raws[j].id = raws[i].id}
      own == {i \in DOMAIN raws : ~ IsSpecial(raws[i]) /\ \A j \in same(i) : i <= j}
  IN  Listed([i \in own |->
                [Overridden(Filtered(Normalized(raws[i])), cfg.overrides)
                   EXCEPT !.keys = {raws[j].key : j \in same(i)}]])
=============================================================================
