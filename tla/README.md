# Verification of SimpleOpenRoad

TLA+ specifications of the gateway's core logic, the TLC configurations that
model-check them, and TLAPS proofs about them. Paths below are relative to the
repository (`src/`); definitions in `code type` are in the modules beside this file.

## 1. The system

SimpleOpenRoad is a gateway in front of LLM providers. It is one FastAPI process:
every endpoint is `async def`, so all handlers share one event loop and give up
control only where they `await`. The `sor` commands are other operating-system
processes. They share files with the gateway: the SQLite database (one transaction
per statement, `app/storage/db.py`), `config/config.yaml`, the inventory's cache file and the
Code Assist credentials. Nothing locks the last three.

| Component | State | Operations | Where |
|---|---|---|---|
| key registry | `key_runtime_state`: switch, status, error count, cooldown | record a success or a failure, block, sync with the configuration, reset | `registry/keys.py`, `storage/repositories/keys_repo.py` |
| health checks | checks under way | ask the provider, write the report; a loop over all keys | `health/checker.py`, `health/scheduler.py` |
| routing engine | one coroutine per request; copies of the key states | plan, call, retry, switch key or provider, answer | `router/engine.py`, `policy.py`, `selector.py` |
| model quarantine | `model_runtime_state`: failures, quarantined until | record, filter candidates, reset | `storage/repositories/model_runtime_repo.py` |
| route memory, statistics | `route_model_memory`, `usage_stats`, `request_attempts` | remember the last good candidate, count | `storage/repositories/` |
| stream normalizer | held-back chunks, two flags | pass or hold a chunk, commit, fail | `router/stream_normalizer.py` |
| configuration | the loaded `GatewayConfig`, the file | load, reload, edit | `config/`, `cli/app.py` |
| model inventory | snapshot in memory, cache file | refresh, publish, save, clear | `inventory/discovery.py`, `cache.py`, `scheduler.py` |
| alias planner | none (pure) | build aliases, plan and filter candidates | `inventory/aliases.py`, `router/model_planner.py`, ... |
| provider adapters, credentials | HTTP clients, OAuth tokens | translate requests, answers and errors | `providers/`, `credentials/` |
| HTTP API, observability | none | translate, log, report | `api/`, `services/`, `observability/` |

How they interact. A request takes the current snapshot, plans a list of candidates
(alias planner, context filter, route memory, quarantine, free budget), reads the key
states once, and then calls providers one after the other. Every outcome goes to the
key registry, the quarantine and the statistics. A streamed answer passes the
normalizer, whose first chunk counts as the success. Health checks and operator commands write the
same key rows, whatever requests are in flight. A reload swaps the configuration and
rewrites the switches of the keys.

What is hard here, and what the properties are aimed at (`PROJECT.json`, "hazards",
has each at its line):

* several processes write one row in several transactions, and may die in between;
* state is read before an `await` and used after it: the key states and the plan of a
  request, the report of a health check, the row `record_failure` read;
* the failover loop: three nested loops with five breaks and a `continue`;
* what a stream holds back, and when it may still be abandoned;
* refreshes of the inventory that overlap each other and a reload, with a cache file that
  other processes write too;
* files that are read, changed and written whole, with a human being between the read and the
  write, or another process;
* from a catalogue to a plan: a dozen small rules that switch models on and off, and an alias
  that must keep its promise whatever the request is like;
* keys nobody calls any more must come back, and every request must end.

## 2. Modules

    GatewayErrors                 error classes, NULL
      KeyRow                      one row of key_runtime_state, one operator per UPDATE
        KeyRegistry               gateway, health checks, operator, restarts
          MCKeyRegistry           instances for TLC
          KeyRegistry_proofs      theorems
      ModelRow                    one row of model_runtime_state
        ModelQuarantine           requests, operator, restarts
          MCModelQuarantine
          ModelQuarantine_proofs
      KeyRow + ModelRow
        RoutingEngine             requests from arrival to answer, over both tables
          Failover                what it promises about a request; implemented by it
          MCRoutingEngine
          RoutingEngine_proofs
    StreamNormalizer              the generator between provider and client
      MCStreamNormalizer
      StreamNormalizer_proofs
    ProviderAdapters              error classes and stream parsers of the providers
      MCProviderAdapters
      ProviderAdapters_proofs
    Inventory                     who refreshes the snapshot, when, over which files
      MCInventory
    Lists                         parts, sorts and joins of lists, by places and order
      ModelCatalog                what discovery makes of one catalogue entry
        AliasPlanner              aliases, and from a request to its candidates
          MCAliasPlanner
    Inventory + AliasPlanner
      Inventory_proofs            theorems about both
    ConfigFile                    operators' sessions and the gateway over config.yaml
      MCConfigFile
      ConfigFile_proofs
    CodeAssistCredentials         the credentials file, requests and the sign-in
      MCCodeAssistCredentials
      CodeAssistCredentials_proofs

The row modules are shared, so that the registry, the quarantine and the engine
cannot disagree on what a statement does. The environment of each module is the
result of another: the registry sees requests as the calls they make, the quarantine
as the models they use, and the engine sees the planner as the set `Plans` and the
normalizer as its first chunk. The adapters end where the normalizer begins (`out` is its
`source`), and the planner where the engine begins (`plan` is one of its `Plans`). They are not
composed: what crosses each of these borders is a value computed once, and a product of the
modules would only multiply their states.

### KeyRow, KeyRegistry

State: `row` is the table, `yaml` the flags in the file, `cfg` the flags the gateway has
loaded. `pc` and `failing` are the position inside `record_failure`, whose three
statements are the actions `CountFailure`, `ReadBack` and `Block`. The gateway's other
handlers wait for `pc = "idle"`, because `record_failure` contains no `await`; the
operator's actions and the gateway's death do not. Checks under way are `probes`;
between `StartProbe` and `FinishProbe` anything may happen to the row. Every command
that builds a container runs `sync_defaults` first, which is part of its action. The panel of a key
works with the record it has shown, so `ToggleActive` and `ResetState` may write either value of the
switch. `Restart` also
stands for a crash: it may happen between any two statements.

`sync_defaults` is one step, though it is a transaction per key: it writes only the switches, which
no other gateway statement writes. "sor keys validate" ends by asking the gateway to reload: that is
`Reload`, in the gateway's own time.

Left out: timestamps, messages and latencies, which only feed reports. `switch_count`
is in `RoutingEngine`. Two gateway processes on one database are not modelled, the
deployment documents have one.

`writer`, `raced` and `disabled` are history variables: no guard reads them.

| Property | Says |
|---|---|
| `ErrorsHaveCooldown` | a key has a cooldown exactly as long as it has errors |
| `ThresholdEnforced` | while a failure is the last word on a key, and nobody is still deciding on it, its count is below the limit |
| `BlockedHasErrors` | a blocked key still has the errors it is blocked for; `raced` names the one exception, another process clearing the key between `ReadBack` and `Block` |
| `BlockedIsReprobed` | a blocked key does not stay blocked for ever (liveness) |
| `DisabledStaysOff` | violated, see 4 |

### ModelRow, ModelQuarantine

State: `mrow` is the table, `plan` what each request has left of its list of candidates, each with
its place, and `pending` the failure between the SELECT and the upsert of `record_failure`, with the
row it read. A request takes the quarantined models out of its whole list when it plans (`Start`) and
does not look again: it calls the first candidate it has left (`Calls`), and stays with it or goes on
to any later one or to none (`Onward`), which stands for keys, retries, policies and the budget of a free alias. `Reset`
is the panel's, another process, and may fall into the gap. `since` and `raced` are history.

`QuarantineEarned`: the count is the number of failures since the last success or reset,
and a quarantine needs the threshold of them. `QuarantineUndisturbed`: a quarantined model that is in
no request's plan gets into none, and nothing but the operator's reset touches its row. The
condition is needed: a request that planned before the quarantine, and is busy with another candidate
when it begins, still goes on to the model and extends it.

### RoutingEngine

One action from one `await` to the next. `Arrive` plans and reaches the first call;
`Succeed` and `Fail` are everything after the provider's answer, to the next call, pause
or end; `Wake` ends a pause. Where a request goes next is a set of successor records
(`NextCandidate`, `NextKey`, `SleepOnKey`, `Finished`), because `select_keys` may order
the keys in several ways. `Verdict` is the cascade of `if` statements after a failure. The
two entry points of the engine, with and without streaming, have the same control and
are one model. The streaming one has a handler more, for a stream that ends
without a chunk; `CommitsOnContent` shows that the normalizer produces no such stream.

`task[r]` holds the locals: the plan, the copy `states` of the key rows, the position
(`cand`, `key`, `queue`, `try`), the keys `offered` and the `attempts`.

Left out: the snapshot lookup that precedes planning, adapters missing for a
provider, the text of errors, reloads during a request.

| Property | Says |
|---|---|
| `WalksPlanOnce` | calls never return to a candidate or key they left, use only keys offered, and number 1, 2, ... within the retry budget |
| `FailsOnlyExhausted` | a request fails only when every key open at its arrival was called, or an answer made the policy leave the provider, or a free tier stopped it |
| `OutcomeTold` | the first success is the result; a failure reports the last attempt; a free alias stops at a provider's free-tier limit and within its budget |
| `Counters` | successes, failures and switches counted in the tables balance with the attempts of all requests |
| `EveryRequestEnds` | liveness |
| `ImplementsFailover` | the engine refines `Failover` |

`Failover` is the engine without its reasons: a request has one call, goes forward through the
candidates, gives each pair of candidate and key up for good and ends served or failed. The
mapping takes the call from the position, or from the pause the position belongs to, the pairs left
from the attempts, and the outcome from the error. `Wake` and `Tick` stutter.

### StreamNormalizer

State: the `source` as events, how many were `read` and how many of those are still
`todo`, what is `pending`, the two flags, and `out`. A raw chunk completes any number of
events (`Batches`), or is a fragment. An event is what the generator tells apart:
role, content (or tool calls), both, neither, `[DONE]`. Bytes, JSON and framing are not
spelled out.

`CommitsOnContent`: nothing is sent before content, nothing is declared malformed
after it, a stream that ends well has sent something. `ContentDelivered`: the content
events sent are those received, in order. `RoleMadeIfMissing`: the generator's own role
chunk comes at most once, first, and only if the provider gave none by then.
`RoleBeforeContent` is violated, see 4.

### ProviderAdapters

State: the `kind` of adapter, the `body` so far, line by line, the `buffer` of the event under way,
and what was handed on (`out`), each chunk with the lines it stems from. A line is what the
parsers tell apart: an answer with text, its two halves, a data line that is none, a line
without data, a blank one. `AnswersDelivered` compares `out` with a reference (`Expected`) that
looks at the whole body at once: its events are the sets of lines between blank ones (`Event`). `EndsAfterText`: a stream an adapter ends itself has said its
role once, first, and some text; together with `CommitsOnContent` no empty stream is a success.

### Inventory

State: `hour`, the file `disk` and what the gateway loaded of it, its `adapters`, the snapshot in
`memory`, the cache `file`, the scheduler's `sleep`, how the last `reload` went, and the `job` of
everyone who refreshes: start, scheduler, reload, requests, commands. A refresh goes from one
`await` to the next: `Answered` is a provider's answer (or its error, which counts as one), the
last of which publishes the snapshot and truncates the file; `Saved` writes it; `Broken` is every
other exception. `spanned` in a snapshot is history: a reload overtook the refresh that made it.

| Property | Says |
|---|---|
| `MemoryFollowsReload` | the snapshot in memory is one of the loaded configuration, unless a reload is fetching one or failed to, or the refresh was overtaken by a reload |
| `AccountsForAll` | a refresh no reload overtook accounts for every enabled provider that has an adapter, whatever else refreshes or fails meanwhile |
| `WakesAtAnchor` | if the interval divides the day, the scheduler is to wake at the very next anchor |
| `SchedulerLives` | a running gateway's scheduler always begins another refresh (liveness) |

`Enabled` is the enabled providers that have an adapter: an unknown name without `adapter:
openai_compatible` gets none (`registry.py:147`), and a refresh passes it over without a report
(`discovery.py:61`). An interval that does not divide the day has no property: its anchors are counted
anew every day (`discovery.py:222`), and the scheduler may sleep past the first of them.

The exceptions in the first two are what the code does: `current_snapshot` serves what is in memory
without looking at its configuration, and a refresh that a reload overtakes looks the new adapters up
by the old configuration.

### ModelCatalog, AliasPlanner

Operators, one for each function of `inventory/` and `router/` between a catalogue entry and a plan,
under a small state machine: `Refresh` makes a snapshot under the configuration of the moment,
`Reload` changes the configuration and leaves the snapshot, `Plan` plans a request. A name is the
set of markers it contains, a request the number of hints of each kind with its size and tools.
What the code does with lists is in `Lists`: a comprehension keeps some places (`Kept`), a stable sort
orders them by key and then by place (`Ranked`), lists are joined in order (`Concat`), and
repetitions go (`Dedupe`). Each is a function listed in an order of its arguments (`Arranged`): what
it contains and what comes first is then a matter of places, which can be proved.

| Property | Says |
|---|---|
| `StrictlyFree` | an alias `free` is planned on free candidates only, whatever the request |
| `FreeFirst` | `free-cheap` tries every free candidate before a cheap one, and exists only if there is a free one, but for an operator's alias of the same name |
| `OnlyKeyed` | until the next reload, every candidate is of a provider with a key |
| `ToolsHonoured` | a request with tools goes only to models that support tools, if its adaptive alias has such |
| `GeneralIsComplete` | a text alias offers nothing the filter or an override took out, `auto/text/general` offers all the rest |

### ConfigFile

State: the file `disk`, the gateway's configuration, and per operator the panel that is open, with
what it loaded. A command without prompts is one action. A panel is two: what it loads before
its prompts (`Open...`), and what it writes after them. There are two kinds: those that
write the copy they loaded (`WholeCopy`) and those that load again and replace a part
(`FreshCopy`). The panel of a key remembers a number and a record and writes the one to the
other. `Selected` is the list a comprehension with a condition makes of a list. `overtaken` is
history: a write ever followed one its session had not seen. A gateway is there from the start,
so the first file is one it accepts (`FirstAccepted`). A write is atomic: that `write_text` empties the
file before it fills it is left out here, and modelled for the credentials (`Truncate`, `Write`).

| Property | Says |
|---|---|
| `DuplicatesOnlyByRace` | the file never has two keys of one id, but for a write over an unseen one |
| `EditsAreLocal` | but for that, a write changes one section of the file and keeps what others wrote to the rest |
| `KeysSurvive` | but for that, a write takes or changes no key but those the operator was asked about |

### CodeAssistCredentials

State: the `file`, what each process has in its hands (`work`), the `signin` under way, and the
tokens that ran out. A load, a set-up and the two halves of a write (`Truncate`, `Write`) are
actions of their own, because the processes are independent; a load inside the gateway contains no
`await`, so one gateway is one process. A chat request loads twice (`Again`). `newest`, `stale` and
`crashed` are history.

| Property | Says |
|---|---|
| `SignInKept` | what a sign-in wrote is lost only to a process that had loaded the file before, or to two writing at once |
| `TornOnlyByWriters` | the file is torn only while it is written, or after a writer was killed or met another |
| `OneLogin` | project and token of a request are of one login, unless that changed while it was prepared |

Definitions named with a capitalised remark (`Probed_KeepsBlock`) are faulty
variants of the definition after them, for mutation: `PROJECT.json` says which property
notices which.

## 3. Runs

`tlc -config X.cfg M` in this directory; bounds are the constants in the `.cfg` files.

| Run | Instance | Distinct states | Result |
|---|---|---|---|
| `MCKeyRegistry.cfg` | 1 key, limit 2, clock to 3, count to 3 | 129,920 | holds |
| `MCKeyRegistryDisable.cfg` | 2 keys | | violated |
| `MCModelQuarantine.cfg` | 2 models, 2 plans of both, 2 requests, threshold 2, ttl 3, 1 and 0 | 1,513,121 | holds |
| `MCRoutingEngine.cfg` | 1 request, 2 plans of 3 candidates, 3 keys, 4 start tables, 6 answers, clock to 2 | 301,307 | holds |
| `MCRoutingEngineTwo.cfg` | 2 requests, 2 candidates, 3 keys, 3 answers | 151,122 | holds |
| `MCStreamNormalizer.cfg` | all streams of up to 4 events and a terminator, chunks of 0, 1 or 2 | 111,618 | holds |
| `MCStreamNormalizerRole.cfg` | up to 3 events, one per chunk | | violated |
| `MCInventory.cfg` | 2 providers, 2 configurations, a request and a command, a day of 4 hours, an anchor every 2 | 145,856 | holds |
| `MCAliasPlanner.cfg` | 2 providers, 6 models, 2 catalogues, 4 configurations, 2,288 requests | 73,252 | holds |
| `MCConfigFile.cfg` | 2 operators, 2 providers, 4 key ids, 2 writes, lists of up to 3 | 55,074 | holds |
| `MCCodeAssistCredentials.cfg` | 2 processes, 3 logins, 4 events | 1,720,658 | holds |
| `MCProviderAdapters.cfg` | all streams of up to 5 lines | 111,991 | holds |

Why these bounds are enough. Rows of different keys are written independently, so one key
shows every interleaving on a row; that nothing else interferes is what the proofs
add, which hold for any set of keys. The limit of 2 lets a count be below, at and above it
(`MaxErrors` is 3, because a failure in flight is counted on a blocked key). The three
cooldowns differ, so that a longer one can be replaced by a shorter one. Three
candidates on two providers give plans that visit one provider twice, in a row or not; the keys of a
candidate include one that discovered it and one that did not; one key may be retried
and one may not. Streams of four events have room for content before and after
everything else, and two chunks of two.

In the quarantine two candidates in either order are enough for a request to be busy with one while the
other is quarantined; threshold 2 and two requests let one of them count on what the other wrote.

In the inventory two providers are the fewest for a refresh to be overtaken between two answers; two
configurations differ in one of them, and have different fingerprints; `MaxJobs` of 1 lets a
request or a command begin only while nothing else refreshes, but the start, the scheduler and
a reload join whatever is under way. A day with two anchors has hours at and between them. The
planner's catalogues have for each category a model that is in it and one that is not, one listed
by two keys, one excluded by its name, one by its task and one only by an override, and a special
route; the requests combine every hint alone, and the ones that matter together, with size, budget and
tools. Two writes are the fewest that can overtake one another; what a third would add is a repetition
of the second. The example file has one key of each kind `KeyValue` tells apart. Three logins are the
first and two newer ones, so that a process can hold each of two old ones; four events, two
sign-ins and two crashes or expiries. Five lines are an event with two data lines, its blank
line, and another event.

Deadlock is checked everywhere but in `StreamNormalizer`, where a generator that has
ended is a terminal state, and in `ConfigFile`, where the bounded writes may be used up with a file
the validators refuse and no gateway. `AllServed` in `RoutingEngine` is the idle gateway.

Fairness. `KeyRegistry`: weak on the rest of `record_failure`, which the event loop runs to its
end; strong on the gateway's checks, because a check may be disabled again and again by
`record_failure` running and is enabled after it. The code justifies it: `HealthScheduler._loop`
catches every exception and starts over, `validate_all` goes through all configured keys, blocked
ones of the enabled providers included (`checker.py:127`; the model has enabled ones only), and every
check is awaited with a timeout. `BlockedIsReprobed` would
fail without it: `StartProbe_SkipsBlocked` shows that. `RoutingEngine`: weak on the return of each provider
call (the HTTP clients have timeouts) and on the end of each pause. `Inventory`: weak on the
clock and on the end of a write, strong on the scheduler's waking and on the answers to its
refresh, because another task may be in the middle of a write again and again; the
scheduler's loop catches every exception (`scheduler.py:42`) and the calls have timeouts.
`AfterFailure_SchedulerDies` shows what depends on the former. Nothing is
assumed about what providers answer, or about the operator.

## 4. What the violated properties show

| Property | Statement in the repository | What the code does |
|---|---|---|
| `DisabledStaysOff` | docs/ADMIN_GUIDE.md:50 "Disable / enable key runtime state:" | any later command, reload or restart runs `sync_defaults` and enables the key again (`keys_repo.py:33`) |
| `RoleBeforeContent` | tests/unit/test_stream_normalizer.py:40 asserts the role in the first chunk | the provider's role chunk is dropped by `pending.clear()` (`stream_normalizer.py:86`) |

Read on the way, without a run of their own. About routing:

* docs/ARCHITECTURE.md:179 defines "`blocked`: disabled by policy or manual admin action"; a failed
  health check overwrites `blocked` and keeps the count (`keys_repo.py:155`), so that the key is
  routed to again after its cooldown.
* docs/ARCHITECTURE.md:140, "Candidate filter: remove inactive/blocked/cooldown keys."; the filter reads
  states taken before the first call (`engine.py:525`), and a key another request has
  cooled since is still picked.
* docs/ARCHITECTURE.md:153, "skip it until quarantine TTL expires"; a later failure of another class
  replaces the end of the quarantine (`model_runtime_repo.py:75`), and a request that planned before
  the quarantine does not skip the model (`engine.py:507`).
* docs/ARCHITECTURE.md:288 has a rate limit retried on the same key, where `engine.py:709` goes to the
  next key while candidates remain; docs/ARCHITECTURE.md:287 "degrade key" for an auth failure, where
  `keys.py:124` sets "invalid"; docs/ROUTING.md:77 restricts a candidate to the keys that discovered
  it, where `engine.py:172` falls back to all of them.

About planning:

* docs/internal/ADAPTIVE_ROUTING_ARCHITECTURE.md:311 has requests that "must not go to `fast`"; the
  table `PROFILE_SCORE` (`model_planner.py:22`) ranks fast (75) before strong (70) for `balanced`.
* The media aliases take models the filter or an override excluded (`aliases.py:293`).
* An adaptive alias of the operator called like a provider's own `free-cheap` (`groq/text/free-cheap`) takes
  its candidates from the generated one and ranks them after all (`model_planner.py:101`), so that a
  cheap candidate may come before a free one: the condition of `FreeFirst`.
* A name `provider/model` of a provider without a key falls through to every provider that has
  one, with the whole name as the model (`alias_resolver.py:74`).

About configuration and credentials:

* Every save replaces `${VAR}` by its value and writes the defaults of the example into the file
  (`Load`, `loader.py:18`).
* The menu's "Reload config in running app" (`app.py:4818`) reloads a container it has built itself
  (`app.py:3366`), not the running gateway's; docs/ADMIN_GUIDE.md:88 and docs/ARCHITECTURE.md:71 speak
  of the running one.
* The schedule panel writes a value before anything checks it; a file that is refused then keeps
  most panels and the next start out until it is repaired by hand (`Valid`, `NeedsValid`).
* docs/ADMIN_GUIDE.md:82 sets the priority of `auto/fast`, which is no alias of the file and is refused.
* credentials/google_code_assist.py:73 asks the operator to run `sor providers connect google` again;
  the command takes the credentials that are there, unless it is forced (`app.py:2946`), so that
  those that ran out stay, and fails on a torn file.
* A timeout while the project is set up is reported as AUTH_INVALID
  (`providers/google_code_assist.py:65`).

## 5. Proofs

`tlapm M.tla` for the `_proofs` modules. The theorems hold for every value of the constants
that satisfies the assumptions in the modules (`NullAssumption`, `KeyRowAssumption`,
`RegistryAssumption`, `ModelRowAssumption`, `QuarantineAssumption`, `StreamAssumption`,
`AdapterAssumption`, `CredentialsAssumption`, `InventoryAssumption`, `PlannerAssumption`,
`ConfigAssumption`, `FirstAccepted` and those of the engine). These give
the constants their sorts. The configuration does not check its numbers, so limits and ttls
are any integers; only cooldowns and bounds are natural numbers (a negative cooldown is over before
it begins), and the failure threshold is positive because the code takes `max(1, ...)`.
`FirstAccepted` says that the gateway has started: it does not with a file it refuses.
`PlannerAssumption` says what a configuration is: lists of any length, keyed providers among the
enabled ones. It also excludes a provider called `auto` or `compat`, which the code does not: the
aliases of such a provider would be those of all providers.

* **KeyRegistry_proofs.** `TypeCorrect`; `Safe`, from which `ErrorsAlwaysHaveCooldown`,
  `ThresholdAlwaysEnforced` and `BlockedAlwaysHasErrors` follow. The invariants are not
  inductive alone: at `Block` one must know that the key still has the errors that
  were read. `ExceededHasErrors` says so, unless the key is `raced`. Lemmas about the
  single statements of `KeyRow` come first; the step lemma `NextSafety` has one case
  per action.
* **ModelQuarantine_proofs.** `TypeCorrect`, `QuarantineAlwaysEarned` and, as an action
  property, `QuarantinesUndisturbed`, for any set of plans. The strengthening of the second is
  `PendingIsCurrent`: the row a failure was computed from is still in the table, unless it was reset.
  For the third, a plan is made without the model, and afterwards only gets shorter
  (`FewerPlanned`); only a model in a plan is called (`CalledIsLeft`).
* **StreamNormalizer_proofs.** `TypeCorrect`, `AlwaysCommitsOnContent`, `AlwaysContentDelivered`,
  `AlwaysRoleMadeIfMissing`. `Commitment` ties the flag `meaningful_seen` to the events looked at and
  to the output. `Delivery`, for the other two, says that what is held back has no content, that the
  content sent is that of the events looked at, in order, and that no role was seen before the
  generator made its own.
* **ProviderAdapters_proofs.** `AlwaysAnswersDelivered` and `AlwaysEndsAfterText`, for answers of
  any length. `Expected` looks at all of the body; a parser knows the lines since the last
  blank one. `Collected` says that its buffer holds just these, in order, and that what it handed
  on stems from the lines before; `LineTaken` and `DueTaken` say what one more line makes of the events
  and of what is expected.
* **RoutingEngine_proofs.** Three invariants.
  `Carried`, from which `AlwaysWalksPlanOnce` and the refinement,
  `Implements`, follow: `WalksPlanOnce` speaks of the calls made; what keeps the next one from
  going back is what a request carries (`TaskOK`): its queue has distinct keys, offered and not
  called for this candidate, and it has called none for the candidates ahead. `NextCandidate`
  chooses the least index with an open key, so `LeastPlace` (well-founded induction on numbers)
  shows that there is one. The refinement has one lemma per action: the set of pairs left grows
  by the current one exactly when the request moves on (`NewPair`).
  `AlwaysHonest`, from which `AlwaysFailsOnlyExhausted`, `AlwaysOutcomeTold` and, with the rows of the
  tables, `TypeCorrect` follow: every open key of a candidate the request is past was called, or an
  answer made it leave; those of the current candidate are called, in the queue, or under way; and
  only the last answer of a request that is over is a good one or a stop. `AlwaysCounters` counts:
  each counter of a key is the number of its attempts of that kind, over all requests, so that one
  more attempt adds one to one set.
* **ConfigFile_proofs.** `TypeCorrect`, `AlwaysDuplicatesOnlyByRace` and, as
  action properties, `AlwaysEditsAreLocal` and `AlwaysKeysSurvive`. The invariant adds what the sessions
  remember: each was shown a file that loads, and the panel of a key holds the key it was shown at
  its number. `StepKinds` sorts the steps: one reads, or it writes, and a write that overtakes nobody
  is `Harmless`: it changes one section, makes no id twice, and takes no key but its own. All
  that is then known of lists is what `Selected`, an insertion and a removal leave (`PicksOut`).
* **CodeAssistCredentials_proofs.** `HandsInv`, from which `TypeCorrect`, `SignInAlwaysKept`,
  `AlwaysOneLogin` and `TornAlwaysByWriters` follow. The file is kept by what the processes hold
  (`Holds`): who loaded since the last sign-in holds its login, and a sign-in under way will write
  a later one (`SignInAhead`).
* **Inventory_proofs.** `Safe`, from which `TypeCorrect`, `MemoryAlwaysFollowsReload` and
  `AlwaysAccountsForAll` follow, and `AlwaysWakesAtAnchor`. `AccountsForAll` is about snapshots that
  are ready; what makes them so is kept by a refresh under way (`Underway`): an enabled provider it
  does not report is the one it waits for, or comes after it. `MemoryFollowsReload` needs that
  nobody publishes another snapshot while a reload's is written (`ReloadOK`). The scheduler's sleep
  is a matter of nested remainders: `AgeIfDivides` makes one of two, and `Due` says what is left of
  the sleep at every hour.
* **Inventory_proofs**, the planner. `AlwaysStrictlyFree`, `AlwaysFreeFirst`, `AlwaysOnlyKeyed`,
  `AlwaysToolsHonoured` and `AlwaysGeneralIsComplete`, for catalogues, overrides and lists of any
  length. The invariant is short (`PlannerInv`): the snapshot was discovered under one of the
  configurations, and a plan is that of the loaded configuration, the snapshot and the request. The
  work is in what these operators return, bottom up: an order of finitely many things has a first and
  a last, so that `Arranged` lists each once (`ArrangedInOrder`); from it what `Kept`, `Concat`, `Ranked`
  and `Dedupe` contain and what leads in them (`Leads`); what overrides leave of a model
  and of its scores, however many there are (`DescribedName`, `ClassifiedScores`); what a
  snapshot is (`SnapshotOK`), what each of its aliases offers (`AliasOffers`), and what a plan is
  a part of (`PlanCases`). `GeneralIsComplete` rests on the 20 points every text model has in general
  and that an override never takes a score away; `FreeFirst` on a list led by the free ones
  being led by them in every part, in a join it begins, and without its repetitions.

Where a sequence is picked from another by a recursive function (`Unquarantined`, `Selected`), what it
holds is shown by the least place at which it would not: a well-founded argument on numbers
that needs no induction theorem with an operator as its parameter.

Only model-checked: the liveness properties `BlockedIsReprobed`, `EveryRequestEnds` and
`SchedulerLives` (fairness and ENABLED are beyond the prover). All invariants and action
properties of the runs that hold are theorems.

## 6. Not modelled

* Database errors: every statement succeeds. (An error after a good answer makes
  the engine record a failure and call again; listed as a hazard.)
* Of the configuration, the types of its fields and the environment's settings. Of the operator commands,
  those that install, update, uninstall, serve and report: sequences of calls of other programs,
  prompts and output, with no state the gateway reads. `providers/metadata.py`, which fetches catalogues: a
  catalogue is the constant `Catalogs`.
* Of the adapters, the translation of messages, tools and usage between formats, and Azure's addressing;
  what a load of the credentials fails with is one of the outcomes of `Refused`.
* HTTP API (but for the reload), middleware and observability: translation, logging and reports without
  state of their own.
* `health_checks`, `request_attempts` and the timestamps and latencies of the other tables: append-only, read
  by reports.

## 7. Where to go on

1. A fault model of SQLite: a statement that fails or finds the database locked, in the engine and in
   `record_failure`.
2. The composition of `AliasPlanner` and `RoutingEngine` on one small catalogue, so that `Plans` is computed.
3. The order of a plan within a category: that the sorts put the best candidate first is what
   `Ranked` is defined to do and what `MCAliasPlanner` runs through, but no property states it.
