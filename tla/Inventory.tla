------------------------------- MODULE Inventory -------------------------------
(***************************************************************************)
(* The model inventory: the snapshot of the providers' catalogs that every  *)
(* request is planned from.  Three things keep it: the memory of the        *)
(* gateway, a cache file next to the database, and whoever is in the middle  *)
(* of a refresh.  Refreshes are begun by the gateway's start, its scheduler, *)
(* a reload of the configuration, requests that find no snapshot, and the    *)
(* operator's commands, which are processes of their own that share only the *)
(* two files with the gateway.  Nothing keeps two refreshes apart.           *)
(*                                                                           *)
(* A refresh runs without interruption between two awaits, and awaits the    *)
(* catalog of one provider at a time.  A provider stands for its keys.       *)
(*                                                                           *)
(* Time is the hour of the day.  A cached snapshot is compared only with the *)
(* last anchor of the schedule, so it carries whether it was cached since,   *)
(* and the clock takes that away at an anchor.                               *)
(***************************************************************************)
EXTENDS GatewayErrors, Sequences, FiniteSets, SequencesExt, FiniteSetsExt

CONSTANTS
  Configs,        \* the contents config.yaml may have
  Order,          \* the providers by priority
  Enabled,        \* the enabled providers of a configuration that have an adapter
  Fingerprint,    \* what _config_fingerprint makes of a configuration
  Requests,       \* requests in the gateway
  Commands,       \* processes of sor commands
  Day,            \* the hours of a day
  Interval,       \* inventory.refresh_interval_hours
  RefreshHour,    \* inventory.refresh_time
  MaxJobs,        \* bound on the refreshes under way when one more may begin
  Torn            \* a cache file that is not whole

Providers == ToSet(Order)

(* What refreshes the inventory inside the gateway. *)
Tasks == {"boot", "scheduler", "reload"} \cup Requests

Refreshers == Tasks \cup Commands

ASSUME InventoryAssumption ==
  /\ Order \in Seq(Providers) /\ IsInjective(Order)
  /\ Enabled \in [Configs -> (SUBSET Providers) \ {{}}]
  /\ DOMAIN Fingerprint = Configs
  /\ Requests \cap ({"boot", "scheduler", "reload"} \cup Commands) = {}
  /\ Commands \cap {"boot", "scheduler", "reload"} = {}
  /\ Day \in Nat \ {0} /\ Interval \in Nat \ {0}
  /\ RefreshHour \in 0 .. Day - 1
  /\ MaxJobs \in Nat
  /\ NULL \notin Configs
  /\ Torn # NULL

VARIABLES
  hour,       \* the hour of the day
  disk,       \* config.yaml
  gateway,    \* the gateway's process
  loaded,     \* the configuration it works with
  adapters,   \* the providers it has an adapter for
  memory,     \* InventoryCache._snapshot with _cached_at
  file,       \* inventory_cache.json
  sleep,      \* the hours the scheduler still sleeps, NULL before it runs
  reload,     \* how the refresh of the last reload went
  job         \* the refreshes under way

vars == <<hour, disk, gateway, loaded, adapters, memory, file, sleep, reload, job>>

(* A snapshot: the configuration it was made from, the providers that have a  *)
(* key result in it, and what nobody records: whether the gateway reloaded     *)
(* its configuration meanwhile.                                               *)
Snapshot == [cfg : Configs, reported : SUBSET Providers, spanned : BOOLEAN]

Cached == [snap : Snapshot, fresh : BOOLEAN]

Payload == [snap : Snapshot, fresh : BOOLEAN, print : Range(Fingerprint)]

Job == [pc       : {"idle", "listing", "saving"},
        cfg      : Configs \cup {NULL},
        at       : 0 .. Len(Order),        \* the provider whose catalog it awaits
        reported : SUBSET Providers,
        spanned  : BOOLEAN]

TypeOK ==
  /\ hour \in 0 .. Day - 1
  /\ disk \in Configs
  /\ gateway \in {"down", "boot", "up"}
  /\ loaded \in Configs \cup {NULL}
  /\ adapters \subseteq Providers
  /\ memory \in Cached \cup {NULL}
  /\ file \in Payload \cup {NULL, Torn}
  /\ sleep \in 0 .. Interval \cup {NULL}
  /\ reload \in {"done", "running", "failed"}
  /\ job \in [Refreshers -> Job]

NoJob == [pc |-> "idle", cfg |-> NULL, at |-> 0, reported |-> {}, spanned |-> FALSE]

Init ==
  /\ hour \in 0 .. Day - 1
  /\ disk \in Configs
  /\ gateway = "down" /\ loaded = NULL /\ adapters = {}
  /\ memory = NULL /\ file = NULL
  /\ sleep = NULL /\ reload = "done"
  /\ job = [a \in Refreshers |-> NoJob]

-----------------------------------------------------------------------------
(* The schedule *)

(* The hours since the last anchor.  The anchors are counted from the refresh *)
(* time of the day, again every day: the last one before it may be nearer     *)
(* than the interval.                                                         *)
Age(h) == ((h - RefreshHour) % Day) % Interval

(* The scheduler sleeps until an interval after the last anchor. *)
HoursToNext_WholeDay(h) == Day - Age(h)

HoursToNext(h) == Interval - Age(h)

-----------------------------------------------------------------------------
(* The cache *)

Aged(cached) == [cached EXCEPT !.fresh = FALSE]

IsPayload(f) == f \notin {NULL, Torn}

(* load_file: what a process that loaded cfg can use of the cache file. *)
LoadFile_AnyConfig(cfg) ==
  IF IsPayload(file) /\ file.fresh
  THEN [snap |-> file.snap, fresh |-> file.fresh] ELSE NULL

LoadFile(cfg) ==
  IF IsPayload(file) /\ file.print = Fingerprint[cfg] /\ file.fresh
  THEN [snap |-> file.snap, fresh |-> file.fresh] ELSE NULL

(* current_snapshot: memory if it is not stale, whatever configuration it is  *)
(* of; the file otherwise.                                                    *)
Current(cfg) == IF memory # NULL /\ memory.fresh THEN memory ELSE LoadFile(cfg)

-----------------------------------------------------------------------------
(* A refresh *)

Running == {a \in Refreshers : job[a].pc # "idle"}

(* The event loop is free when the gateway is not in the middle of the file.  *)
LoopFree == \A a \in Tasks : job[a].pc # "saving"

(* The places of the providers a refresh of cfg has still to ask after i: an  *)
(* enabled provider without an adapter is passed over without a word.         *)
Ahead(i, cfg, has) ==
  {j \in DOMAIN Order : j > i /\ Order[j] \in Enabled[cfg] /\ Order[j] \in has}

(* The adapters a refresher looks up.  A command builds its own.              *)
AdaptersOf(a) == IF a \in Commands THEN Enabled[job[a].cfg] ELSE adapters

Begun(cfg, has) ==
  [pc |-> "listing", cfg |-> cfg, at |-> Min(Ahead(0, cfg, has)), reported |-> {},
   spanned |-> FALSE]

CanBegin(a) ==
  /\ job[a].pc = "idle"
  /\ a \in Requests \cup Commands => Cardinality(Running) < MaxJobs

SnapshotOf(j, reported) == [cfg |-> j.cfg, reported |-> reported, spanned |-> j.spanned]

(* Once the scheduler's refresh ends, one way or the other, it goes to sleep  *)
(* until an interval after the last anchor.                                   *)
SchedulerSleeps_FromNow == sleep' = Interval

SchedulerSleeps == sleep' = HoursToNext(hour)

(* The catalog awaited has come, or the provider answered with an error of    *)
(* the gateway's own kind: either way there is a key result.  After the last  *)
(* one the snapshot goes to memory, and the file is opened for writing.       *)
Answered(a) ==
  /\ job[a].pc = "listing"
  /\ a \in Tasks => LoopFree
  /\ LET j == job[a]
         reported == j.reported \cup {Order[j.at]}
         ahead == Ahead(j.at, j.cfg, AdaptersOf(a))
     IN  \/ /\ ahead # {}
            /\ job' = [job EXCEPT ![a].at = Min(ahead), ![a].reported = reported]
            /\ UNCHANGED <<memory, file>>
         \/ /\ ahead = {}
            /\ job' = [job EXCEPT ![a].pc = "saving", ![a].reported = reported]
            /\ memory' = IF a \in Tasks
                         THEN [snap |-> SnapshotOf(j, reported), fresh |-> TRUE]
                         ELSE memory
            /\ file' = Torn
  /\ UNCHANGED <<hour, disk, gateway, loaded, adapters, sleep, reload>>

(* What follows the end of a refresh in the gateway. *)
AfterRefresh(a) ==
  CASE a = "boot" -> gateway' = "up" /\ SchedulerSleeps /\ UNCHANGED reload
    [] a = "scheduler" -> SchedulerSleeps /\ UNCHANGED <<gateway, reload>>
    [] a = "reload" -> reload' = "done" /\ UNCHANGED <<gateway, sleep>>
    [] OTHER -> UNCHANGED <<gateway, sleep, reload>>

(* The file is written.  A write that fails is not noticed, and a process     *)
(* that wrote at the same time may have left its bytes: the file may stay in  *)
(* pieces.                                                                    *)
Saved(a) ==
  /\ job[a].pc = "saving"
  /\ \/ file' = [snap |-> SnapshotOf(job[a], job[a].reported), fresh |-> TRUE,
                  print |-> Fingerprint[job[a].cfg]]
     \/ file' = Torn
  /\ job' = [job EXCEPT ![a] = NoJob]
  /\ AfterRefresh(a)
  /\ UNCHANGED <<hour, disk, loaded, adapters, memory>>

(* Any other exception ends the refresh, and with it the request, the reload  *)
(* or the start that wanted it.  The scheduler logs it and carries on.        *)
AfterFailure_SchedulerDies(a) ==
  CASE a = "boot" -> gateway' = "down" /\ loaded' = NULL /\ adapters' = {}
                     /\ memory' = NULL /\ UNCHANGED <<sleep, reload>>
    [] a = "scheduler" -> sleep' = NULL /\ UNCHANGED <<gateway, loaded, adapters, memory, reload>>
    [] a = "reload" -> reload' = "failed" /\ UNCHANGED <<gateway, loaded, adapters, memory, sleep>>
    [] OTHER -> UNCHANGED <<gateway, loaded, adapters, memory, sleep, reload>>

AfterFailure(a) ==
  CASE a = "boot" -> gateway' = "down" /\ loaded' = NULL /\ adapters' = {}
                     /\ memory' = NULL /\ UNCHANGED <<sleep, reload>>
    [] a = "scheduler" -> SchedulerSleeps /\ UNCHANGED <<gateway, loaded, adapters, memory, reload>>
    [] a = "reload" -> reload' = "failed" /\ UNCHANGED <<gateway, loaded, adapters, memory, sleep>>
    [] OTHER -> UNCHANGED <<gateway, loaded, adapters, memory, sleep, reload>>

Broken(a) ==
  /\ job[a].pc = "listing"
  /\ a \in Tasks => LoopFree
  /\ job' = [job EXCEPT ![a] = NoJob]
  /\ AfterFailure(a)
  /\ UNCHANGED <<hour, disk, file>>

-----------------------------------------------------------------------------
(* Who begins one *)

(* The gateway starts: it refreshes before it serves. *)
Start ==
  /\ gateway = "down"
  /\ CanBegin("boot")
  /\ gateway' = "boot" /\ loaded' = disk /\ adapters' = Enabled[disk]
  /\ memory' = NULL /\ sleep' = NULL /\ reload' = "done"
  /\ job' = [job EXCEPT !["boot"] = Begun(disk, Enabled[disk])]
  /\ UNCHANGED <<hour, disk, file>>

SchedulerWakes ==
  /\ gateway = "up" /\ LoopFree
  /\ sleep = 0
  /\ CanBegin("scheduler")
  /\ job' = [job EXCEPT !["scheduler"] = Begun(loaded, adapters)]
  /\ UNCHANGED <<hour, disk, gateway, loaded, adapters, memory, file, sleep, reload>>

(* A request takes the current snapshot, and refreshes if there is none or if *)
(* the alias it names is not in it.                                           *)
RequestPlans(r) ==
  /\ gateway = "up" /\ LoopFree
  /\ CanBegin(r)
  /\ memory' = Current(loaded)
  /\ \/ /\ memory' # NULL
        /\ UNCHANGED job
     \/ job' = [job EXCEPT ![r] = Begun(loaded, adapters)]
  /\ UNCHANGED <<hour, disk, gateway, loaded, adapters, file, sleep, reload>>

(* The gateway reloads config.yaml.  The adapters are rebuilt; the refreshes  *)
(* under way keep their configuration and find the new adapters.              *)
ReloadConfig_KeepsAdapters ==
  /\ gateway = "up" /\ LoopFree
  /\ CanBegin("reload")
  /\ loaded' = disk
  /\ reload' = "running"
  /\ job' = [a \in Refreshers |->
               IF a = "reload"
               THEN Begun(disk, adapters)
               ELSE IF a \in Tasks /\ job[a].pc = "listing"
                    THEN [job[a] EXCEPT !.spanned = TRUE] ELSE job[a]]
  /\ UNCHANGED <<hour, disk, gateway, adapters, memory, file, sleep>>

ReloadConfig ==
  /\ gateway = "up" /\ LoopFree
  /\ CanBegin("reload")
  /\ loaded' = disk /\ adapters' = Enabled[disk]
  /\ reload' = "running"
  /\ job' = [a \in Refreshers |->
               IF a = "reload" THEN Begun(disk, Enabled[disk])
               ELSE IF a \in Tasks /\ job[a].pc = "listing"
                    THEN [job[a] EXCEPT !.spanned = TRUE] ELSE job[a]]
  /\ UNCHANGED <<hour, disk, gateway, memory, file, sleep>>

(* A command loads config.yaml afresh and refreshes the inventory. *)
CommandRefreshes(c) ==
  /\ CanBegin(c)
  /\ job' = [job EXCEPT ![c] = Begun(disk, Enabled[disk])]
  /\ UNCHANGED <<hour, disk, gateway, loaded, adapters, memory, file, sleep, reload>>

-----------------------------------------------------------------------------
(* The surroundings *)

Edit ==
  /\ disk' \in Configs
  /\ UNCHANGED <<hour, gateway, loaded, adapters, memory, file, sleep, reload, job>>

(* The gateway stops or is killed, in the middle of a write too. *)
Stop ==
  /\ gateway # "down"
  /\ gateway' = "down" /\ loaded' = NULL /\ adapters' = {}
  /\ memory' = NULL /\ sleep' = NULL /\ reload' = "done"
  /\ job' = [a \in Refreshers |-> IF a \in Tasks THEN NoJob ELSE job[a]]
  /\ UNCHANGED <<hour, disk, file>>

(* An hour passes. *)
Tick ==
  /\ hour' = (hour + 1) % Day
  /\ sleep' = IF sleep \in {NULL, 0} THEN sleep ELSE sleep - 1
  /\ memory' = IF memory # NULL /\ Age(hour') = 0 THEN Aged(memory) ELSE memory
  /\ file' = IF IsPayload(file) /\ Age(hour') = 0 THEN Aged(file) ELSE file
  /\ UNCHANGED <<disk, gateway, loaded, adapters, reload, job>>

Next ==
  \/ Start \/ SchedulerWakes \/ ReloadConfig
  \/ \E r \in Requests : RequestPlans(r)
  \/ \E c \in Commands : CommandRefreshes(c)
  \/ \E a \in Refreshers : Answered(a) \/ Saved(a) \/ Broken(a)
  \/ Edit \/ Stop \/ Tick

Spec == Init /\ [][Next]_vars

(* Time passes; a provider answers or fails, since its calls have timeouts;   *)
(* and the event loop runs what is due.                                       *)
Fairness ==
  /\ WF_vars(Tick)
  /\ SF_vars(SchedulerWakes)
  /\ SF_vars(Answered("scheduler") \/ Broken("scheduler"))
  /\ \A a \in Tasks : WF_vars(Saved(a))

FairSpec == Spec /\ Fairness

-----------------------------------------------------------------------------
(* Properties *)

(* The snapshot in memory is one of the loaded configuration, or of one with  *)
(* the same fingerprint, whatever file a command left on the disk, unless a   *)
(* reload is fetching a new one or failed to, or the snapshot comes from a    *)
(* refresh that a reload overtook (current_snapshot does not look).           *)
MemoryFollowsReload ==
  gateway = "up" /\ memory # NULL =>
    \/ Fingerprint[memory.snap.cfg] = Fingerprint[loaded]
    \/ reload # "done"
    \/ memory.snap.spanned

(* A refresh no reload overtook has a key result for every enabled provider    *)
(* (one without an adapter is passed over), answered or not: nothing that     *)
(* refreshes meanwhile, in this process or in another, and no error of a      *)
(* provider, takes one out.                                                   *)
AccountsForAll ==
  /\ memory # NULL /\ ~ memory.snap.spanned => memory.snap.reported = Enabled[memory.snap.cfg]
  /\ IsPayload(file) /\ ~ file.snap.spanned => file.snap.reported = Enabled[file.snap.cfg]

(* If the interval divides the day, the sleeping scheduler is to wake at the  *)
(* very next anchor, when the snapshot in memory goes stale.                  *)
WakesAtAnchor ==
  Day % Interval = 0 /\ sleep \notin {NULL, 0} /\ job["scheduler"].pc = "idle" =>
    Age((hour + sleep) % Day) = 0 /\ sleep <= Interval - Age(hour)

(* Whatever its refreshes run into, the scheduler of a running gateway begins *)
(* another one.                                                               *)
SchedulerLives ==
  gateway = "up" ~> (job["scheduler"].pc # "idle" \/ gateway # "up")
=============================================================================
