----------------------------- MODULE KeyRegistry -----------------------------
(***************************************************************************)
(* The key registry: the runtime state of every provider key, shared        *)
(* through SQLite by                                                         *)
(*                                                                           *)
(*   - the gateway, one asyncio event loop: its handlers interleave only     *)
(*     where they await, so the three statements of record_failure run       *)
(*     without another gateway handler in between;                           *)
(*   - the "sor" commands, operating-system processes of their own whose     *)
(*     statements may fall between any two statements of the gateway.        *)
(*                                                                           *)
(* Requests are seen from here as the calls they make: the registry does     *)
(* not know which request a success or a failure belongs to, and a request   *)
(* in flight may report on a key that has been blocked, reset or switched    *)
(* off since it was picked.  RoutingEngine models the requests themselves.   *)
(***************************************************************************)
EXTENDS KeyRow

CONSTANTS
  Keys,          \* the configured keys (placeholders without a secret are not)
  Failures,      \* the error classes requests may fail with
  Reports,       \* the health reports providers may give
  MaxTime,       \* bound on the clock
  MaxErrors      \* bound on consecutive_errors

ASSUME RegistryAssumption ==
  /\ NULL \notin Keys
  /\ Failures \subseteq ErrorClass
  /\ Reports \subseteq ProbeReport
  /\ MaxTime \in Nat
  /\ MaxErrors \in Nat

VARIABLES
  yaml,      \* the active flag of each key in config.yaml
  cfg,       \* the active flag of each key in the configuration the gateway runs
  row,       \* the table key_runtime_state
  now,       \* the clock
  pc,        \* where the gateway is in record_failure
  failing,   \* the key record_failure is about, when pc # "idle"
  probes,    \* health checks under way, <<process, key>>
  writer,    \* history: the last statement that wrote the key's error columns
  raced,     \* history: keys another process cleared while Block was still to come
  disabled   \* history: keys an operator disabled and nobody enabled since

history == <<writer, raced, disabled>>
vars == <<yaml, cfg, row, now, pc, failing, probes, writer, raced, disabled>>

Process == {"gateway", "operator"}

TypeOK ==
  /\ yaml \in [Keys -> BOOLEAN]
  /\ cfg \in [Keys -> BOOLEAN]
  /\ row \in [Keys -> Row]
  /\ now \in Nat
  /\ pc \in {"idle", "counted", "exceeded"}
  /\ failing \in Keys \cup {NULL}
  /\ (failing = NULL) <=> (pc = "idle")
  /\ probes \subseteq Process \X Keys
  /\ writer \in [Keys -> {"new", "success", "failure", "block", "probe", "reset", "crash"}]
  /\ raced \subseteq Keys
  /\ disabled \subseteq Keys

(* The gateway has started: its container has created a row for every key.    *)
Init ==
  /\ yaml \in [Keys -> BOOLEAN]
  /\ cfg = yaml
  /\ row = [k \in Keys |-> NewRow(yaml[k])]
  /\ now = 0
  /\ pc = "idle"
  /\ failing = NULL
  /\ probes = {}
  /\ writer = [k \in Keys |-> "new"]
  /\ raced = {}
  /\ disabled = {}

-----------------------------------------------------------------------------
(* The gateway.  A handler runs only while no other is inside record_failure. *)

RecordSuccess(k) ==
  /\ pc = "idle"
  /\ row' = [row EXCEPT ![k] = Succeeded(@)]
  /\ writer' = [writer EXCEPT ![k] = "success"]
  /\ raced' = raced \ {k}
  /\ UNCHANGED <<yaml, cfg, now, pc, failing, probes, disabled>>

(* record_failure, its three statements: count the failure, read the row      *)
(* back, and block the key if the count it read has reached the limit.        *)
CountFailure(k) ==
  /\ pc = "idle"
  /\ row[k].errs < MaxErrors
  /\ \E class \in Failures : row' = [row EXCEPT ![k] = Failed(@, class, now)]
  /\ pc' = "counted"
  /\ failing' = k
  /\ writer' = [writer EXCEPT ![k] = "failure"]
  /\ UNCHANGED <<yaml, cfg, now, probes, raced, disabled>>

ReadBack_KeepsKey ==
  /\ pc = "counted"
  /\ pc' = IF AtThreshold(row[failing]) THEN "exceeded" ELSE "idle"
  /\ UNCHANGED <<yaml, cfg, row, now, failing, probes, history>>

ReadBack ==
  /\ pc = "counted"
  /\ IF AtThreshold(row[failing])
     THEN /\ pc' = "exceeded"
          /\ UNCHANGED failing
     ELSE /\ pc' = "idle"
          /\ failing' = NULL
  /\ UNCHANGED <<yaml, cfg, row, now, probes, history>>

Block ==
  /\ pc = "exceeded"
  /\ row' = [row EXCEPT ![failing] = Blocked(@)]
  /\ writer' = [writer EXCEPT ![failing] = "block"]
  /\ pc' = "idle"
  /\ failing' = NULL
  /\ UNCHANGED <<yaml, cfg, now, probes, raced, disabled>>

(* reload-config: swap the configuration, then sync_defaults, with no await   *)
(* in between.                                                                *)
SyncDefaults(active) ==
  row' = [k \in Keys |-> Synced(row[k], active[k])]

Reload ==
  /\ pc = "idle"
  /\ cfg' = yaml
  /\ SyncDefaults(yaml)
  /\ UNCHANGED <<yaml, now, pc, failing, probes, history>>

(* The gateway process dies, at any statement, and is started again: what it  *)
(* was doing is lost, the table stays.                                        *)
Restart ==
  /\ pc' = "idle"
  /\ failing' = NULL
  /\ probes' = {p \in probes : p[1] # "gateway"}
  /\ cfg' = yaml
  /\ SyncDefaults(yaml)
  /\ writer' = IF pc = "idle" THEN writer ELSE [writer EXCEPT ![failing] = "crash"]
  /\ UNCHANGED <<yaml, now, raced, disabled>>

-----------------------------------------------------------------------------
(* Health checks, of the gateway's scheduler and admin endpoint and of the    *)
(* command "sor keys validate".  The provider answers while the check awaits; *)
(* the report is written over whatever the row has become meanwhile.          *)

MayStep(p) == p = "gateway" => pc = "idle"

(* Another process than the one inside record_failure rewrites the error      *)
(* columns of key k.                                                          *)
Rewritten(k, by) ==
  /\ writer' = [writer EXCEPT ![k] = by]
  /\ raced' = IF pc = "exceeded" /\ failing = k THEN raced \cup {k} ELSE raced \ {k}

StartProbe_SkipsBlocked(p, k) ==
  /\ MayStep(p)
  /\ <<p, k>> \notin probes
  /\ row[k].status # "blocked"
  /\ probes' = probes \cup {<<p, k>>}
  /\ IF p = "operator" THEN SyncDefaults(yaml) ELSE UNCHANGED row
  /\ UNCHANGED <<yaml, cfg, now, pc, failing, history>>

StartProbe(p, k) ==
  /\ MayStep(p)
  /\ <<p, k>> \notin probes
  /\ probes' = probes \cup {<<p, k>>}
  /\ IF p = "operator" THEN SyncDefaults(yaml) ELSE UNCHANGED row
  /\ UNCHANGED <<yaml, cfg, now, pc, failing, history>>

(* The command builds one more container when the check is done, to refresh   *)
(* the inventory.                                                             *)
FinishProbe(p, k) ==
  /\ MayStep(p)
  /\ <<p, k>> \in probes
  /\ probes' = probes \ {<<p, k>>}
  /\ \E r \in Reports :
       LET reported == [row EXCEPT ![k] = Probed(@, r.status, r.code)]
       IN  row' = IF p = "operator" THEN [j \in Keys |-> Synced(reported[j], yaml[j])]
                                    ELSE reported
  /\ Rewritten(k, "probe")
  /\ UNCHANGED <<yaml, cfg, now, pc, failing, disabled>>

-----------------------------------------------------------------------------
(* The operator.  Every command builds a container, or a registry, of its own *)
(* first, and that runs sync_defaults on the file as it stands.               *)

RunCommand ==
  /\ SyncDefaults(yaml)
  /\ UNCHANGED <<yaml, cfg, now, pc, failing, probes, history>>

(* "sor keys enable" and "sor keys disable" *)
SetActive(k, active) ==
  /\ row' = [j \in Keys |-> Synced(row[j], IF j = k THEN active ELSE yaml[j])]
  /\ disabled' = IF active THEN disabled \ {k} ELSE disabled \cup {k}
  /\ UNCHANGED <<yaml, cfg, now, pc, failing, probes, writer, raced>>

(* The panel of a key writes the negation of the switch it has shown, whatever *)
(* the file says by now, or switches the key on with a new value.  It edits    *)
(* the file and nothing else.                                                 *)
ToggleActive(k, active) ==
  /\ yaml' = [yaml EXCEPT ![k] = active]
  /\ disabled' = IF active THEN disabled \ {k} ELSE disabled
  /\ UNCHANGED <<cfg, row, now, pc, failing, probes, writer, raced>>

(* The panel's "Reset runtime state", with the switch it has shown. *)
ResetState(k, active) ==
  /\ row' = [j \in Keys |-> IF j = k THEN NewRow(active) ELSE Synced(row[j], yaml[j])]
  /\ Rewritten(k, "reset")
  /\ disabled' = disabled \ {k}
  /\ UNCHANGED <<yaml, cfg, now, pc, failing, probes>>

-----------------------------------------------------------------------------
Tick ==
  /\ now < MaxTime
  /\ now' = now + 1
  /\ UNCHANGED <<yaml, cfg, row, pc, failing, probes, history>>

Next ==
  \/ \E k \in Keys : RecordSuccess(k) \/ CountFailure(k)
  \/ ReadBack
  \/ Block
  \/ Reload
  \/ Restart
  \/ \E p \in Process, k \in Keys : StartProbe(p, k) \/ FinishProbe(p, k)
  \/ RunCommand
  \/ \E k \in Keys, active \in BOOLEAN :
       SetActive(k, active) \/ ToggleActive(k, active) \/ ResetState(k, active)
  \/ Tick

Spec == Init /\ [][Next]_vars

(* The event loop runs what is ready, the health scheduler starts over after  *)
(* every round whatever the round raised, and every check ends because it is  *)
(* awaited with a timeout.  A check is disabled while record_failure runs and *)
(* enabled again after it, hence the strong fairness.                         *)
Fairness ==
  /\ WF_vars(ReadBack)
  /\ WF_vars(Block)
  /\ \A k \in Keys : /\ SF_vars(StartProbe("gateway", k))
                     /\ SF_vars(FinishProbe("gateway", k))

FairSpec == Spec /\ Fairness

-----------------------------------------------------------------------------
(* The column the router waits on and the count it is derived from agree,     *)
(* whichever statements of the two processes interleave: a key has a cooldown *)
(* exactly as long as its last recorded events are failures.                  *)
ErrorsHaveCooldown ==
  \A k \in Keys : row[k].errs > 0 <=> row[k].cooldown # NULL

(* record_failure never returns with the limit reached and the key open:      *)
(* while the last word on a key is a failure, and no call is still deciding   *)
(* on it, its count is below the limit -- unless the gateway died half-way.   *)
ThresholdEnforced ==
  \A k \in Keys :
    writer[k] = "failure" /\ failing # k => row[k].errs < MaxConsecutiveErrors

(* A key is blocked only for errors it still has, whatever in-flight answers, *)
(* checks and commands arrive in which order.  The one exception is the race  *)
(* between two processes that "raced" remembers: the operator's reset or good *)
(* check falls between the read and the write of record_failure.              *)
BlockedHasErrors ==
  \A k \in Keys \ raced :
    row[k].status = "blocked" => row[k].errs >= MaxConsecutiveErrors

(* A key the operator disabled stays off until the operator turns it on.      *)
DisabledStaysOff ==
  \A k \in disabled : ~ row[k].active

(* A blocked key gets no requests that could clear it: the periodic health    *)
(* check is what brings it back, sooner or later.                             *)
BlockedIsReprobed ==
  \A k \in Keys : row[k].status = "blocked" ~> row[k].status # "blocked"
=============================================================================
