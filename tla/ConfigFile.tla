------------------------------- MODULE ConfigFile -------------------------------
(***************************************************************************)
(* config.yaml, the operators who edit it and the gateway that reads it.      *)
(* Every command and every panel of sor loads the file, changes the copy and  *)
(* writes the whole of it back, in place and without a lock.  What may come   *)
(* in between is the operator: a panel loads, shows a menu and asks, and what *)
(* is written in the end is decided by what it asked about.                   *)
(*                                                                           *)
(* Between two prompts a session runs without interruption here.  Open is the *)
(* load before the prompts, the actions named for what they save are what     *)
(* follows the last prompt.  A command without prompts is one action.         *)
(***************************************************************************)
EXTENDS Integers, Sequences, FiniteSets, SequencesExt, FiniteSetsExt

CONSTANTS
  Operators,   \* the sessions of sor: panels and commands
  Providers,   \* the providers of the file, in its order
  Ids,         \* key ids
  Items,       \* what lists hold: patterns, overrides, candidates
  Settings,    \* the single settings
  Values,      \* their values
  Refused,     \* the values of each setting the validators refuse
  Example,     \* the settings of config.example.yaml
  BadItem,     \* an override with a modality that does not exist
  DefaultPatterns, \* the capability patterns of a new configuration
  First,       \* the file at the start
  MaxSaves,    \* bound on the writes
  MaxLen,      \* bound on the length of lists
  NULL

(* A key's value: a variable of the environment that is set, a placeholder or  *)
(* a variable that is not, "local" for an endpoint without one, or a secret.  *)
KeyValue == {"variable", "unset", "local", "secret"}

ProviderNames == ToSet(Providers)

Key == [id : Ids, value : KeyValue, rest : {0, 1}]

Lists == {"patterns", "overrides", "chain", "quarantine"}

(* The file.  A provider is open if it has auth_required: false.  The chain is *)
(* NULL when its alias does not exist, and a setting when the file does not    *)
(* have it.                                                                   *)
File ==
  [keys     : [ProviderNames -> Seq(Key)],
   open     : [ProviderNames -> BOOLEAN],
   lists    : {l \in [Lists -> Seq(Items \cup {BadItem}) \cup {NULL}] :
                 \A x \in Lists \ {"chain"} : l[x] \in Seq(Items \cup {BadItem})},
   settings : [Settings -> Values \cup {NULL}]]

ASSUME ConfigAssumption ==
  /\ Providers \in Seq(ProviderNames)
  /\ Refused \in [Settings -> SUBSET Values]
  /\ Example \in [Settings -> Values]
  /\ \A x \in Settings : Example[x] \notin Refused[x]
  /\ DefaultPatterns \in Seq(Items)
  /\ First \in File
  /\ MaxSaves \in Nat /\ MaxLen \in Nat
  /\ NULL \notin Values /\ NULL \notin ProviderNames \cup Lists \cup Settings
  /\ BadItem \notin Items

VARIABLES
  disk,       \* config.yaml
  loaded,     \* the configuration of the gateway, NULL when it is down
  session,    \* what each operator is asked about
  saves,      \* the writes so far
  aimed,      \* the key ids the last write was to change
  overtaken   \* whether a write ever followed another its session had not seen

vars == <<disk, loaded, session, saves, aimed, overtaken>>

(* The kinds of sessions, by what they load and what of it they write.         *)
WholeCopy == {"local", "account", "overrides", "chain", "newalias"}

FreshCopy == {"setting", "patterns", "quarantine", "unalias", "key"}

Session ==
  [kind  : WholeCopy \cup FreshCopy,
   at    : ProviderNames \cup Settings \cup Lists,
   seen  : File,            \* the file as it was loaded
   index : Nat,             \* the number of the selected key, 0 if none
   key   : Key \cup {NULL}] \* the selected key, with the changes made to it

TypeOK ==
  /\ disk \in File
  /\ loaded \in File \cup {NULL}
  /\ session \in [Operators -> Session \cup {NULL}]
  /\ saves \in 0 .. MaxSaves
  /\ aimed \subseteq Ids
  /\ overtaken \in BOOLEAN

-----------------------------------------------------------------------------
(* Loading *)

Expand(k) == IF k.value = "variable" THEN [k EXCEPT !.value = "secret"] ELSE k

(* load_raw_gateway_config: variables are replaced by their values and what    *)
(* the file lacks is taken from the example.  (That goes for providers too:    *)
(* the files here have those of the example from the start, and no command    *)
(* takes a provider out.)                                                     *)
Load(file) ==
  [file EXCEPT
     !.keys = [p \in ProviderNames |-> [i \in DOMAIN file.keys[p] |-> Expand(file.keys[p][i])]],
     !.settings = [x \in Settings |-> IF file.settings[x] = NULL THEN Example[x]
                                                                 ELSE file.settings[x]]]

KeysOf(file) == UNION {{p} \X DOMAIN file.keys[p] : p \in ProviderNames}

IdAt(file, at) == file.keys[at[1]][at[2]].id

(* The validators of GatewayConfig. *)
Accepts(file) ==
  /\ \A a, b \in KeysOf(file) : a # b => IdAt(file, a) # IdAt(file, b)
  /\ \A x \in Settings : file.settings[x] \notin Refused[x]
  /\ BadItem \notin ToSet(file.lists["overrides"])

(* The gateway has started with the file there is at the start.                *)
ASSUME FirstAccepted == Accepts(Load(First))

(* load_gateway_config raises unless the file is accepted. *)
Valid == Accepts(Load(disk))

Configured(k) == k.value # "unset"

(* The providers with a key of an id.  _configured_key_ids_by_provider knows    *)
(* the last of them.                                                          *)
Owners(file, id) == {p \in ProviderNames : \E i \in DOMAIN file.keys[p] : file.keys[p][i].id = id}

LastOwner(file, id) ==
  LET owners == {n \in DOMAIN Providers : Providers[n] \in Owners(file, id)}
  IN  IF owners = {} THEN NULL ELSE Providers[Max(owners)]

-----------------------------------------------------------------------------
(* Writing *)

(* The part of the file a session is about. *)
Part(file, kind, at) ==
  CASE kind \in {"local", "key"} -> <<file.keys[at], file.open[at]>>
    [] kind \in {"setting", "account"} -> file.settings[at]
    [] OTHER -> file.lists[at]

(* _save_yaml *)
Save(file, ids) ==
  /\ saves < MaxSaves
  /\ disk' = file
  /\ saves' = saves + 1
  /\ aimed' = ids

(* What a session with prompts writes may not be what it would be now.         *)
Notice(s) ==
  LET t == session[s]
      stale == IF t.kind \in WholeCopy THEN Load(disk) # t.seen
               ELSE Part(Load(disk), t.kind, t.at) # Part(t.seen, t.kind, t.at)
  IN  overtaken' = (overtaken \/ stale)

Close(s) == session' = [session EXCEPT ![s] = NULL]

(* A new key, as keys_add and the sign-in make it. *)
NewKey_Unfilled(id) == [id |-> id, value |-> NULL, rest |-> 0]

NewKey(id) == [id |-> id, value |-> "secret", rest |-> 0]

Init ==
  /\ disk = First /\ loaded = Load(First)
  /\ session = [s \in Operators |-> NULL]
  /\ saves = 0 /\ aimed = {} /\ overtaken = FALSE

-----------------------------------------------------------------------------
(* Commands, and panels that ask before they load *)

Command(s) ==
  /\ session[s] = NULL
  /\ UNCHANGED <<loaded, session, overtaken>>

(* keys_add: an id that any provider has is refused. *)
KeysAdd_ChecksProvider(s, p, id) ==
  /\ Command(s)
  /\ p \notin Owners(disk, id)
  /\ Len(disk.keys[p]) < MaxLen
  /\ Save([Load(disk) EXCEPT !.keys[p] = Append(@, NewKey(id))], {id})

KeysAdd(s, p, id) ==
  /\ Command(s)
  /\ Owners(disk, id) = {}
  /\ Len(disk.keys[p]) < MaxLen
  /\ Save([Load(disk) EXCEPT !.keys[p] = Append(@, NewKey(id))], {id})

(* What a comprehension with a condition keeps of a list: the elements at some *)
(* of its places, in order.                                                   *)
Selected(list, places) ==
  LET kept[n \in 0 .. Len(list)] ==
        IF n = 0 THEN <<>>
        ELSE IF n \in places THEN Append(kept[n - 1], list[n]) ELSE kept[n - 1]
  IN  kept[Len(list)]

(* keys_remove: wherever the id is. *)
KeysRemove(s, id) ==
  LET keys == Load(disk).keys
  IN  /\ Command(s)
      /\ Owners(disk, id) # {}
      /\ Save([Load(disk) EXCEPT !.keys =
                 [p \in ProviderNames |->
                    Selected(keys[p], {i \in DOMAIN keys[p] : keys[p][i].id # id})]], {id})

(* _remove_unconfigured_provider_keys *)
CleanUnconfigured(s) ==
  LET unset == {at \in KeysOf(disk) : ~ Configured(disk.keys[at[1]][at[2]])}
      keys == Load(disk).keys
  IN  /\ Command(s)
      /\ unset # {}
      /\ Save([Load(disk) EXCEPT !.keys =
                 [p \in ProviderNames |->
                    Selected(keys[p], {i \in DOMAIN keys[p] : Configured(keys[p][i])})]],
              {IdAt(disk, at) : at \in unset})

(* _configure_google_code_assist_provider: the key of that id is replaced, or  *)
(* a new one appended unless another provider has the id.  The file is loaded  *)
(* afresh after the sign-in; that it was accepted before says nothing of it.   *)
Connect(s, p, id) ==
  LET same == {i \in DOMAIN disk.keys[p] : disk.keys[p][i].id = id}
  IN  /\ Command(s)
      /\ \/ /\ same # {}
            /\ Save([Load(disk) EXCEPT !.keys[p][Min(same)] = NewKey(id)], {id})
         \/ /\ Owners(disk, id) = {}
            /\ Len(disk.keys[p]) < MaxLen
            /\ Save([Load(disk) EXCEPT !.keys[p] = Append(@, NewKey(id))], {id})

Without(list, item) == Selected(list, {i \in DOMAIN list : list[i] # item})

(* routes_set_priority: the candidate goes to a position of the chain.         *)
SetPriority(s, item, position) ==
  LET rest == Without(disk.lists["chain"], item)
      index == IF position > Len(rest) + 1 THEN Len(rest) + 1 ELSE position
  IN  /\ Command(s)
      /\ disk.lists["chain"] # NULL
      /\ Len(rest) < MaxLen
      /\ Save([Load(disk) EXCEPT !.lists["chain"] = InsertAt(rest, index, item)], {})

(* The quarantine panel asks first, then loads, appends and saves. *)
AddQuarantine(s, item) ==
  /\ Command(s)
  /\ Len(disk.lists["quarantine"]) < MaxLen
  /\ Save([Load(disk) EXCEPT !.lists["quarantine"] = Append(@, item)], {})

(* "Reset capability patterns to defaults" looks at nothing before it writes.  *)
ResetPatterns(s) ==
  /\ Command(s)
  /\ Save([Load(disk) EXCEPT !.lists["patterns"] = DefaultPatterns], {})

-----------------------------------------------------------------------------
(* Sessions: the load *)

(* The panels that read the configuration for their menu, and so open only on  *)
(* a file that the validators accept.                                         *)
NeedsValid == {"setting", "patterns", "quarantine", "unalias", "key"}

Open(s, kind, at, index) ==
  LET seen == Load(disk)
      selected == IF kind = "key" THEN seen.keys[at][index] ELSE NULL
  IN  /\ session[s] = NULL
      /\ saves < MaxSaves
      /\ kind \in NeedsValid => Valid
      /\ session' = [session EXCEPT ![s] =
                       [kind |-> kind, at |-> at, seen |-> seen, index |-> index, key |-> selected]]
      /\ UNCHANGED <<disk, loaded, saves, aimed, overtaken>>

(* _has_user_configured_keys *)
HasOwnKeys(file, p) ==
  \E i \in DOMAIN file.keys[p] :
    Configured(file.keys[p][i]) /\ (file.open[p] => file.keys[p][i].value # "local")

OpenLocal(s, p) == Load(disk).open[p] /\ Open(s, "local", p, 0)

OpenKey(s, p, i) ==
  /\ HasOwnKeys(Load(disk), p) /\ i \in DOMAIN disk.keys[p]
  /\ Open(s, "key", p, i)

OpenSetting(s, x) == Open(s, "setting", x, 0) \/ Open(s, "account", x, 0)

OpenList(s, list) ==
  \/ list \in {"patterns", "overrides", "chain", "quarantine"} /\ Open(s, list, list, 0)
  \/ list = "chain" /\ disk.lists[list] = NULL /\ Open(s, "newalias", list, 0)
  \/ list = "chain" /\ disk.lists[list] # NULL /\ Open(s, "unalias", list, 0)

(* The operator backs out, or a prompt is answered with something refused.     *)
Cancel(s) ==
  /\ session[s] # NULL
  /\ Close(s)
  /\ UNCHANGED <<disk, loaded, saves, aimed, overtaken>>

-----------------------------------------------------------------------------
(* Sessions: what follows the prompts *)

Answers(s, kind) ==
  /\ session[s] # NULL /\ session[s].kind = kind
  /\ Notice(s)
  /\ UNCHANGED loaded

(* _update_config_value: a fresh load, and nothing looks at the value. *)
SaveSetting(s, value) ==
  /\ Answers(s, "setting")
  /\ Save([Load(disk) EXCEPT !.settings[session[s].at] = value], {})
  /\ Close(s)

(* The account id of cloudflare goes into the copy loaded before the prompt. *)
SaveAccount(s, value) ==
  /\ Answers(s, "account")
  /\ value \notin Refused[session[s].at]
  /\ Save([session[s].seen EXCEPT !.settings[session[s].at] = value], {})
  /\ Close(s)

Added(list, items) == {Append(list, x) : x \in items \ ToSet(list)}

Removed(list) == {RemoveAt(list, i) : i \in DOMAIN list}

Entries(list) == IF list = NULL THEN <<>> ELSE list

Inserted(list) ==
  {InsertAt(list, i, x) : i \in 1 .. Len(list) + 1, x \in Items}

Moved(list) ==
  {InsertAt(RemoveAt(list, i), j, list[i]) : i \in DOMAIN list, j \in DOMAIN list}

(* The edited list replaces whatever list the file has by now. *)
SavePatterns(s) ==
  /\ Answers(s, "patterns")
  /\ \E list \in Added(session[s].seen.lists["patterns"], Items)
                 \cup Removed(session[s].seen.lists["patterns"]) :
       /\ Len(list) <= MaxLen
       /\ Save([Load(disk) EXCEPT !.lists["patterns"] = list], {})
  /\ Close(s)

(* The edited list, and all the rest as it was loaded.  Whoever removes an     *)
(* override is shown the list first, which takes a file that is accepted.      *)
SaveOverrides(s) ==
  LET old == session[s].seen.lists["overrides"]
  IN  /\ Answers(s, "overrides")
      /\ \E list \in {Append(old, x) : x \in Items \cup {BadItem}} \cup Removed(old) :
           /\ list \in Removed(old) => Accepts(session[s].seen)
           /\ Len(list) <= MaxLen
           /\ Save([session[s].seen EXCEPT !.lists["overrides"] = list], {})
      /\ Close(s)

SaveChain(s) ==
  LET old == Entries(session[s].seen.lists["chain"])
  IN  /\ Answers(s, "chain")
      /\ \E list \in Inserted(old) \cup Removed(old) \cup Moved(old) :
           /\ Len(list) <= MaxLen
           /\ Save([session[s].seen EXCEPT !.lists["chain"] = list], {})
      /\ Close(s)

CreateAlias(s) ==
  /\ Answers(s, "newalias")
  /\ Save([session[s].seen EXCEPT !.lists["chain"] = <<>>], {})
  /\ Close(s)

RemoveAlias(s) ==
  /\ Answers(s, "unalias")
  /\ Save([Load(disk) EXCEPT !.lists["chain"] = NULL], {})
  /\ Close(s)

(* The number chosen from the list that was shown is taken from the list the   *)
(* file has by now.                                                           *)
RemoveQuarantine(s) ==
  /\ Answers(s, "quarantine")
  /\ \E i \in DOMAIN session[s].seen.lists["quarantine"] :
       /\ i \in DOMAIN disk.lists["quarantine"]
       /\ Save([Load(disk) EXCEPT !.lists["quarantine"] = RemoveAt(@, i)], {})
  /\ Close(s)

(* The keys of an endpoint after _interactive_configure_local_provider: the    *)
(* key of the chosen id and the placeholder make way for one key.  The first   *)
(* placeholder counts.                                                        *)
Reconfigured(keys, new) ==
  LET local == {i \in DOMAIN keys : keys[i].value = "local"}
      gone  == {i \in DOMAIN keys : keys[i].id = new.id} \cup
               (IF local = {} THEN {} ELSE {Min(local)})
  IN  IF gone = {} THEN Append(keys, new)
      ELSE Selected([keys EXCEPT ![Min(gone)] = new],
                    {i \in DOMAIN keys : i \notin gone \/ i = Min(gone)})

SaveLocal(s, id, withKey) ==
  LET t == session[s]
      keys == t.seen.keys[t.at]
      new == [id |-> id, value |-> IF withKey THEN "secret" ELSE "local", rest |-> 0]
  IN  /\ Answers(s, "local")
      /\ LastOwner(t.seen, id) \in {NULL, t.at}
      /\ Len(Reconfigured(keys, new)) <= MaxLen
      /\ Save([t.seen EXCEPT !.keys[t.at] = Reconfigured(keys, new), !.open[t.at] = ~ withKey],
              {id} \cup {keys[i].id : i \in {i \in DOMAIN keys : keys[i].value = "local"}})
      /\ Close(s)

(* _update_provider_key: the remembered record goes to the remembered number. *)
Updated_WholeCopy(t, key) == [t.seen EXCEPT !.keys[t.at][t.index] = key]

Updated(t, key) == [Load(disk) EXCEPT !.keys[t.at][t.index] = key]

InRange(t) == t.index \in DOMAIN disk.keys[t.at]

(* The panel of a key stays open, with the record it wrote.                    *)
Stays(s, key) ==
  session' = [session EXCEPT ![s].key = key, ![s].seen = Load(disk')]

(* Priority, retries, cooldowns, or whether the key is active. *)
EditKey(s) ==
  LET key == [session[s].key EXCEPT !.rest = 1 - @]
  IN  /\ Answers(s, "key")
      /\ InRange(session[s])
      /\ Save(Updated(session[s], key), {key.id})
      /\ Stays(s, key)

ReplaceKey(s) ==
  LET key == [session[s].key EXCEPT !.value = "secret", !.rest = 0]
  IN  /\ Answers(s, "key")
      /\ InRange(session[s])
      /\ Save(Updated(session[s], key), {key.id})
      /\ Stays(s, key)

(* A new id must be free when it is entered, in a file the validators accept.  *)
RenameKey(s, id) ==
  LET t == session[s]
  IN  /\ Answers(s, "key")
      /\ Valid
      /\ id # t.key.id /\ Owners(disk, id) = {}
      /\ InRange(t)
      /\ Save(Updated(t, [t.key EXCEPT !.id = id]), {t.key.id, id})
      /\ Stays(s, [t.key EXCEPT !.id = id])

RemoveKey_NextOne(s) ==
  LET t == session[s]
  IN  /\ Answers(s, "key")
      /\ t.index + 1 \in DOMAIN disk.keys[t.at]
      /\ Save([Load(disk) EXCEPT !.keys[t.at] = RemoveAt(@, t.index + 1)], {t.key.id})
      /\ Close(s)

RemoveKey(s) ==
  LET t == session[s]
  IN  /\ Answers(s, "key")
      /\ InRange(t)
      /\ Save([Load(disk) EXCEPT !.keys[t.at] = RemoveAt(@, t.index)], {t.key.id})
      /\ Close(s)

-----------------------------------------------------------------------------
(* The gateway *)

(* POST /admin/reload-config, for whoever calls it: keys_add, keys_validate,    *)
(* the sign-in and the wizards do after a validation, which takes its time.   *)
(* A file that is refused leaves the configuration as it was.                 *)
ReloadConfig ==
  /\ loaded # NULL
  /\ Valid
  /\ loaded' = Load(disk)
  /\ UNCHANGED <<disk, session, saves, aimed, overtaken>>

StopGateway ==
  /\ loaded # NULL
  /\ loaded' = NULL
  /\ UNCHANGED <<disk, session, saves, aimed, overtaken>>

(* RuntimeConfig.bootstrap: a file that is refused is no gateway. *)
StartGateway ==
  /\ loaded = NULL
  /\ Valid
  /\ loaded' = Load(disk)
  /\ UNCHANGED <<disk, session, saves, aimed, overtaken>>

-----------------------------------------------------------------------------
Next ==
  \/ ReloadConfig \/ StopGateway \/ StartGateway
  \/ \E s \in Operators :
       \/ \E p \in ProviderNames, id \in Ids : KeysAdd(s, p, id) \/ Connect(s, p, id)
       \/ \E id \in Ids : KeysRemove(s, id) \/ RenameKey(s, id)
       \/ CleanUnconfigured(s) \/ ResetPatterns(s)
       \/ \E item \in Items : AddQuarantine(s, item)
       \/ \E item \in Items, position \in 1 .. MaxLen : SetPriority(s, item, position)
       \/ \E p \in ProviderNames : OpenLocal(s, p) \/ \E i \in 1 .. MaxLen : OpenKey(s, p, i)
       \/ \E x \in Settings : OpenSetting(s, x)
       \/ \E list \in Lists : OpenList(s, list)
       \/ \E value \in Values : SaveSetting(s, value) \/ SaveAccount(s, value)
       \/ SavePatterns(s) \/ SaveOverrides(s) \/ SaveChain(s)
       \/ CreateAlias(s) \/ RemoveAlias(s) \/ RemoveQuarantine(s)
       \/ \E id \in Ids, withKey \in BOOLEAN : SaveLocal(s, id, withKey)
       \/ EditKey(s) \/ ReplaceKey(s) \/ RemoveKey(s) \/ Cancel(s)

Spec == Init /\ [][Next]_vars

-----------------------------------------------------------------------------
(* Properties *)

IdsUnique(file) == \A a, b \in KeysOf(file) : a # b => IdAt(file, a) # IdAt(file, b)

(* Two keys get one id only when a session wrote over what another had         *)
(* written since it looked.                                                   *)
DuplicatesOnlyByRace == IdsUnique(disk) \/ overtaken

(* Unless it is overtaken, a write changes one section of the file: what       *)
(* others wrote to the other sections since its session began is kept.        *)
Sections(file) ==
  [x \in {"keys"} \cup Lists \cup Settings |->
     IF x = "keys" THEN <<file.keys, file.open>>
     ELSE IF x \in Lists THEN file.lists[x] ELSE file.settings[x]]

EditsAreLocal ==
  [][~ overtaken' =>
       Cardinality({x \in {"keys"} \cup Lists \cup Settings :
                      Sections(disk')[x] # Sections(Load(disk))[x] /\ disk' # disk}) <= 1]_vars

(* Unless it is overtaken, a write takes no key, and changes no key, but those  *)
(* the operator was asked about.                                              *)
KeysSurvive ==
  [][~ overtaken' =>
       \A p \in ProviderNames :
         {k \in ToSet(Load(disk).keys[p]) : k.id \notin aimed'} \subseteq ToSet(Load(disk').keys[p])]_vars

=============================================================================
