--------------------------- MODULE Inventory_proofs ---------------------------
(******************************************************************************)
(* Proofs about the inventory and the planner that works on its snapshots,    *)
(* for any providers, configurations, catalogs, requests and commands, and    *)
(* any schedule.                                                              *)
(*                                                                            *)
(* Inventory.  What a snapshot accounts for is decided while it is being      *)
(* made: a refresh no reload overtook has still before it every enabled       *)
(* provider it does not report (Underway).  That the snapshot in memory       *)
(* follows a reload rests on the configuration such a refresh has, and on     *)
(* nobody publishing another one while the reload's is written.  That the     *)
(* scheduler wakes at the next anchor is arithmetic, and holds apart.         *)
(*                                                                            *)
(* AliasPlanner.  A list is known by the places it takes its elements from    *)
(* and by their order (Arranged, Kept, Concat, Ranked), so that what it       *)
(* contains and what comes first in it follow without induction over lists.   *)
(* From these: what each alias of a snapshot offers (AliasOffers), what a     *)
(* plan is a part of, and the properties of plans.  Their invariant is that a *)
(* plan is the one of a snapshot and a configuration there were (PlannerInv). *)
(******************************************************************************)
EXTENDS Inventory, AliasPlanner, FiniteSetTheorems, FunctionTheorems, SequenceTheorems,
        WellFoundedInduction, TLAPS

SameConfig(cached) ==
  Fingerprint[cached.snap.cfg] = Fingerprint[loaded] \/ cached.snap.spanned

(* A refresh that no reload overtook.                                         *)
Underway(j) ==
  /\ j.reported \subseteq Enabled[j.cfg]
  /\ j.pc = "listing" =>
       /\ Order[j.at] \in Enabled[j.cfg]
       /\ \A i \in DOMAIN Order :
            Order[i] \in Enabled[j.cfg] /\ Order[i] \notin j.reported => i >= j.at
  /\ j.pc = "saving" => j.reported = Enabled[j.cfg]

JobOK(a) ==
  job[a].pc # "idle" =>
    /\ job[a].cfg \in Configs
    /\ job[a].pc = "listing" => job[a].at \in DOMAIN Order
    /\ a \in Tasks => gateway # "down" /\ (job[a].cfg = loaded \/ job[a].spanned)
    /\ ~ job[a].spanned => Underway(job[a])

GatewayOK ==
  /\ gateway # "down" => loaded \in Configs /\ adapters = Enabled[loaded]
  /\ gateway = "boot" => \A a \in Tasks \ {"boot"} : job[a].pc = "idle"
  /\ gateway = "up" => job["boot"].pc = "idle"

ReloadOK ==
  /\ reload = "running" <=> job["reload"].pc # "idle"
  /\ ~ job["reload"].spanned
  /\ job["reload"].pc = "saving" /\ memory # NULL => SameConfig(memory)

MemoryOK ==
  gateway # "down" /\ memory # NULL /\ reload = "done" => SameConfig(memory)

FileOK ==
  IsPayload(file) => file.print = Fingerprint[file.snap.cfg]

Inv ==
  /\ TypeOK
  /\ \A a \in Refreshers : JobOK(a)
  /\ GatewayOK
  /\ ReloadOK
  /\ MemoryOK
  /\ FileOK
  /\ AccountsForAll

-----------------------------------------------------------------------------
(* The schedule and the order *)

(* A remainder is less than what one divides by.                              *)
LEMMA Remainder ==
  ASSUME NEW x \in Int, NEW b \in Nat \ {0}
  PROVE  x % b \in 0 .. b - 1
OBVIOUS

(* The last anchor is less than an interval ago.                              *)
LEMMA AgeInInterval ==
  ASSUME NEW h \in Int
  PROVE  Age(h) \in 0 .. Interval - 1
<1>1. h - RefreshHour \in Int /\ Day \in Nat \ {0} /\ Interval \in Nat \ {0}
  BY InventoryAssumption
<1>2. (h - RefreshHour) % Day \in Int
  BY <1>1, Remainder
<1> QED
  BY <1>1, <1>2, Remainder DEF Age

(* Division with remainder; the remainder is unique, and the same for numbers *)
(* that are a multiple of the divisor apart.                                  *)
LEMMA Division ==
  ASSUME NEW x \in Int, NEW b \in Nat \ {0}
  PROVE \E q \in Int : x = b * q + (x % b)
<1>1. x \div b \in Int /\ x = b * (x \div b) + (x % b)
  OBVIOUS
<1> QED
  BY <1>1

(* A number has one remainder only.                                           *)
LEMMA OneRemainder ==
  ASSUME NEW b \in Nat \ {0}, NEW p \in Int, NEW q \in Int, NEW r \in 0 .. b - 1,
         NEW s \in 0 .. b - 1, b * q + r = b * p + s
  PROVE r = s
<1>1. b * (q - p) = s - r
  <2>1. b * (q - p) = b * q - b * p
    OBVIOUS
  <2> QED
    BY <2>1
<1>2. CASE q - p >= 1
  <2>1. b * (q - p) >= b
    BY <1>2
  <2> QED
    BY <2>1, <1>1
<1>3. CASE q - p <= -1
  <2>1. b * (q - p) <= - b
    BY <1>3
  <2> QED
    BY <2>1, <1>1
<1>4. CASE q - p = 0
  <2>1. b * (q - p) = 0
    BY <1>4
  <2> QED
    BY <2>1, <1>1
<1> QED
  BY <1>2, <1>3, <1>4

(* x and y differ by a multiple of b.                                        *)
MultipleApart(x, y, b) == \E q \in Int : x = b * q + y

(* Numbers a multiple of b apart leave the same remainder.                    *)
LEMMA Congruent ==
  ASSUME NEW x \in Int, NEW y \in Int, NEW b \in Nat \ {0}, MultipleApart(x, y, b)
  PROVE  x % b = y % b
<1>0. PICK q \in Int : x = b * q + y
  BY DEF MultipleApart
<1>1. PICK p \in Int : y = b * p + (y % b)
  BY Division
<1>2. PICK t \in Int : x = b * t + (x % b)
  BY Division
<1>3. x % b \in 0 .. b - 1 /\ y % b \in 0 .. b - 1
  OBVIOUS
<1>4. b * (q + p) + (y % b) = b * t + (x % b)
  <2>1. b * (q + p) = b * q + b * p
    OBVIOUS
  <2>2. b * q \in Int /\ b * p \in Int /\ b * t \in Int
    OBVIOUS
  <2> QED
    BY <1>0, <1>1, <1>2, <1>3, <2>1, <2>2
<1> DEFINE s == q + p
<1>5. s \in Int
  OBVIOUS
<1> HIDE DEF s
<1>6. b * s + (y % b) = b * t + (x % b)
  BY <1>4 DEF s
<1> QED
  BY <1>3, <1>5, <1>6, OneRemainder

(* The age of the last anchor depends on the hour of the day only.            *)
LEMMA AgeOfDay ==
  ASSUME NEW g \in Int, NEW h \in Int, NEW q \in Int, g = Day * q + h
  PROVE  Age(g) = Age(h)
<1>1. RefreshHour \in Int /\ Day \in Nat \ {0}
  BY InventoryAssumption
<1>2. g - RefreshHour \in Int /\ h - RefreshHour \in Int
  BY <1>1
<1>3. g - RefreshHour = Day * q + (h - RefreshHour)
  <2>1. Day * q \in Int
    BY <1>1
  <2> QED
    BY <1>1, <2>1
<1>4. (g - RefreshHour) % Day = (h - RefreshHour) % Day
  <2>1. MultipleApart(g - RefreshHour, h - RefreshHour, Day)
    BY <1>3 DEF MultipleApart
  <2> QED
    BY <1>1, <1>2, <2>1, Congruent
<1> QED
  BY <1>4 DEF Age

(* The hour of the day has the age the hour has.                              *)
LEMMA AgeThatDay == ASSUME NEW h \in Int PROVE h % Day \in Int /\ Age(h % Day) = Age(h)
<1>1. Day \in Nat \ {0}
  BY InventoryAssumption
<1>2. PICK q \in Int : h = Day * q + (h % Day)
  BY <1>1, Division
<1>3. h % Day \in Int
  BY <1>1, Remainder
<1> QED
  BY <1>2, <1>3, AgeOfDay

(* If the interval divides the day, the anchors are an interval apart.        *)
LEMMA AgeIfDivides ==
  ASSUME Day % Interval = 0, NEW h \in Int
  PROVE  Age(h) = (h - RefreshHour) % Interval
<1> DEFINE x == h - RefreshHour
           z == x % Day
<1>1. /\ x \in Int /\ Day \in Nat \ {0} /\ Interval \in Nat \ {0}
  BY InventoryAssumption
<1> HIDE DEF x
<1>2. PICK q \in Int : x = Day * q + z
  BY <1>1, Division
<1>3. PICK m \in Int : Day = Interval * m + (Day % Interval)
  <2>1. Day \in Int /\ Interval \in Nat \ {0}
    BY <1>1
  <2> QED
    BY <2>1, Division, Zenon
<1>4. z \in Int
  BY <1>1, Remainder
<1> HIDE DEF z
<1>5. m * q \in Int /\ Day = Interval * m
  BY <1>1, <1>3
<1>6. Day * q = Interval * (m * q)
  BY <1>1, <1>5
<1>7. x = Interval * (m * q) + z
  BY <1>2, <1>6
<1> DEFINE n == m * q
<1>8. n \in Int /\ x = Interval * n + z
  BY <1>5, <1>7
<1> HIDE DEF n
<1>9. x % Interval = z % Interval
  <2>1. MultipleApart(x, z, Interval)
    BY <1>8 DEF MultipleApart
  <2> QED
    BY <1>1, <1>4, <2>1, Congruent
<1> QED
  BY <1>9 DEF Age, x, z

(* An hour later the snapshot of the last anchor is an hour older, unless     *)
(* this hour is the next anchor; HoursToNext leads to one.                    *)
LEMMA AgeAhead ==
  ASSUME Day % Interval = 0, NEW h \in Int
  PROVE  /\ Age(h + 1) = Age(h) + 1 \/ Age(h + 1) = 0
         /\ Age(h + HoursToNext(h)) = 0
<1> DEFINE x == h - RefreshHour
           a == x % Interval
<1>1. /\ x \in Int /\ Interval \in Nat \ {0} /\ RefreshHour \in Int
  BY InventoryAssumption
<1>2. Age(h) = a /\ a \in 0 .. Interval - 1
  BY <1>1, AgeIfDivides, Remainder
<1>3. PICK q \in Int : x = Interval * q + a
  BY <1>1, Division
<1>4. Interval * q \in Int /\ q + 1 \in Int /\ Interval * (q + 1) = Interval * q + Interval
  BY <1>1
<1>5. Age(h + 1) = (x + 1) % Interval
  <2>1. h + 1 \in Int /\ (h + 1) - RefreshHour = x + 1
    BY <1>1
  <2> QED
    BY <2>1, AgeIfDivides
<1>6. Age(h + HoursToNext(h)) = (x + (Interval - a)) % Interval
  <2>1. HoursToNext(h) = Interval - a
    BY <1>2 DEF HoursToNext
  <2>2. /\ h + (Interval - a) \in Int
        /\ (h + (Interval - a)) - RefreshHour = x + (Interval - a)
    BY <1>1, <1>2
  <2> QED
    BY <2>1, <2>2, AgeIfDivides
<1> HIDE DEF x, a
<1>7. ASSUME a + 1 \in 0 .. Interval - 1 PROVE Age(h + 1) = a + 1
  <2>1. x + 1 \in Int /\ x + 1 = Interval * q + (a + 1)
    BY <1>1, <1>2, <1>3, <1>4
  <2>2. (x + 1) % Interval = (a + 1) % Interval
    <3>1. MultipleApart(x + 1, a + 1, Interval)
      BY <2>1 DEF MultipleApart
    <3>2. a + 1 \in Int
      BY <1>7
    <3> QED
      BY <1>1, <2>1, <3>1, <3>2, Congruent
  <2>3. (a + 1) % Interval = a + 1
    BY <1>1, <1>7
  <2> QED
    BY <1>5, <2>2, <2>3
<1>8. 0 \in Int /\ 0 % Interval = 0
  BY <1>1
<1> DEFINE r == q + 1
<1>9. r \in Int /\ Interval * r = Interval * q + Interval
  BY <1>4
<1> HIDE DEF r
<1>10. ASSUME a + 1 = Interval PROVE Age(h + 1) = 0
  <2>1. x + 1 \in Int /\ x + 1 = Interval * r + 0
    BY <1>1, <1>2, <1>3, <1>4, <1>9, <1>10
  <2>2. MultipleApart(x + 1, 0, Interval)
    BY <1>9, <2>1 DEF MultipleApart
  <2>3. (x + 1) % Interval = 0 % Interval
    BY <1>1, <1>8, <2>1, <2>2, Congruent
  <2> QED
    BY <1>5, <1>8, <2>3
<1>11. (x + (Interval - a)) % Interval = 0
  <2>1. x + (Interval - a) \in Int /\ x + (Interval - a) = Interval * r + 0
    BY <1>1, <1>2, <1>3, <1>4, <1>9
  <2>2. MultipleApart(x + (Interval - a), 0, Interval)
    BY <1>9, <2>1 DEF MultipleApart
  <2>3. (x + (Interval - a)) % Interval = 0 % Interval
    BY <1>1, <1>8, <2>1, <2>2, Congruent
  <2> QED
    BY <1>8, <2>3
<1> QED
  BY <1>1, <1>2, <1>6, <1>7, <1>10, <1>11

(* A set of numbers has a least one.                                          *)
LEMMA Least ==
  ASSUME NEW S, S \subseteq Nat, S # {}
  PROVE  Min(S) \in S /\ \A y \in S : Min(S) <= y
<1>1. IsWellFoundedOn(OpToRel(<, Nat), Nat)
  BY NatLessThanWellFounded, Zenon
<1>2. PICK x \in S : \A y \in S : <<y, x>> \notin OpToRel(<, Nat)
  BY <1>1, WFMin, Zenon
<1>3. \A y \in S : x =< y
  <2> SUFFICES ASSUME NEW y \in S, ~ (x =< y) PROVE FALSE
    OBVIOUS
  <2>1. y < x /\ x \in Nat /\ y \in Nat
    OBVIOUS
  <2>2. <<y, x>> \in OpToRel(<, Nat)
    BY <2>1, Zenon DEF OpToRel
  <2> QED
    BY <1>2, <2>2
<1> QED
  BY <1>3 DEF Min

(* The order of the providers has a place for each of them.                   *)
LEMMA Places ==
  /\ DOMAIN Order = 1 .. Len(Order) /\ Len(Order) \in Nat
  /\ \A i \in DOMAIN Order : Order[i] \in Providers
  /\ \A p \in Providers : \E i \in DOMAIN Order : Order[i] = p
BY InventoryAssumption DEF Providers, ToSet

(* The next provider a refresh asks is the first one it has still to ask.     *)
LEMMA NextPlace ==
  ASSUME NEW i, NEW c, NEW has, Ahead(i, c, has) # {}
  PROVE  /\ Min(Ahead(i, c, has)) \in Ahead(i, c, has)
         /\ \A k \in Ahead(i, c, has) : Min(Ahead(i, c, has)) <= k
<1>1. Ahead(i, c, has) \subseteq Nat
  BY Places DEF Ahead
<1> QED
  BY <1>1, Least

(* A refresh begins with the first enabled provider.                          *)
LEMMA Begins ==
  ASSUME NEW c \in Configs
  PROVE  /\ Begun(c, Enabled[c]) \in Job
         /\ Begun(c, Enabled[c]).cfg = c
         /\ Begun(c, Enabled[c]).pc = "listing"
         /\ ~ Begun(c, Enabled[c]).spanned
         /\ Begun(c, Enabled[c]).at \in DOMAIN Order
         /\ Underway(Begun(c, Enabled[c]))
<1> DEFINE ahead == Ahead(0, c, Enabled[c])
<1>1. Enabled[c] # {} /\ Enabled[c] \subseteq Providers
  BY InventoryAssumption
<1>2. PICK p \in Enabled[c], i \in DOMAIN Order : Order[i] = p
  BY <1>1, Places
<1>3. i \in ahead
  BY <1>2, Places DEF Ahead
<1>4. \A k \in ahead : k \in DOMAIN Order /\ Order[k] \in Enabled[c]
  BY DEF Ahead
<1>5. \A k \in DOMAIN Order : Order[k] \in Enabled[c] => k \in ahead
  BY Places DEF Ahead
<1>6. Min(ahead) \in ahead /\ \A k \in ahead : Min(ahead) <= k
  BY <1>3, NextPlace
<1> HIDE DEF ahead
<1>7. \A k \in DOMAIN Order : Order[k] \in Enabled[c] => k >= Min(ahead)
  <2> TAKE k \in DOMAIN Order
  <2> QED
    BY <1>4, <1>5, <1>6, Places
<1>8. Begun(c, Enabled[c]) = [pc |-> "listing", cfg |-> c, at |-> Min(ahead),
                              reported |-> {}, spanned |-> FALSE]
  BY DEF Begun, ahead
<1>9. Min(ahead) \in 0 .. Len(Order)
  BY <1>4, <1>6, Places
<1> QED
  BY <1>4, <1>7, <1>8, <1>9, <1>6 DEF Job, Underway

(* An idle job is a job.                                                      *)
LEMMA IdleJob == NoJob \in Job /\ NoJob.pc = "idle" /\ ~ NoJob.spanned
<1>1. 0 \in 0 .. Len(Order)
  BY Places
<1> QED
  BY <1>1 DEF NoJob, Job

(* Before the first start nothing runs and nothing is in memory.              *)
LEMMA InitInv == Init => Inv
<1> SUFFICES ASSUME Init PROVE Inv
  OBVIOUS
<1>1. hour \in 0 .. Day - 1 /\ NULL \notin Configs
  BY InventoryAssumption DEF Init
<1>2. job \in [Refreshers -> Job] /\ \A a \in Refreshers : job[a] = NoJob
  BY IdleJob DEF Init
<1>3. \A a \in Refreshers : job[a].pc = "idle" /\ ~ job[a].spanned
  BY <1>2, IdleJob
<1>4. "reload" \in Refreshers /\ "boot" \in Refreshers
  BY DEF Refreshers, Tasks
<1> QED
  BY <1>1, <1>2, <1>3, <1>4 DEF Init, Inv, TypeOK, JobOK, GatewayOK, ReloadOK, MemoryOK,
    FileOK, AccountsForAll, IsPayload

-----------------------------------------------------------------------------
(* Steps that begin a refresh *)

(* Who refreshes: the tasks of the gateway and the operator's commands.       *)
LEMMA Who ==
  /\ Refreshers = Tasks \cup Commands /\ Tasks \cap Commands = {}
  /\ Requests \subseteq Tasks
  /\ "boot" \in Tasks /\ "scheduler" \in Tasks /\ "reload" \in Tasks
  /\ \A r \in Requests \cup Commands : r \notin {"boot", "scheduler", "reload"}
BY InventoryAssumption DEF Tasks, Refreshers

Accounted(snap) == ~ snap.spanned => snap.reported = Enabled[snap.cfg]

(* What a request may take for the current snapshot.                          *)
LEMMA CurrentOK ==
  ASSUME Inv, gateway = "up"
  PROVE  /\ Current(loaded) \in Cached \cup {NULL}
         /\ \/ Current(loaded) = memory
            \/ Current(loaded) # NULL =>
                 SameConfig(Current(loaded)) /\ Accounted(Current(loaded).snap)
<1>1. CASE memory # NULL /\ memory.fresh
  BY <1>1 DEF Current, Inv, TypeOK
<1>2. CASE ~ (memory # NULL /\ memory.fresh)
  <2>1. Current(loaded) = LoadFile(loaded)
    BY <1>2 DEF Current
  <2>2. CASE IsPayload(file) /\ file.print = Fingerprint[loaded] /\ file.fresh
    <3>1. Current(loaded) = [snap |-> file.snap, fresh |-> file.fresh]
      BY <2>1, <2>2 DEF LoadFile
    <3>2. file \in Payload
      BY <2>2 DEF Inv, TypeOK, IsPayload
    <3>3. Fingerprint[file.snap.cfg] = Fingerprint[loaded]
      BY <2>2 DEF Inv, FileOK
    <3>4. Accounted(file.snap)
      BY <2>2 DEF Inv, AccountsForAll, Accounted
    <3> QED
      BY <3>1, <3>2, <3>3, <3>4 DEF Payload, Cached, SameConfig
  <2>3. CASE ~ (IsPayload(file) /\ file.print = Fingerprint[loaded] /\ file.fresh)
    BY <2>1, <2>3 DEF LoadFile
  <2> QED
    BY <2>2, <2>3
<1> QED
  BY <1>1, <1>2

(* The scheduler, a request or a command begins a refresh, or finds a         *)
(* snapshot; memory is left alone, or holds what CurrentOK says.              *)
LEMMA BeginStep ==
  ASSUME Inv, NEW a \in Refreshers \ {"boot", "reload"}, job[a].pc = "idle",
         NEW c \in Configs, a \in Tasks => gateway = "up" /\ LoopFree /\ c = loaded,
         \/ job' = job
         \/ job' = [job EXCEPT ![a] = Begun(c, Enabled[c])],
         memory' \in Cached \cup {NULL},
         \/ memory' = memory
         \/ memory' # NULL => SameConfig(memory') /\ Accounted(memory'.snap),
         UNCHANGED <<hour, disk, gateway, loaded, adapters, file, sleep, reload>>
  PROVE  Inv'
<1> DEFINE new == Begun(c, Enabled[c])
<1>1. /\ new \in Job /\ new.cfg = c /\ new.pc = "listing" /\ ~ new.spanned
      /\ new.at \in DOMAIN Order /\ Underway(new)
  BY Begins
<1>2. job \in [Refreshers -> Job] /\ (job' = job \/ job' = [job EXCEPT ![a] = new])
  BY DEF Inv, TypeOK
<1> HIDE DEF new
<1>3. /\ job' \in [Refreshers -> Job]
      /\ \A b \in Refreshers : job'[b] = job[b] \/ (b = a /\ job'[b] = new)
  BY <1>1, <1>2
<1>4. TypeOK'
  BY <1>3 DEF Inv, TypeOK
<1>5. ASSUME NEW b \in Refreshers PROVE JobOK(b)'
  <2>1. CASE job'[b] = job[b]
    BY <2>1 DEF Inv, JobOK, Underway
  <2>2. CASE b = a /\ job'[b] = new
    BY <1>1, <2>2 DEF JobOK, Underway
  <2> QED
    BY <1>3, <2>1, <2>2
<1>6. GatewayOK'
  BY <1>3, Who DEF Inv, GatewayOK
<1>7. ReloadOK'
  <2>1. job'["reload"] = job["reload"]
    BY <1>3, Who
  <2> QED
    BY <2>1 DEF Inv, ReloadOK, SameConfig
<1>8. MemoryOK'
  BY DEF Inv, MemoryOK, SameConfig
<1>9. FileOK' /\ AccountsForAll'
  BY DEF Inv, FileOK, AccountsForAll, Accounted, IsPayload
<1> QED
  BY <1>4, <1>5, <1>6, <1>7, <1>8, <1>9 DEF Inv

(* The scheduler begins its refresh with the adapters and the configuration   *)
(* of the gateway.                                                            *)
LEMMA SchedulerWakesOK == Inv /\ SchedulerWakes => Inv'
<1> SUFFICES ASSUME Inv, SchedulerWakes PROVE Inv'
  OBVIOUS
<1>1. "scheduler" \in Refreshers \ {"boot", "reload"}
  BY Who
<1>2. loaded \in Configs /\ adapters = Enabled[loaded] /\ memory \in Cached \cup {NULL}
  BY DEF SchedulerWakes, Inv, GatewayOK, TypeOK
<1> QED
  BY <1>1, <1>2, BeginStep DEF SchedulerWakes, CanBegin

(* So does a request that finds no snapshot.                                  *)
LEMMA RequestPlansOK == ASSUME NEW r \in Requests PROVE Inv /\ RequestPlans(r) => Inv'
<1> SUFFICES ASSUME Inv, RequestPlans(r) PROVE Inv'
  OBVIOUS
<1>1. r \in Refreshers \ {"boot", "reload"}
  BY Who
<1>2. gateway = "up" /\ loaded \in Configs /\ adapters = Enabled[loaded] /\ LoopFree
  BY DEF RequestPlans, Inv, GatewayOK
<1>3. /\ memory' \in Cached \cup {NULL}
      /\ \/ memory' = memory
         \/ memory' # NULL => SameConfig(memory') /\ Accounted(memory'.snap)
  BY <1>2, CurrentOK DEF RequestPlans
<1>4. job' = job \/ job' = [job EXCEPT ![r] = Begun(loaded, Enabled[loaded])]
  BY <1>2 DEF RequestPlans
<1>5. job[r].pc = "idle" /\ UNCHANGED <<hour, disk, gateway, loaded, adapters, file, sleep, reload>>
  BY DEF RequestPlans, CanBegin
<1> QED
  BY <1>1, <1>2, <1>3, <1>4, <1>5, BeginStep

(* A command begins with the configuration on disk and adapters of its own.   *)
LEMMA CommandRefreshesOK == ASSUME NEW c \in Commands PROVE Inv /\ CommandRefreshes(c) => Inv'
<1> SUFFICES ASSUME Inv, CommandRefreshes(c) PROVE Inv'
  OBVIOUS
<1>1. c \in Refreshers \ {"boot", "reload"} /\ c \notin Tasks
  BY Who
<1>2. disk \in Configs /\ memory \in Cached \cup {NULL}
  BY DEF Inv, TypeOK
<1> QED
  BY <1>1, <1>2, BeginStep DEF CommandRefreshes, CanBegin

(* A start loads the configuration and begins the first refresh.              *)
LEMMA StartOK == Inv /\ Start => Inv'
<1> SUFFICES ASSUME Inv, Start PROVE Inv'
  OBVIOUS
<1> DEFINE new == Begun(disk, Enabled[disk])
<1>1. disk \in Configs /\ job \in [Refreshers -> Job]
  BY DEF Inv, TypeOK
<1>2. /\ new \in Job /\ new.cfg = disk /\ new.pc = "listing" /\ ~ new.spanned
      /\ new.at \in DOMAIN Order /\ Underway(new)
  BY <1>1, Begins
<1>3. job' = [job EXCEPT !["boot"] = new]
  BY DEF Start
<1> HIDE DEF new
<1>4. /\ job' \in [Refreshers -> Job] /\ job'["boot"] = new
      /\ \A b \in Refreshers \ {"boot"} : job'[b] = job[b]
  BY <1>1, <1>2, <1>3, Who
<1>5. \A b \in Tasks : job[b].pc = "idle"
  BY Who DEF Inv, JobOK, Start
<1>6. TypeOK'
  BY <1>1, <1>4, Places, InventoryAssumption DEF Start, Inv, TypeOK
<1>7. ASSUME NEW b \in Refreshers PROVE JobOK(b)'
  <2>1. CASE b = "boot"
    BY <1>1, <1>2, <1>4, <2>1 DEF JobOK, Underway, Start
  <2>2. CASE b # "boot"
    <3>1. job'[b] = job[b] /\ (b \in Tasks => job[b].pc = "idle")
      BY <1>4, <1>5, <2>2
    <3> QED
      BY <3>1, Who DEF Inv, JobOK, Underway
  <2> QED
    BY <2>1, <2>2
<1>8. GatewayOK' /\ MemoryOK'
  BY <1>1, <1>4, <1>5, Who DEF Start, GatewayOK, MemoryOK
<1>9. ReloadOK'
  BY <1>4, <1>5, Who DEF Start, Inv, ReloadOK
<1>10. FileOK' /\ AccountsForAll'
  BY DEF Start, Inv, FileOK, AccountsForAll, IsPayload
<1> QED
  BY <1>6, <1>7, <1>8, <1>9, <1>10 DEF Inv

(* A reload overtakes the refreshes under way in the gateway.                 *)
LEMMA ReloadConfigOK == Inv /\ ReloadConfig => Inv'
<1> SUFFICES ASSUME Inv, ReloadConfig PROVE Inv'
  OBVIOUS
<1> DEFINE new == Begun(disk, Enabled[disk])
<1>1. disk \in Configs /\ job \in [Refreshers -> Job]
  BY DEF Inv, TypeOK
<1>2. /\ new \in Job /\ new.cfg = disk /\ new.pc = "listing" /\ ~ new.spanned
      /\ new.at \in DOMAIN Order /\ Underway(new)
  BY <1>1, Begins
<1>3. job' = [a \in Refreshers |->
                IF a = "reload" THEN new
                ELSE IF a \in Tasks /\ job[a].pc = "listing"
                     THEN [job[a] EXCEPT !.spanned = TRUE] ELSE job[a]]
  BY DEF ReloadConfig
<1> HIDE DEF new
<1>4. job' \in [Refreshers -> Job]
  BY <1>1, <1>2, <1>3 DEF Job
<1>5. TypeOK'
  <2>1. adapters' \subseteq Providers
    BY <1>1, InventoryAssumption DEF ReloadConfig
  <2> QED
    BY <1>1, <1>4, <2>1 DEF ReloadConfig, Inv, TypeOK
<1>6. ASSUME NEW b \in Refreshers PROVE JobOK(b)'
  <2>1. CASE b = "reload"
    BY <1>1, <1>2, <1>3, <2>1 DEF JobOK, Underway, ReloadConfig
  <2>2. CASE b # "reload" /\ b \in Tasks /\ job[b].pc = "listing"
    <3>1. job'[b] = [job[b] EXCEPT !.spanned = TRUE] /\ job[b] \in Job
      BY <1>1, <1>3, <2>2
    <3>2. /\ job'[b].spanned /\ job'[b].cfg = job[b].cfg /\ job'[b].at = job[b].at
          /\ job'[b].pc = "listing"
      BY <2>2, <3>1 DEF Job
    <3> QED
      BY <2>2, <3>2 DEF Inv, JobOK, ReloadConfig
  <2>3. CASE b # "reload" /\ b \in Tasks /\ job[b].pc # "listing"
    <3>1. job'[b] = job[b] /\ job[b].pc = "idle"
      BY <1>1, <1>3, <2>3 DEF ReloadConfig, LoopFree, Job
    <3> QED
      BY <3>1 DEF JobOK
  <2>4. CASE b \notin Tasks
    <3>1. job'[b] = job[b]
      BY <1>3, <2>4, Who
    <3> QED
      BY <2>4, <3>1 DEF Inv, JobOK, Underway
  <2> QED
    BY <2>1, <2>2, <2>3, <2>4
<1>7. GatewayOK'
  <2>1. job'["boot"].pc = "idle"
    BY <1>3, Who DEF Inv, GatewayOK, ReloadConfig
  <2> QED
    BY <1>1, <2>1 DEF GatewayOK, ReloadConfig
<1>8. ReloadOK' /\ MemoryOK'
  BY <1>2, <1>3, Who DEF ReloadConfig, ReloadOK, MemoryOK
<1>9. FileOK' /\ AccountsForAll'
  BY DEF ReloadConfig, Inv, FileOK, AccountsForAll, IsPayload
<1> QED
  BY <1>5, <1>6, <1>7, <1>8, <1>9 DEF Inv

-----------------------------------------------------------------------------
(* A refresh goes on *)

(* An answer leaves before a refresh what it has still to ask.                *)
LEMMA AnsweredJob ==
  ASSUME Inv, NEW a \in Refreshers, job[a].pc = "listing"
  PROVE  LET j == job[a]
             reported == j.reported \cup {Order[j.at]}
             ahead == Ahead(j.at, j.cfg, AdaptersOf(a))
         IN  /\ j \in Job /\ j.cfg \in Configs
             /\ reported \subseteq Providers
             /\ ahead # {} => Min(ahead) \in DOMAIN Order
             /\ ~ j.spanned =>
                  /\ reported \subseteq Enabled[j.cfg]
                  /\ ahead # {} =>
                       /\ Order[Min(ahead)] \in Enabled[j.cfg]
                       /\ \A i \in DOMAIN Order :
                            Order[i] \in Enabled[j.cfg] /\ Order[i] \notin reported
                              => i >= Min(ahead)
                  /\ ahead = {} => reported = Enabled[j.cfg]
<1> DEFINE j == job[a]
           reported == j.reported \cup {Order[j.at]}
           ahead == Ahead(j.at, j.cfg, AdaptersOf(a))
<1>1. j \in Job /\ j.cfg \in Configs /\ j.at \in DOMAIN Order
  BY DEF Inv, TypeOK, JobOK
<1>2. reported \subseteq Providers
  BY <1>1, Places DEF Job
<1>3. ASSUME ahead # {}
      PROVE  Min(ahead) \in ahead /\ \A k \in ahead : Min(ahead) <= k
  BY <1>3, NextPlace
<1>4. \A k \in ahead : k \in DOMAIN Order /\ Order[k] \in Enabled[j.cfg]
  BY DEF Ahead
<1>5. ASSUME ~ j.spanned
      PROVE  /\ reported \subseteq Enabled[j.cfg]
             /\ \A i \in DOMAIN Order :
                  Order[i] \in Enabled[j.cfg] /\ Order[i] \notin reported => i \in ahead
  <2>1. Underway(j)
    BY <1>5 DEF Inv, JobOK
  <2>2. AdaptersOf(a) = Enabled[j.cfg]
    <3>1. CASE a \in Commands
      BY <3>1 DEF AdaptersOf
    <3>2. CASE a \in Tasks
      <4>1. gateway # "down" /\ j.cfg = loaded
        BY <1>5, <3>2 DEF Inv, JobOK
      <4> QED
        BY <3>2, <4>1, Who DEF AdaptersOf, Inv, GatewayOK
    <3> QED
      BY <3>1, <3>2, Who
  <2>3. ASSUME NEW i \in DOMAIN Order, Order[i] \in Enabled[j.cfg], Order[i] \notin reported
        PROVE  i \in ahead
    <3>1. i >= j.at /\ i # j.at
      BY <2>1, <2>3 DEF Underway
    <3>2. i > j.at
      BY <1>1, <3>1, Places
    <3> QED
      BY <2>2, <2>3, <3>2 DEF Ahead
  <2> QED
    BY <2>1, <2>3 DEF Underway
<1> HIDE DEF ahead
<1>6. ASSUME ~ j.spanned, ahead = {} PROVE reported = Enabled[j.cfg]
  <2>1. Enabled[j.cfg] \subseteq Providers
    BY <1>1, InventoryAssumption
  <2>2. ASSUME NEW p \in Enabled[j.cfg] PROVE p \in reported
    <3>1. PICK i \in DOMAIN Order : Order[i] = p
      BY <2>1, Places
    <3> QED
      BY <1>5, <1>6, <3>1
  <2> QED
    BY <1>5, <1>6, <2>2
<1>7. /\ ahead # {} => Min(ahead) \in DOMAIN Order
      /\ ~ j.spanned =>
           /\ reported \subseteq Enabled[j.cfg]
           /\ ahead # {} =>
                /\ Order[Min(ahead)] \in Enabled[j.cfg]
                /\ \A i \in DOMAIN Order :
                     Order[i] \in Enabled[j.cfg] /\ Order[i] \notin reported => i >= Min(ahead)
           /\ ahead = {} => reported = Enabled[j.cfg]
  <2> HIDE DEF reported, j
  <2>1. ASSUME ahead # {}
        PROVE  /\ Min(ahead) \in DOMAIN Order /\ Order[Min(ahead)] \in Enabled[j.cfg]
               /\ \A i \in ahead : i >= Min(ahead)
    <3>1. \A i \in ahead : i \in Nat
      BY <1>4, Places
    <3> QED
      BY <1>3, <1>4, <2>1, <3>1
  <2> QED
    BY <1>5, <1>6, <2>1
<1> QED
  BY <1>1, <1>2, <1>7 DEF ahead

(* A provider that has answered is reported, and the next one asked comes     *)
(* after it.                                                                  *)
LEMMA AnsweredOK == ASSUME NEW a \in Refreshers PROVE Inv /\ Answered(a) => Inv'
<1> SUFFICES ASSUME Inv, Answered(a) PROVE Inv'
  OBVIOUS
<1> DEFINE j == job[a]
           reported == j.reported \cup {Order[j.at]}
           ahead == Ahead(j.at, j.cfg, AdaptersOf(a))
           next == [j EXCEPT !.at = Min(ahead), !.reported = reported]
           last == [j EXCEPT !.pc = "saving", !.reported = reported]
           made == [snap |-> SnapshotOf(j, reported), fresh |-> TRUE]
<1>1. /\ j \in Job /\ j.cfg \in Configs
      /\ reported \subseteq Providers
      /\ ahead # {} => Min(ahead) \in DOMAIN Order
      /\ ~ j.spanned =>
           /\ reported \subseteq Enabled[j.cfg]
           /\ ahead # {} =>
                /\ Order[Min(ahead)] \in Enabled[j.cfg]
                /\ \A i \in DOMAIN Order :
                     Order[i] \in Enabled[j.cfg] /\ Order[i] \notin reported => i >= Min(ahead)
           /\ ahead = {} => reported = Enabled[j.cfg]
  BY AnsweredJob DEF Answered
<1>2. /\ job \in [Refreshers -> Job] /\ j.pc = "listing"
      /\ a \in Tasks => LoopFree /\ gateway # "down" /\ (j.cfg = loaded \/ j.spanned)
      /\ UNCHANGED <<hour, disk, gateway, loaded, adapters, sleep, reload>>
  BY DEF Answered, Inv, TypeOK, JobOK
<1>3. \/ ahead # {} /\ job' = [job EXCEPT ![a] = next] /\ UNCHANGED <<memory, file>>
      \/ /\ ahead = {} /\ job' = [job EXCEPT ![a] = last]
         /\ memory' = IF a \in Tasks THEN made ELSE memory
         /\ file' = Torn
  BY <1>2 DEF Answered
<1> HIDE DEF ahead, reported
<1>4. ahead # {} => next \in Job
  <2>1. ahead # {} => Min(ahead) \in 0 .. Len(Order)
    BY <1>1, Places
  <2> QED
    BY <1>1, <2>1 DEF Job
<1>5. last \in Job
  BY <1>1 DEF Job
<1>6. made \in Cached
  BY <1>1 DEF Job, Cached, Snapshot, SnapshotOf
<1>7. a \in Tasks => SameConfig(made)
  BY <1>2 DEF SameConfig, SnapshotOf
<1>8. ahead = {} => Accounted(made.snap)
  BY <1>1 DEF Accounted, SnapshotOf
<1> HIDE DEF made
<1>9. CASE ahead # {} /\ job' = [job EXCEPT ![a] = next] /\ UNCHANGED <<memory, file>>
  <2>1. /\ next \in Job /\ next.pc = "listing" /\ next.at = Min(ahead)
        /\ next.cfg = j.cfg /\ next.reported = reported /\ next.spanned = j.spanned
    BY <1>1, <1>2, <1>4, <1>9 DEF Job
  <2> HIDE DEF next
  <2>2. /\ job' \in [Refreshers -> Job] /\ job'[a] = next
        /\ \A b \in Refreshers \ {a} : job'[b] = job[b]
    BY <1>2, <1>9, <2>1
  <2>3. TypeOK'
    BY <1>2, <1>9, <2>2 DEF Inv, TypeOK
  <2>4. ASSUME NEW b \in Refreshers PROVE JobOK(b)'
    <3>1. CASE b = a
      <4>1. ~ next.spanned => Underway(next)
        BY <1>1, <1>9, <2>1 DEF Underway
      <4> QED
        BY <1>1, <1>2, <1>9, <2>1, <2>2, <3>1, <4>1 DEF JobOK, Underway
    <3>2. CASE b # a
      BY <1>2, <2>2, <3>2 DEF Inv, JobOK, Underway
    <3> QED
      BY <3>1, <3>2
  <2>5. GatewayOK'
    <3>1. \A b \in Refreshers : job[b].pc = "idle" => job'[b].pc = "idle"
      BY <1>2, <2>2
    <3> QED
      BY <1>2, <3>1, Who DEF Inv, GatewayOK
  <2>6. ReloadOK'
    <3>1. /\ job'["reload"].pc = job["reload"].pc
          /\ job'["reload"].spanned = job["reload"].spanned
      BY <1>2, <2>1, <2>2, Who
    <3> QED
      BY <1>2, <1>9, <3>1 DEF Inv, ReloadOK, SameConfig
  <2>7. MemoryOK' /\ FileOK' /\ AccountsForAll'
    BY <1>2, <1>9 DEF Inv, MemoryOK, SameConfig, FileOK, AccountsForAll, IsPayload
  <2> QED
    BY <2>3, <2>4, <2>5, <2>6, <2>7 DEF Inv
<1>10. CASE /\ ahead = {} /\ job' = [job EXCEPT ![a] = last]
            /\ memory' = (IF a \in Tasks THEN made ELSE memory)
            /\ file' = Torn
  <2>1. /\ last \in Job /\ last.pc = "saving"
        /\ last.cfg = j.cfg /\ last.reported = reported /\ last.spanned = j.spanned
    BY <1>1, <1>5 DEF Job
  <2> HIDE DEF last
  <2>2. /\ job' \in [Refreshers -> Job] /\ job'[a] = last
        /\ \A b \in Refreshers \ {a} : job'[b] = job[b]
    BY <1>2, <1>10, <2>1
  <2>3. TypeOK'
    BY <1>2, <1>6, <1>10, <2>2 DEF Inv, TypeOK
  <2>4. ASSUME NEW b \in Refreshers PROVE JobOK(b)'
    <3>1. CASE b = a
      <4>1. ~ last.spanned => Underway(last)
        BY <1>1, <1>10, <2>1 DEF Underway
      <4> QED
        BY <1>1, <1>2, <2>1, <2>2, <3>1, <4>1 DEF JobOK, Underway
    <3>2. CASE b # a
      BY <1>2, <2>2, <3>2 DEF Inv, JobOK, Underway
    <3> QED
      BY <3>1, <3>2
  <2>5. GatewayOK'
    <3>1. \A b \in Refreshers : job[b].pc = "idle" => job'[b].pc = "idle"
      BY <1>2, <2>2
    <3> QED
      BY <1>2, <3>1, Who DEF Inv, GatewayOK
  <2>6. ReloadOK'
    <3>1. /\ job["reload"].pc = "idle" <=> job'["reload"].pc = "idle"
          /\ ~ job'["reload"].spanned
      BY <1>2, <2>1, <2>2, Who DEF Inv, ReloadOK
    <3>2. ASSUME job'["reload"].pc = "saving", memory' # NULL PROVE SameConfig(memory)'
      <4>1. CASE a \in Tasks
        BY <1>2, <1>7, <1>10, <4>1 DEF SameConfig
      <4>2. CASE a \notin Tasks
        BY <1>2, <1>10, <2>2, <3>2, <4>2, Who DEF Inv, ReloadOK, SameConfig
      <4> QED
        BY <4>1, <4>2
    <3> QED
      BY <1>2, <3>1, <3>2 DEF Inv, ReloadOK
  <2>7. MemoryOK'
    BY <1>2, <1>7, <1>10 DEF Inv, MemoryOK, SameConfig
  <2>8. FileOK' /\ AccountsForAll'
    BY <1>8, <1>10 DEF Inv, FileOK, AccountsForAll, Accounted, IsPayload
  <2> QED
    BY <2>3, <2>4, <2>5, <2>6, <2>7, <2>8 DEF Inv
<1> QED
  BY <1>3, <1>9, <1>10

-----------------------------------------------------------------------------
(* A refresh ends *)

(* A refresh that ends leaves the others as they are.                         *)
LEMMA EndedJob ==
  ASSUME Inv, NEW a \in Refreshers, job' = [job EXCEPT ![a] = NoJob]
  PROVE  /\ job' \in [Refreshers -> Job]
         /\ job'[a].pc = "idle" /\ ~ job'[a].spanned
         /\ \A b \in Refreshers \ {a} : job'[b] = job[b]
BY IdleJob DEF Inv, TypeOK

(* A refresh that is saved accounts for every provider it asked.              *)
LEMMA SavedOK == ASSUME NEW a \in Refreshers PROVE Inv /\ Saved(a) => Inv'
<1> SUFFICES ASSUME Inv, Saved(a) PROVE Inv'
  OBVIOUS
<1> DEFINE j == job[a]
           made == SnapshotOf(j, j.reported)
<1>1. /\ job' \in [Refreshers -> Job] /\ job'[a].pc = "idle" /\ ~ job'[a].spanned
      /\ \A b \in Refreshers \ {a} : job'[b] = job[b]
  BY EndedJob DEF Saved
<1>2. /\ j \in Job /\ j.pc = "saving" /\ j.cfg \in Configs
      /\ ~ j.spanned => j.reported = Enabled[j.cfg]
  BY DEF Saved, Inv, TypeOK, JobOK, Underway
<1>3. UNCHANGED <<hour, disk, loaded, adapters, memory>>
  BY DEF Saved
<1>4. /\ file' \in Payload \cup {Torn}
      /\ IsPayload(file') =>
           file'.print = Fingerprint[file'.snap.cfg] /\ Accounted(file'.snap)
  <2>1. Fingerprint[j.cfg] \in Range(Fingerprint)
    BY <1>2, InventoryAssumption DEF Range
  <2> DEFINE written == [snap |-> made, fresh |-> TRUE, print |-> Fingerprint[j.cfg]]
  <2>2. written \in Payload
    BY <1>2, <2>1 DEF Payload, Snapshot, SnapshotOf, Job
  <2>3. Accounted(made)
    BY <1>2 DEF Accounted, SnapshotOf
  <2>4. file' = written \/ file' = Torn
    BY DEF Saved
  <2>5. written.snap = made /\ made.cfg = j.cfg /\ written.print = Fingerprint[j.cfg]
    BY DEF SnapshotOf
  <2> HIDE DEF written, made
  <2> QED
    BY <2>2, <2>3, <2>4, <2>5 DEF IsPayload
<1>5. /\ a = "boot" => gateway' = "up" /\ sleep' = HoursToNext(hour) /\ reload' = reload
      /\ a = "scheduler" => gateway' = gateway /\ sleep' = HoursToNext(hour) /\ reload' = reload
      /\ a = "reload" => reload' = "done" /\ gateway' = gateway /\ sleep' = sleep
      /\ a \notin {"boot", "scheduler", "reload"} =>
           gateway' = gateway /\ sleep' = sleep /\ reload' = reload
  BY DEF Saved, AfterRefresh, SchedulerSleeps
<1>6. HoursToNext(hour) \in 0 .. Interval
  <2>1. hour \in Int /\ Interval \in Nat
    BY InventoryAssumption DEF Inv, TypeOK
  <2> QED
    BY <2>1, AgeInInterval DEF HoursToNext
<1>7. TypeOK'
  BY <1>1, <1>3, <1>4, <1>5, <1>6 DEF Inv, TypeOK
<1>8. a \in Tasks => gateway # "down"
  BY <1>2 DEF Inv, JobOK
<1>9. gateway' = gateway \/ (a = "boot" /\ gateway = "boot" /\ gateway' = "up")
  BY <1>2, <1>5, <1>8, Who DEF Inv, TypeOK, GatewayOK
<1>10. ASSUME NEW b \in Refreshers PROVE JobOK(b)'
  BY <1>1, <1>3, <1>9 DEF Inv, JobOK, Underway
<1>11. GatewayOK'
  BY <1>1, <1>3, <1>9, Who DEF Inv, GatewayOK
<1>12. ReloadOK'
  BY <1>1, <1>3, <1>5, Who DEF Inv, ReloadOK, SameConfig
<1>13. MemoryOK'
  <2>1. ASSUME gateway' # "down", memory' # NULL, reload' = "done" PROVE SameConfig(memory)
    BY <1>2, <1>3, <1>5, <1>9, <2>1 DEF Inv, MemoryOK, ReloadOK
  <2> QED
    BY <1>3, <2>1 DEF MemoryOK, SameConfig
<1>14. FileOK' /\ AccountsForAll'
  BY <1>3, <1>4 DEF Inv, FileOK, AccountsForAll, Accounted, IsPayload
<1> QED
  BY <1>7, <1>10, <1>11, <1>12, <1>13, <1>14 DEF Inv

(* A refresh whose file cannot be written publishes nothing.                  *)
LEMMA BrokenOK == ASSUME NEW a \in Refreshers PROVE Inv /\ Broken(a) => Inv'
<1> SUFFICES ASSUME Inv, Broken(a) PROVE Inv'
  OBVIOUS
<1>1. /\ job' \in [Refreshers -> Job] /\ job'[a].pc = "idle" /\ ~ job'[a].spanned
      /\ \A b \in Refreshers \ {a} : job'[b] = job[b]
  BY EndedJob DEF Broken
<1>2. UNCHANGED <<hour, disk, file>>
  BY DEF Broken
<1>3. FileOK' /\ (IsPayload(file) => Accounted(file'.snap))
  BY <1>2 DEF Inv, FileOK, AccountsForAll, Accounted, IsPayload
<1>4. CASE a = "boot"
  <2>1. /\ gateway' = "down" /\ loaded' = NULL /\ adapters' = {} /\ memory' = NULL
        /\ UNCHANGED <<sleep, reload>>
    BY <1>4 DEF Broken, AfterFailure
  <2>2. TypeOK'
    BY <1>1, <1>2, <2>1 DEF Inv, TypeOK
  <2>3. \A b \in Tasks : job'[b].pc = "idle"
    <3>1. job["boot"].pc # "idle"
      BY <1>4 DEF Broken
    <3>2. gateway = "boot"
      BY <3>1, Who DEF Inv, GatewayOK, JobOK, TypeOK
    <3> QED
      BY <1>1, <1>4, <3>2, Who DEF Inv, GatewayOK
  <2>4. ASSUME NEW b \in Refreshers PROVE JobOK(b)'
    BY <1>1, <1>4, <2>3, Who DEF Inv, JobOK, Underway
  <2>5. GatewayOK' /\ MemoryOK'
    BY <2>1 DEF GatewayOK, MemoryOK
  <2>6. ReloadOK'
    BY <1>1, <1>4, <2>1, Who DEF Inv, ReloadOK
  <2>7. AccountsForAll'
    BY <1>2, <1>3, <2>1 DEF AccountsForAll, Accounted
  <2> QED
    BY <1>3, <2>2, <2>4, <2>5, <2>6, <2>7 DEF Inv
<1>5. CASE a # "boot"
  <2>1. /\ UNCHANGED <<gateway, loaded, adapters, memory>>
        /\ a = "scheduler" => sleep' = HoursToNext(hour) /\ reload' = reload
        /\ a = "reload" => reload' = "failed" /\ sleep' = sleep
        /\ a \notin {"scheduler", "reload"} => UNCHANGED <<sleep, reload>>
    BY <1>5 DEF Broken, AfterFailure, SchedulerSleeps
  <2>2. HoursToNext(hour) \in 0 .. Interval
    <3>1. hour \in Int /\ Interval \in Nat
      BY InventoryAssumption DEF Inv, TypeOK
    <3> QED
      BY <3>1, AgeInInterval DEF HoursToNext
  <2>3. TypeOK'
    BY <1>1, <1>2, <2>1, <2>2 DEF Inv, TypeOK
  <2>4. ASSUME NEW b \in Refreshers PROVE JobOK(b)'
    BY <1>1, <2>1 DEF Inv, JobOK, Underway
  <2>5. GatewayOK'
    BY <1>1, <1>5, <2>1, Who DEF Inv, GatewayOK
  <2>6. ReloadOK'
    BY <1>1, <2>1, Who DEF Inv, ReloadOK, SameConfig
  <2>7. MemoryOK'
    BY <2>1 DEF Inv, MemoryOK, SameConfig
  <2>8. AccountsForAll'
    BY <1>2, <1>3, <2>1 DEF Inv, AccountsForAll, Accounted
  <2> QED
    BY <1>3, <2>3, <2>4, <2>5, <2>6, <2>7, <2>8 DEF Inv
<1> QED
  BY <1>4, <1>5

-----------------------------------------------------------------------------
(* The surroundings *)

(* A stop ends the tasks; the commands go on.                                 *)
LEMMA StopOK == Inv /\ Stop => Inv'
<1> SUFFICES ASSUME Inv, Stop PROVE Inv'
  OBVIOUS
<1>1. job \in [Refreshers -> Job]
  BY DEF Inv, TypeOK
<1>2. /\ job' \in [Refreshers -> Job]
      /\ \A b \in Tasks : job'[b].pc = "idle" /\ ~ job'[b].spanned
      /\ \A b \in Refreshers \ Tasks : job'[b] = job[b]
  BY <1>1, IdleJob, Who DEF Stop
<1>3. TypeOK'
  BY <1>2 DEF Stop, Inv, TypeOK
<1>4. ASSUME NEW b \in Refreshers PROVE JobOK(b)'
  BY <1>2 DEF Inv, JobOK, Underway
<1>5. GatewayOK' /\ ReloadOK' /\ MemoryOK'
  BY <1>2, Who DEF Stop, GatewayOK, ReloadOK, MemoryOK
<1>6. FileOK' /\ AccountsForAll'
  BY DEF Stop, Inv, FileOK, AccountsForAll, IsPayload
<1> QED
  BY <1>3, <1>4, <1>5, <1>6 DEF Inv

(* Time only ages the snapshots.                                              *)
LEMMA TickOK == Inv /\ Tick => Inv'
<1> SUFFICES ASSUME Inv, Tick PROVE Inv'
  OBVIOUS
<1>1. UNCHANGED <<disk, gateway, loaded, adapters, reload, job>>
  BY DEF Tick
<1>2. hour' \in 0 .. Day - 1
  <2>1. hour + 1 \in Int /\ Day \in Nat \ {0}
    BY InventoryAssumption DEF Inv, TypeOK
  <2> QED
    BY <2>1, Remainder DEF Tick
<1>3. sleep' \in 0 .. Interval \cup {NULL}
  BY InventoryAssumption DEF Tick, Inv, TypeOK
<1>4. /\ memory' \in Cached \cup {NULL}
      /\ memory' = memory \/ (memory # NULL /\ memory'.snap = memory.snap)
  BY DEF Tick, Inv, TypeOK, Aged, Cached
<1>5. /\ file' \in Payload \cup {NULL, Torn}
      /\ \/ file' = file
         \/ IsPayload(file) /\ file'.snap = file.snap /\ file'.print = file.print
  BY DEF Tick, Inv, TypeOK, Aged, Payload, IsPayload
<1>6. TypeOK'
  BY <1>1, <1>2, <1>3, <1>4, <1>5 DEF Inv, TypeOK
<1>7. ASSUME NEW b \in Refreshers PROVE JobOK(b)'
  BY <1>1 DEF Inv, JobOK, Underway
<1>8. GatewayOK' /\ ReloadOK' /\ MemoryOK'
  BY <1>1, <1>4 DEF Inv, GatewayOK, ReloadOK, MemoryOK, SameConfig
<1>9. FileOK' /\ AccountsForAll'
  BY <1>4, <1>5 DEF Inv, FileOK, AccountsForAll, IsPayload
<1> QED
  BY <1>6, <1>7, <1>8, <1>9 DEF Inv

(* An edit changes the configuration on disk only.                            *)
LEMMA EditOK == Inv /\ Edit => Inv'
BY DEF Edit, Inv, TypeOK, JobOK, Underway, GatewayOK, ReloadOK, MemoryOK, SameConfig,
  FileOK, AccountsForAll, IsPayload

(* Where nothing changes the invariant stays.                                 *)
LEMMA StutterOK == Inv /\ UNCHANGED vars => Inv'
BY DEF vars, Inv, TypeOK, JobOK, Underway, GatewayOK, ReloadOK, MemoryOK, SameConfig,
  FileOK, AccountsForAll, IsPayload

-----------------------------------------------------------------------------
(* The invariant *)

(* Every step keeps the invariant.                                            *)
LEMMA NextInv == Inv /\ [Next]_vars => Inv'
<1> SUFFICES ASSUME Inv, [Next]_vars PROVE Inv'
  OBVIOUS
<1>1. CASE Start \/ SchedulerWakes \/ ReloadConfig
  BY <1>1, StartOK, SchedulerWakesOK, ReloadConfigOK
<1>2. ASSUME NEW r \in Requests, RequestPlans(r) PROVE Inv'
  BY <1>2, RequestPlansOK
<1>3. ASSUME NEW c \in Commands, CommandRefreshes(c) PROVE Inv'
  BY <1>3, CommandRefreshesOK
<1>4. ASSUME NEW a \in Refreshers, Answered(a) \/ Saved(a) \/ Broken(a) PROVE Inv'
  BY <1>4, AnsweredOK, SavedOK, BrokenOK
<1>5. CASE Edit \/ Stop \/ Tick
  BY <1>5, EditOK, StopOK, TickOK
<1>6. CASE UNCHANGED vars
  BY <1>6, StutterOK
<1> QED
  BY <1>1, <1>2, <1>3, <1>4, <1>5, <1>6 DEF Next

(* The invariant holds throughout: see the top of the module.                 *)
THEOREM Safe == Spec => []Inv
<1> QED
  BY InitInv, NextInv, PTL DEF Spec

(* The state of the inventory has its type, whatever runs meanwhile: the      *)
(* clock, the files, the snapshots and the refreshes under way.               *)
THEOREM TypeCorrect == Spec => []TypeOK
<1>1. Inv => TypeOK
  BY DEF Inv
<1> QED
  BY <1>1, Safe, PTL

(* What current_snapshot serves is of the configuration the gateway loaded,   *)
(* but for a reload under way or failed, and a refresh one overtook.          *)
THEOREM MemoryAlwaysFollowsReload == Spec => []MemoryFollowsReload
<1>1. Inv => MemoryFollowsReload
  BY DEF Inv, MemoryOK, MemoryFollowsReload, SameConfig
<1> QED
  BY <1>1, Safe, PTL

(* However refreshes of the gateway and of commands overlap, one that no      *)
(* reload overtook reports every enabled provider, in memory and on disk.     *)
THEOREM AlwaysAccountsForAll == Spec => []AccountsForAll
<1>1. Inv => AccountsForAll
  BY DEF Inv
<1> QED
  BY <1>1, Safe, PTL

-----------------------------------------------------------------------------
(* The scheduler's sleep *)

(* WakesAtAnchor, whether or not the scheduler refreshes.                     *)
Due ==
  Day % Interval = 0 /\ sleep \notin {NULL, 0} =>
    Age((hour + sleep) % Day) = 0 /\ sleep <= Interval - Age(hour)

(* A scheduler that lies down sleeps until the next anchor.                   *)
LEMMA SleepsUntilAnchor ==
  ASSUME TypeOK, UNCHANGED hour, sleep' = HoursToNext(hour)
  PROVE  Due'
<1> SUFFICES ASSUME Day % Interval = 0
             PROVE  Age((hour + sleep') % Day) = 0 /\ sleep' <= Interval - Age(hour)
  BY DEF Due
<1>1. hour \in Int /\ Interval \in Nat
  BY InventoryAssumption DEF TypeOK
<1>2. Age(hour) \in Int /\ sleep' = Interval - Age(hour)
  BY <1>1, AgeInInterval DEF HoursToNext
<1>3. Age(hour + sleep') = 0
  BY <1>1, AgeAhead
<1>4. hour + sleep' \in Int
  BY <1>1, <1>2
<1> QED
  BY <1>1, <1>2, <1>3, <1>4, AgeThatDay

(* An hour slept brings it an hour closer.                                    *)
LEMMA TickDue == TypeOK /\ Due /\ Tick => Due'
<1> SUFFICES ASSUME TypeOK, Due, Tick, Day % Interval = 0, sleep' \notin {NULL, 0}
             PROVE  Age((hour' + sleep') % Day) = 0 /\ sleep' <= Interval - Age(hour')
  BY DEF Due
<1>1. /\ hour \in Int /\ hour + 1 \in Int /\ Day \in Nat \ {0} /\ Interval \in Nat
      /\ hour' = (hour + 1) % Day
  BY InventoryAssumption DEF TypeOK, Tick
<1>2. sleep \in 0 .. Interval /\ sleep \notin {NULL, 0} /\ sleep' = sleep - 1
  BY DEF TypeOK, Tick
<1>3. Age((hour + sleep) % Day) = 0 /\ sleep <= Interval - Age(hour)
  BY <1>2 DEF Due
<1>4. hour' \in Int /\ Age(hour') = Age(hour + 1)
  BY <1>1, AgeThatDay
<1>5. sleep' <= Interval - Age(hour')
  <2>1. Age(hour + 1) = Age(hour) + 1 \/ Age(hour + 1) = 0
    BY <1>1, AgeAhead
  <2>2. Age(hour) \in Int
    BY <1>1, AgeInInterval
  <2> QED
    BY <1>1, <1>2, <1>3, <1>4, <2>1, <2>2
<1>6. Age((hour' + sleep') % Day) = 0
  <2>1. /\ hour + sleep \in Int /\ hour' + sleep' \in Int
        /\ (hour + 1) + sleep' = hour + sleep
    BY <1>1, <1>2, <1>4
  <2>2. PICK q \in Int : hour + 1 = Day * q + hour'
    BY <1>1, Division
  <2>3. hour + sleep = Day * q + (hour' + sleep')
    <3>1. Day * q \in Int
      BY <1>1
    <3> QED
      BY <1>1, <1>2, <1>4, <2>1, <2>2, <3>1
  <2>4. Age(hour + sleep) = Age(hour' + sleep')
    BY <2>1, <2>3, AgeOfDay
  <2>5. /\ Age((hour + sleep) % Day) = Age(hour + sleep)
        /\ Age((hour' + sleep') % Day) = Age(hour' + sleep')
    BY <2>1, AgeThatDay
  <2> QED
    BY <1>3, <2>4, <2>5
<1> QED
  BY <1>5, <1>6

(* Every step keeps the scheduler due at an anchor.                           *)
LEMMA NextDue == TypeOK /\ Due /\ [Next]_vars => Due'
<1> SUFFICES ASSUME TypeOK, Due, [Next]_vars PROVE Due'
  OBVIOUS
<1>1. CASE Tick
  BY <1>1, TickDue
<1>2. ASSUME UNCHANGED <<hour, sleep>> PROVE Due'
  BY <1>2 DEF Due
<1>3. ASSUME sleep' = NULL PROVE Due'
  BY <1>3 DEF Due
<1>4. ASSUME NEW a \in Refreshers, Answered(a) \/ Saved(a) \/ Broken(a) PROVE Due'
  <2>1. UNCHANGED hour /\ (sleep' = sleep \/ sleep' = HoursToNext(hour))
    BY <1>4 DEF Answered, Saved, AfterRefresh, Broken, AfterFailure, SchedulerSleeps
  <2> QED
    BY <1>2, <2>1, SleepsUntilAnchor
<1>5. CASE Start \/ Stop
  BY <1>3, <1>5 DEF Start, Stop
<1>6. CASE SchedulerWakes \/ ReloadConfig \/ Edit \/ UNCHANGED vars
  BY <1>2, <1>6 DEF SchedulerWakes, ReloadConfig, Edit, vars
<1>7. ASSUME NEW r \in Requests, RequestPlans(r) PROVE Due'
  BY <1>2, <1>7 DEF RequestPlans
<1>8. ASSUME NEW c \in Commands, CommandRefreshes(c) PROVE Due'
  BY <1>2, <1>8 DEF CommandRefreshes
<1> QED
  BY <1>1, <1>4, <1>5, <1>6, <1>7, <1>8 DEF Next

(* With an interval that divides the day, a refresh begun at any hour leaves  *)
(* the scheduler asleep until the very next anchor, across midnight too.      *)
THEOREM AlwaysWakesAtAnchor == Spec => []WakesAtAnchor
<1>1. Init => Due
  BY DEF Init, Due
<1>2. Due => WakesAtAnchor
  BY DEF Due, WakesAtAnchor
<1> QED
  BY <1>1, <1>2, NextDue, TypeCorrect, PTL DEF Spec

-----------------------------------------------------------------------------
(* Lists *)

(* Some natural numbers have a least one.                                     *)
LEMMA LeastOne ==
  ASSUME NEW S, S \subseteq Nat, S # {}
  PROVE  \E x \in S : \A y \in S : x <= y
<1>1. IsWellFoundedOn(OpToRel(<, Nat), Nat)
  BY NatLessThanWellFounded, Zenon
<1>2. PICK x \in S : \A y \in S : <<y, x>> \notin OpToRel(<, Nat)
  BY <1>1, WFMin, Zenon
<1>3. \A y \in S : x <= y
  <2> SUFFICES ASSUME NEW y \in S, ~ (x <= y) PROVE FALSE
    OBVIOUS
  <2>1. y < x /\ x \in Nat /\ y \in Nat
    OBVIOUS
  <2>2. <<y, x>> \in OpToRel(<, Nat)
    BY <2>1, Zenon DEF OpToRel
  <2> QED
    BY <1>2, <2>2
<1> QED
  BY <1>3

(* What a loop starts with and every turn of it keeps, it ends with: the       *)
(* induction over the turns, for the set of the turns after which it holds.   *)
LEMMA LoopKeeps ==
  ASSUME NEW N \in Nat, NEW S, 0 \in S, \A n \in 1 .. N : n - 1 \in S => n \in S
  PROVE  \A n \in 0 .. N : n \in S
<1> DEFINE bad == {n \in 0 .. N : n \notin S}
<1>1. SUFFICES ASSUME bad # {} PROVE FALSE
  OBVIOUS
<1>2. bad \subseteq Nat
  OBVIOUS
<1>3. PICK m \in bad : \A y \in bad : m <= y
  <2> HIDE DEF bad
  <2> QED
    BY <1>1, <1>2, LeastOne
<1>4. m \in 1 .. N /\ m - 1 \in 0 .. N /\ ~ (m <= m - 1)
  <2>1. m # 0
    OBVIOUS
  <2> QED
    BY <2>1
<1>5. m - 1 \in S
  BY <1>3, <1>4
<1> QED
  BY <1>4, <1>5

-----------------------------------------------------------------------------
(* Arranging *)

(* before is a strict total order on D.                                       *)
IsOrder(before, D) ==
  /\ \A i \in D : <<i, i>> \notin before
  /\ \A i, j \in D : i = j \/ <<i, j>> \in before \/ <<j, i>> \in before
  /\ \A i, j, k \in D : <<i, j>> \in before /\ <<j, k>> \in before => <<i, k>> \in before

(* The list s is the values of e in order, its n-th the one of at[n].           *)
Arranges(s, e, before, at) ==
  /\ at \in [1 .. Len(s) -> DOMAIN e]
  /\ \A n \in 1 .. Len(s) : s[n] = e[at[n]]
  /\ \A i \in DOMAIN e : \E n \in 1 .. Len(s) : at[n] = i
  /\ \A m, n \in 1 .. Len(s) : m < n => <<at[m], at[n]>> \in before

(* The number of the arguments before one is its place: no two have the same,  *)
(* and none is left free.                                                     *)
LEMMA ArrangedInOrder ==
  ASSUME NEW T, NEW e, \A i \in DOMAIN e : e[i] \in T,
         IsFiniteSet(DOMAIN e), NEW before, IsOrder(before, DOMAIN e)
  PROVE  /\ Arranged(e, before) \in Seq(T)
         /\ \E at : Arranges(Arranged(e, before), e, before, at)
<1> DEFINE D == DOMAIN e
           N == Cardinality(D)
           pre(i) == {j \in D : <<j, i>> \in before}
           place == [i \in D |-> Cardinality(pre(i)) + 1]
           at == [n \in 1 .. N |-> CHOOSE i \in D : place[i] = n]
           s == [n \in 1 .. N |-> e[at[n]]]
<1>1. Arranged(e, before) = s
  BY DEF Arranged
<1>2. N \in Nat
  BY FS_CardinalityType
<1>3. \A i \in D : IsFiniteSet(pre(i)) /\ Cardinality(pre(i)) \in Nat
  <2> TAKE i \in D
  <2>1. pre(i) \in SUBSET D
    OBVIOUS
  <2> QED
    BY <2>1, FS_Subset, FS_CardinalityType
<1>4. \A i \in D : Cardinality(pre(i) \cup {i}) = Cardinality(pre(i)) + 1
  <2> TAKE i \in D
  <2>1. i \notin pre(i)
    BY DEF IsOrder
  <2> HIDE DEF pre
  <2> QED
    BY <1>3, <2>1, FS_AddElement
<1>5. \A i \in D : place[i] \in 1 .. N
  <2> TAKE i \in D
  <2>1. pre(i) \cup {i} \in SUBSET D
    OBVIOUS
  <2>2. Cardinality(pre(i) \cup {i}) <= N
    BY <2>1, FS_Subset
  <2>3. place[i] = Cardinality(pre(i)) + 1
    OBVIOUS
  <2> HIDE DEF pre, place
  <2> QED
    BY <1>2, <1>3, <1>4, <2>2, <2>3
<1>6. \A i, j \in D : <<i, j>> \in before => place[i] < place[j]
  <2> SUFFICES ASSUME NEW i \in D, NEW j \in D, <<i, j>> \in before
               PROVE  place[i] < place[j]
    OBVIOUS
  <2>1. pre(i) \cup {i} \in SUBSET pre(j)
    BY DEF IsOrder
  <2>2. Cardinality(pre(i) \cup {i}) <= Cardinality(pre(j))
    BY <1>3, <2>1, FS_Subset
  <2>3. place[i] = Cardinality(pre(i)) + 1 /\ place[j] = Cardinality(pre(j)) + 1
    OBVIOUS
  <2> HIDE DEF pre, place
  <2> QED
    BY <1>3, <1>4, <2>2, <2>3
<1> HIDE DEF pre
<1>7. \A i, j \in D : place[i] = place[j] => i = j
  <2> SUFFICES ASSUME NEW i \in D, NEW j \in D, place[i] = place[j] PROVE i = j
    OBVIOUS
  <2> HIDE DEF place
  <2>1. ~ (place[i] < place[j]) /\ ~ (place[j] < place[i])
    BY <1>5
  <2> QED
    BY <1>6, <2>1 DEF IsOrder
<1>8. place \in Injection(D, 1 .. N)
  <2>1. place \in [D -> 1 .. N]
    BY <1>5
  <2> HIDE DEF place
  <2> QED
    BY <1>7, <2>1, Fun_IsInj
<1>9. \A n \in 1 .. N : \E i \in D : place[i] = n
  <2>1. IsFiniteSet(1 .. N) /\ Cardinality(1 .. N) = N
    BY <1>2, FS_Interval
  <2>2. place \in Surjection(D, 1 .. N)
    <3> HIDE DEF place
    <3> QED
      BY <1>8, <2>1, FS_Injection
  <2> HIDE DEF place
  <2> QED
    BY <2>2 DEF Surjection
<1>10. \A n \in 1 .. N : at[n] \in D /\ place[at[n]] = n
  <2> HIDE DEF place
  <2> QED
    BY <1>9
<1> HIDE DEF place
<1>11. /\ at \in [1 .. N -> D]
       /\ \A i \in D : \E n \in 1 .. N : at[n] = i
  <2>1. \A i \in D : at[place[i]] = i
    <3> TAKE i \in D
    <3>1. at[place[i]] \in D /\ place[at[place[i]]] = place[i]
      <4> HIDE DEF at
      <4> QED
        BY <1>5, <1>10
    <3> HIDE DEF at
    <3> QED
      BY <1>7, <3>1
  <2>2. at \in [1 .. N -> D]
    BY <1>10
  <2> HIDE DEF at
  <2> QED
    BY <1>5, <2>1, <2>2
<1>12. \A m, n \in 1 .. N : m < n => <<at[m], at[n]>> \in before
  <2> HIDE DEF at
  <2> SUFFICES ASSUME NEW m \in 1 .. N, NEW n \in 1 .. N, m < n
               PROVE  <<at[m], at[n]>> \in before
    OBVIOUS
  <2>1. at[m] \in D /\ at[n] \in D /\ place[at[m]] = m /\ place[at[n]] = n
    BY <1>10
  <2>2. ~ (n < m) /\ m # n
    BY <1>2
  <2>3. <<at[n], at[m]>> \notin before
    BY <1>6, <2>1, <2>2
  <2> QED
    BY <2>1, <2>2, <2>3 DEF IsOrder
<1> HIDE DEF at
<1>13. s \in Seq(T) /\ Len(s) = N
  BY <1>2, <1>11
<1>14. \A n \in 1 .. N : s[n] = e[at[n]]
  OBVIOUS
<1> HIDE DEF s
<1>15. Arranges(s, e, before, at)
  BY <1>11, <1>12, <1>13, <1>14 DEF Arranges
<1> QED
  BY <1>1, <1>13, <1>15

-----------------------------------------------------------------------------
(* Parts of a list *)

Earlier(D) == {p \in D \X D : p[1] < p[2]}

(* Numbers are ordered.                                                       *)
LEMMA EarlierOrder ==
  ASSUME NEW D, D \subseteq Int
  PROVE  IsOrder(Earlier(D), D)
<1>1. \A i, j \in D : <<i, j>> \in Earlier(D) <=> i < j
  BY DEF Earlier
<1> QED
  BY <1>1 DEF IsOrder

(* The list part takes the values of e by number, its n-th being that of at[n]. *)
TakesUp(part, e, at) ==
  /\ at \in [1 .. Len(part) -> DOMAIN e]
  /\ \A n \in 1 .. Len(part) : part[n] = e[at[n]]
  /\ \A i \in DOMAIN e : \E n \in 1 .. Len(part) : at[n] = i
  /\ \A m, n \in 1 .. Len(part) : m < n => at[m] < at[n]

(* What a function on numbers lists: its values, each at one place, by        *)
(* number.                                                                    *)
LEMMA ListedInOrder ==
  ASSUME NEW T, NEW N \in Nat, NEW e, DOMAIN e \subseteq 1 .. N,
         \A i \in DOMAIN e : e[i] \in T
  PROVE  /\ Listed(e) \in Seq(T)
         /\ \E at : TakesUp(Listed(e), e, at)
<1> DEFINE D == DOMAIN e
<1>1. IsFiniteSet(D)
  <2>1. IsFiniteSet(1 .. N) /\ D \in SUBSET (1 .. N)
    BY FS_Interval
  <2> QED
    BY <2>1, FS_Subset
<1>2. IsOrder(Earlier(D), D) /\ Listed(e) = Arranged(e, Earlier(D))
  <2>1. D \subseteq Int
    OBVIOUS
  <2> QED
    BY <2>1, EarlierOrder DEF Listed, Earlier
<1>3. /\ Listed(e) \in Seq(T)
      /\ \E at : Arranges(Listed(e), e, Earlier(D), at)
  BY <1>1, <1>2, ArrangedInOrder
<1>4. PICK at : Arranges(Listed(e), e, Earlier(D), at)
  BY <1>3
<1>5. TakesUp(Listed(e), e, at)
  <2>1. \A m, n \in 1 .. Len(Listed(e)) : m < n => at[m] < at[n]
    BY <1>4 DEF Arranges, Earlier
  <2> QED
    BY <1>4, <2>1 DEF Arranges, TakesUp
<1> QED
  BY <1>3, <1>5

(* The list part takes the elements of s at these places, in the order of s.   *)
PicksUp(part, s, places, at) ==
  /\ at \in [1 .. Len(part) -> places]
  /\ \A n \in 1 .. Len(part) : part[n] = s[at[n]]
  /\ \A i \in places : \E n \in 1 .. Len(part) : at[n] = i
  /\ \A m, n \in 1 .. Len(part) : m < n => at[m] < at[n]

(* A part of a list has its elements at the places kept, in the order of the  *)
(* list.                                                                      *)
LEMMA KeptInOrder ==
  ASSUME NEW T, NEW s \in Seq(T), NEW places, places \subseteq 1 .. Len(s)
  PROVE  /\ Kept(s, places) \in Seq(T)
         /\ \E at : PicksUp(Kept(s, places), s, places, at)
<1> DEFINE e == [i \in places |-> s[i]]
<1>1. Len(s) \in Nat /\ DOMAIN e = places /\ \A i \in places : e[i] = s[i] /\ e[i] \in T
  OBVIOUS
<1>2. Kept(s, places) = Listed(e)
  BY DEF Kept
<1> HIDE DEF e
<1>3. Listed(e) \in Seq(T) /\ \E at : TakesUp(Listed(e), e, at)
  BY <1>1, ListedInOrder
<1>4. PICK at : TakesUp(Listed(e), e, at)
  BY <1>3
<1>5. PicksUp(Listed(e), s, places, at)
  BY <1>1, <1>4 DEF TakesUp, PicksUp
<1> QED
  BY <1>2, <1>3, <1>5

(* The elements of a list are what stands at its places.                      *)
LEMMA Elements ==
  ASSUME NEW T, NEW s \in Seq(T)
  PROVE  /\ \A x : x \in ToSet(s) <=> \E i \in 1 .. Len(s) : s[i] = x
         /\ ToSet(s) \subseteq T
BY DEF ToSet

(* The elements of a part are those at the places kept.                       *)
LEMMA KeptElements ==
  ASSUME NEW T, NEW s \in Seq(T), NEW places, places \subseteq 1 .. Len(s)
  PROVE  /\ Kept(s, places) \in Seq(T)
         /\ ToSet(Kept(s, places)) = {s[i] : i \in places}
<1>1. Kept(s, places) \in Seq(T) /\ \E at : PicksUp(Kept(s, places), s, places, at)
  BY KeptInOrder
<1> DEFINE part == Kept(s, places)
<1> HIDE DEF part
<1>2. PICK at : PicksUp(part, s, places, at)
  BY <1>1 DEF part
<1>3. part \in Seq(T)
  BY <1>1 DEF part
<1>4. \A x : x \in ToSet(part) <=> \E i \in places : s[i] = x
  <2>1. \A x : x \in ToSet(part) <=> \E i \in 1 .. Len(part) : part[i] = x
    BY <1>3, Elements
  <2>2. \A n \in 1 .. Len(part) : at[n] \in places /\ part[n] = s[at[n]]
    BY <1>2 DEF PicksUp
  <2>3. \A i \in places : \E n \in 1 .. Len(part) : at[n] = i
    BY <1>2 DEF PicksUp
  <2>4. \A i \in places : \E n \in 1 .. Len(part) : part[n] = s[i]
    BY <2>2, <2>3
  <2> SUFFICES ASSUME NEW x
               PROVE  x \in ToSet(part) <=> \E i \in places : s[i] = x
    OBVIOUS
  <2>5. ASSUME NEW n \in 1 .. Len(part), part[n] = x PROVE \E i \in places : s[i] = x
    BY <2>2, <2>5
  <2>6. ASSUME NEW i \in places, s[i] = x PROVE \E n \in 1 .. Len(part) : part[n] = x
    BY <2>4, <2>6
  <2> QED
    BY <2>1, <2>5, <2>6
<1>5. ToSet(part) = {s[i] : i \in places}
  BY <1>4
<1> QED
  BY <1>3, <1>5 DEF part

(* The elements of s that are in F come before the others.                    *)
Leads(F, s) == \A i, j \in 1 .. Len(s) : i < j /\ s[j] \in F => s[i] \in F

(* What comes first in a list comes first in each of its parts.               *)
LEMMA KeptLeads ==
  ASSUME NEW T, NEW s \in Seq(T), NEW places, places \subseteq 1 .. Len(s),
         NEW F, Leads(F, s)
  PROVE  Leads(F, Kept(s, places))
<1> DEFINE part == Kept(s, places)
<1>1. PICK at : PicksUp(part, s, places, at)
  BY KeptInOrder
<1> HIDE DEF part
<1>2. \A i, j \in 1 .. Len(part) : i < j => at[i] \in 1 .. Len(s) /\ at[j] \in 1 .. Len(s)
                                             /\ at[i] < at[j]
  BY <1>1 DEF PicksUp
<1>3. Leads(F, part)
  BY <1>1, <1>2 DEF PicksUp, Leads
<1> QED
  BY <1>3 DEF part

Firsts(s) == {i \in 1 .. Len(s) : \A j \in 1 .. i - 1 : s[j] # s[i]}

(* A list without repetitions has the elements of the list.                   *)
LEMMA DedupeElements ==
  ASSUME NEW T, NEW s \in Seq(T)
  PROVE  /\ Dedupe(s) \in Seq(T)
         /\ Dedupe(s) = Kept(s, Firsts(s)) /\ Firsts(s) \subseteq 1 .. Len(s)
         /\ ToSet(Dedupe(s)) = ToSet(s)
<1>1. Dedupe(s) = Kept(s, Firsts(s)) /\ Firsts(s) \subseteq 1 .. Len(s)
  <2>1. DOMAIN s = 1 .. Len(s)
    OBVIOUS
  <2> QED
    BY <2>1 DEF Dedupe, Firsts
<1>2. /\ Dedupe(s) \in Seq(T)
      /\ ToSet(Dedupe(s)) = {s[i] : i \in Firsts(s)}
  BY <1>1, KeptElements
<1>3. \A x : x \in ToSet(s) <=> \E i \in 1 .. Len(s) : s[i] = x
  BY Elements
<1>4. \A i \in 1 .. Len(s) : \E j \in Firsts(s) : s[j] = s[i]
  <2> TAKE i \in 1 .. Len(s)
  <2> DEFINE same == {j \in 1 .. Len(s) : s[j] = s[i]}
  <2>1. same \subseteq Nat /\ same # {}
    OBVIOUS
  <2>2. PICK j \in same : \A k \in same : j <= k
    <3> HIDE DEF same
    <3> QED
      BY <2>1, LeastOne
  <2>3. \A k \in 1 .. j - 1 : k \notin same
    BY <2>2
  <2>4. j \in Firsts(s)
    BY <2>2, <2>3 DEF Firsts
  <2> QED
    BY <2>2, <2>4
<1> QED
  BY <1>1, <1>2, <1>3, <1>4

(* If an element in F either has no others before it or is there before them    *)
(* already, those in F come first once repetitions are gone.                  *)
LEMMA DedupeLeads ==
  ASSUME NEW T, NEW s \in Seq(T), NEW F,
         \A p, q \in 1 .. Len(s) :
           p < q /\ s[q] \in F => s[p] \in F \/ \E r \in 1 .. q - 1 : s[r] = s[q]
  PROVE  Leads(F, Dedupe(s))
<1> DEFINE part == Dedupe(s)
<1>1. part = Kept(s, Firsts(s)) /\ Firsts(s) \subseteq 1 .. Len(s)
  BY DedupeElements
<1>2. PICK at : PicksUp(part, s, Firsts(s), at)
  BY <1>1, KeptInOrder
<1> HIDE DEF part
<1>3. Leads(F, part)
  <2> SUFFICES ASSUME NEW i \in 1 .. Len(part), NEW j \in 1 .. Len(part), i < j, part[j] \in F
               PROVE  part[i] \in F
    BY DEF Leads
  <2>1. at[i] \in 1 .. Len(s) /\ at[j] \in Firsts(s) /\ at[i] < at[j]
        /\ part[i] = s[at[i]] /\ part[j] = s[at[j]]
    BY <1>1, <1>2 DEF PicksUp
  <2>2. at[j] \in 1 .. Len(s) /\ \A r \in 1 .. at[j] - 1 : s[r] # s[at[j]]
    BY <2>1 DEF Firsts
  <2> QED
    BY <2>1, <2>2
<1> QED
  BY <1>3 DEF part

-----------------------------------------------------------------------------
(* Sorting *)

(* Tuples of numbers of one length are in a strict total order.                *)
LEMMA AboveOrder ==
  ASSUME NEW w \in Nat, NEW a \in [1 .. w -> Int], NEW b \in [1 .. w -> Int],
         NEW c \in [1 .. w -> Int]
  PROVE  /\ ~ Above(a, a)
         /\ Above(a, b) \/ Above(b, a) \/ a = b
         /\ ~ (Above(a, b) /\ Above(b, a))
         /\ Above(a, b) /\ Above(b, c) => Above(a, c)
<1> DEFINE better(x, y, i) == x[i] > y[i] /\ \A j \in 1 .. i - 1 : x[j] = y[j]
<1>1. /\ Above(a, a) <=> \E i \in 1 .. w : better(a, a, i)
      /\ Above(a, b) <=> \E i \in 1 .. w : better(a, b, i)
      /\ Above(b, a) <=> \E i \in 1 .. w : better(b, a, i)
      /\ Above(b, c) <=> \E i \in 1 .. w : better(b, c, i)
      /\ Above(a, c) <=> \E i \in 1 .. w : better(a, c, i)
  BY DEF Above
<1>2. ~ Above(a, a)
  BY <1>1
<1>3. Above(a, b) \/ Above(b, a) \/ a = b
  <2> DEFINE apart == {i \in 1 .. w : a[i] # b[i]}
  <2>1. CASE apart = {}
    <3>1. \A i \in 1 .. w : a[i] = b[i]
      BY <2>1
    <3>2. a = [i \in 1 .. w |-> a[i]] /\ b = [i \in 1 .. w |-> b[i]]
      OBVIOUS
    <3> QED
      BY <3>1, <3>2
  <2>2. CASE apart # {}
    <3>1. apart \subseteq Nat
      OBVIOUS
    <3>2. PICK i \in apart : \A j \in apart : i <= j
      <4> HIDE DEF apart
      <4> QED
        BY <2>2, <3>1, LeastOne
    <3>3. \A j \in 1 .. i - 1 : j \notin apart /\ j \in 1 .. w
      BY <3>2
    <3>4. \A j \in 1 .. i - 1 : a[j] = b[j]
      BY <3>3
    <3>5. i \in 1 .. w /\ (a[i] > b[i] \/ b[i] > a[i])
      BY <3>2
    <3> QED
      BY <1>1, <3>4, <3>5
  <2> QED
    BY <2>1, <2>2
<1>4. \A i, j \in 1 .. w : better(a, b, i) /\ better(b, c, j) => Above(a, c)
  <2> SUFFICES ASSUME NEW i \in 1 .. w, NEW j \in 1 .. w, better(a, b, i), better(b, c, j)
               PROVE  \E n \in 1 .. w : better(a, c, n)
    BY <1>1
  <2>1. CASE i < j
    <3>1. i \in 1 .. j - 1
      BY <2>1
    <3>2. \A n \in 1 .. i - 1 : n \in 1 .. j - 1
      BY <2>1
    <3> QED
      BY <3>1, <3>2
  <2>2. CASE i = j
    BY <2>2
  <2>3. CASE j < i
    <3>1. j \in 1 .. i - 1
      BY <2>3
    <3>2. \A n \in 1 .. j - 1 : n \in 1 .. i - 1
      BY <2>3
    <3> QED
      BY <3>1, <3>2
  <2> QED
    BY <2>1, <2>2, <2>3
<1>5. \A i, j \in 1 .. w : ~ (better(a, b, i) /\ better(b, a, j))
  <2> SUFFICES ASSUME NEW i \in 1 .. w, NEW j \in 1 .. w, better(a, b, i), better(b, a, j)
               PROVE  FALSE
    OBVIOUS
  <2>1. i \in 1 .. j - 1 \/ j \in 1 .. i - 1 \/ i = j
    OBVIOUS
  <2> QED
    BY <2>1
<1> QED
  BY <1>1, <1>2, <1>3, <1>4, <1>5

(* Sorting keeps the elements.                                                *)
LEMMA RankedElements ==
  ASSUME NEW T, NEW s \in Seq(T), NEW w \in Nat, NEW k,
         \A i \in 1 .. Len(s) : k[i] \in [1 .. w -> Int]
  PROVE  /\ Ranked(s, k) \in Seq(T)
         /\ ToSet(Ranked(s, k)) = ToSet(s)
<1> DEFINE D == DOMAIN s
           first(i, j) == Above(k[i], k[j]) \/ (~ Above(k[j], k[i]) /\ i < j)
           before == {p \in D \X D : first(p[1], p[2])}
           ranked == Ranked(s, k)
<1>1. D = 1 .. Len(s) /\ Len(s) \in Nat /\ \A i \in D : s[i] \in T
  OBVIOUS
<1>2. ranked = Arranged(s, before)
  BY DEF Ranked
<1>3. \A i, j \in D : <<i, j>> \in before <=> first(i, j)
  OBVIOUS
<1>4. IsOrder(before, D)
  <2> HIDE DEF D, before
  <2>1. \A i \in D : ~ first(i, i)
    <3> TAKE i \in D
    <3>1. k[i] \in [1 .. w -> Int] /\ ~ (i < i)
      BY <1>1
    <3>2. ~ Above(k[i], k[i])
      BY <3>1, AboveOrder
    <3> QED
      BY <3>1, <3>2
  <2>2. \A i, j \in D : i = j \/ first(i, j) \/ first(j, i)
    BY <1>1, AboveOrder
  <2>3. ASSUME NEW i \in D, NEW j \in D, NEW n \in D, first(i, j), first(j, n)
        PROVE  first(i, n)
    <3>0. k[i] \in [1 .. w -> Int] /\ k[j] \in [1 .. w -> Int] /\ k[n] \in [1 .. w -> Int]
      BY <1>1
    <3>1. CASE Above(k[i], k[j])
      <4>1. Above(k[j], k[n]) \/ k[j] = k[n]
        BY <2>3, <3>0, AboveOrder
      <4> QED
        BY <3>0, <3>1, <4>1, AboveOrder
    <3>2. CASE ~ Above(k[i], k[j])
      <4>1. k[i] = k[j] /\ i < j
        BY <2>3, <3>0, <3>2, AboveOrder
      <4>2. CASE Above(k[j], k[n])
        BY <4>1, <4>2
      <4>3. CASE ~ Above(k[j], k[n])
        <5>1. ~ Above(k[n], k[j]) /\ j < n
          BY <2>3, <4>3
        <5> QED
          BY <1>1, <4>1, <5>1
      <4> QED
        BY <4>2, <4>3
    <3> QED
      BY <3>1, <3>2
  <2> HIDE DEF first
  <2> QED
    BY <1>3, <2>1, <2>2, <2>3 DEF IsOrder
<1>5. IsFiniteSet(D)
  <2>1. IsFiniteSet(1 .. Len(s))
    BY <1>1, FS_Interval
  <2> QED
    BY <1>1, <2>1
<1> HIDE DEF before, ranked
<1>6. ranked \in Seq(T) /\ \E at : Arranges(ranked, s, before, at)
  BY <1>1, <1>2, <1>4, <1>5, ArrangedInOrder
<1>7. PICK at : Arranges(ranked, s, before, at)
  BY <1>6
<1>8. /\ \A n \in 1 .. Len(ranked) : at[n] \in D /\ ranked[n] = s[at[n]]
      /\ \A i \in D : \E n \in 1 .. Len(ranked) : at[n] = i
  BY <1>7 DEF Arranges
<1>9. \A x : x \in ToSet(ranked) <=> x \in ToSet(s)
  <2>1. /\ \A x : x \in ToSet(ranked) <=> \E n \in 1 .. Len(ranked) : ranked[n] = x
        /\ \A x : x \in ToSet(s) <=> \E i \in D : s[i] = x
    BY <1>1, <1>6, Elements
  <2> HIDE DEF D
  <2> SUFFICES ASSUME NEW x PROVE x \in ToSet(ranked) <=> x \in ToSet(s)
    OBVIOUS
  <2>2. ASSUME NEW n \in 1 .. Len(ranked), ranked[n] = x PROVE \E i \in D : s[i] = x
    BY <1>8, <2>2
  <2>3. ASSUME NEW i \in D, s[i] = x PROVE \E n \in 1 .. Len(ranked) : ranked[n] = x
    <3>1. PICK n \in 1 .. Len(ranked) : at[n] = i
      BY <1>8
    <3> QED
      BY <1>8, <2>3, <3>1
  <2> QED
    BY <2>1, <2>2, <2>3
<1>10. ToSet(ranked) = ToSet(s)
  BY <1>9
<1> QED
  BY <1>6, <1>10 DEF ranked

-----------------------------------------------------------------------------
(* Lists one after the other *)

PlacesOf(lists) == UNION {{i} \X (DOMAIN lists[i]) : i \in DOMAIN lists}

(* The list all holds the elements of lists[1], then those of lists[2] ...      *)
RunsThrough(all, lists, at) ==
  /\ \A n \in 1 .. Len(all) :
       /\ at[n] \in Int \X Int
       /\ at[n][1] \in 1 .. Len(lists) /\ at[n][2] \in 1 .. Len(lists[at[n][1]])
       /\ all[n] = lists[at[n][1]][at[n][2]]
  /\ \A i \in 1 .. Len(lists) : \A j \in 1 .. Len(lists[i]) :
       \E n \in 1 .. Len(all) : at[n] = <<i, j>>
  /\ \A m, n \in 1 .. Len(all) : m < n => at[m][1] <= at[n][1]

(* A list of lists has finitely many places.                                  *)
LEMMA PlacesFinite ==
  ASSUME NEW T, NEW lists \in Seq(Seq(T))
  PROVE  /\ IsFiniteSet(PlacesOf(lists))
         /\ \A at : at \in PlacesOf(lists) <=>
              \E i \in 1 .. Len(lists) : \E j \in 1 .. Len(lists[i]) : at = <<i, j>>
<1> DEFINE N == Len(lists)
           row(i) == {i} \X (DOMAIN lists[i])
           rows == {row(i) : i \in 1 .. N}
<1>1. N \in Nat /\ DOMAIN lists = 1 .. N /\ \A i \in 1 .. N : lists[i] \in Seq(T)
  OBVIOUS
<1>2. \A i \in 1 .. N : IsFiniteSet(row(i))
  <2> TAKE i \in 1 .. N
  <2>1. DOMAIN lists[i] = 1 .. Len(lists[i]) /\ Len(lists[i]) \in Nat
    BY <1>1
  <2>2. IsFiniteSet(1 .. Len(lists[i]))
    BY <2>1, FS_Interval
  <2>3. IsFiniteSet({i})
    BY FS_Singleton
  <2>4. IsFiniteSet({i} \X (1 .. Len(lists[i])))
    BY <2>2, <2>3, FS_Product
  <2> QED
    BY <2>1, <2>4
<1>3. IsFiniteSet(rows)
  <2> DEFINE f == [i \in 1 .. N |-> row(i)]
  <2>1. f \in Surjection(1 .. N, rows)
    <3>1. f \in [1 .. N -> rows]
      OBVIOUS
    <3>2. \A t \in rows : \E i \in 1 .. N : f[i] = t
      OBVIOUS
    <3> HIDE DEF f, rows
    <3> QED
      BY <3>1, <3>2 DEF Surjection
  <2>2. IsFiniteSet(1 .. N)
    BY <1>1, FS_Interval
  <2> HIDE DEF f, rows
  <2> QED
    BY <2>1, <2>2, FS_Surjection
<1>4. PlacesOf(lists) = UNION rows
  BY <1>1 DEF PlacesOf
<1>5. IsFiniteSet(UNION rows)
  <2>1. \A t \in rows : IsFiniteSet(t)
    BY <1>2
  <2> HIDE DEF rows
  <2> QED
    BY <1>3, <2>1, FS_UNION
<1>6. \A at : at \in UNION rows <=> \E i \in 1 .. N : \E j \in 1 .. Len(lists[i]) : at = <<i, j>>
  <2>1. \A i \in 1 .. N : DOMAIN lists[i] = 1 .. Len(lists[i])
    BY <1>1
  <2>2. \A at : at \in UNION rows <=> \E i \in 1 .. N : at \in row(i)
    OBVIOUS
  <2>3. \A i \in 1 .. N : \A at : at \in row(i) <=> \E j \in 1 .. Len(lists[i]) : at = <<i, j>>
    BY <2>1
  <2> HIDE DEF rows, row, N
  <2> QED
    BY <2>2, <2>3
<1> QED
  BY <1>4, <1>5, <1>6

(* Lists put together have the elements of each, the earlier lists' first.    *)
LEMMA ConcatInOrder ==
  ASSUME NEW T, NEW lists \in Seq(Seq(T))
  PROVE  /\ Concat(lists) \in Seq(T)
         /\ \E at : RunsThrough(Concat(lists), lists, at)
<1> DEFINE P == PlacesOf(lists)
           e == [at \in P |-> lists[at[1]][at[2]]]
           before == {p \in P \X P : Above(p[2], p[1])}
           all == Arranged(e, before)
<1>1. Concat(lists) = all
  BY DEF Concat, PlacesOf
<1>2. /\ IsFiniteSet(P)
      /\ \A at : at \in P <=>
           \E i \in 1 .. Len(lists) : \E j \in 1 .. Len(lists[i]) : at = <<i, j>>
  BY PlacesFinite
<1> HIDE DEF P
<1>3. \A at \in P : /\ at \in Int \X Int /\ at \in [1 .. 2 -> Int]
                    /\ at[1] \in 1 .. Len(lists) /\ at[2] \in 1 .. Len(lists[at[1]])
  <2> TAKE at \in P
  <2>1. PICK i \in 1 .. Len(lists), j \in Int : j \in 1 .. Len(lists[i]) /\ at = <<i, j>>
    BY <1>2
  <2> QED
    BY <2>1
<1>4. DOMAIN e = P /\ \A at \in P : e[at] \in T /\ e[at] = lists[at[1]][at[2]]
  BY <1>3
<1>5. \A a, b \in P : <<a, b>> \in before <=> Above(b, a)
  OBVIOUS
<1>6. IsOrder(before, P)
  <2> HIDE DEF before
  <2>1. \A a \in P : ~ Above(a, a)
    BY <1>3, AboveOrder
  <2>2. \A a, b \in P : a = b \/ Above(b, a) \/ Above(a, b)
    BY <1>3, AboveOrder
  <2>3. \A a, b, c \in P : Above(b, a) /\ Above(c, b) => Above(c, a)
    BY <1>3, AboveOrder
  <2> QED
    BY <1>5, <2>1, <2>2, <2>3 DEF IsOrder
<1> HIDE DEF e, before
<1>7. all \in Seq(T) /\ \E at : Arranges(all, e, before, at)
  BY <1>2, <1>4, <1>6, ArrangedInOrder
<1>8. PICK at : Arranges(all, e, before, at)
  BY <1>7
<1> HIDE DEF all
<1>9. \A n \in 1 .. Len(all) : at[n] \in P /\ all[n] = lists[at[n][1]][at[n][2]]
  BY <1>4, <1>8 DEF Arranges
<1>10. \A p \in P : \E n \in 1 .. Len(all) : at[n] = p
  BY <1>4, <1>8 DEF Arranges
<1>11. \A m, n \in 1 .. Len(all) : m < n => at[m][1] <= at[n][1]
  <2> SUFFICES ASSUME NEW m \in 1 .. Len(all), NEW n \in 1 .. Len(all), m < n
               PROVE  at[m][1] <= at[n][1]
    OBVIOUS
  <2>1. at[m] \in P /\ at[n] \in P /\ <<at[m], at[n]>> \in before
    BY <1>4, <1>8 DEF Arranges
  <2>2. Above(at[n], at[m])
    BY <1>5, <2>1
  <2>3. at[m] \in [1 .. 2 -> Int] /\ at[n] \in [1 .. 2 -> Int]
    BY <1>3, <2>1
  <2>4. at[n][1] > at[m][1] \/ at[n][1] = at[m][1]
    <3>1. PICK i \in 1 .. 2 : at[n][i] > at[m][i] /\ \A j \in 1 .. i - 1 : at[n][j] = at[m][j]
      BY <2>2, <2>3 DEF Above
    <3>2. CASE i = 1
      BY <3>1, <3>2
    <3>3. CASE i = 2
      <4>1. 1 \in 1 .. i - 1
        BY <3>3
      <4> QED
        BY <3>1, <4>1
    <3> QED
      BY <3>2, <3>3
  <2> QED
    BY <2>3, <2>4
<1>12. RunsThrough(all, lists, at)
  BY <1>2, <1>3, <1>9, <1>10, <1>11 DEF RunsThrough
<1> QED
  BY <1>1, <1>7, <1>12

(* The elements of lists put together are those of the lists.                 *)
LEMMA ConcatElements ==
  ASSUME NEW T, NEW lists \in Seq(Seq(T))
  PROVE  /\ Concat(lists) \in Seq(T)
         /\ ToSet(Concat(lists)) = UNION {ToSet(lists[i]) : i \in 1 .. Len(lists)}
<1> DEFINE all == Concat(lists)
<1>1. all \in Seq(T) /\ \E at : RunsThrough(all, lists, at)
  BY ConcatInOrder
<1> HIDE DEF all
<1>2. PICK at : RunsThrough(all, lists, at)
  BY <1>1
<1>3. \A x : x \in ToSet(all) <=> \E n \in 1 .. Len(all) : all[n] = x
  BY <1>1, Elements
<1>4. \A i \in 1 .. Len(lists) : \A x :
        x \in ToSet(lists[i]) <=> \E j \in 1 .. Len(lists[i]) : lists[i][j] = x
  <2> TAKE i \in 1 .. Len(lists)
  <2>1. lists[i] \in Seq(T)
    OBVIOUS
  <2> QED
    BY <2>1, Elements
<1>5. ASSUME NEW x, NEW n \in 1 .. Len(all), all[n] = x
      PROVE  \E i \in 1 .. Len(lists) : x \in ToSet(lists[i])
  <2> DEFINE i == at[n][1]
             j == at[n][2]
  <2>1. i \in 1 .. Len(lists) /\ j \in 1 .. Len(lists[i]) /\ lists[i][j] = x
    BY <1>2, <1>5 DEF RunsThrough
  <2> HIDE DEF i, j
  <2>2. x \in ToSet(lists[i])
    BY <1>4, <2>1
  <2> QED
    BY <2>1, <2>2
<1>6. ASSUME NEW x, NEW i \in 1 .. Len(lists), x \in ToSet(lists[i])
      PROVE  \E n \in 1 .. Len(all) : all[n] = x
  <2>1. PICK j \in 1 .. Len(lists[i]) : lists[i][j] = x
    BY <1>4, <1>6
  <2>2. PICK n \in 1 .. Len(all) : at[n] = <<i, j>>
    BY <1>2 DEF RunsThrough
  <2>3. all[n] = lists[at[n][1]][at[n][2]]
    BY <1>2 DEF RunsThrough
  <2> QED
    BY <2>1, <2>2, <2>3
<1>7. ToSet(all) = UNION {ToSet(lists[i]) : i \in 1 .. Len(lists)}
  BY <1>3, <1>5, <1>6
<1> QED
  BY <1>1, <1>7 DEF all

-----------------------------------------------------------------------------
(* Overrides *)

(* What the loop of Overridden has after each of the first n overrides.         *)
OverriddenUpTo(m, overrides, after, n) ==
  after = [k \in 0 .. n |-> IF k = 0 THEN m ELSE OverrideModel(after[k - 1], overrides[k])]

(* The operator's overrides can be applied one after the other, however many  *)
(* they are.                                                                  *)
LEMMA OverriddenDefined ==
  ASSUME NEW m, NEW overrides, NEW N \in Nat
  PROVE  \E after : OverriddenUpTo(m, overrides, after, N)
<1> DEFINE S == {n \in 0 .. N : \E after : OverriddenUpTo(m, overrides, after, n)}
<1>1. 0 \in S
  <2>1. OverriddenUpTo(m, overrides, [k \in 0 .. 0 |-> m], 0)
    BY DEF OverriddenUpTo
  <2> QED
    BY <2>1
<1>2. ASSUME NEW n \in 1 .. N, n - 1 \in S PROVE n \in S
  <2>1. PICK after : OverriddenUpTo(m, overrides, after, n - 1)
    BY <1>2
  <2> DEFINE more == [k \in 0 .. n |-> IF k < n THEN after[k]
                                       ELSE OverrideModel(after[n - 1], overrides[n])]
  <2>2. \A k \in 0 .. n :
          more[k] = IF k = 0 THEN m ELSE OverrideModel(more[k - 1], overrides[k])
    <3> TAKE k \in 0 .. n
    <3>1. CASE k = n
      <4>1. more[k] = OverrideModel(after[n - 1], overrides[n]) /\ more[k - 1] = after[n - 1]
        BY <3>1
      <4> QED
        BY <3>1, <4>1
    <3>2. CASE k # n
      <4>1. k \in 0 .. n - 1 /\ more[k] = after[k] /\ (k # 0 => more[k - 1] = after[k - 1])
        BY <3>2
      <4>2. after[k] = IF k = 0 THEN m ELSE OverrideModel(after[k - 1], overrides[k])
        BY <2>1, <4>1 DEF OverriddenUpTo
      <4> HIDE DEF more
      <4> QED
        BY <4>1, <4>2
    <3> QED
      BY <3>1, <3>2
  <2>3. more = [k \in 0 .. n |-> more[k]]
    OBVIOUS
  <2> HIDE DEF more
  <2>4. OverriddenUpTo(m, overrides, more, n)
    BY <2>2, <2>3 DEF OverriddenUpTo
  <2> QED
    BY <2>4
<1> HIDE DEF S
<1>3. N \in S
  BY <1>1, <1>2, LoopKeeps
<1> QED
  BY <1>3 DEF S

(* A model keeps its name whatever is decided about it.                       *)
Describes(x, provider, id) ==
  /\ x = [f \in DOMAIN x |-> x[f]]
  /\ {"provider", "id", "modality", "chat", "text", "excluded", "keys"} \subseteq DOMAIN x
  /\ x.provider = provider /\ x.id = id
  /\ x.text \in BOOLEAN

(* An override changes neither the provider nor the id of a model.            *)
LEMMA OverrideKeepsName ==
  ASSUME NEW x, NEW provider, NEW id, Describes(x, provider, id), NEW o
  PROVE  Describes(OverrideModel(x, o), provider, id)
<1> DEFINE text == [x EXCEPT !.modality = "text", !.text = TRUE, !.chat = TRUE,
                             !.excluded = IF @ = "non_text_modality" THEN NULL ELSE @]
           media == [x EXCEPT !.modality = o.modality, !.text = FALSE, !.chat = FALSE,
                              !.excluded = "manual_override_modality"]
           forced == CASE o.modality = NULL -> x [] o.modality = "text" -> text [] OTHER -> media
           included == IF o.include /\ forced.modality = "text"
                       THEN [forced EXCEPT !.text = TRUE, !.excluded = NULL] ELSE forced
           excluded == [included EXCEPT !.text = FALSE, !.excluded = "manual_override_exclude"]
<1>1. OverrideModel(x, o) = IF ~ Matches(o, x) THEN x ELSE IF o.exclude THEN excluded ELSE included
  BY DEF OverrideModel
<1>2. Describes(forced, provider, id)
  <2>1. Describes(text, provider, id) /\ Describes(media, provider, id)
    BY DEF Describes
  <2> HIDE DEF text, media
  <2>2. forced \in {x, text, media}
    BY Zenon
  <2> HIDE DEF forced
  <2> QED
    BY <2>1, <2>2
<1> HIDE DEF forced
<1>3. Describes(included, provider, id)
  BY <1>2 DEF Describes
<1> HIDE DEF included
<1>4. Describes(excluded, provider, id)
  BY <1>3 DEF Describes
<1> HIDE DEF excluded
<1> QED
  BY <1>1, <1>3, <1>4

(* Nor do all of them.                                                        *)
LEMMA OverriddenKeepsName ==
  ASSUME NEW m, NEW provider, NEW id, Describes(m, provider, id),
         NEW overrides, Len(overrides) \in Nat
  PROVE  Describes(Overridden(m, overrides), provider, id)
<1> DEFINE N == Len(overrides)
           after == CHOOSE f : OverriddenUpTo(m, overrides, f, N)
           S == {n \in 0 .. N : Describes(after[n], provider, id)}
<1>1. Overridden(m, overrides) = after[N]
  BY DEF Overridden, OverriddenUpTo
<1>2. OverriddenUpTo(m, overrides, after, N)
  BY OverriddenDefined
<1> HIDE DEF after
<1>3. \A k \in 0 .. N :
        after[k] = IF k = 0 THEN m ELSE OverrideModel(after[k - 1], overrides[k])
  BY <1>2 DEF OverriddenUpTo
<1>4. 0 \in S
  BY <1>3
<1>5. ASSUME NEW n \in 1 .. N, n - 1 \in S PROVE n \in S
  <2>1. after[n] = OverrideModel(after[n - 1], overrides[n])
    BY <1>3
  <2> QED
    BY <1>5, <2>1, OverrideKeepsName
<1> HIDE DEF S, N
<1>6. N \in S
  <2>1. N \in Nat
    BY DEF N
  <2> QED
    BY <1>4, <1>5, <2>1, LoopKeeps
<1> QED
  BY <1>1, <1>6 DEF S

(* What discovery makes of an entry has the provider and the id of the entry. *)
LEMMA DescribedName ==
  ASSUME NEW raw, NEW overrides, Len(overrides) \in Nat
  PROVE  Describes(Overridden(Filtered(Normalized(raw)), overrides), raw.provider, raw.id)
<1> DEFINE m == Normalized(raw)
<1>1. /\ m = [f \in DOMAIN m |-> m[f]]
      /\ {"provider", "id", "modality", "chat", "text", "excluded", "keys"} \subseteq DOMAIN m
      /\ m.provider = raw.provider /\ m.id = raw.id
  BY DEF Normalized
<1> HIDE DEF m
<1>2. \E why : Filtered(m) = [m EXCEPT !.text = (why = NULL), !.excluded = why]
  BY DEF Filtered
<1>3. Describes(Filtered(m), raw.provider, raw.id)
  <2>1. PICK why : Filtered(m) = [m EXCEPT !.text = (why = NULL), !.excluded = why]
    BY <1>2
  <2>2. (why = NULL) \in BOOLEAN
    OBVIOUS
  <2> QED
    BY <1>1, <2>1, <2>2 DEF Describes
<1> QED
  BY <1>3, OverriddenKeepsName DEF m

-----------------------------------------------------------------------------
(* Scores *)

(* Eight markers are finitely many.                                           *)
LEMMA EightFinite ==
  ASSUME NEW a, NEW b, NEW c, NEW d, NEW e, NEW f, NEW g, NEW h
  PROVE  IsFiniteSet({a, b, c, d, e, f, g, h})
<1>1. IsFiniteSet({a})
  BY FS_Singleton
<1>2. IsFiniteSet({a} \cup {b})
  BY <1>1, FS_AddElement
<1>3. IsFiniteSet({a} \cup {b} \cup {c})
  BY <1>2, FS_AddElement
<1>4. IsFiniteSet({a} \cup {b} \cup {c} \cup {d})
  BY <1>3, FS_AddElement
<1>5. IsFiniteSet({a} \cup {b} \cup {c} \cup {d} \cup {e})
  BY <1>4, FS_AddElement
<1>6. IsFiniteSet({a} \cup {b} \cup {c} \cup {d} \cup {e} \cup {f})
  BY <1>5, FS_AddElement
<1>7. IsFiniteSet({a} \cup {b} \cup {c} \cup {d} \cup {e} \cup {f} \cup {g})
  BY <1>6, FS_AddElement
<1>8. IsFiniteSet({a} \cup {b} \cup {c} \cup {d} \cup {e} \cup {f} \cup {g} \cup {h})
  BY <1>7, FS_AddElement
<1>9. {a, b, c, d, e, f, g, h}
        = {a} \cup {b} \cup {c} \cup {d} \cup {e} \cup {f} \cup {g} \cup {h}
  OBVIOUS
<1> QED
  BY <1>8, <1>9

(* The markers met can be counted.                                            *)
LEMMA HitsCount ==
  ASSUME NEW S, IsFiniteSet(S), NEW R
  PROVE  Cardinality(S \cap R) \in Nat
<1>1. S \cap R \in SUBSET S
  OBVIOUS
<1> QED
  BY <1>1, FS_Subset, FS_CardinalityType

(* The markers of each category are finitely many.                            *)
LEMMA MarkersFinite ==
  /\ IsFiniteSet(FastMarkers \cup {"-mini-"}) /\ IsFiniteSet(ReasoningMarkers)
  /\ IsFiniteSet(CodeMarkers) /\ IsFiniteSet(GeneralMarkers)
<1>1. IsFiniteSet({"nano", "lite", "flash", "haiku", "small", "-mini-", "-mini-", "-mini-"})
  BY EightFinite
<1>2. IsFiniteSet({"pro", "opus", "sonnet", "thinking", "reasoning", "o1", "o3", "o4"})
  BY EightFinite
<1>3. IsFiniteSet({"codex", "coder", "codestral", "devstral", "mercury-coder", "grok-code",
                   "grok-code", "grok-code"})
  BY EightFinite
<1>4. IsFiniteSet({"gpt-4.1", "gpt-4o", "gpt-5-chat", "gemini-2.5-flash", "gemini-2.0-flash",
                   "claude-sonnet", "qwen-plus", "qwen-max"})
  BY EightFinite
<1>5. FastMarkers \cup {"-mini-"}
        = {"nano", "lite", "flash", "haiku", "small", "-mini-", "-mini-", "-mini-"}
  BY DEF FastMarkers
<1>6. CodeMarkers = {"codex", "coder", "codestral", "devstral", "mercury-coder", "grok-code",
                     "grok-code", "grok-code"}
  BY DEF CodeMarkers
<1> QED
  BY <1>1, <1>2, <1>3, <1>4, <1>5, <1>6 DEF ReasoningMarkers, GeneralMarkers

(* The scores are numbers, that in general no less than n.                    *)
Scores(score, n) ==
  /\ \A c \in Category : score[c] \in Int
  /\ score.general >= n

(* Every text model scores in general, and no other does but by its name.     *)
LEMMA MarkersScore ==
  ASSUME NEW m, m.text \in BOOLEAN
  PROVE  Scores(MarkerScores(m), IF m.text THEN 20 ELSE 0)
<1> DEFINE fast == Cardinality((FastMarkers \cup {"-mini-"}) \cap Name[m.id])
           reasoning == Cardinality(ReasoningMarkers \cap Name[m.id])
           code == Cardinality(CodeMarkers \cap Name[m.id])
           general == Cardinality(GeneralMarkers \cap Name[m.id])
           free == IF m.free THEN 100 ELSE 0
           base == IF m.text THEN 20 ELSE 0
<1>1. MarkerScores(m) = [free |-> free, fast |-> 30 * fast, reasoning |-> 30 * reasoning,
                         code |-> 45 * code, general |-> base + 15 * general]
  BY DEF MarkerScores
<1>2. fast \in Nat /\ reasoning \in Nat /\ code \in Nat /\ general \in Nat
  BY MarkersFinite, HitsCount
<1>3. free \in {0, 100}
  BY Zenon
<1>4. base \in {0, 20}
  OBVIOUS
<1> HIDE DEF fast, reasoning, code, general, free, base
<1>5. /\ free \in Int /\ 30 * fast \in Int /\ 30 * reasoning \in Int /\ 45 * code \in Int
      /\ base + 15 * general \in Int /\ base + 15 * general >= base
  BY <1>2, <1>3, <1>4
<1>6. Scores(MarkerScores(m), base)
  BY <1>1, <1>5 DEF Scores, Category
<1> QED
  BY <1>6 DEF base

(* An override takes no score away.                                           *)
LEMMA OverrideScores ==
  ASSUME NEW class, NEW n \in Int, Scores(class.score, n), NEW o, NEW m
  PROVE  Scores(OverrideClass(class, o, m).score, n)
<1> DEFINE best(c) == IF class.score[c] > 100 THEN class.score[c] ELSE 100
           one(c) == c = "general" /\ o.include /\ m.modality = "text" /\ class.score[c] = 0
           score(c) == IF c \in o.categories THEN best(c)
                       ELSE IF one(c) THEN 1 ELSE class.score[c]
           scored == [c \in Category |-> score(c)]
           new == OverrideClass(class, o, m).score
<1>1. new = scored \/ new = class.score
  BY DEF OverrideClass
<1>2. \A c \in Category : best(c) \in Int /\ best(c) >= class.score[c]
  BY DEF Scores
<1>3. \A c \in Category : one(c) => 1 \in Int /\ 1 >= class.score[c]
  BY DEF Scores
<1>4. \A c \in Category : class.score[c] \in Int /\ class.score[c] >= class.score[c]
  BY DEF Scores
<1>5. \A c \in Category : score(c) \in Int /\ score(c) >= class.score[c]
  <2> TAKE c \in Category
  <2> HIDE DEF best, one
  <2>1. score(c) = best(c) \/ (one(c) /\ score(c) = 1) \/ score(c) = class.score[c]
    BY Zenon
  <2> HIDE DEF score
  <2> QED
    BY <1>2, <1>3, <1>4, <2>1
<1> HIDE DEF score
<1>6. "general" \in Category /\ \A c \in Category : scored[c] = score(c)
  BY DEF Category
<1>7. Scores(scored, n)
  BY <1>4, <1>5, <1>6 DEF Scores
<1> QED
  BY <1>1, <1>7

(* What the loop of Classified has after each of the first n overrides.         *)
ClassifiedUpTo(m, class, overrides, after, n) ==
  after = [k \in 0 .. n |-> IF k = 0 THEN class ELSE OverrideClass(after[k - 1], overrides[k], m)]

(* The overrides of a classification can be applied one after the other.      *)
LEMMA ClassifiedDefined ==
  ASSUME NEW m, NEW class, NEW overrides, NEW N \in Nat
  PROVE  \E after : ClassifiedUpTo(m, class, overrides, after, N)
<1> DEFINE S == {n \in 0 .. N : \E after : ClassifiedUpTo(m, class, overrides, after, n)}
<1>1. 0 \in S
  <2>1. ClassifiedUpTo(m, class, overrides, [k \in 0 .. 0 |-> class], 0)
    BY DEF ClassifiedUpTo
  <2> QED
    BY <2>1
<1>2. ASSUME NEW n \in 1 .. N, n - 1 \in S PROVE n \in S
  <2>1. PICK after : ClassifiedUpTo(m, class, overrides, after, n - 1)
    BY <1>2
  <2> DEFINE more == [k \in 0 .. n |-> IF k < n THEN after[k]
                                       ELSE OverrideClass(after[n - 1], overrides[n], m)]
  <2>2. \A k \in 0 .. n :
          more[k] = IF k = 0 THEN class ELSE OverrideClass(more[k - 1], overrides[k], m)
    <3> TAKE k \in 0 .. n
    <3>1. CASE k = n
      <4>1. more[k] = OverrideClass(after[n - 1], overrides[n], m) /\ more[k - 1] = after[n - 1]
        BY <3>1
      <4> QED
        BY <3>1, <4>1
    <3>2. CASE k # n
      <4>1. k \in 0 .. n - 1 /\ more[k] = after[k] /\ (k # 0 => more[k - 1] = after[k - 1])
        BY <3>2
      <4>2. after[k] = IF k = 0 THEN class ELSE OverrideClass(after[k - 1], overrides[k], m)
        BY <2>1, <4>1 DEF ClassifiedUpTo
      <4> HIDE DEF more
      <4> QED
        BY <4>1, <4>2
    <3> QED
      BY <3>1, <3>2
  <2>3. more = [k \in 0 .. n |-> more[k]]
    OBVIOUS
  <2> HIDE DEF more
  <2>4. ClassifiedUpTo(m, class, overrides, more, n)
    BY <2>2, <2>3 DEF ClassifiedUpTo
  <2> QED
    BY <2>4
<1> HIDE DEF S
<1>3. N \in S
  BY <1>1, <1>2, LoopKeeps
<1> QED
  BY <1>3 DEF S

(* No override takes away what a text model scores in general.                 *)
LEMMA ClassifiedScores ==
  ASSUME NEW m, m.text \in BOOLEAN, NEW c, Len(c.overrides) \in Nat
  PROVE  Scores(Classified(m, c).score, IF m.text THEN 20 ELSE 0)
<1> DEFINE class == [score    |-> MarkerScores(m),
                     capable  |-> \/ m.tools \/ MarkerScores(m).code > 0
                                  \/ (c.toolCapable \cup {"customtools"}) \cap Name[m.id] # {},
                     disabled |-> ({"haiku", "nano"} \cup c.toolDisabled) \cap Name[m.id] # {}]
           n == IF m.text THEN 20 ELSE 0
           N == Len(c.overrides)
           after == CHOOSE f : ClassifiedUpTo(m, class, c.overrides, f, N)
           S == {k \in 0 .. N : Scores(after[k].score, n)}
<1>1. Classified(m, c) = after[N]
  BY DEF Classified, ClassifiedUpTo
<1>2. class.score = MarkerScores(m)
  OBVIOUS
<1>3. N \in Nat /\ n \in Int
  OBVIOUS
<1> HIDE DEF class
<1>4. ClassifiedUpTo(m, class, c.overrides, after, N)
  BY ClassifiedDefined
<1> HIDE DEF after
<1>5. \A k \in 0 .. N :
        after[k] = IF k = 0 THEN class ELSE OverrideClass(after[k - 1], c.overrides[k], m)
  BY <1>4 DEF ClassifiedUpTo
<1>6. Scores(class.score, n)
  BY <1>2, MarkersScore
<1> HIDE DEF n, N
<1>7. 0 \in S
  BY <1>3, <1>5, <1>6
<1>8. ASSUME NEW k \in 1 .. N, k - 1 \in S PROVE k \in S
  <2>1. after[k] = OverrideClass(after[k - 1], c.overrides[k], m)
    BY <1>3, <1>5
  <2>2. Scores(after[k].score, n)
    BY <1>3, <1>8, <2>1, OverrideScores
  <2> QED
    BY <1>3, <2>2
<1> HIDE DEF S
<1>9. N \in S
  <2>1. \A k \in 0 .. N : k \in S
    BY <1>3, <1>7, <1>8, LoopKeeps
  <2> QED
    BY <1>3, <2>1
<1> QED
  BY <1>1, <1>9 DEF S, n

-----------------------------------------------------------------------------
(* The models of a snapshot *)

(* A list is a list of its elements.                                          *)
LEMMA OwnElements ==
  ASSUME NEW T, NEW s \in Seq(T)
  PROVE  IsList(s)
<1>1. \A i \in 1 .. Len(s) : s[i] \in ToSet(s)
  BY Elements
<1>2. Len(s) \in Nat /\ s = [i \in 1 .. Len(s) |-> s[i]]
  OBVIOUS
<1> QED
  BY <1>1, <1>2 DEF IsList

(* The models are of providers with a key, each is there once, and none is one  *)
(* of the routes a provider offers.                                           *)
ModelsOK(models, c) ==
  /\ IsList(models)
  /\ \A i \in 1 .. Len(models) :
       /\ models[i].text \in BOOLEAN
       /\ models[i].provider \in ToSet(c.keyed)
       /\ SpecialHints(models[i].provider, models[i].id) = {}
  /\ \A i, j \in 1 .. Len(models) : Candidate(models[i]) = Candidate(models[j]) => i = j

(* The models of a snapshot are of providers with a key, each there once      *)
(* under its name.                                                            *)
LEMMA MergedModels ==
  ASSUME NEW T, NEW raws \in Seq(T), NEW c, Len(c.overrides) \in Nat,
         \A i \in 1 .. Len(raws) : raws[i].provider \in ToSet(c.keyed)
  PROVE  ModelsOK(Merged(raws, c), c)
<1> DEFINE same(i) == {j \in DOMAIN raws :
                         raws[j].provider = raws[i].provider /\ raws[j].id = raws[i].id}
           own == {i \in DOMAIN raws : ~ IsSpecial(raws[i]) /\ \A j \in same(i) : i <= j}
           model(i) == Overridden(Filtered(Normalized(raws[i])), c.overrides)
           e == [i \in own |-> [model(i) EXCEPT !.keys = {raws[j].key : j \in same(i)}]]
           U == {e[i] : i \in own}
           models == Listed(e)
<1>1. Merged(raws, c) = models
  BY DEF Merged
<1>2. DOMAIN raws = 1 .. Len(raws) /\ Len(raws) \in Nat /\ own \subseteq 1 .. Len(raws)
  OBVIOUS
<1>3. \A i \in own : /\ e[i].provider = raws[i].provider /\ e[i].id = raws[i].id
                     /\ e[i].text \in BOOLEAN
  <2> TAKE i \in own
  <2>1. Describes(model(i), raws[i].provider, raws[i].id)
    BY DescribedName
  <2>2. e[i] = [model(i) EXCEPT !.keys = {raws[j].key : j \in same(i)}]
    OBVIOUS
  <2> HIDE DEF model, e, same, own
  <2> QED
    BY <2>1, <2>2 DEF Describes
<1>4. \A i, j \in own : raws[i].provider = raws[j].provider /\ raws[i].id = raws[j].id => i = j
  BY <1>2
<1>5. \A i \in own : SpecialHints(raws[i].provider, raws[i].id) = {}
  BY DEF IsSpecial
<1>6. DOMAIN e = own /\ \A i \in own : e[i] \in U
  OBVIOUS
<1> HIDE DEF own, e, U, same, model
<1>7. models \in Seq(U) /\ \E at : TakesUp(models, e, at)
  BY <1>2, <1>6, ListedInOrder
<1> HIDE DEF models
<1>8. PICK at : TakesUp(models, e, at)
  BY <1>7
<1>9. \A n \in 1 .. Len(models) : at[n] \in own /\ models[n] = e[at[n]]
  BY <1>6, <1>8 DEF TakesUp
<1>10. \A i, j \in 1 .. Len(models) : Candidate(models[i]) = Candidate(models[j]) => i = j
  <2> SUFFICES ASSUME NEW i \in 1 .. Len(models), NEW j \in 1 .. Len(models),
                      Candidate(models[i]) = Candidate(models[j])
               PROVE  i = j
    OBVIOUS
  <2>1. at[i] = at[j]
    BY <1>3, <1>4, <1>9 DEF Candidate
  <2>2. ~ (i < j) /\ ~ (j < i)
    <3>1. at[i] \in own /\ at[j] \in own
      BY <1>9
    <3>2. at[i] \in 1 .. Len(raws) /\ at[j] \in 1 .. Len(raws)
      BY <1>2, <3>1
    <3> QED
      BY <1>8, <2>1, <3>2 DEF TakesUp
  <2> QED
    BY <2>2
<1>11. IsList(models)
  BY <1>7, OwnElements
<1>12. \A n \in 1 .. Len(models) :
         /\ models[n].text \in BOOLEAN
         /\ models[n].provider \in ToSet(c.keyed)
         /\ SpecialHints(models[n].provider, models[n].id) = {}
  <2> TAKE n \in 1 .. Len(models)
  <2>1. at[n] \in own /\ at[n] \in 1 .. Len(raws) /\ models[n] = e[at[n]]
    BY <1>2, <1>9
  <2> QED
    BY <1>3, <1>5, <2>1
<1> QED
  BY <1>1, <1>10, <1>11, <1>12 DEF ModelsOK

ClassOK(models, class) ==
  /\ DOMAIN class = {Candidate(models[i]) : i \in 1 .. Len(models)}
  /\ \A i \in 1 .. Len(models) :
       Scores(class[Candidate(models[i])].score, IF models[i].text THEN 20 ELSE 0)

RoutesOK(specials, c) ==
  /\ IsList(specials)
  /\ \A i \in 1 .. Len(specials) :
       /\ specials[i][1] \in ToSet(c.keyed)
       /\ SpecialHints(specials[i][1], specials[i][2]) # {}

SnapshotOK(s, specials, c) ==
  /\ s.of = c
  /\ ModelsOK(s.models, c) /\ ClassOK(s.models, s.class) /\ RoutesOK(specials, c)
  /\ s.aliases = GeneratedAliases(c, s.models, s.class, specials)

(* Every model of a snapshot is classified, and by its own entry.             *)
LEMMA ModelsClassified ==
  ASSUME NEW c, Len(c.overrides) \in Nat, NEW models, ModelsOK(models, c)
  PROVE  ClassOK(models, [cand \in {Candidate(models[i]) : i \in DOMAIN models} |->
                            Classified(models[CHOOSE i \in DOMAIN models :
                                                Candidate(models[i]) = cand], c)])
<1> DEFINE D == {Candidate(models[i]) : i \in DOMAIN models}
           pick(cand) == CHOOSE i \in DOMAIN models : Candidate(models[i]) = cand
           class == [cand \in D |-> Classified(models[pick(cand)], c)]
<1>1. DOMAIN models = 1 .. Len(models) /\ Len(models) \in Nat
  BY DEF ModelsOK, IsList
<1>2. DOMAIN class = {Candidate(models[i]) : i \in 1 .. Len(models)}
  BY <1>1
<1>3. \A i \in 1 .. Len(models) : class[Candidate(models[i])] = Classified(models[i], c)
  <2> TAKE i \in 1 .. Len(models)
  <2> DEFINE n == pick(Candidate(models[i]))
  <2>1. n \in DOMAIN models /\ Candidate(models[n]) = Candidate(models[i])
    BY <1>1
  <2>2. class[Candidate(models[i])] = Classified(models[n], c)
    BY <1>1
  <2> HIDE DEF n
  <2>3. n = i
    BY <1>1, <2>1 DEF ModelsOK
  <2> QED
    BY <2>2, <2>3
<1> HIDE DEF class
<1>4. \A i \in 1 .. Len(models) :
        Scores(class[Candidate(models[i])].score, IF models[i].text THEN 20 ELSE 0)
  <2> TAKE i \in 1 .. Len(models)
  <2>1. models[i].text \in BOOLEAN
    BY DEF ModelsOK
  <2>2. Scores(Classified(models[i], c).score, IF models[i].text THEN 20 ELSE 0)
    BY <2>1, ClassifiedScores
  <2> QED
    BY <1>3, <2>2
<1>5. ClassOK(models, class)
  BY <1>2, <1>4 DEF ClassOK
<1> QED
  BY <1>5 DEF class

(* What a refresh discovers is a snapshot of its configuration.               *)
LEMMA DiscoveredOK ==
  ASSUME NEW c, Config(c), NEW catalog, IsList(catalog)
  PROVE  \E specials : SnapshotOK(Discovered(c, catalog), specials, c)
<1> DEFINE T == ToSet(catalog)
           places == {i \in DOMAIN catalog : catalog[i].provider \in ToSet(c.keyed)}
           listed == Kept(catalog, places)
           models == Merged(listed, c)
           class == [cand \in {Candidate(models[i]) : i \in DOMAIN models} |->
                       Classified(models[CHOOSE i \in DOMAIN models :
                                           Candidate(models[i]) = cand], c)]
           special == {i \in DOMAIN listed : IsSpecial(listed[i])}
           routes == Kept(listed, special)
           names == [i \in DOMAIN routes |-> Candidate(routes[i])]
           specials == Dedupe(names)
           s == Discovered(c, catalog)
<1>1. s = [of |-> c, models |-> models, class |-> class,
           aliases |-> GeneratedAliases(c, models, class, specials)]
  BY DEF Discovered
<1>2. /\ catalog \in Seq(T) /\ DOMAIN catalog = 1 .. Len(catalog) /\ Len(c.overrides) \in Nat
      /\ places \subseteq 1 .. Len(catalog)
      /\ \A i \in places : catalog[i].provider \in ToSet(c.keyed)
  BY DEF IsList, Config
<1> HIDE DEF places, T
<1>3. listed \in Seq(T) /\ \A i \in 1 .. Len(listed) : listed[i].provider \in ToSet(c.keyed)
  <2>1. listed \in Seq(T) /\ ToSet(listed) = {catalog[i] : i \in places}
    BY <1>2, KeptElements
  <2> HIDE DEF listed
  <2>2. \A n \in 1 .. Len(listed) : listed[n] \in ToSet(listed)
    BY <2>1, Elements
  <2> QED
    BY <1>2, <2>1, <2>2
<1> HIDE DEF listed
<1>4. ModelsOK(models, c)
  BY <1>2, <1>3, MergedModels
<1> HIDE DEF models
<1>5. ClassOK(models, class)
  BY <1>2, <1>4, ModelsClassified
<1> HIDE DEF class
<1>6. special \subseteq 1 .. Len(listed) /\ \A i \in special : IsSpecial(listed[i])
  BY <1>3
<1> HIDE DEF special
<1>7. /\ routes \in Seq(T)
      /\ \A i \in 1 .. Len(routes) :
           IsSpecial(routes[i]) /\ routes[i].provider \in ToSet(c.keyed)
  <2>1. routes \in Seq(T) /\ ToSet(routes) = {listed[i] : i \in special}
    BY <1>3, <1>6, KeptElements
  <2> HIDE DEF routes
  <2>2. \A n \in 1 .. Len(routes) : routes[n] \in ToSet(routes)
    BY <2>1, Elements
  <2>3. ASSUME NEW n \in 1 .. Len(routes)
        PROVE  IsSpecial(routes[n]) /\ routes[n].provider \in ToSet(c.keyed)
    <3>1. PICK j \in special : routes[n] = listed[j]
      BY <2>1, <2>2
    <3> QED
      BY <1>3, <1>6, <3>1
  <2> QED
    BY <2>1, <2>3
<1> HIDE DEF routes
<1> DEFINE U == {Candidate(routes[i]) : i \in 1 .. Len(routes)}
<1>8. names \in Seq(U)
  BY <1>7
<1>9. \A k \in U : k[1] \in ToSet(c.keyed) /\ SpecialHints(k[1], k[2]) # {}
  BY <1>7 DEF Candidate, IsSpecial
<1> HIDE DEF names, U
<1>10. specials \in Seq(U)
  BY <1>8, DedupeElements
<1> HIDE DEF specials
<1>11. RoutesOK(specials, c)
  <2>1. \A i \in 1 .. Len(specials) : specials[i] \in U
    BY <1>10
  <2>2. IsList(specials)
    BY <1>10, OwnElements
  <2> QED
    BY <1>9, <2>1, <2>2 DEF RoutesOK
<1>12. SnapshotOK(s, specials, c)
  BY <1>1, <1>4, <1>5, <1>11 DEF SnapshotOK
<1> QED
  BY <1>12

-----------------------------------------------------------------------------
(* The candidates of a category *)

(* A list of elements of a set is one of elements of a larger set.            *)
LEMMA SeqWider ==
  ASSUME NEW S, NEW s \in Seq(S), NEW T, S \subseteq T
  PROVE  s \in Seq(T)
OBVIOUS

(* Two lists joined have the elements of both.                                *)
LEMMA JoinElements ==
  ASSUME NEW T, NEW s \in Seq(T), NEW t \in Seq(T)
  PROVE  s \o t \in Seq(T) /\ ToSet(s \o t) = ToSet(s) \cup ToSet(t)
<1> DEFINE m == Len(s)
           n == Len(t)
<1>1. /\ m \in Nat /\ n \in Nat /\ s \o t \in Seq(T) /\ Len(s \o t) = m + n
      /\ \A i \in 1 .. m + n : (s \o t)[i] = IF i <= m THEN s[i] ELSE t[i - m]
  OBVIOUS
<1>2. /\ ToSet(s) = {s[i] : i \in 1 .. m} /\ ToSet(t) = {t[i] : i \in 1 .. n}
      /\ ToSet(s \o t) = {(s \o t)[i] : i \in 1 .. m + n}
  BY <1>1 DEF ToSet
<1>3. ASSUME NEW i \in 1 .. m + n PROVE (s \o t)[i] \in ToSet(s) \cup ToSet(t)
  <2>1. CASE i <= m
    BY <1>1, <1>2, <2>1
  <2>2. CASE ~ i <= m
    <3>1. i - m \in 1 .. n /\ (s \o t)[i] = t[i - m]
      BY <1>1, <2>2
    <3> QED
      BY <1>2, <3>1
  <2> QED
    BY <2>1, <2>2
<1>4. ASSUME NEW i \in 1 .. m PROVE s[i] \in ToSet(s \o t)
  <2>1. i \in 1 .. m + n /\ (s \o t)[i] = s[i]
    BY <1>1
  <2> QED
    BY <1>2, <2>1
<1>5. ASSUME NEW i \in 1 .. n PROVE t[i] \in ToSet(s \o t)
  <2>1. i + m \in 1 .. m + n /\ (s \o t)[i + m] = t[i]
    BY <1>1
  <2> QED
    BY <1>2, <2>1
<1>6. ToSet(s \o t) \subseteq ToSet(s) \cup ToSet(t)
  BY <1>2, <1>3
<1>7. ToSet(s) \cup ToSet(t) \subseteq ToSet(s \o t)
  BY <1>2, <1>4, <1>5
<1> QED
  BY <1>1, <1>6, <1>7

(* The elements of s lead those of t that are not in F.                        *)
LEMMA JoinLeads ==
  ASSUME NEW T, NEW s \in Seq(T), NEW t \in Seq(T), NEW F,
         \A i \in 1 .. Len(s) : s[i] \in F, \A i \in 1 .. Len(t) : t[i] \notin F
  PROVE  Leads(F, s \o t)
<1>1. \A i \in 1 .. Len(s \o t) : i <= Len(s) => (s \o t)[i] \in F
  OBVIOUS
<1>2. \A i \in 1 .. Len(s \o t) : ~ i <= Len(s) => (s \o t)[i] \notin F
  <2> TAKE i \in 1 .. Len(s \o t)
  <2> HAVE ~ i <= Len(s)
  <2>1. i - Len(s) \in 1 .. Len(t) /\ (s \o t)[i] = t[i - Len(s)]
    OBVIOUS
  <2> QED
    BY <2>1
<1>3. Len(s \o t) \in Nat /\ Len(s) \in Nat
  OBVIOUS
<1> QED
  BY <1>1, <1>2, <1>3 DEF Leads

(* The text categories are free-cheap and those models score in.              *)
LEMMA TextCategorySet ==
  ToSet(TextCategories) = {"free-cheap"} \cup Category
<1>1. TextCategories \in Seq({"free-cheap"} \cup Category) /\ Len(TextCategories) = 6
  BY DEF TextCategories, Category
<1>2. \A k \in {"free-cheap"} \cup Category : \E i \in 1 .. 6 : TextCategories[i] = k
  <2>1. /\ TextCategories[1] = "free" /\ TextCategories[2] = "free-cheap"
        /\ TextCategories[3] = "fast" /\ TextCategories[4] = "general"
        /\ TextCategories[5] = "reasoning" /\ TextCategories[6] = "code"
    BY DEF TextCategories
  <2>2. 1 \in 1 .. 6 /\ 2 \in 1 .. 6 /\ 3 \in 1 .. 6 /\ 4 \in 1 .. 6 /\ 5 \in 1 .. 6 /\ 6 \in 1 .. 6
    OBVIOUS
  <2> QED
    BY <2>1, <2>2 DEF Category
<1>3. \A x : x \in ToSet(TextCategories) <=> \E i \in 1 .. 6 : TextCategories[i] = x
  BY <1>1, Elements
<1>4. ToSet(TextCategories) \subseteq {"free-cheap"} \cup Category
  BY <1>1, Elements
<1> QED
  BY <1>2, <1>3, <1>4

(* Candidates are ranked by numbers.                                          *)
LEMMA KeysAreNumbers ==
  ASSUME NEW category \in ToSet(TextCategories), NEW m, NEW class, NEW n, Scores(class.score, n)
  PROVE  CategoryKey(category, m, class) \in [1 .. 4 -> Int]
<1> DEFINE best == IF class.score.free > class.score.fast THEN class.score.free
                                                          ELSE class.score.fast
           primary == IF category # "free-cheap" THEN class.score[category] ELSE best
           last == IF class.capable /\ ~ class.disabled THEN 1 ELSE 0
           chat == IF ChatState(m) = "supported" THEN 1 ELSE 0
           bonus == Bonus(category, m, class)
<1>1. CategoryKey(category, m, class) = <<primary, class.score.general, bonus, last>>
  BY Zenon DEF CategoryKey
<1>2. \A k \in Category : class.score[k] \in Int
  BY DEF Scores
<1>3. primary \in Int
  <2>1. best \in Int
    BY <1>2 DEF Category
  <2> HIDE DEF best
  <2>2. category = "free-cheap" \/ category \in Category
    BY TextCategorySet
  <2> QED
    BY <1>2, <2>1, <2>2
<1>4. class.score.general \in Int
  BY <1>2 DEF Category
<1>5. last \in {0, 1} /\ chat \in {0, 1}
  BY Zenon
<1>6. bonus \in Int
  <2>1. bonus \in {3, 1, 0, chat, 3 * chat}
    <3>1. \/ category = "code"
          \/ category # "code" /\ category = "free"
          \/ category # "code" /\ category # "free"
      OBVIOUS
    <3>2. CASE category = "code"
      BY <3>2 DEF Bonus
    <3>3. CASE category # "code"
      BY <3>3 DEF Bonus
    <3> QED
      BY <3>2, <3>3
  <2> HIDE DEF bonus, chat
  <2> QED
    BY <1>5, <2>1
<1> HIDE DEF primary, bonus, last
<1> QED
  BY <1>1, <1>3, <1>4, <1>5, <1>6

(* The text models, the free routes, and what a category is made of.            *)
TextOnes(models) ==
  {Candidate(models[i]) : i \in {j \in 1 .. Len(models) : ServesText(models[j])}}

FreeRoutes(specials) ==
  {specials[i] : i \in {j \in 1 .. Len(specials) :
                          "free" \in SpecialHints(specials[j][1], specials[j][2])}}

Good(category, models, class, specials) ==
  {k \in TextOnes(models) : class[k].score[category] > 0}
  \cup (IF category = "free" THEN FreeRoutes(specials) ELSE {})

Of(p, S) == {k \in S : k[1] = p}

(* What the candidates of a provider are in an ordinary category, and that of    *)
(* free and cheap ones begins with the free ones.                             *)
Offers(s, category, p, models, class, specials) ==
  LET good(k) == Of(p, Good(k, models, class, specials))
  IN  /\ s \in Seq(TextOnes(models) \cup FreeRoutes(specials))
      /\ category \in Category => ToSet(s) = good(category)
      /\ category = "free-cheap" =>
           /\ ToSet(s) = IF good("free") = {} THEN {} ELSE good("free") \cup good("fast")
           /\ Leads(Good("free", models, class, specials), s)

(* The models of a provider that serve text, by name, best first.               *)
LEMMA RankedNames ==
  ASSUME NEW c, NEW models, NEW class, ModelsOK(models, c), ClassOK(models, class),
         NEW category \in ToSet(TextCategories), NEW p
  PROVE  LET usable == Kept(models, {i \in DOMAIN models :
                                       models[i].provider = p /\ ServesText(models[i])})
             key(m) == CategoryKey(category, m, class[Candidate(m)])
             ranked == Ranked(usable, [i \in DOMAIN usable |-> key(usable[i])])
             names == [i \in DOMAIN ranked |-> Candidate(ranked[i])]
         IN  /\ names \in Seq(TextOnes(models))
             /\ ToSet(names) = Of(p, TextOnes(models))
<1> DEFINE places == {i \in DOMAIN models : models[i].provider = p /\ ServesText(models[i])}
           usable == Kept(models, places)
           key(m) == CategoryKey(category, m, class[Candidate(m)])
           keys == [i \in DOMAIN usable |-> key(usable[i])]
           ranked == Ranked(usable, keys)
           names == [i \in DOMAIN ranked |-> Candidate(ranked[i])]
           M == ToSet(models)
<1>1. models \in Seq(M) /\ DOMAIN models = 1 .. Len(models) /\ places \subseteq 1 .. Len(models)
  BY DEF ModelsOK, IsList
<1>2. \A i \in places : /\ i \in 1 .. Len(models)
                        /\ models[i].provider = p /\ ServesText(models[i])
  BY <1>1
<1>3. \A i \in 1 .. Len(models) : models[i].provider = p /\ ServesText(models[i]) => i \in places
  BY <1>1
<1> HIDE DEF places, M
<1>4. usable \in Seq(M) /\ ToSet(usable) = {models[i] : i \in places}
  BY <1>1, KeptElements
<1> HIDE DEF usable
<1>5. \A i \in 1 .. Len(usable) : usable[i] \in ToSet(usable)
  BY <1>4, Elements
<1>6. \A i \in 1 .. Len(usable) : keys[i] \in [1 .. 4 -> Int]
  <2> TAKE i \in 1 .. Len(usable)
  <2>1. PICK j \in places : usable[i] = models[j]
    BY <1>4, <1>5
  <2>2. Scores(class[Candidate(models[j])].score, IF models[j].text THEN 20 ELSE 0)
    BY <1>2 DEF ClassOK
  <2>3. keys[i] = key(models[j])
    BY <1>4, <2>1
  <2>4. key(models[j]) \in [1 .. 4 -> Int]
    BY <2>2, KeysAreNumbers
  <2> QED
    BY <2>3, <2>4
<1> HIDE DEF keys
<1>7. ranked \in Seq(M) /\ ToSet(ranked) = ToSet(usable)
  <2>1. 4 \in Nat
    OBVIOUS
  <2> QED
    BY <1>4, <1>6, <2>1, RankedElements
<1> HIDE DEF ranked
<1>8. DOMAIN ranked = 1 .. Len(ranked) /\ Len(ranked) \in Nat
  BY <1>7
<1>9. \A n \in 1 .. Len(ranked) : \E i \in places : ranked[n] = models[i]
  <2>1. \A n \in 1 .. Len(ranked) : ranked[n] \in ToSet(ranked)
    BY <1>7, Elements
  <2> QED
    BY <1>4, <1>7, <2>1
<1>10. \A i \in places : \E n \in 1 .. Len(ranked) : ranked[n] = models[i]
  <2>1. \A x : x \in ToSet(ranked) => \E n \in 1 .. Len(ranked) : ranked[n] = x
    BY <1>7, Elements
  <2> QED
    BY <1>4, <1>7, <2>1
<1>11. \A n \in 1 .. Len(ranked) : Candidate(ranked[n]) \in Of(p, TextOnes(models))
  <2> TAKE n \in 1 .. Len(ranked)
  <2>1. PICK i \in places : ranked[n] = models[i]
    BY <1>9
  <2> QED
    BY <1>2, <2>1 DEF Of, TextOnes, Candidate
<1>12. names \in Seq(TextOnes(models)) /\ Len(names) = Len(ranked)
       /\ \A n \in 1 .. Len(names) : names[n] = Candidate(ranked[n])
  BY <1>8, <1>11 DEF Of
<1>13. \A x : x \in ToSet(names) <=> \E n \in 1 .. Len(names) : names[n] = x
  <2> HIDE DEF names
  <2> QED
    BY <1>12, Elements
<1>14. ASSUME NEW k \in Of(p, TextOnes(models)) PROVE \E n \in 1 .. Len(names) : names[n] = k
  <2>1. PICK i \in 1 .. Len(models) : ServesText(models[i]) /\ k = Candidate(models[i])
    BY DEF Of, TextOnes
  <2>2. models[i].provider = p
    BY <2>1 DEF Of, Candidate
  <2>3. PICK n \in 1 .. Len(ranked) : ranked[n] = models[i]
    BY <1>3, <1>10, <2>1, <2>2
  <2> HIDE DEF names
  <2> QED
    BY <1>12, <2>1, <2>3
<1>15. ToSet(names) = Of(p, TextOnes(models))
  <2> HIDE DEF names
  <2>1. \A n \in 1 .. Len(names) : names[n] \in Of(p, TextOnes(models))
    BY <1>11, <1>12
  <2>2. ToSet(names) \subseteq Of(p, TextOnes(models))
    BY <1>13, <2>1
  <2>3. Of(p, TextOnes(models)) \subseteq ToSet(names)
    BY <1>13, <1>14
  <2> QED
    BY <2>2, <2>3
<1> QED
  BY <1>12, <1>15 DEF names, ranked, keys, usable, places

(* A provider's list of a category has what the snapshot has for it there,    *)
(* the free ones first where the category is free-cheap.                      *)
LEMMA ProviderOffers ==
  ASSUME NEW c, NEW models, NEW class, NEW specials,
         ModelsOK(models, c), ClassOK(models, class), RoutesOK(specials, c),
         NEW category \in ToSet(TextCategories), NEW p
  PROVE  Offers(ProviderCandidates(p, category, models, class, specials),
                category, p, models, class, specials)
<1> DEFINE usable == Kept(models, {i \in DOMAIN models :
                                     models[i].provider = p /\ ServesText(models[i])})
           key(m) == CategoryKey(category, m, class[Candidate(m)])
           ranked == Ranked(usable, [i \in DOMAIN usable |-> key(usable[i])])
           names == [i \in DOMAIN ranked |-> Candidate(ranked[i])]
           at == {i \in DOMAIN specials :
                    specials[i][1] = p /\ "free" \in SpecialHints(p, specials[i][2])}
           routes == IF category \in {"free", "free-cheap"} THEN Kept(specials, at) ELSE <<>>
           free  == {i \in DOMAIN names : class[names[i]].score.free > 0}
           cheap == {i \in DOMAIN names \ free : class[names[i]].score.fast > 0}
           fit   == {i \in DOMAIN names : MatchesCategory(category, class[names[i]])}
           s == ProviderCandidates(p, category, models, class, specials)
           texts == Of(p, TextOnes(models))
           ways == Of(p, FreeRoutes(specials))
           T == TextOnes(models) \cup FreeRoutes(specials)
           good(k) == Of(p, Good(k, models, class, specials))
           F == Good("free", models, class, specials)
<1>1. s = IF category # "free-cheap" THEN Dedupe(routes \o Kept(names, fit))
          ELSE IF routes = <<>> /\ free = {} THEN <<>>
          ELSE Dedupe(routes \o Kept(names, free) \o Kept(names, cheap))
  BY DEF ProviderCandidates
<1>2. names \in Seq(TextOnes(models)) /\ ToSet(names) = texts
  BY RankedNames
<1> HIDE DEF ranked, names, s
<1>3. /\ names \in Seq(T) /\ DOMAIN names = 1 .. Len(names)
      /\ texts = {names[i] : i \in 1 .. Len(names)}
  BY <1>2, Elements DEF ToSet
<1>4. /\ free \subseteq 1 .. Len(names) /\ cheap \subseteq 1 .. Len(names)
      /\ fit \subseteq 1 .. Len(names)
  BY <1>3
<1>5. {names[i] : i \in free} = {k \in texts : class[k].score.free > 0}
  BY <1>3
<1>6. {names[i] : i \in cheap}
        = {k \in texts : ~ class[k].score.free > 0 /\ class[k].score.fast > 0}
  BY <1>3
<1>7. category \in Category =>
        {names[i] : i \in fit} = {k \in texts : class[k].score[category] > 0}
  BY <1>3 DEF MatchesCategory, Category
<1>8. /\ specials \in Seq(ToSet(specials)) /\ at \subseteq 1 .. Len(specials)
      /\ {specials[i] : i \in at} = ways
  <2>1. specials \in Seq(ToSet(specials)) /\ DOMAIN specials = 1 .. Len(specials)
    BY DEF RoutesOK, IsList
  <2> QED
    BY <2>1 DEF Of, FreeRoutes
<1> HIDE DEF free, cheap, fit, at, texts, ways
<1>9. /\ ToSet(Kept(specials, at)) = ways
      /\ Kept(specials, at) \in Seq(FreeRoutes(specials))
  <2>1. Kept(specials, at) \in Seq(ToSet(specials)) /\ ToSet(Kept(specials, at)) = ways
    BY <1>8, KeptElements
  <2>2. IsList(Kept(specials, at))
    BY <2>1, OwnElements
  <2>3. ways \subseteq FreeRoutes(specials)
    BY DEF ways, Of
  <2> DEFINE kept == Kept(specials, at)
  <2>4. kept \in Seq(ways)
    BY <2>1, <2>2 DEF IsList
  <2> HIDE DEF kept
  <2>5. kept \in Seq(FreeRoutes(specials))
    BY <2>3, <2>4, SeqWider
  <2> QED
    BY <2>1, <2>5 DEF kept
<1>10. /\ Kept(names, fit) \in Seq(T) /\ ToSet(Kept(names, fit)) = {names[i] : i \in fit}
       /\ Kept(names, free) \in Seq(T) /\ ToSet(Kept(names, free)) = {names[i] : i \in free}
       /\ Kept(names, cheap) \in Seq(T) /\ ToSet(Kept(names, cheap)) = {names[i] : i \in cheap}
  BY <1>3, <1>4, KeptElements
<1>11. Kept(specials, at) \in Seq(T)
  BY <1>9, SeqWider
<1>12. /\ routes \in Seq(T)
       /\ ToSet(routes) = IF category \in {"free", "free-cheap"} THEN ways ELSE {}
  <2>1. CASE category \in {"free", "free-cheap"}
    BY <1>9, <1>11, <2>1
  <2>2. CASE category \notin {"free", "free-cheap"}
    BY <2>2 DEF ToSet
  <2> QED
    BY <2>1, <2>2
<1> HIDE DEF routes
<1>13. good("free") = {k \in texts : class[k].score.free > 0} \cup ways
  BY DEF Good, Of, texts, ways
<1>14. good("fast") = {k \in texts : class[k].score.fast > 0}
  BY DEF Good, Of, texts
<1>15. category \in Category => s \in Seq(T) /\ ToSet(s) = good(category)
  <2> SUFFICES ASSUME category \in Category
               PROVE  s \in Seq(T) /\ ToSet(s) = good(category)
    OBVIOUS
  <2> DEFINE kept == Kept(names, fit)
             all == routes \o kept
  <2>1. category # "free-cheap"
    BY DEF Category
  <2>2. s = Dedupe(all)
    BY <1>1, <2>1
  <2>3. kept \in Seq(T)
    BY <1>10
  <2> HIDE DEF kept
  <2>4. all \in Seq(T) /\ ToSet(all) = ToSet(routes) \cup ToSet(kept)
    BY <1>12, <2>3, JoinElements
  <2> HIDE DEF all
  <2>5. Dedupe(all) \in Seq(T) /\ ToSet(Dedupe(all)) = ToSet(all)
    BY <2>4, DedupeElements
  <2> DEFINE A == {k \in texts : class[k].score[category] > 0}
             B == IF category = "free" THEN ways ELSE {}
  <2>6. ToSet(kept) = A
    BY <1>7, <1>10 DEF kept
  <2>7. ToSet(routes) = B
    BY <1>12, <2>1
  <2>8. good(category) = A \cup B
    BY DEF Good, Of, texts, ways
  <2> HIDE DEF A, B, good
  <2> QED
    BY <2>2, <2>4, <2>5, <2>6, <2>7, <2>8
<1>16. category = "free-cheap" =>
         /\ s \in Seq(T)
         /\ ToSet(s) = IF good("free") = {} THEN {} ELSE good("free") \cup good("fast")
         /\ Leads(F, s)
  <2> SUFFICES ASSUME category = "free-cheap"
               PROVE  /\ s \in Seq(T)
                      /\ ToSet(s) = IF good("free") = {} THEN {}
                                    ELSE good("free") \cup good("fast")
                      /\ Leads(F, s)
    OBVIOUS
  <2> DEFINE firsts == Kept(names, free)
             others == Kept(names, cheap)
             lead == routes \o firsts
             all == lead \o others
  <2>1. s = IF routes = <<>> /\ free = {} THEN <<>> ELSE Dedupe(all)
    <3>1. routes \o Kept(names, free) \o Kept(names, cheap) = all
      OBVIOUS
    <3> QED
      BY <1>1, <3>1
  <2>2. /\ firsts \in Seq(T) /\ ToSet(firsts) = {k \in texts : class[k].score.free > 0}
        /\ others \in Seq(T)
        /\ ToSet(others) = {k \in texts : ~ class[k].score.free > 0 /\ class[k].score.fast > 0}
    BY <1>5, <1>6, <1>10
  <2>3. free = {} <=> ToSet(firsts) = {}
    <3>1. ToSet(firsts) = {names[i] : i \in free}
      BY <1>10
    <3> HIDE DEF firsts
    <3> QED
      BY <3>1
  <2>4. routes = <<>> <=> ToSet(routes) = {}
    BY <1>12 DEF ToSet
  <2> HIDE DEF firsts, others
  <2>5. ToSet(routes) = ways
    BY <1>12
  <2>6. lead \in Seq(T) /\ ToSet(lead) = good("free")
    <3>1. lead \in Seq(T) /\ ToSet(lead) = ToSet(routes) \cup ToSet(firsts)
      BY <1>12, <2>2, JoinElements
    <3> HIDE DEF lead, good
    <3> QED
      BY <1>13, <2>2, <2>5, <3>1
  <2>7. (routes = <<>> /\ free = {}) <=> good("free") = {}
    <3> HIDE DEF good
    <3> QED
      BY <1>13, <2>2, <2>3, <2>4, <2>5
  <2> HIDE DEF lead
  <2>8. all \in Seq(T) /\ ToSet(all) = ToSet(lead) \cup ToSet(others)
    BY <2>2, <2>6, JoinElements
  <2>9. ToSet(all) = good("free") \cup good("fast")
    <3> HIDE DEF all, good
    <3> QED
      BY <1>13, <1>14, <2>2, <2>6, <2>8
  <2>10. Leads(F, all)
    <3>1. good("free") \subseteq F
      BY DEF Of
    <3>2. \A x \in ToSet(others) : x \notin F
      <4>1. \A x \in TextOnes(models) : ~ class[x].score.free > 0 /\ x \in F =>
                                           x \in FreeRoutes(specials)
        BY DEF Good
      <4>2. \A x \in TextOnes(models) : x \notin FreeRoutes(specials)
        <5>1. ASSUME NEW x \in TextOnes(models) PROVE SpecialHints(x[1], x[2]) = {}
          <6>1. PICK i \in 1 .. Len(models) : x = Candidate(models[i])
            BY DEF TextOnes
          <6>2. SpecialHints(models[i].provider, models[i].id) = {}
            BY DEF ModelsOK
          <6> QED
            BY <6>1, <6>2 DEF Candidate
        <5>2. \A x \in FreeRoutes(specials) : SpecialHints(x[1], x[2]) # {}
          BY DEF FreeRoutes
        <5> QED
          BY <5>1, <5>2
      <4>3. ToSet(others) \subseteq TextOnes(models)
        BY <2>2 DEF texts, Of
      <4> HIDE DEF F
      <4> QED
        BY <2>2, <4>1, <4>2, <4>3
    <3> HIDE DEF F, good
    <3>3. \A i \in 1 .. Len(lead) : lead[i] \in F
      BY <2>6, <3>1, Elements
    <3>4. \A i \in 1 .. Len(others) : others[i] \notin F
      BY <2>2, <3>2, Elements
    <3> QED
      BY <2>2, <2>6, <3>3, <3>4, JoinLeads
  <2> HIDE DEF all, F, good, T
  <2>11. /\ Dedupe(all) \in Seq(T) /\ ToSet(Dedupe(all)) = ToSet(all)
         /\ Dedupe(all) = Kept(all, Firsts(all)) /\ Firsts(all) \subseteq 1 .. Len(all)
    BY <2>8, DedupeElements
  <2>12. Leads(F, Dedupe(all))
    BY <2>8, <2>10, <2>11, KeptLeads
  <2>13. CASE good("free") = {}
    <3>1. s = <<>>
      BY <2>1, <2>7, <2>13
    <3> QED
      BY <2>13, <3>1 DEF ToSet, Leads
  <2>14. CASE good("free") # {}
    BY <2>1, <2>7, <2>9, <2>11, <2>12, <2>14
  <2> QED
    BY <2>13, <2>14
<1>17. category \in Category \/ category = "free-cheap"
  BY TextCategorySet
<1>18. Offers(s, category, p, models, class, specials)
  BY <1>15, <1>16, <1>17 DEF Offers
<1> QED
  BY <1>18 DEF s

-----------------------------------------------------------------------------
(* The generated aliases *)

Scopes(c) == ToSet(c.enabled) \cup {"auto", "compat"}

(* What the text alias of a scope and a category holds.                        *)
Value(s, k, c, models, class, specials) ==
  IF s \in ToSet(c.enabled) THEN ProviderCandidates(s, k, models, class, specials)
  ELSE Dedupe(Concat([i \in DOMAIN c.enabled |->
                        ProviderCandidates(c.enabled[i], k, models, class, specials)]))

(* A text alias is there for a scope and a category, and where the list of    *)
(* these is not empty.                                                        *)
LEMMA TextAliasIds ==
  ASSUME NEW c, NEW models, NEW class, NEW specials
  PROVE  LET al == GeneratedAliases(c, models, class, specials)
         IN  /\ \A a \in DOMAIN al : a.modality = "text" =>
                  \E s \in Scopes(c), k \in ToSet(TextCategories) :
                     /\ a = AliasId(s, "text", k)
                     /\ al[a] = Value(s, k, c, models, class, specials) /\ al[a] # <<>>
             /\ \A s \in Scopes(c), k \in ToSet(TextCategories) :
                  Value(s, k, c, models, class, specials) # <<>> =>
                    AliasId(s, "text", k) \in DOMAIN al
<1> DEFINE al == GeneratedAliases(c, models, class, specials)
           texts == {AliasId(s, "text", k) : s \in ToSet(c.enabled) \cup {"auto", "compat"},
                                             k \in ToSet(TextCategories)}
           medias == {AliasId(s, d, "default") : s \in ToSet(c.enabled) \cup {"auto"},
                                                 d \in ToSet(MediaModalities)}
           value(s, k) == Value(s, k, c, models, class, specials)
           media(p, modality) == MediaCandidates(p, modality, models)
           merged(what) == Dedupe(Concat([i \in DOMAIN c.enabled |-> media(c.enabled[i], what)]))
           shown(id) == IF id.scope \in ToSet(c.enabled) THEN media(id.scope, id.modality)
                                                         ELSE merged(id.modality)
           all == [id \in texts \cup medias |->
                     IF id.modality = "text" THEN value(id.scope, id.category) ELSE shown(id)]
<1>1. al = [id \in {i \in DOMAIN all : all[i] # <<>>} |-> all[id]]
  BY DEF GeneratedAliases, Value
<1>2. \A id \in medias : id.modality # "text"
  <2>1. \A d \in ToSet(MediaModalities) : d \in {"image", "video", "audio"}
    <3>1. MediaModalities \in Seq({"image", "video", "audio"})
      BY DEF MediaModalities
    <3> QED
      BY <3>1, Elements
  <2>2. ASSUME NEW s \in ToSet(c.enabled) \cup {"auto"}, NEW d \in ToSet(MediaModalities)
        PROVE  AliasId(s, d, "default").modality # "text"
    <3>1. AliasId(s, d, "default").modality = d
      BY DEF AliasId
    <3> QED
      BY <2>1, <3>1
  <2> QED
    BY <2>2
<1>3. DOMAIN all = texts \cup medias
      /\ \A id \in DOMAIN all : id.modality = "text" => all[id] = value(id.scope, id.category)
  OBVIOUS
<1> HIDE DEF al, all, medias, value
<1>4. DOMAIN al = {i \in DOMAIN all : all[i] # <<>>} /\ \A a \in DOMAIN al : al[a] = all[a]
  BY <1>1
<1>5. \A s \in Scopes(c), k \in ToSet(TextCategories) :
        /\ AliasId(s, "text", k) \in texts
        /\ AliasId(s, "text", k).scope = s /\ AliasId(s, "text", k).category = k
        /\ AliasId(s, "text", k).modality = "text"
  BY DEF AliasId, Scopes
<1>6. \A a \in texts : \E s \in Scopes(c), k \in ToSet(TextCategories) : a = AliasId(s, "text", k)
  BY DEF Scopes
<1> HIDE DEF texts
<1>7. ASSUME NEW a \in DOMAIN al, a.modality = "text"
      PROVE  \E s \in Scopes(c), k \in ToSet(TextCategories) :
               a = AliasId(s, "text", k) /\ al[a] = value(s, k) /\ al[a] # <<>>
  <2>1. a \in texts
    BY <1>2, <1>3, <1>4, <1>7
  <2>2. PICK s \in Scopes(c), k \in ToSet(TextCategories) : a = AliasId(s, "text", k)
    BY <1>6, <2>1
  <2>3. al[a] = value(s, k) /\ al[a] # <<>>
    BY <1>3, <1>4, <1>5, <1>7, <2>2
  <2> QED
    BY <2>2, <2>3
<1>8. ASSUME NEW s \in Scopes(c), NEW k \in ToSet(TextCategories), value(s, k) # <<>>
      PROVE  AliasId(s, "text", k) \in DOMAIN al
  BY <1>3, <1>4, <1>5, <1>8
<1> QED
  BY <1>7, <1>8 DEF al, value

(* The free and the cheap ones are what a free-cheap alias may hold.             *)
Shown(category, models, class, specials) ==
  IF category = "free-cheap"
  THEN Good("free", models, class, specials) \cup Good("fast", models, class, specials)
  ELSE Good(category, models, class, specials)

In(s, c, S) == IF s \in ToSet(c.enabled) THEN Of(s, S) ELSE S

AliasOffers(list, s, k, c, models, class, specials) ==
  LET good(category) == Good(category, models, class, specials)
  IN  /\ list \in Seq(TextOnes(models) \cup FreeRoutes(specials))
      /\ k \in Category => ToSet(list) = In(s, c, good(k))
      /\ k = "free-cheap" =>
           /\ ToSet(list) \subseteq good("free") \cup good("fast")
           /\ list # <<>> => \E x \in ToSet(list) : x \in In(s, c, good("free"))
           /\ s \in ToSet(c.enabled) => Leads(good("free"), list)

(* What is good for a category is of a provider with a key.                   *)
LEMMA GoodOnes ==
  ASSUME NEW c, Config(c), NEW models, NEW class, NEW specials,
         ModelsOK(models, c), RoutesOK(specials, c), NEW k
  PROVE  \A x \in Good(k, models, class, specials) : x[1] \in ToSet(c.keyed)
<1>1. ASSUME NEW x \in TextOnes(models) PROVE x[1] \in ToSet(c.keyed)
  <2>1. PICK i \in 1 .. Len(models) : x = Candidate(models[i])
    BY DEF TextOnes
  <2> QED
    BY <2>1 DEF Candidate, ModelsOK
<1>2. ASSUME NEW x \in FreeRoutes(specials) PROVE x[1] \in ToSet(c.keyed)
  BY DEF FreeRoutes, RoutesOK
<1> QED
  BY <1>1, <1>2 DEF Good

(* The list of an alias offers what is good for its category in its scope.    *)
LEMMA ValueOffers ==
  ASSUME NEW c, Config(c), NEW models, NEW class, NEW specials,
         ModelsOK(models, c), ClassOK(models, class), RoutesOK(specials, c),
         NEW s \in Scopes(c), NEW k \in ToSet(TextCategories)
  PROVE  AliasOffers(Value(s, k, c, models, class, specials), s, k, c, models, class, specials)
<1> DEFINE good(category) == Good(category, models, class, specials)
           from(p) == ProviderCandidates(p, k, models, class, specials)
           list == Value(s, k, c, models, class, specials)
           T == TextOnes(models) \cup FreeRoutes(specials)
<1>0. \A p : Offers(from(p), k, p, models, class, specials)
  BY ProviderOffers
<1>1. \A p : /\ from(p) \in Seq(T)
             /\ k \in Category => ToSet(from(p)) = Of(p, good(k))
             /\ k = "free-cheap" =>
                  /\ ToSet(from(p)) = IF Of(p, good("free")) = {} THEN {}
                                      ELSE Of(p, good("free")) \cup Of(p, good("fast"))
                  /\ Leads(good("free"), from(p))
  BY <1>0 DEF Offers
<1>2. c.enabled \in Seq(ToSet(c.enabled)) /\ DOMAIN c.enabled = 1 .. Len(c.enabled)
  BY DEF Config, IsList
<1>3. \A p \in ToSet(c.enabled) : \E i \in 1 .. Len(c.enabled) : c.enabled[i] = p
  BY <1>2, Elements
<1> HIDE DEF from, T
<1>4. CASE s \in ToSet(c.enabled)
  <2>1. list = from(s)
    BY <1>4 DEF Value, from
  <2> HIDE DEF list, good
  <2>2. k = "free-cheap" /\ from(s) # <<>> => \E x \in ToSet(from(s)) : x \in Of(s, good("free"))
    <3> SUFFICES ASSUME k = "free-cheap", from(s) # <<>>
                 PROVE  \E x \in ToSet(from(s)) : x \in Of(s, good("free"))
      OBVIOUS
    <3>1. ToSet(from(s)) # {}
      <4>1. from(s) \in Seq(T)
        BY <1>1
      <4> DEFINE f == from(s)
      <4>2. f # <<>> /\ f \in Seq(T)
        BY <4>1
      <4> HIDE DEF f
      <4>3. 1 \in 1 .. Len(f)
        BY <4>2
      <4>4. f[1] \in ToSet(f)
        BY <4>2, <4>3, Elements
      <4> QED
        BY <4>4 DEF f
    <3> QED
      BY <1>1, <3>1
  <2>3. k \in Category => ToSet(from(s)) = Of(s, good(k))
    BY <1>1
  <2>4. k = "free-cheap" => /\ ToSet(from(s)) \subseteq good("free") \cup good("fast")
                            /\ Leads(good("free"), from(s))
    BY <1>1 DEF Of
  <2>5. \A S : In(s, c, S) = Of(s, S)
    BY <1>4 DEF In
  <2>6. AliasOffers(from(s), s, k, c, models, class, specials)
    BY <1>1, <1>4, <2>2, <2>3, <2>4, <2>5 DEF AliasOffers, T, good
  <2> QED
    BY <2>1, <2>6 DEF list
<1>5. CASE s \notin ToSet(c.enabled)
  <2> DEFINE lists == [i \in DOMAIN c.enabled |-> from(c.enabled[i])]
             all == Concat(lists)
  <2>1. list = Dedupe(all)
    BY <1>5 DEF Value, from
  <2>2. lists \in Seq(Seq(T)) /\ Len(lists) = Len(c.enabled)
        /\ \A i \in 1 .. Len(c.enabled) : lists[i] = from(c.enabled[i])
    BY <1>1, <1>2
  <2> HIDE DEF lists
  <2>3. all \in Seq(T) /\ ToSet(all) = UNION {ToSet(lists[i]) : i \in 1 .. Len(lists)}
    BY <2>2, ConcatElements
  <2> HIDE DEF all, list, good
  <2>4. list \in Seq(T) /\ ToSet(list) = ToSet(all)
    BY <2>1, <2>3, DedupeElements
  <2>5. \A x : x \in ToSet(list) <=> \E p \in ToSet(c.enabled) : x \in ToSet(from(p))
    <3>1. \A i \in 1 .. Len(c.enabled) : c.enabled[i] \in ToSet(c.enabled)
      BY <1>2, Elements
    <3>2. ASSUME NEW x \in ToSet(list) PROVE \E p \in ToSet(c.enabled) : x \in ToSet(from(p))
      BY <2>2, <2>3, <2>4, <3>1
    <3>3. ASSUME NEW x, NEW p \in ToSet(c.enabled), x \in ToSet(from(p)) PROVE x \in ToSet(list)
      <4>1. PICK i \in 1 .. Len(c.enabled) : c.enabled[i] = p
        BY <1>3
      <4> QED
        BY <2>2, <2>3, <2>4, <3>3, <4>1
    <3> QED
      BY <3>2, <3>3
  <2>6. \A category : \A x \in good(category) : x[1] \in ToSet(c.enabled)
    <3>1. \A category : \A x \in good(category) : x[1] \in ToSet(c.keyed)
      BY GoodOnes DEF good
    <3> QED
      BY <3>1 DEF Config
  <2>7. k \in Category => ToSet(list) = good(k)
    <3> SUFFICES ASSUME k \in Category PROVE ToSet(list) = good(k)
      OBVIOUS
    <3>1. ToSet(list) \subseteq good(k)
      BY <1>1, <2>5 DEF Of
    <3>2. good(k) \subseteq ToSet(list)
      BY <1>1, <2>5, <2>6 DEF Of
    <3> QED
      BY <3>1, <3>2
  <2>8. k = "free-cheap" => ToSet(list) \subseteq good("free") \cup good("fast")
    BY <1>1, <2>5 DEF Of
  <2>9. k = "free-cheap" /\ list # <<>> => \E x \in ToSet(list) : x \in good("free")
    <3> SUFFICES ASSUME k = "free-cheap", list # <<>>
                 PROVE  \E x \in ToSet(list) : x \in good("free")
      OBVIOUS
    <3>1. 1 \in 1 .. Len(list)
      BY <2>4
    <3>2. PICK x : x \in ToSet(list)
      BY <2>4, <3>1, Elements
    <3>3. PICK p \in ToSet(c.enabled) : x \in ToSet(from(p))
      BY <2>5, <3>2
    <3>4. PICK y : y \in Of(p, good("free"))
      BY <1>1, <3>3
    <3>5. y \in ToSet(from(p))
      BY <1>1, <3>4
    <3> QED
      BY <2>5, <3>4, <3>5 DEF Of
  <2> QED
    BY <1>5, <2>4, <2>7, <2>8, <2>9 DEF AliasOffers, In, T, good, list
<1> QED
  BY <1>4, <1>5

-----------------------------------------------------------------------------
(* What a request asks for *)

(* A request has one of the profiles; with tools, and no profile named but    *)
(* code, that is code.                                                        *)
LEMMA AnalysisProfile ==
  ASSUME NEW r, r.explicit # NULL => r.explicit \in Profiles
  PROVE  /\ Analysis(r).profile \in Profiles
         /\ r.tools /\ r.explicit \in {NULL, "code"} =>
              Analysis(r).profile = "code" /\ Analysis(r).intent = "code"
<1> DEFINE score == ComplexityScore(r)
           intent == ClassifiedIntent(r, score)
           profile == ProfileForIntent(intent, score, TokenEstimate(r))
<1>1. profile \in Profiles
  <2> DEFINE heavy == score >= 55 \/ TokenEstimate(r) >= 32000
             great == score >= 66 \/ TokenEstimate(r) >= 128000
  <2>1. profile
          = CASE intent = "code" -> "code"
              [] intent = "critical" -> "strong"
              [] intent \in {"planning", "analysis"} -> IF heavy THEN "strong" ELSE "balanced"
              [] intent \in {"trivial", "light"} -> "fast"
              [] OTHER -> IF great THEN "strong" ELSE "balanced"
    BY DEF ProfileForIntent
  <2> HIDE DEF intent, profile, heavy, great
  <2>2. profile \in {"code", "strong", "balanced", "fast"}
    <3>1. CASE intent = "code"
      BY <2>1, <3>1
    <3>2. CASE intent = "critical"
      BY <2>1, <3>2
    <3>3. CASE intent \in {"planning", "analysis"}
      BY <2>1, <3>3
    <3>4. CASE intent \in {"trivial", "light"}
      BY <2>1, <3>4
    <3>5. CASE intent \notin {"code", "critical", "planning", "analysis", "trivial", "light"}
      BY <2>1, <3>5
    <3> QED
      BY <3>1, <3>2, <3>3, <3>4, <3>5
  <2> QED
    BY <2>2 DEF Profiles
<1>2. r.tools => intent = "code"
  BY DEF ClassifiedIntent
<1>3. r.tools => profile = "code"
  BY <1>2 DEF ProfileForIntent
<1>4. /\ r.explicit = NULL => /\ Analysis(r).profile = profile
                              /\ Analysis(r).intent = intent
      /\ r.explicit # NULL => /\ Analysis(r).profile = r.explicit
                              /\ r.explicit = "code" => Analysis(r).intent = "code"
  BY DEF Analysis
<1> QED
  BY <1>1, <1>2, <1>3, <1>4

(* Up to four things in a row are a list of these.                            *)
LEMMA ShortLists ==
  /\ \A x : IsList(<<x>>)
  /\ \A x, y : IsList(<<x, y>>) /\ ToSet(<<x, y>>) = {x, y}
  /\ \A x, y, z : IsList(<<x, y, z>>) /\ ToSet(<<x, y, z>>) = {x, y, z}
  /\ \A w, x, y, z : IsList(<<w, x, y, z>>) /\ ToSet(<<w, x, y, z>>) = {w, x, y, z}
BY DEF IsList, ToSet

(* A list without repetitions is a list.                                      *)
LEMMA DedupeList ==
  ASSUME NEW s, IsList(s)
  PROVE  IsList(Dedupe(s)) /\ ToSet(Dedupe(s)) = ToSet(s)
<1>1. Dedupe(s) \in Seq(ToSet(s)) /\ ToSet(Dedupe(s)) = ToSet(s)
  BY DedupeElements DEF IsList
<1> QED
  BY <1>1 DEF IsList

(* A strictly free request falls back on nothing, a free-cheap one on fast    *)
(* only, and one for code asks for its own category too.                      *)
LEMMA FallbackCategories ==
  ASSUME NEW requested, NEW preferred, NEW intent
  PROVE  LET s == CategoryFallbacks(requested, preferred, intent)
         IN  /\ IsList(s)
             /\ requested = "free" => s = <<"free">>
             /\ requested = "free-cheap" => s = <<"free", "fast">>
             /\ preferred = "code" /\ intent = "code" => requested \in ToSet(s)
                                                         \/ requested = "free-cheap"
<1> DEFINE s == CategoryFallbacks(requested, preferred, intent)
           weighty == intent \in {"planning", "analysis", "critical"}
           usual == CASE preferred = "code" -> <<"code", "reasoning", "general", requested>>
                      [] preferred = "reasoning" -> <<"reasoning", "general", requested>>
                      [] preferred = "general" -> <<"general", "fast", requested>>
                      [] OTHER -> <<"fast", "general", requested>>
           reasoning == IF intent = "trivial" THEN <<"fast", "general", "reasoning">>
                        ELSE IF weighty THEN <<"reasoning", "general">>
                        ELSE IF preferred = "fast" THEN <<"general", "reasoning">>
                        ELSE Dedupe(usual)
           heavy == Dedupe(<<preferred, "reasoning", "general">>)
<1>1. s = CASE requested = "free" -> <<"free">>
            [] requested = "free-cheap" -> <<"free", "fast">>
            [] requested = "reasoning" -> reasoning
            [] requested = "general" /\ weighty -> heavy
            [] OTHER -> Dedupe(usual)
  BY DEF CategoryFallbacks
<1>2. IsList(usual) /\ requested \in ToSet(usual)
  <2>1. \/ usual = <<"code", "reasoning", "general", requested>>
        \/ usual = <<"reasoning", "general", requested>>
        \/ usual = <<"general", "fast", requested>>
        \/ usual = <<"fast", "general", requested>>
    BY Zenon
  <2> HIDE DEF usual
  <2> QED
    BY <2>1, ShortLists
<1> HIDE DEF usual
<1>3. IsList(Dedupe(usual)) /\ requested \in ToSet(Dedupe(usual))
  BY <1>2, DedupeList
<1>4. IsList(heavy)
  BY ShortLists, DedupeList
<1>5. IsList(reasoning)
  BY <1>3, ShortLists
<1>6. preferred = "code" /\ intent = "code" => reasoning = Dedupe(usual) /\ ~ weighty
  OBVIOUS
<1> DEFINE Goal == /\ IsList(s)
                   /\ requested = "free" => s = <<"free">>
                   /\ requested = "free-cheap" => s = <<"free", "fast">>
                   /\ preferred = "code" /\ intent = "code" => requested \in ToSet(s)
                      \/ requested = "free-cheap"
<1> HIDE DEF s, weighty, reasoning, heavy
<1>7. CASE requested = "free"
  <2>1. s = <<requested>>
    BY <1>1, <1>7
  <2>2. IsList(s) /\ requested \in ToSet(s)
    BY <2>1, ShortLists DEF ToSet
  <2>3. Goal
    BY <1>7, <2>1, <2>2
  <2> QED
    BY <2>3 DEF s
<1>8. CASE requested = "free-cheap"
  <2>1. s = <<"free", "fast">>
    BY <1>1, <1>8
  <2>2. Goal
    BY <1>8, <2>1, ShortLists
  <2> QED
    BY <2>2 DEF s
<1>9. CASE requested \notin {"free", "free-cheap"}
  <2>1. s = reasoning \/ s = heavy \/ s = Dedupe(usual)
    BY <1>1, <1>9
  <2>2. IsList(s)
    BY <1>3, <1>4, <1>5, <2>1
  <2>3. preferred = "code" /\ intent = "code" => s = Dedupe(usual)
    BY <1>1, <1>6, <1>9
  <2>4. Goal
    BY <1>3, <1>9, <2>2, <2>3
  <2> QED
    BY <2>4 DEF s
<1> QED
  BY <1>7, <1>8, <1>9

-----------------------------------------------------------------------------
(* Narrowing and ranking *)

(* A list made of elements of t.                                              *)
Part(s, t) == IsList(s) /\ ToSet(s) \subseteq ToSet(t)

(* Keeping some places makes a part of a list, and leaves its first ones      *)
(* first.                                                                     *)
LEMMA KeptPart ==
  ASSUME NEW s, IsList(s), NEW places, places \subseteq 1 .. Len(s)
  PROVE  /\ Part(Kept(s, places), s)
         /\ ToSet(Kept(s, places)) = {s[i] : i \in places}
         /\ \A F : Leads(F, s) => Leads(F, Kept(s, places))
<1>1. s \in Seq(ToSet(s))
  BY DEF IsList
<1>2. Kept(s, places) \in Seq(ToSet(s)) /\ ToSet(Kept(s, places)) = {s[i] : i \in places}
  BY <1>1, KeptElements
<1>3. IsList(Kept(s, places)) /\ ToSet(Kept(s, places)) \subseteq ToSet(s)
  BY <1>2, OwnElements, Elements
<1>4. \A F : Leads(F, s) => Leads(F, Kept(s, places))
  BY <1>1, KeptLeads
<1> QED
  BY <1>2, <1>3, <1>4 DEF Part

(* A list is empty when it has no elements.                                   *)
LEMMA EmptyList ==
  ASSUME NEW s, IsList(s)
  PROVE  s = <<>> <=> ToSet(s) = {}
<1>1. s \in Seq(ToSet(s)) /\ Len(s) \in Nat
  BY DEF IsList
<1>2. s # <<>> => 1 \in 1 .. Len(s)
  BY <1>1
<1>3. \A i \in 1 .. Len(s) : s[i] \in ToSet(s)
  BY <1>1, Elements
<1>4. ToSet(<<>>) = {}
  BY DEF ToSet
<1> QED
  BY <1>2, <1>3, <1>4

(* The places of a list.                                                      *)
LEMMA PlacesIn ==
  ASSUME NEW s, IsList(s)
  PROVE  /\ DOMAIN s = 1 .. Len(s)
         /\ \A x : x \in ToSet(s) <=> \E i \in DOMAIN s : s[i] = x
<1>1. s \in Seq(ToSet(s))
  BY DEF IsList
<1> QED
  BY <1>1, Elements

(* Of a list the candidates are kept whose provider has a key.                *)
LEMMA KeyedPart ==
  ASSUME NEW c, NEW s, IsList(s)
  PROVE  /\ Part(KeyedOnly(c, s), s)
         /\ ToSet(KeyedOnly(c, s)) = {x \in ToSet(s) : IsKeyed(c, x[1])}
         /\ \A F : Leads(F, s) => Leads(F, KeyedOnly(c, s))
<1> DEFINE places == {i \in DOMAIN s : IsKeyed(c, s[i][1])}
<1>1. places \subseteq 1 .. Len(s) /\ DOMAIN s = 1 .. Len(s)
  BY PlacesIn
<1>2. {s[i] : i \in places} = {x \in ToSet(s) : IsKeyed(c, x[1])}
  BY PlacesIn
<1>3. KeyedOnly(c, s) = Kept(s, places)
  BY DEF KeyedOnly
<1> HIDE DEF places
<1> QED
  BY <1>1, <1>2, <1>3, KeptPart

(* Of a list the candidates are kept that support tools.                      *)
LEMMA CapablePart ==
  ASSUME NEW c, NEW s, IsList(s)
  PROVE  /\ Part(ToolCapable(c, s), s)
         /\ ToSet(ToolCapable(c, s)) = {x \in ToSet(s) : SupportsTools(c, x)}
<1> DEFINE places == {i \in DOMAIN s : SupportsTools(c, s[i])}
<1>1. places \subseteq 1 .. Len(s) /\ DOMAIN s = 1 .. Len(s)
  BY PlacesIn
<1>2. {s[i] : i \in places} = {x \in ToSet(s) : SupportsTools(c, x)}
  BY PlacesIn
<1>3. ToolCapable(c, s) = Kept(s, places)
  BY DEF ToolCapable
<1> HIDE DEF places
<1> QED
  BY <1>1, <1>2, <1>3, KeptPart

(* Of a list the candidates are kept whose limit the request fits.            *)
LEMMA ContextPart ==
  ASSUME NEW s, IsList(s), NEW models, NEW r
  PROVE  /\ Part(FilteredByContext(s, models, r), s)
         /\ \A F : Leads(F, s) => Leads(F, FilteredByContext(s, models, r))
<1> DEFINE fits(k) == \A i \in DOMAIN models : Candidate(models[i]) = k => FitsContext(models[i], r)
           places == {n \in DOMAIN s : fits(s[n])}
<1>1. places \subseteq 1 .. Len(s)
  BY PlacesIn
<1>2. FilteredByContext(s, models, r) = Kept(s, places)
  BY DEF FilteredByContext
<1> HIDE DEF places
<1> QED
  BY <1>1, <1>2, KeptPart

(* Every model has a profile.                                                 *)
LEMMA ProfileOfCandidate ==
  ASSUME NEW k
  PROVE  CandidateProfile(k) \in Profiles
<1> DEFINE marks == Name[k[2]]
           met == {i \in DOMAIN ProfileMarkers : ProfileMarkers[i][1] \cap marks # {}}
<1>1. CandidateProfile(k) = IF met = {} THEN "balanced" ELSE ProfileMarkers[Min(met)][2]
  BY DEF CandidateProfile, FirstMatch
<1>2. DOMAIN ProfileMarkers = 1 .. 4
  BY DEF ProfileMarkers
<1>3. \A i \in 1 .. 4 : ProfileMarkers[i][2] \in Profiles
  BY DEF ProfileMarkers, Profiles
<1>4. met \subseteq 1 .. 4 /\ met \subseteq Nat
  BY <1>2
<1> HIDE DEF met
<1>5. met # {} => Min(met) \in met
  <2> SUFFICES ASSUME met # {} PROVE Min(met) \in met
    OBVIOUS
  <2>1. \E x \in met : \A y \in met : x <= y
    BY <1>4, LeastOne
  <2> QED
    BY <2>1 DEF Min
<1> QED
  BY <1>1, <1>3, <1>4, <1>5 DEF Profiles

(* Profiles are compared by numbers.                                          *)
LEMMA ProfileScores ==
  ASSUME NEW p \in Profiles, NEW q \in Profiles
  PROVE  ProfileScore[p][q] \in Int
BY DEF Profiles, ProfileScore

(* Ranking keeps a part of the candidates.                                    *)
LEMMA RankPart ==
  ASSUME NEW c, NEW s, IsList(s), NEW profile \in Profiles
  PROVE  Part(RankAdaptive(c, s, profile), s)
<1> DEFINE capable == ToolCapable(c, s)
           narrowed == IF profile = "code" /\ capable # <<>> THEN capable ELSE s
           noCode == \A i \in DOMAIN narrowed : CandidateProfile(narrowed[i]) # "code"
           has(k) == IF profile # "code" \/ SupportsTools(c, k) THEN 1 ELSE 0
           key(k) == <<has(k), ProfileScore[profile][CandidateProfile(k)]>>
           keys == [i \in DOMAIN narrowed |-> key(narrowed[i])]
           ranked == Ranked(narrowed, keys)
<1>1. RankAdaptive(c, s, profile) = IF profile = "code" /\ capable # <<>> /\ noCode
                                    THEN narrowed ELSE ranked
  BY DEF RankAdaptive
<1>2. Part(narrowed, s)
  <2>1. Part(capable, s)
    BY CapablePart
  <2>2. Part(s, s)
    BY DEF Part
  <2> QED
    BY <2>1, <2>2
<1> HIDE DEF capable, narrowed
<1>3. \A k : key(k) \in [1 .. 2 -> Int]
  <2> TAKE k
  <2>1. has(k) \in {0, 1}
    BY Zenon
  <2>2. ProfileScore[profile][CandidateProfile(k)] \in Int
    BY ProfileOfCandidate, ProfileScores
  <2> HIDE DEF has
  <2> QED
    BY <2>1, <2>2
<1> HIDE DEF key
<1>4. narrowed \in Seq(ToSet(narrowed)) /\ DOMAIN narrowed = 1 .. Len(narrowed)
  BY <1>2 DEF Part, IsList
<1>5. \A i \in 1 .. Len(narrowed) : keys[i] \in [1 .. 2 -> Int]
  BY <1>3, <1>4
<1> HIDE DEF keys
<1>6. ranked \in Seq(ToSet(narrowed)) /\ ToSet(ranked) = ToSet(narrowed)
  <2>1. 2 \in Nat
    OBVIOUS
  <2> QED
    BY <1>4, <1>5, <2>1, RankedElements
<1> HIDE DEF ranked
<1>7. Part(ranked, s)
  BY <1>2, <1>6, OwnElements DEF Part
<1> QED
  BY <1>1, <1>2, <1>7

(* Adapting keeps a part of the candidates; with tools, one of those that     *)
(* support them if there are any.                                             *)
LEMMA AdaptedPart ==
  ASSUME NEW c, NEW s, IsList(s), NEW r, r.explicit # NULL => r.explicit \in Profiles
  PROVE  /\ Part(Adapted(c, s, r), s)
         /\ /\ r.tools /\ r.explicit \in {NULL, "code"}
            /\ \E x \in ToSet(s) : SupportsTools(c, x)
            => \A x \in ToSet(Adapted(c, s, r)) : SupportsTools(c, x)
<1> DEFINE capable == ToolCapable(c, s)
           toolsMatter == Analysis(r).profile = "code" /\ r.tools
           profile == Analysis(r).profile
<1>1. Adapted(c, s, r) = IF toolsMatter /\ capable # <<>> THEN RankAdaptive(c, capable, "code")
                         ELSE IF toolsMatter /\ s # <<>> THEN RankAdaptive(c, s, "fast")
                         ELSE RankAdaptive(c, s, profile)
  BY DEF Adapted
<1>2. Part(capable, s) /\ ToSet(capable) = {x \in ToSet(s) : SupportsTools(c, x)}
  BY CapablePart
<1>3. profile \in Profiles
  BY AnalysisProfile
<1>4. r.tools /\ r.explicit \in {NULL, "code"} => toolsMatter
  BY AnalysisProfile
<1> HIDE DEF capable, toolsMatter, profile
<1>5. "code" \in Profiles /\ "fast" \in Profiles
  BY DEF Profiles
<1>6. Part(RankAdaptive(c, capable, "code"), capable)
  BY <1>2, <1>5, RankPart DEF Part
<1>7. Part(RankAdaptive(c, s, "fast"), s) /\ Part(RankAdaptive(c, s, profile), s)
  BY <1>3, <1>5, RankPart
<1>8. Part(RankAdaptive(c, capable, "code"), s)
  BY <1>2, <1>6 DEF Part
<1>9. Part(Adapted(c, s, r), s)
  BY <1>1, <1>7, <1>8
<1>10. ASSUME r.tools, r.explicit \in {NULL, "code"}, \E x \in ToSet(s) : SupportsTools(c, x)
       PROVE  \A x \in ToSet(Adapted(c, s, r)) : SupportsTools(c, x)
  <2>1. capable # <<>>
    BY <1>2, <1>10, EmptyList DEF Part
  <2>2. Adapted(c, s, r) = RankAdaptive(c, capable, "code")
    BY <1>1, <1>4, <1>10, <2>1
  <2> QED
    BY <1>2, <1>6, <2>2 DEF Part
<1> QED
  BY <1>9, <1>10

-----------------------------------------------------------------------------
(* The fallbacks *)

(* The elements of the first of some lists, wherever they are met again, lead.  *)
LEMMA FirstListLeads ==
  ASSUME NEW T, NEW lists \in Seq(Seq(T)), 1 \in 1 .. Len(lists), NEW G, ToSet(lists[1]) = G
  PROVE  Leads(G, Dedupe(Concat(lists)))
<1> DEFINE all == Concat(lists)
<1>1. all \in Seq(T) /\ \E at : RunsThrough(all, lists, at)
  BY ConcatInOrder
<1> HIDE DEF all
<1>2. PICK at : RunsThrough(all, lists, at)
  BY <1>1
<1>3. lists[1] \in Seq(T)
  OBVIOUS
<1>4. \A x : x \in G <=> \E j \in 1 .. Len(lists[1]) : lists[1][j] = x
  BY <1>3, Elements
<1>5. ASSUME NEW p \in 1 .. Len(all), NEW q \in 1 .. Len(all), p < q, all[q] \in G
      PROVE  all[p] \in G \/ \E n \in 1 .. q - 1 : all[n] = all[q]
  <2>1. PICK j \in 1 .. Len(lists[1]) : lists[1][j] = all[q]
    BY <1>4, <1>5
  <2>2. PICK n \in 1 .. Len(all) : at[n] = <<1, j>>
    BY <1>2 DEF RunsThrough
  <2>3. all[n] = lists[at[n][1]][at[n][2]]
    BY <1>2 DEF RunsThrough
  <2>4. all[n] = all[q]
    BY <2>1, <2>2, <2>3
  <2>5. CASE n < q
    <3>1. n \in 1 .. q - 1
      BY <1>1, <2>5
    <3> QED
      BY <2>4, <3>1
  <2>6. CASE ~ n < q
    <3>1. at[q][1] <= at[n][1]
      <4>1. CASE n = q
        BY <2>2, <4>1
      <4>2. CASE n # q
        <5>1. q < n
          BY <1>1, <2>6, <4>2
        <5> QED
          BY <1>2, <5>1 DEF RunsThrough
      <4> QED
        BY <4>1, <4>2
    <3>2. at[p][1] <= at[q][1]
      BY <1>2, <1>5 DEF RunsThrough
    <3>3. /\ at[p][1] \in 1 .. Len(lists) /\ at[p][2] \in 1 .. Len(lists[at[p][1]])
          /\ all[p] = lists[at[p][1]][at[p][2]]
          /\ at[q][1] \in 1 .. Len(lists)
      BY <1>2 DEF RunsThrough
    <3>4. at[p][1] = 1
      <4>1. at[n][1] = 1
        BY <2>2
      <4> DEFINE x == at[p][1]
                 y == at[q][1]
      <4>2. x \in Int /\ y \in Int /\ x >= 1 /\ y <= 1 /\ x <= y
        BY <3>1, <3>2, <3>3, <4>1
      <4> HIDE DEF x, y
      <4>3. x = 1
        BY <4>2
      <4> QED
        BY <4>3 DEF x
    <3> QED
      BY <1>4, <3>3, <3>4
  <2> QED
    BY <2>5, <2>6
<1>6. Leads(G, Dedupe(all))
  BY <1>1, <1>5, DedupeLeads
<1> QED
  BY <1>6 DEF all

FallbackScope(name) == IF name.scope = "compat" THEN "auto" ELSE name.scope

FallbacksOf(name, r) ==
  CategoryFallbacks(name.category, CategoryForProfile(Analysis(r).profile), Analysis(r).intent)

(* The aliases there are for some categories in a scope.                        *)
ThereFor(scope, categories, aliases) ==
  {a \in DOMAIN aliases : \E k \in ToSet(categories) : a = AliasId(scope, "text", k)}

(* An adaptive alias offers what the aliases of its fallbacks offer.          *)
LEMMA AdaptiveElements ==
  ASSUME NEW aliases, \A a \in DOMAIN aliases : IsList(aliases[a]), NEW name, NEW r
  PROVE  LET s == AdaptiveCandidates(name, aliases, r)
             scope == FallbackScope(name)
         IN  /\ IsList(s)
             /\ ToSet(s) = UNION {ToSet(aliases[a]) :
                                  a \in ThereFor(scope, FallbacksOf(name, r), aliases)}
             /\ FallbacksOf(name, r) = <<"free", "fast">>
                /\ AliasId(scope, "text", "free") \in DOMAIN aliases
                => Leads(ToSet(aliases[AliasId(scope, "text", "free")]), s)
<1> DEFINE s == AdaptiveCandidates(name, aliases, r)
           scope == FallbackScope(name)
           categories == FallbacksOf(name, r)
           ids == [i \in DOMAIN categories |-> AliasId(scope, "text", categories[i])]
           places == {i \in DOMAIN ids : ids[i] \in DOMAIN aliases}
           there == Kept(ids, places)
           lists == [i \in DOMAIN there |-> aliases[there[i]]]
           all == Concat(lists)
           T == UNION {ToSet(aliases[a]) : a \in DOMAIN aliases}
           A == {ids[i] : i \in DOMAIN ids}
           chosen == ThereFor(scope, categories, aliases)
           first == AliasId(scope, "text", "free")
<1>1. s = Dedupe(all)
  BY DEF AdaptiveCandidates, CandidatesOf, FallbackIds, FallbackScope, FallbacksOf
<1>2. IsList(categories)
  BY FallbackCategories DEF FallbacksOf
<1>3. /\ DOMAIN categories = 1 .. Len(categories) /\ Len(categories) \in Nat
      /\ \A x : x \in ToSet(categories) <=> \E i \in DOMAIN categories : categories[i] = x
  BY <1>2, PlacesIn DEF IsList
<1> HIDE DEF s, scope, categories, T
<1>4. ids \in Seq(A) /\ DOMAIN ids = 1 .. Len(ids) /\ Len(ids) = Len(categories)
      /\ places \subseteq 1 .. Len(ids)
  BY <1>3
<1>5. {ids[i] : i \in places} = chosen
  BY <1>3 DEF ThereFor
<1>6. \A i \in 1 .. Len(ids) : ids[i] = AliasId(scope, "text", categories[i])
  BY <1>3
<1>7. 1 \in 1 .. Len(ids) /\ ids[1] \in DOMAIN aliases => 1 \in places
  BY <1>4
<1>8. chosen \subseteq DOMAIN aliases
  BY DEF ThereFor
<1> HIDE DEF ids, places, A, chosen
<1>9. there \in Seq(A) /\ ToSet(there) = chosen /\ \E at : PicksUp(there, ids, places, at)
  BY <1>4, <1>5, KeptElements, KeptInOrder
<1> HIDE DEF there
<1>10. /\ DOMAIN there = 1 .. Len(there) /\ Len(there) \in Nat
       /\ \A i \in 1 .. Len(there) : there[i] \in chosen
       /\ \A a \in chosen : \E i \in 1 .. Len(there) : there[i] = a
  BY <1>9, Elements
<1>11. \A a \in DOMAIN aliases : aliases[a] \in Seq(T)
  <2> TAKE a \in DOMAIN aliases
  <2>1. aliases[a] \in Seq(ToSet(aliases[a]))
    BY DEF IsList
  <2>2. ToSet(aliases[a]) \subseteq T
    BY DEF T
  <2> QED
    BY <2>1, <2>2, SeqWider
<1>12. /\ lists \in Seq(Seq(T)) /\ Len(lists) = Len(there)
       /\ \A i \in 1 .. Len(there) : lists[i] = aliases[there[i]]
  BY <1>8, <1>10, <1>11
<1> HIDE DEF lists
<1>13. all \in Seq(T) /\ ToSet(all) = UNION {ToSet(lists[i]) : i \in 1 .. Len(lists)}
  BY <1>12, ConcatElements
<1>14. ToSet(all) = UNION {ToSet(aliases[a]) : a \in chosen}
  <2>1. UNION {ToSet(lists[i]) : i \in 1 .. Len(lists)} \subseteq UNION {ToSet(aliases[a]) : a \in chosen}
    BY <1>10, <1>12
  <2>2. ASSUME NEW a \in chosen
        PROVE  ToSet(aliases[a]) \subseteq UNION {ToSet(lists[i]) : i \in 1 .. Len(lists)}
    <3>1. PICK i \in 1 .. Len(there) : there[i] = a
      BY <1>10
    <3>2. lists[i] = aliases[a] /\ i \in 1 .. Len(lists)
      BY <1>12, <3>1
    <3> QED
      BY <3>2
  <2> QED
    BY <1>13, <2>1, <2>2
<1>15. s \in Seq(T) /\ ToSet(s) = UNION {ToSet(aliases[a]) : a \in chosen}
  <2> HIDE DEF all
  <2>1. Dedupe(all) \in Seq(T) /\ ToSet(Dedupe(all)) = ToSet(all)
    BY <1>13, DedupeElements
  <2> QED
    BY <1>1, <1>14, <2>1
<1>16. ASSUME categories = <<"free", "fast">>, first \in DOMAIN aliases
       PROVE  Leads(ToSet(aliases[first]), s)
  <2>1. 1 \in 1 .. Len(ids) /\ ids[1] = first
    BY <1>4, <1>6, <1>16
  <2>2. 1 \in places
    BY <1>7, <1>16, <2>1
  <2>3. PICK at : PicksUp(there, ids, places, at)
    BY <1>9
  <2>4. PICK n \in 1 .. Len(there) : at[n] = 1
    BY <2>2, <2>3 DEF PicksUp
  <2>5. n = 1
    <3>1. 1 \in 1 .. Len(there)
      BY <1>10
    <3>2. at[1] \in 1 .. Len(ids) /\ (1 < n => at[1] < at[n])
      BY <1>4, <2>3, <3>1 DEF PicksUp
    <3> QED
      BY <1>4, <1>10, <2>4, <3>2
  <2>6. there[1] = first
    BY <2>1, <2>3, <2>4, <2>5 DEF PicksUp
  <2>7. 1 \in 1 .. Len(lists) /\ lists[1] = aliases[first]
    BY <1>12, <2>4, <2>5, <2>6
  <2>8. Leads(ToSet(aliases[first]), Dedupe(all))
    BY <1>12, <2>7, FirstListLeads
  <2> QED
    BY <1>1, <2>8
<1>17. IsList(s)
  BY <1>15, OwnElements
<1> QED
  BY <1>15, <1>16, <1>17 DEF s, chosen, scope, categories

-----------------------------------------------------------------------------
(* Planning *)

(* A name resolves to candidates of providers with a key.                     *)
LEMMA ResolvedKeyed ==
  ASSUME NEW c, Config(c), NEW name,
         NEW aliases, \A a \in DOMAIN aliases : IsList(aliases[a])
  PROVE  LET resolved == Resolved(c, name, aliases)
         IN  /\ IsList(resolved.candidates)
             /\ \A x \in ToSet(resolved.candidates) : IsKeyed(c, x[1])
             /\ name \in DOMAIN aliases =>
                  resolved.alias /\ resolved.candidates = KeyedOnly(c, aliases[name])
<1> DEFINE resolved == Resolved(c, name, aliases)
           found(candidates) == [candidates |-> candidates, alias |-> TRUE]
           named == << <<NamedProvider(name), ModelPart(name)>> >>
           everywhere == [i \in DOMAIN c.keyed |-> <<c.keyed[i], WholeName(name)>>]
           one == IF IsKeyed(c, NamedProvider(name)) THEN named ELSE everywhere
           K(s) == IsList(s) /\ \A x \in ToSet(s) : IsKeyed(c, x[1])
<1>1. resolved = IF name \in DOMAIN aliases THEN found(KeyedOnly(c, aliases[name]))
                 ELSE IF LooksGenerated(c, name) THEN found(<<>>)
                 ELSE IF name \in DOMAIN c.aliases
                 THEN found(KeyedOnly(c, c.aliases[name].candidates))
                 ELSE [candidates |-> one, alias |-> FALSE]
  BY DEF Resolved
<1>2. \A s : IsList(s) => K(KeyedOnly(c, s))
  BY KeyedPart DEF Part
<1>3. K(<<>>)
  BY DEF IsList, ToSet
<1>4. \A a \in DOMAIN c.aliases : IsList(c.aliases[a].candidates)
  BY DEF Config
<1>5. K(one)
  <2>1. ASSUME IsKeyed(c, NamedProvider(name)) PROVE K(named)
    <3>1. IsList(named)
      BY ShortLists
    <3>2. ToSet(named) = {<<NamedProvider(name), ModelPart(name)>>}
      BY DEF ToSet
    <3> HIDE DEF named
    <3> QED
      BY <2>1, <3>1, <3>2
  <2>2. K(everywhere)
    <3>1. IsList(c.keyed)
      BY DEF Config
    <3>2. DOMAIN c.keyed = 1 .. Len(c.keyed) /\ Len(c.keyed) \in Nat
          /\ \A i \in 1 .. Len(c.keyed) : c.keyed[i] \in ToSet(c.keyed)
      BY <3>1, PlacesIn DEF IsList
    <3> DEFINE T == {<<p, WholeName(name)>> : p \in ToSet(c.keyed)}
    <3>3. everywhere \in Seq(T)
      BY <3>2
    <3> HIDE DEF everywhere
    <3>4. IsList(everywhere) /\ ToSet(everywhere) \subseteq T
      BY <3>3, OwnElements, Elements
    <3>5. \A x \in T : IsKeyed(c, x[1])
      BY DEF IsKeyed
    <3> QED
      BY <3>4, <3>5
  <2> HIDE DEF named, everywhere, K
  <2> QED
    BY <2>1, <2>2
<1> HIDE DEF resolved, one, K
<1>6. K(resolved.candidates)
  BY <1>1, <1>2, <1>3, <1>4, <1>5
<1>7. name \in DOMAIN aliases =>
        resolved.alias /\ resolved.candidates = KeyedOnly(c, aliases[name])
  BY <1>1
<1> QED
  BY <1>6, <1>7 DEF K, resolved

(* The text aliases of a snapshot.                                            *)
TextOf(s) == [id \in {i \in DOMAIN s.aliases : i.modality = "text"} |-> s.aliases[id]]

(* What the text alias a of a snapshot made under o holds.                      *)
Holds(a, list, s, specials, o) ==
  \E scope \in Scopes(o), k \in ToSet(TextCategories) :
     /\ a = AliasId(scope, "text", k)
     /\ AliasOffers(list, scope, k, o, s.models, s.class, specials)
     /\ list # <<>>

(* The text aliases of a snapshot hold what its models are good for.          *)
LEMMA TextAliasesHold ==
  ASSUME NEW s, NEW specials, NEW o, Config(o), SnapshotOK(s, specials, o)
  PROVE  LET al == TextOf(s)
         IN  /\ \A a \in DOMAIN al : Holds(a, al[a], s, specials, o)
             /\ \A a \in DOMAIN al : IsList(al[a])
             /\ \A scope \in Scopes(o), k \in Category :
                  In(scope, o, Good(k, s.models, s.class, specials)) # {} =>
                    AliasId(scope, "text", k) \in DOMAIN al
<1> DEFINE al == TextOf(s)
           value(scope, k) == Value(scope, k, o, s.models, s.class, specials)
           all == s.aliases
           T == TextOnes(s.models) \cup FreeRoutes(specials)
<1>1. /\ ModelsOK(s.models, o) /\ ClassOK(s.models, s.class) /\ RoutesOK(specials, o)
      /\ all = GeneratedAliases(o, s.models, s.class, specials)
  BY DEF SnapshotOK
<1>2. /\ \A a \in DOMAIN all : a.modality = "text" =>
           \E scope \in Scopes(o), k \in ToSet(TextCategories) :
              /\ a = AliasId(scope, "text", k)
              /\ all[a] = value(scope, k) /\ all[a] # <<>>
      /\ \A scope \in Scopes(o), k \in ToSet(TextCategories) :
           value(scope, k) # <<>> => AliasId(scope, "text", k) \in DOMAIN all
  BY <1>1, TextAliasIds
<1>3. \A scope \in Scopes(o), k \in ToSet(TextCategories) :
        AliasOffers(value(scope, k), scope, k, o, s.models, s.class, specials)
  BY <1>1, ValueOffers
<1>4. /\ DOMAIN al = {a \in DOMAIN all : a.modality = "text"}
      /\ \A a \in DOMAIN al : al[a] = all[a]
  BY DEF TextOf
<1> HIDE DEF al, value, all
<1>5. \A a \in DOMAIN al : Holds(a, al[a], s, specials, o)
  <2> TAKE a \in DOMAIN al
  <2>1. PICK scope \in Scopes(o), k \in ToSet(TextCategories) :
              a = AliasId(scope, "text", k) /\ all[a] = value(scope, k) /\ all[a] # <<>>
    BY <1>2, <1>4
  <2> QED
    BY <1>3, <1>4, <2>1 DEF Holds
<1>6. ASSUME NEW a \in DOMAIN al PROVE IsList(al[a])
  <2>1. al[a] \in Seq(T)
    BY <1>5 DEF Holds, AliasOffers
  <2> HIDE DEF T
  <2> QED
    BY <2>1, OwnElements
<1>7. ASSUME NEW scope \in Scopes(o), NEW k \in Category,
             In(scope, o, Good(k, s.models, s.class, specials)) # {}
      PROVE  AliasId(scope, "text", k) \in DOMAIN al
  <2>1. k \in ToSet(TextCategories)
    BY TextCategorySet
  <2>2. ToSet(value(scope, k)) # {}
    <3>1. AliasOffers(value(scope, k), scope, k, o, s.models, s.class, specials)
      BY <1>3, <2>1
    <3>2. ToSet(value(scope, k)) = In(scope, o, Good(k, s.models, s.class, specials))
      BY <3>1 DEF AliasOffers
    <3> QED
      BY <1>7, <3>2
  <2>3. value(scope, k) # <<>>
    <3>1. ToSet(<<>>) = {}
      BY DEF ToSet
    <3> QED
      BY <2>2, <3>1
  <2>4. AliasId(scope, "text", k).modality = "text"
    BY DEF AliasId
  <2> QED
    BY <1>2, <1>4, <2>1, <2>3, <2>4
<1> QED
  BY <1>5, <1>6, <1>7 DEF al

(* The name of a text alias says what it holds.                               *)
LEMMA NamesTell ==
  ASSUME NEW scope, NEW k
  PROVE  /\ AliasId(scope, "text", k).scope = scope
         /\ AliasId(scope, "text", k).category = k
         /\ AliasId(scope, "text", k).modality = "text"
         /\ IsAdaptiveGenerated(AliasId(scope, "text", k)) <=> scope \in {"auto", "compat"}
BY DEF AliasId, IsAdaptiveGenerated

-----------------------------------------------------------------------------
(* The plan *)

(* A plan is what the name resolves to, its fallbacks, or a part of these.    *)
LEMMA PlanCases ==
  ASSUME NEW c, Config(c), NEW r, r.explicit # NULL => r.explicit \in Profiles,
         NEW aliases, \A a \in DOMAIN aliases : IsList(aliases[a])
  PROVE  LET P == PlanCandidates(c, r, aliases)
             named == Resolved(c, r.name, aliases).candidates
             adaptive == AdaptiveCandidates(r.name, aliases, r)
             own == IF adaptive # <<>> THEN adaptive ELSE named
             generated == r.name \in DOMAIN aliases /\ IsAdaptiveGenerated(r.name)
         IN  /\ Part(P, named) \/ (generated /\ Part(P, adaptive))
             /\ generated /\ r.name.category = "free-cheap" => P = own
             /\ generated /\ r.name.category # "free-cheap" => P = Adapted(c, own, r)
             /\ r.name \in DOMAIN aliases /\ ~ generated /\ r.name \notin DOMAIN c.aliases =>
                  P = KeyedOnly(c, aliases[r.name])
<1> DEFINE P == PlanCandidates(c, r, aliases)
           resolved == Resolved(c, r.name, aliases)
           named == resolved.candidates
           adaptive == AdaptiveCandidates(r.name, aliases, r)
           own == IF adaptive # <<>> THEN adaptive ELSE named
           generated == r.name \in DOMAIN aliases /\ IsAdaptiveGenerated(r.name)
           static == r.name \in DOMAIN c.aliases /\ c.aliases[r.name].adaptive
<1>1. P = IF ~ resolved.alias THEN named
          ELSE IF generated
          THEN IF r.name.category = "free-cheap" THEN own ELSE Adapted(c, own, r)
          ELSE IF static THEN Adapted(c, named, r) ELSE named
  BY DEF PlanCandidates
<1>2. IsList(named) /\ (r.name \in DOMAIN aliases =>
                          resolved.alias /\ named = KeyedOnly(c, aliases[r.name]))
  BY ResolvedKeyed
<1>3. IsList(adaptive)
  BY AdaptiveElements
<1> HIDE DEF P, resolved, adaptive
<1>4. \A t : IsList(t) => Part(t, t) /\ Part(Adapted(c, t, r), t)
  BY AdaptedPart DEF Part
<1>5. Part(P, named) \/ (generated /\ Part(P, adaptive))
  BY <1>1, <1>2, <1>3, <1>4
<1>6. generated => resolved.alias
  BY <1>2
<1>7. /\ generated /\ r.name.category = "free-cheap" => P = own
      /\ generated /\ r.name.category # "free-cheap" => P = Adapted(c, own, r)
  BY <1>1, <1>6
<1>8. r.name \in DOMAIN aliases /\ ~ generated /\ r.name \notin DOMAIN c.aliases =>
        P = KeyedOnly(c, aliases[r.name])
  BY <1>1, <1>2
<1> QED
  BY <1>5, <1>7, <1>8 DEF P, resolved, adaptive

(* What every text alias holds is of providers that had a key.                  *)
LEMMA AliasesKeyed ==
  ASSUME NEW s, NEW specials, NEW o, Config(o), SnapshotOK(s, specials, o)
  PROVE  \A a \in DOMAIN TextOf(s) : \A x \in ToSet(TextOf(s)[a]) : IsKeyed(o, x[1])
<1> DEFINE good(k) == Good(k, s.models, s.class, specials)
<1>1. \A k : \A x \in good(k) : x[1] \in ToSet(o.keyed)
  BY GoodOnes DEF SnapshotOK
<1> SUFFICES ASSUME NEW a \in DOMAIN TextOf(s), NEW x \in ToSet(TextOf(s)[a])
             PROVE  IsKeyed(o, x[1])
  OBVIOUS
<1>2. Holds(a, TextOf(s)[a], s, specials, o)
  BY TextAliasesHold
<1>3. PICK scope \in Scopes(o), k \in ToSet(TextCategories) :
             AliasOffers(TextOf(s)[a], scope, k, o, s.models, s.class, specials)
  BY <1>2 DEF Holds
<1>4. \E j : x \in good(j)
  <2>1. CASE k \in Category
    <3>1. x \in In(scope, o, good(k))
      BY <1>3, <2>1 DEF AliasOffers
    <3> HIDE DEF good
    <3> QED
      BY <3>1 DEF In, Of
  <2>2. CASE k = "free-cheap"
    BY <1>3, <2>2 DEF AliasOffers
  <2> QED
    BY <2>1, <2>2, TextCategorySet
<1> QED
  BY <1>1, <1>4 DEF IsKeyed

(* A plan made under the configuration of the snapshot has keyed providers    *)
(* only.                                                                      *)
LEMMA PlannedKeyed ==
  ASSUME NEW s, NEW specials, NEW c, Config(c), SnapshotOK(s, specials, c),
         NEW r, r.explicit # NULL => r.explicit \in Profiles
  PROVE  \A x \in ToSet(PlanCandidates(c, r, TextOf(s))) : IsKeyed(c, x[1])
<1> DEFINE al == TextOf(s)
           P == PlanCandidates(c, r, al)
           named == Resolved(c, r.name, al).candidates
           adaptive == AdaptiveCandidates(r.name, al, r)
<1>1. \A a \in DOMAIN al : IsList(al[a])
  BY TextAliasesHold
<1>2. \A a \in DOMAIN al : \A x \in ToSet(al[a]) : IsKeyed(c, x[1])
  BY AliasesKeyed
<1> HIDE DEF al
<1>3. Part(P, named) \/ Part(P, adaptive)
  BY <1>1, PlanCases
<1>4. \A x \in ToSet(named) : IsKeyed(c, x[1])
  BY <1>1, ResolvedKeyed
<1>5. \A x \in ToSet(adaptive) : IsKeyed(c, x[1])
  <2>1. ToSet(adaptive) = UNION {ToSet(al[a]) :
                            a \in ThereFor(FallbackScope(r.name), FallbacksOf(r.name, r), al)}
    BY <1>1, AdaptiveElements
  <2>2. ThereFor(FallbackScope(r.name), FallbacksOf(r.name, r), al) \subseteq DOMAIN al
    BY DEF ThereFor
  <2> HIDE DEF adaptive
  <2> QED
    BY <1>2, <2>1, <2>2
<1> HIDE DEF P, named, adaptive
<1>6. \A x \in ToSet(P) : IsKeyed(c, x[1])
  BY <1>3, <1>4, <1>5 DEF Part
<1> QED
  BY <1>6 DEF P, al

FreeIn(k, class) ==
  IF k \in DOMAIN class THEN class[k].score.free > 0 ELSE "free" \in SpecialHints(k[1], k[2])

(* What is good for the free category is free, and so is what is free and     *)
(* good for another there.                                                    *)
LEMMA GoodIsFree ==
  ASSUME NEW s, NEW specials, NEW o, SnapshotOK(s, specials, o)
  PROVE  LET good(k) == Good(k, s.models, s.class, specials)
         IN  /\ \A x \in good("free") : FreeIn(x, s.class)
             /\ \A x \in good("fast") : FreeIn(x, s.class) => x \in good("free")
<1> DEFINE good(k) == Good(k, s.models, s.class, specials)
           texts == TextOnes(s.models)
<1>1. ModelsOK(s.models, o) /\ ClassOK(s.models, s.class)
  BY DEF SnapshotOK
<1>2. \A x \in DOMAIN s.class : SpecialHints(x[1], x[2]) = {}
  <2>1. ASSUME NEW x \in DOMAIN s.class PROVE SpecialHints(x[1], x[2]) = {}
    <3>1. PICK i \in 1 .. Len(s.models) : x = Candidate(s.models[i])
      BY <1>1 DEF ClassOK
    <3>2. SpecialHints(s.models[i].provider, s.models[i].id) = {}
      BY <1>1 DEF ModelsOK
    <3> QED
      BY <3>1, <3>2 DEF Candidate
  <2> QED
    BY <2>1
<1>3. texts \subseteq DOMAIN s.class
  BY <1>1 DEF ClassOK, TextOnes
<1>4. \A x \in FreeRoutes(specials) : "free" \in SpecialHints(x[1], x[2])
  BY DEF FreeRoutes
<1>5. good("free") = {k \in texts : s.class[k].score.free > 0} \cup FreeRoutes(specials)
  BY DEF Good
<1>6. good("fast") \subseteq texts
  BY DEF Good
<1> HIDE DEF good, texts
<1>7. \A x \in good("free") : FreeIn(x, s.class)
  BY <1>2, <1>3, <1>4, <1>5 DEF FreeIn
<1>8. \A x \in good("fast") : FreeIn(x, s.class) => x \in good("free")
  BY <1>3, <1>5, <1>6 DEF FreeIn
<1> QED
  BY <1>7, <1>8 DEF good

(* The free alias of any scope, and its fallbacks, hold free ones only.         *)
LEMMA PlannedFree ==
  ASSUME NEW s, NEW specials, NEW o, Config(o), SnapshotOK(s, specials, o),
         NEW c, Config(c), NEW r, r.explicit # NULL => r.explicit \in Profiles,
         r.name \in DOMAIN TextOf(s), r.name.category = "free"
  PROVE  \A x \in ToSet(PlanCandidates(c, r, TextOf(s))) : FreeIn(x, s.class)
<1> DEFINE al == TextOf(s)
           P == PlanCandidates(c, r, al)
           named == Resolved(c, r.name, al).candidates
           adaptive == AdaptiveCandidates(r.name, al, r)
           G == Good("free", s.models, s.class, specials)
           there == ThereFor(FallbackScope(r.name), FallbacksOf(r.name, r), al)
<1>1. /\ \A a \in DOMAIN al : IsList(al[a])
      /\ \A a \in DOMAIN al : Holds(a, al[a], s, specials, o)
      /\ r.name \in DOMAIN al
  BY TextAliasesHold
<1> HIDE DEF al
<1>2. ASSUME NEW a \in DOMAIN al, a.category = "free" PROVE ToSet(al[a]) \subseteq G
  <2>1. PICK scope \in Scopes(o), k \in ToSet(TextCategories) :
               /\ a = AliasId(scope, "text", k)
               /\ AliasOffers(al[a], scope, k, o, s.models, s.class, specials)
    BY <1>1 DEF Holds
  <2>2. k = "free" /\ k \in Category
    BY <1>2, <2>1, NamesTell DEF Category
  <2>3. ToSet(al[a]) = In(scope, o, G)
    BY <2>1, <2>2 DEF AliasOffers
  <2> QED
    BY <2>3 DEF In, Of
<1>3. Part(P, named) \/ Part(P, adaptive)
  BY <1>1, PlanCases
<1>4. ToSet(named) \subseteq G
  <2>1. named = KeyedOnly(c, al[r.name])
    BY <1>1, ResolvedKeyed
  <2>2. ToSet(named) \subseteq ToSet(al[r.name])
    BY <1>1, <2>1, KeyedPart DEF Part
  <2> QED
    BY <1>1, <1>2, <2>2
<1>5. ToSet(adaptive) \subseteq G
  <2>1. ToSet(adaptive) = UNION {ToSet(al[a]) : a \in there}
    BY <1>1, AdaptiveElements
  <2>2. FallbacksOf(r.name, r) = <<"free">>
    BY FallbackCategories DEF FallbacksOf
  <2>3. ToSet(<<"free">>) = {"free"}
    BY DEF ToSet
  <2>4. \A a \in there : a \in DOMAIN al /\ a.category = "free"
    BY <2>2, <2>3, NamesTell DEF ThereFor
  <2> HIDE DEF adaptive, there, G
  <2> QED
    BY <1>2, <2>1, <2>4
<1>6. \A x \in G : FreeIn(x, s.class)
  BY GoodIsFree
<1> HIDE DEF P, named, adaptive, G
<1>7. \A x \in ToSet(P) : FreeIn(x, s.class)
  BY <1>3, <1>4, <1>5, <1>6 DEF Part
<1> QED
  BY <1>7 DEF P, al

(* A request with tools keeps the models of its alias that support them.        *)
LEMMA PlannedCapable ==
  ASSUME NEW s, NEW specials, NEW o, Config(o), SnapshotOK(s, specials, o),
         NEW c, Config(c), NEW r, r.explicit # NULL => r.explicit \in Profiles,
         r.tools, r.explicit \in {NULL, "code"},
         r.name \in DOMAIN TextOf(s), IsAdaptiveGenerated(r.name),
         r.name.category # "free-cheap",
         \E x \in ToSet(TextOf(s)[r.name]) : SupportsTools(c, x)
  PROVE  \A x \in ToSet(PlanCandidates(c, r, TextOf(s))) : SupportsTools(c, x)
<1> DEFINE al == TextOf(s)
           P == PlanCandidates(c, r, al)
           named == Resolved(c, r.name, al).candidates
           adaptive == AdaptiveCandidates(r.name, al, r)
           own == IF adaptive # <<>> THEN adaptive ELSE named
           good(k) == Good(k, s.models, s.class, specials)
           there == ThereFor(FallbackScope(r.name), FallbacksOf(r.name, r), al)
           category == r.name.category
           main == AliasId("auto", "text", category)
<1>1. /\ \A a \in DOMAIN al : IsList(al[a])
      /\ \A a \in DOMAIN al : Holds(a, al[a], s, specials, o)
      /\ \A scope \in Scopes(o), k \in Category :
           In(scope, o, good(k)) # {} => AliasId(scope, "text", k) \in DOMAIN al
      /\ r.name \in DOMAIN al
  BY TextAliasesHold
<1>2. PICK y \in ToSet(al[r.name]) : SupportsTools(c, y)
  OBVIOUS
<1> HIDE DEF al
<1>3. /\ category \in Category
      /\ r.name.scope \in {"auto", "compat"}
      /\ y \in good(category)
  <2>1. PICK scope \in Scopes(o), k \in ToSet(TextCategories) :
               /\ r.name = AliasId(scope, "text", k)
               /\ AliasOffers(al[r.name], scope, k, o, s.models, s.class, specials)
    BY <1>1 DEF Holds
  <2>2. r.name.scope = scope /\ category = k /\ scope \in {"auto", "compat"}
    BY <2>1, NamesTell
  <2>3. k \in Category
    BY <2>2, TextCategorySet
  <2>4. ToSet(al[r.name]) = In(scope, o, good(k))
    BY <2>1, <2>3 DEF AliasOffers
  <2>5. y \in good(k)
    <3> HIDE DEF good
    <3> QED
      BY <2>4 DEF In, Of
  <2> QED
    BY <2>2, <2>3, <2>5
<1>4. "auto" \in Scopes(o) /\ \A S : In("auto", o, S) = S
  BY DEF Scopes, In, Config
<1>5. main \in DOMAIN al
  <2> HIDE DEF good, category
  <2> QED
    BY <1>1, <1>3, <1>4
<1>6. y \in ToSet(al[main])
  <2>1. PICK scope \in Scopes(o), k \in ToSet(TextCategories) :
               /\ main = AliasId(scope, "text", k)
               /\ AliasOffers(al[main], scope, k, o, s.models, s.class, specials)
    BY <1>1, <1>5 DEF Holds
  <2>2. scope = "auto" /\ k = category
    BY <2>1, NamesTell
  <2>3. ToSet(al[main]) = In("auto", o, good(category))
    BY <1>3, <2>1, <2>2 DEF AliasOffers
  <2> HIDE DEF good, category, main
  <2> QED
    BY <1>3, <1>4, <2>3
<1>7. FallbackScope(r.name) = "auto"
  BY <1>3 DEF FallbackScope
<1>8. category \in ToSet(FallbacksOf(r.name, r))
  <2>1. Analysis(r).profile = "code" /\ Analysis(r).intent = "code"
    BY AnalysisProfile
  <2>2. CategoryForProfile(Analysis(r).profile) = "code"
    BY <2>1 DEF CategoryForProfile
  <2> QED
    BY <2>1, <2>2, FallbackCategories DEF FallbacksOf
<1>9. IsList(adaptive) /\ ToSet(adaptive) = UNION {ToSet(al[a]) : a \in there}
  BY <1>1, AdaptiveElements
<1>10. main \in there
  BY <1>5, <1>7, <1>8 DEF ThereFor
<1> HIDE DEF adaptive, there, main
<1>11. y \in ToSet(adaptive)
  BY <1>6, <1>9, <1>10
<1>12. own = adaptive
  BY <1>9, <1>11, EmptyList
<1>13. P = Adapted(c, own, r)
  <2> HIDE DEF P
  <2>1. P = Adapted(c, IF adaptive # <<>> THEN adaptive ELSE named, r)
    BY <1>1, PlanCases DEF P, adaptive
  <2> QED
    BY <2>1
<1> HIDE DEF P, own
<1>14. \A x \in ToSet(P) : SupportsTools(c, x)
  BY <1>2, <1>9, <1>11, <1>12, <1>13, AdaptedPart
<1> QED
  BY <1>14 DEF P, al

(* What a free-cheap alias is planned on begins with the free ones, and the      *)
(* alias holds a free one.                                                    *)
LEMMA PlannedFreeFirst ==
  ASSUME NEW s, NEW specials, NEW o, Config(o), SnapshotOK(s, specials, o),
         NEW c, Config(c), NEW r, r.explicit # NULL => r.explicit \in Profiles,
         r.name \in DOMAIN TextOf(s), r.name.category = "free-cheap",
         r.name \notin DOMAIN c.aliases
  PROVE  LET P == PlanCandidates(c, r, TextOf(s))
             free == Good("free", s.models, s.class, specials)
             fast == Good("fast", s.models, s.class, specials)
         IN  /\ IsList(P) /\ ToSet(P) \subseteq free \cup fast /\ Leads(free, P)
             /\ \E x \in ToSet(TextOf(s)[r.name]) : x \in free
<1> DEFINE al == TextOf(s)
           P == PlanCandidates(c, r, al)
           named == Resolved(c, r.name, al).candidates
           adaptive == AdaptiveCandidates(r.name, al, r)
           good(k) == Good(k, s.models, s.class, specials)
           G == good("free")
           C == good("fast")
           categories == FallbacksOf(r.name, r)
           there == ThereFor("auto", categories, al)
           first == AliasId("auto", "text", "free")
           own == al[r.name]
<1>1. /\ \A a \in DOMAIN al : IsList(al[a])
      /\ \A a \in DOMAIN al : Holds(a, al[a], s, specials, o)
      /\ \A scope \in Scopes(o), k \in Category :
           In(scope, o, good(k)) # {} => AliasId(scope, "text", k) \in DOMAIN al
      /\ r.name \in DOMAIN al
  BY TextAliasesHold
<1> HIDE DEF al
<1>2. PICK scope \in Scopes(o), k \in ToSet(TextCategories) :
             /\ r.name = AliasId(scope, "text", k)
             /\ AliasOffers(own, scope, k, o, s.models, s.class, specials)
             /\ own # <<>>
  BY <1>1 DEF Holds
<1>3. /\ k = "free-cheap" /\ r.name.scope = scope
      /\ IsAdaptiveGenerated(r.name) <=> scope \in {"auto", "compat"}
  BY <1>2, NamesTell
<1>4. /\ ToSet(own) \subseteq G \cup C
      /\ \E x \in ToSet(own) : x \in In(scope, o, G)
      /\ scope \in ToSet(o.enabled) => Leads(G, own)
  BY <1>2, <1>3 DEF AliasOffers
<1> HIDE DEF G, C, own
<1>5. \E x \in ToSet(own) : x \in G
  BY <1>4 DEF In, Of
<1>6. \A S : In("auto", o, S) = S
  BY DEF In, Config
<1>7. "auto" \in Scopes(o) /\ "free" \in Category /\ "fast" \in Category
  BY DEF Scopes, Category
<1>8. first \in DOMAIN al
  <2>1. In("auto", o, G) # {}
    BY <1>5, <1>6
  <2>2. In("auto", o, good("free")) # {}
    BY <2>1 DEF G
  <2> HIDE DEF good
  <2> QED
    BY <1>1, <1>7, <2>2
<1>9. ASSUME NEW j \in Category, AliasId("auto", "text", j) \in DOMAIN al
      PROVE  ToSet(al[AliasId("auto", "text", j)]) = good(j)
  <2> DEFINE a == AliasId("auto", "text", j)
  <2>1. PICK sc \in Scopes(o), i \in ToSet(TextCategories) :
               /\ a = AliasId(sc, "text", i)
               /\ AliasOffers(al[a], sc, i, o, s.models, s.class, specials)
    BY <1>1, <1>9 DEF Holds
  <2>2. sc = "auto" /\ i = j
    BY <2>1, NamesTell
  <2>3. ToSet(al[a]) = In("auto", o, good(j))
    BY <2>1, <2>2 DEF AliasOffers
  <2> HIDE DEF good, a
  <2>4. ToSet(al[a]) = good(j)
    BY <1>6, <2>3
  <2> QED
    BY <2>4 DEF a
<1>10. ToSet(al[first]) = G
  BY <1>7, <1>8, <1>9 DEF G
<1>11. categories = <<"free", "fast">>
  BY FallbackCategories DEF FallbacksOf
<1>12. CASE scope \in {"auto", "compat"}
  <2>1. FallbackScope(r.name) = "auto"
    BY <1>3, <1>12 DEF FallbackScope
  <2>2. /\ IsList(adaptive)
        /\ ToSet(adaptive) = UNION {ToSet(al[a]) : a \in there}
        /\ Leads(ToSet(al[first]), adaptive)
    BY <1>1, <1>8, <1>11, <2>1, AdaptiveElements
  <2>3. ToSet(categories) = {"free", "fast"}
    BY <1>11, ShortLists
  <2>4. first \in there
    BY <1>8, <2>3 DEF ThereFor
  <2>5. \A a \in there : ToSet(al[a]) \subseteq G \cup C
    <3> TAKE a \in there
    <3>1. PICK j \in ToSet(categories) : a = AliasId("auto", "text", j)
      BY DEF ThereFor
    <3>2. a \in DOMAIN al
      BY DEF ThereFor
    <3>3. ToSet(al[a]) = good(j)
      BY <1>7, <1>9, <2>3, <3>1, <3>2
    <3>4. j = "free" \/ j = "fast"
      BY <2>3
    <3> QED
      BY <3>3, <3>4 DEF G, C
  <2> HIDE DEF adaptive, there, first
  <2>6. ToSet(adaptive) \subseteq G \cup C
    BY <2>2, <2>5
  <2>7. adaptive # <<>>
    <3>1. ToSet(adaptive) # {}
      BY <1>5, <1>10, <2>2, <2>4
    <3> QED
      BY <2>2, <3>1, EmptyList
  <2>8. P = adaptive
    <3>1. P = IF adaptive # <<>> THEN adaptive ELSE named
      BY <1>1, <1>3, <1>12, PlanCases DEF P, adaptive
    <3> QED
      BY <2>7, <3>1
  <2> HIDE DEF P
  <2>9. IsList(P) /\ ToSet(P) \subseteq G \cup C /\ Leads(G, P)
    BY <1>10, <2>2, <2>6, <2>8
  <2> QED
    BY <1>5, <2>9 DEF P, G, C, own, al
<1>13. CASE scope \notin {"auto", "compat"}
  <2>1. P = KeyedOnly(c, own)
    BY <1>1, <1>3, <1>13, PlanCases DEF own
  <2>2. Leads(G, own)
    BY <1>4, <1>13 DEF Scopes
  <2>3. IsList(own)
    BY <1>1 DEF own
  <2> HIDE DEF P
  <2>4. Part(P, own) /\ Leads(G, P)
    BY <2>1, <2>2, <2>3, KeyedPart
  <2>5. IsList(P) /\ ToSet(P) \subseteq G \cup C /\ Leads(G, P)
    BY <1>4, <2>4 DEF Part
  <2> QED
    BY <1>5, <2>5 DEF P, G, C, own, al
<1> QED
  BY <1>12, <1>13

(* The text aliases hold text models and free routes, the general one of all     *)
(* providers every text model.                                                *)
LEMMA GeneralHoldsAll ==
  ASSUME NEW s, NEW specials, NEW o, Config(o), SnapshotOK(s, specials, o)
  PROVE  LET al == TextOf(s)
             general == AliasId("auto", "text", "general")
         IN  /\ \A a \in DOMAIN al : \A x \in ToSet(al[a]) :
                  x \in TextOnes(s.models) \/ SpecialHints(x[1], x[2]) # {}
             /\ TextOnes(s.models) = IF general \in DOMAIN al THEN ToSet(al[general]) ELSE {}
<1> DEFINE al == TextOf(s)
           general == AliasId("auto", "text", "general")
           good(k) == Good(k, s.models, s.class, specials)
           texts == TextOnes(s.models)
<1>1. /\ \A a \in DOMAIN al : Holds(a, al[a], s, specials, o)
      /\ \A scope \in Scopes(o), k \in Category :
           In(scope, o, good(k)) # {} => AliasId(scope, "text", k) \in DOMAIN al
  BY TextAliasesHold
<1> HIDE DEF al
<1>2. ASSUME NEW a \in DOMAIN al, NEW x \in ToSet(al[a])
      PROVE  x \in texts \/ SpecialHints(x[1], x[2]) # {}
  <2>1. al[a] \in Seq(texts \cup FreeRoutes(specials))
    BY <1>1 DEF Holds, AliasOffers
  <2>2. x \in texts \cup FreeRoutes(specials)
    BY <2>1, Elements
  <2>3. \A y \in FreeRoutes(specials) : SpecialHints(y[1], y[2]) # {}
    BY DEF FreeRoutes
  <2> QED
    BY <2>2, <2>3
<1>3. good("general") = texts
  <2>1. \A x \in texts : s.class[x].score["general"] > 0
    <3> TAKE x \in texts
    <3>1. PICK i \in 1 .. Len(s.models) : ServesText(s.models[i]) /\ x = Candidate(s.models[i])
      BY DEF TextOnes
    <3>2. s.models[i].text
      BY <3>1 DEF ServesText
    <3>3. Scores(s.class[x].score, 20)
      BY <3>1, <3>2 DEF SnapshotOK, ClassOK
    <3>4. s.class[x].score["general"] >= 20 /\ s.class[x].score["general"] \in Int
      BY <3>3 DEF Scores, Category
    <3> QED
      BY <3>4
  <2>2. good("general") = {x \in texts : s.class[x].score["general"] > 0}
    BY DEF Good
  <2> HIDE DEF good, texts
  <2> QED
    BY <2>1, <2>2
<1>4. \A S : In("auto", o, S) = S
  BY DEF In, Config
<1>5. "auto" \in Scopes(o) /\ "general" \in Category
  BY DEF Scopes, Category
<1>6. CASE general \in DOMAIN al
  <2>1. PICK scope \in Scopes(o), k \in ToSet(TextCategories) :
               /\ general = AliasId(scope, "text", k)
               /\ AliasOffers(al[general], scope, k, o, s.models, s.class, specials)
    BY <1>1, <1>6 DEF Holds
  <2>2. scope = "auto" /\ k = "general"
    BY <2>1, NamesTell
  <2>3. ToSet(al[general]) = In("auto", o, good("general"))
    BY <1>5, <2>1, <2>2 DEF AliasOffers
  <2>4. ToSet(al[general]) = texts
    BY <1>3, <1>4, <2>3
  <2> QED
    BY <1>2, <1>6, <2>4 DEF al
<1>7. CASE general \notin DOMAIN al
  <2>1. good("general") = {}
    <3> HIDE DEF good
    <3>1. In("auto", o, good("general")) = {}
      BY <1>1, <1>5, <1>7
    <3> QED
      BY <1>4, <3>1
  <2> QED
    BY <1>2, <1>3, <1>7, <2>1 DEF al
<1> QED
  BY <1>6, <1>7

(* A snapshot was made under some configuration, of some catalog; a plan is that *)
(* of the configuration and the snapshot there are, which no step changes until  *)
(* the request has gone on.                                                   *)
PlannerInv ==
  /\ cfg \in PlannerConfigs
  /\ snapshot # NULL =>
       \E c \in PlannerConfigs, catalog \in Catalogs : snapshot = Discovered(c, catalog)
  /\ ask # NULL =>
       /\ snapshot # NULL /\ ask \in Asks
       /\ plan = FilteredByContext(PlanCandidates(cfg, ask, TextOf(snapshot)),
                                   snapshot.models, ask)

(* The planner's invariant holds of every behaviour.                          *)
LEMMA PlannerInductive == PlannerSpec => []PlannerInv
<1>1. PlannerInit => PlannerInv
  BY DEF PlannerInit, PlannerInv
<1>2. PlannerInv /\ [PlannerNext]_plannerVars => PlannerInv'
  <2> SUFFICES ASSUME PlannerInv, [PlannerNext]_plannerVars PROVE PlannerInv'
    OBVIOUS
  <2>1. CASE Refresh
    <3>1. PICK catalog \in Catalogs : snapshot' = Discovered(cfg, catalog)
      BY <2>1 DEF Refresh
    <3>2. UNCHANGED <<cfg, ask, plan>> /\ ask = NULL
      BY <2>1 DEF Refresh
    <3> QED
      BY <3>1, <3>2 DEF PlannerInv
  <2>2. CASE Reload
    BY <2>2 DEF Reload, PlannerInv
  <2>3. CASE Plan
    <3>1. TextAliases = TextOf(snapshot)
      BY DEF TextAliases, TextOf
    <3> QED
      BY <2>3, <3>1 DEF Plan, PlannerInv
  <2>4. CASE Planned
    BY <2>4 DEF Planned, PlannerInv
  <2>5. CASE UNCHANGED plannerVars
    BY <2>5 DEF plannerVars, PlannerInv
  <2> QED
    BY <2>1, <2>2, <2>3, <2>4, <2>5 DEF PlannerNext
<1> QED
  BY <1>1, <1>2, PTL DEF PlannerSpec

(* What the invariant says of the snapshot, once its discovery is unfolded.      *)
LEMMA PlannerStates ==
  ASSUME PlannerInv
  PROVE  /\ Config(cfg)
         /\ snapshot # NULL => \E o, specials : Config(o) /\ SnapshotOK(snapshot, specials, o)
         /\ ask # NULL => (ask.explicit # NULL => ask.explicit \in Profiles)
<1>1. Config(cfg) /\ (ask # NULL => (ask.explicit # NULL => ask.explicit \in Profiles))
  BY PlannerAssumption DEF PlannerInv
<1>2. ASSUME snapshot # NULL
      PROVE  \E o, specials : Config(o) /\ SnapshotOK(snapshot, specials, o)
  <2>1. PICK c \in PlannerConfigs, catalog \in Catalogs : snapshot = Discovered(c, catalog)
    BY <1>2 DEF PlannerInv
  <2>2. Config(c) /\ IsList(catalog)
    BY PlannerAssumption
  <2>3. PICK specials : SnapshotOK(Discovered(c, catalog), specials, c)
    BY <2>2, DiscoveredOK
  <2> QED
    BY <2>1, <2>2, <2>3
<1> QED
  BY <1>1, <1>2

(* What is planned is a part of the candidates, those that fit the context.      *)
LEMMA PlanIsPart ==
  ASSUME NEW P, IsList(P), NEW models, NEW r, NEW list, list = FilteredByContext(P, models, r)
  PROVE  /\ \A i \in DOMAIN list : list[i] \in ToSet(P)
         /\ \A F : Leads(F, P) => \A i, j \in DOMAIN list : i < j /\ list[j] \in F => list[i] \in F
<1>1. Part(list, P) /\ \A F : Leads(F, P) => Leads(F, list)
  BY ContextPart
<1>2. DOMAIN list = 1 .. Len(list) /\ \A i \in DOMAIN list : list[i] \in ToSet(list)
  BY <1>1, PlacesIn DEF Part
<1> QED
  BY <1>1, <1>2 DEF Part, Leads

(* A plan is a list.                                                          *)
LEMMA CandidatesListed ==
  ASSUME NEW s, NEW specials, NEW o, Config(o), SnapshotOK(s, specials, o),
         NEW c, Config(c), NEW r, r.explicit # NULL => r.explicit \in Profiles
  PROVE  IsList(PlanCandidates(c, r, TextOf(s)))
<1> DEFINE al == TextOf(s)
<1>1. \A a \in DOMAIN al : IsList(al[a])
  BY TextAliasesHold
<1> HIDE DEF al
<1>2. IsList(PlanCandidates(c, r, al))
  BY <1>1, PlanCases DEF Part
<1> QED
  BY <1>2 DEF al

(* The names of text aliases, in the snapshot and in what is planned on.         *)
LEMMA TextNames ==
  ASSUME snapshot # NULL, NEW a \in DOMAIN Aliases, a.modality = "text"
  PROVE  a \in DOMAIN TextOf(snapshot) /\ Aliases[a] = TextOf(snapshot)[a]
BY DEF Aliases, TextOf

(* StrictlyFree: a free alias is planned on free candidates only.               *)
THEOREM AlwaysStrictlyFree == PlannerSpec => []StrictlyFree
<1>1. PlannerInv => StrictlyFree
  <2> SUFFICES ASSUME PlannerInv, AsksAlias("free"), NEW i \in DOMAIN plan
               PROVE  IsFree(plan[i])
    BY DEF StrictlyFree
  <2> DEFINE P == PlanCandidates(cfg, ask, TextOf(snapshot))
  <2>1. ask # NULL /\ snapshot # NULL /\ plan = FilteredByContext(P, snapshot.models, ask)
    BY DEF AsksAlias, PlannerInv
  <2>2. PICK o, specials : Config(o) /\ SnapshotOK(snapshot, specials, o)
    BY <2>1, PlannerStates
  <2>3. Config(cfg) /\ (ask.explicit # NULL => ask.explicit \in Profiles)
    BY <2>1, PlannerStates
  <2>4. ask.name \in DOMAIN TextOf(snapshot) /\ ask.name.category = "free"
    BY <2>1, TextNames DEF AsksAlias
  <2>5. \A x \in ToSet(P) : FreeIn(x, snapshot.class)
    BY <2>2, <2>3, <2>4, PlannedFree
  <2>6. IsList(P)
    BY <2>2, <2>3, CandidatesListed
  <2> HIDE DEF P
  <2>7. plan[i] \in ToSet(P)
    BY <2>1, <2>6, PlanIsPart
  <2> QED
    BY <2>5, <2>7 DEF FreeIn, IsFree
<1> QED
  BY <1>1, PlannerInductive, PTL

(* FreeFirst: a free-cheap alias is planned with the free candidates first.      *)
THEOREM AlwaysFreeFirst == PlannerSpec => []FreeFirst
<1>1. PlannerInv => FreeFirst
  <2> SUFFICES ASSUME PlannerInv, AsksAlias("free-cheap"), ask.name \notin DOMAIN cfg.aliases
               PROVE  /\ \A i, j \in DOMAIN plan : i < j /\ IsFree(plan[j]) => IsFree(plan[i])
                      /\ \E i \in DOMAIN Aliases[ask.name] : IsFree(Aliases[ask.name][i])
    BY DEF FreeFirst
  <2> DEFINE P == PlanCandidates(cfg, ask, TextOf(snapshot))
             own == TextOf(snapshot)[ask.name]
  <2>1. ask # NULL /\ snapshot # NULL /\ plan = FilteredByContext(P, snapshot.models, ask)
    BY DEF AsksAlias, PlannerInv
  <2>2. PICK o, specials : Config(o) /\ SnapshotOK(snapshot, specials, o)
    BY <2>1, PlannerStates
  <2>3. Config(cfg) /\ (ask.explicit # NULL => ask.explicit \in Profiles)
    BY <2>1, PlannerStates
  <2>4. /\ ask.name \in DOMAIN TextOf(snapshot) /\ ask.name.category = "free-cheap"
        /\ Aliases[ask.name] = own
    BY <2>1, TextNames DEF AsksAlias
  <2> DEFINE G == Good("free", snapshot.models, snapshot.class, specials)
             C == Good("fast", snapshot.models, snapshot.class, specials)
  <2>5. /\ IsList(P) /\ ToSet(P) \subseteq G \cup C /\ Leads(G, P)
        /\ \E x \in ToSet(own) : x \in G
    BY <2>2, <2>3, <2>4, PlannedFreeFirst
  <2>6. /\ \A x \in G : FreeIn(x, snapshot.class)
        /\ \A x \in C : FreeIn(x, snapshot.class) => x \in G
    BY <2>2, GoodIsFree
  <2>7. IsList(own)
    BY <2>2, <2>4, TextAliasesHold
  <2>8. \A x : IsFree(x) <=> FreeIn(x, snapshot.class)
    BY DEF IsFree, FreeIn
  <2> HIDE DEF P, G, C, own
  <2>9. /\ \A i \in DOMAIN plan : plan[i] \in G \cup C
        /\ \A i, j \in DOMAIN plan : i < j /\ plan[j] \in G => plan[i] \in G
    BY <2>1, <2>5, PlanIsPart
  <2>10. \E i \in DOMAIN own : IsFree(own[i])
    BY <2>5, <2>6, <2>7, <2>8, PlacesIn
  <2> QED
    BY <2>4, <2>6, <2>8, <2>9, <2>10
<1> QED
  BY <1>1, PlannerInductive, PTL

(* OnlyKeyed: until the configuration changes, every candidate planned is of a    *)
(* provider that has a key.                                                   *)
THEOREM AlwaysOnlyKeyed == PlannerSpec => []OnlyKeyed
<1>1. PlannerInv => OnlyKeyed
  <2> SUFFICES ASSUME PlannerInv, ask # NULL, snapshot.of = cfg, NEW i \in DOMAIN plan
               PROVE  IsKeyed(cfg, plan[i][1])
    BY DEF OnlyKeyed
  <2> DEFINE P == PlanCandidates(cfg, ask, TextOf(snapshot))
  <2>1. snapshot # NULL /\ plan = FilteredByContext(P, snapshot.models, ask)
    BY DEF PlannerInv
  <2>2. PICK o, specials : Config(o) /\ SnapshotOK(snapshot, specials, o)
    BY <2>1, PlannerStates
  <2>3. Config(cfg) /\ (ask.explicit # NULL => ask.explicit \in Profiles)
    BY <2>1, PlannerStates
  <2>4. o = cfg
    BY <2>2 DEF SnapshotOK
  <2>5. \A x \in ToSet(P) : IsKeyed(cfg, x[1])
    BY <2>2, <2>3, <2>4, PlannedKeyed
  <2>6. IsList(P)
    BY <2>2, <2>3, CandidatesListed
  <2> HIDE DEF P
  <2>7. plan[i] \in ToSet(P)
    BY <2>1, <2>6, PlanIsPart
  <2> QED
    BY <2>5, <2>7
<1> QED
  BY <1>1, PlannerInductive, PTL

(* ToolsHonoured: a request with tools goes only to models that support them, if  *)
(* its alias has such.                                                        *)
THEOREM AlwaysToolsHonoured == PlannerSpec => []ToolsHonoured
<1>1. PlannerInv => ToolsHonoured
  <2> SUFFICES ASSUME PlannerInv, ask # NULL, ask.tools, ask.explicit \in {NULL, "code"},
                      ask.name \in DOMAIN Aliases, IsAdaptiveGenerated(ask.name),
                      ask.name.category # "free-cheap",
                      NEW n \in DOMAIN Aliases[ask.name],
                      SupportsTools(cfg, Aliases[ask.name][n]), NEW i \in DOMAIN plan
               PROVE  SupportsTools(cfg, plan[i])
    BY DEF ToolsHonoured
  <2> DEFINE P == PlanCandidates(cfg, ask, TextOf(snapshot))
             own == TextOf(snapshot)[ask.name]
  <2>1. snapshot # NULL /\ plan = FilteredByContext(P, snapshot.models, ask)
    BY DEF PlannerInv
  <2>2. PICK o, specials : Config(o) /\ SnapshotOK(snapshot, specials, o)
    BY <2>1, PlannerStates
  <2>3. Config(cfg) /\ (ask.explicit # NULL => ask.explicit \in Profiles)
    BY PlannerStates
  <2>4. ask.name \in DOMAIN TextOf(snapshot) /\ Aliases[ask.name] = own
    BY <2>1, TextNames DEF IsAdaptiveGenerated
  <2>5. \E x \in ToSet(own) : SupportsTools(cfg, x)
    <3>1. IsList(own)
      BY <2>2, <2>4, TextAliasesHold
    <3> HIDE DEF own
    <3> QED
      BY <2>4, <3>1, PlacesIn
  <2>6. \A x \in ToSet(P) : SupportsTools(cfg, x)
    BY <2>2, <2>3, <2>4, <2>5, PlannedCapable
  <2>7. IsList(P)
    BY <2>2, <2>3, CandidatesListed
  <2> HIDE DEF P
  <2>8. plan[i] \in ToSet(P)
    BY <2>1, <2>7, PlanIsPart
  <2> QED
    BY <2>6, <2>8
<1> QED
  BY <1>1, PlannerInductive, PTL

(* GeneralIsComplete: the text aliases offer no model that was taken out, the     *)
(* general one every other.                                                   *)
THEOREM AlwaysGeneralIsComplete == PlannerSpec => []GeneralIsComplete
<1>1. PlannerInv => GeneralIsComplete
  <2> SUFFICES ASSUME PlannerInv, snapshot # NULL PROVE GeneralIsComplete
    BY DEF GeneralIsComplete
  <2> DEFINE texts == {Candidate(m) : m \in {m \in ToSet(snapshot.models) : ServesText(m)}}
             al == TextOf(snapshot)
             id == AliasId("auto", "text", "general")
  <2>1. PICK o, specials : Config(o) /\ SnapshotOK(snapshot, specials, o)
    BY PlannerStates
  <2>2. texts = TextOnes(snapshot.models)
    <3>1. IsList(snapshot.models)
      BY <2>1 DEF SnapshotOK, ModelsOK
    <3>2. /\ DOMAIN snapshot.models = 1 .. Len(snapshot.models)
          /\ \A m : m \in ToSet(snapshot.models) <=>
               \E i \in DOMAIN snapshot.models : snapshot.models[i] = m
      BY <3>1, PlacesIn
    <3> QED
      BY <3>2 DEF TextOnes
  <2>3. /\ \A a \in DOMAIN al : \A x \in ToSet(al[a]) :
             x \in TextOnes(snapshot.models) \/ SpecialHints(x[1], x[2]) # {}
        /\ TextOnes(snapshot.models) = IF id \in DOMAIN al THEN ToSet(al[id]) ELSE {}
    BY <2>1, GeneralHoldsAll
  <2>4. \A a \in DOMAIN al : IsList(al[a])
    BY <2>1, TextAliasesHold
  <2>5. /\ \A a \in DOMAIN Aliases : a.modality = "text" => a \in DOMAIN al /\ Aliases[a] = al[a]
        /\ DOMAIN al \subseteq DOMAIN Aliases
    BY DEF Aliases, TextOf
  <2>6. id.modality = "text"
    BY DEF AliasId
  <2> HIDE DEF texts, al, id
  <2>7. ASSUME NEW a \in DOMAIN Aliases, a.modality = "text", NEW i \in DOMAIN Aliases[a]
        PROVE  Aliases[a][i] \in texts \/ SpecialHints(Aliases[a][i][1], Aliases[a][i][2]) # {}
    <3>1. Aliases[a][i] \in ToSet(al[a])
      BY <2>4, <2>5, <2>7, PlacesIn
    <3> QED
      BY <2>2, <2>3, <2>5, <2>7, <3>1
  <2>8. texts = IF id \in DOMAIN Aliases THEN ToSet(Aliases[id]) ELSE {}
    BY <2>2, <2>3, <2>5, <2>6
  <2> QED
    BY <2>7, <2>8 DEF GeneralIsComplete, texts, id
<1> QED
  BY <1>1, PlannerInductive, PTL
=============================================================================
