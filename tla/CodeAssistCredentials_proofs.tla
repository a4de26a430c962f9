--------------------- MODULE CodeAssistCredentials_proofs ---------------------
(***************************************************************************)
(* Proofs about CodeAssistCredentials, for any number of processes and any    *)
(* bounds.  SignInKept is about the file; what keeps it is what the processes *)
(* have in their hands (Holds): one that loaded since the last sign-in holds  *)
(* its login, and a sign-in under way will write a later one.                 *)
(***************************************************************************)
EXTENDS CodeAssistCredentials, TLAPS

(* What a process holds, when "last" is the login the last sign-in wrote. *)
Holds(w, last, lost) ==
  w.pc # "idle" =>
    /\ w.creds \in Creds
    /\ w.begun <= w.since /\ w.since <= last
    /\ w.since = last => (w.creds.login = last \/ lost)
    /\ w.payload # NULL /\ w.begun = last => (w.payload.login = last \/ lost)

SignInAhead ==
  signin.pc \in {"saving", "writing"} =>
    signin.creds \in Creds /\ newest < signin.creds.login /\ signin.creds.login <= logins

IdleIsIdle == \A p \in Procs : work[p].pc = "idle" => work[p] = Idle

Inv ==
  /\ TypeOK
  /\ newest <= logins
  /\ SignInAhead
  /\ IdleIsIdle
  /\ \A p \in Procs : Holds(work[p], newest, stale)
  /\ SignInKept

-----------------------------------------------------------------------------
(* Credentials are told from everything else the file and the hands may hold. *)
LEMMA NotCredentials == Missing \notin Creds /\ Torn \notin Creds /\ NULL \notin Creds
BY CredentialsAssumption

(* The first sign-in is the last one.                                         *)
LEMMA InitInv == Init => Inv
<1> SUFFICES ASSUME Init PROVE Inv
  OBVIOUS
<1>1. MaxLogins \in Nat /\ 1 \in 1 .. MaxLogins /\ 0 \in 0 .. MaxLogins
  BY CredentialsAssumption
<1>2. file \in Creds /\ file.login = 1
  BY <1>1 DEF Init, Creds
<1>3. Idle \in Work
  BY <1>1 DEF Idle, Work
<1>4. TypeOK
  <2>1. work \in [Procs -> Work]
    BY <1>3 DEF Init
  <2>2. signin \in SignIn
    BY DEF Init, NotSigning, SignIn
  <2>3. /\ file \in Creds \cup {Missing, Torn} /\ logins \in 1 .. MaxLogins
        /\ dead \subseteq 1 .. MaxLogins /\ newest \in 1 .. MaxLogins
        /\ stale \in BOOLEAN /\ crashed \in BOOLEAN /\ events \in 0 .. MaxEvents
    <3>1. MaxEvents \in Nat /\ 0 \in 0 .. MaxEvents
      BY CredentialsAssumption
    <3> QED
      BY <1>1, <1>2, <3>1 DEF Init
  <2> QED
    BY <2>1, <2>2, <2>3 DEF TypeOK
<1> QED
  BY <1>2, <1>4, CredentialsAssumption
     DEF Init, Inv, SignInAhead, IdleIsIdle, Holds, SignInKept, Idle, NotSigning

(* A process that changes only its own hands, into ones that hold what they    *)
(* should, disturbs nothing.                                                  *)
LEMMA OwnStep ==
  ASSUME Inv, NEW p \in Procs, NEW w \in Work,
         work' = [work EXCEPT ![p] = w], Holds(w, newest, stale), w.pc = "idle" => w = Idle,
         UNCHANGED <<file, logins, dead, signin, newest, stale>>,
         crashed' \in BOOLEAN, events' \in 0 .. MaxEvents
  PROVE  Inv'
<1>1. TypeOK'
  BY DEF Inv, TypeOK
<1>2. IdleIsIdle' /\ \A q \in Procs : Holds(work[q], newest, stale)'
  BY DEF Inv, TypeOK, IdleIsIdle, Holds
<1> QED
  BY <1>1, <1>2 DEF Inv, SignInAhead, SignInKept

(* The hands of a process are hands.                                          *)
LEMMA HandsType ==
  ASSUME Inv, NEW p \in Procs
  PROVE  /\ work[p] \in Work
         /\ MaxLogins \in Nat /\ newest \in Nat /\ newest \in 1 .. MaxLogins
         /\ Holds(work[p], newest, stale)
BY CredentialsAssumption DEF Inv, TypeOK

(* A process that puts its hands down holds nothing.                          *)
LEMMA PutDown ==
  Idle \in Work /\ \A last, lost : Holds(Idle, last, lost)
<1>1. MaxLogins \in Nat
  BY CredentialsAssumption
<1> QED
  BY <1>1 DEF Idle, Work, Holds

-----------------------------------------------------------------------------
(* Steps *)

(* Loading takes the login of the last sign-in, unless it is lost already.    *)
LEMMA LoadInv ==
  ASSUME Inv, NEW p \in Procs, Load(p)
  PROVE  Inv'
<1>1. /\ work[p] \in Work /\ newest \in 1 .. MaxLogins /\ MaxLogins \in Nat
      /\ Holds(work[p], newest, stale)
  BY HandsType
<1>2. CASE Usable(file)
  <2> DEFINE w == Loaded(p, file)
  <2>1. file \in Creds /\ (file.login = newest \/ stale)
    BY <1>2 DEF Usable, Inv, SignInKept
  <2>2. file.project \in BOOLEAN
    BY <2>1 DEF Creds
  <2>3. /\ w.pc \in {"saving", "setup"} /\ w.creds = file /\ w.since = newest
        /\ w.payload = work[p].payload
        /\ w.begun = IF work[p].pc = "idle" THEN newest ELSE work[p].begun
    BY <1>1, <2>2 DEF Loaded, Work
  <2>4. w \in Work
    <3>1. newest \in 0 .. MaxLogins /\ work[p].begun \in 0 .. MaxLogins
      BY <1>1 DEF Work
    <3>2. w.begun \in 0 .. MaxLogins /\ w.since \in 0 .. MaxLogins
      BY <2>3, <3>1
    <3>3. w.payload \in Creds \cup {NULL}
      BY <1>1, <2>3 DEF Work
    <3> QED
      BY <2>1, <2>2, <3>2, <3>3 DEF Loaded, Work
  <2>5. work[p].pc = "idle" => work[p].payload = NULL
    BY DEF Inv, IdleIsIdle, Idle
  <2>6. w.begun <= newest /\ newest <= newest
    BY <1>1, <2>3 DEF Holds, Work
  <2>7. Holds(w, newest, stale)
    BY <1>1, <2>1, <2>3, <2>5, <2>6 DEF Holds
  <2>8. w.pc # "idle"
    BY <2>3
  <2>9. /\ work' = [work EXCEPT ![p] = w]
        /\ UNCHANGED <<file, logins, dead, signin, newest, stale, crashed, events>>
    BY <1>2 DEF Load, Set
  <2> HIDE DEF w
  <2> QED
    BY <2>4, <2>7, <2>8, <2>9, OwnStep DEF Inv, TypeOK
<1>3. CASE ~ Usable(file)
  BY <1>3, PutDown, OwnStep DEF Load, Set, Inv, TypeOK
<1> QED
  BY <1>2, <1>3

(* Setting up a project changes nothing else in the hands.                    *)
LEMMA SetUpInv ==
  ASSUME Inv, NEW p \in Procs, SetUp(p)
  PROVE  Inv'
<1> DEFINE w == [work[p] EXCEPT !.pc = "saving", !.creds.project = TRUE]
<1>1. work[p] \in Work /\ Holds(work[p], newest, stale) /\ work[p].pc = "setup"
  BY HandsType DEF SetUp
<1>2. work[p].creds \in Creds
  BY <1>1 DEF Holds
<1>3. /\ w.pc = "saving" /\ w.creds = [work[p].creds EXCEPT !.project = TRUE]
      /\ w.since = work[p].since /\ w.begun = work[p].begun /\ w.payload = work[p].payload
      /\ w.creds \in Creds /\ w.creds.login = work[p].creds.login
  BY <1>1, <1>2 DEF Work, Creds
<1>4. w \in Work
  BY <1>1, <1>3 DEF Work
<1>5. Holds(w, newest, stale)
  BY <1>1, <1>3 DEF Holds
<1>6. UNCHANGED <<file, logins, dead, signin, newest, stale, crashed, events>>
  BY DEF SetUp
<1>7. CASE Set(p, w)
  <2>1. w.pc # "idle" /\ work' = [work EXCEPT ![p] = w]
    BY <1>3, <1>7 DEF Set
  <2> HIDE DEF w
  <2> QED
    BY <1>4, <1>5, <1>6, <2>1, OwnStep DEF Inv, TypeOK
<1>8. CASE Set(p, Idle)
  BY <1>6, <1>8, PutDown, OwnStep DEF Set, Inv, TypeOK
<1> QED
  BY <1>7, <1>8 DEF SetUp

(* Emptying the file leaves what everyone holds, and tells whether a sign-in   *)
(* is lost.                                                                   *)
LEMMA TruncateInv ==
  ASSUME Inv, NEW p \in Procs, Truncate(p)
  PROVE  Inv'
<1> DEFINE w == [work[p] EXCEPT !.pc = "writing"]
<1>1. work[p] \in Work /\ Holds(work[p], newest, stale) /\ work[p].pc = "saving"
  BY HandsType DEF Truncate
<1>2. /\ w.pc = "writing" /\ w.creds = work[p].creds /\ w.since = work[p].since
      /\ w.begun = work[p].begun /\ w.payload = work[p].payload /\ w \in Work
  BY <1>1 DEF Work
<1>3. /\ file' = Torn /\ work' = [work EXCEPT ![p] = w]
      /\ stale' \in BOOLEAN /\ (stale => stale')
      /\ UNCHANGED <<logins, dead, signin, newest, crashed, events>>
  BY DEF Truncate, Set, Inv, TypeOK
<1>4. Holds(w, newest, stale')
  BY <1>1, <1>2, <1>3 DEF Holds
<1> HIDE DEF w
<1>5. TypeOK'
  BY <1>2, <1>3 DEF Inv, TypeOK
<1>6. IdleIsIdle' /\ \A q \in Procs : Holds(work[q], newest, stale)'
  BY <1>2, <1>3, <1>4 DEF Inv, TypeOK, IdleIsIdle, Holds
<1> QED
  BY <1>3, <1>5, <1>6, NotCredentials DEF Inv, SignInAhead, SignInKept

(* What one process writes is what it holds: the login of the last sign-in,    *)
(* or the sign-in is lost.                                                    *)
LEMMA WriteInv ==
  ASSUME Inv, NEW p \in Procs, Write(p)
  PROVE  Inv'
<1> DEFINE w == [work[p] EXCEPT !.pc = "ready"]
<1>1. work[p] \in Work /\ Holds(work[p], newest, stale) /\ work[p].pc \in {"writing", "unlinked"}
  BY HandsType DEF Write
<1>2. /\ w.pc = "ready" /\ w.creds = work[p].creds /\ w.since = work[p].since
      /\ w.begun = work[p].begun /\ w.payload = work[p].payload /\ w \in Work
  BY <1>1 DEF Work
<1>3. /\ work' = [work EXCEPT ![p] = w]
      /\ stale' \in BOOLEAN /\ (stale => stale')
      /\ UNCHANGED <<logins, dead, signin, newest, crashed, events>>
  BY DEF Write, Set, Inv, TypeOK
<1>4. Holds(w, newest, stale')
  BY <1>1, <1>2, <1>3 DEF Holds
<1>5. work[p].creds \in Creds /\ work[p].since <= newest
  BY <1>1 DEF Holds
<1>6. file' \in Creds \cup {Missing, Torn}
  BY <1>5 DEF Write, Filled, Inv, TypeOK
<1> HIDE DEF w
<1>7. TypeOK'
  BY <1>2, <1>3, <1>6 DEF Inv, TypeOK
<1>8. IdleIsIdle' /\ \A q \in Procs : Holds(work[q], newest, stale)'
  BY <1>2, <1>3, <1>4 DEF Inv, TypeOK, IdleIsIdle, Holds
<1>9. SignInKept'
  <2>1. CASE work[p].pc = "unlinked"
    BY <1>3, <2>1 DEF Write, Inv, SignInKept
  <2>2. CASE work[p].pc # "unlinked"
    <3>1. file' \in {work[p].creds, Torn}
      BY <2>2 DEF Write, Filled
    <3>2. work[p].since < newest => stale'
      BY <2>2 DEF Write
    <3>3. work[p].since = newest \/ work[p].since < newest
      BY <1>1, <1>5, HandsType DEF Work
    <3>4. work[p].creds.login = newest \/ stale'
      BY <1>1, <1>3, <3>2, <3>3 DEF Holds
    <3> QED
      BY <1>3, <3>1, <3>4, NotCredentials DEF SignInKept
  <2> QED
    BY <2>1, <2>2
<1> QED
  BY <1>3, <1>7, <1>8, <1>9 DEF Inv, SignInAhead

(* A request that loads again keeps as its payload what it held.              *)
LEMMA AgainInv ==
  ASSUME Inv, NEW p \in Procs, Again(p)
  PROVE  Inv'
<1> DEFINE w == [work[p] EXCEPT !.pc = "again", !.payload = work[p].creds]
<1>1. /\ work[p] \in Work /\ Holds(work[p], newest, stale) /\ work[p].pc = "ready"
      /\ newest \in Nat
  BY HandsType DEF Again
<1>2. work[p].creds \in Creds
  BY <1>1 DEF Holds
<1>3. /\ w.pc = "again" /\ w.creds = work[p].creds /\ w.since = work[p].since
      /\ w.begun = work[p].begun /\ w.payload = work[p].creds
      /\ w \in Work
  BY <1>1, <1>2 DEF Work
<1>b. work[p].begun \in Int /\ work[p].since \in Int
  BY <1>1 DEF Work
<1>4. w.begun = newest => w.since = newest
  BY <1>1, <1>3, <1>b DEF Holds
<1>5. Holds(w, newest, stale)
  BY <1>1, <1>2, <1>3, <1>4 DEF Holds
<1>6. work' = [work EXCEPT ![p] = w] /\ w.pc # "idle"
  BY <1>3 DEF Again, Set
<1>7. UNCHANGED <<file, logins, dead, signin, newest, stale, crashed, events>>
  BY DEF Again
<1> HIDE DEF w
<1> QED
  BY <1>3, <1>5, <1>6, <1>7, OwnStep DEF Inv, TypeOK

(* A process that is done, or killed, puts its hands down.                    *)
LEMMA DoneInv ==
  ASSUME Inv, NEW p \in Procs, Done(p) \/ Crash(p)
  PROVE  Inv'
<1>1. /\ work' = [work EXCEPT ![p] = Idle]
      /\ UNCHANGED <<file, logins, dead, signin, newest, stale>>
      /\ crashed' \in BOOLEAN
  BY DEF Done, Crash, Set, Inv, TypeOK
<1>2. events' \in 0 .. MaxEvents
  BY CredentialsAssumption DEF Done, Crash, Event, Inv, TypeOK
<1> QED
  BY <1>1, <1>2, PutDown, OwnStep

(* Steps of the sign-in leave what the processes hold, but for the file that   *)
(* is removed under one that was filling it.                                  *)
LEMMA ConnectInv ==
  ASSUME Inv, NEW force \in BOOLEAN, Connect(force)
  PROVE  Inv'
<1>1. events' \in 0 .. MaxEvents /\ UNCHANGED <<logins, dead, newest, stale, crashed>>
  BY CredentialsAssumption DEF Connect, Event, Inv, TypeOK
<1>2. CASE UNCHANGED <<file, work, signin>>
  BY <1>1, <1>2 DEF Inv, TypeOK, SignInAhead, IdleIsIdle, Holds, SignInKept
<1>3. CASE /\ file' = Missing
           /\ work' = [p \in Procs |-> IF work[p].pc = "writing"
                                        THEN [work[p] EXCEPT !.pc = "unlinked"] ELSE work[p]]
           /\ signin' = [signin EXCEPT !.pc = "browser"]
  <2>1. ASSUME NEW p \in Procs
        PROVE  /\ work'[p] \in Work /\ Holds(work'[p], newest, stale)
               /\ work'[p].pc = "idle" => work'[p] = Idle
    <3>1. work[p] \in Work /\ Holds(work[p], newest, stale)
      BY HandsType
    <3>2. CASE work[p].pc = "writing"
      <4>1. work'[p] = [work[p] EXCEPT !.pc = "unlinked"]
        BY <1>3, <3>2
      <4> QED
        BY <3>1, <3>2, <4>1 DEF Work, Holds
    <3>3. CASE work[p].pc # "writing"
      BY <1>3, <3>1, <3>3 DEF Inv, IdleIsIdle
    <3> QED
      BY <3>2, <3>3
  <2>2. work' \in [Procs -> Work]
    BY <1>3, <2>1
  <2>3. signin' \in SignIn /\ signin'.pc = "browser"
    BY <1>3 DEF Inv, TypeOK, SignIn
  <2>4. TypeOK'
    BY <1>1, <1>3, <2>2, <2>3 DEF Inv, TypeOK
  <2>5. IdleIsIdle' /\ \A p \in Procs : Holds(work[p], newest, stale)'
    BY <1>1, <2>1 DEF IdleIsIdle
  <2> QED
    BY <1>1, <1>3, <2>3, <2>4, <2>5, NotCredentials DEF Inv, SignInAhead, SignInKept
<1> QED
  BY <1>2, <1>3 DEF Connect

(* New tokens are of a new login.                                             *)
LEMMA GrantedInv ==
  ASSUME Inv, NEW project \in BOOLEAN,
         Granted(project) \/ \E old \in BOOLEAN : Import(project, old)
  PROVE  Inv'
<1> DEFINE c == [login |-> logins + 1, project |-> project]
<1>1. /\ logins < MaxLogins /\ logins' = logins + 1
      /\ signin' = [pc |-> "saving", creds |-> c]
      /\ UNCHANGED <<file, work, newest, stale, crashed>>
  BY DEF Granted, Import
<1>2. logins' \in 1 .. MaxLogins /\ newest < logins' /\ newest <= logins' /\ logins' <= logins'
  BY <1>1, CredentialsAssumption DEF Inv, TypeOK
<1>3. c \in Creds /\ c.login = logins'
  BY <1>1, <1>2 DEF Creds
<1>4. dead' \subseteq 1 .. MaxLogins /\ events' \in 0 .. MaxEvents
  <2>1. dead' \subseteq dead \cup {logins'}
    BY <1>1 DEF Granted, Import
  <2>2. events' = events \/ (events < MaxEvents /\ events' = events + 1)
    BY DEF Granted, Import, Event
  <2>3. MaxEvents \in Nat /\ dead \subseteq 1 .. MaxLogins /\ events \in 0 .. MaxEvents
    BY CredentialsAssumption DEF Inv, TypeOK
  <2> QED
    BY <1>2, <2>1, <2>2, <2>3
<1> HIDE DEF c
<1>5. signin' \in SignIn /\ signin'.creds = c
  BY <1>1, <1>3 DEF SignIn
<1>6. TypeOK'
  BY <1>1, <1>2, <1>4, <1>5 DEF Inv, TypeOK
<1>7. SignInAhead'
  BY <1>1, <1>2, <1>3, <1>5 DEF SignInAhead
<1> QED
  BY <1>1, <1>2, <1>6, <1>7 DEF Inv, IdleIsIdle, SignInKept

(* A sign-in that is given up, or begins to write, changes no login.          *)
LEMMA GiveUpInv ==
  ASSUME Inv, GiveUp \/ SignInTruncates
  PROVE  Inv'
<1>1. /\ UNCHANGED <<logins, dead, work, newest, events>>
      /\ stale' \in BOOLEAN /\ (stale => stale') /\ crashed' \in BOOLEAN
      /\ file' = Torn \/ (file' = file /\ stale' = stale)
  BY DEF GiveUp, SignInTruncates, Inv, TypeOK
<1>2. signin' \in SignIn
  BY DEF GiveUp, SignInTruncates, Inv, TypeOK, SignIn, NotSigning
<1>3. signin'.pc \in {"saving", "writing"} =>
        signin.pc \in {"saving", "writing"} /\ signin'.creds = signin.creds
  BY DEF GiveUp, SignInTruncates, Inv, TypeOK, SignIn, NotSigning
<1>4. TypeOK'
  BY <1>1, <1>2 DEF Inv, TypeOK
<1>5. \A p \in Procs : Holds(work[p], newest, stale)'
  BY <1>1 DEF Inv, Holds
<1>6. SignInKept'
  BY <1>1, NotCredentials DEF Inv, SignInKept
<1> QED
  BY <1>1, <1>3, <1>4, <1>5, <1>6 DEF Inv, SignInAhead, IdleIsIdle

(* A sign-in writes a later login than any process holds.                     *)
LEMMA SignInWritesInv ==
  ASSUME Inv, SignInWrites
  PROVE  Inv'
<1>1. /\ signin.creds \in Creds /\ newest < signin.creds.login
      /\ signin.creds.login <= logins /\ signin.creds.login \in 1 .. MaxLogins
      /\ newest \in Int /\ signin.creds.login \in Int
  BY CredentialsAssumption DEF SignInWrites, Inv, SignInAhead, TypeOK, Creds
<1>2. /\ newest' = signin.creds.login /\ file' \in {signin.creds, Torn}
      /\ signin' = NotSigning /\ stale' \in BOOLEAN
      /\ UNCHANGED <<logins, dead, work, crashed, events>>
  BY DEF SignInWrites, Filled, Inv, TypeOK
<1>3. TypeOK'
  BY <1>1, <1>2 DEF Inv, TypeOK, SignIn, NotSigning
<1>4. SignInAhead' /\ IdleIsIdle'
  BY <1>2 DEF Inv, SignInAhead, NotSigning, IdleIsIdle
<1>5. ASSUME NEW p \in Procs PROVE Holds(work[p], newest', stale')
  <2>1. work[p] \in Work /\ Holds(work[p], newest, stale)
    BY HandsType
  <2>2. work[p].begun \in Int /\ work[p].since \in Int
    BY <2>1 DEF Work
  <2>3. work[p].pc # "idle" => /\ work[p].begun <= newest' /\ work[p].since <= newest'
                               /\ work[p].begun # newest' /\ work[p].since # newest'
    BY <1>1, <1>2, <2>1, <2>2 DEF Holds
  <2> QED
    BY <2>1, <2>3 DEF Holds
<1>6. SignInKept'
  BY <1>1, <1>2, NotCredentials DEF SignInKept
<1> QED
  BY <1>1, <1>2, <1>3, <1>4, <1>5, <1>6 DEF Inv

(* A token that gets old changes nobody's hands.                              *)
LEMMA ExpireInv ==
  ASSUME Inv, NEW login \in 1 .. MaxLogins, Expire(login)
  PROVE  Inv'
<1>1. dead' \subseteq 1 .. MaxLogins /\ events' \in 0 .. MaxEvents
  BY CredentialsAssumption DEF Expire, Event, Inv, TypeOK
<1>2. UNCHANGED <<file, logins, work, signin, newest, stale, crashed>>
  BY DEF Expire
<1> QED
  BY <1>1, <1>2 DEF Inv, TypeOK, SignInAhead, IdleIsIdle, Holds, SignInKept

-----------------------------------------------------------------------------
(* Theorems *)

LEMMA NextInv == Inv /\ [Next]_vars => Inv'
<1> SUFFICES ASSUME Inv, [Next]_vars PROVE Inv'
  OBVIOUS
<1>1. CASE UNCHANGED vars
  BY <1>1 DEF vars, Inv, TypeOK, SignInAhead, IdleIsIdle, Holds, SignInKept
<1> QED
  BY <1>1, LoadInv, SetUpInv, TruncateInv, WriteInv, AgainInv, DoneInv, ConnectInv,
     GrantedInv, GiveUpInv, SignInWritesInv, ExpireInv DEF Next

(* Whatever processes load, set up and write in whatever order, a process that *)
(* loaded since the last sign-in holds its login (_load_ready_credentials).   *)
THEOREM HandsInv == Spec => []Inv
BY InitInv, NextInv, PTL DEF Spec

(* The file, the hands and the sign-in are well formed in every reachable state. *)
THEOREM TypeCorrect == Spec => []TypeOK
<1>1. Inv => TypeOK
  BY DEF Inv
<1> QED
  BY <1>1, HandsInv, PTL

(* What a sign-in wrote stays in the file until the next one, but for the two   *)
(* races the history variable names (save_credentials).                       *)
THEOREM SignInAlwaysKept == Spec => []SignInKept
<1>1. Inv => SignInKept
  BY DEF Inv
<1> QED
  BY <1>1, HandsInv, PTL

(* The project and the token of a request are of one login, unless a sign-in    *)
(* came in between (chat_completions and _post).                              *)
THEOREM AlwaysOneLogin == Spec => []OneLogin
<1>1. Inv => OneLogin
  <2> SUFFICES ASSUME Inv, NEW p \in Procs, work[p].pc = "ready", work[p].payload # NULL,
                      ~ (newest > work[p].begun), stale = FALSE
               PROVE  work[p].payload.login = work[p].creds.login
    BY DEF OneLogin, Inv, TypeOK
  <2>1. work[p] \in Work /\ Holds(work[p], newest, stale) /\ newest \in Nat
    BY HandsType
  <2>2. work[p].begun \in Int /\ work[p].since \in Int
    BY <2>1 DEF Work
  <2>3. work[p].begun = newest /\ work[p].since = newest
    BY <2>1, <2>2 DEF Holds
  <2> QED
    BY <2>1, <2>3 DEF Holds
<1> QED
  BY <1>1, HandsInv, PTL

(* The file is torn only while a writer is at it, or after one was killed or    *)
(* met another: a failing set-up leaves it whole.                             *)
THEOREM TornAlwaysByWriters == Spec => []TornOnlyByWriters
<1>1. Init => TornOnlyByWriters
  <2>1. MaxLogins \in Nat \ {0}
    BY CredentialsAssumption
  <2>2. Init => file \in Creds
    BY <2>1 DEF Init, Creds
  <2> QED
    BY <2>2, NotCredentials DEF TornOnlyByWriters
<1>2. Inv /\ TornOnlyByWriters /\ [Next]_vars => TornOnlyByWriters'
  <2> SUFFICES ASSUME Inv, TornOnlyByWriters, [Next]_vars, file' = Torn
               PROVE  TornOnlyByWriters'
    BY DEF TornOnlyByWriters
  <2>t. work \in [Procs -> Work] /\ stale \in BOOLEAN /\ crashed \in BOOLEAN
    BY DEF Inv, TypeOK
  <2>1. ASSUME NEW p \in Procs, Load(p) \/ SetUp(p) \/ Again(p) \/ Done(p)
        PROVE  TornOnlyByWriters'
    <3>1. /\ UNCHANGED <<file, signin, stale, crashed>> /\ work[p].pc # "writing"
          /\ \A q \in Procs : q # p => work'[q] = work[q]
      BY <2>1, <2>t DEF Load, SetUp, Again, Done, Set
    <3> QED
      BY <3>1, <2>t DEF TornOnlyByWriters
  <2>2. ASSUME NEW p \in Procs, Truncate(p) PROVE TornOnlyByWriters'
    <3>1. work'[p].pc = "writing"
      BY <2>2, <2>t DEF Truncate, Set, Work
    <3> QED
      BY <3>1 DEF TornOnlyByWriters
  <2>3. ASSUME NEW p \in Procs, Write(p) PROVE TornOnlyByWriters'
    <3>1. work[p].creds \in Creds /\ work[p].pc \in {"writing", "unlinked"}
      BY <2>3, HandsType DEF Holds, Write
    <3>2. CASE work[p].pc = "unlinked"
      <4>1. /\ UNCHANGED <<file, signin, stale, crashed>>
            /\ \A q \in Procs : q # p => work'[q] = work[q]
        BY <2>3, <2>t, <3>2 DEF Write, Set
      <4> QED
        BY <3>2, <4>1, <2>t DEF TornOnlyByWriters
    <3>3. CASE work[p].pc = "writing"
      <4>1. file # Torn
        BY <2>3, <3>1, <3>3, NotCredentials DEF Write, Filled
      <4>2. stale'
        BY <2>3, <3>3, <4>1 DEF Write
      <4> QED
        BY <4>2 DEF TornOnlyByWriters
    <3> QED
      BY <3>1, <3>2, <3>3
  <2>4. ASSUME NEW p \in Procs, Crash(p) PROVE TornOnlyByWriters'
    <3>1. /\ UNCHANGED <<file, signin, stale>> /\ (crashed => crashed')
          /\ (work[p].pc = "writing" => crashed')
          /\ \A q \in Procs : q # p => work'[q] = work[q]
      BY <2>4, <2>t DEF Crash, Set
    <3> QED
      BY <3>1, <2>t DEF TornOnlyByWriters
  <2>5. ASSUME NEW force \in BOOLEAN, Connect(force) PROVE TornOnlyByWriters'
    <3>1. UNCHANGED <<file, work, signin, stale, crashed>>
      BY <2>5, CredentialsAssumption DEF Connect
    <3> QED
      BY <3>1 DEF TornOnlyByWriters
  <2>6. ASSUME NEW project \in BOOLEAN,
               Granted(project) \/ \E old \in BOOLEAN : Import(project, old)
        PROVE  TornOnlyByWriters'
    BY <2>6 DEF Granted, Import, TornOnlyByWriters
  <2>7. CASE GiveUp
    BY <2>7, <2>t DEF GiveUp, TornOnlyByWriters
  <2>8. CASE SignInTruncates
    <3>1. signin'.pc = "writing"
      BY <2>8 DEF SignInTruncates, Inv, TypeOK, SignIn
    <3> QED
      BY <3>1 DEF TornOnlyByWriters
  <2>9. CASE SignInWrites
    <3>1. signin.creds \in Creds
      BY <2>9 DEF SignInWrites, Inv, SignInAhead
    <3>2. file # Torn
      BY <2>9, <3>1, NotCredentials DEF SignInWrites, Filled
    <3>3. stale'
      BY <2>9, <3>2 DEF SignInWrites
    <3> QED
      BY <3>3 DEF TornOnlyByWriters
  <2>10. ASSUME NEW login \in 1 .. MaxLogins, Expire(login) PROVE TornOnlyByWriters'
    BY <2>10 DEF Expire, TornOnlyByWriters
  <2>11. CASE UNCHANGED vars
    BY <2>11 DEF vars, TornOnlyByWriters
  <2> QED
    BY <2>1, <2>2, <2>3, <2>4, <2>5, <2>6, <2>7, <2>8, <2>9, <2>10, <2>11 DEF Next
<1> QED
  BY <1>1, <1>2, HandsInv, PTL DEF Spec
=============================================================================
