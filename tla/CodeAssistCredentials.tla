------------------------- MODULE CodeAssistCredentials -------------------------
(***************************************************************************)
(* The credentials file of the Code Assist provider.  Every request of the    *)
(* gateway, every listing of its models and every validation by a command of  *)
(* sor loads the file, checks it, has Google set up a project if it names     *)
(* none, and writes it back, whether or not anything changed.  The sign-in    *)
(* command writes the same file.  The gateway and the commands are processes   *)
(* of their own; inside one of them nothing interrupts a load, because none   *)
(* of it awaits.  A file is written in place: emptied first, then filled.      *)
(***************************************************************************)
EXTENDS Integers, Sequences, FiniteSets, GatewayErrors

CONSTANTS
  Procs,      \* the processes that use the credentials
  MaxLogins,  \* bound on the sign-ins
  MaxEvents,  \* bound on what the environment does
  Missing,    \* no file
  Torn        \* a file that is not JSON

(* What a sign-in obtains: the tokens of one login, and a project or none. *)
Creds == [login : 1 .. MaxLogins, project : BOOLEAN]

ASSUME CredentialsAssumption ==
  /\ MaxLogins \in Nat \ {0} /\ MaxEvents \in Nat
  /\ {Missing, Torn, NULL} \cap Creds = {}
  /\ Missing # Torn

VARIABLES
  file,     \* the file
  logins,   \* the logins Google has granted
  dead,     \* the logins whose token has less than the leeway left
  work,     \* what each process is doing with the file
  signin,   \* the sign-in under way
  newest,   \* the login the last sign-in wrote
  stale,    \* whether a process ever wrote what it had loaded before that, or two wrote at once
  crashed,  \* whether a process was ever killed while it was writing
  events

vars == <<file, logins, dead, work, signin, newest, stale, crashed, events>>

Idle == [pc |-> "idle", creds |-> NULL, payload |-> NULL, begun |-> 0, since |-> 0]

NotSigning == [pc |-> "idle", creds |-> NULL]

(* What a process has in its hands. *)
Work ==
  [pc : {"idle", "again", "setup", "saving", "writing", "unlinked", "ready"},
   creds   : Creds \cup {NULL},
   payload : Creds \cup {NULL},      \* what the request under way took its project from
   begun   : 0 .. MaxLogins,         \* "newest" when it began, and at its last load
   since   : 0 .. MaxLogins]

SignIn == [pc : {"idle", "browser", "saving", "writing"}, creds : Creds \cup {NULL}]

TypeOK ==
  /\ file \in Creds \cup {Missing, Torn}
  /\ logins \in 1 .. MaxLogins
  /\ dead \subseteq 1 .. MaxLogins
  /\ work \in [Procs -> Work]
  /\ signin \in SignIn
  /\ newest \in 1 .. MaxLogins
  /\ stale \in BOOLEAN /\ crashed \in BOOLEAN
  /\ events \in 0 .. MaxEvents

(* There has been one sign-in, and the project may be set up or not. *)
Init ==
  /\ file \in {[login |-> 1, project |-> project] : project \in BOOLEAN}
  /\ logins = 1 /\ newest = 1 /\ dead = {}
  /\ work = [p \in Procs |-> Idle]
  /\ signin = NotSigning
  /\ stale = FALSE /\ crashed = FALSE /\ events = 0

Event == events < MaxEvents /\ events' = events + 1

-----------------------------------------------------------------------------
(* _load_ready_credentials *)

(* ensure_access_token: a token near its end is refreshed, which always fails. *)
Usable(content) == content \in Creds /\ content.login \notin dead

Set(p, state) == work' = [work EXCEPT ![p] = state]

Loaded(p, content) ==
  [pc      |-> IF content.project THEN "saving" ELSE "setup",
   creds   |-> content,
   payload |-> work[p].payload,
   begun   |-> IF work[p].pc = "idle" THEN newest ELSE work[p].begun,
   since   |-> newest]

(* A file that is missing, torn or too old ends the operation with AUTH_INVALID. *)
Load_Remembered(p) ==
  /\ work[p].pc \in {"idle", "again"}
  /\ LET content == IF work[p].creds # NULL THEN work[p].creds ELSE file
     IN  IF Usable(content) THEN Set(p, Loaded(p, content)) ELSE Set(p, Idle)
  /\ UNCHANGED <<file, logins, dead, signin, newest, stale, crashed, events>>

Load(p) ==
  /\ work[p].pc \in {"idle", "again"}
  /\ IF Usable(file) THEN Set(p, Loaded(p, file)) ELSE Set(p, Idle)
  /\ UNCHANGED <<file, logins, dead, signin, newest, stale, crashed, events>>

(* setup_user, which may find no project, be refused or time out. *)
SetUp_NullProject(p) ==
  /\ work[p].pc = "setup"
  /\ \/ Set(p, [work[p] EXCEPT !.pc = "saving", !.creds.project = NULL])
     \/ Set(p, Idle)
  /\ UNCHANGED <<file, logins, dead, signin, newest, stale, crashed, events>>

SetUp(p) ==
  /\ work[p].pc = "setup"
  /\ \/ Set(p, [work[p] EXCEPT !.pc = "saving", !.creds.project = TRUE])
     \/ Set(p, Idle)
  /\ UNCHANGED <<file, logins, dead, signin, newest, stale, crashed, events>>

(* What is in the file once a writer is done: if another one filled it in the  *)
(* meantime, the longer text may show behind the shorter.                     *)
Filled(content) == IF file = Torn THEN {content} ELSE {content, Torn}

Truncate_BeforeSetup(p) ==
  /\ work[p].pc \in {"setup", "saving"}
  /\ file' = Torn
  /\ Set(p, [work[p] EXCEPT !.pc = IF @ = "setup" THEN @ ELSE "writing"])
  /\ stale' = (stale \/ work[p].since < newest \/ file = Torn)
  /\ UNCHANGED <<logins, dead, signin, newest, crashed, events>>

(* save_credentials: opened and emptied, also when it has been removed. *)
Truncate(p) ==
  /\ work[p].pc = "saving"
  /\ file' = Torn
  /\ Set(p, [work[p] EXCEPT !.pc = "writing"])
  /\ stale' = (stale \/ work[p].since < newest \/ file = Torn)
  /\ UNCHANGED <<logins, dead, signin, newest, crashed, events>>

(* A file that was removed while it was open is filled out of sight. *)
Write(p) ==
  /\ work[p].pc \in {"writing", "unlinked"}
  /\ IF work[p].pc = "unlinked" THEN UNCHANGED <<file, stale>>
     ELSE /\ file' \in Filled(work[p].creds)
          /\ stale' = (stale \/ work[p].since < newest \/ file # Torn)
  /\ Set(p, [work[p] EXCEPT !.pc = "ready"])
  /\ UNCHANGED <<logins, dead, signin, newest, crashed, events>>

(* chat_completions takes the project from one load and _post the token from   *)
(* another.                                                                   *)
Again(p) ==
  /\ work[p].pc = "ready" /\ work[p].payload = NULL
  /\ Set(p, [work[p] EXCEPT !.pc = "again", !.payload = work[p].creds])
  /\ UNCHANGED <<file, logins, dead, signin, newest, stale, crashed, events>>

(* The request has been sent, or the validation is over. *)
Done_KeepsPayload(p) ==
  /\ work[p].pc = "ready"
  /\ Set(p, [work[p] EXCEPT !.pc = "idle"])
  /\ UNCHANGED <<file, logins, dead, signin, newest, stale, crashed, events>>

Done(p) ==
  /\ work[p].pc = "ready"
  /\ Set(p, Idle)
  /\ UNCHANGED <<file, logins, dead, signin, newest, stale, crashed, events>>

Crash(p) ==
  /\ Event
  /\ work[p].pc # "idle"
  /\ Set(p, Idle)
  /\ crashed' = (crashed \/ work[p].pc = "writing")
  /\ UNCHANGED <<file, logins, dead, signin, newest, stale>>

-----------------------------------------------------------------------------
(* providers connect *)

(* Credentials that are there are taken as they are, unless the sign-in is      *)
(* forced.  Then they go first, before the browser opens.                     *)
Connect(force) ==
  /\ Event
  /\ signin.pc = "idle"
  /\ IF file # Missing /\ ~ force
     THEN UNCHANGED <<file, work, signin>>
     ELSE /\ file' = Missing
          /\ work' = [p \in Procs |-> IF work[p].pc = "writing"
                                      THEN [work[p] EXCEPT !.pc = "unlinked"] ELSE work[p]]
          /\ signin' = [signin EXCEPT !.pc = "browser"]
  /\ UNCHANGED <<logins, dead, newest, stale, crashed>>

(* The code is exchanged for tokens. *)
Granted(project) ==
  /\ signin.pc = "browser"
  /\ logins < MaxLogins
  /\ logins' = logins + 1
  /\ signin' = [pc |-> "saving", creds |-> [login |-> logins + 1, project |-> project]]
  /\ UNCHANGED <<file, dead, work, newest, stale, crashed, events>>

(* import_gemini_cli_credentials: nothing is removed, and nothing looks at what *)
(* is left of the token.                                                      *)
Import(project, old) ==
  /\ Event
  /\ signin.pc = "idle"
  /\ logins < MaxLogins
  /\ logins' = logins + 1
  /\ dead' = IF old THEN dead \cup {logins + 1} ELSE dead
  /\ signin' = [pc |-> "saving", creds |-> [login |-> logins + 1, project |-> project]]
  /\ UNCHANGED <<file, work, newest, stale, crashed>>

(* The operator cancels, Google refuses the code, or the command is killed. *)
GiveUp ==
  /\ signin.pc # "idle"
  /\ signin' = NotSigning
  /\ crashed' = (crashed \/ signin.pc = "writing")
  /\ UNCHANGED <<file, logins, dead, work, newest, stale, events>>

SignInTruncates ==
  /\ signin.pc = "saving"
  /\ file' = Torn
  /\ signin' = [signin EXCEPT !.pc = "writing"]
  /\ stale' = (stale \/ file = Torn)
  /\ UNCHANGED <<logins, dead, work, newest, crashed, events>>

SignInWrites ==
  /\ signin.pc = "writing"
  /\ file' \in Filled(signin.creds)
  /\ stale' = (stale \/ file # Torn)
  /\ newest' = signin.creds.login
  /\ signin' = NotSigning
  /\ UNCHANGED <<logins, dead, work, crashed, events>>

Expire(login) ==
  /\ Event
  /\ login \in (1 .. logins) \ dead
  /\ dead' = dead \cup {login}
  /\ UNCHANGED <<file, logins, work, signin, newest, stale, crashed>>

-----------------------------------------------------------------------------
Next ==
  \/ \E p \in Procs :
       Load(p) \/ SetUp(p) \/ Truncate(p) \/ Write(p) \/ Again(p) \/ Done(p) \/ Crash(p)
  \/ \E force \in BOOLEAN : Connect(force)
  \/ \E project \in BOOLEAN : Granted(project) \/ \E old \in BOOLEAN : Import(project, old)
  \/ GiveUp \/ SignInTruncates \/ SignInWrites
  \/ \E login \in 1 .. MaxLogins : Expire(login)

Spec == Init /\ [][Next]_vars

-----------------------------------------------------------------------------
(* Properties *)

(* What a sign-in wrote is what the file holds, until the next one: it is lost  *)
(* only to a process that had loaded the file before and wrote it after, or   *)
(* to two that wrote at once.                                                 *)
SignInKept == file \in Creds => file.login = newest \/ stale

(* The file is torn only while it is being written, or because a writer was     *)
(* killed or met another: a set-up that fails leaves it whole.                *)
TornOnlyByWriters ==
  file = Torn =>
    \/ signin.pc = "writing" \/ \E p \in Procs : work[p].pc = "writing"
    \/ crashed \/ stale

(* The project and the token of a request are of one login, unless the login    *)
(* changed while the request was being prepared.                              *)
OneLogin ==
  \A p \in Procs :
    work[p].pc = "ready" /\ work[p].payload # NULL =>
      \/ work[p].payload.login = work[p].creds.login
      \/ newest > work[p].begun \/ stale
=============================================================================
