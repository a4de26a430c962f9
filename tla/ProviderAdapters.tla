---------------------------- MODULE ProviderAdapters ----------------------------
(***************************************************************************)
(* What the adapters make of a provider's answer: the class of an error, and   *)
(* the chunks of a stream.  Three adapters parse streams.  The one for         *)
(* compatible providers passes events on as they are, the one for Gemini       *)
(* takes every line for an answer of its own, and the one for Code Assist      *)
(* collects the data lines of an event until a blank line.                    *)
(***************************************************************************)
EXTENDS Integers, Sequences, FiniteSets, SequencesExt, GatewayErrors

CONSTANT MaxLines   \* bound on the lines of a stream

Kinds == {"compatible", "gemini", "code_assist"}

(* A line of a stream: an answer with text, the two halves of one over two data *)
(* lines, a data line that is no JSON or has no text, a line without data, and *)
(* the blank line that ends an event.                                         *)
Lines == {"text", "head", "tail", "bad", "comment", "blank"}

DataLines == {"text", "head", "tail", "bad"}

Statuses == {400, 401, 402, 403, 404, 429, 500}

(* What the body of an error talks about. *)
Bodies == {"model", "quota", "else"}

(* How a request ends. *)
Outcomes == ErrorClass \cup {"done", "streamed"}

ASSUME AdapterAssumption == MaxLines \in Nat /\ NULL \notin Kinds \cup Outcomes

VARIABLES
  kind,     \* the adapter of the request, NULL before there is one
  body,     \* the lines of the answer so far
  buffer,   \* the lines of the event under way, by number
  out,      \* the chunks handed on, with the numbers of the lines they stem from
  outcome   \* how the request ended: NULL, "done", "streamed" or an error class

vars == <<kind, body, buffer, out, outcome>>

-----------------------------------------------------------------------------
(* Errors *)

(* _classify_error_response of the compatible providers. *)
CompatibleClass(status, about) ==
  CASE status = 401 -> "auth_invalid"
    [] status \in {402, 403} -> IF about = "quota" THEN "rate_limit" ELSE "auth_forbidden"
    [] status = 429 -> "rate_limit"
    [] status >= 500 -> "provider_unavailable"
    [] OTHER -> "unknown"

(* The chains of the Gemini and Code Assist adapters. *)
GoogleClass(status, about) ==
  CASE status = 401 -> "auth_invalid"
    [] status = 403 -> "auth_forbidden"
    [] status = 429 -> "rate_limit"
    [] status = 400 /\ about = "model" -> "unsupported_model"
    [] status >= 500 -> "provider_unavailable"
    [] OTHER -> "unknown"

Class(k, status, about) ==
  IF k = "compatible" THEN CompatibleClass(status, about) ELSE GoogleClass(status, about)

-----------------------------------------------------------------------------
(* Requests *)

Open == kind # NULL /\ outcome = NULL

Request(k) ==
  /\ kind = NULL
  /\ kind' = k
  /\ UNCHANGED <<body, buffer, out, outcome>>

(* The provider answers with an error instead of a body, or the credentials    *)
(* file of Code Assist is of no use.                                          *)
Refused(status, about) ==
  /\ Open /\ body = <<>>
  /\ outcome' = Class(kind, status, about)
  /\ UNCHANGED <<kind, body, buffer, out>>

(* An answer that is not streamed: text, no text, or no JSON.  What is no JSON   *)
(* from Code Assist is no GatewayError, and the engine takes it for unknown.   *)
Answered(what) ==
  /\ Open /\ body = <<>>
  /\ outcome' = CASE what = "text" -> "done"
                  [] what = "plain" -> IF kind = "compatible" THEN "done" ELSE "malformed_response"
                  [] what = "bad" -> IF kind = "code_assist" THEN "unknown" ELSE "malformed_response"
  /\ UNCHANGED <<kind, body, buffer, out>>

-----------------------------------------------------------------------------
(* Streams *)

Role == [what |-> "role", lines |-> <<>>]

(* The text of some lines, after the role if it is the first. *)
Delivered(lines) ==
  out \o (IF out = <<>> THEN <<Role>> ELSE <<>>) \o <<[what |-> "text", lines |-> lines]>>

Kind(lines) == [i \in DOMAIN lines |-> body[lines[i]]]

(* Joined, the data lines are an answer with text. *)
HasText(lines) == Kind(lines) \in {<<"text">>, <<"head", "tail">>}

TakeCompatible(line) ==
  LET n == Len(body) + 1
  IN  IF line # "blank"
      THEN buffer' = Append(buffer, n) /\ UNCHANGED out
      ELSE /\ buffer' = <<>>
           /\ out' = IF buffer = <<>> THEN out
                     ELSE Append(out, [what |-> "event", lines |-> buffer])

TakeGemini(line) ==
  /\ out' = IF line = "text" THEN Delivered(<<Len(body) + 1>>) ELSE out
  /\ UNCHANGED buffer

TakeCodeAssist_KeepsUndecodable(line) ==
  LET n == Len(body) + 1
  IN  IF line \in DataLines THEN buffer' = Append(buffer, n) /\ UNCHANGED out
      ELSE IF line = "blank" /\ HasText(buffer)
           THEN buffer' = <<>> /\ out' = Delivered(buffer)
           ELSE UNCHANGED <<buffer, out>>

TakeCodeAssist(line) ==
  LET n == Len(body) + 1
  IN  IF line \in DataLines THEN buffer' = Append(buffer, n) /\ UNCHANGED out
      ELSE IF line = "blank"
           THEN buffer' = <<>> /\ out' = IF HasText(buffer) THEN Delivered(buffer) ELSE out
           ELSE UNCHANGED <<buffer, out>>

Line(line) ==
  /\ Open
  /\ Len(body) < MaxLines
  /\ body' = Append(body, line)
  /\ CASE kind = "compatible"  -> TakeCompatible(line)
       [] kind = "gemini"      -> TakeGemini(line)
       [] kind = "code_assist" -> TakeCodeAssist(line)
  /\ UNCHANGED <<kind, outcome>>

(* The end of the body: a stream without text is malformed, and what an event   *)
(* without its blank line holds is passed on by the first adapter only.        *)
EndOfBody_AnyText ==
  /\ Open
  /\ buffer' = <<>>
  /\ IF kind = "compatible"
     THEN /\ out' = IF buffer = <<>> THEN out
                    ELSE Append(out, [what |-> "event", lines |-> buffer])
          /\ outcome' = "streamed"
     ELSE /\ out' = Append(out, [what |-> "end", lines |-> <<>>])
          /\ outcome' = "streamed"
  /\ UNCHANGED <<kind, body>>

EndOfBody ==
  /\ Open
  /\ buffer' = <<>>
  /\ IF kind = "compatible"
     THEN /\ out' = IF buffer = <<>> THEN out
                    ELSE Append(out, [what |-> "event", lines |-> buffer])
          /\ outcome' = "streamed"
     ELSE IF out = <<>> THEN outcome' = "malformed_response" /\ UNCHANGED out
          ELSE /\ out' = Append(out, [what |-> "end", lines |-> <<>>])
               /\ outcome' = "streamed"
  /\ UNCHANGED <<kind, body>>

(* The connection times out or breaks, before the answer or inside it. *)
Broken(class) ==
  /\ Open
  /\ outcome' = class
  /\ buffer' = <<>>
  /\ UNCHANGED <<kind, body, out>>

(* The iterator is gone, and the gateway takes the next request. *)
Finished ==
  /\ outcome # NULL
  /\ kind' = NULL /\ body' = <<>> /\ buffer' = <<>> /\ out' = <<>> /\ outcome' = NULL

-----------------------------------------------------------------------------
Init ==
  kind = NULL /\ body = <<>> /\ buffer = <<>> /\ out = <<>> /\ outcome = NULL

Next ==
  \/ \E k \in Kinds : Request(k)
  \/ \E status \in Statuses, about \in Bodies : Refused(status, about)
  \/ \E what \in {"text", "plain", "bad"} : Answered(what)
  \/ \E line \in Lines : Line(line)
  \/ EndOfBody
  \/ \E class \in {"network_timeout", "provider_unavailable"} : Broken(class)
  \/ Finished

Spec == Init /\ [][Next]_vars

-----------------------------------------------------------------------------
(* Properties *)

(* An event is the lines after a place up to the next blank line; it is over   *)
(* when there is one.                                                         *)
Blanks == {0} \cup {i \in DOMAIN body : body[i] = "blank"}

Event(b) == {i \in DOMAIN body : b < i /\ \A m \in b + 1 .. i : body[m] # "blank"}

Over(b) == \E e \in Blanks : b < e

(* Some lines, in their order, are an answer with text. *)
IsAnswer(lines) ==
  \/ \E i \in lines : lines = {i} /\ body[i] = "text"
  \/ \E i, j \in lines : lines = {i, j} /\ i < j /\ body[i] = "head" /\ body[j] = "tail"

(* An answer is passed on once its event is over, with nothing of the events    *)
(* before: by Code Assist when its data lines are an answer with text, by the  *)
(* compatible adapter whatever it is, by Gemini line by line.                  *)
Expected ==
  LET Data(event) == {i \in event : body[i] \in DataLines}
  IN  CASE kind = "compatible" ->
             {Event(b) : b \in {b \in Blanks : Over(b) \/ outcome = "streamed"}} \ {{}}
        [] kind = "gemini" -> {{i} : i \in {i \in DOMAIN body : body[i] = "text"}}
        [] kind = "code_assist" ->
             {d \in {Data(Event(b)) : b \in {b \in Blanks : Over(b)}} : IsAnswer(d)}
        [] OTHER -> {}

Payload == {i \in DOMAIN out : out[i].what \in {"text", "event"}}

AnswersDelivered ==
  /\ {ToSet(out[i].lines) : i \in Payload} = Expected
  /\ \A i, j \in Payload : i < j =>
       \A a \in ToSet(out[i].lines), b \in ToSet(out[j].lines) : a < b

(* A stream that the adapter ends itself has said its role once, first, and      *)
(* some text before the end, so that the gateway never takes an empty answer   *)
(* for a good one.                                                            *)
EndsAfterText ==
  kind \in {"gemini", "code_assist"} /\ outcome = "streamed" =>
    /\ out[1].what = "role" /\ out[2].what = "text"
    /\ \A i \in DOMAIN out \ {1} : out[i].what # "role"
    /\ \A i \in DOMAIN out : out[i].what = "end" <=> i = Len(out)
=============================================================================
