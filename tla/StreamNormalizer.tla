---------------------------- MODULE StreamNormalizer ----------------------------
(***************************************************************************)
(* normalize_openai_stream: the async generator between a provider's SSE     *)
(* stream and the client.  It holds back what carries no content, so that    *)
(* the router can still switch to another candidate, and commits once the     *)
(* first content or tool call has arrived.                                    *)
(*                                                                           *)
(* The source is a sequence of events.  A raw chunk completes some number of  *)
(* them: one, as every adapter of the repository frames it; several or none   *)
(* (a fragment of the next event) in the byte streams the generator is        *)
(* written for.                                                               *)
(***************************************************************************)
EXTENDS SequencesExt

CONSTANTS
  Streams,        \* what providers may send
  Batches,        \* how many events a raw chunk may complete
  MaxFragments    \* bound on the chunks that complete none

(* "role" carries the assistant role only, "role_content" the role and        *)
(* content; "content" stands for content and tool calls alike.  "other" is    *)
(* every event without either: finish_reason and usage chunks, comments,      *)
(* events that are not JSON.                                                  *)
Event == {"role", "content", "role_content", "other", "DONE"}

HasRole(e) == e \in {"role", "role_content"}
HasContent(e) == e \in {"content", "role_content"}

ASSUME StreamAssumption ==
  /\ Streams \subseteq Seq(Event)
  /\ Batches \subseteq Nat
  /\ MaxFragments \in Nat

(* What is held back or sent on: the event at some place of the source, the   *)
(* raw text of a fragment, or the role chunk the generator makes up.          *)
Item == [event : Event \cup {"fragment"}, at : Nat]

Made == [event |-> "role", at |-> 0]

VARIABLES
  source,       \* the provider's stream
  read,         \* how many of its events have been received in full
  todo,         \* how many of those are still to be looked at
  pending,      \* the items held back
  roleSeen,     \* role_seen
  contentSeen,  \* meaningful_seen
  out,          \* what the client has been sent
  fragments,    \* how many fragments there were
  pc            \* "reading", or how the generator ended

vars == <<source, read, todo, pending, roleSeen, contentSeen, out, fragments, pc>>

TypeOK ==
  /\ source \in Streams
  /\ read \in 0 .. Len(source)
  /\ todo \in 0 .. read
  /\ pending \in Seq(Item)
  /\ roleSeen \in BOOLEAN
  /\ contentSeen \in BOOLEAN
  /\ out \in Seq(Item)
  /\ fragments \in 0 .. MaxFragments
  /\ pc \in {"reading", "ended", "malformed", "broken"}

Init ==
  /\ source \in Streams
  /\ read = 0
  /\ todo = 0
  /\ pending = <<>>
  /\ roleSeen = FALSE
  /\ contentSeen = FALSE
  /\ out = <<>>
  /\ fragments = 0
  /\ pc = "reading"

Waiting == pc = "reading" /\ todo = 0
Working == pc = "reading" /\ todo > 0

-----------------------------------------------------------------------------
(* A raw chunk without the end of an event is held back as it is. *)
ReceiveFragment ==
  /\ Waiting
  /\ 0 \in Batches
  /\ fragments < MaxFragments
  /\ fragments' = fragments + 1
  /\ pending' = Append(pending, [event |-> "fragment", at |-> read + 1])
  /\ UNCHANGED <<source, read, todo, roleSeen, contentSeen, out, pc>>

ReceiveEvents_KeepsCount(n) ==
  /\ Waiting
  /\ n > 0 /\ read + n <= Len(source)
  /\ read' = read + 1
  /\ todo' = n
  /\ pending' = <<>>
  /\ UNCHANGED <<source, roleSeen, contentSeen, out, fragments, pc>>

(* One with the ends of n > 0 events: whatever was held back is let go, the   *)
(* fragments because the buffer holds their text.                             *)
ReceiveEvents(n) ==
  /\ Waiting
  /\ n > 0 /\ read + n <= Len(source)
  /\ read' = read + n
  /\ todo' = n
  /\ pending' = <<>>
  /\ UNCHANGED <<source, roleSeen, contentSeen, out, fragments, pc>>

Current_Newest == [event |-> source[read], at |-> read]

(* The next event of the chunk. *)
Current == LET i == read - todo + 1 IN [event |-> source[i], at |-> i]

PassDone_Unchecked ==
  /\ Working
  /\ Current.event = "DONE"
  /\ out' = Append(out, Current)
  /\ todo' = todo - 1
  /\ UNCHANGED <<source, read, pending, roleSeen, contentSeen, fragments, pc>>

PassDone ==
  /\ Working
  /\ Current.event = "DONE"
  /\ IF contentSeen
     THEN /\ out' = Append(out, Current)
          /\ todo' = todo - 1
          /\ UNCHANGED pc
     ELSE /\ pc' = "malformed"
          /\ UNCHANGED <<out, todo>>
  /\ UNCHANGED <<source, read, pending, roleSeen, contentSeen, fragments>>

HoldBack_SendsOn ==
  /\ Working
  /\ Current.event # "DONE"
  /\ out' = Append(out, Current)
  /\ roleSeen' = (roleSeen \/ HasRole(Current.event))
  /\ todo' = todo - 1
  /\ UNCHANGED <<source, read, pending, contentSeen, fragments, pc>>

HoldBack ==
  /\ Working
  /\ Current.event # "DONE" /\ ~ HasContent(Current.event)
  /\ pending' = Append(pending, Current)
  /\ roleSeen' = (roleSeen \/ HasRole(Current.event))
  /\ todo' = todo - 1
  /\ UNCHANGED <<source, read, contentSeen, out, fragments, pc>>

SendContent_ForgetsOwnRole ==
  /\ Working
  /\ HasContent(Current.event)
  /\ out' = out \o (IF roleSeen THEN <<>> ELSE <<Made>>) \o Append(pending, Current)
  /\ pending' = <<>>
  /\ roleSeen' = TRUE
  /\ contentSeen' = TRUE
  /\ todo' = todo - 1
  /\ UNCHANGED <<source, read, fragments, pc>>

(* The first content commits: the role if nobody gave one, what was held back *)
(* of this chunk, and the content itself.                                     *)
SendContent ==
  /\ Working
  /\ HasContent(Current.event)
  /\ LET role == IF roleSeen \/ HasRole(Current.event) THEN <<>> ELSE <<Made>>
     IN  out' = out \o role \o Append(pending, Current)
  /\ pending' = <<>>
  /\ roleSeen' = TRUE
  /\ contentSeen' = TRUE
  /\ todo' = todo - 1
  /\ UNCHANGED <<source, read, fragments, pc>>

(* The source is exhausted. *)
End ==
  /\ Waiting
  /\ read = Len(source)
  /\ IF contentSeen THEN pc' = "ended" /\ out' = out \o pending
                    ELSE pc' = "malformed" /\ UNCHANGED out
  /\ pending' = <<>>
  /\ UNCHANGED <<source, read, todo, roleSeen, contentSeen, fragments>>

(* The connection to the provider breaks, or the client's does. *)
Break ==
  /\ pc = "reading"
  /\ pc' = "broken"
  /\ UNCHANGED <<source, read, todo, pending, roleSeen, contentSeen, out, fragments>>

Next ==
  \/ ReceiveFragment
  \/ \E n \in Batches : ReceiveEvents(n)
  \/ PassDone
  \/ HoldBack
  \/ SendContent
  \/ End
  \/ Break

Spec == Init /\ [][Next]_vars

-----------------------------------------------------------------------------
(* The stream is committed by content and by nothing else: before any content *)
(* the client has been sent nothing, so that the router may still go to the   *)
(* next candidate; once the client has something, the stream is never         *)
(* declared malformed; and a stream that ends well has sent something.        *)
Seen == {i \in 1 .. (read - todo) : HasContent(source[i])}

CommitsOnContent ==
  /\ out # <<>> => Seen # {}
  /\ pc = "malformed" => out = <<>> /\ Seen = {}
  /\ pc = "ended" => out # <<>>

(* No content is lost, repeated or reordered, however the provider cuts its   *)
(* stream into chunks and wherever it breaks: the content events received are *)
(* the content events sent.                                                   *)
ContentDelivered ==
  LET sent == {i \in DOMAIN out : HasContent(out[i].event)}
  IN  /\ {out[i].at : i \in sent} = Seen
      /\ \A i, j \in sent : i < j => out[i].at < out[j].at

(* The generator makes a role up at most once, before everything else, and    *)
(* only when the provider had not given one by the first content.             *)
RoleMadeIfMissing ==
  \A i \in DOMAIN out :
    out[i] = Made =>
      /\ i = 1
      /\ Seen # {}
      /\ \A k \in 1 .. Len(source) :
           HasRole(source[k]) => \E j \in Seen : j < k

(* The client learns the role before, or with, the first content. *)
RoleBeforeContent ==
  \A i \in DOMAIN out :
    HasContent(out[i].event) => \E j \in 1 .. i : HasRole(out[j].event)
=============================================================================
