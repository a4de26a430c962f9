------------------------ MODULE StreamNormalizer_proofs ------------------------
(***************************************************************************)
(* Proofs about StreamNormalizer, for streams of any length cut into chunks   *)
(* in any way.                                                               *)
(*                                                                           *)
(* CommitsOnContent is inductive once the flag meaningful_seen is tied to    *)
(* the events looked at and to what has been sent (Commitment).               *)
(* ContentDelivered and RoleMadeIfMissing need besides that what is held back  *)
(* has neither content nor a role made up, and what role_seen tells (Delivery).*)
(***************************************************************************)
EXTENDS StreamNormalizer, SequenceTheorems, TLAPS

(* The event being looked at is one of the source, after those looked at.     *)
LEMMA CurrentEvent ==
  ASSUME TypeOK, Working
  PROVE  /\ read - todo + 1 \in 1 .. Len(source)
         /\ Current = [event |-> source[read - todo + 1], at |-> read - todo + 1]
         /\ Current \in Item
         /\ 1 .. (read - (todo - 1)) = (1 .. (read - todo)) \cup {read - todo + 1}
<1>1. /\ source \in Seq(Event) /\ Len(source) \in Nat
      /\ read \in 0 .. Len(source) /\ todo \in 1 .. read
  BY StreamAssumption DEF TypeOK, Working
<1>2. read - todo + 1 \in 1 .. Len(source)
  BY <1>1
<1>3. Current = [event |-> source[read - todo + 1], at |-> read - todo + 1]
  BY DEF Current
<1>4. source[read - todo + 1] \in Event
  BY <1>1, <1>2
<1>5. Current \in Item
  BY <1>1, <1>3, <1>4 DEF Item
<1> QED
  BY <1>1, <1>2, <1>3, <1>5

-----------------------------------------------------------------------------
(* Type correctness *)

(* The generator starts well formed. *)
LEMMA InitTypeOK == Init => TypeOK
<1> SUFFICES ASSUME Init PROVE TypeOK
  OBVIOUS
<1>1. source \in Streams /\ source \in Seq(Event)
  BY StreamAssumption DEF Init
<1>2. Len(source) \in Nat
  BY <1>1
<1>3. source \in Streams /\ read \in 0 .. Len(source) /\ todo \in 0 .. read
  BY <1>1, <1>2 DEF Init
<1>4. pending \in Seq(Item) /\ out \in Seq(Item)
  BY DEF Init
<1>5. fragments \in 0 .. MaxFragments
  BY StreamAssumption DEF Init
<1> QED
  BY <1>3, <1>4, <1>5 DEF Init, TypeOK

(* No step of the generator leaves its state ill formed.                      *)
LEMMA NextTypeOK == TypeOK /\ [Next]_vars => TypeOK'
<1> SUFFICES ASSUME TypeOK, [Next]_vars PROVE TypeOK'
  OBVIOUS
<1>a. /\ Len(source) \in Nat /\ read \in 0 .. Len(source) /\ todo \in 0 .. read
      /\ pending \in Seq(Item) /\ out \in Seq(Item) /\ <<>> \in Seq(Item)
      /\ MaxFragments \in Nat
  BY StreamAssumption DEF TypeOK
<1>b. Made \in Item
  BY DEF Made, Item, Event
<1>1. CASE ReceiveFragment
  <2>1. [event |-> "fragment", at |-> read + 1] \in Item
    BY <1>a DEF Item
  <2>2. pending' \in Seq(Item)
    BY <1>1, <1>a, <2>1 DEF ReceiveFragment
  <2> QED
    BY <1>1, <1>a, <2>2 DEF ReceiveFragment, TypeOK
<1>2. ASSUME NEW n \in Batches, ReceiveEvents(n) PROVE TypeOK'
  BY <1>2, <1>a, StreamAssumption DEF ReceiveEvents, TypeOK
<1>3. CASE PassDone
  <2>1. Current \in Item /\ todo \in 1 .. read
    BY <1>3, <1>a, CurrentEvent DEF PassDone, Working
  <2>2. Append(out, Current) \in Seq(Item)
    BY <1>a, <2>1
  <2>3. todo - 1 \in 0 .. read
    BY <1>a, <2>1
  <2> QED
    BY <1>3, <1>a, <2>2, <2>3 DEF PassDone, TypeOK
<1>4. CASE HoldBack
  BY <1>4, <1>a, CurrentEvent DEF HoldBack, Working, TypeOK, HasRole
<1>5. CASE SendContent
  <2> DEFINE role == IF roleSeen \/ HasRole(Current.event) THEN <<>> ELSE <<Made>>
  <2>1. role \in Seq(Item)
    BY <1>a, <1>b
  <2>2. Append(pending, Current) \in Seq(Item)
    BY <1>5, <1>a, CurrentEvent DEF SendContent
  <2>3. out' = out \o role \o Append(pending, Current)
    BY <1>5 DEF SendContent
  <2> HIDE DEF role
  <2>4. out' \in Seq(Item)
    BY <1>a, <2>1, <2>2, <2>3
  <2> QED
    BY <1>5, <1>a, <2>4 DEF SendContent, Working, TypeOK
<1>6. CASE End
  <2>1. out \o pending \in Seq(Item)
    BY <1>a
  <2>2. out' \in Seq(Item)
    BY <1>6, <1>a, <2>1 DEF End
  <2> QED
    BY <1>6, <1>a, <2>2 DEF End, TypeOK
<1>7. CASE Break
  BY <1>7 DEF Break, TypeOK
<1>8. CASE UNCHANGED vars
  BY <1>8 DEF vars, TypeOK
<1> QED
  BY <1>1, <1>2, <1>3, <1>4, <1>5, <1>6, <1>7, <1>8 DEF Next

(* Every reachable state of the generator is well formed.                     *)
THEOREM TypeCorrect == Spec => []TypeOK
BY InitTypeOK, NextTypeOK, PTL DEF Spec

-----------------------------------------------------------------------------
(* Commitment *)

Commitment ==
  /\ contentSeen <=> Seen # {}
  /\ contentSeen <=> out # <<>>
  /\ pc = "malformed" => ~ contentSeen
  /\ pc = "ended" => contentSeen

(* Looking at the next event adds it to those seen exactly if it has content. *)
LEMMA SeenNext ==
  ASSUME TypeOK, Working, source' = source, read' = read, todo' = todo - 1
  PROVE  Seen' = IF HasContent(Current.event) THEN Seen \cup {read - todo + 1} ELSE Seen
<1> DEFINE i == read - todo + 1
<1>1. /\ i \in 1 .. Len(source)
      /\ Current.event = source[i]
      /\ 1 .. (read' - todo') = (1 .. (read - todo)) \cup {i}
  BY CurrentEvent
<1>2. \A j : HasContent(source[j])' <=> HasContent(source[j])
  BY DEF HasContent
<1> HIDE DEF i
<1>3. Seen' = {j \in (1 .. (read - todo)) \cup {i} : HasContent(source[j])}
  BY <1>1, <1>2 DEF Seen, HasContent
<1>4. CASE HasContent(source[i])
  BY <1>1, <1>3, <1>4 DEF Seen, i
<1>5. CASE ~ HasContent(source[i])
  BY <1>1, <1>3, <1>5 DEF Seen
<1> QED
  BY <1>1, <1>4, <1>5

(* No step sends before content, or forgets that it has sent.                 *)
LEMMA NextCommitment == TypeOK /\ Commitment /\ [Next]_vars => Commitment'
<1> SUFFICES ASSUME TypeOK, Commitment, [Next]_vars PROVE Commitment'
  OBVIOUS
<1> USE DEF Commitment
<1>a. /\ read \in Nat /\ todo \in Nat
      /\ pending \in Seq(Item) /\ out \in Seq(Item)
  BY StreamAssumption DEF TypeOK
<1>1. CASE ReceiveFragment
  BY <1>1 DEF ReceiveFragment, Seen
<1>2. ASSUME NEW n \in Batches, ReceiveEvents(n) PROVE Commitment'
  <2>1. n \in Nat /\ todo = 0 /\ read' = read + n /\ todo' = n
    BY <1>2, StreamAssumption DEF ReceiveEvents, Waiting
  <2>2. read' - todo' = read - todo
    BY <1>a, <2>1
  <2> QED
    BY <1>2, <2>2 DEF ReceiveEvents, Seen
<1>3. CASE PassDone
  <2>1. CASE contentSeen
    <3>1. Seen' = Seen
      BY <1>3, <2>1, SeenNext DEF PassDone, HasContent
    <3>2. out' # <<>>
      BY <1>3, <1>a, <2>1, CurrentEvent DEF PassDone
    <3> QED
      BY <1>3, <2>1, <3>1, <3>2 DEF PassDone
  <2>2. CASE ~ contentSeen
    BY <1>3, <2>2 DEF PassDone, Seen
  <2> QED
    BY <2>1, <2>2
<1>4. CASE HoldBack
  <2>1. Seen' = Seen
    BY <1>4, SeenNext DEF HoldBack
  <2> QED
    BY <1>4, <2>1 DEF HoldBack
<1>5. CASE SendContent
  <2>1. Seen' # {}
    BY <1>5, SeenNext DEF SendContent
  <2>2. out' # <<>>
    <3> DEFINE role == IF roleSeen \/ HasRole(Current.event) THEN <<>> ELSE <<Made>>
               sent == Append(pending, Current)
    <3>1. role \in Seq(Item)
      <4>1. Made \in Item
        BY DEF Made, Item, Event
      <4>2. <<>> \in Seq(Item) /\ <<Made>> \in Seq(Item)
        BY <4>1
      <4> QED
        BY <4>2
    <3>2. sent \in Seq(Item) /\ Len(sent) > 0
      BY <1>5, <1>a, CurrentEvent DEF SendContent
    <3>3. out' = out \o role \o sent
      BY <1>5 DEF SendContent
    <3> HIDE DEF role, sent
    <3> QED
      BY <1>a, <3>1, <3>2, <3>3
  <2> QED
    BY <1>5, <2>1, <2>2 DEF SendContent, Working
<1>6. CASE End
  <2>1. Seen' = Seen
    BY <1>6 DEF End, Seen
  <2>2. CASE contentSeen
    <3>1. out' # <<>>
      BY <1>6, <1>a, <2>2 DEF End
    <3> QED
      BY <1>6, <2>1, <2>2, <3>1 DEF End
  <2>3. CASE ~ contentSeen
    BY <1>6, <2>1, <2>3 DEF End
  <2> QED
    BY <2>2, <2>3
<1>7. CASE Break
  BY <1>7 DEF Break, Seen
<1>8. CASE UNCHANGED vars
  BY <1>8 DEF vars, Seen
<1> QED
  BY <1>1, <1>2, <1>3, <1>4, <1>5, <1>6, <1>7, <1>8 DEF Next

(* A stream is committed by content and by nothing else, whatever its length  *)
(* and its framing: the router never goes to another candidate after the      *)
(* client has been sent something, and no stream ends well without having     *)
(* sent anything.                                                             *)
THEOREM AlwaysCommitsOnContent == Spec => []CommitsOnContent
<1>1. Init => TypeOK /\ Commitment
  <2>1. Init => Commitment
    BY DEF Init, Commitment, Seen
  <2> QED
    BY <2>1, InitTypeOK
<1>2. (TypeOK /\ Commitment) /\ [Next]_vars => (TypeOK /\ Commitment)'
  BY NextTypeOK, NextCommitment
<1>3. Commitment => CommitsOnContent
  BY DEF Commitment, CommitsOnContent
<1> QED
  BY <1>1, <1>2, <1>3, PTL DEF Spec

-----------------------------------------------------------------------------
(* Delivery *)

Sent == {i \in DOMAIN out : HasContent(out[i].event)}

(* The given item is an event of the source that has no content.              *)
Bare(x) == x.at > 0 /\ ~ HasContent(x.event)

(* What is held back has no content; the content sent is that of the events     *)
(* looked at, in their order; nothing looked at had a role while none was seen; *)
(* and a chunk of the generator's own is first, after content that came before *)
(* any role.                                                                  *)
Delivery ==
  /\ \A i \in DOMAIN pending : Bare(pending[i])
  /\ {out[i].at : i \in Sent} = Seen
  /\ \A i, j \in Sent : i < j => out[i].at < out[j].at
  /\ contentSeen => roleSeen
  /\ ~ roleSeen => \A k \in 1 .. (read - todo) : ~ HasRole(source[k])
  /\ \A i \in DOMAIN out :
       out[i] = Made =>
         /\ i = 1
         /\ Seen # {}
         /\ \A k \in 1 .. Len(source) : HasRole(source[k]) => \E j \in Seen : j < k

(* A place of a concatenation is a place of the one part or of the other.      *)
LEMMA Joined ==
  ASSUME NEW s \in Seq(Item), NEW w \in Seq(Item)
  PROVE  /\ s \o w \in Seq(Item)
         /\ DOMAIN s = 1 .. Len(s) /\ DOMAIN w = 1 .. Len(w)
         /\ Len(s) \in Nat /\ Len(w) \in Nat
         /\ DOMAIN (s \o w) = 1 .. Len(s) + Len(w)
         /\ \A i \in DOMAIN s : (s \o w)[i] = s[i]
         /\ \A i \in DOMAIN w : (s \o w)[Len(s) + i] = w[i]
         /\ \A i \in DOMAIN (s \o w) \ DOMAIN s :
              i - Len(s) \in DOMAIN w /\ (s \o w)[i] = w[i - Len(s)]
OBVIOUS

(* It does not matter which parts are joined first.                           *)
LEMMA JoinedThrice ==
  \A s, t, u \in Seq(Item) : (s \o t) \o u = s \o (t \o u)
BY ConcatAssociative

(* What has no content and was not made up may be sent on at any time.        *)
LEMMA SendBare ==
  ASSUME TypeOK, Delivery, NEW w \in Seq(Item),
         \A i \in DOMAIN w : Bare(w[i]),
         out' = out \o w, Seen' = Seen, source' = source
  PROVE  /\ {out'[i].at : i \in Sent'} = Seen'
         /\ \A i, j \in Sent' : i < j => out'[i].at < out'[j].at
         /\ \A i \in DOMAIN out' :
              out'[i] = Made =>
                /\ i = 1
                /\ Seen' # {}
                /\ \A k \in 1 .. Len(source) :
                     HasRole(source[k]) => \E j \in Seen' : j < k
<1>1. out \in Seq(Item)
  BY DEF TypeOK
<1>2. /\ \A i \in DOMAIN out : i \in DOMAIN out' /\ out'[i] = out[i]
      /\ \A i \in DOMAIN out' \ DOMAIN out : Bare(out'[i])
  BY <1>1, Joined
<1>3. Sent' = {i \in DOMAIN out' : HasContent(out'[i].event)}
  BY DEF Sent, HasContent
<1>4. Sent' = Sent /\ \A i \in Sent : out'[i] = out[i]
  BY <1>2, <1>3 DEF Sent, Bare
<1>5. \A i \in DOMAIN out' : out'[i] = Made => i \in DOMAIN out /\ out[i] = Made
  BY <1>2 DEF Bare, Made
<1>6. {out'[i].at : i \in Sent'} = {out[i].at : i \in Sent}
  BY <1>4
<1>7. {out'[i].at : i \in Sent'} = Seen'
  BY <1>6 DEF Delivery
<1>8. \A i, j \in Sent' : i < j => out'[i].at < out'[j].at
  BY <1>4 DEF Delivery
<1>9. \A i \in DOMAIN out :
        out[i] = Made =>
          /\ i = 1
          /\ Seen' # {}
          /\ \A k \in 1 .. Len(source) :
               HasRole(source[k]) => \E j \in Seen' : j < k
  BY DEF Delivery
<1> QED
  BY <1>5, <1>7, <1>8, <1>9

(* The generator starts with nothing sent and nothing looked at.              *)
LEMMA InitDelivery == Init => Delivery
<1> SUFFICES ASSUME Init PROVE Delivery
  OBVIOUS
<1>1. 1 .. (read - todo) = {}
  BY DEF Init
<1>2. Seen = {} /\ Sent = {}
  BY <1>1 DEF Init, Seen, Sent
<1> QED
  BY <1>1, <1>2 DEF Init, Delivery

(* Nothing is lost, repeated or reordered by a step, nor a role made up late. *)
LEMMA NextDelivery == TypeOK /\ Commitment /\ Delivery /\ [Next]_vars => Delivery'
<1> SUFFICES ASSUME TypeOK, Commitment, Delivery, [Next]_vars PROVE Delivery'
  OBVIOUS
<1>a. /\ source \in Seq(Event) /\ Len(source) \in Nat
      /\ read \in 0 .. Len(source) /\ todo \in 0 .. read
      /\ pending \in Seq(Item) /\ out \in Seq(Item) /\ <<>> \in Seq(Item)
  BY StreamAssumption DEF TypeOK
<1>s. source' = source
  BY DEF Next, vars, ReceiveFragment, ReceiveEvents, PassDone, HoldBack, SendContent,
         End, Break
<1>h. \A e : (HasContent(e)' <=> HasContent(e)) /\ (HasRole(e)' <=> HasRole(e))
  OBVIOUS
<1>q. \A x : Bare(x)' <=> Bare(x)
  OBVIOUS
<1>1. CASE ReceiveFragment
  <2>1. Bare([event |-> "fragment", at |-> read + 1])
    BY <1>a DEF Bare, HasContent
  <2>2. \A i \in DOMAIN pending' : Bare(pending'[i])
    BY <1>1, <1>a, <2>1 DEF ReceiveFragment, Delivery
  <2> QED
    BY <1>1, <2>2 DEF ReceiveFragment, Delivery, Seen, Sent, Bare
<1>2. ASSUME NEW n \in Batches, ReceiveEvents(n) PROVE Delivery'
  <2>1. n \in Nat /\ todo = 0 /\ read' = read + n /\ todo' = n
    BY <1>2, StreamAssumption DEF ReceiveEvents, Waiting
  <2>2. read' - todo' = read - todo
    BY <1>a, <2>1
  <2> QED
    BY <1>2, <2>2 DEF ReceiveEvents, Delivery, Seen, Sent
<1>3. CASE PassDone
  <2>1. CASE contentSeen
    <3>1. Seen' = Seen
      BY <1>3, <2>1, SeenNext DEF PassDone, HasContent
    <3>2. Current \in Item /\ Bare(Current) /\ out' = out \o <<Current>>
      BY <1>3, <1>a, <2>1, CurrentEvent DEF PassDone, Bare, HasContent
    <3>3. <<Current>> \in Seq(Item) /\ \A i \in DOMAIN <<Current>> : Bare(<<Current>>[i])
      BY <3>2
    <3>4. /\ {out'[i].at : i \in Sent'} = Seen'
          /\ \A i, j \in Sent' : i < j => out'[i].at < out'[j].at
          /\ \A i \in DOMAIN out' :
               out'[i] = Made =>
                 /\ i = 1
                 /\ Seen' # {}
                 /\ \A k \in 1 .. Len(source) :
                      HasRole(source[k]) => \E j \in Seen' : j < k
      BY <1>s, <3>1, <3>2, <3>3, SendBare
    <3> HIDE DEF Bare
    <3> QED
      BY <1>3, <1>s, <2>1, <3>4 DEF PassDone, Delivery, Bare
  <2>2. CASE ~ contentSeen
    BY <1>3, <2>2 DEF PassDone, Delivery, Seen, Sent
  <2> QED
    BY <2>1, <2>2
<1>4. CASE HoldBack
  <2>1. Seen' = Seen /\ Sent' = Sent
    BY <1>4, SeenNext DEF HoldBack, Sent
  <2>2. Current \in Item /\ Bare(Current)
    BY <1>4, <1>a, CurrentEvent DEF HoldBack, Bare
  <2>3. \A i \in DOMAIN pending' : Bare(pending'[i])
    BY <1>4, <1>a, <2>2 DEF HoldBack, Delivery
  <2>4. ~ roleSeen' => \A k \in 1 .. (read' - todo') : ~ HasRole(source[k])
    <3>1. /\ 1 .. (read' - todo') = (1 .. (read - todo)) \cup {read - todo + 1}
          /\ Current.event = source[read - todo + 1]
      BY <1>4, CurrentEvent DEF HoldBack
    <3>2. ~ roleSeen' => ~ roleSeen /\ ~ HasRole(Current.event)
      BY <1>4 DEF HoldBack
    <3> QED
      BY <3>1, <3>2 DEF Delivery
  <2> QED
    BY <1>4, <2>1, <2>3, <2>4 DEF HoldBack, Delivery
<1>5. CASE SendContent
  <2> DEFINE i0 == read - todo + 1
             role == IF roleSeen \/ HasRole(Current.event) THEN <<>> ELSE <<Made>>
             w == role \o Append(pending, Current)
  <2>1. /\ i0 \in 1 .. Len(source) /\ Current \in Item
        /\ Current.event = source[i0] /\ Current.at = i0
        /\ 1 .. (read' - todo') = (1 .. (read - todo)) \cup {i0}
    BY <1>5, CurrentEvent DEF SendContent
  <2>2. Seen' = Seen \cup {i0}
    BY <1>5, SeenNext DEF SendContent
  <2>3. Made \in Item /\ <<Made>> \in Seq(Item)
    BY DEF Made, Item, Event
  <2>4. role \in Seq(Item) /\ Append(pending, Current) \in Seq(Item)
    BY <1>a, <2>1, <2>3
  <2>5. out' = out \o w
    <3>1. out' = (out \o role) \o Append(pending, Current)
      BY <1>5 DEF SendContent
    <3> HIDE DEF role
    <3> QED
      <4>1. (out \o role) \o Append(pending, Current) = out \o (role \o Append(pending, Current))
        BY <1>a, <2>4, JoinedThrice
      <4> QED
        BY <3>1, <4>1
  <2>6. w \in Seq(Item) /\ Len(w) \in Nat /\ Len(w) > 0 /\ w[Len(w)] = Current
    BY <1>a, <2>1, <2>4
  <2>7. \A i \in 1 .. Len(w) - 1 : ~ HasContent(w[i].event)
    <3> TAKE i \in 1 .. Len(w) - 1
    <3>1. CASE role = <<>>
      BY <1>a, <2>1, <3>1 DEF Delivery, Bare
    <3>2. CASE role = <<Made>>
      <4>1. Len(w) = Len(pending) + 2 /\ w[1] = Made
        BY <1>a, <2>1, <2>3, <3>2
      <4>2. i # 1 => i - 1 \in DOMAIN pending /\ w[i] = pending[i - 1]
        BY <1>a, <2>1, <2>3, <3>2, <4>1
      <4> QED
        BY <4>1, <4>2 DEF Delivery, Bare, Made, HasContent
    <3> QED
      BY <3>1, <3>2
  <2>8. \A i \in 1 .. Len(w) : w[i] = Made =>
           i = 1 /\ ~ roleSeen /\ ~ HasRole(source[i0])
    <3> SUFFICES ASSUME NEW i \in 1 .. Len(w), w[i] = Made
                 PROVE  i = 1 /\ ~ roleSeen /\ ~ HasRole(source[i0])
      OBVIOUS
    <3>1. i # Len(w)
      BY <2>1, <2>6 DEF Made
    <3>2. CASE role = <<>>
      <4>1. w = Append(pending, Current)
        BY <1>a, <2>4, <3>2
      <4>2. i \in DOMAIN pending /\ w[i] = pending[i]
        BY <1>a, <2>1, <2>6, <3>1, <4>1
      <4> QED
        BY <4>2 DEF Delivery, Bare, Made
    <3>3. CASE roleSeen = FALSE /\ ~ HasRole(Current.event)
      <4>1. Len(w) = Len(pending) + 2
        BY <1>a, <2>1, <2>3, <3>3
      <4>2. i # 1 => i - 1 \in DOMAIN pending /\ w[i] = pending[i - 1]
        BY <1>a, <2>1, <2>3, <3>1, <3>3, <4>1
      <4> QED
        BY <2>1, <3>3, <4>2 DEF Delivery, Bare, Made
    <3> QED
      BY <3>2, <3>3 DEF TypeOK
  <2> HIDE DEF w, role
  <2>9. /\ \A i \in DOMAIN out : i \in DOMAIN out' /\ out'[i] = out[i]
        /\ DOMAIN out' = 1 .. Len(out) + Len(w) /\ DOMAIN out = 1 .. Len(out)
        /\ Len(out) \in Nat
        /\ \A i \in DOMAIN out' \ DOMAIN out :
             i - Len(out) \in 1 .. Len(w) /\ out'[i] = w[i - Len(out)]
    BY <1>a, <2>5, <2>6, Joined
  <2> DEFINE last == Len(out) + Len(w)
  <2>10. last \in DOMAIN out' /\ last \notin DOMAIN out /\ out'[last] = Current
    <3>1. last \in DOMAIN out' \ DOMAIN out /\ last - Len(out) = Len(w)
      BY <2>6, <2>9
    <3> QED
      BY <2>6, <2>9, <3>1
  <2>11. \A i \in DOMAIN out' \ DOMAIN out : i # last => ~ HasContent(out'[i].event)
    <3> SUFFICES ASSUME NEW i \in DOMAIN out' \ DOMAIN out, i # last
                 PROVE  ~ HasContent(out'[i].event)
      OBVIOUS
    <3>1. i - Len(out) \in 1 .. Len(w) - 1
      BY <2>6, <2>9
    <3> QED
      BY <2>7, <2>9, <3>1
  <2>12. HasContent(Current.event)
    BY <1>5 DEF SendContent
  <2>13. Sent' = {i \in DOMAIN out' : HasContent(out'[i].event)}
    BY DEF Sent, HasContent
  <2> HIDE DEF last
  <2>14. Sent' = Sent \cup {last} /\ \A i \in Sent : out'[i] = out[i] /\ i \in DOMAIN out
    BY <2>9, <2>10, <2>11, <2>12, <2>13 DEF Sent
  <2>15. {out'[i].at : i \in Sent'} = Seen'
    BY <2>1, <2>2, <2>10, <2>14 DEF Delivery
  <2>16. \A i, j \in Sent' : i < j => out'[i].at < out'[j].at
    <3> SUFFICES ASSUME NEW i \in Sent', NEW j \in Sent', i < j
                 PROVE  out'[i].at < out'[j].at
      OBVIOUS
    <3>1. i # last
      BY <2>6, <2>9, <2>10, <2>14 DEF last
    <3>2. CASE j # last
      BY <2>14, <3>1, <3>2 DEF Delivery
    <3>3. CASE j = last
      <4>1. out[i].at \in Seen /\ out'[i] = out[i]
        BY <2>14, <3>1 DEF Delivery
      <4>2. out[i].at < i0
        BY <1>a, <4>1 DEF Seen
      <4> QED
        BY <2>1, <2>10, <3>3, <4>1, <4>2
    <3> QED
      BY <3>2, <3>3
  <2>17. \A i \in DOMAIN out' :
           out'[i] = Made =>
             /\ i = 1
             /\ Seen' # {}
             /\ \A k \in 1 .. Len(source) : HasRole(source[k]) => \E j \in Seen' : j < k
    <3> SUFFICES ASSUME NEW i \in DOMAIN out', out'[i] = Made
                 PROVE  /\ i = 1
                        /\ \A k \in 1 .. Len(source) :
                             HasRole(source[k]) => \E j \in Seen' : j < k
      BY <2>2
    <3>1. CASE i \in DOMAIN out
      BY <2>2, <2>9, <3>1 DEF Delivery
    <3>2. CASE i \notin DOMAIN out
      <4>1. i - Len(out) = 1 /\ ~ roleSeen /\ ~ HasRole(source[i0])
        BY <2>8, <2>9, <3>2
      <4>2. out = <<>>
        BY <4>1 DEF Delivery, Commitment
      <4>3. \A k \in 1 .. (read' - todo') : ~ HasRole(source[k])
        BY <2>1, <4>1 DEF Delivery
      <4>4. read' - todo' = i0
        BY <1>5, <1>a DEF SendContent, Working
      <4>5. \A k \in 1 .. Len(source) : HasRole(source[k]) => i0 < k
        BY <1>a, <2>1, <4>3, <4>4
      <4> QED
        BY <2>2, <2>9, <4>1, <4>2, <4>5
    <3> QED
      BY <3>1, <3>2
  <2>18. pending' = <<>> /\ roleSeen' = TRUE /\ contentSeen' = TRUE
    BY <1>5 DEF SendContent
  <2> QED
    BY <1>s, <2>15, <2>16, <2>17, <2>18 DEF Delivery
<1>6. CASE End
  <2>1. Seen' = Seen
    BY <1>6 DEF End, Seen
  <2>2. CASE contentSeen
    <3>1. out' = out \o pending /\ \A i \in DOMAIN pending : Bare(pending[i])
      BY <1>6, <2>2 DEF End, Delivery
    <3>2. /\ {out'[i].at : i \in Sent'} = Seen'
          /\ \A i, j \in Sent' : i < j => out'[i].at < out'[j].at
          /\ \A i \in DOMAIN out' :
               out'[i] = Made =>
                 /\ i = 1
                 /\ Seen' # {}
                 /\ \A k \in 1 .. Len(source) :
                      HasRole(source[k]) => \E j \in Seen' : j < k
      BY <1>a, <1>s, <2>1, <3>1, SendBare
    <3> QED
      BY <1>6, <1>s, <2>1, <3>2 DEF End, Delivery
  <2>3. CASE ~ contentSeen
    <3>1. out' = out /\ Sent' = Sent
      BY <1>6, <2>3 DEF End, Sent
    <3> QED
      BY <1>6, <1>s, <2>1, <3>1 DEF End, Delivery
  <2> QED
    BY <2>2, <2>3
<1>7. CASE Break
  BY <1>7 DEF Break, Delivery, Seen, Sent
<1>8. CASE UNCHANGED vars
  BY <1>8 DEF vars, Delivery, Seen, Sent
<1> QED
  BY <1>1, <1>2, <1>3, <1>4, <1>5, <1>6, <1>7, <1>8 DEF Next

(* The invariant of the generator: well formed, committed by content, and     *)
(* everything delivered.                                                      *)
LEMMA Delivers == Spec => [](TypeOK /\ Commitment /\ Delivery)
<1>1. Init => TypeOK /\ Commitment /\ Delivery
  <2>1. Init => Commitment
    BY DEF Init, Commitment, Seen
  <2> QED
    BY <2>1, InitTypeOK, InitDelivery
<1>2. (TypeOK /\ Commitment /\ Delivery) /\ [Next]_vars
        => (TypeOK /\ Commitment /\ Delivery)'
  BY NextTypeOK, NextCommitment, NextDelivery
<1> QED
  BY <1>1, <1>2, PTL DEF Spec

(* No content event of a stream of any length, cut into chunks in any way and *)
(* broken anywhere, is lost, sent twice or sent out of order.                 *)
THEOREM AlwaysContentDelivered == Spec => []ContentDelivered
<1>1. Delivery => ContentDelivered
  BY DEF Delivery, ContentDelivered, Sent
<1> QED
  BY <1>1, Delivers, PTL

(* The generator never makes up a role twice, after anything else it has sent, *)
(* or where the provider had given one by the first content.                  *)
THEOREM AlwaysRoleMadeIfMissing == Spec => []RoleMadeIfMissing
<1>1. Delivery => RoleMadeIfMissing
  BY DEF Delivery, RoleMadeIfMissing
<1> QED
  BY <1>1, Delivers, PTL
=============================================================================
