------------------------ MODULE ProviderAdapters_proofs ------------------------
(***************************************************************************)
(* Theorems about the stream parsers, for answers of any length.              *)
(*                                                                           *)
(* AnswersDelivered compares what was handed on with all of the body at once.  *)
(* What a parser knows is less: the lines since the last blank one.  Collected *)
(* says that its buffer holds just these, and that everything handed on is of  *)
(* the lines before.  LineTaken says what one more line makes of the events.   *)
(***************************************************************************)
EXTENDS ProviderAdapters, SequenceTheorems, TLAPS

-----------------------------------------------------------------------------
(* Events of a body *)

BlanksOf(s) == {0} \cup {i \in DOMAIN s : s[i] = "blank"}

EventOf(s, b) == {i \in DOMAIN s : b < i /\ \A m \in b + 1 .. i : s[m] # "blank"}

OverIn(s, b) == \E e \in BlanksOf(s) : b < e

(* The event under way begins after the last blank line. *)
Latest(s, l) == l \in BlanksOf(s) /\ ~ OverIn(s, l)

DataOf(s, event) == {i \in event : s[i] \in DataLines}

IsAnswerOf(s, lines) ==
  \/ \E i \in lines : lines = {i} /\ s[i] = "text"
  \/ \E i, j \in lines : lines = {i, j} /\ i < j /\ s[i] = "head" /\ s[j] = "tail"

EventsOver(s) == {EventOf(s, b) : b \in {b \in BlanksOf(s) : OverIn(s, b)}}

(* What a parser is to have handed on before the end of the body.             *)
Due(k, s) ==
  CASE k = "compatible" -> EventsOver(s) \ {{}}
    [] k = "gemini" -> {{i} : i \in {i \in DOMAIN s : s[i] = "text"}}
    [] k = "code_assist" -> {d \in {DataOf(s, e) : e \in EventsOver(s)} : IsAnswerOf(s, d)}
    [] OTHER -> {}

LEMMA BodyDomain ==
  ASSUME NEW s \in Seq(Lines)
  PROVE  /\ DOMAIN s = 1 .. Len(s) /\ Len(s) \in Nat
         /\ \A i \in 1 .. Len(s) : s[i] \in Lines
         /\ BlanksOf(s) \subseteq 0 .. Len(s)
BY DEF BlanksOf

(* One more line: a blank one ends the event under way and begins an empty one, *)
(* another belongs to the event under way.                                    *)
LEMMA LineTaken ==
  ASSUME NEW s \in Seq(Lines), NEW line \in Lines, NEW l, Latest(s, l)
  PROVE  LET t == Append(s, line)
             n == Len(s) + 1
         IN  /\ t \in Seq(Lines) /\ Len(t) = n /\ t[n] = line
             /\ \A i \in 1 .. Len(s) : t[i] = s[i]
             /\ n \notin EventOf(s, l)
             /\ \A b \in BlanksOf(s) : b # l => OverIn(s, b)
             /\ line # "blank" =>
                  /\ BlanksOf(t) = BlanksOf(s) /\ Latest(t, l)
                  /\ EventOf(t, l) = EventOf(s, l) \cup {n}
                  /\ \A b \in BlanksOf(s) : b # l => EventOf(t, b) = EventOf(s, b)
                  /\ \A b : OverIn(t, b) <=> OverIn(s, b)
             /\ line = "blank" =>
                  /\ BlanksOf(t) = BlanksOf(s) \cup {n} /\ Latest(t, n)
                  /\ EventOf(t, n) = {}
                  /\ \A b \in BlanksOf(s) : EventOf(t, b) = EventOf(s, b) /\ OverIn(t, b)
<1> DEFINE t == Append(s, line)
           n == Len(s) + 1
<1>1. /\ t \in Seq(Lines) /\ Len(t) = n /\ t[n] = line
      /\ \A i \in 1 .. Len(s) : t[i] = s[i]
      /\ DOMAIN t = 1 .. n /\ DOMAIN s = 1 .. Len(s) /\ Len(s) \in Nat
  OBVIOUS
<1> HIDE DEF t
<1>2. \A i : i \in 1 .. n <=> i \in 1 .. Len(s) \/ i = n
  BY <1>1
<1>3. BlanksOf(s) \subseteq 0 .. Len(s) /\ l \in 0 .. Len(s)
  BY BodyDomain DEF Latest
<1>4. \A b \in BlanksOf(s) : b # l => b < l
  BY <1>1, <1>3 DEF Latest, OverIn
<1>5. \A b \in BlanksOf(s) : b # l => OverIn(s, b)
  BY <1>4 DEF Latest, OverIn
<1>6. n \notin EventOf(s, l)
  BY <1>1 DEF EventOf
<1>7. \A i : i \in BlanksOf(t) <=> i \in BlanksOf(s) \/ (i = n /\ line = "blank")
  BY <1>1, <1>2 DEF BlanksOf
<1>8. ASSUME NEW b \in BlanksOf(s), NEW i \in 1 .. Len(s)
      PROVE  i \in EventOf(t, b) <=> i \in EventOf(s, b)
  <2>1. \A m \in b + 1 .. i : t[m] = s[m]
    BY <1>1, <1>3
  <2> QED
    BY <1>1, <1>2, <2>1 DEF EventOf
<1>9. ASSUME NEW b \in BlanksOf(s)
      PROVE  n \in EventOf(t, b) <=> line # "blank" /\ b = l
  <2>1. CASE line = "blank"
    <3>1. n \in b + 1 .. n
      BY <1>1, <1>3
    <3> QED
      BY <1>1, <2>1, <3>1 DEF EventOf
  <2>2. CASE b # l
    <3>1. l \in b + 1 .. n /\ l \in 1 .. Len(s) /\ s[l] = "blank"
      BY <1>1, <1>3, <1>4, <2>2 DEF Latest, BlanksOf
    <3>2. t[l] = "blank"
      BY <1>1, <3>1
    <3> QED
      BY <2>2, <3>1, <3>2 DEF EventOf
  <2>3. CASE line # "blank" /\ b = l
    <3>1. \A m \in l + 1 .. n : t[m] # "blank"
      <4> SUFFICES ASSUME NEW m \in l + 1 .. n PROVE t[m] # "blank"
        OBVIOUS
      <4>1. CASE m = n
        BY <1>1, <2>3, <4>1
      <4>2. CASE m # n
        <5>1. m \in 1 .. Len(s) /\ m > l
          BY <1>1, <1>3, <4>2
        <5>2. s[m] # "blank"
          BY <1>1, <5>1 DEF Latest, OverIn, BlanksOf
        <5> QED
          BY <1>1, <5>1, <5>2
      <4> QED
        BY <4>1, <4>2
    <3> QED
      BY <1>1, <1>2, <1>3, <2>3, <3>1 DEF EventOf
  <2> QED
    BY <2>1, <2>2, <2>3
<1>10. \A b : EventOf(t, b) \subseteq 1 .. n /\ EventOf(s, b) \subseteq 1 .. Len(s)
  BY <1>1 DEF EventOf
<1>11. ASSUME line # "blank"
       PROVE  /\ BlanksOf(t) = BlanksOf(s) /\ Latest(t, l)
              /\ EventOf(t, l) = EventOf(s, l) \cup {n}
              /\ \A b \in BlanksOf(s) : b # l => EventOf(t, b) = EventOf(s, b)
              /\ \A b : OverIn(t, b) <=> OverIn(s, b)
  <2>1. BlanksOf(t) = BlanksOf(s)
    BY <1>7, <1>11
  <2>2. \A b : OverIn(t, b) <=> OverIn(s, b)
    BY <2>1 DEF OverIn
  <2>3. Latest(t, l)
    BY <2>1, <2>2 DEF Latest
  <2>4. l \in BlanksOf(s)
    BY DEF Latest
  <2>5. \A i : i \in EventOf(t, l) <=> i \in EventOf(s, l) \/ i = n
    BY <1>2, <1>8, <1>9, <1>10, <1>11, <2>4
  <2>6. ASSUME NEW b \in BlanksOf(s), b # l PROVE EventOf(t, b) = EventOf(s, b)
    <3>1. \A i : i \in EventOf(t, b) <=> i \in EventOf(s, b)
      BY <1>2, <1>8, <1>9, <1>10, <2>6
    <3> QED
      BY <3>1
  <2> QED
    BY <2>1, <2>2, <2>3, <2>5, <2>6
<1>12. ASSUME line = "blank"
       PROVE  /\ BlanksOf(t) = BlanksOf(s) \cup {n} /\ Latest(t, n)
              /\ EventOf(t, n) = {}
              /\ \A b \in BlanksOf(s) : EventOf(t, b) = EventOf(s, b) /\ OverIn(t, b)
  <2>1. BlanksOf(t) = BlanksOf(s) \cup {n}
    BY <1>7, <1>12
  <2>2. Latest(t, n)
    BY <1>1, <1>3, <2>1 DEF Latest, OverIn
  <2>3. EventOf(t, n) = {}
    BY <1>1, <1>10 DEF EventOf
  <2>4. \A b \in BlanksOf(s) : OverIn(t, b)
    BY <1>1, <1>3, <2>1 DEF OverIn
  <2>5. ASSUME NEW b \in BlanksOf(s) PROVE EventOf(t, b) = EventOf(s, b)
    <3>1. \A i : i \in EventOf(t, b) <=> i \in EventOf(s, b)
      BY <1>1, <1>2, <1>8, <1>9, <1>10, <1>12
    <3> QED
      BY <3>1
  <2> QED
    BY <2>1, <2>2, <2>3, <2>4, <2>5
<1> QED
  BY <1>1, <1>5, <1>6, <1>11, <1>12 DEF t

(* Hence a blank line, and no other, adds an event that is over.              *)
LEMMA EventsTaken ==
  ASSUME NEW s \in Seq(Lines), NEW line \in Lines, NEW l, Latest(s, l)
  PROVE  EventsOver(Append(s, line)) =
           EventsOver(s) \cup (IF line = "blank" THEN {EventOf(s, l)} ELSE {})
<1> DEFINE t == Append(s, line)
           n == Len(s) + 1
<1>1. l \in BlanksOf(s) /\ ~ OverIn(s, l)
  BY DEF Latest
<1>2. CASE line # "blank"
  <2>1. /\ BlanksOf(t) = BlanksOf(s)
        /\ \A b \in BlanksOf(s) : b # l => EventOf(t, b) = EventOf(s, b)
        /\ \A b : OverIn(t, b) <=> OverIn(s, b)
    BY <1>2, LineTaken
  <2> HIDE DEF t
  <2>2. \A e : e \in EventsOver(t) <=> e \in EventsOver(s)
    BY <1>1, <2>1 DEF EventsOver
  <2> QED
    BY <1>2, <2>2 DEF t
<1>3. CASE line = "blank"
  <2>1. /\ BlanksOf(t) = BlanksOf(s) \cup {n} /\ Latest(t, n)
        /\ \A b \in BlanksOf(s) : EventOf(t, b) = EventOf(s, b) /\ OverIn(t, b)
        /\ \A b \in BlanksOf(s) : b # l => OverIn(s, b)
    BY <1>3, LineTaken
  <2> HIDE DEF t, n
  <2>2. \A e : e \in EventsOver(t) <=> e \in EventsOver(s) \/ e = EventOf(s, l)
    BY <1>1, <2>1 DEF EventsOver, Latest
  <2> QED
    BY <1>3, <2>2 DEF t
<1> QED
  BY <1>2, <1>3

(* Everything that is over is before the last blank line. *)
LEMMA OverBefore ==
  ASSUME NEW s \in Seq(Lines), NEW l, Latest(s, l)
  PROVE  /\ \A e \in EventsOver(s) : \A i \in e : i \in 1 .. Len(s) /\ i <= l
         /\ \A i \in EventOf(s, l) : i \in 1 .. Len(s) /\ i > l
         /\ l \in 0 .. Len(s)
<1>1. /\ DOMAIN s = 1 .. Len(s) /\ Len(s) \in Nat
      /\ BlanksOf(s) \subseteq 0 .. Len(s) /\ l \in BlanksOf(s)
  BY BodyDomain DEF Latest
<1>2. ASSUME NEW b \in BlanksOf(s), OverIn(s, b), NEW i \in EventOf(s, b)
      PROVE  i \in 1 .. Len(s) /\ i <= l
  <2>1. i \in 1 .. Len(s) /\ b < i /\ \A m \in b + 1 .. i : s[m] # "blank"
    BY <1>1 DEF EventOf
  <2>2. ~ (i > l)
    <3> SUFFICES ASSUME i > l PROVE FALSE
      OBVIOUS
    <3>1. PICK e \in BlanksOf(s) : b < e
      BY <1>2 DEF OverIn
    <3>2. e <= l
      BY <1>1, <3>1 DEF Latest, OverIn
    <3>3. e \in b + 1 .. i /\ e \in 1 .. Len(s)
      BY <1>1, <2>1, <3>1, <3>2
    <3>4. s[e] = "blank"
      BY <3>3 DEF BlanksOf
    <3> QED
      BY <2>1, <3>3, <3>4
  <2> QED
    BY <1>1, <2>1, <2>2
<1>3. \A i \in EventOf(s, l) : i \in 1 .. Len(s) /\ i > l
  BY <1>1 DEF EventOf
<1> QED
  BY <1>1, <1>2, <1>3 DEF EventsOver

(* What an old line is does not change. *)
LEMMA AnswersTaken ==
  ASSUME NEW s \in Seq(Lines), NEW line \in Lines, NEW e \in SUBSET (1 .. Len(s))
  PROVE  /\ DataOf(Append(s, line), e) = DataOf(s, e)
         /\ IsAnswerOf(Append(s, line), e) <=> IsAnswerOf(s, e)
<1> DEFINE t == Append(s, line)
<1>1. \A i \in 1 .. Len(s) : t[i] = s[i]
  OBVIOUS
<1> HIDE DEF t
<1>2. DataOf(t, e) = DataOf(s, e)
  BY <1>1 DEF DataOf
<1>3. IsAnswerOf(t, e) <=> IsAnswerOf(s, e)
  BY <1>1 DEF IsAnswerOf
<1> QED
  BY <1>2, <1>3 DEF t

(* What is due after one more line. *)
LEMMA DueTaken ==
  ASSUME NEW s \in Seq(Lines), NEW line \in Lines, NEW l, Latest(s, l)
  PROVE  LET t == Append(s, line)
             e == EventOf(s, l)
             d == DataOf(s, e)
         IN  /\ Due("compatible", t) =
                  Due("compatible", s) \cup (IF line = "blank" /\ e # {} THEN {e} ELSE {})
             /\ Due("gemini", t) =
                  Due("gemini", s) \cup (IF line = "text" THEN {{Len(s) + 1}} ELSE {})
             /\ Due("code_assist", t) =
                  Due("code_assist", s)
                    \cup (IF line = "blank" /\ IsAnswerOf(s, d) THEN {d} ELSE {})
<1> DEFINE t == Append(s, line)
           n == Len(s) + 1
           e == EventOf(s, l)
           d == DataOf(s, e)
<1>1. EventsOver(t) = EventsOver(s) \cup (IF line = "blank" THEN {e} ELSE {})
  BY EventsTaken
<1>2. /\ \A x \in EventsOver(s) : x \in SUBSET (1 .. Len(s))
      /\ e \in SUBSET (1 .. Len(s))
  BY OverBefore
<1>3. \A x \in EventsOver(t) : /\ x \in SUBSET (1 .. Len(s))
                               /\ DataOf(t, x) = DataOf(s, x)
                               /\ DataOf(s, x) \in SUBSET (1 .. Len(s))
  <2>1. \A x \in EventsOver(t) : x \in SUBSET (1 .. Len(s))
    BY <1>1, <1>2
  <2>2. \A x \in SUBSET (1 .. Len(s)) : DataOf(t, x) = DataOf(s, x)
    BY AnswersTaken
  <2> QED
    BY <2>1, <2>2 DEF DataOf
<1>4. \A x \in SUBSET (1 .. Len(s)) : IsAnswerOf(t, x) <=> IsAnswerOf(s, x)
  BY AnswersTaken
<1>5. /\ DOMAIN s = 1 .. Len(s) /\ DOMAIN t = 1 .. n /\ Len(s) \in Nat
      /\ t[n] = line /\ \A i \in 1 .. Len(s) : t[i] = s[i]
  OBVIOUS
<1> HIDE DEF t, e, d
<1>6. Due("compatible", t) =
        Due("compatible", s) \cup (IF line = "blank" /\ e # {} THEN {e} ELSE {})
  BY <1>1 DEF Due
<1>7. Due("gemini", t) = Due("gemini", s) \cup (IF line = "text" THEN {{n}} ELSE {})
  <2>1. \A i : i \in DOMAIN t /\ t[i] = "text"
                 <=> (i \in DOMAIN s /\ s[i] = "text") \/ (i = n /\ line = "text")
    BY <1>5
  <2>2. \A x : x \in Due("gemini", t)
                 <=> x \in Due("gemini", s) \/ (x = {n} /\ line = "text")
    BY <2>1 DEF Due
  <2> QED
    BY <2>2
<1>8. Due("code_assist", t) =
        Due("code_assist", s) \cup (IF line = "blank" /\ IsAnswerOf(s, d) THEN {d} ELSE {})
  <2>1. \A x : x \in Due("code_assist", t)
                 <=> \E y \in EventsOver(t) : x = DataOf(s, y) /\ IsAnswerOf(s, x)
    <3>1. \A x : x \in Due("code_assist", t)
                   <=> \E y \in EventsOver(t) : x = DataOf(t, y) /\ IsAnswerOf(t, x)
      BY DEF Due
    <3> QED
      BY <1>3, <1>4, <3>1
  <2>2. \A x : x \in Due("code_assist", s)
                 <=> \E y \in EventsOver(s) : x = DataOf(s, y) /\ IsAnswerOf(s, x)
    BY DEF Due
  <2>3. \A x : x \in Due("code_assist", t)
                 <=> x \in Due("code_assist", s)
                     \/ (line = "blank" /\ x = DataOf(s, e) /\ IsAnswerOf(s, x))
    BY <1>1, <2>1, <2>2
  <2> QED
    BY <2>3 DEF d
<1> QED
  BY <1>6, <1>7, <1>8 DEF t, e, d

-----------------------------------------------------------------------------
(* Buffers *)

Increasing(b) == \A i, j \in 1 .. Len(b) : i < j => b[i] < b[j]

LEMMA BufferElements ==
  ASSUME NEW b \in Seq(Nat)
  PROVE  /\ DOMAIN b = 1 .. Len(b) /\ Len(b) \in Nat
         /\ ToSet(b) = {b[i] : i \in 1 .. Len(b)}
         /\ b = <<>> <=> ToSet(b) = {}
<1>1. DOMAIN b = 1 .. Len(b) /\ Len(b) \in Nat
  OBVIOUS
<1>2. ToSet(b) = {b[i] : i \in 1 .. Len(b)}
  BY <1>1 DEF ToSet
<1>3. b # <<>> => b[1] \in ToSet(b)
  BY <1>1, <1>2
<1>4. b = <<>> => ToSet(b) = {}
  BY <1>2
<1> QED
  BY <1>1, <1>2, <1>3, <1>4

LEMMA BufferTaken ==
  ASSUME NEW b \in Seq(Nat), Increasing(b), NEW n \in Nat, \A i \in ToSet(b) : i < n
  PROVE  /\ Append(b, n) \in Seq(Nat) /\ Increasing(Append(b, n))
         /\ ToSet(Append(b, n)) = ToSet(b) \cup {n}
<1> DEFINE c == Append(b, n)
<1>1. /\ c \in Seq(Nat) /\ Len(c) = Len(b) + 1 /\ c[Len(b) + 1] = n
      /\ \A i \in 1 .. Len(b) : c[i] = b[i]
  OBVIOUS
<1>2. Len(b) \in Nat /\ \A i \in 1 .. Len(b) : b[i] \in ToSet(b)
  BY BufferElements
<1> HIDE DEF c
<1>3. \A i : i \in 1 .. Len(c) <=> i \in 1 .. Len(b) \/ i = Len(b) + 1
  BY <1>1, <1>2
<1>4. Increasing(c)
  <2> SUFFICES ASSUME NEW i \in 1 .. Len(c), NEW j \in 1 .. Len(c), i < j PROVE c[i] < c[j]
    BY DEF Increasing
  <2>1. i \in 1 .. Len(b)
    BY <1>1, <1>2
  <2>2. CASE j \in 1 .. Len(b)
    BY <1>1, <2>1, <2>2 DEF Increasing
  <2>3. CASE j = Len(b) + 1
    BY <1>1, <1>2, <2>1, <2>3
  <2> QED
    BY <1>3, <2>2, <2>3
<1>5. \A x : x \in ToSet(c) <=> x \in ToSet(b) \/ x = n
  <2>1. \A x : x \in ToSet(c) <=> \E i \in 1 .. Len(c) : x = c[i]
    BY <1>1, BufferElements
  <2>2. \A x : x \in ToSet(b) <=> \E i \in 1 .. Len(b) : x = b[i]
    BY BufferElements
  <2>3. Len(b) + 1 \in 1 .. Len(c) /\ \A i \in 1 .. Len(b) : i \in 1 .. Len(c)
    BY <1>3
  <2> QED
    BY <1>1, <1>3, <2>1, <2>2, <2>3
<1> QED
  BY <1>1, <1>4, <1>5 DEF c

(* The parser's test of the buffer in its order is the reference's test of the *)
(* set of lines.                                                              *)
LEMMA TextIsAnswer ==
  ASSUME body \in Seq(Lines), NEW b \in Seq(Nat), Increasing(b)
  PROVE  HasText(b) <=> IsAnswerOf(body, ToSet(b))
<1>1. /\ DOMAIN b = 1 .. Len(b) /\ Len(b) \in Nat /\ ToSet(b) = {b[i] : i \in 1 .. Len(b)}
      /\ \A i \in 1 .. Len(b) : b[i] \in Nat
  BY BufferElements
<1>2. Kind(b) = [i \in 1 .. Len(b) |-> body[b[i]]]
  BY <1>1 DEF Kind
<1>3. ASSUME Kind(b) = <<"text">> PROVE IsAnswerOf(body, ToSet(b))
  <2>1. Len(b) = 1
    <3>1. DOMAIN Kind(b) = 1 .. Len(b)
      BY <1>2
    <3>2. DOMAIN <<"text">> = {1}
      OBVIOUS
    <3>3. 1 .. Len(b) = {1}
      BY <1>3, <3>1, <3>2
    <3>4. 1 \in 1 .. Len(b)
      BY <3>3
    <3>5. Len(b) \in 1 .. Len(b)
      BY <1>1, <3>4
    <3> QED
      BY <3>3, <3>5
  <2>2. body[b[1]] = "text"
    <3>1. Kind(b)[1] = "text" /\ Kind(b)[1] = body[b[1]]
      BY <1>2, <1>3, <2>1
    <3> QED
      BY <3>1
  <2>3. ToSet(b) = {b[1]}
    BY <1>1, <2>1
  <2> QED
    BY <2>2, <2>3 DEF IsAnswerOf
<1>4. ASSUME Kind(b) = <<"head", "tail">> PROVE IsAnswerOf(body, ToSet(b))
  <2>1. Len(b) = 2
    <3>1. DOMAIN Kind(b) = 1 .. Len(b)
      BY <1>2
    <3>2. DOMAIN <<"head", "tail">> = {1, 2}
      OBVIOUS
    <3>3. 1 .. Len(b) = {1, 2}
      BY <1>4, <3>1, <3>2
    <3>4. 2 \in 1 .. Len(b)
      BY <3>3
    <3>5. Len(b) \in Nat /\ Len(b) >= 2
      BY <1>1, <3>4
    <3>6. Len(b) \in 1 .. Len(b)
      BY <3>5
    <3>7. Len(b) = 1 \/ Len(b) = 2
      BY <3>3, <3>6
    <3>8. \A n \in Nat : n >= 2 /\ (n = 1 \/ n = 2) => n = 2
      OBVIOUS
    <3> QED
      BY <3>5, <3>7, <3>8
  <2>2. body[b[1]] = "head" /\ body[b[2]] = "tail"
    <3>1. /\ Kind(b)[1] = "head" /\ Kind(b)[1] = body[b[1]]
          /\ Kind(b)[2] = "tail" /\ Kind(b)[2] = body[b[2]]
      BY <1>2, <1>4, <2>1
    <3> QED
      BY <3>1
  <2>3. ToSet(b) = {b[1], b[2]} /\ b[1] < b[2]
    BY <1>1, <2>1 DEF Increasing
  <2> QED
    BY <2>2, <2>3 DEF IsAnswerOf
<1>5. ASSUME NEW i, ToSet(b) = {i}, body[i] = "text" PROVE Kind(b) = <<"text">>
  <2>0. \A x \in 1 .. Len(b) : b[x] = i
    BY <1>1, <1>5
  <2>1. Len(b) # 0
    <3>1. PICK x \in 1 .. Len(b) : b[x] = i
      BY <1>1, <1>5
    <3> QED
      BY <1>1, <3>1
  <2>2. ~ (Len(b) >= 2)
    <3> SUFFICES ASSUME Len(b) >= 2 PROVE FALSE
      OBVIOUS
    <3>1. 1 \in 1 .. Len(b) /\ 2 \in 1 .. Len(b)
      BY <1>1
    <3>2. b[1] = i /\ b[2] = i /\ b[1] \in Nat
      BY <1>1, <2>0, <3>1
    <3>3. b[1] < b[2]
      BY <3>1 DEF Increasing
    <3> QED
      BY <3>2, <3>3
  <2>3. Len(b) = 1 /\ b[1] = i
    BY <1>1, <2>0, <2>1, <2>2
  <2>4. Kind(b) = [x \in 1 .. 1 |-> "text"]
    BY <1>2, <1>5, <2>3
  <2> QED
    BY <2>4
<1>6. ASSUME NEW i, NEW j, ToSet(b) = {i, j}, i < j, i \in Nat, j \in Nat,
             body[i] = "head", body[j] = "tail"
      PROVE  Kind(b) = <<"head", "tail">>
  <2>1. \A x \in 1 .. Len(b) : b[x] = i \/ b[x] = j
    BY <1>1, <1>6
  <2>2. PICK x \in 1 .. Len(b) : b[x] = i
    BY <1>1, <1>6
  <2>3. PICK y \in 1 .. Len(b) : b[y] = j
    BY <1>1, <1>6
  <2>4. ~ (Len(b) >= 3)
    <3> SUFFICES ASSUME Len(b) >= 3 PROVE FALSE
      OBVIOUS
    <3>1. 1 \in 1 .. Len(b) /\ 2 \in 1 .. Len(b) /\ 3 \in 1 .. Len(b)
      BY <1>1
    <3>2. b[1] < b[2] /\ b[2] < b[3]
      BY <3>1 DEF Increasing
    <3>3. b[1] \in {i, j} /\ b[2] \in {i, j} /\ b[3] \in {i, j}
      BY <2>1, <3>1
    <3> QED
      BY <1>6, <3>2, <3>3
  <2>5. x # y
    BY <1>6, <2>2, <2>3
  <2>6. Len(b) = 2
    BY <1>1, <2>2, <2>3, <2>4, <2>5
  <2>7. b[1] = i /\ b[2] = j
    <3>1. b[1] < b[2]
      BY <2>6 DEF Increasing
    <3> QED
      BY <1>6, <2>1, <2>6, <3>1
  <2>8. Kind(b) = [z \in 1 .. 2 |-> IF z = 1 THEN "head" ELSE "tail"]
    BY <1>2, <1>6, <2>6, <2>7
  <2> QED
    BY <2>8
<1> QED
  <2>1. IsAnswerOf(body, ToSet(b)) => HasText(b)
    <3> SUFFICES ASSUME IsAnswerOf(body, ToSet(b)) PROVE HasText(b)
      OBVIOUS
    <3>1. CASE \E i \in ToSet(b) : ToSet(b) = {i} /\ body[i] = "text"
      BY <1>5, <3>1 DEF HasText
    <3>2. CASE \E i, j \in ToSet(b) :
                 ToSet(b) = {i, j} /\ i < j /\ body[i] = "head" /\ body[j] = "tail"
      <4>1. PICK i \in ToSet(b), j \in ToSet(b) :
              ToSet(b) = {i, j} /\ i < j /\ body[i] = "head" /\ body[j] = "tail"
        BY <3>2
      <4>2. i \in Nat /\ j \in Nat
        BY <1>1
      <4>3. Kind(b) = <<"head", "tail">>
        BY <1>6, <4>1, <4>2
      <4> QED
        BY <4>3 DEF HasText
    <3> QED
      BY <3>1, <3>2 DEF IsAnswerOf
  <2>2. HasText(b) => IsAnswerOf(body, ToSet(b))
    BY <1>3, <1>4 DEF HasText
  <2> QED
    BY <2>1, <2>2

-----------------------------------------------------------------------------
(* Chunks *)

Chunk == [what : {"role", "text", "event", "end"}, lines : Seq(Nat)]

PayloadOf(o) == {i \in DOMAIN o : o[i].what \in {"text", "event"}}

SentOf(o) == {ToSet(o[i].lines) : i \in PayloadOf(o)}

InOrder(o) ==
  \A i, j \in PayloadOf(o) : i < j =>
    \A a \in ToSet(o[i].lines), b \in ToSet(o[j].lines) : a < b

(* All that was sent is of the first n lines. *)
UpTo(o, n) == \A i \in PayloadOf(o) : \A a \in ToSet(o[i].lines) : a <= n

(* One more chunk of the body is of later lines. *)
LEMMA ChunkSent ==
  ASSUME NEW o \in Seq(Chunk), NEW c \in Chunk, c.what \in {"text", "event"}
  PROVE  /\ Append(o, c) \in Seq(Chunk)
         /\ SentOf(Append(o, c)) = SentOf(o) \cup {ToSet(c.lines)}
         /\ \A l \in Nat : InOrder(o) /\ UpTo(o, l) /\ (\A a \in ToSet(c.lines) : l < a)
                             => InOrder(Append(o, c))
         /\ \A n \in Nat : UpTo(o, n) /\ (\A a \in ToSet(c.lines) : a <= n) => UpTo(Append(o, c), n)
<1> DEFINE m == Len(o) + 1
           p == Append(o, c)
<1>1. /\ p \in Seq(Chunk) /\ Len(o) \in Nat /\ p[m] = c
      /\ DOMAIN p = 1 .. m /\ DOMAIN o = 1 .. Len(o)
      /\ \A i \in 1 .. Len(o) : p[i] = o[i] /\ i < m
  OBVIOUS
<1> HIDE DEF p
<1>2. \A i : i \in 1 .. m <=> i \in 1 .. Len(o) \/ i = m
  BY <1>1
<1>3. \A i : i \in PayloadOf(p) <=> i \in PayloadOf(o) \/ i = m
  BY <1>1, <1>2 DEF PayloadOf
<1>4. \A i \in PayloadOf(o) : p[i] = o[i] /\ i < m /\ i \in 1 .. Len(o)
  BY <1>1 DEF PayloadOf
<1>5. \A x : x \in SentOf(p) <=> x \in SentOf(o) \/ x = ToSet(c.lines)
  <2>1. \A x : x \in SentOf(p) <=> \E i \in PayloadOf(p) : x = ToSet(p[i].lines)
    BY DEF SentOf
  <2>2. \A x : x \in SentOf(o) <=> \E i \in PayloadOf(o) : x = ToSet(o[i].lines)
    BY DEF SentOf
  <2> HIDE DEF m
  <2> QED
    BY <1>1, <1>3, <1>4, <2>1, <2>2
<1>6. ASSUME NEW l \in Nat, InOrder(o), UpTo(o, l), \A a \in ToSet(c.lines) : l < a
      PROVE  InOrder(p)
  <2> SUFFICES ASSUME NEW i \in PayloadOf(p), NEW j \in PayloadOf(p), i < j,
                      NEW a \in ToSet(p[i].lines), NEW b \in ToSet(p[j].lines)
               PROVE  a < b
    BY DEF InOrder
  <2>1. i \in PayloadOf(o)
    <3>1. j \in Nat /\ j <= m
      BY <1>1, <1>3, <1>4
    <3>2. i # m
      BY <1>1, <3>1
    <3> QED
      BY <1>3, <3>2
  <2>2. CASE j \in PayloadOf(o)
    BY <1>4, <1>6, <2>1, <2>2 DEF InOrder
  <2>3. CASE j = m
    <3>1. a <= l /\ a \in ToSet(o[i].lines)
      BY <1>4, <1>6, <2>1 DEF UpTo
    <3>2. l < b /\ b \in ToSet(c.lines)
      BY <1>1, <1>6, <2>3
    <3>3. \A s \in Seq(Nat) : ToSet(s) \subseteq Nat
      BY BufferElements
    <3>4. o[i].lines \in Seq(Nat) /\ c.lines \in Seq(Nat)
      <4>1. o[i] \in Chunk
        BY <1>4, <2>1
      <4> QED
        BY <4>1 DEF Chunk
    <3>5. a \in Nat /\ b \in Nat
      BY <3>1, <3>2, <3>3, <3>4
    <3> QED
      BY <3>1, <3>2, <3>5
  <2> QED
    BY <1>3, <2>2, <2>3
<1>7. ASSUME NEW n \in Nat, UpTo(o, n), \A a \in ToSet(c.lines) : a <= n
      PROVE  UpTo(p, n)
  BY <1>1, <1>3, <1>4, <1>7 DEF UpTo
<1> QED
  BY <1>1, <1>5, <1>6, <1>7 DEF p

(* A chunk of the adapter's own is not of the body.                           *)
LEMMA ChunkMade ==
  ASSUME NEW o \in Seq(Chunk), NEW c \in Chunk, c.what \notin {"text", "event"}
  PROVE  /\ Append(o, c) \in Seq(Chunk)
         /\ SentOf(Append(o, c)) = SentOf(o)
         /\ InOrder(o) => InOrder(Append(o, c))
         /\ \A n : UpTo(o, n) => UpTo(Append(o, c), n)
<1> DEFINE m == Len(o) + 1
           p == Append(o, c)
<1>1. /\ p \in Seq(Chunk) /\ Len(o) \in Nat /\ p[m] = c
      /\ DOMAIN p = 1 .. m /\ DOMAIN o = 1 .. Len(o)
      /\ \A i \in 1 .. Len(o) : p[i] = o[i] /\ i < m
  OBVIOUS
<1> HIDE DEF p
<1>2. \A i : i \in PayloadOf(p) <=> i \in PayloadOf(o)
  <2>1. \A i : i \in 1 .. m <=> i \in 1 .. Len(o) \/ i = m
    BY <1>1
  <2> QED
    BY <1>1, <2>1 DEF PayloadOf
<1>3. PayloadOf(p) = PayloadOf(o) /\ \A i \in PayloadOf(o) : p[i] = o[i]
  BY <1>1, <1>2 DEF PayloadOf
<1>4. SentOf(p) = SentOf(o)
  BY <1>3 DEF SentOf
<1>5. InOrder(o) => InOrder(p)
  BY <1>3 DEF InOrder
<1>6. \A n : UpTo(o, n) => UpTo(p, n)
  BY <1>3 DEF UpTo
<1> QED
  BY <1>1, <1>4, <1>5, <1>6 DEF p

(* Nothing has been sent yet. *)
LEMMA NothingSent == SentOf(<<>>) = {} /\ InOrder(<<>>) /\ \A n : UpTo(<<>>, n)
<1>1. PayloadOf(<<>>) = {}
  BY DEF PayloadOf
<1> QED
  BY <1>1 DEF SentOf, InOrder, UpTo

(* A stream begins with the role and text; its end, if it has come, is last.  *)
WellBegun(o, ended) ==
  o # <<>> =>
    /\ Len(o) >= 2 /\ o[1].what = "role" /\ o[2].what = "text"
    /\ \A i \in 2 .. Len(o) : o[i].what # "role"
    /\ \A i \in 1 .. Len(o) : o[i].what = "end" <=> (ended /\ i = Len(o))

(* Text, and what its first chunk brings along.                               *)
LEMMA TextDelivered ==
  ASSUME out \in Seq(Chunk), NEW lines \in Seq(Nat)
  PROVE  /\ Delivered(lines) \in Seq(Chunk)
         /\ SentOf(Delivered(lines)) = SentOf(out) \cup {ToSet(lines)}
         /\ \A l \in Nat : InOrder(out) /\ UpTo(out, l) /\ (\A a \in ToSet(lines) : l < a)
                             => InOrder(Delivered(lines))
         /\ \A n \in Nat : UpTo(out, n) /\ (\A a \in ToSet(lines) : a <= n)
                             => UpTo(Delivered(lines), n)
         /\ WellBegun(out, FALSE) => WellBegun(Delivered(lines), FALSE)
<1> DEFINE c == [what |-> "text", lines |-> lines]
           start == IF out = <<>> THEN Append(out, Role) ELSE out
<1>1. c \in Chunk /\ c.what \in {"text", "event"} /\ c.lines = lines
  BY DEF Chunk
<1>2. Role \in Chunk /\ Role.what \notin {"text", "event"}
  BY DEF Chunk, Role
<1>3. /\ start \in Seq(Chunk) /\ SentOf(start) = SentOf(out)
      /\ InOrder(out) => InOrder(start)
      /\ \A n : UpTo(out, n) => UpTo(start, n)
  BY <1>2, ChunkMade
<1>4. Delivered(lines) = Append(start, c)
  <2>1. CASE out = <<>>
    <3>1. Delivered(lines) = (<<>> \o <<Role>>) \o <<c>> /\ start = Append(<<>>, Role)
      BY <2>1 DEF Delivered
    <3> HIDE DEF c
    <3>2. <<>> \o <<Role>> = <<Role>> /\ Append(<<>>, Role) = <<Role>>
      BY ConcatEmptySeq, <1>2
    <3>3. <<Role>> \o <<c>> = Append(<<Role>>, c)
      <4>1. <<Role>> \in Seq(Chunk)
        BY <1>2
      <4> DEFINE r == <<Role>>
      <4> HIDE DEF r
      <4>2. r \in Seq(Chunk) /\ c \in Chunk
        BY <1>1, <4>1 DEF r
      <4>3. r \o <<c>> = Append(r, c)
        BY <4>2
      <4> QED
        BY <4>3 DEF r
    <3> QED
      BY <3>1, <3>2, <3>3
  <2>2. CASE out # <<>>
    <3>1. Delivered(lines) = (out \o <<>>) \o <<c>> /\ start = out
      BY <2>2 DEF Delivered
    <3>2. out \o <<>> = out
      BY ConcatEmptySeq
    <3>3. out \o <<c>> = Append(out, c)
      BY <1>1
    <3> QED
      BY <3>1, <3>2, <3>3
  <2> QED
    BY <2>1, <2>2
<1>5. WellBegun(out, FALSE) => WellBegun(Append(start, c), FALSE)
  <2> SUFFICES ASSUME WellBegun(out, FALSE) PROVE WellBegun(Append(start, c), FALSE)
    OBVIOUS
  <2>1. CASE out = <<>>
    <3>1. start = Append(<<>>, Role)
      BY <2>1
    <3>2. /\ Len(Append(start, c)) = 2 /\ Append(start, c)[1] = Role /\ Append(start, c)[2] = c
      BY <1>1, <1>2, <3>1
    <3> QED
      BY <3>2 DEF WellBegun, Role
  <2>2. CASE out # <<>>
    <3> DEFINE p == Append(out, c)
    <3>1. /\ start = out /\ Len(p) = Len(out) + 1 /\ Len(out) \in Nat /\ p[Len(out) + 1] = c
          /\ \A i \in 1 .. Len(out) : p[i] = out[i]
      BY <1>1, <2>2
    <3>2. /\ Len(out) >= 2 /\ out[1].what = "role" /\ out[2].what = "text"
          /\ \A i \in 2 .. Len(out) : out[i].what # "role"
          /\ \A i \in 1 .. Len(out) : out[i].what # "end"
      BY <2>2 DEF WellBegun
    <3> HIDE DEF p
    <3>3. /\ p[1] = out[1] /\ p[2] = out[2]
          /\ \A i \in 1 .. Len(p) : i \in 1 .. Len(out) \/ i = Len(out) + 1
      BY <3>1, <3>2
    <3>4. \A i \in 2 .. Len(p) : p[i].what # "role"
      BY <3>1, <3>2, <3>3
    <3>5. \A i \in 1 .. Len(p) : p[i].what # "end"
      BY <3>1, <3>2, <3>3
    <3> QED
      BY <3>1, <3>2, <3>3, <3>4, <3>5 DEF WellBegun, p
  <2> QED
    BY <2>1, <2>2
<1> HIDE DEF start, c
<1>6. /\ Append(start, c) \in Seq(Chunk)
      /\ SentOf(Append(start, c)) = SentOf(start) \cup {ToSet(lines)}
      /\ \A l \in Nat : InOrder(start) /\ UpTo(start, l) /\ (\A a \in ToSet(lines) : l < a)
                          => InOrder(Append(start, c))
      /\ \A n \in Nat : UpTo(start, n) /\ (\A a \in ToSet(lines) : a <= n)
                          => UpTo(Append(start, c), n)
  <2>1. /\ Append(start, c) \in Seq(Chunk)
        /\ SentOf(Append(start, c)) = SentOf(start) \cup {ToSet(c.lines)}
        /\ \A l \in Nat : InOrder(start) /\ UpTo(start, l) /\ (\A a \in ToSet(c.lines) : l < a)
                            => InOrder(Append(start, c))
        /\ \A n \in Nat : UpTo(start, n) /\ (\A a \in ToSet(c.lines) : a <= n)
                            => UpTo(Append(start, c), n)
    BY <1>1, <1>3, ChunkSent
  <2> QED
    BY <1>1, <2>1
<1> QED
  BY <1>3, <1>4, <1>5, <1>6

(* The end of a stream that has said something.                               *)
LEMMA EndAppended ==
  ASSUME NEW o \in Seq(Chunk), o # <<>>, WellBegun(o, FALSE)
  PROVE  WellBegun(Append(o, [what |-> "end", lines |-> <<>>]), TRUE)
<1> DEFINE c == [what |-> "end", lines |-> <<>>]
           p == Append(o, c)
<1>1. /\ Len(p) = Len(o) + 1 /\ Len(o) \in Nat /\ p[Len(o) + 1] = c
      /\ \A i \in 1 .. Len(o) : p[i] = o[i]
  OBVIOUS
<1>2. /\ Len(o) >= 2 /\ o[1].what = "role" /\ o[2].what = "text"
      /\ \A i \in 2 .. Len(o) : o[i].what # "role"
      /\ \A i \in 1 .. Len(o) : o[i].what # "end"
  BY DEF WellBegun
<1>3. c.what = "end"
  OBVIOUS
<1> HIDE DEF p, c
<1>4. /\ p[1] = o[1] /\ p[2] = o[2]
      /\ \A i \in 1 .. Len(p) : i \in 1 .. Len(o) \/ i = Len(o) + 1
  BY <1>1, <1>2
<1>5. \A i \in 2 .. Len(p) : p[i].what # "role"
  BY <1>1, <1>2, <1>3, <1>4
<1>6. \A i \in 1 .. Len(p) : p[i].what = "end" <=> i = Len(p)
  BY <1>1, <1>2, <1>3, <1>4
<1>7. WellBegun(p, TRUE)
  BY <1>1, <1>2, <1>4, <1>5, <1>6 DEF WellBegun
<1> QED
  BY <1>7 DEF p, c

-----------------------------------------------------------------------------
(* The inductive invariant *)

PTypeOK ==
  /\ kind \in Kinds \cup {NULL}
  /\ body \in Seq(Lines)
  /\ buffer \in Seq(Nat)
  /\ out \in Seq(Chunk)
  /\ outcome \in Outcomes \cup {NULL}

(* What the buffer of a parser holds, of the event that begins after l.        *)
Held(l) ==
  IF kind = "compatible" THEN EventOf(body, l) ELSE DataOf(body, EventOf(body, l))

(* The buffer is the event under way, and what was sent is of those before.   *)
CollectedFrom(l) ==
  /\ Latest(body, l)
  /\ kind = "gemini" => UpTo(out, Len(body))
  /\ kind # "gemini" =>
       UpTo(out, l) /\ Increasing(buffer) /\ ToSet(buffer) = Held(l)

Collected == Open => \E l : CollectedFrom(l)

(* A parser that begins and ends its streams itself does so well.             *)
Framed ==
  kind \in {"gemini", "code_assist"} =>
    /\ WellBegun(out, outcome = "streamed")
    /\ outcome = "streamed" => out # <<>>

PInv ==
  /\ PTypeOK
  /\ kind = NULL => body = <<>> /\ buffer = <<>> /\ out = <<>> /\ outcome = NULL
  /\ AnswersDelivered
  /\ Collected
  /\ Framed

(* Before the end of the body, what is expected is what is due.               *)
LEMMA ExpectedDue ==
  /\ outcome # "streamed" \/ kind # "compatible" => Expected = Due(kind, body)
  /\ outcome = "streamed" /\ kind = "compatible"
       => Expected = {EventOf(body, b) : b \in BlanksOf(body)} \ {{}}
<1>1. /\ Blanks = BlanksOf(body)
      /\ \A b : Event(b) = EventOf(body, b) /\ (Over(b) <=> OverIn(body, b))
      /\ \A d : IsAnswer(d) <=> IsAnswerOf(body, d)
  BY DEF Blanks, BlanksOf, Event, EventOf, Over, OverIn, IsAnswer, IsAnswerOf
<1>2. CASE kind = "compatible"
  BY <1>1, <1>2 DEF Expected, Due, EventsOver
<1>3. CASE kind = "gemini"
  BY <1>3 DEF Expected, Due
<1>4. CASE kind = "code_assist"
  <2>1. \A e : e \in EventsOver(body)
                 <=> \E b \in Blanks : Over(b) /\ e = Event(b)
    BY <1>1 DEF EventsOver
  <2>2. \A d : d \in Expected <=> (\E b \in Blanks : Over(b) /\ d = {i \in Event(b) : body[i] \in DataLines})
                                  /\ IsAnswer(d)
    BY <1>4 DEF Expected
  <2>3. \A d : d \in Due(kind, body) <=> (\E e \in EventsOver(body) : d = DataOf(body, e))
                                         /\ IsAnswerOf(body, d)
    BY <1>4 DEF Due
  <2>4. \A d : d \in Expected <=> d \in Due(kind, body)
    BY <1>1, <2>1, <2>2, <2>3 DEF DataOf
  <2>5. Expected = Due(kind, body)
    <3> DEFINE x == Expected
               y == Due(kind, body)
    <3>1. \A d : d \in x <=> d \in y
      BY <2>4
    <3>2. x \subseteq SUBSET DOMAIN body
      <4> SUFFICES ASSUME NEW d \in Expected PROVE d \subseteq DOMAIN body
        OBVIOUS
      <4>1. PICK b \in Blanks : d = {i \in Event(b) : body[i] \in DataLines}
        BY <2>2
      <4> QED
        BY <4>1 DEF Event
    <3> HIDE DEF x, y
    <3> QED
      BY <3>1 DEF x, y
  <2> QED
    BY <1>4, <2>5
<1>5. CASE kind \notin Kinds
  BY <1>5 DEF Expected, Due, Kinds
<1> QED
  BY <1>2, <1>3, <1>4, <1>5 DEF Kinds

(* The property in the terms of the lemmas, in this state and in the next. *)
Delivers(k, s, o, oc) ==
  /\ InOrder(o)
  /\ oc # "streamed" \/ k # "compatible" => SentOf(o) = Due(k, s)
  /\ oc = "streamed" /\ k = "compatible"
       => SentOf(o) = {EventOf(s, b) : b \in BlanksOf(s)} \ {{}}

LEMMA DeliversNow == AnswersDelivered <=> Delivers(kind, body, out, outcome)
<1>1. AnswersDelivered <=> SentOf(out) = Expected /\ InOrder(out)
  BY DEF AnswersDelivered, SentOf, InOrder, Payload, PayloadOf
<1> QED
  BY <1>1, ExpectedDue DEF Delivers

LEMMA DeliversNext == (AnswersDelivered <=> Delivers(kind, body, out, outcome))'
BY DeliversNow, PTL

LEMMA Distinct ==
  /\ NULL # "streamed" /\ NULL # "done" /\ NULL # "unknown" /\ NULL \notin Kinds
  /\ NULL \notin ErrorClass /\ "streamed" \notin ErrorClass /\ "done" \notin ErrorClass
BY AdapterAssumption DEF Kinds, Outcomes, ErrorClass, AuthErrors

(* An empty body has no events. *)
LEMMA EmptyBody ==
  /\ Latest(<<>>, 0) /\ EventOf(<<>>, 0) = {} /\ DataOf(<<>>, {}) = {}
  /\ \A k : Due(k, <<>>) = {}
<1>1. BlanksOf(<<>>) = {0} /\ Latest(<<>>, 0) /\ EventOf(<<>>, 0) = {} /\ DataOf(<<>>, {}) = {}
  BY DEF BlanksOf, Latest, OverIn, EventOf, DataOf
<1>2. EventsOver(<<>>) = {}
  BY <1>1 DEF EventsOver, Latest
<1>3. \A k : Due(k, <<>>) = {}
  BY <1>2 DEF Due
<1> QED
  BY <1>1, <1>3

LEMMA InitPInv == Init => PInv
<1> SUFFICES ASSUME Init PROVE PInv
  OBVIOUS
<1>1. kind = NULL /\ body = <<>> /\ buffer = <<>> /\ out = <<>> /\ outcome = NULL
  BY DEF Init
<1>2. outcome # "streamed" /\ kind \notin {"gemini", "code_assist"}
  BY <1>1, Distinct DEF Kinds
<1>3. AnswersDelivered
  BY <1>1, <1>2, DeliversNow, EmptyBody, NothingSent DEF Delivers
<1>4. PTypeOK
  BY <1>1 DEF PTypeOK
<1> QED
  BY <1>1, <1>2, <1>3, <1>4 DEF PInv, Collected, Framed, Open

-----------------------------------------------------------------------------
(* The actions *)

LEMMA RequestKeeps ==
  ASSUME PInv, NEW k \in Kinds, Request(k)
  PROVE  PInv'
<1>1. /\ kind = NULL /\ kind' = k
      /\ body = <<>> /\ buffer = <<>> /\ out = <<>> /\ outcome = NULL
      /\ body' = <<>> /\ buffer' = <<>> /\ out' = <<>> /\ outcome' = NULL
  BY DEF Request, PInv
<1>2. outcome' # "streamed" /\ kind' # NULL
  BY <1>1, Distinct
<1>3. AnswersDelivered'
  <2>1. Delivers(k, <<>>, <<>>, NULL)
    BY Distinct, EmptyBody, NothingSent DEF Delivers
  <2> QED
    BY <1>1, <2>1, DeliversNext
<1>4. Collected'
  <2>1. Increasing(<<>>) /\ ToSet(<<>>) = {}
    BY DEF Increasing, ToSet
  <2>2. CollectedFrom(0)'
    BY <1>1, <2>1, EmptyBody, NothingSent DEF CollectedFrom, Held
  <2> QED
    BY <2>2 DEF Collected
<1>5. Framed'
  BY <1>1, <1>2 DEF Framed, WellBegun
<1>6. PTypeOK'
  BY <1>1 DEF PTypeOK
<1> QED
  BY <1>2, <1>3, <1>4, <1>5, <1>6 DEF PInv

(* What ends a request before its stream does.                                *)
LEMMA EndedKeeps ==
  ASSUME PInv, Open, outcome' # NULL, outcome' \in ErrorClass \cup {"done"},
         buffer' \in {buffer, <<>>}, UNCHANGED <<kind, body, out>>
  PROVE  PInv'
<1>1. outcome = NULL /\ kind # NULL /\ outcome # "streamed" /\ outcome' # "streamed"
  BY Distinct DEF Open
<1>2. kind' = kind /\ body' = body /\ out' = out
  OBVIOUS
<1>3. AnswersDelivered'
  <2>1. Delivers(kind, body, out, outcome')
    BY <1>1, DeliversNow DEF PInv, Delivers
  <2> QED
    BY <1>2, <2>1, DeliversNext
<1>4. Collected'
  BY DEF Collected, Open
<1>5. Framed'
  BY <1>1, <1>2 DEF PInv, Framed, WellBegun
<1>6. PTypeOK'
  <2>1. buffer' \in Seq(Nat)
    <3>1. buffer \in Seq(Nat) /\ <<>> \in Seq(Nat)
      BY DEF PInv, PTypeOK
    <3> QED
      BY <3>1
  <2>2. outcome' \in Outcomes
    BY DEF Outcomes
  <2> QED
    BY <1>2, <2>1, <2>2 DEF PInv, PTypeOK
<1> QED
  BY <1>1, <1>2, <1>3, <1>4, <1>5, <1>6 DEF PInv

LEMMA EndsKeep ==
  ASSUME PInv,
         \/ \E status \in Statuses, about \in Bodies : Refused(status, about)
         \/ \E what \in {"text", "plain", "bad"} : Answered(what)
         \/ \E class \in {"network_timeout", "provider_unavailable"} : Broken(class)
  PROVE  PInv'
<1>1. CASE \E status \in Statuses, about \in Bodies : Refused(status, about)
  <2>1. PICK status \in Statuses, about \in Bodies : Refused(status, about)
    BY <1>1
  <2>2. Class(kind, status, about) \in ErrorClass
    BY DEF Class, CompatibleClass, GoogleClass, ErrorClass, AuthErrors
  <2>3. outcome' \in ErrorClass /\ outcome' # NULL
    BY <2>1, <2>2, Distinct DEF Refused
  <2> QED
    BY <2>1, <2>3, EndedKeeps DEF Refused
<1>2. CASE \E what \in {"text", "plain", "bad"} : Answered(what)
  <2>1. PICK what \in {"text", "plain", "bad"} : Answered(what)
    BY <1>2
  <2>2. outcome' \in ErrorClass \cup {"done"} /\ outcome' # NULL
    BY <2>1, Distinct DEF Answered, ErrorClass, AuthErrors
  <2> QED
    BY <2>1, <2>2, EndedKeeps DEF Answered
<1>3. CASE \E class \in {"network_timeout", "provider_unavailable"} : Broken(class)
  <2>1. PICK class \in {"network_timeout", "provider_unavailable"} : Broken(class)
    BY <1>3
  <2>2. outcome' \in ErrorClass /\ outcome' # NULL
    BY <2>1, Distinct DEF Broken, ErrorClass, AuthErrors
  <2> QED
    BY <2>1, <2>2, EndedKeeps DEF Broken
<1> QED
  BY <1>1, <1>2, <1>3

(* What was sent of the first lines is of the first few more. *)
LEMMA UpToLater ==
  ASSUME NEW o \in Seq(Chunk), NEW l \in Nat, NEW n \in Nat, l <= n, UpTo(o, l)
  PROVE  UpTo(o, n)
<1> SUFFICES ASSUME NEW i \in PayloadOf(o), NEW a \in ToSet(o[i].lines) PROVE a <= n
  BY DEF UpTo
<1>1. o[i] \in Chunk
  BY DEF PayloadOf
<1>2. o[i].lines \in Seq(Nat)
  BY <1>1 DEF Chunk
<1>3. a \in Nat
  BY <1>2, BufferElements
<1>4. a <= l
  BY DEF UpTo
<1> QED
  BY <1>3, <1>4

(* A line: the buffer follows the event under way.                            *)
LEMMA LineKept ==
  ASSUME PInv, NEW line \in Lines, Line(line)
  PROVE  /\ \E l : CollectedFrom(l)'
         /\ AnswersDelivered' /\ PTypeOK'
         /\ kind # "compatible" => WellBegun(out', FALSE)
<1> DEFINE n == Len(body) + 1
<1>1. /\ kind \in Kinds /\ outcome = NULL /\ outcome # "streamed"
      /\ kind' = kind /\ outcome' = outcome /\ body' = Append(body, line)
  BY Distinct DEF Line, Open, PInv, PTypeOK
<1>2. /\ body \in Seq(Lines) /\ buffer \in Seq(Nat) /\ out \in Seq(Chunk)
      /\ Len(body) \in Nat /\ n \in Nat
  BY DEF PInv, PTypeOK
<1>3. PICK l : CollectedFrom(l)
  BY <1>1 DEF PInv, Collected, Line
<1>4. Latest(body, l)
  BY <1>3 DEF CollectedFrom
<1> DEFINE e == EventOf(body, l)
           d == DataOf(body, e)
<1>5. /\ \A i \in e : i \in 1 .. Len(body) /\ i > l
      /\ l \in 0 .. Len(body) /\ d \subseteq e /\ e \subseteq 1 .. Len(body)
  BY <1>2, <1>4, OverBefore DEF DataOf
<1>6. SentOf(out) = Due(kind, body) /\ InOrder(out)
  BY <1>1, DeliversNow DEF PInv, Delivers
<1>7. ASSUME SentOf(out') = Due(kind, body') /\ InOrder(out')
      PROVE  AnswersDelivered'
  <2>1. Delivers(kind, body', out', outcome)
    BY <1>1, <1>7 DEF Delivers
  <2> QED
    BY <1>1, <2>1, DeliversNext
<1>8. ASSUME buffer' \in Seq(Nat), out' \in Seq(Chunk) PROVE PTypeOK'
  <2>1. body' \in Seq(Lines)
    BY <1>1, <1>2
  <2> QED
    BY <1>1, <1>8, <2>1 DEF PInv, PTypeOK
<1>9. kind # "compatible" => WellBegun(out, FALSE)
  BY <1>1 DEF PInv, Framed, Kinds
<1>10. body' \in Seq(Lines) /\ Len(body') = n
  BY <1>1, <1>2
<1>11. /\ l \in Nat /\ l <= n
       /\ \A i \in e : i \in Nat /\ l < i /\ i < n /\ i <= n
       /\ \A i \in d : i \in Nat /\ l < i /\ i < n /\ i <= n
  BY <1>2, <1>5
<1>12. /\ UpTo(out, l) => UpTo(out, n)
       /\ UpTo(out, Len(body)) => UpTo(out, n)
  <2>1. Len(body) <= n
    BY <1>2
  <2> QED
    BY <1>2, <1>11, <2>1, UpToLater
<1> HIDE DEF e, d
<1>13. CASE kind = "compatible"
  <2>1. TakeCompatible(line)
    BY <1>13 DEF Line
  <2>2. ToSet(buffer) = e /\ Increasing(buffer) /\ UpTo(out, l)
    BY <1>3, <1>13 DEF CollectedFrom, Held, e
  <2>3. Due(kind, body') = Due(kind, body) \cup (IF line = "blank" /\ e # {} THEN {e} ELSE {})
    BY <1>1, <1>2, <1>4, <1>13, DueTaken DEF e
  <2>4. CASE line # "blank"
    <3>1. buffer' = Append(buffer, n) /\ out' = out
      BY <2>1, <2>4 DEF TakeCompatible
    <3>2. Latest(body', l) /\ EventOf(body', l) = e \cup {n}
      BY <1>1, <1>2, <1>4, <2>4, LineTaken DEF e
    <3>3. /\ buffer' \in Seq(Nat) /\ Increasing(buffer') /\ ToSet(buffer') = e \cup {n}
      <4>1. \A i \in ToSet(buffer) : i < n
        BY <1>11, <2>2
      <4> QED
        BY <1>2, <2>2, <3>1, <4>1, BufferTaken
    <3>4. CollectedFrom(l)'
      BY <1>1, <1>13, <2>2, <3>1, <3>2, <3>3 DEF CollectedFrom, Held
    <3> QED
      BY <1>2, <1>6, <1>7, <1>8, <1>13, <2>3, <2>4, <3>1, <3>3, <3>4
  <2>5. CASE line = "blank"
    <3>1. /\ buffer' = <<>>
          /\ out' = IF buffer = <<>> THEN out ELSE Append(out, [what |-> "event", lines |-> buffer])
      BY <2>1, <2>5 DEF TakeCompatible
    <3>2. Latest(body', n) /\ EventOf(body', n) = {}
      BY <1>1, <1>2, <1>4, <2>5, LineTaken
    <3>3. buffer = <<>> <=> e = {}
      BY <1>2, <2>2, BufferElements
    <3>4. /\ out' \in Seq(Chunk) /\ SentOf(out') = Due(kind, body') /\ InOrder(out')
          /\ UpTo(out', n)
      <4>1. CASE buffer = <<>>
        BY <1>2, <1>6, <1>12, <2>2, <2>3, <3>1, <3>3, <4>1
      <4>2. CASE buffer # <<>>
        <5> DEFINE c == [what |-> "event", lines |-> buffer]
        <5>1. c \in Chunk /\ c.what \in {"text", "event"} /\ c.lines = buffer
          BY <1>2 DEF Chunk
        <5>2. out' = Append(out, c)
          BY <3>1, <4>2
        <5> HIDE DEF c
        <5>3. /\ \A a \in ToSet(c.lines) : l < a /\ a <= n
              /\ l \in Nat
          BY <1>11, <2>2, <5>1
        <5>4. SentOf(out') = SentOf(out) \cup {e} /\ out' \in Seq(Chunk)
          BY <1>2, <2>2, <5>1, <5>2, ChunkSent
        <5>5. InOrder(out')
          BY <1>2, <1>6, <2>2, <5>1, <5>2, <5>3, ChunkSent
        <5>6. UpTo(out', n)
          BY <1>2, <1>12, <2>2, <5>1, <5>2, <5>3, ChunkSent
        <5> QED
          BY <1>6, <2>3, <2>5, <3>3, <4>2, <5>4, <5>5, <5>6
      <4> QED
        BY <4>1, <4>2
    <3>5. Increasing(<<>>) /\ ToSet(<<>>) = {}
      BY DEF Increasing, ToSet
    <3>6. \E m : CollectedFrom(m)'
      <4> PICK m : m = n
        OBVIOUS
      <4>1. Held(m)' = {}
        BY <1>1, <1>13, <3>2 DEF Held
      <4>2. /\ Latest(body', m) /\ UpTo(out', m)
            /\ Increasing(buffer') /\ ToSet(buffer') = {} /\ kind' # "gemini"
        BY <1>1, <1>13, <3>1, <3>2, <3>4, <3>5
      <4> QED
        BY <4>1, <4>2 DEF CollectedFrom
    <3>7. buffer' \in Seq(Nat)
      BY <3>1
    <3> QED
      BY <1>7, <1>8, <1>13, <3>4, <3>6, <3>7
  <2> QED
    BY <2>4, <2>5
<1>14. CASE kind = "gemini"
  <2>1. /\ out' = IF line = "text" THEN Delivered(<<n>>) ELSE out
        /\ buffer' = buffer
    BY <1>14 DEF Line, TakeGemini
  <2>2. UpTo(out, Len(body))
    BY <1>3, <1>14 DEF CollectedFrom
  <2>3. Due(kind, body') = Due(kind, body) \cup (IF line = "text" THEN {{n}} ELSE {})
    BY <1>1, <1>2, <1>4, <1>14, DueTaken
  <2>4. \E m : Latest(body', m)
    BY <1>1, <1>2, <1>4, LineTaken
  <2>5. /\ out' \in Seq(Chunk) /\ SentOf(out') = Due(kind, body') /\ InOrder(out')
        /\ UpTo(out', n) /\ WellBegun(out', FALSE)
    <3>1. CASE line # "text"
      BY <1>2, <1>6, <1>9, <1>12, <1>14, <2>1, <2>2, <2>3, <3>1
    <3>2. CASE line = "text"
      <4>1. <<n>> \in Seq(Nat) /\ ToSet(<<n>>) = {n}
        BY <1>2 DEF ToSet
      <4>2. out' = Delivered(<<n>>)
        BY <2>1, <3>2
      <4>3. \A a \in ToSet(<<n>>) : Len(body) < a /\ a <= n
        BY <1>2, <4>1
      <4>4. SentOf(out') = SentOf(out) \cup {{n}} /\ out' \in Seq(Chunk)
        BY <1>2, <4>1, <4>2, TextDelivered
      <4>5. InOrder(out')
        BY <1>2, <1>6, <2>2, <4>1, <4>2, <4>3, TextDelivered
      <4>6. UpTo(out', n)
        BY <1>2, <1>12, <2>2, <4>1, <4>2, <4>3, TextDelivered
      <4>7. WellBegun(out', FALSE)
        BY <1>2, <1>9, <1>14, <4>1, <4>2, TextDelivered
      <4> QED
        BY <1>6, <2>3, <3>2, <4>4, <4>5, <4>6, <4>7
    <3> QED
      BY <3>1, <3>2
  <2>6. \E m : CollectedFrom(m)'
    BY <1>1, <1>10, <1>14, <2>4, <2>5 DEF CollectedFrom
  <2> QED
    BY <1>2, <1>7, <1>8, <2>1, <2>5, <2>6
<1>15. CASE kind = "code_assist"
  <2>1. TakeCodeAssist(line)
    BY <1>15 DEF Line
  <2>2. ToSet(buffer) = d /\ Increasing(buffer) /\ UpTo(out, l)
    BY <1>3, <1>15 DEF CollectedFrom, Held, e, d
  <2>3. Due(kind, body') = Due(kind, body) \cup (IF line = "blank" /\ IsAnswerOf(body, d) THEN {d} ELSE {})
    BY <1>1, <1>2, <1>4, <1>15, DueTaken DEF e, d
  <2>4. CASE line # "blank"
    <3>1. Latest(body', l) /\ EventOf(body', l) = e \cup {n} /\ body'[n] = line
      BY <1>1, <1>2, <1>4, <2>4, LineTaken DEF e
    <3>2. n \notin e /\ \A i \in e : body'[i] = body[i]
      BY <1>1, <1>2, <1>5
    <3>3. out' = out
      BY <2>1, <2>4 DEF TakeCodeAssist
    <3>4. DataOf(body', e \cup {n}) = d \cup (IF line \in DataLines THEN {n} ELSE {})
      BY <3>1, <3>2 DEF DataOf, d
    <3>5. /\ buffer' \in Seq(Nat) /\ Increasing(buffer')
          /\ ToSet(buffer') = d \cup (IF line \in DataLines THEN {n} ELSE {})
      <4>1. CASE line \in DataLines
        <5>1. buffer' = Append(buffer, n)
          BY <2>1, <4>1 DEF TakeCodeAssist
        <5>2. \A i \in ToSet(buffer) : i < n
          BY <1>11, <2>2
        <5> QED
          BY <1>2, <2>2, <4>1, <5>1, <5>2, BufferTaken
      <4>2. CASE line \notin DataLines
        BY <1>2, <2>1, <2>2, <2>4, <4>2 DEF TakeCodeAssist
      <4> QED
        BY <4>1, <4>2
    <3>6. CollectedFrom(l)'
      BY <1>1, <1>15, <2>2, <3>1, <3>3, <3>4, <3>5 DEF CollectedFrom, Held
    <3> QED
      BY <1>2, <1>6, <1>7, <1>8, <1>9, <1>15, <2>3, <2>4, <3>3, <3>5, <3>6
  <2>5. CASE line = "blank"
    <3>1. buffer' = <<>> /\ out' = IF HasText(buffer) THEN Delivered(buffer) ELSE out
      BY <2>1, <2>5 DEF TakeCodeAssist, DataLines
    <3>2. Latest(body', n) /\ EventOf(body', n) = {}
      BY <1>1, <1>2, <1>4, <2>5, LineTaken
    <3>3. HasText(buffer) <=> IsAnswerOf(body, d)
      BY <1>2, <2>2, TextIsAnswer
    <3>4. /\ out' \in Seq(Chunk) /\ SentOf(out') = Due(kind, body') /\ InOrder(out')
          /\ UpTo(out', n) /\ WellBegun(out', FALSE)
      <4>1. CASE ~ HasText(buffer)
        BY <1>2, <1>6, <1>9, <1>12, <1>15, <2>2, <2>3, <3>1, <3>3, <4>1
      <4>2. CASE HasText(buffer)
        <5>1. out' = Delivered(buffer)
          BY <3>1, <4>2
        <5>2. /\ \A a \in ToSet(buffer) : l < a /\ a <= n
              /\ l \in Nat
          BY <1>11, <2>2
        <5>3. SentOf(out') = SentOf(out) \cup {d} /\ out' \in Seq(Chunk)
          BY <1>2, <2>2, <5>1, TextDelivered
        <5>4. InOrder(out')
          BY <1>2, <1>6, <2>2, <5>1, <5>2, TextDelivered
        <5>5. UpTo(out', n)
          BY <1>2, <1>12, <2>2, <5>1, <5>2, TextDelivered
        <5>6. WellBegun(out', FALSE)
          BY <1>2, <1>9, <1>15, <5>1, TextDelivered
        <5> QED
          BY <1>6, <2>3, <2>5, <3>3, <4>2, <5>3, <5>4, <5>5, <5>6
      <4> QED
        BY <4>1, <4>2
    <3>5. Increasing(<<>>) /\ ToSet(<<>>) = {} /\ DataOf(body', {}) = {}
      BY DEF Increasing, ToSet, DataOf
    <3>6. \E m : CollectedFrom(m)'
      <4> PICK m : m = n
        OBVIOUS
      <4>1. Held(m)' = {}
        BY <1>1, <1>15, <3>2, <3>5 DEF Held
      <4>2. /\ Latest(body', m) /\ UpTo(out', m)
            /\ Increasing(buffer') /\ ToSet(buffer') = {} /\ kind' # "gemini"
        BY <1>1, <1>15, <3>1, <3>2, <3>4, <3>5
      <4> QED
        BY <4>1, <4>2 DEF CollectedFrom
    <3>7. buffer' \in Seq(Nat)
      BY <3>1
    <3> QED
      BY <1>7, <1>8, <3>4, <3>6, <3>7
  <2> QED
    BY <2>4, <2>5
<1> QED
  BY <1>1, <1>13, <1>14, <1>15 DEF Kinds

LEMMA LineKeeps ==
  ASSUME PInv, NEW line \in Lines, Line(line)
  PROVE  PInv'
<1>1. /\ \E l : CollectedFrom(l)'
      /\ AnswersDelivered' /\ PTypeOK'
      /\ kind # "compatible" => WellBegun(out', FALSE)
  BY LineKept
<1>2. /\ kind' = kind /\ outcome' = NULL /\ kind # NULL
      /\ outcome' # "streamed"
  BY Distinct DEF Line, Open
<1>3. Framed'
  BY <1>1, <1>2 DEF Framed
<1> QED
  BY <1>1, <1>2, <1>3 DEF PInv, Collected

(* The end of the body: what the compatible adapter still holds is passed on,   *)
(* and with it all events are.                                                *)
LEMMA EndOfBodyKeeps ==
  ASSUME PInv, EndOfBody
  PROVE  PInv'
<1>1. /\ kind \in Kinds /\ kind # NULL /\ outcome = NULL /\ outcome # "streamed"
      /\ kind' = kind /\ body' = body /\ buffer' = <<>>
  BY Distinct DEF EndOfBody, Open, PInv, PTypeOK
<1>2. /\ body \in Seq(Lines) /\ buffer \in Seq(Nat) /\ out \in Seq(Chunk)
      /\ Len(body) \in Nat
  BY DEF PInv, PTypeOK
<1>3. PICK l : CollectedFrom(l)
  BY <1>1 DEF PInv, Collected, EndOfBody
<1>4. Latest(body, l)
  BY <1>3 DEF CollectedFrom
<1>5. SentOf(out) = Due(kind, body) /\ InOrder(out)
  BY <1>1, DeliversNow DEF PInv, Delivers
<1>6. outcome' # NULL /\ outcome' \in Outcomes
  BY Distinct DEF EndOfBody, Outcomes, ErrorClass, AuthErrors
<1>7. Collected'
  BY <1>6 DEF Collected, Open
<1>8. ASSUME out' \in Seq(Chunk), AnswersDelivered', Framed' PROVE PInv'
  <2>1. PTypeOK'
    <3>1. <<>> \in Seq(Nat)
      OBVIOUS
    <3> QED
      BY <1>1, <1>2, <1>6, <1>8, <3>1 DEF PTypeOK
  <2> QED
    BY <1>1, <1>7, <1>8, <2>1 DEF PInv
<1>9. CASE kind = "compatible"
  <2> DEFINE e == EventOf(body, l)
             all == {EventOf(body, b) : b \in BlanksOf(body)} \ {{}}
  <2>1. ToSet(buffer) = e /\ UpTo(out, l)
    BY <1>3, <1>9 DEF CollectedFrom, Held
  <2>2. /\ outcome' = "streamed"
        /\ out' = IF buffer = <<>> THEN out ELSE Append(out, [what |-> "event", lines |-> buffer])
    BY <1>9 DEF EndOfBody
  <2>3. \A b \in BlanksOf(body) : b # l => OverIn(body, b)
    BY <1>2, <1>4, LineTaken DEF Lines
  <2>4. all = Due(kind, body) \cup (IF e = {} THEN {} ELSE {e})
    <3>1. l \in BlanksOf(body) /\ ~ OverIn(body, l)
      BY <1>4 DEF Latest
    <3>2. Due(kind, body) = EventsOver(body) \ {{}}
      BY <1>9 DEF Due
    <3>3. \A x : x \in EventsOver(body) <=> \E b \in BlanksOf(body) : b # l /\ x = EventOf(body, b)
      BY <2>3, <3>1 DEF EventsOver
    <3> QED
      BY <3>1, <3>2, <3>3
  <2>5. buffer = <<>> <=> e = {}
    BY <1>2, <2>1, BufferElements
  <2>6. l \in Nat /\ \A i \in e : l < i
    BY <1>2, <1>4, OverBefore
  <2> HIDE DEF e, all
  <2>7. out' \in Seq(Chunk) /\ SentOf(out') = all /\ InOrder(out')
    <3>1. CASE buffer = <<>>
      BY <1>2, <1>5, <2>2, <2>4, <2>5, <3>1
    <3>2. CASE buffer # <<>>
      <4> DEFINE c == [what |-> "event", lines |-> buffer]
      <4>1. c \in Chunk /\ c.what \in {"text", "event"} /\ c.lines = buffer
        BY <1>2 DEF Chunk
      <4>2. out' = Append(out, c)
        BY <2>2, <3>2
      <4> HIDE DEF c
      <4>3. \A a \in ToSet(c.lines) : l < a
        BY <2>1, <2>6, <4>1
      <4>4. SentOf(out') = SentOf(out) \cup {e} /\ out' \in Seq(Chunk)
        BY <1>2, <2>1, <4>1, <4>2, ChunkSent
      <4>5. InOrder(out')
        BY <1>2, <1>5, <2>1, <2>6, <4>1, <4>2, <4>3, ChunkSent
      <4> QED
        BY <1>5, <2>4, <2>5, <3>2, <4>4, <4>5
    <3> QED
      BY <3>1, <3>2
  <2>8. Delivers(kind, body, out', "streamed")
    BY <1>9, <2>7 DEF Delivers, all
  <2>9. AnswersDelivered'
    BY <1>1, <2>2, <2>8, DeliversNext
  <2>10. Framed'
    BY <1>1, <1>9 DEF Framed
  <2> QED
    BY <1>8, <2>7, <2>9, <2>10
<1>10. CASE kind # "compatible"
  <2>1. /\ WellBegun(out, FALSE) /\ kind \in {"gemini", "code_assist"}
    BY <1>1, <1>10 DEF PInv, Framed, Kinds
  <2>2. CASE out = <<>>
    <3>1. outcome' = "malformed_response" /\ out' = out
      BY <1>10, <2>2 DEF EndOfBody
    <3>2. Delivers(kind, body, out', outcome')
      BY <1>5, <1>10, <3>1 DEF Delivers
    <3>3. AnswersDelivered'
      BY <1>1, <3>2, DeliversNext
    <3>4. Framed'
      BY <2>2, <3>1 DEF Framed, WellBegun
    <3> QED
      BY <1>2, <1>8, <3>1, <3>3, <3>4
  <2>3. CASE out # <<>>
    <3> DEFINE c == [what |-> "end", lines |-> <<>>]
    <3>1. outcome' = "streamed" /\ out' = Append(out, c)
      BY <1>10, <2>3 DEF EndOfBody
    <3>2. c \in Chunk /\ c.what \notin {"text", "event"}
      <4>1. <<>> \in Seq(Nat)
        OBVIOUS
      <4> QED
        BY <4>1 DEF Chunk
    <3>3. WellBegun(out', TRUE)
      BY <1>2, <2>1, <2>3, <3>1, EndAppended
    <3> HIDE DEF c
    <3>4. out' \in Seq(Chunk) /\ SentOf(out') = SentOf(out) /\ InOrder(out')
      BY <1>2, <1>5, <3>1, <3>2, ChunkMade
    <3>5. Delivers(kind, body, out', outcome')
      BY <1>5, <1>10, <3>4 DEF Delivers
    <3>6. AnswersDelivered'
      BY <1>1, <3>5, DeliversNext
    <3>7. out' # <<>>
      BY <1>2, <3>1
    <3>8. Framed'
      BY <3>1, <3>3, <3>7 DEF Framed
    <3> QED
      BY <1>8, <3>4, <3>6, <3>8
  <2> QED
    BY <2>2, <2>3
<1> QED
  BY <1>9, <1>10

LEMMA FinishedKeeps ==
  ASSUME PInv, Finished
  PROVE  PInv'
<1>1. kind' = NULL /\ body' = <<>> /\ buffer' = <<>> /\ out' = <<>> /\ outcome' = NULL
  BY DEF Finished
<1>2. Init'
  BY <1>1 DEF Init
<1>3. (Init => PInv)'
  BY InitPInv, PTL
<1> QED
  BY <1>2, <1>3

LEMMA StepPInv == PInv /\ [Next]_vars => PInv'
<1> SUFFICES ASSUME PInv, [Next]_vars PROVE PInv'
  OBVIOUS
<1>1. ASSUME NEW k \in Kinds, Request(k) PROVE PInv'
  BY <1>1, RequestKeeps
<1>2. CASE \/ \E status \in Statuses, about \in Bodies : Refused(status, about)
           \/ \E what \in {"text", "plain", "bad"} : Answered(what)
           \/ \E class \in {"network_timeout", "provider_unavailable"} : Broken(class)
  BY <1>2, EndsKeep
<1>3. ASSUME NEW line \in Lines, Line(line) PROVE PInv'
  BY <1>3, LineKeeps
<1>4. CASE EndOfBody
  BY <1>4, EndOfBodyKeeps
<1>5. CASE Finished
  BY <1>5, FinishedKeeps
<1>6. CASE UNCHANGED vars
  <2>1. kind' = kind /\ body' = body /\ buffer' = buffer /\ out' = out /\ outcome' = outcome
    BY <1>6 DEF vars
  <2>2. AnswersDelivered'
    BY <2>1, DeliversNow, DeliversNext DEF PInv
  <2>3. Collected'
    BY <2>1 DEF PInv, Collected, CollectedFrom, Open, Held
  <2>4. Framed'
    BY <2>1 DEF PInv, Framed
  <2>5. PTypeOK'
    BY <2>1 DEF PInv, PTypeOK
  <2> QED
    BY <2>1, <2>2, <2>3, <2>4, <2>5 DEF PInv
<1> QED
  BY <1>1, <1>2, <1>3, <1>4, <1>5, <1>6 DEF Next

LEMMA AlwaysPInv == Spec => []PInv
<1>1. Init => PInv
  BY InitPInv
<1>2. PInv /\ [Next]_vars => PInv'
  BY StepPInv
<1> QED
  BY <1>1, <1>2, PTL DEF Spec

-----------------------------------------------------------------------------
(* Theorems *)

(* Whatever the lines of an answer are and however many, the parsers hand on    *)
(* the answers in it, each once, each when its event is over, in the order of  *)
(* the body, and no line of one event in another.                             *)
THEOREM AlwaysAnswersDelivered == Spec => []AnswersDelivered
<1>1. PInv => AnswersDelivered
  BY DEF PInv
<1> QED
  BY <1>1, AlwaysPInv, PTL

(* A stream that ended well by the parser's own chunk has begun with the role   *)
(* and text, however long it was.                                             *)
THEOREM AlwaysEndsAfterText == Spec => []EndsAfterText
<1>1. ASSUME PInv PROVE EndsAfterText
  <2> SUFFICES ASSUME kind \in {"gemini", "code_assist"}, outcome = "streamed"
               PROVE  /\ out[1].what = "role" /\ out[2].what = "text"
                      /\ \A i \in DOMAIN out \ {1} : out[i].what # "role"
                      /\ \A i \in DOMAIN out : out[i].what = "end" <=> i = Len(out)
    BY DEF EndsAfterText
  <2>1. WellBegun(out, TRUE) /\ out # <<>>
    BY <1>1 DEF PInv, Framed
  <2>2. DOMAIN out = 1 .. Len(out) /\ Len(out) \in Nat
    BY <1>1 DEF PInv, PTypeOK
  <2>3. \A i \in DOMAIN out \ {1} : i \in 2 .. Len(out)
    BY <2>2
  <2> QED
    BY <2>1, <2>2, <2>3 DEF WellBegun
<1> QED
  BY <1>1, AlwaysPInv, PTL

=============================================================================
