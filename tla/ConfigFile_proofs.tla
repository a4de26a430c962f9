--------------------------- MODULE ConfigFile_proofs ---------------------------
(***************************************************************************)
(* Theorems about config.yaml and those who write it.                         *)
(*                                                                           *)
(* IInv adds to the properties what the sessions remember: each was shown a    *)
(* file as a load leaves it, and the panel of a key holds the key it was shown *)
(* at its number.  Of a step it is shown that it reads, or writes a file that  *)
(* is harmless unless it was overtaken (Writes): one section changes, ids stay *)
(* apart, and no key is lost but those asked about.  The lemmas before that    *)
(* are about lists of keys: what a comprehension, a removal, an appended or a  *)
(* replaced key does to their ids.                                            *)
(***************************************************************************)
EXTENDS ConfigFile, FiniteSetTheorems, SequenceTheorems, WellFoundedInduction, TLAPS

-----------------------------------------------------------------------------
(* Parts of a list *)

(* The least of some natural numbers is one of them.                          *)
LEMMA LeastPlace ==
  ASSUME NEW S, S \subseteq Nat, S # {}
  PROVE  Min(S) \in S /\ \A y \in S : Min(S) =< y
<1>1. IsWellFoundedOn(OpToRel(<, Nat), Nat)
  BY NatLessThanWellFounded, Zenon
<1>2. PICK x \in S : \A y \in S : <<y, x>> \notin OpToRel(<, Nat)
  BY <1>1, WFMin, Zenon
<1>3. \A y \in S : x =< y
  <2> SUFFICES ASSUME NEW y \in S, ~ (x =< y) PROVE FALSE
    OBVIOUS
  <2>1. y < x /\ x \in Nat /\ y \in Nat
    OBVIOUS
  <2>2. <<y, x>> \in OpToRel(<, Nat)
    BY <2>1, Zenon DEF OpToRel
  <2> QED
    BY <1>2, <2>2
<1> QED
  BY <1>3 DEF Min

(* So is the greatest of some of the first n.                                 *)
LEMMA GreatestPlace ==
  ASSUME NEW n \in Nat, NEW S, S \subseteq 1 .. n, S # {}
  PROVE  Max(S) \in S
<1> DEFINE gaps == {n - x : x \in S}
<1>1. gaps \subseteq Nat /\ gaps # {}
  <2>1. \A x \in S : n - x \in Nat
    OBVIOUS
  <2> QED
    BY <2>1
<1>2. PICK x \in S : \A y \in gaps : n - x =< y
  <2> HIDE DEF gaps
  <2>1. Min(gaps) \in gaps /\ \A y \in gaps : Min(gaps) =< y
    BY <1>1, LeastPlace
  <2> QED
    BY <2>1 DEF gaps
<1>3. \A y \in S : x >= y
  <2> SUFFICES ASSUME NEW y \in S PROVE x >= y
    OBVIOUS
  <2>1. n - y \in gaps
    OBVIOUS
  <2>2. n - x =< n - y
    BY <1>2, <2>1
  <2> QED
    BY <2>2
<1> QED
  BY <1>3 DEF Max

(* The list part holds the elements of list at these places, each once: the   *)
(* i-th of them is the one at at[i].                                          *)
PicksOut(list, places, part, at) ==
  /\ at \in [1 .. Len(part) -> places]
  /\ \A i \in 1 .. Len(part) : part[i] = list[at[i]]
  /\ \A i, j \in 1 .. Len(part) : at[i] = at[j] => i = j
  /\ \A n \in places : \E i \in 1 .. Len(part) : at[i] = n

(* One more element is at one more place.                                     *)
LEMMA PicksOneMore ==
  ASSUME NEW T, NEW list \in Seq(T), NEW part \in Seq(T), NEW places, NEW at,
         PicksOut(list, places, part, at), NEW n \in 1 .. Len(list), n \notin places
  PROVE  \E more : PicksOut(list, places \cup {n}, Append(part, list[n]), more)
<1> DEFINE m == Len(part)
           longer == Append(part, list[n])
           more == [i \in 1 .. m + 1 |-> IF i = m + 1 THEN n ELSE at[i]]
<1>1. /\ m \in Nat /\ Len(longer) = m + 1 /\ longer[m + 1] = list[n]
      /\ \A i \in 1 .. m : longer[i] = part[i]
  OBVIOUS
<1>2. /\ at \in [1 .. m -> places]
      /\ \A i \in 1 .. m : part[i] = list[at[i]]
      /\ \A i, j \in 1 .. m : at[i] = at[j] => i = j
      /\ \A p \in places : \E i \in 1 .. m : at[i] = p
  BY DEF PicksOut
<1> HIDE DEF m, longer
<1>3. more \in [1 .. m + 1 -> places \cup {n}]
  BY <1>1, <1>2
<1>4. more[m + 1] = n /\ \A i \in 1 .. m : more[i] = at[i] /\ more[i] # n
  BY <1>1, <1>2
<1>5. \A i \in 1 .. m + 1 : i = m + 1 \/ i \in 1 .. m
  BY <1>1
<1>6. m + 1 \in 1 .. m + 1 /\ \A i \in 1 .. m : i \in 1 .. m + 1
  BY <1>1
<1> HIDE DEF more
<1>7. PicksOut(list, places \cup {n}, longer, more)
  <2>1. \A i \in 1 .. m + 1 : longer[i] = list[more[i]]
    BY <1>1, <1>2, <1>4, <1>5
  <2>2. \A i, j \in 1 .. m + 1 : more[i] = more[j] => i = j
    BY <1>2, <1>4, <1>5
  <2>3. \A p \in places \cup {n} : \E i \in 1 .. m + 1 : more[i] = p
    BY <1>2, <1>4, <1>6
  <2> QED
    BY <1>1, <1>3, <2>1, <2>2, <2>3 DEF PicksOut
<1> QED
  BY <1>7 DEF longer

(* What the loop of Selected has after each of the first n elements. *)
KeptUpTo(list, places, kept, n) ==
  kept = [m \in 0 .. n |->
            IF m = 0 THEN <<>>
            ELSE IF m \in places THEN Append(kept[m - 1], list[m]) ELSE kept[m - 1]]

(* The loop gets there: were there a first element it does not get to, it      *)
(* would get there from the one before.  (This and the next proof are the      *)
(* induction over the list that the recursive function calls for.)            *)
LEMMA KeptDefined ==
  ASSUME NEW list, NEW places, NEW n \in Nat
  PROVE  \E kept : KeptUpTo(list, places, kept, n)
<1> DEFINE bad == {m \in Nat : ~ \E kept : KeptUpTo(list, places, kept, m)}
<1>1. SUFFICES ASSUME bad # {} PROVE FALSE
  OBVIOUS
<1>2. PICK m \in bad : \A l \in bad : m <= l
  BY <1>1, LeastPlace
<1>3. KeptUpTo(list, places, [l \in 0 .. 0 |-> <<>>], 0)
  BY DEF KeptUpTo
<1>4. m # 0 /\ m - 1 \in Nat
  BY <1>2, <1>3
<1>5. PICK kept : KeptUpTo(list, places, kept, m - 1)
  <2>1. m - 1 \notin bad
    BY <1>2, <1>4
  <2> QED
    BY <1>4, <2>1
<1> DEFINE more == [l \in 0 .. m |->
                      IF l < m THEN kept[l]
                      ELSE IF m \in places THEN Append(kept[m - 1], list[m])
                      ELSE kept[m - 1]]
<1>6. KeptUpTo(list, places, more, m)
  <2>1. \A l \in 0 .. m - 1 :
          kept[l] = IF l = 0 THEN <<>>
                    ELSE IF l \in places THEN Append(kept[l - 1], list[l]) ELSE kept[l - 1]
    BY <1>5 DEF KeptUpTo
  <2>2. \A l \in 0 .. m :
          more[l] = IF l = 0 THEN <<>>
                    ELSE IF l \in places THEN Append(more[l - 1], list[l]) ELSE more[l - 1]
    <3> SUFFICES ASSUME NEW l \in 0 .. m
                 PROVE  more[l] = IF l = 0 THEN <<>>
                                  ELSE IF l \in places THEN Append(more[l - 1], list[l])
                                  ELSE more[l - 1]
      OBVIOUS
    <3>1. CASE l = m
      <4>1. more[l - 1] = kept[m - 1]
        BY <1>4, <3>1
      <4> QED
        BY <1>4, <3>1, <4>1
    <3>2. CASE l # m
      <4>1. l \in 0 .. m - 1 /\ more[l] = kept[l]
        BY <1>4, <3>2
      <4>2. l # 0 => more[l - 1] = kept[l - 1]
        BY <1>4, <3>2
      <4> HIDE DEF more
      <4> QED
        BY <2>1, <4>1, <4>2
    <3> QED
      BY <3>1, <3>2
  <2>3. more = [l \in 0 .. m |-> more[l]]
    OBVIOUS
  <2> HIDE DEF more
  <2> QED
    BY <2>2, <2>3 DEF KeptUpTo
<1> QED
  BY <1>2, <1>6

(* A comprehension keeps the elements at the places it selects.               *)
LEMMA SelectedPicks ==
  ASSUME NEW T, NEW list \in Seq(T), NEW places, places \subseteq 1 .. Len(list)
  PROVE  /\ Selected(list, places) \in Seq(T)
         /\ \E at : PicksOut(list, places, Selected(list, places), at)
<1> DEFINE n == Len(list)
           kept == CHOOSE f : KeptUpTo(list, places, f, n)
           upTo(m) == places \cap (1 .. m)
           good(m) == kept[m] \in Seq(T) /\ \E at : PicksOut(list, upTo(m), kept[m], at)
<1>1. n \in Nat /\ \A m \in 1 .. n : list[m] \in T
  OBVIOUS
<1>2. Selected(list, places) = kept[n]
  BY DEF Selected, KeptUpTo
<1> HIDE DEF n
<1>3. KeptUpTo(list, places, kept, n)
  BY <1>1, KeptDefined
<1> HIDE DEF kept
<1>4. \A m \in 0 .. n :
        kept[m] = IF m = 0 THEN <<>>
                  ELSE IF m \in places THEN Append(kept[m - 1], list[m]) ELSE kept[m - 1]
  BY <1>3 DEF KeptUpTo
<1> DEFINE bad == {m \in 0 .. n : ~ good(m)}
<1>5. bad = {}
  <2> SUFFICES ASSUME bad # {} PROVE FALSE
    OBVIOUS
  <2>1. bad \subseteq Nat
    BY <1>1
  <2>2. PICK m \in bad : \A l \in bad : m <= l
    <3> HIDE DEF bad
    <3> QED
      BY <2>1, LeastPlace
  <2>3. m # 0
    <3>1. kept[0] = <<>> /\ upTo(0) = {}
      BY <1>1, <1>4
    <3>2. <<>> \in Seq(T) /\ PicksOut(list, {}, <<>>, <<>>)
      BY DEF PicksOut
    <3> QED
      BY <2>2, <3>1, <3>2
  <2>4. m - 1 \in 0 .. n /\ m \in 1 .. n /\ m \in Nat /\ good(m - 1)
    <3>1. m - 1 \in 0 .. n /\ m \in 1 .. n /\ m \in Nat /\ ~ (m <= m - 1)
      BY <1>1, <2>2, <2>3
    <3>2. m - 1 \notin bad
      <4> HIDE DEF bad
      <4> QED
        BY <2>2, <3>1
    <3> QED
      BY <3>1, <3>2
  <2>5. kept[m] = IF m \in places THEN Append(kept[m - 1], list[m]) ELSE kept[m - 1]
    BY <1>4, <2>3, <2>4
  <2>6. PICK at : PicksOut(list, upTo(m - 1), kept[m - 1], at)
    BY <2>4
  <2>7. good(m)
    <3>1. CASE m \in places
      <4>1. upTo(m) = upTo(m - 1) \cup {m} /\ m \notin upTo(m - 1)
        BY <2>4, <3>1
      <4>2. kept[m] = Append(kept[m - 1], list[m]) /\ list[m] \in T
        BY <1>1, <2>4, <2>5, <3>1
      <4>3. \E more : PicksOut(list, upTo(m - 1) \cup {m}, Append(kept[m - 1], list[m]), more)
        <5>1. m \in 1 .. Len(list) /\ kept[m - 1] \in Seq(T)
          BY <2>4 DEF n
        <5> HIDE DEF upTo
        <5> QED
          BY <2>6, <4>1, <5>1, PicksOneMore
      <4>4. kept[m] \in Seq(T)
        BY <2>4, <4>2
      <4> QED
        BY <4>1, <4>2, <4>3, <4>4
    <3>2. CASE m \notin places
      <4>1. upTo(m) = upTo(m - 1) /\ kept[m] = kept[m - 1]
        BY <2>4, <2>5, <3>2
      <4> QED
        BY <2>4, <4>1
    <3> QED
      BY <3>1, <3>2
  <2> QED
    BY <2>2, <2>7
<1>6. good(n)
  BY <1>1, <1>5
<1>7. upTo(n) = places
  BY DEF n
<1> QED
  BY <1>2, <1>6, <1>7

(* Removing an element keeps the others.                                      *)
LEMMA RemovedPicks ==
  ASSUME NEW T, NEW list \in Seq(T), NEW n \in 1 .. Len(list)
  PROVE  /\ RemoveAt(list, n) \in Seq(T)
         /\ Len(RemoveAt(list, n)) = Len(list) - 1
         /\ \E at : PicksOut(list, (1 .. Len(list)) \ {n}, RemoveAt(list, n), at)
<1> DEFINE m == Len(list)
           low == SubSeq(list, 1, n - 1)
           high == SubSeq(list, n + 1, m)
           part == low \o high
           at == [i \in 1 .. m - 1 |-> IF i < n THEN i ELSE i + 1]
<1>1. /\ m \in Nat /\ n \in Nat /\ low \in Seq(T) /\ high \in Seq(T)
      /\ Len(low) = n - 1 /\ Len(high) = m - n
      /\ \A i \in 1 .. n - 1 : low[i] = list[i]
      /\ \A i \in 1 .. m - n : high[i] = list[n + i]
  OBVIOUS
<1>2. RemoveAt(list, n) = part
  BY DEF RemoveAt
<1> HIDE DEF low, high
<1>3. part \in Seq(T) /\ Len(part) = m - 1
  <2>1. part \in Seq(T)
    BY <1>1
  <2>2. Len(part) = Len(low) + Len(high)
    BY <1>1, ConcatProperties
  <2> QED
    BY <1>1, <2>1, <2>2
<1>4. \A i \in 1 .. m - 1 : part[i] = list[at[i]]
  <2> SUFFICES ASSUME NEW i \in 1 .. m - 1 PROVE part[i] = list[at[i]]
    OBVIOUS
  <2>1. CASE i < n
    <3>1. i \in 1 .. n - 1 /\ part[i] = low[i]
      BY <1>1, <2>1
    <3> QED
      BY <1>1, <2>1, <3>1
  <2>2. CASE ~ (i < n)
    <3>1. i - (n - 1) \in 1 .. m - n /\ part[i] = high[i - (n - 1)]
      BY <1>1, <2>2
    <3>2. n + (i - (n - 1)) = i + 1
      BY <1>1
    <3> QED
      BY <1>1, <2>2, <3>1, <3>2
  <2> QED
    BY <2>1, <2>2
<1> HIDE DEF part, m
<1>5. at \in [1 .. m - 1 -> (1 .. m) \ {n}]
  BY <1>1
<1>6. \A i, j \in 1 .. m - 1 : at[i] = at[j] => i = j
  BY <1>1
<1>7. \A p \in (1 .. m) \ {n} : \E i \in 1 .. m - 1 : at[i] = p
  <2> SUFFICES ASSUME NEW p \in (1 .. m) \ {n} PROVE \E i \in 1 .. m - 1 : at[i] = p
    OBVIOUS
  <2>0. n \in 1 .. m
    BY DEF m
  <2>1. CASE p < n
    <3>1. p \in 1 .. m - 1 /\ at[p] = p
      BY <1>1, <2>0, <2>1
    <3> QED
      BY <3>1
  <2>2. CASE ~ (p < n)
    <3>1. p - 1 \in 1 .. m - 1 /\ at[p - 1] = p
      BY <1>1, <2>0, <2>2
    <3> QED
      BY <3>1
  <2> QED
    BY <2>1, <2>2
<1> HIDE DEF at
<1>8. PicksOut(list, (1 .. m) \ {n}, part, at)
  BY <1>3, <1>4, <1>5, <1>6, <1>7 DEF PicksOut
<1> QED
  BY <1>2, <1>3, <1>8 DEF m

(* Inserting an element, and replacing one, give a list of the same kind.     *)
LEMMA InsertedType ==
  ASSUME NEW T, NEW list \in Seq(T), NEW n \in 1 .. Len(list) + 1, NEW x \in T
  PROVE  InsertAt(list, n, x) \in Seq(T)
<1>1. SubSeq(list, 1, n - 1) \in Seq(T) /\ SubSeq(list, n, Len(list)) \in Seq(T)
  OBVIOUS
<1>2. <<x>> \in Seq(T)
  OBVIOUS
<1> DEFINE low == SubSeq(list, 1, n - 1)
           high == SubSeq(list, n, Len(list))
<1> HIDE DEF low, high
<1>3. (low \o <<x>>) \o high \in Seq(T)
  BY <1>1, <1>2 DEF low, high
<1>4. InsertAt(list, n, x) = (low \o <<x>>) \o high
  BY DEF InsertAt, low, high
<1> QED
  BY <1>3, <1>4

LEMMA ReplacedType ==
  ASSUME NEW T, NEW list \in Seq(T), NEW n, NEW x \in T
  PROVE  [list EXCEPT ![n] = x] \in Seq(T)
<1>1. Len(list) \in Nat /\ list \in [1 .. Len(list) -> T]
  OBVIOUS
<1>2. [list EXCEPT ![n] = x] \in [1 .. Len(list) -> T]
  BY <1>1
<1> QED
  BY <1>1, <1>2, SeqDef

-----------------------------------------------------------------------------
(* Keys and their ids *)

IdsOf(list) == {list[i].id : i \in 1 .. Len(list)}

DistinctIds(list) == \A i, j \in 1 .. Len(list) : list[i].id = list[j].id => i = j

(* No two keys of the file have one id. *)
Apart(keys) ==
  /\ \A p \in ProviderNames : DistinctIds(keys[p])
  /\ \A p, q \in ProviderNames : p # q => IdsOf(keys[p]) \cap IdsOf(keys[q]) = {}

KeyTable == [ProviderNames -> Seq(Key)]

(* Picking keys out of a list adds no id, and keeps ids distinct.             *)
LEMMA PickedKeys ==
  ASSUME NEW keys \in Seq(Key), NEW part \in Seq(Key), NEW places, NEW at,
         places \subseteq 1 .. Len(keys), PicksOut(keys, places, part, at)
  PROVE  /\ \A n \in places : keys[n] \in ToSet(part)
         /\ IdsOf(part) = {keys[n].id : n \in places}
         /\ DistinctIds(keys) => DistinctIds(part)
<1>1. /\ at \in [1 .. Len(part) -> places]
      /\ \A i \in 1 .. Len(part) : part[i] = keys[at[i]] /\ at[i] \in 1 .. Len(keys)
      /\ \A i, j \in 1 .. Len(part) : at[i] = at[j] => i = j
      /\ \A n \in places : \E i \in 1 .. Len(part) : at[i] = n
  BY DEF PicksOut
<1>2. \A n \in places : keys[n] \in ToSet(part)
  BY <1>1 DEF ToSet
<1>3. IdsOf(part) = {keys[n].id : n \in places}
  <2>1. ASSUME NEW id \in IdsOf(part) PROVE id \in {keys[n].id : n \in places}
    <3>1. PICK i \in 1 .. Len(part) : id = part[i].id
      BY DEF IdsOf
    <3>2. at[i] \in places /\ id = keys[at[i]].id
      BY <1>1, <3>1
    <3> QED
      BY <3>2
  <2>2. ASSUME NEW n \in places PROVE keys[n].id \in IdsOf(part)
    <3>1. PICK i \in 1 .. Len(part) : at[i] = n
      BY <1>1
    <3>2. keys[n].id = part[i].id
      BY <1>1, <3>1
    <3> QED
      BY <3>2 DEF IdsOf
  <2> QED
    BY <2>1, <2>2
<1>4. DistinctIds(keys) => DistinctIds(part)
  BY <1>1 DEF DistinctIds
<1> QED
  BY <1>2, <1>3, <1>4

(* IdsUnique, provider by provider.                                           *)
LEMMA UniqueApart ==
  ASSUME NEW file, file.keys \in KeyTable
  PROVE  IdsUnique(file) <=> Apart(file.keys)
<1> DEFINE keys == file.keys
<1>0. \A p \in ProviderNames : DOMAIN keys[p] = 1 .. Len(keys[p])
  BY DEF KeyTable
<1>1. IdsUnique(file)
        <=> \A p, q \in ProviderNames : \A i \in 1 .. Len(keys[p]), j \in 1 .. Len(keys[q]) :
              <<p, i>> # <<q, j>> => keys[p][i].id # keys[q][j].id
  <2>1. \A a : a \in KeysOf(file)
                <=> \E p \in ProviderNames : \E i \in 1 .. Len(keys[p]) : a = <<p, i>>
    BY <1>0 DEF KeysOf
  <2>2. \A p, i : IdAt(file, <<p, i>>) = keys[p][i].id
    BY DEF IdAt
  <2>3. ASSUME IdsUnique(file), NEW p \in ProviderNames, NEW q \in ProviderNames,
               NEW i \in 1 .. Len(keys[p]), NEW j \in 1 .. Len(keys[q]), <<p, i>> # <<q, j>>
        PROVE  keys[p][i].id # keys[q][j].id
    <3>1. <<p, i>> \in KeysOf(file) /\ <<q, j>> \in KeysOf(file)
      BY <2>1
    <3>2. IdAt(file, <<p, i>>) # IdAt(file, <<q, j>>)
      BY <2>3, <3>1 DEF IdsUnique
    <3> QED
      BY <2>2, <3>2
  <2>4. ASSUME \A p, q \in ProviderNames : \A i \in 1 .. Len(keys[p]), j \in 1 .. Len(keys[q]) :
                 <<p, i>> # <<q, j>> => keys[p][i].id # keys[q][j].id,
               NEW a \in KeysOf(file), NEW b \in KeysOf(file), a # b
        PROVE  IdAt(file, a) # IdAt(file, b)
    <3>1. PICK p \in ProviderNames : \E i \in 1 .. Len(keys[p]) : a = <<p, i>>
      BY <2>1
    <3>2. PICK i \in 1 .. Len(keys[p]) : a = <<p, i>>
      BY <3>1
    <3>3. PICK q \in ProviderNames : \E j \in 1 .. Len(keys[q]) : b = <<q, j>>
      BY <2>1
    <3>4. PICK j \in 1 .. Len(keys[q]) : b = <<q, j>>
      BY <3>3
    <3>5. keys[p][i].id # keys[q][j].id
      BY <2>4, <3>2, <3>4
    <3> QED
      BY <2>2, <3>2, <3>4, <3>5
  <2> QED
    BY <2>3, <2>4 DEF IdsUnique
<1>2. ASSUME Apart(keys),
             NEW p \in ProviderNames, NEW q \in ProviderNames,
             NEW i \in 1 .. Len(keys[p]), NEW j \in 1 .. Len(keys[q]), <<p, i>> # <<q, j>>
      PROVE  keys[p][i].id # keys[q][j].id
  <2>1. CASE p = q
    BY <1>2, <2>1 DEF Apart, DistinctIds
  <2>2. CASE p # q
    BY <1>2, <2>2 DEF Apart, IdsOf
  <2> QED
    BY <2>1, <2>2
<1>3. ASSUME \A p, q \in ProviderNames : \A i \in 1 .. Len(keys[p]), j \in 1 .. Len(keys[q]) :
               <<p, i>> # <<q, j>> => keys[p][i].id # keys[q][j].id
      PROVE  Apart(keys)
  <2>1. ASSUME NEW p \in ProviderNames PROVE DistinctIds(keys[p])
    BY <1>3 DEF DistinctIds
  <2>2. ASSUME NEW p \in ProviderNames, NEW q \in ProviderNames, p # q
        PROVE  IdsOf(keys[p]) \cap IdsOf(keys[q]) = {}
    BY <1>3, <2>2 DEF IdsOf
  <2> QED
    BY <2>1, <2>2 DEF Apart
<1> QED
  BY <1>1, <1>2, <1>3

(* Keeping some keys keeps ids apart.                                         *)
LEMMA ApartFewer ==
  ASSUME NEW keys, Apart(keys), NEW fewer,
         \A p \in ProviderNames : DistinctIds(fewer[p]) /\ IdsOf(fewer[p]) \subseteq IdsOf(keys[p])
  PROVE  Apart(fewer)
BY DEF Apart

(* So does giving a provider other keys, if their ids are its own or nobody's. *)
LEMMA ApartReplaced ==
  ASSUME NEW keys \in KeyTable, Apart(keys), NEW p \in ProviderNames, NEW list,
         DistinctIds(list),
         \A q \in ProviderNames \ {p} : IdsOf(list) \cap IdsOf(keys[q]) = {}
  PROVE  Apart([keys EXCEPT ![p] = list])
<1> DEFINE new == [keys EXCEPT ![p] = list]
<1>1. \A q \in ProviderNames : new[q] = IF q = p THEN list ELSE keys[q]
  BY DEF KeyTable
<1> HIDE DEF new
<1>2. \A q \in ProviderNames : DistinctIds(new[q])
  BY <1>1 DEF Apart
<1>3. ASSUME NEW q \in ProviderNames, NEW r \in ProviderNames, q # r
      PROVE  IdsOf(new[q]) \cap IdsOf(new[r]) = {}
  <2>1. CASE q = p
    BY <1>1, <1>3, <2>1
  <2>2. CASE r = p
    BY <1>1, <1>3, <2>2
  <2>3. CASE q # p /\ r # p
    BY <1>1, <1>3, <2>3 DEF Apart
  <2> QED
    BY <2>1, <2>2, <2>3
<1> QED
  BY <1>2, <1>3 DEF Apart, new

(* One more key has one more id, and is with the others.                      *)
LEMMA AppendedKey ==
  ASSUME NEW keys \in Seq(Key), NEW key \in Key
  PROVE  /\ Append(keys, key) \in Seq(Key)
         /\ IdsOf(Append(keys, key)) = IdsOf(keys) \cup {key.id}
         /\ DistinctIds(keys) /\ key.id \notin IdsOf(keys) => DistinctIds(Append(keys, key))
         /\ ToSet(keys) \subseteq ToSet(Append(keys, key))
<1> DEFINE n == Len(keys)
           more == Append(keys, key)
<1>1. /\ n \in Nat /\ more \in Seq(Key) /\ Len(more) = n + 1 /\ more[n + 1] = key
      /\ \A i \in 1 .. n : more[i] = keys[i]
  OBVIOUS
<1> HIDE DEF more
<1>2. \A i : i \in 1 .. n + 1 <=> i \in 1 .. n \/ i = n + 1
  BY <1>1
<1> HIDE DEF n
<1>3. IdsOf(more) = IdsOf(keys) \cup {key.id}
  BY <1>1, <1>2 DEF IdsOf, n
<1>4. DistinctIds(keys) /\ key.id \notin IdsOf(keys) => DistinctIds(more)
  BY <1>1, <1>2 DEF IdsOf, DistinctIds, n
<1>5. ToSet(keys) \subseteq ToSet(more)
  BY <1>1, <1>2 DEF ToSet, n
<1> QED
  BY <1>1, <1>3, <1>4, <1>5 DEF more

(* A key in the place of another changes one id at most.                      *)
LEMMA ReplacedKey ==
  ASSUME NEW keys \in Seq(Key), NEW key \in Key, NEW n \in 1 .. Len(keys)
  PROVE  LET new == [keys EXCEPT ![n] = key]
         IN  /\ new \in Seq(Key) /\ Len(new) = Len(keys) /\ new[n] = key
             /\ \A i \in 1 .. Len(keys) : i # n => new[i] = keys[i]
             /\ IdsOf(new) \subseteq IdsOf(keys) \cup {key.id}
             /\ DistinctIds(keys) /\ (key.id = keys[n].id \/ key.id \notin IdsOf(keys))
                  => DistinctIds(new)
<1> DEFINE new == [keys EXCEPT ![n] = key]
<1>1. new \in Seq(Key)
  BY ReplacedType
<1>2. /\ Len(new) = Len(keys) /\ new[n] = key
      /\ \A i \in 1 .. Len(keys) : i # n => new[i] = keys[i]
  OBVIOUS
<1> HIDE DEF new
<1>3. IdsOf(new) \subseteq IdsOf(keys) \cup {key.id}
  BY <1>2 DEF IdsOf
<1>4. DistinctIds(keys) /\ (key.id = keys[n].id \/ key.id \notin IdsOf(keys)) => DistinctIds(new)
  BY <1>2 DEF IdsOf, DistinctIds
<1> QED
  BY <1>1, <1>2, <1>3, <1>4 DEF new

-----------------------------------------------------------------------------
(* Loaded files *)

LoadedKey == {k \in Key : k.value # "variable"}

Entry == Items \cup {BadItem}

ListTable ==
  {l \in [Lists -> Seq(Entry) \cup {NULL}] : \A x \in Lists \ {"chain"} : l[x] \in Seq(Entry)}

(* A file as it is after a load: no variables, and no setting missing.        *)
LoadedFile ==
  [keys     : [ProviderNames -> Seq(LoadedKey)],
   open     : [ProviderNames -> BOOLEAN],
   lists    : ListTable,
   settings : [Settings -> Values]]

LEMMA LoadedKeyType ==
  /\ LoadedKey \subseteq Key
  /\ \A k \in Key : Expand(k) \in LoadedKey /\ Expand(k).id = k.id
                    /\ (Configured(Expand(k)) <=> Configured(k))
  /\ \A k \in LoadedKey : Expand(k) = k
  /\ \A list \in Seq(LoadedKey) : list \in Seq(Key)
  /\ \A id \in Ids : NewKey(id) \in LoadedKey /\ NewKey(id).id = id
<1>1. LoadedKey \subseteq Key
  BY DEF LoadedKey
<1>2. \A k \in Key : Expand(k) \in LoadedKey /\ Expand(k).id = k.id
                     /\ (Configured(Expand(k)) <=> Configured(k))
  BY DEF LoadedKey, Key, KeyValue, Expand, Configured
<1>3. \A k \in LoadedKey : Expand(k) = k
  BY DEF LoadedKey, Expand
<1>4. \A list \in Seq(LoadedKey) : list \in Seq(Key)
  BY <1>1
<1>5. \A id \in Ids : NewKey(id) \in LoadedKey /\ NewKey(id).id = id
  BY DEF LoadedKey, Key, KeyValue, NewKey
<1> QED
  BY <1>1, <1>2, <1>3, <1>4, <1>5

LEMMA FileParts ==
  ASSUME NEW file \in File
  PROVE  /\ file = [keys |-> file.keys, open |-> file.open,
                    lists |-> file.lists, settings |-> file.settings]
         /\ file.keys \in KeyTable
         /\ file.open \in [ProviderNames -> BOOLEAN]
         /\ file.lists \in ListTable
         /\ file.settings \in [Settings -> Values \cup {NULL}]
BY DEF File, KeyTable, ListTable, Entry

LEMMA LoadedParts ==
  ASSUME NEW file \in LoadedFile
  PROVE  /\ file = [keys |-> file.keys, open |-> file.open,
                    lists |-> file.lists, settings |-> file.settings]
         /\ file.keys \in [ProviderNames -> Seq(LoadedKey)]
         /\ file.keys \in KeyTable
         /\ file.open \in [ProviderNames -> BOOLEAN]
         /\ file.lists \in ListTable
         /\ file.settings \in [Settings -> Values]
         /\ file \in File
<1>1. /\ file = [keys |-> file.keys, open |-> file.open,
                 lists |-> file.lists, settings |-> file.settings]
      /\ file.keys \in [ProviderNames -> Seq(LoadedKey)]
      /\ file.open \in [ProviderNames -> BOOLEAN]
      /\ file.lists \in ListTable
      /\ file.settings \in [Settings -> Values]
  BY DEF LoadedFile
<1>2. file.keys \in KeyTable
  BY <1>1, LoadedKeyType DEF KeyTable
<1>3. file \in File
  <2>1. file.settings \in [Settings -> Values \cup {NULL}]
    BY <1>1
  <2>2. [keys |-> file.keys, open |-> file.open,
         lists |-> file.lists, settings |-> file.settings] \in File
    BY <1>1, <1>2, <2>1 DEF File, KeyTable, ListTable, Entry
  <2> QED
    BY <1>1, <2>2
<1> QED
  BY <1>1, <1>2, <1>3

(* What a load does to the keys: it looks up variables, and nothing else.     *)
LEMMA LoadedKeys ==
  ASSUME NEW file \in File
  PROVE  /\ Load(file).keys \in [ProviderNames -> Seq(LoadedKey)]
         /\ \A p \in ProviderNames :
              /\ DOMAIN file.keys[p] = 1 .. Len(file.keys[p])
              /\ Len(Load(file).keys[p]) = Len(file.keys[p])
              /\ \A i \in 1 .. Len(file.keys[p]) :
                   /\ file.keys[p][i] \in Key
                   /\ Load(file).keys[p][i] = Expand(file.keys[p][i])
                   /\ Load(file).keys[p][i].id = file.keys[p][i].id
              /\ IdsOf(Load(file).keys[p]) = IdsOf(file.keys[p])
         /\ Apart(Load(file).keys) <=> Apart(file.keys)
<1> DEFINE keys == file.keys
           new == [p \in ProviderNames |-> [i \in DOMAIN keys[p] |-> Expand(keys[p][i])]]
<1>1. keys \in [ProviderNames -> Seq(Key)]
  BY FileParts DEF KeyTable
<1>2. Load(file).keys = new
  BY DEF Load, File
<1> HIDE DEF keys
<1>3. \A p \in ProviderNames :
        /\ DOMAIN keys[p] = 1 .. Len(keys[p]) /\ Len(keys[p]) \in Nat
        /\ \A i \in 1 .. Len(keys[p]) : keys[p][i] \in Key
  BY <1>1
<1>4. ASSUME NEW p \in ProviderNames
      PROVE  /\ new[p] \in Seq(LoadedKey)
             /\ Len(new[p]) = Len(keys[p])
             /\ \A i \in 1 .. Len(keys[p]) :
                  new[p][i] = Expand(keys[p][i]) /\ new[p][i].id = keys[p][i].id
  <2>1. new[p] = [i \in 1 .. Len(keys[p]) |-> Expand(keys[p][i])]
    BY <1>3
  <2>2. \A i \in 1 .. Len(keys[p]) :
          Expand(keys[p][i]) \in LoadedKey /\ Expand(keys[p][i]).id = keys[p][i].id
    BY <1>3, LoadedKeyType
  <2> HIDE DEF new
  <2>3. new[p] \in [1 .. Len(keys[p]) -> LoadedKey]
    BY <2>1, <2>2
  <2>4. new[p] \in Seq(LoadedKey)
    BY <1>3, <2>3, SeqDef
  <2>5. Len(new[p]) = Len(keys[p])
    BY <1>3, <2>1, <2>4
  <2> QED
    BY <2>1, <2>2, <2>4, <2>5
<1>5. new \in [ProviderNames -> Seq(LoadedKey)]
  BY <1>4
<1> HIDE DEF new
<1>6. \A p \in ProviderNames : IdsOf(new[p]) = IdsOf(keys[p])
  BY <1>4 DEF IdsOf
<1>7. \A p \in ProviderNames : DistinctIds(new[p]) <=> DistinctIds(keys[p])
  BY <1>4 DEF DistinctIds
<1>8. Apart(new) <=> Apart(keys)
  BY <1>6, <1>7 DEF Apart
<1> QED
  BY <1>2, <1>3, <1>4, <1>5, <1>6, <1>8 DEF keys

LEMMA LoadType ==
  ASSUME NEW file \in File
  PROVE  /\ Load(file) \in LoadedFile
         /\ Load(file).lists = file.lists
<1>1. /\ Load(file) = [keys |-> Load(file).keys, open |-> file.open, lists |-> file.lists,
                       settings |-> Load(file).settings]
      /\ Load(file).settings = [x \in Settings |-> IF file.settings[x] = NULL THEN Example[x]
                                                   ELSE file.settings[x]]
  <2> DEFINE keys == [p \in ProviderNames |-> [i \in DOMAIN file.keys[p] |-> Expand(file.keys[p][i])]]
             settings == [x \in Settings |-> IF file.settings[x] = NULL THEN Example[x]
                                             ELSE file.settings[x]]
  <2>1. Load(file) = [file EXCEPT !.keys = keys, !.settings = settings]
    BY DEF Load
  <2> HIDE DEF keys, settings
  <2>2. Load(file) = [keys |-> keys, open |-> file.open, lists |-> file.lists,
                      settings |-> settings]
    BY <2>1 DEF File
  <2> QED
    BY <2>2 DEF settings
<1>2. Load(file).settings \in [Settings -> Values]
  <2>1. \A x \in Settings : Example[x] \in Values /\ file.settings[x] \in Values \cup {NULL}
    BY ConfigAssumption, FileParts
  <2> QED
    BY <1>1, <2>1
<1>3. [keys |-> Load(file).keys, open |-> file.open, lists |-> file.lists,
       settings |-> Load(file).settings] \in LoadedFile
  <2>1. Load(file).keys \in [ProviderNames -> Seq(LoadedKey)]
    BY LoadedKeys
  <2>2. file.open \in [ProviderNames -> BOOLEAN] /\ file.lists \in ListTable
    BY FileParts
  <2> QED
    BY <1>2, <2>1, <2>2 DEF LoadedFile
<1> QED
  BY <1>1, <1>3

(* The keys of a loaded file stay as they are when it is loaded again.        *)
LEMMA LoadAgain ==
  ASSUME NEW file \in LoadedFile
  PROVE  Load(file).keys = file.keys
<1>1. file \in File /\ file.keys \in [ProviderNames -> Seq(LoadedKey)]
  BY LoadedParts
<1>2. ASSUME NEW p \in ProviderNames PROVE Load(file).keys[p] = file.keys[p]
  <2>1. /\ Load(file).keys[p] \in Seq(LoadedKey) /\ file.keys[p] \in Seq(LoadedKey)
        /\ Len(Load(file).keys[p]) = Len(file.keys[p])
    BY <1>1, LoadedKeys
  <2>2. \A i \in 1 .. Len(file.keys[p]) : Load(file).keys[p][i] = file.keys[p][i]
    <3>1. \A i \in 1 .. Len(file.keys[p]) : file.keys[p][i] \in LoadedKey
      BY <1>1
    <3> QED
      BY <1>1, <3>1, LoadedKeys, LoadedKeyType
  <2> DEFINE a == Load(file).keys[p]
             b == file.keys[p]
  <2> HIDE DEF a, b
  <2>3. a = b
    <3>1. a \in Seq(LoadedKey) /\ b \in Seq(LoadedKey) /\ Len(a) = Len(b)
          /\ \A i \in 1 .. Len(b) : a[i] = b[i]
      BY <2>1, <2>2 DEF a, b
    <3> QED
      BY <3>1, SeqEqual
  <2> QED
    BY <2>3 DEF a, b
<1> QED
  BY <1>1, <1>2, LoadedKeys

(* Changing one part of a loaded file gives a loaded file.                    *)
LEMMA KeysWritten ==
  ASSUME NEW file \in LoadedFile, NEW keys \in [ProviderNames -> Seq(LoadedKey)],
         NEW open \in [ProviderNames -> BOOLEAN]
  PROVE  /\ [file EXCEPT !.keys = keys] \in LoadedFile
         /\ [file EXCEPT !.keys = keys, !.open = open] \in LoadedFile
BY DEF LoadedFile

LEMMA ListWritten ==
  ASSUME NEW file \in LoadedFile, NEW x \in Lists, NEW list,
         list \in Seq(Entry) \/ (x = "chain" /\ list = NULL)
  PROVE  [file EXCEPT !.lists[x] = list] \in LoadedFile
<1>1. [file.lists EXCEPT ![x] = list] \in ListTable
  BY LoadedParts DEF ListTable
<1>2. [file EXCEPT !.lists = [file.lists EXCEPT ![x] = list]] \in LoadedFile
  BY <1>1 DEF LoadedFile
<1> QED
  BY <1>2

LEMMA SettingWritten ==
  ASSUME NEW file \in LoadedFile, NEW x, NEW value \in Values
  PROVE  [file EXCEPT !.settings[x] = value] \in LoadedFile
<1>1. [file.settings EXCEPT ![x] = value] \in [Settings -> Values]
  BY LoadedParts
<1>2. [file EXCEPT !.settings = [file.settings EXCEPT ![x] = value]] \in LoadedFile
  BY <1>1 DEF LoadedFile
<1> QED
  BY <1>2

-----------------------------------------------------------------------------
(* What a write does *)

SectionNames == {"keys"} \cup Lists \cup Settings

(* One section of the file changes, at most. *)
OneSection(old, new) ==
  \E y \in SectionNames :
    \A x \in SectionNames : x # y => Sections(new)[x] = Sections(old)[x]

(* Every key stays but those of these ids. *)
KeptBut(old, new, ids) ==
  \A p \in ProviderNames : \A k \in ToSet(old[p]) : k.id \notin ids => k \in ToSet(new[p])

(* What a write does unless it is overtaken. *)
Harmless(old, new, ids) ==
  /\ OneSection(old, new)
  /\ Apart(old.keys) => Apart(new.keys)
  /\ KeptBut(old.keys, new.keys, ids)

LEMMA ListHarmless ==
  ASSUME NEW file \in LoadedFile, NEW x \in Lists, NEW list, NEW ids
  PROVE  Harmless(file, [file EXCEPT !.lists[x] = list], ids)
<1> DEFINE new == [file EXCEPT !.lists[x] = list]
<1>1. /\ new.keys = file.keys /\ new.open = file.open /\ new.settings = file.settings
      /\ \A y \in Lists : y # x => new.lists[y] = file.lists[y]
  BY DEF LoadedFile, ListTable
<1> HIDE DEF new
<1>2. OneSection(file, new)
  <2>1. x \in SectionNames
    BY DEF SectionNames
  <2>2. \A y \in SectionNames : y # x => Sections(new)[y] = Sections(file)[y]
    BY <1>1 DEF Sections, SectionNames
  <2> QED
    BY <2>1, <2>2 DEF OneSection
<1>3. KeptBut(file.keys, new.keys, ids)
  BY <1>1 DEF KeptBut
<1> QED
  BY <1>1, <1>2, <1>3 DEF Harmless, new

LEMMA SettingHarmless ==
  ASSUME NEW file \in LoadedFile, NEW x \in Settings, NEW value, NEW ids
  PROVE  Harmless(file, [file EXCEPT !.settings[x] = value], ids)
<1> DEFINE new == [file EXCEPT !.settings[x] = value]
<1>1. /\ new.keys = file.keys /\ new.open = file.open /\ new.lists = file.lists
      /\ \A y \in Settings : y # x => new.settings[y] = file.settings[y]
  BY DEF LoadedFile
<1> HIDE DEF new
<1>2. OneSection(file, new)
  <2>1. x \in SectionNames
    BY DEF SectionNames
  <2>2. \A y \in SectionNames : y # x => Sections(new)[y] = Sections(file)[y]
    BY <1>1 DEF Sections, SectionNames
  <2> QED
    BY <2>1, <2>2 DEF OneSection
<1>3. KeptBut(file.keys, new.keys, ids)
  BY <1>1 DEF KeptBut
<1> QED
  BY <1>1, <1>2, <1>3 DEF Harmless, new

(* Only the keys change, and whether their provider is open.                  *)
LEMMA KeysOnly ==
  ASSUME NEW file \in LoadedFile, NEW new \in LoadedFile,
         new.lists = file.lists, new.settings = file.settings
  PROVE  OneSection(file, new)
<1>1. "keys" \in SectionNames
  BY DEF SectionNames
<1>2. \A y \in SectionNames : y # "keys" => Sections(new)[y] = Sections(file)[y]
  BY DEF Sections, SectionNames
<1> QED
  BY <1>1, <1>2 DEF OneSection

(* A provider gets other keys: those of its own, but of these ids, and no id    *)
(* that another provider has.                                                 *)
LEMMA ProviderHarmless ==
  ASSUME NEW file \in LoadedFile, NEW p \in ProviderNames, NEW list \in Seq(LoadedKey), NEW ids,
         NEW free \in BOOLEAN,
         Apart(file.keys)
           => /\ DistinctIds(list)
              /\ \A q \in ProviderNames \ {p} : IdsOf(list) \cap IdsOf(file.keys[q]) = {},
         \A k \in ToSet(file.keys[p]) : k.id \notin ids => k \in ToSet(list)
  PROVE  /\ [file EXCEPT !.keys[p] = list] \in LoadedFile
         /\ [file EXCEPT !.keys[p] = list, !.open[p] = free] \in LoadedFile
         /\ Harmless(file, [file EXCEPT !.keys[p] = list], ids)
         /\ Harmless(file, [file EXCEPT !.keys[p] = list, !.open[p] = free], ids)
<1> DEFINE keys == [file.keys EXCEPT ![p] = list]
           open == [file.open EXCEPT ![p] = free]
           one == [file EXCEPT !.keys = keys]
           two == [file EXCEPT !.keys = keys, !.open = open]
<1>1. /\ keys \in [ProviderNames -> Seq(LoadedKey)] /\ open \in [ProviderNames -> BOOLEAN]
      /\ file.keys \in KeyTable
  BY LoadedParts
<1>2. [file EXCEPT !.keys[p] = list] = one
  OBVIOUS
<1>3. [file EXCEPT !.keys[p] = list, !.open[p] = free] = two
  OBVIOUS
<1>4. KeptBut(file.keys, keys, ids)
  BY <1>1 DEF KeptBut, KeyTable
<1>5. Apart(file.keys) => Apart(keys)
  BY <1>1, ApartReplaced
<1> HIDE DEF keys, open
<1>6. one \in LoadedFile /\ two \in LoadedFile
  BY <1>1, KeysWritten
<1>7. /\ one.keys = keys /\ two.keys = keys
      /\ one.lists = file.lists /\ two.lists = file.lists
      /\ one.settings = file.settings /\ two.settings = file.settings
  BY DEF LoadedFile
<1> HIDE DEF one, two
<1>8. Harmless(file, one, ids) /\ Harmless(file, two, ids)
  BY <1>4, <1>5, <1>6, <1>7, KeysOnly DEF Harmless
<1> QED
  BY <1>2, <1>3, <1>6, <1>8

-----------------------------------------------------------------------------
(* The inductive invariant *)

(* What a session was shown is a loaded file.  The panel of a key holds the    *)
(* key it was shown, at its number.                                           *)
SessionOK(t) ==
  /\ t.seen \in LoadedFile
  /\ t.kind \in {"key", "local"} => t.at \in ProviderNames
  /\ t.kind \in {"setting", "account"} => t.at \in Settings
  /\ t.kind = "key" =>
       /\ t.key \in LoadedKey
       /\ t.index \in 1 .. Len(t.seen.keys[t.at])
       /\ t.key = t.seen.keys[t.at][t.index]

SessionsOK == \A s \in Operators : session[s] # NULL => SessionOK(session[s])

IInv ==
  /\ TypeOK
  /\ loaded # NULL => loaded \in LoadedFile
  /\ SessionsOK
  /\ DuplicatesOnlyByRace

(* A step that writes: of any file it makes a file, and unless a write was     *)
(* overtaken it is harmless.                                                  *)
Writes ==
  /\ disk' \in LoadedFile
  /\ saves < MaxSaves /\ saves' = saves + 1
  /\ aimed' \subseteq Ids
  /\ loaded' = loaded
  /\ overtaken' \in BOOLEAN
  /\ ~ overtaken' => ~ overtaken /\ Harmless(Load(disk), disk', aimed')

(* What the sessions may become. *)
Sits ==
  \/ session' = session
  \/ \E s \in Operators : session' = [session EXCEPT ![s] = NULL]
  \/ \E s \in Operators : \E t \in Session :
       SessionOK(t) /\ session' = [session EXCEPT ![s] = t]

(* What the gateway has. *)
Reads ==
  /\ UNCHANGED <<disk, saves, aimed, overtaken>>
  /\ \/ loaded' = loaded
     \/ loaded' = NULL
     \/ Valid /\ loaded' = Load(disk)

(* A step of a command: its file is what remains to be shown.                 *)
LEMMA CommandWrites ==
  ASSUME IInv, NEW s \in Operators, Command(s), NEW file, NEW ids, Save(file, ids),
         ids \subseteq Ids, file \in LoadedFile, Harmless(Load(disk), file, ids)
  PROVE  Writes /\ Sits
BY DEF Writes, Sits, IInv, TypeOK, Command, Save

(* What a session answers with was not overtaken if what it was shown is still *)
(* there.                                                                     *)
LEMMA AnswerNoticed ==
  ASSUME IInv, NEW s \in Operators, NEW kind, Answers(s, kind)
  PROVE  /\ session[s] \in Session /\ session[s].kind = kind /\ SessionOK(session[s])
         /\ loaded' = loaded
         /\ overtaken' \in BOOLEAN
         /\ ~ overtaken' =>
              /\ ~ overtaken
              /\ kind \in WholeCopy => Load(disk) = session[s].seen
              /\ kind = "key" =>
                   Load(disk).keys[session[s].at] = session[s].seen.keys[session[s].at]
<1>1. session[s] \in Session /\ session[s].kind = kind /\ SessionOK(session[s])
  BY DEF IInv, TypeOK, SessionsOK, Answers
<1> DEFINE t == session[s]
           stale == IF t.kind \in WholeCopy THEN Load(disk) # t.seen
                    ELSE Part(Load(disk), t.kind, t.at) # Part(t.seen, t.kind, t.at)
<1>2. overtaken' = (overtaken \/ stale) /\ loaded' = loaded
  BY DEF Answers, Notice
<1>3. overtaken \in BOOLEAN /\ stale \in BOOLEAN
  BY DEF IInv, TypeOK
<1>4. kind = "key" => kind \notin WholeCopy
  BY DEF WholeCopy
<1>5. kind = "key" /\ Part(Load(disk), kind, t.at) = Part(t.seen, kind, t.at)
        => Load(disk).keys[t.at] = t.seen.keys[t.at]
  BY DEF Part
<1>6. ~ overtaken' => ~ overtaken /\ ~ stale
  BY <1>2, <1>3
<1> QED
  BY <1>1, <1>2, <1>3, <1>4, <1>5, <1>6

(* A session that closes: its file is what remains to be shown.               *)
LEMMA AnswerWrites ==
  ASSUME IInv, NEW s \in Operators, NEW kind, Answers(s, kind), Close(s),
         NEW file, NEW ids, Save(file, ids),
         ids \subseteq Ids, file \in LoadedFile,
         ~ overtaken' => Harmless(Load(disk), file, ids)
  PROVE  Writes /\ Sits
<1>1. Writes
  BY AnswerNoticed DEF Writes, Save
<1>2. Sits
  BY DEF Sits, Close
<1> QED
  BY <1>1, <1>2

(* What is on disk is loaded as a loaded file.                                *)
LEMMA DiskLoads ==
  ASSUME IInv
  PROVE  disk \in File /\ Load(disk) \in LoadedFile /\ Load(disk).lists = disk.lists
BY LoadType DEF IInv, TypeOK

-----------------------------------------------------------------------------
(* The writes to the keys *)

LEMMA ProviderWritten ==
  ASSUME NEW file \in LoadedFile, NEW p \in ProviderNames, NEW list \in Seq(LoadedKey),
         NEW free \in BOOLEAN
  PROVE  /\ [file EXCEPT !.keys[p] = list] \in LoadedFile
         /\ [file EXCEPT !.keys[p] = list, !.open[p] = free] \in LoadedFile
<1> DEFINE keys == [file.keys EXCEPT ![p] = list]
           open == [file.open EXCEPT ![p] = free]
<1>1. keys \in [ProviderNames -> Seq(LoadedKey)] /\ open \in [ProviderNames -> BOOLEAN]
  BY LoadedParts
<1> HIDE DEF keys, open
<1>2. /\ [file EXCEPT !.keys = keys] \in LoadedFile
      /\ [file EXCEPT !.keys = keys, !.open = open] \in LoadedFile
  BY <1>1, KeysWritten
<1> QED
  BY <1>2 DEF keys, open

(* A key with an id that no provider has is added.                            *)
LEMMA AddHarmless ==
  ASSUME NEW file \in LoadedFile, NEW p \in ProviderNames, NEW id \in Ids,
         \A q \in ProviderNames : id \notin IdsOf(file.keys[q])
  PROVE  LET new == [file EXCEPT !.keys[p] = Append(file.keys[p], NewKey(id))]
         IN  new \in LoadedFile /\ Harmless(file, new, {id})
<1> DEFINE list == Append(file.keys[p], NewKey(id))
<1>1. /\ file.keys[p] \in Seq(LoadedKey) /\ file.keys[p] \in Seq(Key)
      /\ NewKey(id) \in LoadedKey /\ NewKey(id) \in Key /\ NewKey(id).id = id
  BY LoadedParts, LoadedKeyType
<1>2. list \in Seq(LoadedKey)
  BY <1>1
<1>3. /\ IdsOf(list) = IdsOf(file.keys[p]) \cup {id}
      /\ DistinctIds(file.keys[p]) => DistinctIds(list)
      /\ ToSet(file.keys[p]) \subseteq ToSet(list)
  BY <1>1, AppendedKey
<1> HIDE DEF list
<1>4. Apart(file.keys)
        => /\ DistinctIds(list)
           /\ \A q \in ProviderNames \ {p} : IdsOf(list) \cap IdsOf(file.keys[q]) = {}
  BY <1>3 DEF Apart
<1>5. \A k \in ToSet(file.keys[p]) : k.id \notin {id} => k \in ToSet(list)
  BY <1>3
<1>6. FALSE \in BOOLEAN
  OBVIOUS
<1>7. /\ [file EXCEPT !.keys[p] = list] \in LoadedFile
      /\ Harmless(file, [file EXCEPT !.keys[p] = list], {id})
  BY <1>2, <1>4, <1>5, <1>6, ProviderHarmless
<1> QED
  BY <1>7 DEF list

(* A key is replaced by one with its id, or with an id that no provider has.  *)
LEMMA ReplaceHarmless ==
  ASSUME NEW file \in LoadedFile, NEW p \in ProviderNames, NEW n \in 1 .. Len(file.keys[p]),
         NEW key \in LoadedKey, NEW ids, file.keys[p][n].id \in ids,
         \/ key.id = file.keys[p][n].id
         \/ \A q \in ProviderNames : key.id \notin IdsOf(file.keys[q])
  PROVE  Harmless(file, [file EXCEPT !.keys[p][n] = key], ids)
<1> DEFINE keys == file.keys[p]
           list == [keys EXCEPT ![n] = key]
<1>1. keys \in Seq(LoadedKey) /\ keys \in Seq(Key) /\ key \in Key
  BY LoadedParts, LoadedKeyType
<1>2. list \in Seq(LoadedKey)
  BY <1>1, ReplacedType
<1>3. /\ Len(list) = Len(keys)
      /\ \A i \in 1 .. Len(keys) : i # n => list[i] = keys[i]
      /\ IdsOf(list) \subseteq IdsOf(keys) \cup {key.id}
      /\ DistinctIds(keys) /\ (key.id = keys[n].id \/ key.id \notin IdsOf(keys))
           => DistinctIds(list)
  BY <1>1, ReplacedKey
<1>4. keys[n].id \in IdsOf(keys)
  BY DEF IdsOf
<1>5. /\ DOMAIN keys = 1 .. Len(keys) /\ DOMAIN list = 1 .. Len(list)
      /\ [file EXCEPT !.keys[p][n] = key] = [file EXCEPT !.keys[p] = list]
  BY <1>1, <1>2
<1> HIDE DEF keys, list
<1>6. Apart(file.keys)
        => /\ DistinctIds(list)
           /\ \A q \in ProviderNames \ {p} : IdsOf(list) \cap IdsOf(file.keys[q]) = {}
  BY <1>3, <1>4 DEF Apart, keys
<1>7. \A k \in ToSet(keys) : k.id \notin ids => k \in ToSet(list)
  <2> SUFFICES ASSUME NEW k \in ToSet(keys), k.id \notin ids PROVE k \in ToSet(list)
    OBVIOUS
  <2>1. PICK i \in 1 .. Len(keys) : k = keys[i]
    BY <1>5 DEF ToSet
  <2>2. i # n
    BY <2>1 DEF keys
  <2>3. i \in DOMAIN list /\ list[i] = k
    BY <1>3, <1>5, <2>1, <2>2
  <2> QED
    BY <2>3 DEF ToSet
<1>8. FALSE \in BOOLEAN
  OBVIOUS
<1>9. Harmless(file, [file EXCEPT !.keys[p] = list], ids)
  BY <1>2, <1>6, <1>7, <1>8, ProviderHarmless DEF keys
<1> QED
  BY <1>5, <1>9

(* The keys that stay are picked out of what there was.                       *)
LEMMA PickedHarmless ==
  ASSUME NEW keys \in Seq(LoadedKey), NEW part \in Seq(LoadedKey), NEW places, NEW ids,
         places \subseteq 1 .. Len(keys), \E at : PicksOut(keys, places, part, at),
         \A n \in (1 .. Len(keys)) \ places : keys[n].id \in ids
  PROVE  /\ DistinctIds(keys) => DistinctIds(part)
         /\ IdsOf(part) \subseteq IdsOf(keys)
         /\ \A k \in ToSet(keys) : k.id \notin ids => k \in ToSet(part)
<1>1. PICK at : PicksOut(keys, places, part, at)
  OBVIOUS
<1>2. keys \in Seq(Key) /\ part \in Seq(Key) /\ DOMAIN keys = 1 .. Len(keys)
  BY LoadedKeyType
<1>3. /\ \A n \in places : keys[n] \in ToSet(part)
      /\ IdsOf(part) = {keys[n].id : n \in places}
      /\ DistinctIds(keys) => DistinctIds(part)
  BY <1>1, <1>2, PickedKeys
<1>4. IdsOf(part) \subseteq IdsOf(keys)
  BY <1>3 DEF IdsOf
<1>5. \A k \in ToSet(keys) : k.id \notin ids => k \in ToSet(part)
  BY <1>2, <1>3 DEF ToSet
<1> QED
  BY <1>3, <1>4, <1>5

LEMMA SelectHarmless ==
  ASSUME NEW file \in LoadedFile, NEW places, NEW ids,
         \A p \in ProviderNames : places[p] \subseteq 1 .. Len(file.keys[p]),
         \A p \in ProviderNames : \A n \in (1 .. Len(file.keys[p])) \ places[p] :
           file.keys[p][n].id \in ids
  PROVE  LET new == [file EXCEPT !.keys =
                       [p \in ProviderNames |-> Selected(file.keys[p], places[p])]]
         IN  new \in LoadedFile /\ Harmless(file, new, ids)
<1> DEFINE keys == [p \in ProviderNames |-> Selected(file.keys[p], places[p])]
           new == [file EXCEPT !.keys = keys]
<1>1. ASSUME NEW p \in ProviderNames
      PROVE  /\ keys[p] \in Seq(LoadedKey)
             /\ DistinctIds(file.keys[p]) => DistinctIds(keys[p])
             /\ IdsOf(keys[p]) \subseteq IdsOf(file.keys[p])
             /\ \A k \in ToSet(file.keys[p]) : k.id \notin ids => k \in ToSet(keys[p])
  <2>1. file.keys[p] \in Seq(LoadedKey) /\ places[p] \subseteq 1 .. Len(file.keys[p])
    BY LoadedParts
  <2>2. keys[p] = Selected(file.keys[p], places[p])
    OBVIOUS
  <2> HIDE DEF keys
  <2>3. keys[p] \in Seq(LoadedKey) /\ \E at : PicksOut(file.keys[p], places[p], keys[p], at)
    BY <2>1, <2>2, SelectedPicks
  <2> QED
    BY <2>1, <2>3, PickedHarmless
<1>2. keys \in [ProviderNames -> Seq(LoadedKey)]
  BY <1>1
<1> HIDE DEF keys
<1>3. new \in LoadedFile
  BY <1>2, LoadedParts, KeysWritten
<1>4. new.keys = keys /\ new.lists = file.lists /\ new.settings = file.settings
  BY DEF LoadedFile
<1> HIDE DEF new
<1>5. Apart(file.keys) => Apart(keys)
  <2>1. Apart(file.keys) =>
          \A p \in ProviderNames : DistinctIds(keys[p]) /\ IdsOf(keys[p]) \subseteq IdsOf(file.keys[p])
    BY <1>1 DEF Apart
  <2> QED
    BY <2>1, ApartFewer
<1>6. KeptBut(file.keys, keys, ids)
  BY <1>1 DEF KeptBut
<1>7. Harmless(file, new, ids)
  BY <1>3, <1>4, <1>5, <1>6, KeysOnly DEF Harmless
<1> QED
  BY <1>3, <1>7 DEF new, keys

LEMMA RemoveHarmless ==
  ASSUME NEW file \in LoadedFile, NEW p \in ProviderNames, NEW n \in 1 .. Len(file.keys[p]), NEW ids
  PROVE  LET new == [file EXCEPT !.keys[p] = RemoveAt(file.keys[p], n)]
         IN  /\ new \in LoadedFile
             /\ file.keys[p][n].id \in ids => Harmless(file, new, ids)
<1> DEFINE list == RemoveAt(file.keys[p], n)
<1>1. file.keys[p] \in Seq(LoadedKey)
  BY LoadedParts
<1>2. /\ list \in Seq(LoadedKey)
      /\ \E at : PicksOut(file.keys[p], (1 .. Len(file.keys[p])) \ {n}, list, at)
  BY <1>1, RemovedPicks
<1> HIDE DEF list
<1>3. [file EXCEPT !.keys[p] = list] \in LoadedFile
  <2>1. FALSE \in BOOLEAN
    OBVIOUS
  <2> QED
    BY <1>2, <2>1, ProviderWritten
<1>4. ASSUME file.keys[p][n].id \in ids PROVE Harmless(file, [file EXCEPT !.keys[p] = list], ids)
  <2>1. /\ DistinctIds(file.keys[p]) => DistinctIds(list)
        /\ IdsOf(list) \subseteq IdsOf(file.keys[p])
        /\ \A k \in ToSet(file.keys[p]) : k.id \notin ids => k \in ToSet(list)
    <3> DEFINE places == (1 .. Len(file.keys[p])) \ {n}
    <3>1. /\ places \subseteq 1 .. Len(file.keys[p])
          /\ \A m \in (1 .. Len(file.keys[p])) \ places : file.keys[p][m].id \in ids
      BY <1>4
    <3>2. \E at : PicksOut(file.keys[p], places, list, at)
      BY <1>2
    <3> HIDE DEF places
    <3> QED
      BY <1>1, <1>2, <3>1, <3>2, PickedHarmless
  <2>2. Apart(file.keys)
          => /\ DistinctIds(list)
             /\ \A q \in ProviderNames \ {p} : IdsOf(list) \cap IdsOf(file.keys[q]) = {}
    BY <2>1 DEF Apart
  <2>3. FALSE \in BOOLEAN
    OBVIOUS
  <2> QED
    BY <1>2, <2>1, <2>2, <2>3, ProviderHarmless
<1> QED
  BY <1>3, <1>4 DEF list

(* An id that no provider has on disk no provider has when it is loaded.       *)
LEMMA Unowned ==
  ASSUME NEW file \in File, NEW id, Owners(file, id) = {}
  PROVE  \A p \in ProviderNames : id \notin IdsOf(Load(file).keys[p])
<1>1. \A p \in ProviderNames : id \notin IdsOf(file.keys[p])
  BY LoadedKeys DEF Owners, IdsOf
<1> QED
  BY <1>1, LoadedKeys

-----------------------------------------------------------------------------
(* The commands *)

LEMMA KeysAddWrites ==
  ASSUME IInv, NEW s \in Operators, NEW p \in ProviderNames, NEW id \in Ids, KeysAdd(s, p, id)
  PROVE  Writes /\ Sits
<1> DEFINE file == Load(disk)
           new == [file EXCEPT !.keys[p] = Append(file.keys[p], NewKey(id))]
<1>1. Command(s) /\ Save(new, {id}) /\ Owners(disk, id) = {}
  BY DEF KeysAdd
<1>2. \A q \in ProviderNames : id \notin IdsOf(file.keys[q])
  BY <1>1, DiskLoads, Unowned
<1>3. new \in LoadedFile /\ Harmless(file, new, {id})
  BY <1>2, DiskLoads, AddHarmless
<1> HIDE DEF new
<1> QED
  BY <1>1, <1>3, CommandWrites

LEMMA KeysRemoveWrites ==
  ASSUME IInv, NEW s \in Operators, NEW id \in Ids, KeysRemove(s, id)
  PROVE  Writes /\ Sits
<1> DEFINE file == Load(disk)
           places == [p \in ProviderNames |-> {i \in DOMAIN file.keys[p] : file.keys[p][i].id # id}]
           new == [file EXCEPT !.keys =
                     [p \in ProviderNames |-> Selected(file.keys[p], places[p])]]
<1>1. Command(s) /\ Save(new, {id})
  BY DEF KeysRemove
<1>2. \A p \in ProviderNames : DOMAIN file.keys[p] = 1 .. Len(file.keys[p])
  BY DiskLoads, LoadedParts
<1>3. /\ \A p \in ProviderNames : places[p] \subseteq 1 .. Len(file.keys[p])
      /\ \A p \in ProviderNames : \A n \in (1 .. Len(file.keys[p])) \ places[p] :
           file.keys[p][n].id \in {id}
  BY <1>2
<1> HIDE DEF places
<1>4. new \in LoadedFile /\ Harmless(file, new, {id})
  BY <1>3, DiskLoads, SelectHarmless
<1> HIDE DEF new
<1> QED
  BY <1>1, <1>4, CommandWrites

LEMMA CleanUnconfiguredWrites ==
  ASSUME IInv, NEW s \in Operators, CleanUnconfigured(s)
  PROVE  Writes /\ Sits
<1> DEFINE file == Load(disk)
           unset == {at \in KeysOf(disk) : ~ Configured(disk.keys[at[1]][at[2]])}
           ids == {IdAt(disk, at) : at \in unset}
           places == [p \in ProviderNames |-> {i \in DOMAIN file.keys[p] : Configured(file.keys[p][i])}]
           new == [file EXCEPT !.keys =
                     [p \in ProviderNames |-> Selected(file.keys[p], places[p])]]
<1>1. Command(s) /\ Save(new, ids)
  BY DEF CleanUnconfigured
<1>2. \A p \in ProviderNames : DOMAIN file.keys[p] = 1 .. Len(file.keys[p])
  BY DiskLoads, LoadedParts
<1>3. \A p \in ProviderNames :
        /\ Len(file.keys[p]) = Len(disk.keys[p])
        /\ DOMAIN disk.keys[p] = 1 .. Len(disk.keys[p])
        /\ \A i \in 1 .. Len(disk.keys[p]) :
             /\ disk.keys[p][i] \in Key
             /\ file.keys[p][i] = Expand(disk.keys[p][i])
             /\ file.keys[p][i].id = disk.keys[p][i].id
  BY DiskLoads, LoadedKeys
<1>4. ASSUME NEW p \in ProviderNames, NEW n \in (1 .. Len(file.keys[p])) \ places[p]
      PROVE  file.keys[p][n].id \in ids
  <2>1. /\ ~ Configured(file.keys[p][n]) /\ n \in 1 .. Len(disk.keys[p])
        /\ n \in DOMAIN disk.keys[p]
    BY <1>2, <1>3
  <2>2. ~ Configured(disk.keys[p][n])
    BY <1>3, <2>1, LoadedKeyType
  <2>3. <<p, n>> \in KeysOf(disk)
    BY <2>1 DEF KeysOf
  <2>4. <<p, n>> \in unset
    BY <2>2, <2>3
  <2>5. IdAt(disk, <<p, n>>) = file.keys[p][n].id
    BY <1>3, <2>1 DEF IdAt
  <2> QED
    BY <2>4, <2>5
<1>5. \A p \in ProviderNames : places[p] \subseteq 1 .. Len(file.keys[p])
  BY <1>2
<1>6. ids \subseteq Ids
  <2> SUFFICES ASSUME NEW at \in KeysOf(disk) PROVE IdAt(disk, at) \in Ids
    OBVIOUS
  <2>1. PICK p \in ProviderNames : at \in {p} \X DOMAIN disk.keys[p]
    BY DEF KeysOf
  <2>2. disk.keys[p][at[2]] \in Key /\ at[1] = p
    BY <1>3, <2>1
  <2> QED
    BY <2>2 DEF IdAt, Key
<1> HIDE DEF places, ids
<1>7. new \in LoadedFile /\ Harmless(file, new, ids)
  BY <1>4, <1>5, DiskLoads, SelectHarmless
<1> HIDE DEF new
<1> QED
  BY <1>1, <1>6, <1>7, CommandWrites

LEMMA ConnectWrites ==
  ASSUME IInv, NEW s \in Operators, NEW p \in ProviderNames, NEW id \in Ids, Connect(s, p, id)
  PROVE  Writes /\ Sits
<1> DEFINE file == Load(disk)
           same == {i \in DOMAIN disk.keys[p] : disk.keys[p][i].id = id}
           other == [file EXCEPT !.keys[p][Min(same)] = NewKey(id)]
           more == [file EXCEPT !.keys[p] = Append(file.keys[p], NewKey(id))]
<1>1. /\ Command(s)
      /\ \/ same # {} /\ Save(other, {id})
         \/ Owners(disk, id) = {} /\ Save(more, {id})
  BY DEF Connect
<1>2. CASE Owners(disk, id) = {} /\ Save(more, {id})
  <2>1. \A q \in ProviderNames : id \notin IdsOf(file.keys[q])
    BY <1>2, DiskLoads, Unowned
  <2>2. more \in LoadedFile /\ Harmless(file, more, {id})
    BY <2>1, DiskLoads, AddHarmless
  <2> HIDE DEF more
  <2> QED
    BY <1>1, <1>2, <2>2, CommandWrites
<1>3. CASE same # {} /\ Save(other, {id})
  <2>1. /\ DOMAIN disk.keys[p] = 1 .. Len(disk.keys[p]) /\ Len(file.keys[p]) = Len(disk.keys[p])
        /\ \A i \in 1 .. Len(disk.keys[p]) : file.keys[p][i].id = disk.keys[p][i].id
    BY DiskLoads, LoadedKeys
  <2>2. Min(same) \in same
    <3>1. same \subseteq Nat
      BY <2>1
    <3> QED
      BY <1>3, <3>1, LeastPlace
  <2>3. Min(same) \in 1 .. Len(file.keys[p]) /\ file.keys[p][Min(same)].id = id
    BY <2>1, <2>2
  <2> DEFINE n == Min(same)
  <2> HIDE DEF n, same
  <2>4. n \in 1 .. Len(file.keys[p]) /\ file.keys[p][n].id = id
    BY <2>3 DEF n
  <2>5. NewKey(id) \in LoadedKey /\ NewKey(id).id = id
    BY LoadedKeyType
  <2>6. file \in LoadedFile
    BY DiskLoads
  <2>7. other = [file EXCEPT !.keys[p][n] = NewKey(id)]
    BY DEF n
  <2>8. Harmless(file, other, {id})
    BY <2>4, <2>5, <2>6, <2>7, ReplaceHarmless
  <2>9. other \in LoadedFile
    <3> DEFINE list == [file.keys[p] EXCEPT ![n] = NewKey(id)]
    <3>1. list \in Seq(LoadedKey)
      BY <2>5, <2>6, LoadedParts, ReplacedType
    <3>2. other = [file EXCEPT !.keys[p] = list]
      BY <2>7
    <3>3. FALSE \in BOOLEAN
      OBVIOUS
    <3> HIDE DEF list
    <3> QED
      BY <2>6, <3>1, <3>2, <3>3, ProviderWritten
  <2> HIDE DEF other
  <2> QED
    BY <1>1, <1>3, <2>8, <2>9, CommandWrites
<1> QED
  BY <1>1, <1>2, <1>3

(* The lists of a file, and what the prompts make of them.                    *)
LEMMA ListTypes ==
  ASSUME NEW lists \in ListTable
  PROVE  /\ lists["patterns"] \in Seq(Entry) /\ lists["overrides"] \in Seq(Entry)
         /\ lists["quarantine"] \in Seq(Entry)
         /\ Entries(lists["chain"]) \in Seq(Entry)
         /\ lists["chain"] # NULL => lists["chain"] \in Seq(Entry)
<1>1. /\ "patterns" \in Lists \ {"chain"} /\ "overrides" \in Lists \ {"chain"}
      /\ "quarantine" \in Lists \ {"chain"} /\ "chain" \in Lists
  BY DEF Lists
<1>2. lists["chain"] \in Seq(Entry) \cup {NULL}
  BY <1>1 DEF ListTable
<1>3. <<>> \in Seq(Entry)
  OBVIOUS
<1> QED
  BY <1>1, <1>2, <1>3 DEF ListTable, Entries

LEMMA EditedLists ==
  ASSUME NEW list \in Seq(Entry)
  PROVE  /\ \A x \in Entry : Append(list, x) \in Seq(Entry)
         /\ \A i \in 1 .. Len(list) : RemoveAt(list, i) \in Seq(Entry)
         /\ \A new \in Added(list, Items) \cup Removed(list) : new \in Seq(Entry)
         /\ \A new \in Inserted(list) \cup Moved(list) : new \in Seq(Entry)
<1>1. /\ DOMAIN list = 1 .. Len(list) /\ Len(list) \in Nat
      /\ \A i \in 1 .. Len(list) : list[i] \in Entry
      /\ Items \subseteq Entry
  BY DEF Entry
<1>2. \A x \in Entry : Append(list, x) \in Seq(Entry)
  OBVIOUS
<1>3. \A i \in 1 .. Len(list) : RemoveAt(list, i) \in Seq(Entry)
                                /\ Len(RemoveAt(list, i)) = Len(list) - 1
  BY RemovedPicks
<1>4. \A new \in Added(list, Items) \cup Removed(list) : new \in Seq(Entry)
  BY <1>1, <1>2, <1>3 DEF Added, Removed
<1>5. \A i \in 1 .. Len(list) + 1, x \in Entry : InsertAt(list, i, x) \in Seq(Entry)
  BY InsertedType
<1>6. \A new \in Inserted(list) : new \in Seq(Entry)
  BY <1>1, <1>5 DEF Inserted
<1>7. ASSUME NEW i \in 1 .. Len(list), NEW j \in 1 .. Len(list)
      PROVE  InsertAt(RemoveAt(list, i), j, list[i]) \in Seq(Entry)
  <2> DEFINE rest == RemoveAt(list, i)
  <2>1. rest \in Seq(Entry) /\ Len(rest) = Len(list) - 1 /\ list[i] \in Entry
    BY <1>1, <1>3
  <2> HIDE DEF rest
  <2>2. j \in 1 .. Len(rest) + 1
    BY <1>1, <2>1
  <2>3. InsertAt(rest, j, list[i]) \in Seq(Entry)
    BY <2>1, <2>2, InsertedType
  <2> QED
    BY <2>3 DEF rest
<1>8. \A new \in Moved(list) : new \in Seq(Entry)
  BY <1>1, <1>7 DEF Moved
<1> QED
  BY <1>2, <1>3, <1>4, <1>6, <1>8

LEMMA SetPriorityWrites ==
  ASSUME IInv, NEW s \in Operators, NEW item \in Items, NEW position \in 1 .. MaxLen,
         SetPriority(s, item, position)
  PROVE  Writes /\ Sits
<1> DEFINE rest == Without(disk.lists["chain"], item)
           index == IF position > Len(rest) + 1 THEN Len(rest) + 1 ELSE position
           list == InsertAt(rest, index, item)
           new == [Load(disk) EXCEPT !.lists["chain"] = list]
<1>1. Command(s) /\ disk.lists["chain"] # NULL /\ Save(new, {})
  BY DEF SetPriority
<1>2. rest \in Seq(Entry)
  <2> DEFINE chain == disk.lists["chain"]
  <2>1. chain \in Seq(Entry)
    BY <1>1, DiskLoads, FileParts, ListTypes
  <2> HIDE DEF chain
  <2>2. {i \in DOMAIN chain : chain[i] # item} \subseteq 1 .. Len(chain)
    BY <2>1
  <2>3. Without(chain, item) \in Seq(Entry)
    BY <2>1, <2>2, SelectedPicks DEF Without
  <2> QED
    BY <2>3 DEF chain
<1> HIDE DEF rest
<1>3. index \in 1 .. Len(rest) + 1
  <2>1. position \in Nat /\ position >= 1 /\ Len(rest) \in Nat
    BY <1>2, ConfigAssumption
  <2> QED
    BY <2>1
<1>4. item \in Entry
  BY DEF Entry
<1> HIDE DEF index
<1>5. list \in Seq(Entry)
  BY <1>2, <1>3, <1>4, InsertedType
<1> HIDE DEF list
<1>6. "chain" \in Lists /\ {} \subseteq Ids
  BY DEF Lists
<1>7. new \in LoadedFile /\ Harmless(Load(disk), new, {})
  BY <1>5, <1>6, DiskLoads, ListWritten, ListHarmless
<1> HIDE DEF new
<1> QED
  BY <1>1, <1>6, <1>7, CommandWrites

LEMMA ResetPatternsWrites ==
  ASSUME IInv, NEW s \in Operators, ResetPatterns(s)
  PROVE  Writes /\ Sits
<1> DEFINE new == [Load(disk) EXCEPT !.lists["patterns"] = DefaultPatterns]
<1>1. Command(s) /\ Save(new, {})
  BY DEF ResetPatterns
<1>2. DefaultPatterns \in Seq(Entry)
  BY ConfigAssumption DEF Entry
<1>3. "patterns" \in Lists /\ {} \subseteq Ids
  BY DEF Lists
<1>4. new \in LoadedFile /\ Harmless(Load(disk), new, {})
  BY <1>2, <1>3, DiskLoads, ListWritten, ListHarmless
<1> HIDE DEF new
<1> QED
  BY <1>1, <1>3, <1>4, CommandWrites

LEMMA AddQuarantineWrites ==
  ASSUME IInv, NEW s \in Operators, NEW item \in Items, AddQuarantine(s, item)
  PROVE  Writes /\ Sits
<1> DEFINE list == Append(disk.lists["quarantine"], item)
           new == [Load(disk) EXCEPT !.lists["quarantine"] = list]
<1>1. Command(s) /\ Save(new, {})
  BY DiskLoads DEF AddQuarantine
<1>2. list \in Seq(Entry)
  <2>1. disk.lists["quarantine"] \in Seq(Entry) /\ item \in Entry
    BY DiskLoads, FileParts, ListTypes DEF Entry
  <2> QED
    BY <2>1
<1> HIDE DEF list
<1>3. "quarantine" \in Lists /\ {} \subseteq Ids
  BY DEF Lists
<1>4. new \in LoadedFile /\ Harmless(Load(disk), new, {})
  BY <1>2, <1>3, DiskLoads, ListWritten, ListHarmless
<1> HIDE DEF new
<1> QED
  BY <1>1, <1>3, <1>4, CommandWrites

-----------------------------------------------------------------------------
(* The answers *)

LEMMA SaveSettingWrites ==
  ASSUME IInv, NEW s \in Operators, NEW value \in Values,
         SaveSetting(s, value) \/ SaveAccount(s, value)
  PROVE  Writes /\ Sits
<1> DEFINE x == session[s].at
           one == [Load(disk) EXCEPT !.settings[x] = value]
           two == [session[s].seen EXCEPT !.settings[x] = value]
<1>0. {} \subseteq Ids
  OBVIOUS
<1>1. CASE SaveSetting(s, value)
  <2>1. Answers(s, "setting") /\ Close(s) /\ Save(one, {})
    BY <1>1 DEF SaveSetting
  <2>2. x \in Settings
    BY <2>1, AnswerNoticed DEF SessionOK
  <2> HIDE DEF x
  <2>3. one \in LoadedFile /\ Harmless(Load(disk), one, {})
    BY <2>2, DiskLoads, SettingWritten, SettingHarmless
  <2> HIDE DEF one
  <2> QED
    BY <1>0, <2>1, <2>3, AnswerWrites
<1>2. CASE SaveAccount(s, value)
  <2>1. Answers(s, "account") /\ Close(s) /\ Save(two, {})
    BY <1>2 DEF SaveAccount
  <2>2. x \in Settings /\ session[s].seen \in LoadedFile
    BY <2>1, AnswerNoticed DEF SessionOK
  <2>3. ~ overtaken' => Load(disk) = session[s].seen
    BY <2>1, AnswerNoticed DEF WholeCopy
  <2> HIDE DEF x
  <2>4. two \in LoadedFile /\ Harmless(session[s].seen, two, {})
    BY <2>2, SettingWritten, SettingHarmless
  <2> HIDE DEF two
  <2> QED
    BY <1>0, <2>1, <2>3, <2>4, AnswerWrites
<1> QED
  BY <1>1, <1>2

(* A list of the file as it is now is replaced.                               *)
LEMMA FreshListWrites ==
  ASSUME IInv, NEW s \in Operators, NEW kind, Answers(s, kind), Close(s),
         NEW x \in Lists, NEW list, list \in Seq(Entry) \/ (x = "chain" /\ list = NULL),
         Save([Load(disk) EXCEPT !.lists[x] = list], {})
  PROVE  Writes /\ Sits
<1> DEFINE new == [Load(disk) EXCEPT !.lists[x] = list]
<1>1. Save(new, {}) /\ {} \subseteq Ids
  OBVIOUS
<1>2. new \in LoadedFile /\ Harmless(Load(disk), new, {})
  BY DiskLoads, ListWritten, ListHarmless
<1> HIDE DEF new
<1> QED
  BY <1>1, <1>2, AnswerWrites

(* A list of the file as it was shown is replaced.                            *)
LEMMA ShownListWrites ==
  ASSUME IInv, NEW s \in Operators, NEW kind \in WholeCopy, Answers(s, kind), Close(s),
         NEW x \in Lists, NEW list \in Seq(Entry),
         Save([session[s].seen EXCEPT !.lists[x] = list], {})
  PROVE  Writes /\ Sits
<1> DEFINE seen == session[s].seen
           new == [session[s].seen EXCEPT !.lists[x] = list]
<1>1. Save(new, {}) /\ {} \subseteq Ids
  OBVIOUS
<1>2. seen \in LoadedFile /\ (~ overtaken' => Load(disk) = seen)
  BY AnswerNoticed DEF SessionOK
<1>3. new \in LoadedFile /\ Harmless(seen, new, {})
  BY <1>2, ListWritten, ListHarmless
<1> HIDE DEF new, seen
<1> QED
  BY <1>1, <1>2, <1>3, AnswerWrites

LEMMA ListsWrite ==
  ASSUME IInv, NEW s \in Operators,
         \/ SavePatterns(s) \/ SaveOverrides(s) \/ SaveChain(s)
         \/ CreateAlias(s) \/ RemoveAlias(s) \/ RemoveQuarantine(s)
  PROVE  Writes /\ Sits
<1> DEFINE lists == session[s].seen.lists
<1>0. /\ "patterns" \in Lists /\ "overrides" \in Lists /\ "chain" \in Lists
      /\ "quarantine" \in Lists
      /\ "overrides" \in WholeCopy /\ "chain" \in WholeCopy /\ "newalias" \in WholeCopy
  BY DEF Lists, WholeCopy
<1>1. CASE SavePatterns(s)
  <2>1. Answers(s, "patterns") /\ Close(s)
    BY <1>1 DEF SavePatterns
  <2>2. lists["patterns"] \in Seq(Entry)
    BY <2>1, AnswerNoticed, LoadedParts, ListTypes DEF SessionOK
  <2>3. PICK list \in Added(lists["patterns"], Items) \cup Removed(lists["patterns"]) :
          Save([Load(disk) EXCEPT !.lists["patterns"] = list], {})
    BY <1>1 DEF SavePatterns
  <2>4. list \in Seq(Entry)
    BY <2>2, <2>3, EditedLists
  <2> QED
    BY <1>0, <2>1, <2>3, <2>4, FreshListWrites
<1>2. CASE SaveOverrides(s)
  <2> DEFINE old == lists["overrides"]
  <2>1. Answers(s, "overrides") /\ Close(s)
    BY <1>2 DEF SaveOverrides
  <2>2. old \in Seq(Entry)
    BY <2>1, AnswerNoticed, LoadedParts, ListTypes DEF SessionOK
  <2>3. PICK list \in {Append(old, x) : x \in Items \cup {BadItem}} \cup Removed(old) :
          Save([session[s].seen EXCEPT !.lists["overrides"] = list], {})
    BY <1>2 DEF SaveOverrides
  <2> HIDE DEF old
  <2>4. list \in Seq(Entry)
    BY <2>2, <2>3, EditedLists DEF Entry
  <2> QED
    BY <1>0, <2>1, <2>3, <2>4, ShownListWrites
<1>3. CASE SaveChain(s)
  <2> DEFINE old == Entries(lists["chain"])
  <2>1. Answers(s, "chain") /\ Close(s)
    BY <1>3 DEF SaveChain
  <2>2. old \in Seq(Entry)
    BY <2>1, AnswerNoticed, LoadedParts, ListTypes DEF SessionOK
  <2>3. PICK list \in Inserted(old) \cup Removed(old) \cup Moved(old) :
          Save([session[s].seen EXCEPT !.lists["chain"] = list], {})
    BY <1>3 DEF SaveChain
  <2> HIDE DEF old
  <2>4. list \in Seq(Entry)
    BY <2>2, <2>3, EditedLists
  <2> QED
    BY <1>0, <2>1, <2>3, <2>4, ShownListWrites
<1>4. CASE CreateAlias(s)
  <2>1. /\ Answers(s, "newalias") /\ Close(s)
        /\ Save([session[s].seen EXCEPT !.lists["chain"] = <<>>], {})
    BY <1>4 DEF CreateAlias
  <2>2. <<>> \in Seq(Entry)
    OBVIOUS
  <2> QED
    BY <1>0, <2>1, <2>2, ShownListWrites
<1>5. CASE RemoveAlias(s)
  <2>1. /\ Answers(s, "unalias") /\ Close(s)
        /\ Save([Load(disk) EXCEPT !.lists["chain"] = NULL], {})
    BY <1>5 DEF RemoveAlias
  <2> QED
    BY <1>0, <2>1, FreshListWrites
<1>6. CASE RemoveQuarantine(s)
  <2> DEFINE old == disk.lists["quarantine"]
  <2>1. Answers(s, "quarantine") /\ Close(s)
    BY <1>6 DEF RemoveQuarantine
  <2>2. old \in Seq(Entry) /\ Load(disk).lists["quarantine"] = old
    BY DiskLoads, FileParts, ListTypes
  <2>3. PICK i \in DOMAIN old :
          Save([Load(disk) EXCEPT !.lists["quarantine"] = RemoveAt(old, i)], {})
    BY <1>6, <2>2 DEF RemoveQuarantine
  <2> HIDE DEF old
  <2>4. RemoveAt(old, i) \in Seq(Entry)
    BY <2>2, <2>3, EditedLists
  <2> QED
    BY <1>0, <2>1, <2>3, <2>4, FreshListWrites
<1> QED
  BY <1>1, <1>2, <1>3, <1>4, <1>5, <1>6

(* The keys of an endpoint that is configured anew: the key that is written    *)
(* takes the place of those it makes superfluous.                             *)
LEMMA ReconfiguredKeys ==
  ASSUME NEW keys \in Seq(LoadedKey), NEW new \in LoadedKey, NEW ids, new.id \in ids,
         \A i \in DOMAIN keys : keys[i].value = "local" => keys[i].id \in ids
  PROVE  /\ Reconfigured(keys, new) \in Seq(LoadedKey)
         /\ IdsOf(Reconfigured(keys, new)) \subseteq IdsOf(keys) \cup {new.id}
         /\ DistinctIds(keys) => DistinctIds(Reconfigured(keys, new))
         /\ \A k \in ToSet(keys) : k.id \notin ids => k \in ToSet(Reconfigured(keys, new))
<1> DEFINE local == {i \in DOMAIN keys : keys[i].value = "local"}
           gone == {i \in DOMAIN keys : keys[i].id = new.id} \cup
                   (IF local = {} THEN {} ELSE {Min(local)})
           g == Min(gone)
           base == [keys EXCEPT ![g] = new]
           places == {i \in DOMAIN keys : i \notin gone \/ i = g}
           part == Selected(base, places)
<1>1. /\ DOMAIN keys = 1 .. Len(keys) /\ Len(keys) \in Nat /\ keys \in Seq(Key)
      /\ \A i \in 1 .. Len(keys) : keys[i] \in LoadedKey
      /\ new \in Key
  BY LoadedKeyType
<1>2. Reconfigured(keys, new) = IF gone = {} THEN Append(keys, new) ELSE part
  BY DEF Reconfigured
<1>3. local # {} => Min(local) \in local
  <2>1. local \subseteq Nat
    BY <1>1
  <2> QED
    BY <2>1, LeastPlace
<1>4. gone \subseteq 1 .. Len(keys)
  BY <1>1, <1>3
<1>5. \A i \in gone : keys[i].id \in ids
  BY <1>3
<1>6. \A i \in 1 .. Len(keys) : i \notin gone => keys[i].id # new.id
  BY <1>1
<1> HIDE DEF gone, local
<1>7. CASE gone = {}
  <2>1. new.id \notin IdsOf(keys)
    BY <1>6, <1>7 DEF IdsOf
  <2>2. /\ IdsOf(Append(keys, new)) = IdsOf(keys) \cup {new.id}
        /\ DistinctIds(keys) => DistinctIds(Append(keys, new))
        /\ ToSet(keys) \subseteq ToSet(Append(keys, new))
    BY <1>1, <2>1, AppendedKey
  <2>3. Append(keys, new) \in Seq(LoadedKey)
    OBVIOUS
  <2> QED
    BY <1>2, <1>7, <2>2, <2>3
<1>8. CASE gone # {}
  <2>1. g \in gone /\ g \in 1 .. Len(keys)
    <3>1. gone \subseteq Nat
      BY <1>1, <1>4
    <3> QED
      BY <1>4, <1>8, <3>1, LeastPlace
  <2>2. base \in Seq(LoadedKey)
    BY ReplacedType
  <2>3. /\ Len(base) = Len(keys) /\ base[g] = new
        /\ \A i \in 1 .. Len(keys) : i # g => base[i] = keys[i]
    BY <1>1, <2>1
  <2>4. places \subseteq 1 .. Len(base)
        /\ \A i \in 1 .. Len(keys) : i \in places <=> (i \notin gone \/ i = g)
    BY <1>1, <2>3
  <2> HIDE DEF base, places, g
  <2>5. part \in Seq(LoadedKey) /\ \E at : PicksOut(base, places, part, at)
    BY <2>2, <2>4, SelectedPicks
  <2> HIDE DEF part
  <2>6. PICK at : PicksOut(base, places, part, at)
    BY <2>5
  <2>7. /\ \A n \in places : base[n] \in ToSet(part)
        /\ IdsOf(part) = {base[n].id : n \in places}
    <3>1. base \in Seq(Key) /\ part \in Seq(Key)
      BY <2>2, <2>5, LoadedKeyType
    <3> QED
      BY <2>4, <2>6, <3>1, PickedKeys
  <2>8. IdsOf(part) \subseteq IdsOf(keys) \cup {new.id}
    <3> SUFFICES ASSUME NEW n \in places PROVE base[n].id \in IdsOf(keys) \cup {new.id}
      BY <2>7
    <3>1. n \in 1 .. Len(keys)
      BY <2>3, <2>4
    <3> QED
      BY <2>3, <3>1 DEF IdsOf
  <2>9. ASSUME DistinctIds(keys) PROVE DistinctIds(part)
    <3>1. ASSUME NEW a \in places, NEW b \in places, base[a].id = base[b].id PROVE a = b
      <4>1. a \in 1 .. Len(keys) /\ b \in 1 .. Len(keys)
        BY <2>3, <2>4
      <4>2. CASE a = g \/ b = g
        BY <1>6, <2>3, <2>4, <3>1, <4>1, <4>2
      <4>3. CASE a # g /\ b # g
        BY <2>3, <2>9, <3>1, <4>1, <4>3 DEF DistinctIds
      <4> QED
        BY <4>2, <4>3
    <3>2. /\ at \in [1 .. Len(part) -> places]
          /\ \A i \in 1 .. Len(part) : part[i] = base[at[i]]
          /\ \A i, j \in 1 .. Len(part) : at[i] = at[j] => i = j
      BY <2>6 DEF PicksOut
    <3> SUFFICES ASSUME NEW i \in 1 .. Len(part), NEW j \in 1 .. Len(part),
                        part[i].id = part[j].id
                 PROVE  i = j
      BY DEF DistinctIds
    <3>3. at[i] \in places /\ at[j] \in places /\ base[at[i]].id = base[at[j]].id
      BY <3>2
    <3> QED
      BY <3>1, <3>2, <3>3
  <2>10. ASSUME NEW k \in ToSet(keys), k.id \notin ids PROVE k \in ToSet(part)
    <3>1. PICK i \in 1 .. Len(keys) : k = keys[i]
      BY <1>1 DEF ToSet
    <3>2. i \notin gone /\ i # g
      BY <1>5, <2>1, <2>10, <3>1
    <3>3. i \in places /\ base[i] = k
      BY <2>3, <2>4, <3>1, <3>2
    <3> QED
      BY <2>7, <3>3
  <2> QED
    BY <1>2, <1>8, <2>5, <2>8, <2>9, <2>10
<1> QED
  BY <1>7, <1>8

(* When ids are apart, the last provider with an id is the only one.          *)
LEMMA OnlyOwner ==
  ASSUME NEW file \in LoadedFile, Apart(file.keys), NEW p \in ProviderNames, NEW id,
         LastOwner(file, id) \in {NULL, p}
  PROVE  \A q \in ProviderNames \ {p} : id \notin IdsOf(file.keys[q])
<1> SUFFICES ASSUME NEW q \in ProviderNames \ {p}, id \in IdsOf(file.keys[q]) PROVE FALSE
  OBVIOUS
<1>1. \A r \in ProviderNames : r \in Owners(file, id) <=> id \in IdsOf(file.keys[r])
  <2>1. \A r \in ProviderNames : DOMAIN file.keys[r] = 1 .. Len(file.keys[r])
    BY LoadedParts
  <2> QED
    BY <2>1 DEF Owners, IdsOf
<1> DEFINE owners == {n \in DOMAIN Providers : Providers[n] \in Owners(file, id)}
<1>2. PICK n \in DOMAIN Providers : Providers[n] = q
  BY DEF ProviderNames, ToSet
<1>3. DOMAIN Providers = 1 .. Len(Providers) /\ Len(Providers) \in Nat
  BY ConfigAssumption
<1>4. n \in owners /\ owners \subseteq 1 .. Len(Providers)
  BY <1>1, <1>2, <1>3
<1>5. Max(owners) \in owners
  <2> HIDE DEF owners
  <2> QED
    BY <1>3, <1>4, GreatestPlace
<1>6. LastOwner(file, id) = Providers[Max(owners)]
  BY <1>4 DEF LastOwner
<1>7. Providers[Max(owners)] \in Owners(file, id) /\ Providers[Max(owners)] \in ProviderNames
  BY <1>5 DEF Owners
<1>8. p \in Owners(file, id)
  BY <1>6, <1>7, ConfigAssumption
<1>9. id \in IdsOf(file.keys[p])
  BY <1>1, <1>8
<1> QED
  BY <1>9 DEF Apart

LEMMA SaveLocalWrites ==
  ASSUME IInv, NEW s \in Operators, NEW id \in Ids, NEW withKey \in BOOLEAN,
         SaveLocal(s, id, withKey)
  PROVE  Writes /\ Sits
<1> DEFINE t == session[s]
           p == t.at
           file == t.seen
           keys == file.keys[p]
           key == [id |-> id, value |-> IF withKey THEN "secret" ELSE "local", rest |-> 0]
           list == Reconfigured(keys, key)
           free == ~ withKey
           ids == {id} \cup {keys[i].id : i \in {i \in DOMAIN keys : keys[i].value = "local"}}
           new == [file EXCEPT !.keys[p] = list, !.open[p] = free]
<1>1. /\ Answers(s, "local") /\ Close(s) /\ Save(new, ids)
      /\ LastOwner(file, id) \in {NULL, p}
  BY DEF SaveLocal
<1>2. p \in ProviderNames /\ file \in LoadedFile
  BY <1>1, AnswerNoticed DEF SessionOK
<1>3. ~ overtaken' => Load(disk) = file
  BY <1>1, AnswerNoticed DEF WholeCopy
<1>4. key \in LoadedKey /\ key.id = id /\ free \in BOOLEAN
  BY DEF LoadedKey, Key, KeyValue
<1>5. keys \in Seq(LoadedKey)
  BY <1>2, LoadedParts
<1>6. ids \subseteq Ids
  BY <1>5 DEF LoadedKey, Key
<1> HIDE DEF key
<1>7. /\ list \in Seq(LoadedKey)
      /\ IdsOf(list) \subseteq IdsOf(keys) \cup {id}
      /\ DistinctIds(keys) => DistinctIds(list)
      /\ \A k \in ToSet(keys) : k.id \notin ids => k \in ToSet(list)
  <2>1. key.id \in ids /\ \A i \in DOMAIN keys : keys[i].value = "local" => keys[i].id \in ids
    BY <1>4
  <2> HIDE DEF ids, keys
  <2> QED
    BY <1>4, <1>5, <2>1, ReconfiguredKeys
<1> HIDE DEF list, ids, free
<1>8. Apart(file.keys)
        => /\ DistinctIds(list)
           /\ \A q \in ProviderNames \ {p} : IdsOf(list) \cap IdsOf(file.keys[q]) = {}
  <2> SUFFICES ASSUME Apart(file.keys)
               PROVE  /\ DistinctIds(list)
                      /\ \A q \in ProviderNames \ {p} : IdsOf(list) \cap IdsOf(file.keys[q]) = {}
    OBVIOUS
  <2>1. \A q \in ProviderNames \ {p} : id \notin IdsOf(file.keys[q])
    <3> HIDE DEF file, p
    <3> QED
      BY <1>1, <1>2, OnlyOwner
  <2>2. DistinctIds(keys) /\ \A q \in ProviderNames \ {p} : IdsOf(keys) \cap IdsOf(file.keys[q]) = {}
    BY <1>2 DEF Apart
  <2> HIDE DEF keys, file, p
  <2> QED
    BY <1>7, <2>1, <2>2
<1>9. new \in LoadedFile /\ Harmless(file, new, ids)
  <2>1. \A k \in ToSet(file.keys[p]) : k.id \notin ids => k \in ToSet(list)
    BY <1>7
  <2> HIDE DEF file, p
  <2> QED
    BY <1>2, <1>4, <1>7, <1>8, <2>1, ProviderHarmless
<1> HIDE DEF new, file
<1> QED
  BY <1>1, <1>3, <1>6, <1>9, AnswerWrites

(* The panel of a key writes a record to the number of the key.               *)
LEMMA UpdateWrites ==
  ASSUME IInv, NEW s \in Operators, Answers(s, "key"), InRange(session[s]),
         NEW key \in LoadedKey, NEW ids, ids \subseteq Ids, session[s].key.id \in ids,
         key.id = session[s].key.id \/ Owners(disk, key.id) = {},
         Save(Updated(session[s], key), ids), Stays(s, key)
  PROVE  Writes /\ Sits
<1> DEFINE t == session[s]
           p == t.at
           n == t.index
           file == Load(disk)
           new == [file EXCEPT !.keys[p][n] = key]
<1>1. Save(new, ids)
  BY DEF Updated
<1>2. /\ t \in Session /\ t.kind = "key" /\ p \in ProviderNames
      /\ n \in 1 .. Len(t.seen.keys[p]) /\ t.key = t.seen.keys[p][n]
      /\ ~ overtaken' => file.keys[p] = t.seen.keys[p]
  BY AnswerNoticed DEF SessionOK
<1>3. file \in LoadedFile /\ file.keys[p] \in Seq(LoadedKey) /\ n \in 1 .. Len(file.keys[p])
  BY <1>2, DiskLoads, LoadedParts, LoadedKeys DEF InRange
<1> DEFINE list == [file.keys[p] EXCEPT ![n] = key]
<1>4. list \in Seq(LoadedKey) /\ Len(list) = Len(file.keys[p]) /\ list[n] = key
  BY <1>3, ReplacedType
<1>5. new = [file EXCEPT !.keys[p] = list]
  OBVIOUS
<1>6. new \in LoadedFile
  <2>1. FALSE \in BOOLEAN
    OBVIOUS
  <2> HIDE DEF list, new, file, p
  <2> QED
    BY <1>2, <1>3, <1>4, <1>5, <2>1, ProviderWritten
<1>7. ~ overtaken' => Harmless(file, new, ids)
  <2> SUFFICES ASSUME ~ overtaken' PROVE Harmless(file, new, ids)
    OBVIOUS
  <2>1. file.keys[p][n] = t.key
    BY <1>2
  <2>2. \/ key.id = file.keys[p][n].id
        \/ \A q \in ProviderNames : key.id \notin IdsOf(file.keys[q])
    BY <2>1, DiskLoads, Unowned
  <2>3. file.keys[p][n].id \in ids
    BY <2>1
  <2> HIDE DEF file, p, n
  <2> QED
    BY <1>2, <1>3, <2>2, <2>3, ReplaceHarmless
<1>8. new.keys[p] = list
  BY <1>2, <1>3, <1>5, LoadedParts
<1> HIDE DEF new, list
<1>9. Writes
  BY <1>1, <1>6, <1>7, AnswerNoticed DEF Writes, Save
<1>10. Sits
  <2> DEFINE u == [t EXCEPT !.key = key, !.seen = Load(new)]
  <2>1. disk' = new
    BY <1>1 DEF Save
  <2>2. Load(new) \in LoadedFile /\ Load(new) \in File /\ Load(new).keys = new.keys
    <3>1. new \in File
      BY <1>6, LoadedParts
    <3> QED
      BY <1>6, <3>1, LoadType, LoadAgain, LoadedParts
  <2>3. session' = [session EXCEPT ![s] = u]
    BY <2>1 DEF Stays
  <2>4. key \in Key
    BY LoadedKeyType
  <2>5. u \in Session
    BY <1>2, <2>2, <2>4 DEF Session
  <2>6. /\ u.kind = "key" /\ u.at = p /\ u.index = n /\ u.key = key /\ u.seen = Load(new)
    BY <1>2 DEF Session
  <2> HIDE DEF u
  <2>7. SessionOK(u)
    BY <1>2, <1>3, <1>4, <1>8, <2>2, <2>6 DEF SessionOK
  <2> QED
    BY <2>3, <2>5, <2>7 DEF Sits
<1> QED
  BY <1>9, <1>10

LEMMA KeyPanelWrites ==
  ASSUME IInv, NEW s \in Operators,
         \/ EditKey(s) \/ ReplaceKey(s) \/ RemoveKey(s)
         \/ \E id \in Ids : RenameKey(s, id)
  PROVE  Writes /\ Sits
<1> DEFINE t == session[s]
<1>0. Answers(s, "key")
  BY DEF EditKey, ReplaceKey, RemoveKey, RenameKey
<1>1. t.key \in LoadedKey /\ t.key.id \in Ids /\ t.key.rest \in {0, 1}
  BY <1>0, AnswerNoticed DEF SessionOK, LoadedKey, Key
<1>2. CASE EditKey(s)
  <2> DEFINE key == [t.key EXCEPT !.rest = 1 - @]
  <2>1. /\ InRange(t) /\ Save(Updated(t, key), {key.id}) /\ Stays(s, key)
    BY <1>2 DEF EditKey
  <2>2. key \in LoadedKey /\ key.id = t.key.id
    BY <1>1 DEF LoadedKey, Key
  <2> HIDE DEF key
  <2> QED
    BY <1>0, <1>1, <2>1, <2>2, UpdateWrites
<1>3. CASE ReplaceKey(s)
  <2> DEFINE key == [t.key EXCEPT !.value = "secret", !.rest = 0]
  <2>1. /\ InRange(t) /\ Save(Updated(t, key), {key.id}) /\ Stays(s, key)
    BY <1>3 DEF ReplaceKey
  <2>2. key \in LoadedKey /\ key.id = t.key.id
    BY <1>1 DEF LoadedKey, Key, KeyValue
  <2> HIDE DEF key
  <2> QED
    BY <1>0, <1>1, <2>1, <2>2, UpdateWrites
<1>4. ASSUME NEW id \in Ids, RenameKey(s, id) PROVE Writes /\ Sits
  <2> DEFINE key == [t.key EXCEPT !.id = id]
  <2>1. /\ InRange(t) /\ Save(Updated(t, key), {t.key.id, id}) /\ Stays(s, key)
        /\ Owners(disk, id) = {}
    BY <1>4 DEF RenameKey
  <2>2. key \in LoadedKey /\ key.id = id
    BY <1>1 DEF LoadedKey, Key
  <2> HIDE DEF key
  <2> QED
    BY <1>0, <1>1, <2>1, <2>2, UpdateWrites
<1>5. CASE RemoveKey(s)
  <2> DEFINE file == Load(disk)
             p == t.at
             n == t.index
             ids == {t.key.id}
             new == [file EXCEPT !.keys[p] = RemoveAt(file.keys[p], n)]
  <2>1. InRange(t) /\ Save(new, ids) /\ Close(s)
    BY <1>5 DEF RemoveKey
  <2>2. /\ p \in ProviderNames /\ t.key = t.seen.keys[p][n]
        /\ ~ overtaken' => file.keys[p] = t.seen.keys[p]
    BY <1>0, AnswerNoticed DEF SessionOK
  <2>3. file \in LoadedFile /\ n \in 1 .. Len(file.keys[p])
    BY <2>1, <2>2, DiskLoads, LoadedKeys DEF InRange
  <2>4. ~ overtaken' => file.keys[p][n].id \in ids
    BY <2>2
  <2> HIDE DEF file, p, n, ids
  <2>5. new \in LoadedFile /\ (~ overtaken' => Harmless(file, new, ids))
    BY <2>2, <2>3, <2>4, RemoveHarmless
  <2>6. ids \subseteq Ids
    BY <1>1 DEF ids
  <2> HIDE DEF new
  <2> QED
    BY <1>0, <2>1, <2>5, <2>6, AnswerWrites DEF file
<1> QED
  BY <1>2, <1>3, <1>4, <1>5

-----------------------------------------------------------------------------
(* The load before the prompts *)

LEMMA OpenSits ==
  ASSUME IInv, NEW s \in Operators, NEW kind \in WholeCopy \cup FreshCopy,
         NEW at \in ProviderNames \cup Settings \cup Lists, NEW index \in Nat,
         Open(s, kind, at, index),
         kind \in {"key", "local"} => at \in ProviderNames,
         kind \in {"setting", "account"} => at \in Settings,
         kind = "key" => index \in DOMAIN disk.keys[at]
  PROVE  Reads /\ Sits
<1> DEFINE seen == Load(disk)
           selected == IF kind = "key" THEN seen.keys[at][index] ELSE NULL
           t == [kind |-> kind, at |-> at, seen |-> seen, index |-> index, key |-> selected]
<1>1. session' = [session EXCEPT ![s] = t] /\ UNCHANGED <<disk, loaded, saves, aimed, overtaken>>
  BY DEF Open
<1>2. seen \in LoadedFile /\ seen \in File
  BY DiskLoads, LoadedParts
<1>3. kind = "key" => /\ index \in 1 .. Len(seen.keys[at])
                      /\ selected = seen.keys[at][index]
                      /\ selected \in LoadedKey
  <2> SUFFICES ASSUME kind = "key"
               PROVE  index \in 1 .. Len(seen.keys[at]) /\ seen.keys[at][index] \in LoadedKey
    OBVIOUS
  <2>1. at \in ProviderNames /\ index \in DOMAIN disk.keys[at]
    OBVIOUS
  <2>2. index \in 1 .. Len(seen.keys[at])
    BY <2>1, DiskLoads, LoadedKeys
  <2>3. seen.keys[at] \in Seq(LoadedKey)
    BY <1>2, <2>1, LoadedParts
  <2> QED
    BY <2>2, <2>3
<1>4. selected \in Key \cup {NULL}
  BY <1>3, LoadedKeyType
<1> HIDE DEF seen, selected
<1>5. t \in Session
  BY <1>2, <1>4 DEF Session
<1>6. SessionOK(t)
  BY <1>2, <1>3 DEF SessionOK
<1> HIDE DEF t
<1>7. Sits
  BY <1>1, <1>5, <1>6 DEF Sits
<1> QED
  BY <1>1, <1>7 DEF Reads

LEMMA OpensSit ==
  ASSUME IInv, NEW s \in Operators,
         \/ \E p \in ProviderNames : OpenLocal(s, p) \/ \E i \in 1 .. MaxLen : OpenKey(s, p, i)
         \/ \E x \in Settings : OpenSetting(s, x)
         \/ \E list \in Lists : OpenList(s, list)
  PROVE  Reads /\ Sits
<1>0. 0 \in Nat /\ MaxLen \in Nat
  BY ConfigAssumption
<1>1. ASSUME NEW p \in ProviderNames, OpenLocal(s, p) PROVE Reads /\ Sits
  <2>1. Open(s, "local", p, 0) /\ "local" \in WholeCopy
    BY <1>1 DEF OpenLocal, WholeCopy
  <2> QED
    BY <1>0, <2>1, OpenSits
<1>2. ASSUME NEW p \in ProviderNames, NEW i \in 1 .. MaxLen, OpenKey(s, p, i) PROVE Reads /\ Sits
  <2>1. Open(s, "key", p, i) /\ i \in DOMAIN disk.keys[p] /\ "key" \in FreshCopy
    BY <1>2 DEF OpenKey, FreshCopy
  <2>2. i \in Nat
    BY <1>0
  <2> QED
    BY <2>1, <2>2, OpenSits
<1>3. ASSUME NEW x \in Settings, OpenSetting(s, x) PROVE Reads /\ Sits
  <2>1. PICK kind \in {"setting", "account"} : Open(s, kind, x, 0)
    BY <1>3 DEF OpenSetting
  <2>2. kind \in WholeCopy \cup FreshCopy /\ kind \notin {"key", "local"}
    BY DEF WholeCopy, FreshCopy
  <2>3. kind # "key" /\ (kind \in {"key", "local"} => x \in ProviderNames)
    BY <2>2
  <2> QED
    BY <1>0, <2>1, <2>2, <2>3, OpenSits
<1>4. ASSUME NEW list \in Lists, OpenList(s, list) PROVE Reads /\ Sits
  <2>1. PICK kind \in Lists \cup {"newalias", "unalias"} : Open(s, kind, list, 0)
    BY <1>4 DEF OpenList, Lists
  <2>2. kind \in WholeCopy \cup FreshCopy /\ kind \notin {"key", "local", "setting", "account"}
    BY DEF WholeCopy, FreshCopy, Lists
  <2>3. /\ kind # "key"
        /\ kind \in {"key", "local"} => list \in ProviderNames
        /\ kind \in {"setting", "account"} => list \in Settings
    BY <2>2
  <2> QED
    BY <1>0, <2>1, <2>2, <2>3, OpenSits
<1> QED
  BY <1>1, <1>2, <1>3, <1>4

-----------------------------------------------------------------------------
(* Every step *)

(* A step writes, or leaves the file alone; its sessions are what they may be. *)
LEMMA StepKinds ==
  ASSUME IInv, [Next]_vars
  PROVE  Sits /\ (Writes \/ Reads)
<1>1. CASE UNCHANGED vars
  BY <1>1 DEF vars, Sits, Reads
<1>2. CASE ReloadConfig \/ StopGateway \/ StartGateway
  BY <1>2 DEF ReloadConfig, StopGateway, StartGateway, Sits, Reads
<1>3. ASSUME NEW s \in Operators,
             \E p \in ProviderNames, id \in Ids : KeysAdd(s, p, id) \/ Connect(s, p, id)
      PROVE  Sits /\ Writes
  BY <1>3, KeysAddWrites, ConnectWrites
<1>4. ASSUME NEW s \in Operators,
             \/ \E id \in Ids : KeysRemove(s, id) \/ RenameKey(s, id)
             \/ EditKey(s) \/ ReplaceKey(s) \/ RemoveKey(s)
      PROVE  Sits /\ Writes
  <2>1. CASE \E id \in Ids : KeysRemove(s, id)
    BY <2>1, KeysRemoveWrites
  <2>2. CASE (\E id \in Ids : RenameKey(s, id)) \/ EditKey(s) \/ ReplaceKey(s) \/ RemoveKey(s)
    BY <2>2, KeyPanelWrites
  <2> QED
    BY <1>4, <2>1, <2>2
<1>5. ASSUME NEW s \in Operators,
             \/ CleanUnconfigured(s) \/ ResetPatterns(s)
             \/ \E item \in Items : AddQuarantine(s, item)
             \/ \E item \in Items, position \in 1 .. MaxLen : SetPriority(s, item, position)
      PROVE  Sits /\ Writes
  BY <1>5, CleanUnconfiguredWrites, ResetPatternsWrites, AddQuarantineWrites, SetPriorityWrites
<1>6. ASSUME NEW s \in Operators,
             \/ \E value \in Values : SaveSetting(s, value) \/ SaveAccount(s, value)
             \/ SavePatterns(s) \/ SaveOverrides(s) \/ SaveChain(s)
             \/ CreateAlias(s) \/ RemoveAlias(s) \/ RemoveQuarantine(s)
             \/ \E id \in Ids, withKey \in BOOLEAN : SaveLocal(s, id, withKey)
      PROVE  Sits /\ Writes
  <2>1. CASE \E value \in Values : SaveSetting(s, value) \/ SaveAccount(s, value)
    BY <2>1, SaveSettingWrites
  <2>2. CASE \/ SavePatterns(s) \/ SaveOverrides(s) \/ SaveChain(s)
             \/ CreateAlias(s) \/ RemoveAlias(s) \/ RemoveQuarantine(s)
    BY <2>2, ListsWrite
  <2>3. CASE \E id \in Ids, withKey \in BOOLEAN : SaveLocal(s, id, withKey)
    BY <2>3, SaveLocalWrites
  <2> QED
    BY <1>6, <2>1, <2>2, <2>3
<1>7. ASSUME NEW s \in Operators,
             \/ \E p \in ProviderNames : OpenLocal(s, p) \/ \E i \in 1 .. MaxLen : OpenKey(s, p, i)
             \/ \E x \in Settings : OpenSetting(s, x)
             \/ \E list \in Lists : OpenList(s, list)
      PROVE  Sits /\ Reads
  BY <1>7, OpensSit
<1>8. ASSUME NEW s \in Operators, Cancel(s) PROVE Sits /\ Reads
  BY <1>8 DEF Cancel, Close, Sits, Reads
<1> QED
  BY <1>1, <1>2, <1>3, <1>4, <1>5, <1>6, <1>7, <1>8 DEF Next

(* The keys of the file have distinct ids exactly when they have once loaded.  *)
LEMMA UniqueLoaded ==
  ASSUME NEW file \in File
  PROVE  IdsUnique(file) <=> Apart(Load(file).keys)
BY FileParts, UniqueApart, LoadedKeys

LEMMA InitIInv == Init => IInv
<1> SUFFICES ASSUME Init PROVE IInv
  OBVIOUS
<1>1. /\ disk = First /\ loaded = Load(First) /\ session = [s \in Operators |-> NULL]
      /\ saves = 0 /\ aimed = {} /\ overtaken = FALSE
  BY DEF Init
<1>2. First \in File /\ Load(First) \in LoadedFile /\ Load(First) \in File
  BY ConfigAssumption, LoadType, LoadedParts
<1>3. TypeOK
  <2>1. saves \in 0 .. MaxSaves
    <3>1. MaxSaves \in Nat
      BY ConfigAssumption
    <3> QED
      BY <1>1, <3>1
  <2>2. aimed \subseteq Ids /\ overtaken \in BOOLEAN
    BY <1>1
  <2>3. session \in [Operators -> Session \cup {NULL}]
    BY <1>1
  <2> QED
    BY <1>1, <1>2, <2>1, <2>2, <2>3 DEF TypeOK
<1>4. SessionsOK
  BY <1>1 DEF SessionsOK
<1>5. IdsUnique(Load(First))
  BY FirstAccepted DEF Accepts, IdsUnique
<1>6. IdsUnique(First)
  <2>1. Apart(Load(First).keys)
    BY <1>2, <1>5, LoadedParts, UniqueApart
  <2> QED
    BY <1>2, <2>1, UniqueLoaded
<1> QED
  BY <1>1, <1>2, <1>3, <1>4, <1>5, <1>6 DEF IInv, DuplicatesOnlyByRace

LEMMA NextIInv == IInv /\ [Next]_vars => IInv'
<1> SUFFICES ASSUME IInv, [Next]_vars PROVE IInv'
  OBVIOUS
<1>0. Sits /\ (Writes \/ Reads)
  BY StepKinds
<1>1. disk \in File /\ Load(disk) \in LoadedFile /\ Load(disk) \in File
  BY DiskLoads, LoadedParts
<1>2. disk' \in File
  BY <1>0, <1>1, LoadedParts DEF Writes, Reads
<1>3. loaded' \in File \cup {NULL} /\ (loaded' # NULL => loaded' \in LoadedFile)
  BY <1>0, <1>1 DEF Writes, Reads, IInv, TypeOK
<1>4. session' \in [Operators -> Session \cup {NULL}]
  BY <1>0 DEF Sits, IInv, TypeOK
<1>5. /\ saves' \in 0 .. MaxSaves /\ aimed' \subseteq Ids /\ overtaken' \in BOOLEAN
  BY <1>0, ConfigAssumption DEF Writes, Reads, IInv, TypeOK
<1>6. SessionsOK'
  <2> SUFFICES ASSUME NEW r \in Operators, session'[r] # NULL PROVE SessionOK(session'[r])
    BY DEF SessionsOK
  <2>1. session \in [Operators -> Session \cup {NULL}] /\ SessionsOK
    BY DEF IInv, TypeOK
  <2>2. CASE session' = session
    BY <2>1, <2>2 DEF SessionsOK
  <2>3. ASSUME NEW s \in Operators, session' = [session EXCEPT ![s] = NULL]
        PROVE  SessionOK(session'[r])
    BY <2>1, <2>3 DEF SessionsOK
  <2>4. ASSUME NEW s \in Operators, NEW t \in Session, SessionOK(t),
               session' = [session EXCEPT ![s] = t]
        PROVE  SessionOK(session'[r])
    BY <2>1, <2>4 DEF SessionsOK
  <2> QED
    BY <1>0, <2>2, <2>3, <2>4 DEF Sits
<1>7. DuplicatesOnlyByRace'
  <2>1. CASE Reads
    BY <2>1 DEF Reads, IInv, DuplicatesOnlyByRace
  <2>2. CASE Writes
    <3> SUFFICES ASSUME ~ overtaken' PROVE IdsUnique(disk')
      BY DEF DuplicatesOnlyByRace
    <3>1. IdsUnique(disk) /\ Harmless(Load(disk), disk', aimed')
      BY <2>2 DEF Writes, IInv, DuplicatesOnlyByRace
    <3>2. Apart(Load(disk).keys)
      BY <1>1, <3>1, UniqueLoaded
    <3>3. Apart(disk'.keys)
      BY <3>1, <3>2 DEF Harmless
    <3> QED
      BY <1>2, <3>3, FileParts, UniqueApart
  <2> QED
    BY <1>0, <2>1, <2>2
<1> QED
  BY <1>2, <1>3, <1>4, <1>5, <1>6, <1>7 DEF IInv, TypeOK

LEMMA AlwaysIInv == Spec => []IInv
<1>1. IInv /\ UNCHANGED vars => IInv'
  BY NextIInv
<1> QED
  BY InitIInv, NextIInv, PTL DEF Spec

-----------------------------------------------------------------------------
(* What holds of every file, however many sessions write it *)

(* The file and every copy of it that a session or the gateway has are files,  *)
(* whoever writes over whom.                                                  *)
THEOREM TypeCorrect == Spec => []TypeOK
<1>1. IInv => TypeOK
  BY DEF IInv
<1> QED
  BY <1>1, AlwaysIInv, PTL

(* keys_add, the sign-in, the wizard of an endpoint and the renaming of a key   *)
(* each look for the id before they write it: two keys get one id only when a *)
(* session wrote over what another had written since it looked.               *)
THEOREM AlwaysDuplicatesOnlyByRace == Spec => []DuplicatesOnlyByRace
<1>1. IInv => DuplicatesOnlyByRace
  BY DEF IInv
<1> QED
  BY <1>1, AlwaysIInv, PTL

(* A write that is not overtaken changes one section of the file.             *)
THEOREM AlwaysEditsAreLocal == Spec => EditsAreLocal
<1> DEFINE changed == {x \in {"keys"} \cup Lists \cup Settings :
                         Sections(disk')[x] # Sections(Load(disk))[x] /\ disk' # disk}
           A == ~ overtaken' => Cardinality(changed) <= 1
<1>1. ASSUME IInv, [Next]_vars PROVE A
  <2> SUFFICES ASSUME ~ overtaken' PROVE Cardinality(changed) <= 1
    OBVIOUS
  <2>1. \E y : changed \subseteq {y}
    <3>1. CASE Reads
      BY <3>1 DEF Reads
    <3>2. CASE Writes
      BY <3>2 DEF Writes, Harmless, OneSection, SectionNames
    <3> QED
      BY <1>1, <3>1, <3>2, StepKinds
  <2>2. PICK y : changed \subseteq {y}
    BY <2>1
  <2> HIDE DEF changed
  <2>3. changed = {} \/ changed = {y}
    BY <2>2
  <2>4. Cardinality({}) = 0 /\ Cardinality({y}) = 1
    BY FS_EmptySet, FS_Singleton
  <2> QED
    BY <2>3, <2>4
<1>2. IInv /\ [Next]_vars => [A]_vars
  BY <1>1
<1> QED
  BY <1>2, AlwaysIInv, PTL DEF Spec, EditsAreLocal

(* A write that is not overtaken takes no key, and changes none, but those the *)
(* operator was asked about.                                                  *)
THEOREM AlwaysKeysSurvive == Spec => KeysSurvive
<1> DEFINE A == ~ overtaken' =>
                  \A p \in ProviderNames :
                    {k \in ToSet(Load(disk).keys[p]) : k.id \notin aimed'}
                      \subseteq ToSet(Load(disk').keys[p])
<1>1. ASSUME IInv, [Next]_vars PROVE A
  <2>1. CASE Reads
    BY <2>1 DEF Reads
  <2>2. CASE Writes
    <3> SUFFICES ASSUME ~ overtaken', NEW p \in ProviderNames,
                        NEW k \in ToSet(Load(disk).keys[p]), k.id \notin aimed'
                 PROVE  k \in ToSet(Load(disk').keys[p])
      OBVIOUS
    <3>1. k \in ToSet(disk'.keys[p])
      BY <2>2 DEF Writes, Harmless, KeptBut
    <3>2. Load(disk').keys = disk'.keys
      BY <2>2, LoadAgain DEF Writes
    <3> QED
      BY <3>1, <3>2
  <2> QED
    BY <1>1, <2>1, <2>2, StepKinds
<1>2. IInv /\ [Next]_vars => [A]_vars
  BY <1>1
<1> QED
  BY <1>2, AlwaysIInv, PTL DEF Spec, KeysSurvive
=============================================================================
