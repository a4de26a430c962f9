--------------------------------- MODULE Lists ---------------------------------
(***************************************************************************)
(* The lists of the inventory and of the planner: comprehensions, stable      *)
(* sorts, what is left of a list when repetitions go.  Each is given by the   *)
(* places it takes its elements from and the order of these places.           *)
(***************************************************************************)
EXTENDS Integers, Sequences, FiniteSets

(* The values of the function e in the order of its arguments: before is the    *)
(* set of the pairs of arguments of which the first comes first.               *)
Arranged(e, before) ==
  LET place == [i \in DOMAIN e |-> Cardinality({j \in DOMAIN e : <<j, i>> \in before}) + 1]
  IN  [n \in 1 .. Cardinality(DOMAIN e) |-> e[CHOOSE i \in DOMAIN e : place[i] = n]]

(* The values of a function on numbers, by number.                            *)
Listed(e) == Arranged(e, {p \in (DOMAIN e) \X (DOMAIN e) : p[1] < p[2]})

(* The elements of s at these places.                                         *)
Kept(s, places) == Listed([i \in places |-> s[i]])

(* Each element once, where it stands first.                                   *)
Dedupe(s) == Kept(s, {i \in DOMAIN s : \A j \in 1 .. i - 1 : s[j] # s[i]})

(* Sequences of numbers compared as Python compares tuples. *)
Above(a, b) == \E i \in DOMAIN a : a[i] > b[i] /\ \A j \in 1 .. i - 1 : a[j] = b[j]

(* The lists of a list, one after the other.                                   *)
Concat(lists) ==
  LET places == UNION {{i} \X (DOMAIN lists[i]) : i \in DOMAIN lists}
  IN  Arranged([at \in places |-> lists[at[1]][at[2]]],
               {p \in places \X places : Above(p[2], p[1])})

(* A stable sort by descending key, k[i] being the key of s[i].                *)
Ranked(s, k) ==
  LET first(i, j) == Above(k[i], k[j]) \/ (~ Above(k[j], k[i]) /\ i < j)
  IN  Arranged(s, {p \in (DOMAIN s) \X (DOMAIN s) : first(p[1], p[2])})
=============================================================================
