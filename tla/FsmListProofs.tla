--------------------------- MODULE FsmListProofs ---------------------------
(***************************************************************************)
(* That list.c leaves list integrity behind and that its lists are         *)
(* sequences, for every heap.                                              *)
(*                                                                         *)
(* Integrity speaks of what a walk along "next" reaches, which a step says *)
(* little about.  The inductive invariant names the chains themselves: a   *)
(* heap is well formed when there is a sequence of elements for every list *)
(* such that the records and the elements are linked, counted and numbered *)
(* accordingly, no element is in two places, and none in use is nowhere.   *)
(* Every operation is then a change of one or two of the sequences.        *)
(***************************************************************************)
EXTENDS FsmList, FiniteSetTheorems, SequenceTheorems, WellFoundedInduction, TLAPS

-----------------------------------------------------------------------------
(* Numbers. *)
LEMMA Least ==
  ASSUME NEW S \in SUBSET Nat, S # {}
  PROVE  \E n \in S : \A k \in S : n <= k
<1> DEFINE R == OpToRel(<, Nat)
<1>1. R = {p \in Nat \X Nat : p[1] < p[2]}
  BY Zenon DEF OpToRel
<1>2. IsWellFoundedOn(R, Nat)
  BY NatLessThanWellFounded, Zenon
<1> HIDE DEF R
<1>3. PICK n \in S : \A k \in S : ~ (<<k, n>> \in R)
  BY <1>2, WFMin, Zenon
<1>4. \A k \in S : <<k, n>> \in Nat \X Nat
  OBVIOUS
<1>5. \A k \in S : ~(k < n)
  BY <1>1, <1>3, <1>4
<1> QED BY <1>5

(* Induction, for a set of numbers. *)
LEMMA Induct ==
  ASSUME NEW S, NEW N \in Nat, 0 \in S,
         \A n \in 1..N : n - 1 \in S => n \in S
  PROVE  \A n \in 0..N : n \in S
<1> SUFFICES ASSUME {n \in 0..N : n \notin S} # {} PROVE FALSE
  OBVIOUS
<1>1. PICK n \in {n \in 0..N : n \notin S} : \A k \in {n1 \in 0..N : n1 \notin S} : n <= k
  <2> DEFINE T == {n \in 0..N : n \notin S}
  <2>1. T \in SUBSET Nat
    OBVIOUS
  <2> HIDE DEF T
  <2>2. \E n \in T : \A k \in T : n <= k
    BY <2>1, Least DEF T
  <2> QED BY <2>2 DEF T
<1>2. n # 0 /\ n \in 1..N /\ n - 1 \in 0..N /\ ~(n <= n - 1)
  BY <1>1
<1> QED BY <1>1, <1>2

LEMMA Size ==
  ASSUME NEW n \in Nat
  PROVE  Cardinality(1..n) = n
<1>1. Cardinality(1..n) = IF 1 > n THEN 0 ELSE n - 1 + 1
  BY FS_Interval
<1> QED BY <1>1

-----------------------------------------------------------------------------
(* v is the chain of l in the heap h. *)
Chain(h, l, v) ==
  /\ v \in Seq(Elems)
  /\ h.rec[l] = NULL => Len(v) = 0
  /\ h.rec[l] # NULL =>
       /\ h.rec[l].count = Len(v)
       /\ h.rec[l].head = IF Len(v) = 0 THEN NULL ELSE v[1]
       /\ h.rec[l].tail = IF Len(v) = 0 THEN NULL ELSE v[Len(v)]
  /\ \A i \in 1..Len(v) :
       /\ h.elem[v[i]] # NULL
       /\ h.elem[v[i]].ordinal = i - 1
       /\ h.elem[v[i]].next = IF i = Len(v) THEN NULL ELSE v[i + 1]

Heaps == [rec  : [Lists -> ListRecords \union {NULL}],
          elem : [Elems -> ListElements \union {NULL}]]

(* no element is in two chains *)
Apart(c) ==
  \A l, k \in Lists : \A i \in 1..Len(c[l]), j \in 1..Len(c[k]) :
    c[l][i] = c[k][j] => l = k

(* every element in use is in a chain *)
Owned(h, c) ==
  \A e \in Elems : h.elem[e] # NULL => \E l \in Lists : \E i \in 1..Len(c[l]) : c[l][i] = e

Chains(h, c) ==
  /\ h \in Heaps
  /\ c \in [Lists -> Seq(Elems)]
  /\ \A l \in Lists : Chain(h, l, c[l])
  /\ Apart(c)
  /\ Owned(h, c)

(* the inductive invariant, of the heap *)
WellFormed(h) == \E c : Chains(h, c)

-----------------------------------------------------------------------------
(* The walk of iterate_list, as the equation that Visited solves. *)
Walk(h, l, at) ==
  [i \in 1..Cardinality(Elems) |->
    IF i = 1 THEN h.rec[l].head
    ELSE IF at[i - 1] = NULL THEN NULL ELSE h.elem[at[i - 1]].next]

Walked(h, l) == CHOOSE at : at = Walk(h, l, at)

LEMMA VisitedAsWalked ==
  ASSUME NEW h, NEW l
  PROVE  Visited(h, l) =
           [i \in 1..Cardinality({j \in 1..Cardinality(Elems) : Walked(h, l)[j] # NULL}) |->
              Walked(h, l)[i]]
BY Zenon DEF Visited, Walked, Walk

LEMMA ChainTypes ==
  ASSUME NEW h, NEW c, Chains(h, c), NEW l \in Lists
  PROVE  /\ c[l] \in Seq(Elems) /\ Len(c[l]) \in Nat /\ DOMAIN c[l] = 1..Len(c[l])
         /\ \A i \in 1..Len(c[l]) : c[l][i] \in Elems
         /\ h.rec \in [Lists -> ListRecords \union {NULL}]
         /\ h.elem \in [Elems -> ListElements \union {NULL}]
         /\ h = [rec |-> h.rec, elem |-> h.elem]
<1>1. c[l] \in Seq(Elems)
  BY DEF Chains
<1>2. Len(c[l]) \in Nat /\ DOMAIN c[l] = 1..Len(c[l])
  BY <1>1
<1>3. \A i \in 1..Len(c[l]) : c[l][i] \in Elems
  BY <1>1
<1>4. h \in Heaps
  BY DEF Chains
<1> QED BY <1>1, <1>2, <1>3, <1>4 DEF Heaps

(* No element is in two places. *)
LEMMA Places ==
  ASSUME NEW h, NEW c, Chains(h, c),
         NEW l \in Lists, NEW k \in Lists, NEW i \in 1..Len(c[l]), NEW j \in 1..Len(c[k]),
         c[l][i] = c[k][j]
  PROVE  l = k /\ i = j
<1>1. l = k
  BY DEF Chains, Apart
<1>2. Chain(h, l, c[l])
  BY DEF Chains
<1>3. h.elem[c[l][i]].ordinal = i - 1 /\ h.elem[c[l][j]].ordinal = j - 1
  BY <1>1, <1>2 DEF Chain
<1>4. i \in Int /\ j \in Int
  BY <1>1, ChainTypes
<1> QED BY <1>1, <1>3, <1>4

(* A list has no more members than there are elements. *)
LEMMA ChainFits ==
  ASSUME NEW h, NEW c, Chains(h, c), NEW l \in Lists
  PROVE  Cardinality(Elems) \in Nat /\ Len(c[l]) <= Cardinality(Elems)
<1>1. IsFiniteSet(Elems)
  BY ListAssumption
<1>2. c[l] \in Injection(1..Len(c[l]), Elems)
  <2>1. c[l] \in [1..Len(c[l]) -> Elems]
    BY ChainTypes, LenProperties
  <2>2. \A i, j \in 1..Len(c[l]) : c[l][i] = c[l][j] => i = j
    BY Places
  <2> QED BY <2>1, <2>2 DEF Injection, IsInjective
<1>3. Cardinality(1..Len(c[l])) <= Cardinality(Elems)
  BY <1>1, <1>2, FS_Injection, Zenon
<1>4. Cardinality(1..Len(c[l])) = Len(c[l])
  BY Size, ChainTypes
<1> QED BY <1>1, <1>3, <1>4, FS_CardinalityType

(* The walk from the head of a list: its members, then nothing. *)
Along(v) == [i \in 1..Cardinality(Elems) |-> IF i <= Len(v) THEN v[i] ELSE NULL]

LEMMA AlongWalks ==
  ASSUME NEW h, NEW c, Chains(h, c), NEW l \in Lists, h.rec[l] # NULL
  PROVE  Along(c[l]) = Walk(h, l, Along(c[l]))
<1> DEFINE v == c[l]
<1>0. /\ Len(v) \in Nat /\ \A i \in 1..Len(v) : v[i] \in Elems /\ v[i] # NULL
  BY ChainTypes, ListAssumption
<1>1. Chain(h, l, v)
  BY DEF Chains
<1>2. Cardinality(Elems) \in Nat /\ Len(v) <= Cardinality(Elems)
  BY ChainFits
<1> HIDE DEF v
<1>3. ASSUME NEW i \in 1..Cardinality(Elems)
      PROVE  Along(v)[i] = IF i = 1 THEN h.rec[l].head
                           ELSE IF Along(v)[i - 1] = NULL THEN NULL
                           ELSE h.elem[Along(v)[i - 1]].next
  <2>1. CASE i = 1
    BY <1>0, <1>1, <1>2, <2>1 DEF Along, Chain
  <2>2. CASE i # 1
    <3>1. i - 1 \in 1..Cardinality(Elems) /\ i \in Nat
      BY <1>2, <2>2
    <3>2. CASE i - 1 <= Len(v)
      <4>1. i - 1 \in 1..Len(v) /\ Along(v)[i - 1] = v[i - 1] /\ v[i - 1] # NULL
        BY <3>1, <3>2, <1>0 DEF Along
      <4>2. h.elem[v[i - 1]].next = IF i - 1 = Len(v) THEN NULL ELSE v[(i - 1) + 1]
        BY <4>1, <1>1 DEF Chain
      <4>3. (i - 1) + 1 = i
        BY <3>1
      <4>4. Along(v)[i] = IF i - 1 = Len(v) THEN NULL ELSE v[i]
        BY <3>1, <3>2, <1>0 DEF Along
      <4> QED BY <4>1, <4>2, <4>3, <4>4, <2>2
    <3>3. CASE ~(i - 1 <= Len(v))
      <4>1. Along(v)[i - 1] = NULL /\ Along(v)[i] = NULL
        BY <3>1, <3>3, <1>0 DEF Along
      <4> QED BY <4>1, <2>2
    <3> QED BY <3>2, <3>3
  <2> QED BY <2>1, <2>2
<1>4. Walk(h, l, Along(v)) = [i \in 1..Cardinality(Elems) |-> Along(v)[i]]
  BY <1>3 DEF Walk
<1> QED BY <1>4 DEF Along, v

(* Two walks from one head meet nothing different. *)
LEMMA WalkUnique ==
  ASSUME NEW h, NEW l, NEW f, NEW g, f = Walk(h, l, f), g = Walk(h, l, g),
         Cardinality(Elems) \in Nat
  PROVE  f = g
<1> DEFINE N == Cardinality(Elems)
           S == {n \in 0..N : n \in 1..N => f[n] = g[n]}
<1>1. 0 \in S
  OBVIOUS
<1>2. ASSUME NEW n \in 1..N, n - 1 \in S PROVE n \in S
  <2>1. /\ f[n] = IF n = 1 THEN h.rec[l].head
                  ELSE IF f[n - 1] = NULL THEN NULL ELSE h.elem[f[n - 1]].next
        /\ g[n] = IF n = 1 THEN h.rec[l].head
                  ELSE IF g[n - 1] = NULL THEN NULL ELSE h.elem[g[n - 1]].next
    BY Zenon DEF Walk
  <2>2. n # 1 => f[n - 1] = g[n - 1]
    BY <1>2
  <2>3. f[n] = g[n]
    BY <2>1, <2>2, Zenon
  <2> QED BY <2>3
<1> HIDE DEF S
<1>3. \A n \in 0..N : n \in S
  BY <1>1, <1>2, Induct
<1>4. \A n \in 1..N : f[n] = g[n]
  BY <1>3 DEF S
<1>5. f = [i \in 1..N |-> f[i]] /\ g = [i \in 1..N |-> g[i]]
  BY Zenon DEF Walk
<1> QED BY <1>4, <1>5, Zenon

(* So iterate_list visits the chain. *)
LEMMA VisitedIs ==
  ASSUME NEW h, NEW c, Chains(h, c), NEW l \in Lists, h.rec[l] # NULL
  PROVE  Visited(h, l) = c[l]
<1>0. Cardinality(Elems) \in Nat /\ Len(c[l]) <= Cardinality(Elems)
  BY ChainFits
<1>1. Walked(h, l) = Along(c[l])
  <2>1. \E at : at = Walk(h, l, at)
    BY AlongWalks
  <2>2. Walked(h, l) = Walk(h, l, Walked(h, l))
    BY <2>1, Zenon DEF Walked
  <2>3. Along(c[l]) = Walk(h, l, Along(c[l]))
    BY AlongWalks
  <2> QED BY <1>0, <2>2, <2>3, WalkUnique
<1>2. {j \in 1..Cardinality(Elems) : Along(c[l])[j] # NULL} = 1..Len(c[l])
  <2>1. \A i \in 1..Len(c[l]) : c[l][i] # NULL
    BY ChainTypes, ListAssumption
  <2>2. Len(c[l]) \in Nat
    BY ChainTypes
  <2>3. ASSUME NEW j \in 1..Cardinality(Elems)
        PROVE  Along(c[l])[j] # NULL <=> j \in 1..Len(c[l])
    <3>1. Along(c[l])[j] = IF j <= Len(c[l]) THEN c[l][j] ELSE NULL
      BY DEF Along
    <3>2. j <= Len(c[l]) <=> j \in 1..Len(c[l])
      BY <1>0, <2>2
    <3> QED BY <2>1, <3>1, <3>2
  <2>4. \A j \in 1..Len(c[l]) : j \in 1..Cardinality(Elems)
    BY <1>0, <2>2
  <2> QED BY <2>3, <2>4
<1>3. Cardinality(1..Len(c[l])) = Len(c[l])
  BY Size, ChainTypes
<1>4. Visited(h, l) = [i \in 1..Len(c[l]) |-> Along(c[l])[i]]
  BY <1>1, <1>2, <1>3, VisitedAsWalked
<1>5. \A i \in 1..Len(c[l]) : Along(c[l])[i] = c[l][i]
  BY <1>0, ChainTypes DEF Along
<1>6. c[l] = [i \in 1..Len(c[l]) |-> c[l][i]]
  BY ChainTypes
<1> QED BY <1>4, <1>5, <1>6

-----------------------------------------------------------------------------
LEMMA MembersIs ==
  ASSUME NEW h, NEW c, Chains(h, c), NEW l \in Lists, h.rec[l] # NULL
  PROVE  /\ MembersOf(h, l) = [i \in 1..Len(c[l]) |-> h.elem[c[l][i]].mbr]
         /\ MembersOf(h, l) \in Seq(Members)
         /\ MembersOf(h, l) # NULL
         /\ Len(MembersOf(h, l)) = Len(c[l])
         /\ \A i \in 1..Len(c[l]) : MembersOf(h, l)[i] = h.elem[c[l][i]].mbr
<1> DEFINE q == [i \in 1..Len(c[l]) |-> h.elem[c[l][i]].mbr]
<1>1. MembersOf(h, l) = q
  <2>1. Visited(h, l) = c[l]
    BY VisitedIs
  <2>2. DOMAIN c[l] = 1..Len(c[l])
    BY ChainTypes
  <2> QED BY <2>1, <2>2 DEF MembersOf
<1>2. Len(c[l]) \in Nat
  BY ChainTypes
<1>3. ASSUME NEW i \in 1..Len(c[l]) PROVE h.elem[c[l][i]].mbr \in Members
  <2>1. c[l][i] \in Elems /\ h.elem \in [Elems -> ListElements \union {NULL}]
    BY ChainTypes
  <2>2. h.elem[c[l][i]] # NULL
    BY DEF Chains, Chain
  <2>3. h.elem[c[l][i]] \in ListElements
    BY <2>1, <2>2
  <2> QED BY <2>3 DEF ListElements
<1>4. q \in Seq(Members)
  BY <1>2, <1>3, IsASeq
<1>5. NULL \notin Seq(Members)
  BY ListAssumption
<1>6. Len(q) = Len(c[l])
  BY <1>2
<1>7. \A i \in 1..Len(c[l]) : q[i] = h.elem[c[l][i]].mbr
  OBVIOUS
<1> HIDE DEF q
<1>8. q # NULL
  BY <1>4, <1>5
<1> QED BY <1>1, <1>4, <1>6, <1>7, <1>8 DEF q

(* The lists of a heap as sequences. *)
Content(h) == [l \in Lists |-> IF h.rec[l] # NULL THEN MembersOf(h, l) ELSE NULL]

(* A chain that is left alone holds the same members. *)
LEMMA SameMembers ==
  ASSUME NEW h, NEW c, Chains(h, c), NEW g, NEW b, Chains(g, b), NEW l \in Lists,
         h.rec[l] # NULL, g.rec[l] # NULL, b[l] = c[l],
         \A i \in 1..Len(c[l]) : g.elem[c[l][i]].mbr = h.elem[c[l][i]].mbr
  PROVE  MembersOf(g, l) = MembersOf(h, l)
<1>1. MembersOf(h, l) = [i \in 1..Len(c[l]) |-> h.elem[c[l][i]].mbr]
  BY MembersIs
<1>2. MembersOf(g, l) = [i \in 1..Len(b[l]) |-> g.elem[b[l][i]].mbr]
  BY MembersIs
<1> QED BY <1>1, <1>2

(* If all lists but d hold what they held, the content changed at d only. *)
LEMMA ContentChange ==
  ASSUME NEW h, NEW g, NEW d \in Lists,
         \A l \in Lists : l # d =>
           /\ g.rec[l] = NULL <=> h.rec[l] = NULL
           /\ g.rec[l] # NULL => MembersOf(g, l) = MembersOf(h, l)
  PROVE  /\ g.rec[d] # NULL => Content(g) = [Content(h) EXCEPT ![d] = MembersOf(g, d)]
         /\ g.rec[d] = NULL => Content(g) = [Content(h) EXCEPT ![d] = NULL]
<1> DEFINE q == IF g.rec[d] # NULL THEN MembersOf(g, d) ELSE NULL
<1>1. Content(g) = [l \in Lists |-> IF l = d THEN q ELSE Content(h)[l]]
  <2>1. ASSUME NEW l \in Lists
        PROVE  (IF g.rec[l] # NULL THEN MembersOf(g, l) ELSE NULL)
                 = IF l = d THEN q ELSE IF h.rec[l] # NULL THEN MembersOf(h, l) ELSE NULL
    OBVIOUS
  <2> QED BY <2>1 DEF Content
<1> HIDE DEF q
<1>2. Content(g) = [Content(h) EXCEPT ![d] = q]
  BY <1>1 DEF Content
<1> QED BY <1>2 DEF q

-----------------------------------------------------------------------------
(* Chains are what integrity says. *)
(* find_nth_list_member *)
LEMMA NthIs ==
  ASSUME NEW h, NEW c, Chains(h, c), NEW l \in Lists, h.rec[l] # NULL, NEW t \in Nat
  PROVE  NthMember(h, l, t) = IF t < Len(c[l]) THEN h.elem[c[l][t + 1]].mbr ELSE NULL
<1> DEFINE v == c[l]
           nth == {i \in DOMAIN v : h.elem[v[i]].ordinal = t}
<1>1. Visited(h, l) = v
  BY VisitedIs
<1>2. Len(v) \in Nat /\ DOMAIN v = 1..Len(v)
  BY ChainTypes
<1>3. \A i \in 1..Len(v) : h.elem[v[i]].ordinal = i - 1
  BY DEF Chains, Chain
<1>4. NthMember(h, l, t) = IF nth = {} THEN NULL ELSE h.elem[v[Min(nth)]].mbr
  BY <1>1 DEF NthMember
<1>5. nth = {i \in 1..Len(v) : i - 1 = t}
  BY <1>2, <1>3
<1> HIDE DEF nth, v
<1>6. CASE t < Len(v)
  <2>1. nth = {t + 1}
    BY <1>2, <1>5, <1>6
  <2>2. Min(nth) = t + 1
    <3>1. \E x \in nth : \A y \in nth : x <= y
      BY <2>1
    <3>2. Min(nth) \in nth
      BY <3>1 DEF Min
    <3> QED BY <2>1, <3>2
  <2> QED BY <1>4, <1>6, <2>1, <2>2 DEF v
<1>7. CASE ~(t < Len(v))
  <2>1. nth = {}
    BY <1>2, <1>5, <1>7
  <2> QED BY <1>4, <1>7, <2>1 DEF v
<1> QED BY <1>6, <1>7

LEMMA ChainsIntegrity ==
  ASSUME NEW c, Chains(heap, c)
  PROVE  Integrity
<1>1. TypeOK
  BY DEF Chains, Heaps, TypeOK
<1>2. ChainsAgree
  <2>1. SUFFICES ASSUME NEW l \in Lists, heap.rec[l] # NULL
        PROVE  /\ Len(c[l]) = heap.rec[l].count
               /\ heap.rec[l].tail = IF c[l] = << >> THEN NULL ELSE Last(c[l])
               /\ \A i \in DOMAIN c[l] : NthMember(heap, l, i - 1) = heap.elem[c[l][i]].mbr
               /\ NthMember(heap, l, Len(c[l])) = NULL
    BY VisitedIs DEF ChainsAgree, Live
  <2>2. /\ c[l] \in Seq(Elems) /\ Len(c[l]) \in Nat /\ DOMAIN c[l] = 1..Len(c[l])
    BY ChainTypes
  <2>3. Chain(heap, l, c[l])
    BY DEF Chains
  <2>4. heap.rec[l].tail = IF c[l] = << >> THEN NULL ELSE Last(c[l])
    <3>1. c[l] = << >> <=> Len(c[l]) = 0
      BY <2>2, EmptySeq
    <3> QED BY <2>1, <2>3, <3>1 DEF Chain, Last
  <2>5. \A i \in DOMAIN c[l] : NthMember(heap, l, i - 1) = heap.elem[c[l][i]].mbr
    <3> TAKE i \in DOMAIN c[l]
    <3>1. i - 1 \in Nat /\ i - 1 < Len(c[l]) /\ (i - 1) + 1 = i
      BY <2>2
    <3>2. NthMember(heap, l, i - 1) =
            IF i - 1 < Len(c[l]) THEN heap.elem[c[l][(i - 1) + 1]].mbr ELSE NULL
      BY <2>1, <3>1, NthIs
    <3> QED BY <3>1, <3>2
  <2>6. NthMember(heap, l, Len(c[l])) = NULL
    <3>1. ~(Len(c[l]) < Len(c[l]))
      BY <2>2
    <3> QED BY <2>1, <2>2, <3>1, NthIs
  <2> QED BY <2>1, <2>3, <2>4, <2>5, <2>6 DEF Chain
<1>3. OneOwner
  <2>1. SUFFICES ASSUME NEW e \in Elems, heap.elem[e] # NULL
        PROVE  \E l \in Lists : \A k \in Lists :
                 (heap.rec[k] # NULL /\ e \in ToSet(Visited(heap, k))) <=> k = l
    BY DEF OneOwner, Live, Unused
  <2>2. PICK l \in Lists : \E i \in 1..Len(c[l]) : c[l][i] = e
    BY <2>1 DEF Chains, Owned
  <2>3. ASSUME NEW k \in Lists
        PROVE  (heap.rec[k] # NULL /\ e \in ToSet(Visited(heap, k))) <=> k = l
    <3>1. heap.rec[k] # NULL => ToSet(Visited(heap, k)) = {c[k][i] : i \in 1..Len(c[k])}
      BY VisitedIs, ChainTypes DEF ToSet
    <3>2. CASE k = l
      <4>1. heap.rec[k] = NULL => Len(c[k]) = 0
        BY DEF Chains, Chain
      <4> QED BY <2>2, <3>1, <3>2, <4>1
    <3>3. CASE k # l
      <4>1. \A i \in 1..Len(c[k]) : c[k][i] # e
        BY <2>2, <3>3, Places
      <4> QED BY <3>1, <3>3, <4>1
    <3> QED BY <3>2, <3>3
  <2> QED BY <2>3
<1> QED BY <1>1, <1>2, <1>3 DEF Integrity

-----------------------------------------------------------------------------
(* A new heap: no lists, no elements. *)
LEMMA InitChains ==
  ASSUME Init
  PROVE  /\ Chains(heap, [l \in Lists |-> << >>])
         /\ Content(heap) = [l \in Lists |-> NULL]
<1> DEFINE c == [l \in Lists |-> << >>]
<1>1. /\ heap \in Heaps
      /\ (\A l \in Lists : heap.rec[l] = NULL) /\ \A e \in Elems : heap.elem[e] = NULL
  BY DEF Init, Heaps
<1>2. c \in [Lists -> Seq(Elems)] /\ \A l \in Lists : c[l] \in Seq(Elems) /\ Len(c[l]) = 0
  OBVIOUS
<1> HIDE DEF c
<1>3. \A l \in Lists : Chain(heap, l, c[l])
  BY <1>1, <1>2 DEF Chain
<1>4. Apart(c)
  BY <1>2 DEF Apart
<1>5. Owned(heap, c)
  BY <1>1 DEF Owned
<1>6. Chains(heap, c)
  BY <1>1, <1>2, <1>3, <1>4, <1>5 DEF Chains
<1>7. Content(heap) = [l \in Lists |-> NULL]
  BY <1>1 DEF Content
<1> QED BY <1>6, <1>7 DEF c

(* A new list is empty. *)
LEMMA InitListChains ==
  ASSUME NEW h, NEW c, Chains(h, c), NEW l \in Lists, h.rec[l] = NULL
  PROVE  /\ Chains(WithRecord(h, l), c)
         /\ Content(WithRecord(h, l)) = [Content(h) EXCEPT ![l] = << >>]
<1> DEFINE g == WithRecord(h, l)
<1>1. h \in Heaps /\ c \in [Lists -> Seq(Elems)]
  BY DEF Chains
<1>2. EmptyRecord \in ListRecords /\ EmptyRecord # NULL
  BY ListAssumption DEF EmptyRecord, ListRecords
<1>3. g = [rec |-> [h.rec EXCEPT ![l] = EmptyRecord], elem |-> h.elem]
  BY DEF WithRecord
<1> HIDE DEF g
<1>4. g \in Heaps
  <2>1. [h.rec EXCEPT ![l] = EmptyRecord] \in [Lists -> ListRecords \union {NULL}]
    BY <1>1, <1>2 DEF Heaps
  <2> QED BY <1>1, <1>3, <2>1 DEF Heaps
<1>5. /\ g.rec[l] = EmptyRecord /\ g.elem = h.elem
      /\ \A k \in Lists : k # l => g.rec[k] = h.rec[k]
  BY <1>1, <1>3 DEF Heaps
<1>6. Len(c[l]) = 0
  BY DEF Chains, Chain
<1>7. ASSUME NEW k \in Lists PROVE Chain(g, k, c[k])
  <2>1. Chain(h, k, c[k])
    BY DEF Chains
  <2>2. CASE k = l
    BY <1>2, <1>5, <1>6, <2>1, <2>2 DEF Chain, EmptyRecord
  <2>3. CASE k # l
    BY <1>5, <2>1, <2>3 DEF Chain
  <2> QED BY <2>2, <2>3
<1>8. Apart(c) /\ Owned(g, c)
  BY <1>5 DEF Chains, Owned
<1>9. Chains(g, c)
  BY <1>1, <1>4, <1>7, <1>8 DEF Chains
<1>10. ASSUME NEW k \in Lists, k # l
       PROVE  /\ g.rec[k] = NULL <=> h.rec[k] = NULL
              /\ g.rec[k] # NULL => MembersOf(g, k) = MembersOf(h, k)
  <2>1. g.rec[k] = h.rec[k] /\ \A i \in 1..Len(c[k]) : g.elem[c[k][i]].mbr = h.elem[c[k][i]].mbr
    BY <1>5, <1>10
  <2>2. g.rec[k] # NULL => MembersOf(g, k) = MembersOf(h, k)
    BY <1>9, <2>1, SameMembers
  <2> QED BY <2>1, <2>2
<1>11. g.rec[l] # NULL /\ MembersOf(g, l) = << >>
  <2>1. g.rec[l] # NULL
    BY <1>2, <1>5
  <2>2. MembersOf(g, l) \in Seq(Members) /\ Len(MembersOf(g, l)) = 0
    BY <1>6, <1>9, <2>1, MembersIs
  <2> QED BY <2>1, <2>2, EmptySeq
<1>12. Content(g) = [Content(h) EXCEPT ![l] = MembersOf(g, l)]
  BY <1>10, <1>11, ContentChange
<1> QED BY <1>9, <1>11, <1>12 DEF g

(* A freed list takes its elements with it, and no others. *)
LEMMA FreedChains ==
  ASSUME NEW h, NEW c, Chains(h, c), NEW l \in Lists, h.rec[l] # NULL
  PROVE  /\ Chains(Freed(h, l), [c EXCEPT ![l] = << >>])
         /\ Content(Freed(h, l)) = [Content(h) EXCEPT ![l] = NULL]
<1> DEFINE g == Freed(h, l)
           b == [c EXCEPT ![l] = << >>]
<1>1. h \in Heaps /\ c \in [Lists -> Seq(Elems)]
  BY DEF Chains
<1>2. ToSet(Visited(h, l)) = {c[l][i] : i \in 1..Len(c[l])}
  BY VisitedIs, ChainTypes DEF ToSet
<1>3. /\ g = [rec  |-> [h.rec EXCEPT ![l] = NULL],
              elem |-> [e \in Elems |-> IF \E i \in 1..Len(c[l]) : c[l][i] = e THEN NULL
                                        ELSE h.elem[e]]]
  BY <1>2 DEF Freed
<1> HIDE DEF g
<1>4. g \in Heaps
  BY <1>1, <1>3 DEF Heaps
<1>5. /\ g.rec[l] = NULL
      /\ \A k \in Lists : k # l => g.rec[k] = h.rec[k]
      /\ \A e \in Elems : g.elem[e] = IF \E i \in 1..Len(c[l]) : c[l][i] = e THEN NULL
                                      ELSE h.elem[e]
  BY <1>1, <1>3 DEF Heaps
<1>6. /\ b \in [Lists -> Seq(Elems)] /\ Len(b[l]) = 0 /\ b[l] \in Seq(Elems)
      /\ \A k \in Lists : k # l => b[k] = c[k]
  BY <1>1
<1> HIDE DEF b
<1>7. ASSUME NEW k \in Lists, k # l, NEW i \in 1..Len(c[k])
      PROVE  c[k][i] \in Elems /\ g.elem[c[k][i]] = h.elem[c[k][i]]
  <2>1. c[k][i] \in Elems
    BY ChainTypes
  <2>2. ~ \E j \in 1..Len(c[l]) : c[l][j] = c[k][i]
    BY <1>7, Places
  <2> QED BY <1>5, <2>1, <2>2
<1>8. ASSUME NEW k \in Lists PROVE Chain(g, k, b[k])
  <2>1. Chain(h, k, c[k])
    BY DEF Chains
  <2>2. CASE k = l
    BY <1>5, <1>6, <2>2 DEF Chain
  <2>3. CASE k # l
    <3>1. b[k] = c[k] /\ g.rec[k] = h.rec[k]
      BY <1>5, <1>6, <2>3
    <3>2. \A i \in 1..Len(c[k]) : g.elem[c[k][i]] = h.elem[c[k][i]]
      BY <1>7, <2>3
    <3>3. Chain(g, k, c[k])
      BY <2>1, <3>1, <3>2 DEF Chain
    <3> QED BY <3>1, <3>3
  <2> QED BY <2>2, <2>3
<1>9. Apart(b)
  <2> SUFFICES ASSUME NEW k \in Lists, NEW m \in Lists, NEW i \in 1..Len(b[k]),
                      NEW j \in 1..Len(b[m]), b[k][i] = b[m][j]
               PROVE  k = m
    BY DEF Apart
  <2>1. k # l /\ m # l
    BY <1>6
  <2>2. b[k] = c[k] /\ b[m] = c[m]
    BY <1>6, <2>1
  <2>3. i \in 1..Len(c[k]) /\ j \in 1..Len(c[m]) /\ c[k][i] = c[m][j]
    BY <2>2
  <2> QED BY <2>3, Places
<1>10. Owned(g, b)
  <2> SUFFICES ASSUME NEW e \in Elems, g.elem[e] # NULL
               PROVE  \E k \in Lists : \E i \in 1..Len(b[k]) : b[k][i] = e
    BY DEF Owned
  <2>1. h.elem[e] # NULL /\ ~ \E i \in 1..Len(c[l]) : c[l][i] = e
    BY <1>5
  <2>2. PICK k \in Lists : \E i \in 1..Len(c[k]) : c[k][i] = e
    BY <2>1 DEF Chains, Owned
  <2>3. k # l
    BY <2>1, <2>2
  <2> QED BY <1>6, <2>2, <2>3
<1>11. Chains(g, b)
  BY <1>4, <1>6, <1>8, <1>9, <1>10 DEF Chains
<1>12. ASSUME NEW k \in Lists, k # l
       PROVE  /\ g.rec[k] = NULL <=> h.rec[k] = NULL
              /\ g.rec[k] # NULL => MembersOf(g, k) = MembersOf(h, k)
  <2>1. g.rec[k] = h.rec[k] /\ b[k] = c[k]
    BY <1>5, <1>6, <1>12
  <2>2. \A i \in 1..Len(c[k]) : g.elem[c[k][i]].mbr = h.elem[c[k][i]].mbr
    BY <1>7, <1>12
  <2>3. g.rec[k] # NULL => MembersOf(g, k) = MembersOf(h, k)
    BY <1>11, <2>1, <2>2, SameMembers
  <2> QED BY <2>1, <2>3
<1>13. Content(g) = [Content(h) EXCEPT ![l] = NULL]
  <2>1. g.rec[l] = NULL
    BY <1>5
  <2>2. \A k \in Lists : k # l =>
          /\ g.rec[k] = NULL <=> h.rec[k] = NULL
          /\ g.rec[k] # NULL => MembersOf(g, k) = MembersOf(h, k)
    BY <1>12
  <2> QED BY <2>1, <2>2, ContentChange
<1> QED BY <1>11, <1>13 DEF b, g

-----------------------------------------------------------------------------
(* An element that was not in use becomes the last of its list. *)
New(h) == CHOOSE e \in Unused(h) : TRUE

LEMMA AddedHeap ==
  ASSUME NEW h, NEW c, Chains(h, c), NEW l \in Lists, h.rec[l] # NULL, NEW x \in Members,
         Unused(h) # {}
  PROVE  LET g == Added(h, l, x)
             n == Len(c[l])
             e == New(h)
         IN  /\ g \in Heaps
             /\ e \in Elems /\ h.elem[e] = NULL
             /\ \A k \in Lists : k # l => g.rec[k] = h.rec[k]
             /\ g.rec[l] # NULL
             /\ g.rec[l] = [count |-> n + 1, head |-> IF n = 0 THEN e ELSE c[l][1], tail |-> e]
             /\ g.elem[e] # NULL
             /\ g.elem[e] = [mbr |-> x, next |-> NULL, ordinal |-> n]
             /\ \A f \in Elems \ {e} : IF n # 0 /\ f = c[l][n]
                                       THEN g.elem[f] = [h.elem[f] EXCEPT !.next = e]
                                       ELSE g.elem[f] = h.elem[f]
<1> DEFINE g == Added(h, l, x)
           n == Len(c[l])
           e == New(h)
           old == h.rec[l]
           elt == [mbr |-> x, next |-> NULL, ordinal |-> old.count]
           with == [h.elem EXCEPT ![e] = elt]
<1>1. /\ h.rec \in [Lists -> ListRecords \union {NULL}]
      /\ h.elem \in [Elems -> ListElements \union {NULL}]
      /\ n \in Nat /\ \A i \in 1..n : c[l][i] \in Elems
  BY ChainTypes
<1>2. e \in Elems /\ h.elem[e] = NULL
  <2>1. \E f \in Unused(h) : TRUE
    OBVIOUS
  <2>2. e \in Unused(h)
    BY <2>1, Zenon DEF New
  <2> QED BY <2>2 DEF Unused
<1>3. old \in ListRecords
  BY <1>1
<1>4. /\ old.count = n
      /\ old.head = IF n = 0 THEN NULL ELSE c[l][1]
      /\ old.tail = IF n = 0 THEN NULL ELSE c[l][n]
      /\ \A i \in 1..n : h.elem[c[l][i]] # NULL
  BY DEF Chains, Chain
<1>5. elt = [mbr |-> x, next |-> NULL, ordinal |-> n] /\ elt \in ListElements /\ elt # NULL
  <2>1. elt = [mbr |-> x, next |-> NULL, ordinal |-> n]
    BY <1>4
  <2>2. elt \in ListElements
    BY <2>1, <1>1 DEF ListElements
  <2> QED BY <2>1, <2>2, ListAssumption
<1>6. /\ with \in [Elems -> ListElements \union {NULL}] /\ with[e] = elt
      /\ \A f \in Elems \ {e} : with[f] = h.elem[f]
  BY <1>1, <1>2, <1>5
<1>7. g = IF old.head = NULL
          THEN [rec  |-> [h.rec EXCEPT ![l] = [count |-> 1, head |-> e, tail |-> e]],
                elem |-> with]
          ELSE [rec  |-> [h.rec EXCEPT ![l] = [count |-> old.count + 1, head |-> old.head,
                                               tail  |-> e]],
                elem |-> [with EXCEPT ![old.tail].next = e]]
  BY DEF Added, New
<1> HIDE DEF g, e, with, old, elt
<1>8. CASE n = 0
  <2> DEFINE r == [count |-> 1, head |-> e, tail |-> e]
  <2>1. old.head = NULL
    BY <1>4, <1>8
  <2>2. g = [rec |-> [h.rec EXCEPT ![l] = r], elem |-> with]
    BY <1>7, <2>1
  <2>3. r \in ListRecords /\ r # NULL
    BY <1>2, ListAssumption DEF ListRecords
  <2>4. r = [count |-> n + 1, head |-> IF n = 0 THEN e ELSE c[l][1], tail |-> e]
    BY <1>8
  <2> HIDE DEF r
  <2>5. [h.rec EXCEPT ![l] = r] \in [Lists -> ListRecords \union {NULL}]
    BY <1>1, <2>3
  <2>6. g \in Heaps
    BY <1>6, <2>2, <2>5 DEF Heaps
  <2>7. g.rec[l] = r /\ \A k \in Lists : k # l => g.rec[k] = h.rec[k]
    BY <1>1, <2>2
  <2>8. g.elem = with
    BY <2>2
  <2>9. g.elem[e] = elt /\ \A f \in Elems \ {e} : g.elem[f] = h.elem[f]
    BY <1>6, <2>8
  <2> QED BY <1>2, <1>5, <1>8, <2>3, <2>4, <2>6, <2>7, <2>9 DEF g, e
<1>9. CASE n # 0
  <2> DEFINE r == [count |-> old.count + 1, head |-> old.head, tail |-> e]
             z == c[l][n]
             last == [h.elem[z] EXCEPT !.next = e]
  <2>1. n \in 1..n /\ z \in Elems /\ c[l][1] \in Elems
    BY <1>1, <1>9
  <2>2. h.elem[z] # NULL /\ h.elem[z] \in ListElements /\ z # e
    BY <1>1, <1>2, <1>4, <2>1
  <2>3. old.head # NULL /\ old.tail = z /\ old.head = c[l][1]
    BY <1>4, <1>9, <2>1, ListAssumption
  <2>4. r = [count |-> n + 1, head |-> c[l][1], tail |-> e]
    BY <1>4, <2>3
  <2>5. r \in ListRecords /\ r # NULL
    <3>1. r \in ListRecords
      BY <1>1, <1>2, <2>1, <2>4 DEF ListRecords
    <3> QED BY <3>1, ListAssumption
  <2>6. last \in ListElements
    BY <1>2, <2>2 DEF ListElements
  <2> HIDE DEF z
  <2>7. g = [rec |-> [h.rec EXCEPT ![l] = r], elem |-> [with EXCEPT ![z] = last]]
    <3>1. g = [rec  |-> [h.rec EXCEPT ![l] = r],
               elem |-> [with EXCEPT ![z].next = e]]
      BY <1>7, <2>3
    <3>2. with[z] = h.elem[z]
      BY <1>6, <2>1, <2>2
    <3>3. [with EXCEPT ![z].next = e] = [with EXCEPT ![z] = last]
      BY <3>2
    <3> QED BY <3>1, <3>3
  <2> HIDE DEF r, last
  <2>8. [h.rec EXCEPT ![l] = r] \in [Lists -> ListRecords \union {NULL}]
    BY <1>1, <2>5
  <2>9. [with EXCEPT ![z] = last] \in [Elems -> ListElements \union {NULL}]
    BY <1>6, <2>6
  <2>10. g \in Heaps
    BY <2>7, <2>8, <2>9 DEF Heaps
  <2>11. g.rec[l] = r /\ \A k \in Lists : k # l => g.rec[k] = h.rec[k]
    BY <1>1, <2>7
  <2>12. g.elem[e] = elt
    BY <1>2, <1>6, <2>2, <2>7
  <2>13. \A f \in Elems \ {e} : IF f = z THEN g.elem[f] = last ELSE g.elem[f] = h.elem[f]
    BY <1>6, <2>1, <2>2, <2>7
  <2> QED BY <1>2, <1>5, <1>9, <2>4, <2>5, <2>10, <2>11, <2>12, <2>13 DEF g, e, z, last
<1> QED BY <1>8, <1>9

LEMMA AddedChains ==
  ASSUME NEW h, NEW c, Chains(h, c), NEW l \in Lists, h.rec[l] # NULL, NEW x \in Members,
         Unused(h) # {}
  PROVE  /\ WellFormed(Added(h, l, x))
         /\ Added(h, l, x).rec[l] # NULL
         /\ Content(Added(h, l, x)) =
              [Content(h) EXCEPT ![l] = Append(MembersOf(h, l), x)]
<1> DEFINE g == Added(h, l, x)
           n == Len(c[l])
           e == New(h)
           b == [c EXCEPT ![l] = Append(c[l], e)]
<1>1. /\ g \in Heaps
      /\ e \in Elems /\ h.elem[e] = NULL
      /\ \A k \in Lists : k # l => g.rec[k] = h.rec[k]
      /\ g.rec[l] # NULL
      /\ g.rec[l] = [count |-> n + 1, head |-> IF n = 0 THEN e ELSE c[l][1], tail |-> e]
      /\ g.elem[e] # NULL
      /\ g.elem[e] = [mbr |-> x, next |-> NULL, ordinal |-> n]
      /\ \A f \in Elems \ {e} : IF n # 0 /\ f = c[l][n]
                                THEN g.elem[f] = [h.elem[f] EXCEPT !.next = e]
                                ELSE g.elem[f] = h.elem[f]
  BY AddedHeap
<1> HIDE DEF g, e
<1>2. /\ n \in Nat /\ c[l] \in Seq(Elems) /\ \A i \in 1..n : c[l][i] \in Elems
      /\ h.elem \in [Elems -> ListElements \union {NULL}]
      /\ c \in [Lists -> Seq(Elems)]
  BY ChainTypes DEF Chains
<1>3. /\ b \in [Lists -> Seq(Elems)] /\ Len(b[l]) = n + 1 /\ b[l] \in Seq(Elems)
      /\ \A i \in 1..n : b[l][i] = c[l][i]
      /\ b[l][n + 1] = e
      /\ \A k \in Lists : k # l => b[k] = c[k]
  <2>1. /\ Append(c[l], e) \in Seq(Elems) /\ Len(Append(c[l], e)) = n + 1
        /\ \A i \in 1..n : Append(c[l], e)[i] = c[l][i]
        /\ Append(c[l], e)[n + 1] = e
    BY <1>1, <1>2, AppendProperties
  <2> QED BY <1>2, <2>1
<1> HIDE DEF b
(* every element that was in a list is there still *)
<1>4. ASSUME NEW k \in Lists, NEW i \in 1..Len(c[k])
      PROVE  /\ c[k][i] \in Elems /\ c[k][i] # e
             /\ h.elem[c[k][i]] # NULL /\ g.elem[c[k][i]] # NULL
             /\ g.elem[c[k][i]].mbr = h.elem[c[k][i]].mbr
             /\ g.elem[c[k][i]].ordinal = h.elem[c[k][i]].ordinal
             /\ g.elem[c[k][i]].next = IF k = l /\ i = n THEN e ELSE h.elem[c[k][i]].next
  <2> DEFINE f == c[k][i]
  <2>1. f \in Elems /\ h.elem[f] # NULL
    BY ChainTypes DEF Chains, Chain
  <2>2. f # e /\ f \in Elems \ {e} /\ h.elem[f] \in ListElements
    BY <1>1, <1>2, <2>1
  <2>3. (n # 0 /\ f = c[l][n]) <=> (k = l /\ i = n)
    <3>1. ASSUME n # 0, f = c[l][n] PROVE k = l /\ i = n
      <4>1. n \in 1..n
        BY <1>2, <3>1
      <4> QED BY <3>1, <4>1, Places
    <3>2. ASSUME k = l, i = n PROVE n # 0 /\ f = c[l][n]
      BY <1>2, <3>2
    <3> QED BY <3>1, <3>2
  <2> HIDE DEF f
  <2>4. CASE k = l /\ i = n
    <3>1. g.elem[f] = [h.elem[f] EXCEPT !.next = e]
      BY <1>1, <2>2, <2>3, <2>4
    <3>2. /\ g.elem[f].mbr = h.elem[f].mbr /\ g.elem[f].ordinal = h.elem[f].ordinal
          /\ g.elem[f].next = e /\ g.elem[f] \in ListElements
      BY <1>1, <2>2, <3>1 DEF ListElements
    <3>3. g.elem[f] # NULL
      BY <3>2, ListAssumption
    <3> QED BY <2>1, <2>2, <2>4, <3>2, <3>3 DEF f
  <2>5. CASE ~(k = l /\ i = n)
    <3>1. g.elem[f] = h.elem[f]
      BY <1>1, <2>2, <2>3, <2>5
    <3> QED BY <2>1, <2>2, <2>5, <3>1 DEF f
  <2> QED BY <2>4, <2>5
<1>5. ASSUME NEW k \in Lists PROVE Chain(g, k, b[k])
  <2>1. Chain(h, k, c[k])
    BY DEF Chains
  <2>2. CASE k = l
    <3>1. /\ g.rec[l].count = Len(b[l]) /\ Len(b[l]) # 0
          /\ g.rec[l].head = b[l][1]
          /\ g.rec[l].tail = b[l][Len(b[l])]
      <4>1. /\ g.rec[l].count = n + 1 /\ g.rec[l].tail = e
            /\ g.rec[l].head = IF n = 0 THEN e ELSE c[l][1]
        BY <1>1
      <4>2. n # 0 => 1 \in 1..n
        BY <1>2
      <4> QED BY <1>2, <1>3, <4>1, <4>2
    <3>2. ASSUME NEW i \in 1..Len(b[l])
          PROVE  /\ g.elem[b[l][i]] # NULL
                 /\ g.elem[b[l][i]].ordinal = i - 1
                 /\ g.elem[b[l][i]].next = IF i = Len(b[l]) THEN NULL ELSE b[l][i + 1]
      <4>1. CASE i = n + 1
        <5>1. g.elem[b[l][i]].ordinal = n /\ g.elem[b[l][i]].next = NULL /\ g.elem[b[l][i]] # NULL
          BY <1>1, <1>3, <4>1
        <5> QED BY <1>2, <1>3, <4>1, <5>1
      <4>2. CASE i # n + 1
        <5>1. i \in 1..n /\ i \in Nat /\ b[l][i] = c[l][i]
          BY <1>2, <1>3, <4>2
        <5>2. /\ h.elem[c[l][i]].ordinal = i - 1
              /\ h.elem[c[l][i]].next = IF i = n THEN NULL ELSE c[l][i + 1]
          BY <2>1, <2>2, <5>1 DEF Chain
        <5>3. b[l][i + 1] = IF i = n THEN e ELSE c[l][i + 1]
          <6>1. i # n => i + 1 \in 1..n
            BY <1>2, <5>1
          <6> QED BY <1>3, <6>1
        <5>4. /\ g.elem[c[l][i]] # NULL
              /\ g.elem[c[l][i]].ordinal = h.elem[c[l][i]].ordinal
              /\ g.elem[c[l][i]].next = IF i = n THEN e ELSE h.elem[c[l][i]].next
          BY <1>4, <5>1
        <5> QED BY <1>3, <4>2, <5>1, <5>2, <5>3, <5>4
      <4> QED BY <4>1, <4>2
    <3> QED BY <1>1, <1>3, <2>2, <3>1, <3>2 DEF Chain
  <2>3. CASE k # l
    <3>1. b[k] = c[k] /\ g.rec[k] = h.rec[k]
      BY <1>1, <1>3, <2>3
    <3>2. \A i \in 1..Len(c[k]) :
            /\ g.elem[c[k][i]] # NULL
            /\ g.elem[c[k][i]].ordinal = h.elem[c[k][i]].ordinal
            /\ g.elem[c[k][i]].next = h.elem[c[k][i]].next
      BY <1>4, <2>3
    <3> QED BY <2>1, <3>1, <3>2 DEF Chain
  <2> QED BY <2>2, <2>3
<1>6. \A k \in Lists : \A i \in 1..Len(b[k]) :
        \/ i \in 1..Len(c[k]) /\ b[k][i] = c[k][i]
        \/ k = l /\ b[k][i] = e
  BY <1>2, <1>3
<1>7. Apart(b)
  <2> SUFFICES ASSUME NEW k \in Lists, NEW m \in Lists, NEW i \in 1..Len(b[k]),
                      NEW j \in 1..Len(b[m]), b[k][i] = b[m][j]
               PROVE  k = m
    BY DEF Apart
  <2> QED BY <1>4, <1>6, Places
<1>8. Owned(g, b)
  <2> SUFFICES ASSUME NEW f \in Elems, g.elem[f] # NULL
               PROVE  \E k \in Lists : \E i \in 1..Len(b[k]) : b[k][i] = f
    BY DEF Owned
  <2>1. CASE f = e
    <3>1. n + 1 \in 1..Len(b[l])
      BY <1>2, <1>3
    <3> QED BY <1>3, <2>1, <3>1
  <2>2. CASE f # e
    <3>1. h.elem[f] # NULL
      <4>1. ASSUME n # 0, f = c[l][n] PROVE h.elem[f] # NULL
        <5>1. n \in 1..n
          BY <1>2, <4>1
        <5> QED BY <4>1, <5>1 DEF Chains, Chain
      <4> QED BY <1>1, <2>2, <4>1
    <3>2. PICK k \in Lists : \E i \in 1..Len(c[k]) : c[k][i] = f
      BY <3>1 DEF Chains, Owned
    <3>3. PICK i \in 1..Len(c[k]) : c[k][i] = f
      BY <3>2
    <3>4. i \in 1..Len(b[k]) /\ b[k][i] = f
      <4>1. CASE k = l
        BY <1>2, <1>3, <3>3, <4>1
      <4>2. CASE k # l
        BY <1>3, <3>3, <4>2
      <4> QED BY <4>1, <4>2
    <3> QED BY <3>4
  <2> QED BY <2>1, <2>2
<1>9. Chains(g, b)
  BY <1>1, <1>3, <1>5, <1>7, <1>8 DEF Chains
<1>10. ASSUME NEW k \in Lists, k # l
       PROVE  /\ g.rec[k] = NULL <=> h.rec[k] = NULL
              /\ g.rec[k] # NULL => MembersOf(g, k) = MembersOf(h, k)
  <2>1. g.rec[k] = h.rec[k] /\ b[k] = c[k]
    BY <1>1, <1>3, <1>10
  <2>2. \A i \in 1..Len(c[k]) : g.elem[c[k][i]].mbr = h.elem[c[k][i]].mbr
    BY <1>4
  <2>3. g.rec[k] # NULL => MembersOf(g, k) = MembersOf(h, k)
    BY <1>9, <2>1, <2>2, SameMembers
  <2> QED BY <2>1, <2>3
<1>11. MembersOf(g, l) = Append(MembersOf(h, l), x)
  <2> DEFINE p == MembersOf(h, l)
             q == MembersOf(g, l)
  <2>1. p \in Seq(Members) /\ Len(p) = n /\ \A i \in 1..n : p[i] = h.elem[c[l][i]].mbr
    BY MembersIs
  <2>2. /\ q \in Seq(Members) /\ Len(q) = n + 1
        /\ \A i \in 1..Len(b[l]) : q[i] = g.elem[b[l][i]].mbr
    BY <1>1, <1>3, <1>9, MembersIs
  <2>3. \A i \in 1..n : q[i] = p[i]
    <3> TAKE i \in 1..n
    <3>1. i \in 1..Len(b[l]) /\ b[l][i] = c[l][i]
      BY <1>2, <1>3
    <3>2. q[i] = g.elem[c[l][i]].mbr
      BY <2>2, <3>1
    <3>3. p[i] = h.elem[c[l][i]].mbr
      BY <2>1
    <3> QED BY <1>4, <3>2, <3>3
  <2>4. q[n + 1] = x
    <3>1. n + 1 \in 1..Len(b[l]) /\ b[l][n + 1] = e
      BY <1>2, <1>3
    <3> QED BY <1>1, <2>2, <3>1
  <2> HIDE DEF p, q
  <2>5. /\ Append(p, x) \in Seq(Members) /\ Len(Append(p, x)) = n + 1
        /\ \A i \in 1..n : Append(p, x)[i] = p[i]
        /\ Append(p, x)[n + 1] = x
    BY <1>2, <2>1, AppendProperties
  <2>6. ASSUME NEW i \in 1..Len(q) PROVE q[i] = Append(p, x)[i]
    <3>1. i \in 1..n \/ i = n + 1
      BY <1>2, <2>2
    <3> QED BY <2>3, <2>4, <2>5, <3>1
  <2>7. q = Append(p, x)
    BY <2>2, <2>5, <2>6, SeqEqual
  <2> QED BY <2>7 DEF p, q
<1>12. Content(g) = [Content(h) EXCEPT ![l] = MembersOf(g, l)]
  <2>1. g.rec[l] # NULL
    BY <1>1
  <2> QED BY <1>10, <2>1, ContentChange
<1>13. WellFormed(g)
  BY <1>9 DEF WellFormed
<1> QED BY <1>1, <1>11, <1>12, <1>13 DEF g

-----------------------------------------------------------------------------
(* A moved list is appended, and its record emptied. *)
(* g is h after the chain of s was put behind that of d *)
Joined(g, h, c, d, s) ==
  LET n == Len(c[d])
      m == Len(c[s])
  IN  /\ g \in Heaps
      /\ \A k \in Lists \ {d, s} : g.rec[k] = h.rec[k]
      /\ g.rec[s] = EmptyRecord
      /\ g.rec[d] = [count |-> n + m, head |-> IF n = 0 THEN c[s][1] ELSE c[d][1],
                     tail |-> c[s][m]]
      /\ \A i \in 1..m : g.elem[c[s][i]] = [h.elem[c[s][i]] EXCEPT !.ordinal = @ + n]
      /\ \A i \in 1..n : g.elem[c[d][i]] =
           IF i = n THEN [h.elem[c[d][i]] EXCEPT !.next = c[s][1]] ELSE h.elem[c[d][i]]
      /\ \A e \in Elems : \/ g.elem[e] = h.elem[e]
                          \/ \E i \in 1..n : c[d][i] = e
                          \/ \E i \in 1..m : c[s][i] = e

LEMMA MovedHeap ==
  ASSUME NEW h, NEW c, Chains(h, c), NEW d \in Lists, NEW s \in Lists, d # s,
         h.rec[d] # NULL, h.rec[s] # NULL, Len(c[s]) # 0
  PROVE  Joined(Moved(h, d, s), h, c, d, s)
<1> DEFINE g == Moved(h, d, s)
           n == Len(c[d])
           m == Len(c[s])
           dest == h.rec[d]
           src == h.rec[s]
           r == [count |-> dest.count + src.count,
                 head  |-> IF dest.tail = NULL THEN src.head ELSE dest.head,
                 tail  |-> src.tail]
           recs == [h.rec EXCEPT ![d] = r, ![s] = EmptyRecord]
           renumbered == Renumbered(h, d, s)
<1>1. /\ h.rec \in [Lists -> ListRecords \union {NULL}]
      /\ h.elem \in [Elems -> ListElements \union {NULL}]
      /\ n \in Nat /\ m \in Nat /\ h = [rec |-> h.rec, elem |-> h.elem]
      /\ \A i \in 1..n : c[d][i] \in Elems
      /\ \A i \in 1..m : c[s][i] \in Elems
  BY ChainTypes
<1>2. 1 \in 1..m /\ m \in 1..m /\ c[s][1] \in Elems /\ c[s][m] \in Elems
  BY <1>1
<1>3. /\ dest.count = n /\ src.count = m /\ src.head = c[s][1] /\ src.tail = c[s][m]
      /\ dest.head = IF n = 0 THEN NULL ELSE c[d][1]
      /\ dest.tail = IF n = 0 THEN NULL ELSE c[d][n]
      /\ \A i \in 1..n : h.elem[c[d][i]] # NULL
      /\ \A i \in 1..m : h.elem[c[s][i]] # NULL
      /\ \A i \in 1..m : h.elem[c[s][i]].ordinal = i - 1
  BY <1>2 DEF Chains, Chain
<1>4. n # 0 => 1 \in 1..n /\ n \in 1..n /\ c[d][1] \in Elems /\ c[d][n] \in Elems
  BY <1>1
<1>5. dest.tail = NULL <=> n = 0
  BY <1>3, <1>4, ListAssumption
<1>6. r = [count |-> n + m, head |-> IF n = 0 THEN c[s][1] ELSE c[d][1], tail |-> c[s][m]]
  BY <1>3, <1>5
<1>7. r \in ListRecords
  BY <1>1, <1>2, <1>4, <1>6 DEF ListRecords
<1>8. EmptyRecord \in ListRecords
  BY DEF EmptyRecord, ListRecords
<1>9. g = IF dest.tail = NULL THEN [rec |-> recs, elem |-> h.elem]
          ELSE [rec |-> recs, elem |-> [renumbered EXCEPT ![dest.tail].next = src.head]]
  BY DEF Moved
<1> HIDE DEF r, g
<1>10. /\ recs \in [Lists -> ListRecords \union {NULL}]
       /\ recs[s] = EmptyRecord /\ recs[d] = r
       /\ \A k \in Lists \ {d, s} : recs[k] = h.rec[k]
  BY <1>1, <1>7, <1>8
<1>11. ToSet(Visited(h, s)) = {c[s][i] : i \in 1..m}
  BY VisitedIs, ChainTypes DEF ToSet
<1>12. renumbered = [e \in Elems |-> IF \E i \in 1..m : c[s][i] = e
                                    THEN [h.elem[e] EXCEPT !.ordinal = @ + n]
                                    ELSE h.elem[e]]
  BY <1>3, <1>11 DEF Renumbered
<1> HIDE DEF renumbered, recs, dest, src
<1>13. ASSUME NEW i \in 1..m
       PROVE  [h.elem[c[s][i]] EXCEPT !.ordinal = @ + n] \in ListElements
  <2>1. h.elem[c[s][i]] \in ListElements
    BY <1>1, <1>3
  <2> QED BY <1>1, <2>1 DEF ListElements
<1>14. renumbered \in [Elems -> ListElements \union {NULL}]
  BY <1>1, <1>12, <1>13
<1>15. \A i \in 1..n, j \in 1..m : c[d][i] # c[s][j]
  BY Places
<1>16. CASE n = 0
  <2>1. g = [rec |-> recs, elem |-> h.elem]
    BY <1>5, <1>9, <1>16
  <2>2. g \in Heaps
    BY <1>1, <1>10, <2>1 DEF Heaps
  <2>3. g.rec = recs /\ g.elem = h.elem
    BY <2>1
  <2>4. \A i \in 1..m : g.elem[c[s][i]] = [h.elem[c[s][i]] EXCEPT !.ordinal = @ + n]
    <3> TAKE i \in 1..m
    <3>1. h.elem[c[s][i]] \in ListElements
      BY <1>1, <1>3
    <3>2. h.elem[c[s][i]].ordinal + n = h.elem[c[s][i]].ordinal
      BY <1>16, <3>1 DEF ListElements
    <3>3. h.elem[c[s][i]] = [h.elem[c[s][i]] EXCEPT !.ordinal = @ + n]
      BY <3>1, <3>2 DEF ListElements
    <3> QED BY <2>3, <3>3
  <2>5. \A i \in 1..n : FALSE
    BY <1>16
  <2> QED BY <1>6, <1>10, <2>2, <2>3, <2>4, <2>5 DEF g, Joined
<1>17. CASE n # 0
  <2> DEFINE z == c[d][n]
             last == [h.elem[z] EXCEPT !.next = c[s][1]]
  <2>1. z \in Elems /\ h.elem[z] \in ListElements /\ renumbered[z] = h.elem[z]
    BY <1>1, <1>3, <1>4, <1>12, <1>15, <1>17
  <2>2. last \in ListElements
    BY <1>2, <2>1 DEF ListElements
  <2>3. g = [rec |-> recs, elem |-> [renumbered EXCEPT ![z] = last]]
    <3>1. g = [rec |-> recs, elem |-> [renumbered EXCEPT ![z].next = c[s][1]]]
      BY <1>3, <1>5, <1>9, <1>17
    <3>2. [renumbered EXCEPT ![z].next = c[s][1]] = [renumbered EXCEPT ![z] = last]
      BY <2>1
    <3> QED BY <3>1, <3>2
  <2> HIDE DEF last, z
  <2>4. [renumbered EXCEPT ![z] = last] \in [Elems -> ListElements \union {NULL}]
    BY <1>14, <2>2
  <2>5. g \in Heaps
    BY <1>10, <2>3, <2>4 DEF Heaps
  <2>6. /\ g.rec = recs /\ g.elem[z] = last
        /\ \A e \in Elems : e # z => g.elem[e] = renumbered[e]
    BY <1>14, <2>1, <2>3
  <2>7. \A i \in 1..m : g.elem[c[s][i]] = [h.elem[c[s][i]] EXCEPT !.ordinal = @ + n]
    <3> TAKE i \in 1..m
    <3>1. c[s][i] \in Elems /\ c[s][i] # z
      BY <1>1, <1>4, <1>15, <1>17 DEF z
    <3> QED BY <1>12, <2>6, <3>1
  <2>8. \A i \in 1..n : g.elem[c[d][i]] = IF i = n THEN last ELSE h.elem[c[d][i]]
    <3> TAKE i \in 1..n
    <3>1. CASE i = n
      BY <2>6, <3>1 DEF z
    <3>2. CASE i # n
      <4>1. c[d][i] \in Elems /\ c[d][i] # z
        BY <1>1, <1>4, <1>17, <3>2, Places DEF z
      <4>2. renumbered[c[d][i]] = h.elem[c[d][i]]
        BY <1>12, <1>15, <4>1
      <4> QED BY <2>6, <3>2, <4>1, <4>2
    <3> QED BY <3>1, <3>2
  <2>9. \A e \in Elems : \/ g.elem[e] = h.elem[e]
                         \/ \E i \in 1..n : c[d][i] = e
                         \/ \E i \in 1..m : c[s][i] = e
    BY <1>4, <1>12, <1>17, <2>6 DEF z
  <2>10. \A i \in 1..n : g.elem[c[d][i]] =
           IF i = n THEN [h.elem[c[d][i]] EXCEPT !.next = c[s][1]] ELSE h.elem[c[d][i]]
    BY <2>8 DEF last, z
  <2> QED BY <1>6, <1>10, <2>5, <2>6, <2>7, <2>9, <2>10 DEF g, Joined
<1> QED BY <1>16, <1>17

OneAfterOther(h, d, s) ==
  [Content(h) EXCEPT ![d] = MembersOf(h, d) \o MembersOf(h, s), ![s] = << >>]

LEMMA MovedChains ==
  ASSUME NEW h, NEW c, Chains(h, c), NEW d \in Lists, NEW s \in Lists, d # s,
         h.rec[d] # NULL, h.rec[s] # NULL, Len(c[s]) # 0
  PROVE  /\ WellFormed(Moved(h, d, s))
         /\ Content(Moved(h, d, s)) = OneAfterOther(h, d, s)
<1> DEFINE g == Moved(h, d, s)
           n == Len(c[d])
           m == Len(c[s])
           b == [c EXCEPT ![d] = c[d] \o c[s], ![s] = << >>]
<1> HIDE DEF g
<1>1. /\ g \in Heaps
      /\ \A k \in Lists \ {d, s} : g.rec[k] = h.rec[k]
      /\ g.rec[s] = EmptyRecord
      /\ g.rec[d] = [count |-> n + m, head |-> IF n = 0 THEN c[s][1] ELSE c[d][1],
                     tail |-> c[s][m]]
      /\ \A i \in 1..m : g.elem[c[s][i]] = [h.elem[c[s][i]] EXCEPT !.ordinal = @ + n]
      /\ \A i \in 1..n : g.elem[c[d][i]] =
           IF i = n THEN [h.elem[c[d][i]] EXCEPT !.next = c[s][1]] ELSE h.elem[c[d][i]]
      /\ \A e \in Elems : \/ g.elem[e] = h.elem[e]
                          \/ \E i \in 1..n : c[d][i] = e
                          \/ \E i \in 1..m : c[s][i] = e
  <2>1. Joined(g, h, c, d, s)
    BY MovedHeap DEF g
  <2> QED BY <2>1 DEF Joined
<1>2. /\ n \in Nat /\ c[d] \in Seq(Elems) /\ \A i \in 1..n : c[d][i] \in Elems
      /\ m \in Nat /\ c[s] \in Seq(Elems) /\ \A i \in 1..m : c[s][i] \in Elems
      /\ h.elem \in [Elems -> ListElements \union {NULL}]
      /\ g.elem \in [Elems -> ListElements \union {NULL}]
      /\ c \in [Lists -> Seq(Elems)]
  BY <1>1, ChainTypes DEF Chains, Heaps
<1>3. /\ b \in [Lists -> Seq(Elems)] /\ Len(b[d]) = n + m /\ b[d] \in Seq(Elems)
      /\ \A i \in 1..n : b[d][i] = c[d][i]
      /\ \A i \in 1..m : b[d][n + i] = c[s][i]
      /\ Len(b[s]) = 0 /\ b[s] \in Seq(Elems)
      /\ \A k \in Lists \ {d, s} : b[k] = c[k]
  <2> DEFINE q == c[d] \o c[s]
  <2>1. /\ q \in Seq(Elems) /\ Len(q) = n + m
        /\ \A i \in 1..(n + m) : q[i] = IF i <= n THEN c[d][i] ELSE c[s][i - n]
    BY <1>2, ConcatProperties
  <2> HIDE DEF q
  <2>2. \A i \in 1..n : q[i] = c[d][i]
    BY <1>2, <2>1
  <2>3. ASSUME NEW i \in 1..m PROVE q[n + i] = c[s][i]
    <3>1. n + i \in 1..(n + m) /\ ~(n + i <= n) /\ (n + i) - n = i
      BY <1>2
    <3> QED BY <2>1, <3>1
  <2>4. b[d] = q /\ b[s] = << >> /\ \A k \in Lists \ {d, s} : b[k] = c[k]
    BY <1>2 DEF q
  <2>5. b \in [Lists -> Seq(Elems)]
    <3>1. << >> \in Seq(Elems)
      BY EmptySeq
    <3>2. b = [[c EXCEPT ![d] = q] EXCEPT ![s] = << >>]
      BY DEF q
    <3>3. [c EXCEPT ![d] = q] \in [Lists -> Seq(Elems)]
      BY <1>2, <2>1
    <3> QED BY <3>1, <3>2, <3>3
  <2> QED BY <2>1, <2>2, <2>3, <2>4, <2>5
<1> HIDE DEF b
<1>4. /\ \A i \in 1..n : /\ h.elem[c[d][i]] \in ListElements
                         /\ h.elem[c[d][i]].ordinal = i - 1
                         /\ h.elem[c[d][i]].next = IF i = n THEN NULL ELSE c[d][i + 1]
      /\ \A i \in 1..m : /\ h.elem[c[s][i]] \in ListElements
                         /\ h.elem[c[s][i]].ordinal = i - 1
                         /\ h.elem[c[s][i]].next = IF i = m THEN NULL ELSE c[s][i + 1]
  BY <1>2 DEF Chains, Chain
<1>5. ASSUME NEW i \in 1..m
      PROVE  /\ g.elem[c[s][i]] # NULL
             /\ g.elem[c[s][i]].mbr = h.elem[c[s][i]].mbr
             /\ g.elem[c[s][i]].ordinal = (i - 1) + n
             /\ g.elem[c[s][i]].next = IF i = m THEN NULL ELSE c[s][i + 1]
  <2> DEFINE o == h.elem[c[s][i]]
             p == g.elem[c[s][i]]
  <2>1. p = [o EXCEPT !.ordinal = @ + n]
    BY <1>1
  <2>2. o \in ListElements /\ o.ordinal = i - 1 /\ o.next = IF i = m THEN NULL ELSE c[s][i + 1]
    BY <1>4
  <2> HIDE DEF o, p
  <2>3. p.mbr = o.mbr /\ p.next = o.next /\ p.ordinal = o.ordinal + n /\ p \in ListElements
    <3>1. o.ordinal + n \in Nat
      BY <1>2, <2>2 DEF ListElements
    <3> DEFINE t == o.ordinal + n
    <3> HIDE DEF t
    <3>2. p = [o EXCEPT !.ordinal = t]
      BY <2>1 DEF t
    <3>3. p.mbr = o.mbr /\ p.next = o.next /\ p.ordinal = t /\ p \in ListElements
      BY <2>2, <3>1, <3>2 DEF ListElements, t
    <3> QED BY <3>3 DEF t
  <2>4. p # NULL
    BY <2>3, ListAssumption
  <2> QED BY <2>2, <2>3, <2>4 DEF o, p
<1>6. ASSUME NEW i \in 1..n
      PROVE  /\ g.elem[c[d][i]] # NULL
             /\ g.elem[c[d][i]].mbr = h.elem[c[d][i]].mbr
             /\ g.elem[c[d][i]].ordinal = i - 1
             /\ g.elem[c[d][i]].next = IF i = n THEN c[s][1] ELSE c[d][i + 1]
  <2> DEFINE o == h.elem[c[d][i]]
             p == g.elem[c[d][i]]
  <2>1. p = IF i = n THEN [o EXCEPT !.next = c[s][1]] ELSE o
    BY <1>1
  <2>2. o \in ListElements /\ o.ordinal = i - 1 /\ o.next = IF i = n THEN NULL ELSE c[d][i + 1]
    BY <1>4
  <2>3. c[s][1] \in Elems
    BY <1>2
  <2> HIDE DEF o, p
  <2>4. /\ p.mbr = o.mbr /\ p.ordinal = o.ordinal /\ p \in ListElements
        /\ p.next = IF i = n THEN c[s][1] ELSE o.next
    BY <2>1, <2>2, <2>3 DEF ListElements
  <2>5. p # NULL
    BY <2>4, ListAssumption
  <2> QED BY <2>2, <2>4, <2>5 DEF o, p
<1>7. ASSUME NEW k \in Lists \ {d, s}, NEW i \in 1..Len(c[k])
      PROVE  g.elem[c[k][i]] = h.elem[c[k][i]]
  <2>1. c[k][i] \in Elems
    BY ChainTypes
  <2>2. (\A j \in 1..n : c[d][j] # c[k][i]) /\ (\A j \in 1..m : c[s][j] # c[k][i])
    BY Places
  <2> QED BY <1>1, <2>1, <2>2
(* a place in the joined list is a place in one of the two *)
<1>8. \A i \in 1..(n + m) :
        \/ i \in 1..n /\ b[d][i] = c[d][i]
        \/ i - n \in 1..m /\ ~(i <= n) /\ b[d][i] = c[s][i - n]
  <2> TAKE i \in 1..(n + m)
  <2>1. CASE i <= n
    BY <1>2, <1>3, <2>1
  <2>2. CASE ~(i <= n)
    <3>1. i - n \in 1..m /\ n + (i - n) = i
      BY <1>2, <2>2
    <3>2. b[d][n + (i - n)] = c[s][i - n]
      BY <1>3, <3>1
    <3> QED BY <2>2, <3>1, <3>2
  <2> QED BY <2>1, <2>2
<1>9. ASSUME NEW k \in Lists PROVE Chain(g, k, b[k])
  <2>1. CASE k = d
    <3>1. g.rec[d] \in ListRecords
      <4>1. (n = 0 => c[s][1] \in Elems) /\ (n # 0 => c[d][1] \in Elems) /\ c[s][m] \in Elems
        BY <1>2
      <4>2. n + m \in Nat
        BY <1>2
      <4>3. g.rec[d] = [count |-> n + m, head |-> IF n = 0 THEN c[s][1] ELSE c[d][1],
                        tail |-> c[s][m]]
        BY <1>1
      <4> DEFINE hd == IF n = 0 THEN c[s][1] ELSE c[d][1]
      <4>4. hd \in Elems
        BY <4>1
      <4> HIDE DEF hd
      <4>5. [count |-> n + m, head |-> hd, tail |-> c[s][m]] \in ListRecords
        BY <4>1, <4>2, <4>4 DEF ListRecords
      <4> QED BY <4>3, <4>5 DEF hd
    <3>2. g.rec[d] # NULL
      BY <3>1, ListAssumption
    <3>3. b[d][1] = IF n = 0 THEN c[s][1] ELSE c[d][1]
      <4>1. CASE n = 0
        <5>1. 1 \in 1..m /\ n + 1 = 1
          BY <1>2, <4>1
        <5> QED BY <1>3, <4>1, <5>1
      <4>2. CASE n # 0
        <5>1. 1 \in 1..n
          BY <1>2, <4>2
        <5> QED BY <1>3, <4>2, <5>1
      <4> QED BY <4>1, <4>2
    <3>4. b[d][n + m] = c[s][m]
      <4>1. m \in 1..m
        BY <1>2
      <4> QED BY <1>3, <4>1
    <3>5. /\ g.rec[d].count = Len(b[d]) /\ Len(b[d]) # 0
          /\ g.rec[d].head = b[d][1]
          /\ g.rec[d].tail = b[d][Len(b[d])]
      <4>1. n + m # 0
        BY <1>2
      <4>2. Len(b[d]) = n + m
        BY <1>3
      <4>3. /\ g.rec[d].count = n + m
            /\ g.rec[d].head = IF n = 0 THEN c[s][1] ELSE c[d][1]
            /\ g.rec[d].tail = c[s][m]
        BY <1>1
      <4> QED BY <3>3, <3>4, <4>1, <4>2, <4>3
    <3>6. ASSUME NEW i \in 1..Len(b[d])
          PROVE  /\ g.elem[b[d][i]] # NULL
                 /\ g.elem[b[d][i]].ordinal = i - 1
                 /\ g.elem[b[d][i]].next = IF i = Len(b[d]) THEN NULL ELSE b[d][i + 1]
      <4>1. i \in 1..(n + m) /\ i \in Nat /\ Len(b[d]) = n + m
        BY <1>2, <1>3
      <4>2. CASE i \in 1..n /\ b[d][i] = c[d][i]
        <5>1. b[d][i + 1] = IF i = n THEN c[s][1] ELSE c[d][i + 1]
          <6>1. CASE i = n
            <7>1. 1 \in 1..m
              BY <1>2
            <7> QED BY <1>3, <6>1, <7>1
          <6>2. CASE i # n
            <7>1. i + 1 \in 1..n
              BY <1>2, <4>2, <6>2
            <7> QED BY <1>3, <6>2, <7>1
          <6> QED BY <6>1, <6>2
        <5>2. i # Len(b[d])
          BY <1>2, <4>1, <4>2
        <5> QED BY <1>6, <4>2, <5>1, <5>2
      <4>3. CASE i - n \in 1..m /\ ~(i <= n) /\ b[d][i] = c[s][i - n]
        <5>1. ((i - n) - 1) + n = i - 1
          BY <1>2, <4>1
        <5>2. i = Len(b[d]) <=> i - n = m
          BY <1>2, <4>1
        <5>3. i - n # m => b[d][i + 1] = c[s][(i - n) + 1]
          <6>1. SUFFICES ASSUME i - n # m PROVE b[d][i + 1] = c[s][(i - n) + 1]
            OBVIOUS
          <6>2. (i - n) + 1 \in 1..m /\ n + ((i - n) + 1) = i + 1
            BY <1>2, <4>1, <4>3, <6>1
          <6>3. b[d][n + ((i - n) + 1)] = c[s][(i - n) + 1]
            BY <1>3, <6>2
          <6> QED BY <6>2, <6>3
        <5>4. /\ g.elem[b[d][i]] # NULL
              /\ g.elem[b[d][i]].ordinal = ((i - n) - 1) + n
              /\ g.elem[b[d][i]].next = IF i - n = m THEN NULL ELSE c[s][(i - n) + 1]
          BY <1>5, <4>3
        <5> QED BY <5>1, <5>2, <5>3, <5>4
      <4> QED BY <1>8, <4>1, <4>2, <4>3
    <3> QED BY <1>3, <2>1, <3>2, <3>5, <3>6 DEF Chain
  <2>2. CASE k = s
    <3>1. g.rec[s].count = 0 /\ g.rec[s].head = NULL /\ g.rec[s].tail = NULL
      BY <1>1 DEF EmptyRecord
    <3>2. g.rec[s] # NULL
      BY <1>1, ListAssumption DEF EmptyRecord, ListRecords
    <3> QED BY <1>3, <2>2, <3>1, <3>2 DEF Chain
  <2>3. CASE k # d /\ k # s
    <3>1. b[k] = c[k] /\ g.rec[k] = h.rec[k]
      BY <1>1, <1>3, <2>3
    <3>2. \A i \in 1..Len(c[k]) : g.elem[c[k][i]] = h.elem[c[k][i]]
      BY <1>7, <2>3
    <3>3. Chain(h, k, c[k])
      BY DEF Chains
    <3>4. Chain(g, k, c[k])
      BY <3>1, <3>2, <3>3 DEF Chain
    <3> QED BY <3>1, <3>4
  <2> QED BY <2>1, <2>2, <2>3
<1>10. ASSUME NEW k \in Lists, NEW i \in 1..Len(b[k])
       PROVE  \E k2 \in Lists : \E j \in 1..Len(c[k2]) :
                c[k2][j] = b[k][i] /\ k = IF k2 = s THEN d ELSE k2
  <2>1. CASE k = d
    <3>1. i \in 1..(n + m)
      BY <1>3, <2>1
    <3> QED BY <1>8, <2>1, <3>1
  <2>2. CASE k # d
    <3>1. k # s
      BY <1>3
    <3> QED BY <1>3, <2>2, <3>1
  <2> QED BY <2>1, <2>2
<1>11. Apart(b)
  <2> SUFFICES ASSUME NEW k \in Lists, NEW l \in Lists, NEW i \in 1..Len(b[k]),
                      NEW j \in 1..Len(b[l]), b[k][i] = b[l][j]
               PROVE  k = l
    BY DEF Apart
  <2>1. PICK k2 \in Lists : \E i2 \in 1..Len(c[k2]) :
               c[k2][i2] = b[k][i] /\ k = IF k2 = s THEN d ELSE k2
    BY <1>10
  <2>2. PICK l2 \in Lists : \E j2 \in 1..Len(c[l2]) :
               c[l2][j2] = b[l][j] /\ l = IF l2 = s THEN d ELSE l2
    BY <1>10
  <2>3. k2 = l2
    BY <2>1, <2>2, Places
  <2> QED BY <2>1, <2>2, <2>3
<1>12. Owned(g, b)
  <2> SUFFICES ASSUME NEW e \in Elems, g.elem[e] # NULL
               PROVE  \E k \in Lists : \E i \in 1..Len(b[k]) : b[k][i] = e
    BY DEF Owned
  <2>1. \E k \in Lists : \E i \in 1..Len(c[k]) : c[k][i] = e
    <3>1. CASE g.elem[e] = h.elem[e]
      BY <3>1 DEF Chains, Owned
    <3> QED BY <1>1, <3>1
  <2>2. PICK k \in Lists : \E i \in 1..Len(c[k]) : c[k][i] = e
    BY <2>1
  <2> PICK i \in 1..Len(c[k]) : c[k][i] = e
    BY <2>2
  <2>3. CASE k = d
    <3>1. i \in 1..n /\ i \in 1..Len(b[d])
      BY <1>2, <1>3, <2>3
    <3> QED BY <1>3, <2>2, <2>3, <3>1
  <2>4. CASE k = s
    <3>1. i \in 1..m /\ n + i \in 1..Len(b[d])
      BY <1>2, <1>3, <2>4
    <3> QED BY <1>3, <2>2, <2>4, <3>1
  <2>5. CASE k # d /\ k # s
    BY <1>3, <2>2, <2>5
  <2> QED BY <2>3, <2>4, <2>5
<1>13. Chains(g, b)
  BY <1>1, <1>3, <1>9, <1>11, <1>12 DEF Chains
<1>14. g.rec[d] # NULL /\ g.rec[s] # NULL
  <2>1. Chain(g, d, b[d]) /\ Len(b[d]) # 0
    BY <1>2, <1>3, <1>9
  <2>2. g.rec[s] # NULL
    BY <1>1, ListAssumption DEF EmptyRecord, ListRecords
  <2> QED BY <2>1, <2>2 DEF Chain
<1>15. MembersOf(g, d) = MembersOf(h, d) \o MembersOf(h, s)
  <2> DEFINE p == MembersOf(h, d)
             q == MembersOf(h, s)
             r == MembersOf(g, d)
  <2>1. /\ p \in Seq(Members) /\ Len(p) = n /\ \A i \in 1..n : p[i] = h.elem[c[d][i]].mbr
        /\ q \in Seq(Members) /\ Len(q) = m /\ \A i \in 1..m : q[i] = h.elem[c[s][i]].mbr
    BY MembersIs
  <2>2. /\ r \in Seq(Members) /\ Len(r) = n + m
        /\ \A i \in 1..(n + m) : r[i] = g.elem[b[d][i]].mbr
    <3>1. Len(b[d]) = n + m
      BY <1>3
    <3>2. /\ r \in Seq(Members) /\ Len(r) = Len(b[d])
          /\ \A i \in 1..Len(b[d]) : r[i] = g.elem[b[d][i]].mbr
      BY <1>13, <1>14, MembersIs
    <3> QED BY <3>1, <3>2
  <2> HIDE DEF p, q, r
  <2>3. /\ p \o q \in Seq(Members) /\ Len(p \o q) = n + m
        /\ \A i \in 1..(n + m) : (p \o q)[i] = IF i <= n THEN p[i] ELSE q[i - n]
    <3>1. p \in Seq(Members) /\ Len(p) = n /\ q \in Seq(Members) /\ Len(q) = m
      BY <2>1
    <3>2. /\ p \o q \in Seq(Members) /\ Len(p \o q) = Len(p) + Len(q)
          /\ \A i \in 1..(Len(p) + Len(q)) :
               (p \o q)[i] = IF i <= Len(p) THEN p[i] ELSE q[i - Len(p)]
      BY <3>1, ConcatProperties
    <3> QED BY <3>1, <3>2
  <2>4. ASSUME NEW i \in 1..Len(r) PROVE r[i] = (p \o q)[i]
    <3>1. i \in 1..(n + m)
      BY <2>2
    <3>2. CASE i \in 1..n /\ b[d][i] = c[d][i]
      <4>1. r[i] = p[i]
        <5>1. r[i] = g.elem[c[d][i]].mbr
          BY <2>2, <3>1, <3>2
        <5>2. p[i] = h.elem[c[d][i]].mbr
          BY <2>1, <3>2
        <5> QED BY <1>6, <3>2, <5>1, <5>2
      <4>2. i <= n
        BY <1>2, <3>2
      <4> QED BY <2>3, <3>1, <4>1, <4>2
    <3>3. CASE i - n \in 1..m /\ ~(i <= n) /\ b[d][i] = c[s][i - n]
      <4>1. r[i] = q[i - n]
        <5>1. r[i] = g.elem[c[s][i - n]].mbr
          BY <2>2, <3>1, <3>3
        <5>2. q[i - n] = h.elem[c[s][i - n]].mbr
          BY <2>1, <3>3
        <5> QED BY <1>5, <3>3, <5>1, <5>2
      <4> QED BY <2>3, <3>1, <3>3, <4>1
    <3> QED BY <1>8, <3>1, <3>2, <3>3
  <2>5. r = p \o q
    BY <2>2, <2>3, <2>4, SeqEqual
  <2> QED BY <2>5 DEF p, q, r
<1>16. MembersOf(g, s) = << >>
  <2>1. MembersOf(g, s) \in Seq(Members) /\ Len(MembersOf(g, s)) = 0
    BY <1>3, <1>13, <1>14, MembersIs
  <2> QED BY <2>1, EmptySeq
<1>17. ASSUME NEW k \in Lists, k # d, k # s
       PROVE  /\ g.rec[k] = h.rec[k]
              /\ g.rec[k] # NULL => MembersOf(g, k) = MembersOf(h, k)
  <2>1. g.rec[k] = h.rec[k] /\ b[k] = c[k]
    BY <1>1, <1>3, <1>17
  <2>2. \A i \in 1..Len(c[k]) : g.elem[c[k][i]].mbr = h.elem[c[k][i]].mbr
    BY <1>7, <1>17
  <2>3. g.rec[k] # NULL => MembersOf(g, k) = MembersOf(h, k)
    BY <1>13, <2>1, <2>2, SameMembers
  <2> QED BY <2>1, <2>3
<1>18. Content(g) = [Content(h) EXCEPT ![d] = MembersOf(h, d) \o MembersOf(h, s), ![s] = << >>]
  <2>1. ASSUME NEW k \in Lists
        PROVE  Content(g)[k] = IF k = s THEN << >>
                               ELSE IF k = d THEN MembersOf(h, d) \o MembersOf(h, s)
                               ELSE Content(h)[k]
    BY <1>14, <1>15, <1>16, <1>17, Zenon DEF Content
  <2>2. /\ Content(g) = [k \in Lists |-> Content(g)[k]]
        /\ Content(h) = [k \in Lists |-> Content(h)[k]]
    BY DEF Content
  <2> HIDE DEF Content
  <2> DEFINE p == MembersOf(h, d) \o MembersOf(h, s)
  <2> HIDE DEF p
  <2>3. Content(g) = [k \in Lists |-> IF k = s THEN << >> ELSE IF k = d THEN p
                                      ELSE Content(h)[k]]
    BY <2>1, <2>2, Zenon DEF p
  <2>4. Content(g) = [Content(h) EXCEPT ![d] = p, ![s] = << >>]
    BY <2>2, <2>3
  <2> QED BY <2>4 DEF p
<1> QED BY <1>13, <1>18 DEF g, WellFormed, OneAfterOther

-----------------------------------------------------------------------------
(* A loop over the members of a list is a recursive function.  There is    *)
(* one for every length, because it can be extended from each number to    *)
(* the next.                                                               *)
Steps(N, X) == [1..N -> [X -> X]]

Loops(f, N, X, base, step) ==
  /\ f \in [0..N -> X]
  /\ f[0] = base
  /\ \A n \in 1..N : f[n] = step[n][f[n - 1]]

LEMMA Recursion ==
  ASSUME NEW N \in Nat, NEW X, NEW base \in X, NEW step \in Steps(N, X)
  PROVE  \E f : Loops(f, N, X, base, step)
<1> USE DEF Steps
<1> DEFINE To(n, f) == f[0] = base /\ \A k \in 1..n : f[k] = step[k][f[k - 1]]
           S == {n \in 0..N : \E f \in [0..n -> X] : To(n, f)}
<1>1. 0 \in S
  <2> DEFINE f == [k \in 0..0 |-> base]
  <2>1. 0 \in 0..0 /\ f[0] = base /\ \A k \in 1..0 : FALSE
    OBVIOUS
  <2>2. f \in [0..0 -> X]
    OBVIOUS
  <2> HIDE DEF f
  <2>3. 0 \in 0..N /\ \E g \in [0..0 -> X] : To(0, g)
    BY <2>1, <2>2
  <2> QED BY <2>3
<1>2. ASSUME NEW n \in 1..N, n - 1 \in S PROVE n \in S
  <2>1. PICK f \in [0..(n - 1) -> X] : To(n - 1, f)
    BY <1>2
  <2> DEFINE x == step[n][f[n - 1]]
             g == [k \in 0..n |-> IF k = n THEN x ELSE f[k]]
  <2>2. n \in Nat /\ n - 1 \in 0..(n - 1) /\ \A k \in 0..n : k # n => k \in 0..(n - 1)
    OBVIOUS
  <2>3. x \in X
    <3>1. f[n - 1] \in X
      BY <2>1, <2>2
    <3> QED BY <3>1
  <2> HIDE DEF x
  <2>4. g \in [0..n -> X]
    BY <2>1, <2>2, <2>3
  <2>5. g[0] = base
    BY <2>1, <2>2
  <2>6. ASSUME NEW k \in 1..n PROVE g[k] = step[k][g[k - 1]]
    <3>1. k - 1 \in 0..n /\ k - 1 # n /\ k \in 0..n /\ g[k - 1] = f[k - 1]
      BY <2>2
    <3>2. CASE k = n
      BY <3>1, <3>2 DEF x
    <3>3. CASE k # n
      <4>1. k \in 1..(n - 1) /\ g[k] = f[k]
        BY <2>2, <3>3
      <4> QED BY <2>1, <3>1, <4>1
    <3> QED BY <3>2, <3>3
  <2> HIDE DEF g
  <2>7. n \in 0..N
    OBVIOUS
  <2> QED BY <2>4, <2>5, <2>6, <2>7
<1> HIDE DEF S
<1>3. N \in S
  <2>1. \A n \in 0..N : n \in S
    BY <1>1, <1>2, Induct
  <2> QED BY <2>1
<1> QED BY <1>3 DEF S, Loops

(* the heaps a copy to d goes through *)
Copying(d) == {h \in Heaps : WellFormed(h) /\ h.rec[d] # NULL}

LEMMA AddedStep ==
  ASSUME NEW d \in Lists, NEW h \in Copying(d), NEW x \in Members
  PROVE  /\ Added(h, d, x) \in Copying(d)
         /\ Unused(h) = {} => Added(h, d, x) = h
         /\ Unused(h) # {} =>
              Content(Added(h, d, x)) = [Content(h) EXCEPT ![d] = Append(Content(h)[d], x)]
<1>1. PICK c : Chains(h, c)
  BY DEF Copying, WellFormed
<1>2. h.rec[d] # NULL
  BY DEF Copying
<1>3. CASE Unused(h) = {}
  <2>1. Added(h, d, x) = h
    BY <1>3 DEF Added
  <2> QED BY <1>3, <2>1
<1>4. CASE Unused(h) # {}
  <2>1. /\ WellFormed(Added(h, d, x))
        /\ Added(h, d, x).rec[d] # NULL
        /\ Content(Added(h, d, x)) =
             [Content(h) EXCEPT ![d] = Append(MembersOf(h, d), x)]
    BY <1>1, <1>2, <1>4, AddedChains
  <2>2. Added(h, d, x) \in Heaps /\ WellFormed(Added(h, d, x))
    BY <2>1 DEF WellFormed, Chains
  <2>3. MembersOf(h, d) = Content(h)[d]
    BY <1>2 DEF Content
  <2> QED BY <1>4, <2>1, <2>2, <2>3 DEF Copying
<1> QED BY <1>3, <1>4

LEMMA AddedUniqueStep ==
  ASSUME NEW d \in Lists, NEW h \in Copying(d), NEW x \in Members
  PROVE  /\ AddedUnique(h, d, x) \in Copying(d)
         /\ Unused(h) = {} => AddedUnique(h, d, x) = h
         /\ Unused(h) # {} =>
              Content(AddedUnique(h, d, x)) =
                [Content(h) EXCEPT ![d] = Sequences!WithUnique(Content(h)[d], x)]
<1>1. MembersOf(h, d) = Content(h)[d]
  BY DEF Content, Copying
<1>2. Content(h) = [Content(h) EXCEPT ![d] = Content(h)[d]]
  BY DEF Content
<1>3. CASE Contains(Content(h)[d], x)
  <2>1. AddedUnique(h, d, x) = h
    BY <1>1, <1>3 DEF AddedUnique
  <2>2. Sequences!WithUnique(Content(h)[d], x) = Content(h)[d]
    BY <1>3 DEF Sequences!WithUnique, Sequences!Contains, Contains
  <2> QED BY <1>2, <2>1, <2>2
<1>4. CASE ~ Contains(Content(h)[d], x)
  <2>1. AddedUnique(h, d, x) = Added(h, d, x)
    BY <1>1, <1>4 DEF AddedUnique
  <2>2. Sequences!WithUnique(Content(h)[d], x) = Append(Content(h)[d], x)
    BY <1>4 DEF Sequences!WithUnique, Sequences!Contains, Contains
  <2> QED BY <2>1, <2>2, AddedStep
<1> QED BY <1>3, <1>4

(* A loop that offers one member after another, in the heap and in the     *)
(* sequence: when the heap is full, the sequence has run ahead.            *)
(* f: the heaps along a copy to d; a: the sequence, were there memory enough *)
Offered(d, N, f, a) ==
  /\ f[0] \in Copying(d) /\ a[0] = Content(f[0])[d]
  /\ \A n \in 1..N : f[n - 1] \in Copying(d) =>
       /\ f[n] \in Copying(d)
       /\ Unused(f[n - 1]) = {} => f[n] = f[n - 1]
       /\ Unused(f[n - 1]) # {} /\ Content(f[n - 1])[d] = a[n - 1] =>
            Content(f[n]) = [Content(f[n - 1]) EXCEPT ![d] = a[n]]

LEMMA CopyLoop ==
  ASSUME NEW d \in Lists, NEW N \in Nat, NEW f, NEW a, Offered(d, N, f, a)
  PROVE  /\ f[N] \in Copying(d)
         /\ \E k \in 0..N : Content(f[N]) = [Content(f[0]) EXCEPT ![d] = a[k]]
<1> DEFINE Reached(n, k) == Content(f[n]) = [Content(f[0]) EXCEPT ![d] = a[k]]
           S == {n \in 0..N : /\ f[n] \in Copying(d)
                              /\ \/ Reached(n, n)
                                 \/ Unused(f[n]) = {} /\ \E k \in 0..n : Reached(n, k)}
<1>1. \A h : Content(h) = [l \in Lists |-> Content(h)[l]]
  BY DEF Content
<1>2. 0 \in S
  <2>1. Content(f[0]) = [Content(f[0]) EXCEPT ![d] = a[0]]
    BY <1>1 DEF Offered
  <2> QED BY <2>1 DEF Offered
<1>3. ASSUME NEW n \in 1..N, n - 1 \in S PROVE n \in S
  <2>1. /\ f[n - 1] \in Copying(d)
        /\ \/ Reached(n - 1, n - 1)
           \/ Unused(f[n - 1]) = {} /\ \E k \in 0..(n - 1) : Reached(n - 1, k)
    BY <1>3
  <2>2. /\ f[n] \in Copying(d)
        /\ Unused(f[n - 1]) = {} => f[n] = f[n - 1]
        /\ Unused(f[n - 1]) # {} /\ Content(f[n - 1])[d] = a[n - 1] =>
             Content(f[n]) = [Content(f[n - 1]) EXCEPT ![d] = a[n]]
    BY <2>1 DEF Offered
  <2>3. n \in 0..N /\ n - 1 \in 0..n /\ n - 1 \in 0..(n - 1) /\ \A k \in 0..(n - 1) : k \in 0..n
    OBVIOUS
  <2>4. CASE Unused(f[n - 1]) = {}
    <3>1. PICK k \in 0..(n - 1) : Reached(n - 1, k)
      BY <2>1, <2>3
    <3>2. f[n] = f[n - 1]
      BY <2>2, <2>4
    <3>3. Reached(n, k) /\ Unused(f[n]) = {} /\ k \in 0..n
      BY <2>3, <2>4, <3>1, <3>2
    <3> QED BY <2>2, <2>3, <3>3
  <2>5. CASE Unused(f[n - 1]) # {}
    <3>1. Content(f[n - 1]) = [Content(f[0]) EXCEPT ![d] = a[n - 1]]
      BY <2>1, <2>5
    <3>2. Content(f[n - 1])[d] = a[n - 1]
      BY <1>1, <3>1
    <3>3. Content(f[n]) = [Content(f[n - 1]) EXCEPT ![d] = a[n]]
      BY <2>2, <2>5, <3>2
    <3>4. Content(f[n]) = [Content(f[0]) EXCEPT ![d] = a[n]]
      BY <1>1, <3>1, <3>3
    <3> QED BY <2>2, <2>3, <3>4
  <2> QED BY <2>4, <2>5
<1> HIDE DEF S
<1>4. \A n \in 0..N : n \in S
  BY <1>2, <1>3, Induct
<1>5. N \in S
  BY <1>4
<1> QED BY <1>5 DEF S

-----------------------------------------------------------------------------
(* The equations that Copied and CopiedUnique solve. *)
CopyWalk(h, d, q, f) ==
  [n \in 0..Len(q) |-> IF n = 0 THEN h ELSE Added(f[n - 1], d, q[n])]

CopyUniqueWalk(h, d, q, Chosen, f) ==
  [n \in 0..Len(q) |->
    IF n = 0 THEN h
    ELSE IF q[n] \in Chosen THEN AddedUnique(f[n - 1], d, q[n]) ELSE f[n - 1]]

LEMMA CopiedLoop ==
  ASSUME NEW d \in Lists, NEW s \in Lists, NEW h \in Copying(d), h.rec[s] # NULL
  PROVE  \E f : /\ f[0] = h
                /\ \A n \in 1..Len(MembersOf(h, s)) :
                     f[n] = Added(f[n - 1], d, MembersOf(h, s)[n])
                /\ Copied(h, d, s) = f[Len(MembersOf(h, s))]
<1> DEFINE q == MembersOf(h, s)
           N == Len(q)
           X == Copying(d)
           walked == CHOOSE f : f = CopyWalk(h, d, q, f)
<1>1. q \in Seq(Members) /\ N \in Nat
  <2>1. PICK c : Chains(h, c)
    BY DEF Copying, WellFormed
  <2> QED BY <2>1, MembersIs
<1>2. Copied(h, d, s) = walked[N]
  BY Zenon DEF Copied, CopyWalk
<1> HIDE DEF q, walked
<1>3. \A n \in 1..N : q[n] \in Members
  BY <1>1
<1>4. \E f : f = CopyWalk(h, d, q, f)
  <2> DEFINE step == [n \in 1..N |-> [g \in X |-> Added(g, d, q[n])]]
  <2>1. step \in [1..N -> [X -> X]]
    <3>1. ASSUME NEW n \in 1..N, NEW g \in X PROVE Added(g, d, q[n]) \in X
      BY <1>3, AddedStep
    <3> QED BY <3>1
  <2>2. \A n \in 1..N : \A g \in X : step[n][g] = Added(g, d, q[n])
    OBVIOUS
  <2> HIDE DEF step, X, N
  <2>3. PICK f \in [0..N -> X] : f[0] = h /\ \A n \in 1..N : f[n] = step[n][f[n - 1]]
    <3>1. h \in X
      BY DEF X
    <3>2. N \in Nat
      BY <1>1
    <3>3. step \in Steps(N, X)
      BY <2>1 DEF Steps
    <3>4. \E f : Loops(f, N, X, h, step)
      BY <3>1, <3>2, <3>3, Recursion
    <3> QED BY <3>4 DEF Loops
  <2>4. ASSUME NEW n \in 0..N
        PROVE  f[n] = IF n = 0 THEN h ELSE Added(f[n - 1], d, q[n])
    <3>1. CASE n = 0
      BY <2>3, <3>1
    <3>2. CASE n # 0
      <4>1. n \in 1..N /\ n - 1 \in 0..N
        BY <1>1, <3>2
      <4>2. f[n - 1] \in X
        BY <2>3, <4>1
      <4> QED BY <2>2, <2>3, <3>2, <4>1, <4>2
    <3> QED BY <3>1, <3>2
  <2>5. f = [n \in 0..N |-> f[n]]
    BY <2>3
  <2>6. CopyWalk(h, d, q, f) = [n \in 0..N |-> f[n]]
    BY <2>4, Zenon DEF CopyWalk, N
  <2> QED BY <2>5, <2>6
<1>5. walked = CopyWalk(h, d, q, walked)
  BY <1>4, Zenon DEF walked
<1>6. \A n \in 0..N : walked[n] = IF n = 0 THEN h ELSE Added(walked[n - 1], d, q[n])
  BY <1>5, Zenon DEF CopyWalk
<1>7. walked[0] = h /\ \A n \in 1..N : walked[n] = Added(walked[n - 1], d, q[n])
  <2>1. 0 \in 0..N /\ \A n \in 1..N : n \in 0..N /\ n # 0
    BY <1>1
  <2> QED BY <1>6, <2>1
<1> QED BY <1>2, <1>7 DEF q

LEMMA CopiedUniqueLoop ==
  ASSUME NEW d \in Lists, NEW s \in Lists, NEW h \in Copying(d), h.rec[s] # NULL, NEW C
  PROVE  \E f : /\ f[0] = h
                /\ \A n \in 1..Len(MembersOf(h, s)) :
                     f[n] = IF MembersOf(h, s)[n] \in C
                            THEN AddedUnique(f[n - 1], d, MembersOf(h, s)[n])
                            ELSE f[n - 1]
                /\ CopiedUnique(h, d, s, C) = f[Len(MembersOf(h, s))]
<1> DEFINE q == MembersOf(h, s)
           N == Len(q)
           X == Copying(d)
           walked == CHOOSE f : f = CopyUniqueWalk(h, d, q, C, f)
<1>1. q \in Seq(Members) /\ N \in Nat
  <2>1. PICK c : Chains(h, c)
    BY DEF Copying, WellFormed
  <2> QED BY <2>1, MembersIs
<1>2. CopiedUnique(h, d, s, C) = walked[N]
  BY Zenon DEF CopiedUnique, CopyUniqueWalk
<1> HIDE DEF q, walked
<1>3. \A n \in 1..N : q[n] \in Members
  BY <1>1
<1>4. \E f : f = CopyUniqueWalk(h, d, q, C, f)
  <2> DEFINE step == [n \in 1..N |-> [g \in X |->
                       IF q[n] \in C THEN AddedUnique(g, d, q[n]) ELSE g]]
  <2>1. step \in [1..N -> [X -> X]]
    <3>1. ASSUME NEW n \in 1..N, NEW g \in X
          PROVE  (IF q[n] \in C THEN AddedUnique(g, d, q[n]) ELSE g) \in X
      BY <1>3, AddedUniqueStep
    <3> QED BY <3>1
  <2>2. \A n \in 1..N : \A g \in X :
          step[n][g] = IF q[n] \in C THEN AddedUnique(g, d, q[n]) ELSE g
    OBVIOUS
  <2> HIDE DEF step, X, N
  <2>3. PICK f \in [0..N -> X] : f[0] = h /\ \A n \in 1..N : f[n] = step[n][f[n - 1]]
    <3>1. h \in X
      BY DEF X
    <3>2. N \in Nat
      BY <1>1
    <3>3. step \in Steps(N, X)
      BY <2>1 DEF Steps
    <3>4. \E f : Loops(f, N, X, h, step)
      BY <3>1, <3>2, <3>3, Recursion
    <3> QED BY <3>4 DEF Loops
  <2>4. ASSUME NEW n \in 0..N
        PROVE  f[n] = IF n = 0 THEN h
                      ELSE IF q[n] \in C THEN AddedUnique(f[n - 1], d, q[n]) ELSE f[n - 1]
    <3>1. CASE n = 0
      BY <2>3, <3>1
    <3>2. CASE n # 0
      <4>1. n \in 1..N /\ n - 1 \in 0..N
        BY <1>1, <3>2
      <4>2. f[n - 1] \in X
        BY <2>3, <4>1
      <4> QED BY <2>2, <2>3, <3>2, <4>1, <4>2
    <3> QED BY <3>1, <3>2
  <2>5. f = [n \in 0..N |-> f[n]]
    BY <2>3
  <2>6. CopyUniqueWalk(h, d, q, C, f) = [n \in 0..N |-> f[n]]
    BY <2>4, Zenon DEF CopyUniqueWalk, N
  <2> QED BY <2>5, <2>6
<1>5. walked = CopyUniqueWalk(h, d, q, C, walked)
  BY <1>4, Zenon DEF walked
<1>6. \A n \in 0..N :
        walked[n] = IF n = 0 THEN h
                    ELSE IF q[n] \in C THEN AddedUnique(walked[n - 1], d, q[n])
                    ELSE walked[n - 1]
  BY <1>5, Zenon DEF CopyUniqueWalk
<1>7. /\ walked[0] = h
      /\ \A n \in 1..N : walked[n] = IF q[n] \in C THEN AddedUnique(walked[n - 1], d, q[n])
                                     ELSE walked[n - 1]
  <2>1. 0 \in 0..N /\ \A n \in 1..N : n \in 0..N /\ n # 0
    BY <1>1
  <2> QED BY <1>6, <2>1
<1> QED BY <1>2, <1>7 DEF q

(* Sequences grow member by member. *)
LEMMA InitialParts ==
  ASSUME NEW p \in Seq(Members), NEW q \in Seq(Members)
  PROVE  /\ p \o SubSeq(q, 1, 0) = p
         /\ \A n \in 1..Len(q) :
              p \o SubSeq(q, 1, n) = Append(p \o SubSeq(q, 1, n - 1), q[n])
<1>1. Len(q) \in Nat /\ \A i \in 1..Len(q) : q[i] \in Members
  OBVIOUS
<1>2. p \o SubSeq(q, 1, 0) = p
  <2>1. SubSeq(q, 1, 0) = << >>
    BY SubSeqEmpty
  <2> QED BY <2>1, ConcatEmptySeq
<1>3. ASSUME NEW n \in 1..Len(q)
      PROVE  p \o SubSeq(q, 1, n) = Append(p \o SubSeq(q, 1, n - 1), q[n])
  <2> DEFINE r == SubSeq(q, 1, n - 1)
  <2>1. SubSeq(q, 1, n) = r \o << q[n] >>
    <3>1. 1 \in 1..Len(q) /\ n \in 1..Len(q)
      BY <1>1
    <3> QED BY <3>1, SubSeqRecursiveSecond
  <2>2. r \in Seq(Members)
    <3>1. \A i \in 1..(n - 1) : q[i] \in Members
      BY <1>1
    <3> QED BY <3>1, SubSeqProperties
  <2> HIDE DEF r
  <2>3. q[n] \in Members /\ << q[n] >> \in Seq(Members)
    BY <1>1
  <2>4. p \o (r \o << q[n] >>) = (p \o r) \o << q[n] >>
    BY <2>2, <2>3, ConcatAssociative
  <2>5. p \o r \in Seq(Members)
    BY <2>2, ConcatProperties
  <2>6. Append(p \o r, q[n]) = (p \o r) \o << q[n] >>
    BY <2>3, <2>5, AppendIsConcat
  <2> QED BY <2>1, <2>4, <2>6 DEF r
<1> QED BY <1>2, <1>3

FirstAdded(h, d, s, n) ==
  [Content(h) EXCEPT ![d] = Content(h)[d] \o SubSeq(Content(h)[s], 1, n)]

LEMMA CopiedChains ==
  ASSUME NEW h, NEW c, Chains(h, c), NEW d \in Lists, NEW s \in Lists,
         h.rec[d] # NULL, h.rec[s] # NULL
  PROVE  /\ WellFormed(Copied(h, d, s))
         /\ \E n \in 0..Len(Content(h)[s]) :
              Content(Copied(h, d, s)) = FirstAdded(h, d, s, n)
<1> DEFINE p == MembersOf(h, d)
           q == MembersOf(h, s)
           N == Len(q)
           a == [n \in 0..N |-> p \o SubSeq(q, 1, n)]
<1>1. h \in Copying(d)
  BY DEF Copying, WellFormed, Chains
<1>2. Content(h)[d] = p /\ Content(h)[s] = q
  BY DEF Content
<1>3. p \in Seq(Members) /\ q \in Seq(Members) /\ N \in Nat
  BY MembersIs
<1>4. PICK f : /\ f[0] = h
               /\ \A n \in 1..N : f[n] = Added(f[n - 1], d, q[n])
               /\ Copied(h, d, s) = f[N]
  BY <1>1, CopiedLoop
<1> HIDE DEF p, q
<1>5. a[0] = p /\ \A n \in 1..N : a[n] = Append(a[n - 1], q[n])
  <2>1. 0 \in 0..N /\ \A n \in 1..N : n \in 0..N /\ n - 1 \in 0..N
    BY <1>3
  <2> QED BY <1>3, <2>1, InitialParts
<1>6. \A n \in 1..N : q[n] \in Members
  BY <1>3
<1> HIDE DEF a
<1>7. ASSUME NEW n \in 1..N, f[n - 1] \in Copying(d)
      PROVE  /\ f[n] \in Copying(d)
             /\ Unused(f[n - 1]) = {} => f[n] = f[n - 1]
             /\ Unused(f[n - 1]) # {} /\ Content(f[n - 1])[d] = a[n - 1] =>
                  Content(f[n]) = [Content(f[n - 1]) EXCEPT ![d] = a[n]]
  <2>1. f[n] = Added(f[n - 1], d, q[n]) /\ a[n] = Append(a[n - 1], q[n]) /\ q[n] \in Members
    BY <1>4, <1>5, <1>6
  <2> DEFINE g == f[n - 1]
  <2> HIDE DEF g
  <2>2. /\ Added(g, d, q[n]) \in Copying(d)
        /\ Unused(g) = {} => Added(g, d, q[n]) = g
        /\ Unused(g) # {} =>
             Content(Added(g, d, q[n])) = [Content(g) EXCEPT ![d] = Append(Content(g)[d], q[n])]
    BY <1>7, <2>1, AddedStep DEF g
  <2> QED BY <2>1, <2>2 DEF g
<1>8. /\ f[N] \in Copying(d)
      /\ \E k \in 0..N : Content(f[N]) = [Content(f[0]) EXCEPT ![d] = a[k]]
  <2>1. f[0] \in Copying(d) /\ a[0] = Content(f[0])[d]
    BY <1>1, <1>2, <1>4, <1>5
  <2>2. Offered(d, N, f, a)
    BY <1>7, <2>1 DEF Offered
  <2> HIDE DEF N
  <2> QED BY <1>3, <2>2, CopyLoop
<1>9. WellFormed(Copied(h, d, s))
  BY <1>4, <1>8 DEF Copying
<1>10. \E k \in 0..N : Content(Copied(h, d, s)) =
                         [Content(h) EXCEPT ![d] = p \o SubSeq(q, 1, k)]
  BY <1>4, <1>8 DEF a
<1> QED BY <1>2, <1>9, <1>10 DEF FirstAdded

(* The equation that ListPromise!ExtendedUnique solves. *)
ExtendedWalk(q, p, C, a) ==
  [n \in 0..Len(p) |->
    IF n = 0 THEN q
    ELSE IF p[n] \in C THEN Sequences!WithUnique(a[n - 1], p[n]) ELSE a[n - 1]]

LEMMA ExtendedIs ==
  ASSUME NEW p \in Seq(Members), NEW q \in Seq(Members), NEW C
  PROVE  LET a == Sequences!ExtendedUnique(q, p, C)
         IN  /\ a[0] = q
             /\ \A n \in 1..Len(p) : a[n] = IF p[n] \in C
                                            THEN Sequences!WithUnique(a[n - 1], p[n])
                                            ELSE a[n - 1]
<1> DEFINE N == Len(p)
           X == Seq(Members)
           a == Sequences!ExtendedUnique(q, p, C)
<1>1. N \in Nat /\ \A n \in 1..N : p[n] \in Members
  OBVIOUS
<1>2. a = CHOOSE f : f = ExtendedWalk(q, p, C, f)
  BY Zenon DEF Sequences!ExtendedUnique, ExtendedWalk
<1>3. \E f : f = ExtendedWalk(q, p, C, f)
  <2> DEFINE step == [n \in 1..N |-> [g \in X |->
                       IF p[n] \in C THEN Sequences!WithUnique(g, p[n]) ELSE g]]
  <2>1. step \in [1..N -> [X -> X]]
    <3>1. ASSUME NEW n \in 1..N, NEW g \in X
          PROVE  (IF p[n] \in C THEN Sequences!WithUnique(g, p[n]) ELSE g) \in X
      BY <1>1, AppendProperties DEF Sequences!WithUnique
    <3> QED BY <3>1
  <2>2. \A n \in 1..N : \A g \in X :
          step[n][g] = IF p[n] \in C THEN Sequences!WithUnique(g, p[n]) ELSE g
    OBVIOUS
  <2> HIDE DEF step, X, N
  <2>3. PICK f \in [0..N -> X] : f[0] = q /\ \A n \in 1..N : f[n] = step[n][f[n - 1]]
    <3>1. q \in X
      BY DEF X
    <3>2. N \in Nat
      BY <1>1
    <3>3. step \in Steps(N, X)
      BY <2>1 DEF Steps
    <3>4. \E f : Loops(f, N, X, q, step)
      BY <3>1, <3>2, <3>3, Recursion
    <3> QED BY <3>4 DEF Loops
  <2>4. ASSUME NEW n \in 0..N
        PROVE  f[n] = IF n = 0 THEN q
                      ELSE IF p[n] \in C THEN Sequences!WithUnique(f[n - 1], p[n])
                      ELSE f[n - 1]
    <3>1. CASE n = 0
      BY <2>3, <3>1
    <3>2. CASE n # 0
      <4>1. n \in 1..N /\ n - 1 \in 0..N
        BY <1>1, <3>2
      <4>2. f[n - 1] \in X
        BY <2>3, <4>1
      <4> QED BY <2>2, <2>3, <3>2, <4>1, <4>2
    <3> QED BY <3>1, <3>2
  <2>5. f = [n \in 0..N |-> f[n]]
    BY <2>3
  <2>6. ExtendedWalk(q, p, C, f) = [n \in 0..N |-> f[n]]
    BY <2>4, Zenon DEF ExtendedWalk, N
  <2> QED BY <2>5, <2>6
<1> HIDE DEF a
<1>4. a = ExtendedWalk(q, p, C, a)
  BY <1>2, <1>3, Zenon
<1>5. \A n \in 0..N :
        a[n] = IF n = 0 THEN q
               ELSE IF p[n] \in C THEN Sequences!WithUnique(a[n - 1], p[n]) ELSE a[n - 1]
  BY <1>4, Zenon DEF ExtendedWalk
<1>6. /\ a[0] = q
      /\ \A n \in 1..N : a[n] = IF p[n] \in C THEN Sequences!WithUnique(a[n - 1], p[n])
                                ELSE a[n - 1]
  <2>1. 0 \in 0..N /\ \A n \in 1..N : n \in 0..N /\ n # 0
    BY <1>1
  <2> QED BY <1>5, <2>1
<1> QED BY <1>6 DEF a

LEMMA CopiedUniqueChains ==
  ASSUME NEW h, NEW c, Chains(h, c), NEW d \in Lists, NEW s \in Lists,
         h.rec[d] # NULL, h.rec[s] # NULL, NEW C
  PROVE  /\ WellFormed(CopiedUnique(h, d, s, C))
         /\ \E n \in 0..Len(Content(h)[s]) :
              Content(CopiedUnique(h, d, s, C)) =
                [Content(h) EXCEPT ![d] =
                   Sequences!ExtendedUnique(Content(h)[d], Content(h)[s], C)[n]]
<1> DEFINE p == MembersOf(h, d)
           q == MembersOf(h, s)
           N == Len(q)
           a == Sequences!ExtendedUnique(p, q, C)
<1>1. h \in Copying(d)
  BY DEF Copying, WellFormed, Chains
<1>2. Content(h)[d] = p /\ Content(h)[s] = q
  BY DEF Content
<1>3. p \in Seq(Members) /\ q \in Seq(Members) /\ N \in Nat
  BY MembersIs
<1>4. PICK f : /\ f[0] = h
               /\ \A n \in 1..N : f[n] = IF q[n] \in C THEN AddedUnique(f[n - 1], d, q[n])
                                         ELSE f[n - 1]
               /\ CopiedUnique(h, d, s, C) = f[N]
  BY <1>1, CopiedUniqueLoop
<1> HIDE DEF p, q
<1>5. /\ a[0] = p
      /\ \A n \in 1..N : a[n] = IF q[n] \in C THEN Sequences!WithUnique(a[n - 1], q[n])
                                ELSE a[n - 1]
  BY <1>3, ExtendedIs
<1>6. \A n \in 1..N : q[n] \in Members
  BY <1>3
<1> HIDE DEF a
<1>7. ASSUME NEW n \in 1..N, f[n - 1] \in Copying(d)
      PROVE  /\ f[n] \in Copying(d)
             /\ Unused(f[n - 1]) = {} => f[n] = f[n - 1]
             /\ Unused(f[n - 1]) # {} /\ Content(f[n - 1])[d] = a[n - 1] =>
                  Content(f[n]) = [Content(f[n - 1]) EXCEPT ![d] = a[n]]
  <2> DEFINE g == f[n - 1]
  <2>1. q[n] \in Members
    BY <1>6
  <2>2. CASE q[n] \in C
    <3>1. f[n] = AddedUnique(g, d, q[n]) /\ a[n] = Sequences!WithUnique(a[n - 1], q[n])
      BY <1>4, <1>5, <2>2
    <3> HIDE DEF g
    <3>2. /\ AddedUnique(g, d, q[n]) \in Copying(d)
          /\ Unused(g) = {} => AddedUnique(g, d, q[n]) = g
          /\ Unused(g) # {} =>
               Content(AddedUnique(g, d, q[n])) =
                 [Content(g) EXCEPT ![d] = Sequences!WithUnique(Content(g)[d], q[n])]
      BY <1>7, <2>1, AddedUniqueStep DEF g
    <3> QED BY <3>1, <3>2 DEF g
  <2>3. CASE q[n] \notin C
    <3>1. f[n] = g /\ a[n] = a[n - 1]
      BY <1>4, <1>5, <2>3
    <3>2. Content(g) = [Content(g) EXCEPT ![d] = Content(g)[d]]
      BY DEF Content
    <3> QED BY <1>7, <3>1, <3>2
  <2> QED BY <2>2, <2>3
<1>8. /\ f[N] \in Copying(d)
      /\ \E k \in 0..N : Content(f[N]) = [Content(f[0]) EXCEPT ![d] = a[k]]
  <2>1. f[0] \in Copying(d) /\ a[0] = Content(f[0])[d]
    BY <1>1, <1>2, <1>4, <1>5
  <2>2. Offered(d, N, f, a)
    BY <1>7, <2>1 DEF Offered
  <2> HIDE DEF N
  <2> QED BY <1>3, <2>2, CopyLoop
<1>9. WellFormed(CopiedUnique(h, d, s, C))
  BY <1>4, <1>8 DEF Copying
<1>10. \E k \in 0..N : Content(CopiedUnique(h, d, s, C)) =
                         [Content(h) EXCEPT ![d] = Sequences!ExtendedUnique(p, q, C)[k]]
  BY <1>4, <1>8 DEF a
<1> QED BY <1>2, <1>9, <1>10

-----------------------------------------------------------------------------
(* Every operation keeps the lists well formed, and does to the sequences  *)
(* what it promises.                                                       *)
LEMMA ContentIs ==
  /\ [l \in Lists |-> IF Live(l) THEN MembersOf(heap, l) ELSE NULL] = Content(heap)
  /\ \A l \in Lists : WellFormed(heap) => (Content(heap)[l] # NULL <=> Live(l))
<1>1. [l \in Lists |-> IF Live(l) THEN MembersOf(heap, l) ELSE NULL] = Content(heap)
  BY DEF Content, Live
<1>2. ASSUME NEW l \in Lists, WellFormed(heap) PROVE Content(heap)[l] # NULL <=> Live(l)
  <2>1. PICK c : Chains(heap, c)
    BY <1>2 DEF WellFormed
  <2>2. heap.rec[l] # NULL => MembersOf(heap, l) # NULL
    BY <2>1, MembersIs
  <2> QED BY <2>2 DEF Content, Live
<1> QED BY <1>1, <1>2

LEMMA SetIs ==
  ASSUME NEW l \in Lists, NEW q,
         Content(heap') = [Content(heap) EXCEPT ![l] = q]
  PROVE  Sequences!Set(l, q)
BY DEF Sequences!Set, Content, Live

LEMMA LiveIs ==
  ASSUME WellFormed(heap)
  PROVE  Sequences!Live = {l \in Lists : Live(l)}
BY ContentIs DEF Sequences!Live

LEMMA InitListStep ==
  ASSUME WellFormed(heap), NEW l \in Lists, InitList(l)
  PROVE  WellFormed(heap') /\ Sequences!New(l)
<1>1. PICK c : Chains(heap, c)
  BY DEF WellFormed
<1>2. heap.rec[l] = NULL /\ heap' = WithRecord(heap, l)
  BY DEF InitList, Live
<1>3. Chains(heap', c) /\ Content(heap') = [Content(heap) EXCEPT ![l] = << >>]
  BY <1>1, <1>2, InitListChains
<1>4. Sequences!Set(l, << >>)
  BY <1>3, SetIs
<1>5. Content(heap)[l] = NULL
  BY <1>2 DEF Content
<1>6. Sequences!New(l)
  BY <1>4, <1>5, ContentIs DEF Sequences!New
<1> QED BY <1>3, <1>6 DEF WellFormed

LEMMA FreeListStep ==
  ASSUME WellFormed(heap), NEW l \in Lists, FreeList(l)
  PROVE  WellFormed(heap') /\ Sequences!Free(l)
<1>1. PICK c : Chains(heap, c)
  BY DEF WellFormed
<1>2. Live(l) /\ heap.rec[l] # NULL /\ heap' = Freed(heap, l)
  BY DEF FreeList, Live
<1>3. /\ Chains(heap', [c EXCEPT ![l] = << >>])
      /\ Content(heap') = [Content(heap) EXCEPT ![l] = NULL]
  BY <1>1, <1>2, FreedChains
<1>4. Sequences!Set(l, NULL)
  BY <1>3, SetIs
<1>5. Sequences!Free(l)
  BY <1>2, <1>4, LiveIs DEF Sequences!Free
<1> QED BY <1>3, <1>5 DEF WellFormed

LEMMA AddToListStep ==
  ASSUME WellFormed(heap), NEW l \in Lists, NEW x \in Members, AddToList(l, x)
  PROVE  WellFormed(heap') /\ (heap' = heap \/ Sequences!Add(l, x))
<1>1. Live(l) /\ heap.rec[l] # NULL /\ heap' = Added(heap, l, x)
  BY DEF AddToList, Live
<1>2. heap \in Copying(l)
  BY <1>1 DEF Copying, WellFormed, Chains
<1>3. /\ heap' \in Copying(l)
      /\ Unused(heap) = {} => heap' = heap
      /\ Unused(heap) # {} =>
           Content(heap') = [Content(heap) EXCEPT ![l] = Append(Content(heap)[l], x)]
  BY <1>1, <1>2, AddedStep
<1>4. ASSUME Unused(heap) # {} PROVE Sequences!Add(l, x)
  <2>1. Sequences!Set(l, Append(Content(heap)[l], x))
    BY <1>3, <1>4, SetIs
  <2> QED BY <1>1, <2>1, ContentIs, LiveIs DEF Sequences!Add
<1> QED BY <1>3, <1>4 DEF Copying

LEMMA AddUniqueToListStep ==
  ASSUME WellFormed(heap), NEW l \in Lists, NEW x \in Members, AddUniqueToList(l, x)
  PROVE  WellFormed(heap') /\ (heap' = heap \/ Sequences!AddUnique(l, x))
<1>1. Live(l) /\ heap.rec[l] # NULL /\ heap' = AddedUnique(heap, l, x)
  BY DEF AddUniqueToList, Live
<1>2. heap \in Copying(l)
  BY <1>1 DEF Copying, WellFormed, Chains
<1>3. /\ heap' \in Copying(l)
      /\ Unused(heap) = {} => heap' = heap
      /\ Unused(heap) # {} =>
           Content(heap') =
             [Content(heap) EXCEPT ![l] = Sequences!WithUnique(Content(heap)[l], x)]
  BY <1>1, <1>2, AddedUniqueStep
<1>4. ASSUME Unused(heap) # {} PROVE Sequences!AddUnique(l, x)
  <2>1. Sequences!Set(l, Sequences!WithUnique(Content(heap)[l], x))
    BY <1>3, <1>4, SetIs
  <2> QED BY <1>1, <2>1, ContentIs, LiveIs DEF Sequences!AddUnique
<1> QED BY <1>3, <1>4 DEF Copying

LEMMA MoveListStep ==
  ASSUME WellFormed(heap), NEW d \in Lists, NEW s \in Lists, MoveList(d, s)
  PROVE  WellFormed(heap') /\ Sequences!Move(d, s)
<1>1. PICK c : Chains(heap, c)
  BY DEF WellFormed
<1>2. /\ d # s /\ Live(d) /\ Live(s) /\ heap.rec[d] # NULL /\ heap.rec[s] # NULL
      /\ heap.rec[s].head # NULL /\ heap' = Moved(heap, d, s)
  BY DEF MoveList, Both, Live
<1>3. Len(c[s]) # 0
  BY <1>1, <1>2 DEF Chains, Chain
<1>4. /\ WellFormed(heap')
      /\ Content(heap') =
           [Content(heap) EXCEPT ![d] = MembersOf(heap, d) \o MembersOf(heap, s), ![s] = << >>]
  <2>1. WellFormed(Moved(heap, d, s)) /\ Content(Moved(heap, d, s)) = OneAfterOther(heap, d, s)
    BY <1>1, <1>2, <1>3, MovedChains
  <2> QED BY <1>2, <2>1 DEF OneAfterOther
<1>5. MembersOf(heap, d) = Content(heap)[d] /\ MembersOf(heap, s) = Content(heap)[s]
  BY <1>2 DEF Content
<1>6. Content(heap') =
        [Content(heap) EXCEPT ![d] = Content(heap)[d] \o Content(heap)[s], ![s] = << >>]
  BY <1>4, <1>5
<1>7. {d, s} \subseteq Sequences!Live
  BY <1>2, LiveIs
<1>8. Sequences!Move(d, s)
  BY <1>2, <1>6, <1>7, ContentIs DEF Sequences!Move, Content, Live
<1> QED BY <1>4, <1>8 DEF WellFormed

LEMMA CopyListStep ==
  ASSUME WellFormed(heap), NEW d \in Lists, NEW s \in Lists, CopyList(d, s)
  PROVE  WellFormed(heap') /\ Sequences!Copy(d, s)
<1>1. PICK c : Chains(heap, c)
  BY DEF WellFormed
<1>2. /\ d # s /\ Live(d) /\ Live(s) /\ heap.rec[d] # NULL /\ heap.rec[s] # NULL
      /\ heap' = Copied(heap, d, s)
  BY DEF CopyList, Both, Live
<1>3. /\ WellFormed(heap')
      /\ \E n \in 0..Len(Content(heap)[s]) :
           Content(heap') =
             [Content(heap) EXCEPT ![d] = Content(heap)[d] \o SubSeq(Content(heap)[s], 1, n)]
  <2>1. /\ WellFormed(Copied(heap, d, s))
        /\ \E n \in 0..Len(Content(heap)[s]) :
             Content(Copied(heap, d, s)) = FirstAdded(heap, d, s, n)
    BY <1>1, <1>2, CopiedChains
  <2> QED BY <1>2, <2>1 DEF FirstAdded
<1>4. \E n \in 0..Len(Content(heap)[s]) :
        Sequences!Set(d, Content(heap)[d] \o SubSeq(Content(heap)[s], 1, n))
  BY <1>3, SetIs
<1>5. {d, s} \subseteq Sequences!Live
  BY <1>2, LiveIs
<1> QED BY <1>2, <1>3, <1>4, <1>5, ContentIs DEF Sequences!Copy

LEMMA CopyUniqueStep ==
  ASSUME WellFormed(heap), NEW d \in Lists, NEW s \in Lists, Both(d, s), NEW C,
         heap' = CopiedUnique(heap, d, s, C)
  PROVE  WellFormed(heap') /\ Sequences!CopyUnique(d, s, C)
<1>1. PICK c : Chains(heap, c)
  BY DEF WellFormed
<1>2. d # s /\ Live(d) /\ Live(s) /\ heap.rec[d] # NULL /\ heap.rec[s] # NULL
  BY DEF Both, Live
<1>3. /\ WellFormed(heap')
      /\ \E n \in 0..Len(Content(heap)[s]) :
           Content(heap') =
             [Content(heap) EXCEPT ![d] =
                Sequences!ExtendedUnique(Content(heap)[d], Content(heap)[s], C)[n]]
  BY <1>1, <1>2, CopiedUniqueChains
<1>4. \E n \in 0..Len(Content(heap)[s]) :
        Sequences!Set(d, Sequences!ExtendedUnique(Content(heap)[d], Content(heap)[s], C)[n])
  BY <1>3, SetIs
<1>5. {d, s} \subseteq Sequences!Live
  BY <1>2, LiveIs
<1> QED BY <1>2, <1>3, <1>4, <1>5, ContentIs DEF Sequences!CopyUnique

LEMMA StepKeeps ==
  ASSUME WellFormed(heap), Next
  PROVE  WellFormed(heap') /\ (heap' = heap \/ Sequences!Next)
<1>1. CASE \E l \in Lists : InitList(l) \/ FreeList(l)
  <2> PICK l \in Lists : InitList(l) \/ FreeList(l)
    BY <1>1
  <2>1. WellFormed(heap') /\ (Sequences!New(l) \/ Sequences!Free(l))
    BY InitListStep, FreeListStep
  <2> QED BY <2>1 DEF Sequences!Next
<1>2. CASE \E l \in Lists, x \in Members : AddToList(l, x) \/ AddUniqueToList(l, x)
  <2> PICK l \in Lists, x \in Members : AddToList(l, x) \/ AddUniqueToList(l, x)
    BY <1>2
  <2>1. /\ WellFormed(heap')
        /\ heap' = heap \/ Sequences!Add(l, x) \/ Sequences!AddUnique(l, x)
    BY AddToListStep, AddUniqueToListStep
  <2> QED BY <2>1 DEF Sequences!Next
<1>3. CASE \E d, s \in Lists : MoveList(d, s) \/ CopyList(d, s)
  <2> PICK d \in Lists, s \in Lists : MoveList(d, s) \/ CopyList(d, s)
    BY <1>3
  <2>1. WellFormed(heap') /\ (Sequences!Move(d, s) \/ Sequences!Copy(d, s))
    BY MoveListStep, CopyListStep
  <2> QED BY <2>1 DEF Sequences!Next
<1>4. CASE \E d, s \in Lists : CopyListUnique(d, s) \/ MoveListUnique(d, s)
  <2> PICK d \in Lists, s \in Lists : CopyListUnique(d, s) \/ MoveListUnique(d, s)
    BY <1>4
  <2>1. Both(d, s) /\ heap' = CopiedUnique(heap, d, s, Members)
    BY DEF CopyListUnique, MoveListUnique
  <2>2. WellFormed(heap') /\ Sequences!CopyUnique(d, s, Members)
    BY <2>1, CopyUniqueStep
  <2> QED BY <2>2 DEF Sequences!Next
<1>5. CASE \E d, s \in Lists, x \in Members : CopyListUniqueWithException(d, s, x)
  <2> PICK d \in Lists, s \in Lists, x \in Members : CopyListUniqueWithException(d, s, x)
    BY <1>5
  <2>1. Both(d, s) /\ heap' = CopiedUnique(heap, d, s, Members \ {x})
    BY DEF CopyListUniqueWithException
  <2>2. WellFormed(heap') /\ Sequences!CopyUnique(d, s, Members \ {x})
    BY <2>1, CopyUniqueStep
  <2>3. Members \ {x} \in SUBSET Members
    OBVIOUS
  <2> QED BY <2>2, <2>3 DEF Sequences!Next
<1> QED BY <1>1, <1>2, <1>3, <1>4, <1>5 DEF Next

-----------------------------------------------------------------------------
(* What holds between the calls of list.c: every list has its members in a *)
(* chain of its own, counted and numbered, and no element is elsewhere.    *)
THEOREM AlwaysWellFormed == Spec => []WellFormed(heap)
<1>1. Init => WellFormed(heap)
  BY InitChains DEF WellFormed
<1>2. WellFormed(heap) /\ [Next]_heap => WellFormed(heap)'
  BY StepKeeps
<1> QED BY <1>1, <1>2, PTL DEF Spec

(* "List integrity", which list.c expects of its arguments and its         *)
(* functions leave behind: count, tail and ordinals agree with the chain   *)
(* along "next", and every element is in one list.                         *)
THEOREM AlwaysIntegrity == Spec => []Integrity
<1>1. WellFormed(heap) => Integrity
  BY ChainsIntegrity DEF WellFormed
<1> QED BY <1>1, AlwaysWellFormed, PTL

(* The lists of list.c are sequences: whatever the calls, each does to     *)
(* the members what the comment above it says, or memory has run out.      *)
THEOREM PromiseKept == Spec => KeepsPromise
<1>1. Init => Sequences!Init
  BY InitChains, ContentIs DEF Sequences!Init
<1>2. WellFormed(heap) /\ [Next]_heap =>
        [Sequences!Next]_([l \in Lists |-> IF Live(l) THEN MembersOf(heap, l) ELSE NULL])
  <2> SUFFICES ASSUME WellFormed(heap), [Next]_heap
               PROVE  [Sequences!Next]_([l \in Lists |-> IF Live(l) THEN MembersOf(heap, l)
                                                        ELSE NULL])
    OBVIOUS
  <2>1. CASE Next
    <3>1. CASE heap' = heap
      BY <3>1 DEF Live
    <3> QED BY <2>1, <3>1, StepKeeps
  <2>2. CASE heap' = heap
    BY <2>2 DEF Live
  <2> QED BY <2>1, <2>2
<1> QED BY <1>1, <1>2, AlwaysWellFormed, PTL DEF Spec, KeepsPromise, Sequences!Spec
=============================================================================
