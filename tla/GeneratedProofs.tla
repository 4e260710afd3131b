-------------------------- MODULE GeneratedProofs --------------------------
(***************************************************************************)
(* What is proved of generated code that does not run sub-machines: the    *)
(* event enumeration all programs share, and the FSM functions without a   *)
(* loop.                                                                   *)
(*                                                                         *)
(* ENUMERATION, of any description, however many machines and events it    *)
(* has, of up to three levels: the numbers have the layout the generated   *)
(* programs are proved right for, the finders reach every machine, and the *)
(* cross reference counts the same numbers.  The recursive functions over  *)
(* the machines (Level, Above, Counted) are met by showing that a function *)
(* satisfies their equation; what holds of every machine then follows from *)
(* there being no least one it fails for.                                  *)
(*                                                                         *)
(* FUNCTIONS WITHOUT A LOOP, for every machine, any number of threads and  *)
(* every generator, outside the two combinations in which the runs of      *)
(* MCFlatFsm find them wanting.                                            *)
(***************************************************************************)
EXTENDS EventEnum, FlatFsm, WellFoundedInduction, SequenceTheorems, TLAPS

LEMMA Least ==
  ASSUME NEW S \in SUBSET Nat, S # {}
  PROVE  \E n \in S : \A k \in S : n <= k
<1> DEFINE R == OpToRel(<, Nat)
<1>1. R = {p \in Nat \X Nat : p[1] < p[2]}
  BY Zenon DEF OpToRel
<1>2. IsWellFoundedOn(R, Nat)
  BY NatLessThanWellFounded, Zenon
<1> HIDE DEF R
<1>3. PICK n \in S : \A k \in S : ~ (<<k, n>> \in R)
  BY <1>2, WFMin, Zenon
<1>4. \A k \in S : <<k, n>> \in Nat \X Nat
  OBVIOUS
<1>5. \A k \in S : ~(k < n)
  BY <1>1, <1>3, <1>4
<1> QED BY <1>5

-----------------------------------------------------------------------------
(* The description, as Init chooses it.                                    *)
Tree ==
  /\ nm \in Nat \ {0}
  /\ parent \in [1 .. nm - 1 -> 0 .. nm - 1]
  /\ \A c \in 1 .. nm - 1 : parent[c] < c
  /\ \A c \in 2 .. nm - 1 : parent[c] \in Above[c - 1]
  /\ \A m \in Machine : Level[m] <= MaxLevels
  /\ count \in [Machine -> 1 .. MaxEvents]

(* The same without the recursive functions, for three levels: a machine   *)
(* that has sub-machines is the top-level one or one directly below it,    *)
(* and the machine after c is declared in c, or where c is, or in the top. *)
Shape ==
  /\ nm \in Nat \ {0} /\ parent \in [1 .. nm - 1 -> 0 .. nm - 1]
  /\ \A c \in 1 .. nm - 1 : parent[c] \in Nat /\ parent[c] < c
  /\ \A c \in 1 .. nm - 1 : parent[c] # 0 => parent[parent[c]] = 0
  /\ \A c \in 2 .. nm - 1 : parent[c] \in {c - 1, parent[c - 1], 0}
  /\ \A m \in Machine : count[m] \in Nat \ {0}

(* the equation of Level, on the first n machines *)
IsLevel(f, n) ==
  \A m \in 0 .. n - 1 : f[m] = IF m = 0 THEN 1 ELSE 1 + f[parent[m]]

LEMMA LevelExists ==
  ASSUME nm \in Nat \ {0}, \A c \in 1 .. nm - 1 : parent[c] \in Nat /\ parent[c] < c,
         NEW n \in 0 .. nm
  PROVE  \E f \in [0 .. n - 1 -> Nat \ {0}] : IsLevel(f, n)
<1> DEFINE P(k) == \E f \in [0 .. k - 1 -> Nat \ {0}] : IsLevel(f, k)
           S == {k \in 0 .. nm : ~P(k)}
<1>1. P(0)
  <2> DEFINE f == [m \in 0 .. 0 - 1 |-> 1]
  <2>1. f \in [0 .. 0 - 1 -> Nat \ {0}] /\ \A m \in 0 .. 0 - 1 : FALSE
    OBVIOUS
  <2> HIDE DEF f
  <2>2. IsLevel(f, 0)
    BY <2>1 DEF IsLevel
  <2> QED BY <2>1, <2>2
<1>2. ASSUME NEW k \in 0 .. nm - 1, P(k) PROVE P(k + 1)
  <2>1. PICK f \in [0 .. k - 1 -> Nat \ {0}] : IsLevel(f, k)
    BY <1>2
  <2> DEFINE g == [m \in 0 .. k |-> IF m = k THEN IF k = 0 THEN 1 ELSE 1 + f[parent[k]]
                                    ELSE f[m]]
  <2>2. k # 0 => parent[k] \in 0 .. k - 1
    OBVIOUS
  <2>3. g \in [0 .. k -> Nat \ {0}] /\ k = (k + 1) - 1
    BY <2>2
  <2>4. ASSUME NEW m \in 0 .. k PROVE g[m] = IF m = 0 THEN 1 ELSE 1 + g[parent[m]]
    <3>1. m # 0 => parent[m] \in 0 .. k - 1 /\ parent[m] # k /\ parent[m] < m
      OBVIOUS
    <3>2. CASE m = k
      BY <3>1, <3>2
    <3>3. CASE m # k
      <4>1. m \in 0 .. k - 1 /\ g[m] = f[m]
        BY <3>3
      <4>2. f[m] = IF m = 0 THEN 1 ELSE 1 + f[parent[m]]
        BY <2>1, <4>1 DEF IsLevel
      <4>3. m # 0 => g[parent[m]] = f[parent[m]]
        BY <3>1
      <4> QED BY <4>1, <4>2, <4>3
    <3> QED BY <3>2, <3>3
  <2> HIDE DEF g
  <2> QED BY <2>3, <2>4 DEF IsLevel
<1> HIDE DEF P
<1>3. S = {}
  <2> SUFFICES ASSUME S # {} PROVE FALSE
    OBVIOUS
  <2>1. PICK k \in S : \A j \in S : k <= j
    <3>1. S \in SUBSET Nat
      OBVIOUS
    <3> HIDE DEF S
    <3> QED BY <3>1, Least
  <2>2. k # 0 /\ k \in 0 .. nm /\ ~P(k)
    BY <1>1, <2>1
  <2>3. k - 1 \in 0 .. nm - 1 /\ k - 1 \notin S /\ (k - 1) + 1 = k
    BY <2>1, <2>2
  <2>4. P(k - 1)
    BY <2>3
  <2> QED BY <1>2, <2>2, <2>3, <2>4
<1>4. P(n)
  BY <1>3
<1> QED BY <1>4 DEF P

LEMMA LevelIs ==
  ASSUME nm \in Nat \ {0}, \A c \in 1 .. nm - 1 : parent[c] \in Nat /\ parent[c] < c
  PROVE  /\ Level[0] = 1
         /\ \A c \in 1 .. nm - 1 : Level[c] = 1 + Level[parent[c]]
         /\ \A m \in Machine : Level[m] \in Nat \ {0}
<1>1. PICK f \in [0 .. nm - 1 -> Nat \ {0}] : IsLevel(f, nm)
  <2>1. nm \in 0 .. nm
    OBVIOUS
  <2> QED BY <2>1, LevelExists
<1>2. f = [m \in Machine |-> IF m = 0 THEN 1 ELSE 1 + f[parent[m]]]
  BY <1>1 DEF IsLevel, Machine
<1>3. Level = [m \in Machine |-> IF m = 0 THEN 1 ELSE 1 + Level[parent[m]]]
  BY <1>2 DEF Level
<1>4. 0 \in Machine /\ \A c \in 1 .. nm - 1 : c \in Machine /\ c # 0
  BY DEF Machine
<1>5. Level[0] = 1 /\ \A c \in 1 .. nm - 1 : Level[c] = 1 + Level[parent[c]]
  BY <1>3, <1>4
<1> DEFINE S == {m \in Machine : Level[m] \notin Nat \ {0}}
<1>6. S = {}
  <2> SUFFICES ASSUME S # {} PROVE FALSE
    OBVIOUS
  <2>1. PICK m \in S : \A j \in S : m <= j
    <3>1. S \in SUBSET Nat
      BY DEF Machine
    <3> HIDE DEF S
    <3> QED BY <3>1, Least
  <2>2. m \in 1 .. nm - 1 /\ parent[m] \in Machine /\ parent[m] < m
    BY <1>5, <2>1 DEF Machine
  <2>3. parent[m] \notin S
    BY <2>1, <2>2 DEF Machine
  <2>4. Level[parent[m]] \in Nat \ {0} /\ Level[m] = 1 + Level[parent[m]]
    BY <1>5, <2>2, <2>3
  <2> QED BY <2>1, <2>4
<1> QED BY <1>5, <1>6

(* in three levels there are at most two machines above another *)
LEMMA AboveIs ==
  ASSUME nm \in Nat \ {0}, \A c \in 1 .. nm - 1 : parent[c] \in Nat /\ parent[c] < c,
         \A c \in 1 .. nm - 1 : parent[c] # 0 => parent[parent[c]] = 0
  PROVE  Above = [m \in Machine |-> IF m = 0 THEN {0} ELSE {m, parent[m], 0}]
<1> DEFINE g == [m \in Machine |-> IF m = 0 THEN {0} ELSE {m, parent[m], 0}]
<1>0. 0 \in Machine /\ \A m \in Machine : m # 0 => m \in 1 .. nm - 1 /\ parent[m] \in Machine
                                                   /\ parent[m] < m
  BY DEF Machine
<1>1. g = [m \in Machine |-> IF m = 0 THEN {0} ELSE {m} \union g[parent[m]]]
  <2>1. ASSUME NEW m \in Machine, m # 0 PROVE {m, parent[m], 0} = {m} \union g[parent[m]]
    <3>1. CASE parent[m] = 0
      BY <1>0, <2>1, <3>1
    <3>2. CASE parent[m] # 0
      <4>1. parent[parent[m]] = 0
        BY <1>0, <2>1, <3>2
      <4>2. g[parent[m]] = {parent[m], 0}
        BY <1>0, <2>1, <3>2, <4>1
      <4> QED BY <4>2
    <3> QED BY <3>1, <3>2
  <2> QED BY <2>1
<1> HIDE DEF g
<1>2. Above = [m \in Machine |-> IF m = 0 THEN {0} ELSE {m} \union Above[parent[m]]]
  BY <1>1 DEF Above
<1>3. Above[0] = {0}
  BY <1>0, <1>2
<1>4. ASSUME NEW m \in Machine, m # 0 PROVE Above[m] = {m, parent[m], 0}
  <2>1. Above[m] = {m} \union Above[parent[m]]
    BY <1>2, <1>4
  <2>2. CASE parent[m] = 0
    BY <1>3, <2>1, <2>2
  <2>3. CASE parent[m] # 0
    <3>1. Above[parent[m]] = {parent[m]} \union Above[parent[parent[m]]]
      BY <1>0, <1>2, <1>4, <2>3
    <3>2. parent[parent[m]] = 0
      BY <1>0, <1>4, <2>3
    <3> QED BY <1>3, <2>1, <3>1, <3>2
  <2> QED BY <2>2, <2>3
<1> QED BY <1>2, <1>3, <1>4

LEMMA TreeShape == ASSUME Tree, MaxLevels <= 3 PROVE Shape
<1>1. /\ nm \in Nat \ {0} /\ \A c \in 1 .. nm - 1 : parent[c] \in Nat /\ parent[c] < c
      /\ \A m \in Machine : count[m] \in Nat \ {0}
      /\ parent \in [1 .. nm - 1 -> 0 .. nm - 1]
  BY EnumAssumption DEF Tree
<1>2. ASSUME NEW c \in 1 .. nm - 1, parent[c] # 0, parent[parent[c]] # 0 PROVE FALSE
  <2> DEFINE p == parent[c]
             g == parent[p]
  <2>1. p \in 1 .. nm - 1 /\ g \in 1 .. nm - 1 /\ parent[g] \in Machine /\ c \in Machine
    BY <1>1, <1>2 DEF Machine
  <2>2. /\ Level[c] = 1 + Level[p] /\ Level[p] = 1 + Level[g]
        /\ Level[g] = 1 + Level[parent[g]] /\ Level[parent[g]] \in Nat \ {0}
    BY <1>1, <2>1, LevelIs
  <2>3. Level[c] <= MaxLevels /\ MaxLevels \in Nat
    BY <2>1, EnumAssumption DEF Tree
  <2> QED BY <2>2, <2>3
<1>3. \A c \in 1 .. nm - 1 : parent[c] # 0 => parent[parent[c]] = 0
  BY <1>2
<1>4. \A c \in 2 .. nm - 1 : parent[c] \in {c - 1, parent[c - 1], 0}
  <2> TAKE c \in 2 .. nm - 1
  <2>1. c - 1 \in Machine /\ c - 1 # 0 /\ parent[c] \in Above[c - 1]
    BY <1>1 DEF Tree, Machine
  <2> QED BY <1>1, <1>3, <2>1, AboveIs
<1> QED BY <1>1, <1>3, <1>4 DEF Shape

(* The machines declared in c come right after c. *)
LEMMA Contiguous ==
  ASSUME Shape, NEW c \in 1 .. nm - 1, NEW x \in 1 .. nm - 1, parent[x] = c,
         NEW y \in c + 1 .. x
  PROVE  parent[y] = c
<1> SUFFICES ASSUME parent[y] # c PROVE FALSE
  OBVIOUS
<1> DEFINE S == {z \in y .. nm - 1 : parent[z] = c}
<1>0. nm \in Nat \ {0}
  BY DEF Shape
<1>1. x \in S /\ S \in SUBSET Nat
  BY <1>0
<1>2. PICK z \in S : \A w \in S : z <= w
  <2> HIDE DEF S
  <2> QED BY <1>1, Least
<1>3. z # y /\ z \in y .. nm - 1 /\ parent[z] = c
  BY <1>2
<1>4. z - 1 \in y .. nm - 1 /\ z - 1 \notin S /\ z \in 2 .. nm - 1 /\ z - 1 # c
  BY <1>0, <1>2, <1>3
<1>5. parent[z - 1] # c
  BY <1>4
<1>6. parent[z] \in {z - 1, parent[z - 1], 0}
  BY <1>4 DEF Shape
<1> QED BY <1>3, <1>4, <1>5, <1>6
-----------------------------------------------------------------------------
(* The invariant.  The machines are printed in the order they are          *)
(* declared: after k of them the numbers of 0 .. k - 1 follow one another, *)
(* the path is the top-level machine and at most one below it, and what    *)
(* has been printed of a machine that is not on the path ends with the     *)
(* noEvent of its last sub-machine.                                        *)
Gap(m) == IF m = 1 THEN 2 ELSE 1     \* numEvents comes after the top's noEvent

Numbered(k) ==
  /\ done = 0 .. k - 1
  /\ first \in [Machine -> Nat \union {Unset}]
  /\ noEv \in [Machine -> Nat \union {Unset}]
  /\ last \in [Machine -> Nat \union {Unset}]
  /\ next \in Nat
  /\ \A m \in 0 .. k - 1 : first[m] \in Nat /\ noEv[m] = first[m] + count[m]
  /\ \A m \in 1 .. k - 1 : first[m] = noEv[m - 1] + Gap(m)
  /\ k > 0 => first[0] = 0 /\ next = noEv[k - 1] + Gap(k)

AtWork(k) ==
  \/ k = 0 /\ path = <<>> /\ next = 0
  \/ k > 0 /\ path = <<0>>
  \/ k > 0 /\ \E h \in 1 .. k - 1 :
       /\ path = <<0, h>> /\ parent[h] = 0 /\ Children(h) # {}
       /\ \A d \in h + 1 .. k - 1 : parent[d] = h
  \/ k = nm /\ path = <<>> /\ last[0] = IF Children(0) = {} THEN next - 1 ELSE next

Ended(m, k) ==
  IF Children(m) = {} THEN last[m] = noEv[m]
  ELSE \E l \in 0 .. k - 1 : /\ l \in Children(m) /\ last[m] = noEv[l]
                             /\ \A d \in Children(m) : d <= l

AllEnded(k) == \A m \in 1 .. k - 1 : path # <<0, m>> => Ended(m, k)

Step(k) == Numbered(k) /\ AtWork(k) /\ AllEnded(k)
IEnum   == Shape /\ \E k \in 0 .. nm : Step(k)

LEMMA Pairs ==
  ASSUME NEW h \in Nat
  PROVE  Append(<<0>>, h) = <<0, h>> /\ SubSeq(<<0, h>>, 1, 1) = <<0>>
<1>1. <<0>> \in Seq(Nat) /\ <<0, h>> \in Seq(Nat)
  OBVIOUS
<1>2. Append(<<0>>, h) = <<0, h>>
  <2>1. Append(<<0>>, h) \in Seq(Nat) /\ Len(Append(<<0>>, h)) = 2
    BY <1>1
  <2>2. \A i \in 1 .. 2 : Append(<<0>>, h)[i] = <<0, h>>[i]
    BY <1>1
  <2> QED BY <1>1, <2>1, <2>2, SeqEqual
<1>3. SubSeq(<<0, h>>, 1, 1) = <<0>>
  <2> DEFINE t == <<0, h>>
             u == SubSeq(t, 1, 1)
  <2>1. t \in Seq(Nat) /\ t[1] = 0
    OBVIOUS
  <2>2. \A i \in 1 .. 1 : t[i] \in Nat
    BY <2>1
  <2> HIDE DEF t
  <2>3. u \in Seq(Nat) /\ Len(u) = 1 /\ u[1] = t[1]
    BY <2>2, SubSeqProperties
  <2> HIDE DEF u
  <2>4. u = <<0>>
    BY <1>1, <2>1, <2>3, SeqEqual
  <2> QED BY <2>4 DEF t, u
<1> QED BY <1>2, <1>3

LEMMA MachineIs ==
  ASSUME Shape
  PROVE  /\ nm \in Nat \ {0} /\ Machine = 0 .. nm - 1 /\ 0 \in Machine
         /\ \A m \in Machine : m \in Nat /\ (m # 0 => m \in 1 .. nm - 1)
         /\ \A c \in 1 .. nm - 1 : c \in Machine /\ c # 0
         /\ \A m : Children(m) = {c \in 1 .. nm - 1 : parent[c] = m}
         /\ Children(0) = {} => nm = 1
         /\ \A m \in Machine : m # 0 /\ parent[m] # 0 => Children(m) = {}
<1>1. /\ nm \in Nat \ {0} /\ Machine = 0 .. nm - 1 /\ 0 \in Machine
      /\ \A m \in Machine : m \in Nat /\ (m # 0 => m \in 1 .. nm - 1)
      /\ \A c \in 1 .. nm - 1 : c \in Machine /\ c # 0
  BY DEF Shape, Machine
<1>2. Machine \ {0} = 1 .. nm - 1
  BY <1>1
<1>3. \A m : Children(m) = {c \in 1 .. nm - 1 : parent[c] = m}
  BY <1>2 DEF Children
<1>4. nm # 1 => 1 \in Children(0)
  BY <1>1, <1>3 DEF Shape
<1>5. ASSUME NEW m \in Machine, m # 0, parent[m] # 0, NEW c \in Children(m) PROVE FALSE
  <2>1. c \in 1 .. nm - 1 /\ parent[c] = m
    BY <1>3
  <2>2. parent[parent[c]] = 0
    BY <1>5, <2>1 DEF Shape
  <2> QED BY <1>5, <2>1, <2>2
<1> QED BY <1>1, <1>3, <1>4, <1>5

(* The machine whose events are printed next is the next one declared.     *)
LEMMA NextIsNext ==
  ASSUME Shape, NEW k \in 0 .. nm, Step(k), path # <<>>, Pending # {}
  PROVE  k < nm /\ FirstOf(Pending) = k /\ parent[k] = Here /\ k > 0
<1>1. /\ nm \in Nat \ {0} /\ done = 0 .. k - 1 /\ k > 0
      /\ \A m : Children(m) = {c \in 1 .. nm - 1 : parent[c] = m}
  BY MachineIs DEF Step, AtWork, Numbered
<1>2. Pending = {c \in 1 .. nm - 1 : parent[c] = Here /\ c >= k}
  <2>1. \A c \in 1 .. nm - 1 : c \notin done <=> c >= k
    BY <1>1
  <2> QED BY <1>1, <2>1 DEF Pending
<1>3. PICK c \in 1 .. nm - 1 : parent[c] = Here /\ c >= k
  BY <1>2
<1>4. k < nm /\ k \in 1 .. nm - 1
  BY <1>1, <1>3
<1>5. parent[k] = Here
  <2>1. CASE path = <<0>>
    <3>1. Here = 0
      BY <2>1 DEF Here
    <3>2. ASSUME parent[k] # 0 PROVE FALSE
      <4> DEFINE p == parent[k]
      <4>1. p \in 1 .. k - 1 /\ path # <<0, p>>
        BY <1>4, <2>1, <3>2 DEF Shape
      <4>2. Ended(p, k) /\ k \in Children(p)
        BY <1>1, <1>4, <4>1 DEF Step, AllEnded
      <4>3. PICK l \in 0 .. k - 1 : \A d \in Children(p) : d <= l
        BY <4>2 DEF Ended
      <4> QED BY <4>2, <4>3
    <3> QED BY <3>1, <3>2
  <2>2. CASE \E h \in 1 .. k - 1 : path = <<0, h>>
    <3>1. PICK h \in 1 .. k - 1 : path = <<0, h>>
      BY <2>2
    <3>2. Here = h
      BY <3>1 DEF Here
    <3>3. k \in Nat /\ c \in Nat /\ h \in Nat /\ h <= k - 1 /\ 1 <= h /\ k <= c /\ k < nm
          /\ nm \in Nat
      BY <1>1, <1>3, <1>4, <3>1
    <3>4. k \in h + 1 .. c /\ h \in 1 .. nm - 1 /\ parent[c] = h
      BY <1>3, <3>2, <3>3
    <3> QED BY <1>3, <3>2, <3>4, Contiguous
  <2> QED BY <1>1, <2>1, <2>2 DEF Step, AtWork
<1>6. k \in Pending /\ \A d \in Pending : k <= d /\ d \in Nat
  BY <1>1, <1>2, <1>4, <1>5
<1>7. FirstOf(Pending) = k
  <2>1. \A d \in Pending : (\A e \in Pending : d <= e) => d = k
    BY <1>1, <1>6
  <2> QED BY <1>6, <2>1 DEF FirstOf
<1> QED BY <1>1, <1>4, <1>5, <1>7

LEMMA InitEnum == ASSUME Init, MaxLevels <= 3 PROVE IEnum
<1>1. Tree
  BY DEF Init, Tree
<1>2. Shape
  BY <1>1, TreeShape
<1>3. Step(0)
  BY DEF Init, Step, Numbered, AtWork, AllEnded, Unset
<1>4. 0 \in 0 .. nm
  BY <1>2 DEF Shape
<1> QED BY <1>2, <1>3, <1>4 DEF IEnum

LEMMA TopEnum ==
  ASSUME Shape, NEW k \in 0 .. nm, Step(k), PrintTop PROVE Shape' /\ Step(1)' /\ 1 \in 0 .. nm
<1>1. /\ k = 0 /\ path = <<>> /\ next = 0 /\ nm \in Nat \ {0} /\ 0 \in Machine
      /\ count[0] \in Nat \ {0}
  <2>1. k = 0
    <3>1. nm \in Nat /\ k \in Nat
      BY DEF Shape
    <3>2. done = {} /\ done = 0 .. k - 1
      BY DEF PrintTop, Step, Numbered
    <3>3. k > 0 => 0 \in done
      BY <3>1, <3>2
    <3> QED BY <3>1, <3>2, <3>3
  <2> QED BY <2>1, MachineIs DEF Step, AtWork, Shape
<1>2. /\ nm' = nm /\ parent' = parent /\ count' = count /\ path' = <<0>>
      /\ done' = done \union {0} /\ first' = [first EXCEPT ![0] = next]
      /\ noEv' = [noEv EXCEPT ![0] = next + count[0]]
      /\ last' = [last EXCEPT ![0] = IF Children(0) = {} THEN noEv'[0] ELSE @]
      /\ next' = noEv'[0] + 2
  BY DEF PrintTop, PrintEvents, tree
<1>3. Shape'
  BY <1>2 DEF Shape, Machine
<1>4. /\ first' \in [Machine -> Nat \union {Unset}] /\ first'[0] = 0
      /\ noEv' \in [Machine -> Nat \union {Unset}] /\ noEv'[0] = count[0]
      /\ last' \in [Machine -> Nat \union {Unset}]
  BY <1>1, <1>2 DEF Step, Numbered
<1>5. Numbered(1)'
  BY <1>1, <1>2, <1>4 DEF Step, Numbered, Gap, Machine
<1>6. AtWork(1)' /\ AllEnded(1)'
  BY <1>2 DEF AtWork, AllEnded
<1> QED BY <1>1, <1>3, <1>5, <1>6 DEF Step

LEMMA SubEnum ==
  ASSUME Shape, NEW k \in 0 .. nm, Step(k), PrintSubMachine
  PROVE  Shape' /\ Step(k + 1)' /\ k + 1 \in 0 .. nm
<1>1. /\ nm \in Nat \ {0} /\ Machine = 0 .. nm - 1 /\ k \in 1 .. nm - 1 /\ k \in Machine
      /\ parent[k] = Here /\ FirstOf(Pending) = k /\ k + 1 \in 0 .. nm /\ (k + 1) - 1 = k
      /\ count[k] \in Nat \ {0} /\ next \in Nat /\ k + 1 > 0 /\ k + 1 # 1 /\ k # 0
      /\ next = noEv[k - 1] + Gap(k)
  <2>1. k < nm /\ FirstOf(Pending) = k /\ parent[k] = Here /\ k > 0
    BY NextIsNext DEF PrintSubMachine
  <2>2. nm \in Nat \ {0} /\ Machine = 0 .. nm - 1 /\ k \in 1 .. nm - 1 /\ k \in Machine
    BY <2>1, MachineIs
  <2>3. count[k] \in Nat \ {0}
    BY <2>2 DEF Shape
  <2>4. next \in Nat /\ next = noEv[k - 1] + Gap(k)
    BY <2>1 DEF Step, Numbered
  <2> QED BY <2>1, <2>2, <2>3, <2>4
<1>2. /\ nm' = nm /\ parent' = parent /\ count' = count
      /\ path' = (IF Children(k) = {} THEN path ELSE Append(path, k))
      /\ done' = done \union {k} /\ first' = [first EXCEPT ![k] = next]
      /\ noEv' = [noEv EXCEPT ![k] = next + count[k]]
      /\ last' = [last EXCEPT ![k] = IF Children(k) = {} THEN noEv'[k] ELSE @]
      /\ next' = noEv'[k] + 1
  BY <1>1 DEF PrintSubMachine, PrintEvents, tree
<1>3. Shape' /\ Machine' = Machine /\ \A m : Children(m)' = Children(m)
  BY <1>2 DEF Shape, Machine, Children
<1>4. /\ first' \in [Machine -> Nat \union {Unset}] /\ first'[k] = next
      /\ noEv' \in [Machine -> Nat \union {Unset}] /\ noEv'[k] = next + count[k]
      /\ last' \in [Machine -> Nat \union {Unset}]
      /\ Children(k) = {} => last'[k] = noEv'[k]
      /\ \A m \in 0 .. k - 1 : /\ first'[m] = first[m] /\ noEv'[m] = noEv[m]
                               /\ last'[m] = last[m]
      /\ \A m \in 0 .. k : m = k \/ m \in 0 .. k - 1
      /\ \A m \in 1 .. k : m - 1 \in 0 .. k - 1 /\ (m = k \/ m \in 1 .. k - 1)
  <2>1. /\ first \in [Machine -> Nat \union {Unset}]
        /\ noEv \in [Machine -> Nat \union {Unset}]
        /\ last \in [Machine -> Nat \union {Unset}]
    BY DEF Step, Numbered
  <2>2. \A m \in 0 .. k - 1 : m \in Machine /\ m # k
    BY <1>1
  <2>3. next + count[k] \in Nat
    BY <1>1
  <2>4. noEv' \in [Machine -> Nat \union {Unset}] /\ noEv'[k] = next + count[k]
    BY <1>1, <1>2, <2>1, <2>3
  <2> QED BY <1>1, <1>2, <2>1, <2>2, <2>3, <2>4
<1>5. Numbered(k + 1)'
  <2>1. done' = 0 .. k
    BY <1>1, <1>2 DEF Step, Numbered
  <2>2. \A m \in 0 .. k : first'[m] \in Nat /\ noEv'[m] = first'[m] + count[m]
    BY <1>1, <1>4 DEF Step, Numbered
  <2>3. ASSUME NEW m \in 1 .. k PROVE first'[m] = noEv'[m - 1] + Gap(m)
    <3>1. CASE m = k
      BY <1>1, <1>4, <3>1
    <3>2. CASE m \in 1 .. k - 1
      <4>1. first[m] = noEv[m - 1] + Gap(m) /\ first'[m] = first[m]
        BY <1>4, <3>2 DEF Step, Numbered
      <4> QED BY <1>4, <4>1
    <3> QED BY <1>4, <3>1, <3>2
  <2>4. next' \in Nat /\ next' = noEv'[k] + Gap(k + 1)
    BY <1>1, <1>2, <1>4 DEF Gap
  <2>5. first'[0] = 0
    BY <1>1, <1>4 DEF Step, Numbered
  <2>6. /\ done' = 0 .. (k + 1) - 1
        /\ \A m \in 0 .. (k + 1) - 1 : first'[m] \in Nat /\ noEv'[m] = first'[m] + count'[m]
        /\ \A m \in 1 .. (k + 1) - 1 : first'[m] = noEv'[m - 1] + Gap(m)
        /\ first'[0] = 0 /\ next' = noEv'[(k + 1) - 1] + Gap(k + 1)
    BY <1>1, <1>2, <2>1, <2>2, <2>3, <2>4, <2>5
  <2>7. ASSUME NEW j \in Nat, j = k + 1 PROVE Numbered(j)'
    <3>1. /\ done' = 0 .. j - 1 /\ Machine' = Machine
          /\ \A m \in 0 .. j - 1 : first'[m] \in Nat /\ noEv'[m] = first'[m] + count'[m]
          /\ \A m \in 1 .. j - 1 : first'[m] = noEv'[m - 1] + Gap(m)
          /\ first'[0] = 0 /\ next' = noEv'[j - 1] + Gap(j)
      BY <1>3, <2>6, <2>7
    <3> QED BY <1>4, <2>4, <3>1 DEF Numbered, Gap, Unset
  <2> QED BY <1>1, <2>7
<1>6. \/ path = <<0>> /\ parent[k] = 0
      \/ \E h \in 1 .. k - 1 :
           /\ path = <<0, h>> /\ parent[h] = 0 /\ Children(h) # {} /\ parent[k] = h
           /\ \A d \in h + 1 .. k - 1 : parent[d] = h
  <2>1. path # <<>>
    BY DEF PrintSubMachine
  <2>2. path = <<0>> => Here = 0
    BY DEF Here
  <2>3. \A h : path = <<0, h>> => Here = h
    BY DEF Here
  <2> QED BY <1>1, <2>1, <2>2, <2>3 DEF Step, AtWork
<1>7. CASE path = <<0>> /\ parent[k] = 0
  <2>1. CASE Children(k) = {}
    <3>1. path' = <<0>>
      BY <1>2, <1>7, <2>1
    <3>2. AtWork(k + 1)'
      BY <1>1, <3>1 DEF AtWork
    <3>3. ASSUME NEW m \in 1 .. k PROVE Ended(m, k + 1)'
      <4>1. CASE m = k
        <5>1. Children(m) = {} /\ last'[m] = noEv'[m]
          BY <1>4, <2>1, <4>1
        <5> QED BY <1>3, <5>1 DEF Ended
      <4>2. CASE m \in 1 .. k - 1
        <5>1. Ended(m, k)
          BY <1>7, <4>2 DEF Step, AllEnded
        <5>2. 0 .. k - 1 \subseteq 0 .. (k + 1) - 1 /\ m \in 0 .. k - 1
          BY <4>2
        <5> QED BY <1>3, <1>4, <5>1, <5>2 DEF Ended
      <4> QED BY <1>4, <4>1, <4>2
    <3> QED BY <1>1, <1>3, <1>5, <3>2, <3>3 DEF Step, AllEnded
  <2>2. CASE Children(k) # {}
    <3>1. path' = <<0, k>>
      <4>1. path' = Append(path, k) /\ path = <<0>>
        BY <1>2, <1>7, <2>2
      <4> QED BY <4>1, Pairs
    <3>2. AtWork(k + 1)'
      <4>1. \A d \in k + 1 .. (k + 1) - 1 : parent'[d] = k
        BY <1>1
      <4>2. k \in 1 .. (k + 1) - 1 /\ parent'[k] = 0 /\ Children(k)' # {}
        BY <1>1, <1>2, <1>3, <1>7, <2>2
      <4> QED BY <1>1, <3>1, <4>1, <4>2 DEF AtWork
    <3>3. ASSUME NEW m \in 1 .. k, path' # <<0, m>> PROVE Ended(m, k + 1)'
      <4>1. m \in 1 .. k - 1
        BY <1>4, <3>1, <3>3
      <4>2. Ended(m, k)
        BY <1>7, <4>1 DEF Step, AllEnded
      <4>3. 0 .. k - 1 \subseteq 0 .. (k + 1) - 1 /\ m \in 0 .. k - 1
        BY <4>1
      <4> QED BY <1>3, <1>4, <4>2, <4>3 DEF Ended
    <3> QED BY <1>1, <1>3, <1>5, <3>2, <3>3 DEF Step, AllEnded
  <2> QED BY <2>1, <2>2
<1>8. CASE \E h \in 1 .. k - 1 :
             /\ path = <<0, h>> /\ parent[h] = 0 /\ Children(h) # {} /\ parent[k] = h
             /\ \A d \in h + 1 .. k - 1 : parent[d] = h
  <2>1. PICK h \in 1 .. k - 1 :
             /\ path = <<0, h>> /\ parent[h] = 0 /\ Children(h) # {} /\ parent[k] = h
             /\ \A d \in h + 1 .. k - 1 : parent[d] = h
    BY <1>8
  <2>2. Children(k) = {}
    BY <1>1, <2>1, MachineIs
  <2>3. path' = <<0, h>>
    BY <1>2, <2>1, <2>2
  <2>4. AtWork(k + 1)'
    <3>1. \A d \in h + 1 .. (k + 1) - 1 : parent'[d] = h
      BY <1>1, <1>2, <2>1
    <3>2. h \in 1 .. (k + 1) - 1 /\ parent'[h] = 0 /\ Children(h)' # {}
      BY <1>1, <1>2, <1>3, <2>1
    <3> QED BY <1>1, <2>3, <3>1, <3>2 DEF AtWork
  <2>5. ASSUME NEW m \in 1 .. k, path' # <<0, m>> PROVE Ended(m, k + 1)'
    <3>1. CASE m = k
      <4>1. Children(m) = {} /\ last'[m] = noEv'[m]
        BY <1>4, <2>2, <3>1
      <4> QED BY <1>3, <4>1 DEF Ended
    <3>2. CASE m \in 1 .. k - 1
      <4>1. Ended(m, k)
        BY <2>1, <2>3, <2>5, <3>2 DEF Step, AllEnded
      <4>2. 0 .. k - 1 \subseteq 0 .. (k + 1) - 1 /\ m \in 0 .. k - 1
        BY <3>2
      <4> QED BY <1>3, <1>4, <4>1, <4>2 DEF Ended
    <3> QED BY <1>4, <3>1, <3>2
  <2> QED BY <1>1, <1>3, <1>5, <2>4, <2>5 DEF Step, AllEnded
<1> QED BY <1>6, <1>7, <1>8

LEMMA LastEnum ==
  ASSUME Shape, NEW k \in 0 .. nm, Step(k), PrintLastEvent PROVE Shape' /\ Step(k)'
<1>1. /\ nm \in Nat \ {0} /\ Machine = 0 .. nm - 1 /\ path # <<>> /\ Pending = {} /\ Here # 0
      /\ \A m : Children(m) = {c \in 1 .. nm - 1 : parent[c] = m}
  BY MachineIs DEF PrintLastEvent
<1>2. PICK h \in 1 .. k - 1 : /\ path = <<0, h>> /\ parent[h] = 0 /\ Children(h) # {}
                              /\ \A d \in h + 1 .. k - 1 : parent[d] = h
  <2>1. path = <<0>> => Here = 0
    BY DEF Here
  <2> QED BY <1>1, <2>1 DEF Step, AtWork
<1>3. Here = h /\ h \in Machine /\ k \in 1 .. nm
  BY <1>1, <1>2 DEF Here
<1>4. \A d \in Children(h) : d \in h + 1 .. k - 1
  <2> TAKE d \in Children(h)
  <2>1. d \in 1 .. nm - 1 /\ parent[d] = h /\ h < d
    BY <1>1 DEF Shape
  <2>2. d \in done
    BY <1>1, <1>3 DEF Pending
  <2> QED BY <1>2, <2>1, <2>2 DEF Step, Numbered
<1>5. k - 1 \in Children(h) /\ k - 1 \in h + 1 .. k - 1 /\ k # 1
  <2>1. k - 1 \in h + 1 .. k - 1
    BY <1>2, <1>4
  <2> QED BY <1>1, <1>2, <1>3, <2>1
<1>6. LastOf(Children(h)) = k - 1
  <2>1. \A d \in Children(h) : (\A e \in Children(h) : e <= d) => d = k - 1
    BY <1>4, <1>5
  <2>2. \A e \in Children(h) : e <= k - 1
    BY <1>4
  <2> QED BY <1>5, <2>1, <2>2 DEF LastOf
<1>7. /\ nm' = nm /\ parent' = parent /\ count' = count /\ done' = done
      /\ first' = first /\ noEv' = noEv
      /\ last' = [last EXCEPT ![h] = noEv[k - 1]]
      /\ next' = last'[h] + 1
      /\ path' = SubSeq(path, 1, Len(path) - 1)
  BY <1>3, <1>6 DEF PrintLastEvent, tree
<1>8. path' = <<0>>
  <2>1. path' = SubSeq(<<0, h>>, 1, 1)
    BY <1>2, <1>7
  <2> QED BY <2>1, Pairs
<1>9. Shape' /\ Machine' = Machine /\ \A m : Children(m)' = Children(m)
  BY <1>7 DEF Shape, Machine, Children
<1>10. /\ k - 1 \in 0 .. k - 1 /\ noEv[k - 1] \in Nat /\ last \in [Machine -> Nat \union {Unset}]
       /\ next = noEv[k - 1] + 1
  <2>1. k - 1 \in 0 .. k - 1 /\ k - 1 \in Machine
    BY <1>1, <1>3
  <2>2. first[k - 1] \in Nat /\ noEv[k - 1] = first[k - 1] + count[k - 1]
    BY <2>1 DEF Step, Numbered
  <2>3. count[k - 1] \in Nat
    BY <2>1 DEF Shape
  <2>4. noEv[k - 1] \in Nat
    BY <2>2, <2>3
  <2>5. last \in [Machine -> Nat \union {Unset}] /\ k > 0
    BY <1>3, <1>5 DEF Step, Numbered
  <2>6. k # 1
    BY <1>1, <1>3
  <2>7. next = noEv[k - 1] + 1
    BY <2>5, <2>6, <1>3 DEF Step, Numbered, Gap
  <2> QED BY <2>1, <2>4, <2>5, <2>7
<1>11. /\ last' \in [Machine -> Nat \union {Unset}] /\ last'[h] = noEv[k - 1] /\ next' = next
       /\ \A m \in Machine : m # h => last'[m] = last[m]
  BY <1>3, <1>7, <1>10
<1>12. Numbered(k)'
  BY <1>7, <1>9, <1>11 DEF Step, Numbered, Gap, Unset
<1>13. AtWork(k)'
  BY <1>3, <1>8 DEF AtWork
<1>14. ASSUME NEW m \in 1 .. k - 1 PROVE Ended(m, k)'
  <2>1. CASE m = h
    <3>1. \A d \in Children(h) : d <= k - 1
      BY <1>4
    <3> QED BY <1>5, <1>7, <1>9, <1>10, <1>11, <2>1, <3>1 DEF Ended
  <2>2. CASE m # h
    <3>1. path # <<0, m>> /\ m \in Machine
      BY <1>1, <1>2, <1>3, <2>2
    <3>2. Ended(m, k)
      BY <3>1 DEF Step, AllEnded
    <3> QED BY <1>7, <1>9, <1>11, <2>2, <3>1, <3>2 DEF Ended
  <2> QED BY <2>1, <2>2
<1> QED BY <1>9, <1>12, <1>13, <1>14 DEF Step, AllEnded

LEMMA AllEnum ==
  ASSUME Shape, NEW k \in 0 .. nm, Step(k), PrintNumAllEvents PROVE Shape' /\ Step(k)'
<1>1. /\ nm \in Nat \ {0} /\ Machine = 0 .. nm - 1 /\ path = <<0>> /\ Pending = {}
      /\ \A m : Children(m) = {c \in 1 .. nm - 1 : parent[c] = m} /\ 0 \in Machine
      /\ Here = 0 /\ k > 0
  <2>1. path # <<>>
    BY DEF PrintNumAllEvents
  <2> QED BY <2>1, MachineIs DEF PrintNumAllEvents, Here, Step, AtWork
<1>2. k = nm
  <2> SUFFICES ASSUME k # nm PROVE FALSE
    OBVIOUS
  <2>1. k \in 1 .. nm - 1 /\ k \notin done
    BY <1>1 DEF Step, Numbered
  <2>2. parent[k] # 0
    BY <1>1, <2>1 DEF Pending
  <2> DEFINE p == parent[k]
  <2>3. p \in 1 .. k - 1 /\ path # <<0, p>>
    BY <1>1, <2>1, <2>2 DEF Shape
  <2>4. Ended(p, k) /\ k \in Children(p)
    BY <1>1, <2>1, <2>3 DEF Step, AllEnded
  <2>5. PICK l \in 0 .. k - 1 : \A d \in Children(p) : d <= l
    BY <2>4 DEF Ended
  <2> QED BY <2>4, <2>5
<1>3. /\ nm' = nm /\ parent' = parent /\ count' = count /\ done' = done /\ next' = next
      /\ first' = first /\ noEv' = noEv /\ path' = <<>>
      /\ last' = [last EXCEPT ![0] = IF Children(0) = {} THEN next - 1 ELSE next]
  BY DEF PrintNumAllEvents, tree
<1>4. Shape' /\ Machine' = Machine /\ \A m : Children(m)' = Children(m)
  BY <1>3 DEF Shape, Machine, Children
<1>5. next - 1 \in Nat /\ next \in Nat /\ last \in [Machine -> Nat \union {Unset}]
  <2>1. first[k - 1] \in Nat /\ noEv[k - 1] = first[k - 1] + count[k - 1] /\ count[k - 1] \in Nat
        /\ next = noEv[k - 1] + Gap(k)
    BY <1>1, <1>2 DEF Step, Numbered, Shape
  <2> QED BY <2>1 DEF Gap, Step, Numbered
<1>6. /\ last' \in [Machine -> Nat \union {Unset}]
      /\ last'[0] = (IF Children(0) = {} THEN next - 1 ELSE next)
      /\ \A m \in Machine : m # 0 => last'[m] = last[m]
  BY <1>1, <1>3, <1>5
<1>7. Numbered(k)'
  BY <1>3, <1>4, <1>6 DEF Step, Numbered, Gap, Unset
<1>8. AtWork(k)'
  BY <1>2, <1>3, <1>4, <1>6 DEF AtWork
<1>9. ASSUME NEW m \in 1 .. k - 1 PROVE Ended(m, k)'
  <2>1. m \in Machine /\ m # 0 /\ path # <<0, m>>
    BY <1>1, <1>2
  <2>2. Ended(m, k)
    BY <2>1 DEF Step, AllEnded
  <2> QED BY <1>3, <1>4, <1>6, <2>1, <2>2 DEF Ended
<1> QED BY <1>4, <1>7, <1>8, <1>9 DEF Step, AllEnded

LEMMA NextEnum == ASSUME IEnum, [Next]_vars PROVE IEnum'
<1>1. PICK k \in 0 .. nm : Step(k)
  BY DEF IEnum
<1>2. Shape
  BY DEF IEnum
<1>3. CASE PrintTop
  <2>1. nm' = nm
    BY <1>3 DEF PrintTop, tree
  <2> QED BY <1>1, <1>2, <1>3, <2>1, TopEnum DEF IEnum
<1>4. CASE PrintSubMachine
  <2>1. nm' = nm
    BY <1>4 DEF PrintSubMachine, tree
  <2> QED BY <1>1, <1>2, <1>4, <2>1, SubEnum DEF IEnum
<1>5. CASE PrintLastEvent
  <2>1. nm' = nm
    BY <1>5 DEF PrintLastEvent, tree
  <2> QED BY <1>1, <1>2, <1>5, <2>1, LastEnum DEF IEnum
<1>6. CASE PrintNumAllEvents
  <2>1. nm' = nm
    BY <1>6 DEF PrintNumAllEvents, tree
  <2> QED BY <1>1, <1>2, <1>6, <2>1, AllEnum DEF IEnum
<1>7. CASE UNCHANGED vars
  <2>1. /\ nm' = nm /\ parent' = parent /\ count' = count /\ next' = next /\ path' = path
        /\ done' = done /\ first' = first /\ noEv' = noEv /\ last' = last
    BY <1>7 DEF vars
  <2>2. Shape' /\ Machine' = Machine /\ \A m : Children(m)' = Children(m)
    BY <1>2, <2>1 DEF Shape, Machine, Children
  <2>3. Numbered(k)' /\ AtWork(k)'
    BY <1>1, <2>1, <2>2 DEF Step, Numbered, AtWork
  <2>4. AllEnded(k)'
    BY <1>1, <2>1, <2>2 DEF Step, AllEnded, Ended
  <2> QED BY <2>1, <2>2, <2>3, <2>4 DEF IEnum, Step
<1> QED BY <1>3, <1>4, <1>5, <1>6, <1>7 DEF Next

THEOREM EnumInvariant == ASSUME MaxLevels <= 3 PROVE Spec => []IEnum
<1>1. Init => IEnum
  BY InitEnum
<1>2. IEnum /\ [Next]_vars => IEnum'
  BY NextEnum
<1> QED BY <1>1, <1>2, PTL DEF Spec

-----------------------------------------------------------------------------
(* What follows from it at any time: numbers go up from one machine to the *)
(* next.                                                                   *)
LEMMA Ordering ==
  ASSUME Shape, NEW k \in 0 .. nm, Numbered(k), NEW i \in 0 .. k - 1, NEW j \in i + 1 .. k - 1
  PROVE  noEv[i] < first[j]
<1> DEFINE S == {x \in i + 1 .. k - 1 : ~(noEv[i] < first[x])}
<1>0. /\ nm \in Nat \ {0} /\ i \in Nat /\ k \in Nat
      /\ \A m \in 0 .. k - 1 : count[m] \in Nat \ {0} /\ first[m] \in Nat /\ noEv[m] \in Nat
                               /\ noEv[m] = first[m] + count[m]
  <2>1. nm \in Nat \ {0} /\ i \in Nat /\ k \in Nat /\ k <= nm
    BY DEF Shape
  <2>2. ASSUME NEW m \in 0 .. k - 1
        PROVE  /\ count[m] \in Nat \ {0} /\ first[m] \in Nat /\ noEv[m] \in Nat
               /\ noEv[m] = first[m] + count[m]
    <3>1. m \in Machine
      BY <2>1 DEF Machine
    <3>2. count[m] \in Nat \ {0}
      BY <3>1 DEF Shape
    <3>3. first[m] \in Nat /\ noEv[m] = first[m] + count[m]
      BY <3>1 DEF Numbered
    <3> QED BY <3>2, <3>3
  <2> QED BY <2>1, <2>2
<1>1. \A m \in 1 .. k - 1 : noEv[m - 1] < first[m]
  <2> TAKE m \in 1 .. k - 1
  <2>1. m - 1 \in 0 .. k - 1 /\ m \in 0 .. k - 1
    BY <1>0
  <2>2. first[m] = noEv[m - 1] + Gap(m) /\ noEv[m - 1] \in Nat
    BY <1>0, <2>1 DEF Numbered
  <2> QED BY <2>2 DEF Gap
<1>2. S = {}
  <2> SUFFICES ASSUME S # {} PROVE FALSE
    OBVIOUS
  <2>1. PICK x \in S : \A y \in S : x <= y
    <3>1. S \in SUBSET Nat
      BY <1>0
    <3> HIDE DEF S
    <3> QED BY <3>1, Least
  <2>2. x \in 1 .. k - 1 /\ i < x /\ x - 1 \in 0 .. k - 1 /\ ~(noEv[i] < first[x])
    BY <1>0, <2>1
  <2>3. noEv[x - 1] < first[x]
    BY <1>1, <2>2
  <2>4. x - 1 # i /\ x - 1 \in i + 1 .. k - 1
    BY <1>0, <2>2, <2>3
  <2>5. noEv[i] < first[x - 1]
    BY <1>0, <2>1, <2>4
  <2> QED BY <1>0, <2>2, <2>3, <2>5
<1> QED BY <1>2

LEMMA EnumTyped == ASSUME IEnum PROVE TypeOK
<1>1. PICK k \in 0 .. nm : Step(k)
  BY DEF IEnum
<1>2. Shape /\ nm \in Nat \ {0} /\ Machine = 0 .. nm - 1 /\ 0 \in Machine
  BY MachineIs DEF IEnum
<1>3. path \in Seq(Machine)
  <2>1. \A h \in 1 .. k - 1 : h \in Machine
    BY <1>2
  <2>2. <<>> \in Seq(Machine) /\ <<0>> \in Seq(Machine)
        /\ \A h \in Machine : <<0, h>> \in Seq(Machine)
    BY <1>2
  <2> QED BY <1>1, <2>1, <2>2 DEF Step, AtWork
<1>4. done \subseteq Machine
  BY <1>1, <1>2 DEF Step, Numbered
<1> QED BY <1>1, <1>3, <1>4 DEF Step, Numbered, TypeOK

(* When all is printed. *)
LastIs(m) ==
  IF Children(m) = {} THEN last[m] = noEv[m]
  ELSE \E l \in Children(m) : last[m] = noEv[l] /\ \A d \in Children(m) : d <= l

LEMMA WhenPrinted ==
  ASSUME IEnum, Printed
  PROVE  /\ Shape
         /\ first \in [Machine -> Nat] /\ noEv \in [Machine -> Nat]
         /\ \A m \in Machine : noEv[m] = first[m] + count[m]
         /\ \A m \in 1 .. nm - 1 : first[m] = noEv[m - 1] + Gap(m)
         /\ \A i, j \in Machine : i < j => noEv[i] < first[j]
         /\ first[0] = 0 /\ last[0] = noEv[nm - 1] + 1
         /\ last \in [Machine -> Nat \union {Unset}]
         /\ \A m \in 1 .. nm - 1 : LastIs(m)
<1>1. PICK k \in 0 .. nm : Step(k)
  BY DEF IEnum
<1>2. /\ Shape /\ nm \in Nat \ {0} /\ Machine = 0 .. nm - 1 /\ 0 \in Machine
      /\ Children(0) = {} => nm = 1
      /\ \A c \in 1 .. nm - 1 : c \in Machine
      /\ \A m : Children(m) = {c \in 1 .. nm - 1 : parent[c] = m}
  BY MachineIs DEF IEnum
<1>3. k = nm /\ path = <<>>
  <2>1. 0 .. k - 1 = 0 .. nm - 1 /\ path = <<>>
    BY <1>1, <1>2 DEF Printed, Step, Numbered
  <2>2. nm - 1 \in 0 .. nm - 1 /\ nm \in Nat /\ k \in Nat /\ k <= nm
    BY <1>2
  <2>3. nm - 1 \in 0 .. k - 1
    BY <2>1, <2>2
  <2> QED BY <2>1, <2>2, <2>3
<1>4. /\ first \in [Machine -> Nat \union {Unset}] /\ noEv \in [Machine -> Nat \union {Unset}]
      /\ last \in [Machine -> Nat \union {Unset}] /\ first[0] = 0 /\ next = noEv[nm - 1] + Gap(nm)
      /\ \A m \in Machine : first[m] \in Nat /\ noEv[m] = first[m] + count[m]
                            /\ count[m] \in Nat /\ noEv[m] \in Nat
      /\ \A m \in 1 .. nm - 1 : first[m] = noEv[m - 1] + Gap(m)
  BY <1>1, <1>2, <1>3 DEF Step, Numbered, Shape
<1>5. last[0] = noEv[nm - 1] + 1
  <2>1. last[0] = IF Children(0) = {} THEN next - 1 ELSE next
    BY <1>1, <1>2, <1>3 DEF Step, AtWork
  <2>2. nm = 1 => Children(0) = {}
    BY <1>2
  <2>3. nm - 1 \in Machine
    BY <1>2
  <2> QED BY <1>2, <1>4, <2>1, <2>2, <2>3 DEF Gap
<1>6. ASSUME NEW i \in Machine, NEW j \in Machine, i < j PROVE noEv[i] < first[j]
  <2>1. i \in 0 .. k - 1 /\ j \in i + 1 .. k - 1
    BY <1>2, <1>3, <1>6
  <2> QED BY <1>1, <1>2, <2>1, Ordering DEF Step
<1>7. ASSUME NEW m \in 1 .. nm - 1 PROVE LastIs(m)
  <2>1. Ended(m, k)
    BY <1>1, <1>3, <1>7 DEF Step, AllEnded
  <2> QED BY <2>1 DEF Ended, LastIs
<1>8. first \in [Machine -> Nat] /\ noEv \in [Machine -> Nat]
  BY <1>4
<1> QED BY <1>2, <1>4, <1>5, <1>6, <1>7, <1>8

LEMMA EnumDistinct == ASSUME IEnum PROVE NumbersDistinct
<1>1. PICK k \in 0 .. nm : Step(k)
  BY DEF IEnum
<1>2. Shape /\ nm \in Nat \ {0} /\ Machine = 0 .. nm - 1 /\ done = 0 .. k - 1
  BY <1>1, MachineIs DEF IEnum, Step, Numbered
<1>3. \A m \in done : first[m] \in Nat /\ noEv[m] \in Nat
  <2> TAKE m \in done
  <2>1. m \in 0 .. k - 1 /\ m \in Machine
    BY <1>2
  <2>2. first[m] \in Nat /\ noEv[m] = first[m] + count[m] /\ count[m] \in Nat
    BY <1>1, <1>2, <2>1 DEF Step, Numbered, Shape
  <2> QED BY <2>2
<1>4. ASSUME NEW c \in done, NEW d \in done, c < d PROVE Own(c) \intersect Own(d) = {}
  <2>1. c \in 0 .. k - 1 /\ d \in c + 1 .. k - 1
    BY <1>2, <1>4
  <2>2. noEv[c] < first[d]
    BY <1>1, <1>2, <2>1, Ordering DEF Step
  <2> QED BY <1>3, <2>2 DEF Own
<1>5. \A c, d \in done : c # d => c < d \/ d < c
  BY <1>2
<1>6. ASSUME Printed, NEW m \in Machine PROVE noEv[m] < last[0]
  <2>1. /\ \A i, j \in Machine : i < j => noEv[i] < first[j]
        /\ last[0] = noEv[nm - 1] + 1 /\ noEv \in [Machine -> Nat]
        /\ first \in [Machine -> Nat] /\ \A i \in Machine : noEv[i] = first[i] + count[i]
    BY <1>6, WhenPrinted
  <2>2. nm - 1 \in Machine /\ (m = nm - 1 \/ m < nm - 1) /\ count[nm - 1] \in Nat
    BY <1>2 DEF Shape
  <2>3. CASE m = nm - 1
    BY <2>1, <2>2, <2>3
  <2>4. CASE m < nm - 1
    <3>1. noEv[m] < first[nm - 1]
      BY <2>1, <2>2, <2>4
    <3>2. first[nm - 1] <= noEv[nm - 1] /\ noEv[nm - 1] \in Nat /\ first[nm - 1] \in Nat
          /\ noEv[m] \in Nat
      BY <2>1, <2>2
    <3> QED BY <2>1, <3>1, <3>2
  <2> QED BY <2>2, <2>3, <2>4
<1> QED BY <1>4, <1>5, <1>6 DEF NumbersDistinct

-----------------------------------------------------------------------------
(* The ranges nest: what a machine's lastEvent is, relative to others.     *)
LEMMA Nested ==
  ASSUME IEnum, Printed
  PROVE  /\ last \in [Machine -> Nat]
         /\ \A m \in Machine : first[m] < noEv[m] /\ noEv[m] <= last[m]
         /\ \A c \in 1 .. nm - 1 : Children(c) = {} => last[c] = noEv[c]
         /\ \A c \in 1 .. nm - 1 : noEv[parent[c]] < first[c] /\ last[c] <= last[parent[c]]
         /\ \A c, d \in 1 .. nm - 1 : c < d /\ parent[d] # c => last[c] < first[d]
<1>1. /\ Shape
      /\ first \in [Machine -> Nat] /\ noEv \in [Machine -> Nat]
      /\ \A m \in Machine : noEv[m] = first[m] + count[m]
      /\ \A i, j \in Machine : i < j => noEv[i] < first[j]
      /\ first[0] = 0 /\ last[0] = noEv[nm - 1] + 1
      /\ last \in [Machine -> Nat \union {Unset}]
      /\ \A m \in 1 .. nm - 1 : LastIs(m)
  BY WhenPrinted
<1>2. /\ nm \in Nat \ {0} /\ Machine = 0 .. nm - 1 /\ 0 \in Machine
      /\ \A m \in Machine : m \in Nat /\ (m # 0 => m \in 1 .. nm - 1)
      /\ \A c \in 1 .. nm - 1 : c \in Machine /\ c # 0
      /\ \A m : Children(m) = {c \in 1 .. nm - 1 : parent[c] = m}
      /\ \A m \in Machine : m # 0 /\ parent[m] # 0 => Children(m) = {}
      /\ \A m \in Machine : count[m] \in Nat \ {0}
      /\ \A c \in 1 .. nm - 1 : parent[c] \in Machine /\ parent[c] < c
  <2>1. \A c \in 1 .. nm - 1 : parent[c] \in 0 .. nm - 1 /\ parent[c] < c
    BY <1>1 DEF Shape
  <2>2. \A m \in Machine : count[m] \in Nat \ {0}
    BY <1>1 DEF Shape
  <2>3. /\ nm \in Nat \ {0} /\ Machine = 0 .. nm - 1 /\ 0 \in Machine
        /\ \A m \in Machine : m \in Nat /\ (m # 0 => m \in 1 .. nm - 1)
        /\ \A c \in 1 .. nm - 1 : c \in Machine /\ c # 0
        /\ \A m : Children(m) = {c \in 1 .. nm - 1 : parent[c] = m}
        /\ \A m \in Machine : m # 0 /\ parent[m] # 0 => Children(m) = {}
    BY <1>1, MachineIs
  <2>4. \A c \in 1 .. nm - 1 : parent[c] \in Machine
    BY <2>1, <2>3
  <2> QED BY <2>1, <2>2, <2>3, <2>4
<1>3. \A m \in Machine : first[m] < noEv[m] /\ first[m] \in Nat /\ noEv[m] \in Nat
  <2> TAKE m \in Machine
  <2>1. first[m] \in Nat /\ noEv[m] = first[m] + count[m] /\ count[m] \in Nat \ {0}
    BY <1>1, <1>2
  <2> QED BY <2>1
<1>4. \A i, j \in Machine : i <= j => noEv[i] <= noEv[j]
  <2> TAKE i, j \in Machine
  <2> HAVE i <= j
  <2>1. CASE i = j
    BY <1>3, <2>1
  <2>2. CASE i < j
    BY <1>1, <1>3, <2>2
  <2> QED BY <1>2, <2>1, <2>2
<1>5. \A m \in Machine : noEv[m] < last[0]
  <2> TAKE m \in Machine
  <2>1. nm - 1 \in Machine /\ m <= nm - 1
    BY <1>2
  <2>2. noEv[m] <= noEv[nm - 1] /\ noEv[m] \in Nat /\ noEv[nm - 1] \in Nat
    BY <1>3, <1>4, <2>1
  <2> QED BY <1>1, <2>2
<1>6. \A m \in 1 .. nm - 1 : \E l \in Machine : m <= l /\ last[m] = noEv[l]
                                                 /\ (l = m \/ parent[l] = m)
  <2> TAKE m \in 1 .. nm - 1
  <2>1. LastIs(m) /\ m \in Machine
    BY <1>1, <1>2
  <2>2. CASE Children(m) = {}
    BY <1>2, <2>1, <2>2 DEF LastIs
  <2>3. CASE Children(m) # {}
    <3>1. PICK l \in Children(m) : last[m] = noEv[l]
      BY <2>1, <2>3 DEF LastIs
    <3>2. l \in 1 .. nm - 1 /\ parent[l] = m
      BY <1>2
    <3>3. m < l /\ l \in Machine
      BY <1>2, <3>2
    <3> QED BY <1>2, <3>1, <3>2, <3>3
  <2> QED BY <2>2, <2>3
<1>7. \A m \in Machine : last[m] \in Nat /\ noEv[m] <= last[m]
  <2> TAKE m \in Machine
  <2>1. CASE m = 0
    <3>1. noEv[0] < last[0] /\ last[0] \in Nat
      <4>1. nm - 1 \in Machine
        BY <1>2
      <4> QED BY <1>1, <1>2, <1>3, <1>5, <4>1
    <3> QED BY <1>2, <1>3, <2>1, <3>1
  <2>2. CASE m # 0
    <3>1. PICK l \in Machine : m <= l /\ last[m] = noEv[l]
      BY <1>2, <1>6, <2>2
    <3> QED BY <1>3, <1>4, <3>1
  <2> QED BY <2>1, <2>2
<1>8. last \in [Machine -> Nat]
  BY <1>1, <1>7
<1>9. ASSUME NEW c \in 1 .. nm - 1 PROVE noEv[parent[c]] < first[c] /\ last[c] <= last[parent[c]]
  <2>1. c \in Machine /\ parent[c] \in Machine /\ parent[c] < c
    BY <1>2
  <2>2. noEv[parent[c]] < first[c]
    BY <1>1, <2>1
  <2>3. CASE parent[c] = 0
    <3>1. PICK l \in Machine : last[c] = noEv[l]
      BY <1>6
    <3> QED BY <1>3, <1>5, <1>7, <2>1, <2>2, <2>3, <3>1
  <2>4. CASE parent[c] # 0
    <3>1. Children(c) = {} /\ c \in Children(parent[c]) /\ parent[c] \in 1 .. nm - 1
      BY <1>2, <2>1, <2>4
    <3>2. last[c] = noEv[c]
      BY <1>1, <3>1 DEF LastIs
    <3>3. PICK l \in Children(parent[c]) : last[parent[c]] = noEv[l]
                                          /\ \A d \in Children(parent[c]) : d <= l
      BY <1>1, <3>1 DEF LastIs
    <3>4. l \in Machine /\ c <= l
      BY <1>2, <3>1, <3>3
    <3> QED BY <1>4, <2>1, <2>2, <3>2, <3>3, <3>4
  <2> QED BY <2>3, <2>4
<1>10. ASSUME NEW c \in 1 .. nm - 1, NEW d \in 1 .. nm - 1, c < d, parent[d] # c
       PROVE  last[c] < first[d]
  <2>1. PICK l \in Machine : c <= l /\ last[c] = noEv[l] /\ (l = c \/ parent[l] = c)
    BY <1>6
  <2>2. l < d
    <3> SUFFICES ASSUME ~(l < d) PROVE FALSE
      OBVIOUS
    <3>1. l \in 1 .. nm - 1 /\ d \in c + 1 .. l /\ parent[l] = c
      BY <1>2, <1>10, <2>1
    <3> QED BY <1>1, <1>10, <3>1, Contiguous
  <2> QED BY <1>1, <1>2, <2>1, <2>2
<1>11. ASSUME NEW c \in 1 .. nm - 1, Children(c) = {} PROVE last[c] = noEv[c]
  BY <1>1, <1>11 DEF LastIs
<1> QED BY <1>3, <1>7, <1>8, <1>9, <1>10, <1>11

LEMMA EnumLayout == ASSUME IEnum, Printed PROVE H!TreeShape /\ H!Layout
<1>1. /\ Shape /\ nm \in Nat \ {0} /\ Machine = 0 .. nm - 1 /\ H!Machine = Machine
      /\ Machine \ {0} = 1 .. nm - 1
  BY MachineIs DEF IEnum, H!Machine, Machine
<1>2. \A m : H!Children(m) = Children(m)
  BY <1>1 DEF H!Children, Children
<1>3. parent \in [1 .. nm - 1 -> Machine] /\ \A c \in 1 .. nm - 1 : parent[c] < c
  BY <1>1 DEF Shape
<1>4. \A c, d \in 1 .. nm - 1 : parent[c] = parent[d] => parent[d] # c
  <2> TAKE c, d \in 1 .. nm - 1
  <2>1. parent[c] # c
    BY <1>3
  <2> QED BY <2>1
<1>5. H!TreeShape
  BY <1>1, <1>3 DEF H!TreeShape
<1>6. /\ first \in [Machine -> Nat] /\ noEv \in [Machine -> Nat] /\ first[0] = 0
  BY WhenPrinted
<1>7. \A c, d \in 1 .. nm - 1 : parent[c] = parent[d] /\ c < d => last[c] < first[d]
  BY <1>4, Nested
<1>8. \A m \in Machine \ {0} : H!Children(m) = {} => last[m] = noEv[m]
  BY <1>1, <1>2, Nested
<1>9. H!Layout
  BY <1>1, <1>6, <1>7, <1>8, Nested DEF H!Layout
<1> QED BY <1>5, <1>9

(* The numbers given out stay apart and in the end nest as Hierarchy       *)
(* assumes of the generated programs (print_sub_machine_events).           *)
THEOREM AlwaysLayout == ASSUME MaxLevels <= 3 PROVE Spec => []LayoutEstablished
<1>1. IEnum => LayoutEstablished
  BY EnumTyped, EnumDistinct, EnumLayout DEF LayoutEstablished
<1> QED BY <1>1, EnumInvariant, PTL

-----------------------------------------------------------------------------
LEMMA EnumReaches == ASSUME IEnum PROVE FinderReaches
<1> SUFFICES ASSUME Printed, NEW m \in Machine \ {0}, NEW e \in first[m] .. noEv[m] - 1,
                    NEW c \in Machine \ {0}
             PROVE  (first[c] <= e /\ e < last[c]) <=> c \in Above[m]
  BY DEF FinderReaches
<1>1. /\ Shape /\ nm \in Nat \ {0} /\ Machine = 0 .. nm - 1
      /\ m \in 1 .. nm - 1 /\ c \in 1 .. nm - 1 /\ m \in Machine /\ c \in Machine
  BY MachineIs DEF IEnum
<1>2. c \in Above[m] <=> c = m \/ c = parent[m]
  <2>1. Above[m] = {m, parent[m], 0}
    BY <1>1, AboveIs DEF Shape
  <2> QED BY <1>1, <2>1
<1>3. /\ first \in [Machine -> Nat] /\ noEv \in [Machine -> Nat] /\ last \in [Machine -> Nat]
      /\ \A i, j \in Machine : i < j => noEv[i] < first[j]
      /\ \A i \in Machine : first[i] < noEv[i] /\ noEv[i] <= last[i]
      /\ \A d \in 1 .. nm - 1 : noEv[parent[d]] < first[d] /\ last[d] <= last[parent[d]]
      /\ \A b, d \in 1 .. nm - 1 : b < d /\ parent[d] # b => last[b] < first[d]
  BY WhenPrinted, Nested
<1>4. first[m] <= e /\ e < noEv[m] /\ e \in Nat /\ first[m] \in Nat /\ noEv[m] \in Nat
      /\ first[c] \in Nat /\ noEv[c] \in Nat /\ last[c] \in Nat /\ last[m] \in Nat
  <2>1. /\ first[m] \in Nat /\ noEv[m] \in Nat /\ last[m] \in Nat
        /\ first[c] \in Nat /\ noEv[c] \in Nat /\ last[c] \in Nat
    BY <1>1, <1>3
  <2> QED BY <2>1
<1>5. CASE c = m
  BY <1>2, <1>3, <1>1, <1>4, <1>5
<1>6. CASE c = parent[m]
  <2>1. noEv[c] < first[m] /\ last[m] <= last[c] /\ first[c] < noEv[c] /\ noEv[m] <= last[m]
    BY <1>1, <1>3, <1>6
  <2> QED BY <1>2, <1>4, <1>6, <2>1
<1>7. CASE c # m /\ c # parent[m]
  <2>1. CASE c < m
    <3>1. last[c] < first[m]
      BY <1>1, <1>3, <1>7, <2>1
    <3> QED BY <1>2, <1>4, <1>7, <3>1
  <2>2. CASE m < c
    <3>1. noEv[m] < first[c]
      BY <1>1, <1>3, <2>2
    <3> QED BY <1>2, <1>4, <1>7, <3>1
  <2> QED BY <1>1, <1>7, <2>1, <2>2
<1> QED BY <1>5, <1>6, <1>7

(* The generated finder's test leads every event to the machine that       *)
(* declares it, and to no other (findAndRunSubMachine).                    *)
THEOREM AlwaysFinderReaches == ASSUME MaxLevels <= 3 PROVE Spec => []FinderReaches
<1>1. IEnum => FinderReaches
  BY EnumReaches
<1> QED BY <1>1, EnumInvariant, PTL

LEMMA EnumCounts == ASSUME IEnum PROVE CrossReferenceAgrees
<1> SUFFICES ASSUME Printed
             PROVE  /\ \A m \in Machine : Counted[m] = first[m] /\ Counted[m] + count[m] = noEv[m]
                    /\ nm > 1 => last[0] = Counted[nm - 1] + count[nm - 1] + 1
  BY DEF CrossReferenceAgrees
<1>1. /\ Shape /\ nm \in Nat \ {0} /\ Machine = 0 .. nm - 1 /\ 0 \in Machine
      /\ \A m \in Machine : m \in Nat /\ (m # 0 => m \in 1 .. nm - 1)
  BY MachineIs DEF IEnum
<1>2. /\ first \in [Machine -> Nat] /\ first[0] = 0 /\ last[0] = noEv[nm - 1] + 1
      /\ \A m \in Machine : noEv[m] = first[m] + count[m]
      /\ \A m \in 1 .. nm - 1 : first[m] = noEv[m - 1] + Gap(m)
  BY WhenPrinted
<1>3. \A m \in 1 .. nm - 1 :
         first[m] = first[m - 1] + count[m - 1] + (IF m = 1 THEN 2 ELSE 1)
  <2> TAKE m \in 1 .. nm - 1
  <2>1. m - 1 \in Machine
    BY <1>1
  <2> QED BY <1>2, <2>1 DEF Gap
<1>4. first = [m \in Machine |->
                 IF m = 0 THEN 0
                 ELSE first[m - 1] + count[m - 1] + (IF m = 1 THEN 2 ELSE 1)]
  BY <1>1, <1>2, <1>3
<1>5. Counted = [m \in Machine |->
                   IF m = 0 THEN 0
                   ELSE Counted[m - 1] + count[m - 1] + (IF m = 1 THEN 2 ELSE 1)]
  BY <1>4 DEF Counted
<1> DEFINE S == {m \in Machine : Counted[m] # first[m]}
<1>6. S = {}
  <2> SUFFICES ASSUME S # {} PROVE FALSE
    OBVIOUS
  <2>1. PICK m \in S : \A j \in S : m <= j
    <3>1. S \in SUBSET Nat
      BY <1>1
    <3> HIDE DEF S
    <3> QED BY <3>1, Least
  <2>2. Counted[0] = 0
    BY <1>1, <1>5
  <2>3. m \in 1 .. nm - 1 /\ m - 1 \in Machine /\ m - 1 \notin S /\ m \in Machine /\ m # 0
    BY <1>1, <1>2, <2>1, <2>2
  <2>4. Counted[m - 1] = first[m - 1]
    BY <2>3
  <2>5. Counted[m] = Counted[m - 1] + count[m - 1] + (IF m = 1 THEN 2 ELSE 1)
    BY <1>5, <2>3
  <2>6. Counted[m] = first[m]
    BY <1>3, <2>3, <2>4, <2>5
  <2> QED BY <2>1, <2>6
<1>7. \A m \in Machine : Counted[m] = first[m]
  BY <1>6
<1>8. nm - 1 \in Machine
  BY <1>1
<1> QED BY <1>2, <1>7, <1>8

(* The cross reference numbers the events as the compiler numbers the      *)
(* enumerators.                                                            *)
THEOREM CrossReferenceAlwaysAgrees == ASSUME MaxLevels <= 3 PROVE Spec => []CrossReferenceAgrees
<1>1. IEnum => CrossReferenceAgrees
  BY EnumCounts
<1> QED BY <1>1, EnumInvariant, PTL

-----------------------------------------------------------------------------
(* FUNCTIONS WITHOUT A LOOP *)

(* Where actions return states: -ts has no events with one cell for all    *)
(* states, and -te has an event handled in every state or in none.         *)
Sound == \A p \in Programs : p.returns = "states" =>
  /\ p.gen = "switch" => p.pai = {}
  /\ p.gen = "eventTable" => \A e \in Events :
        \/ \A s \in States : p.answer[e][s] = {} /\ p.target[e][s] = {}
        \/ \A s \in States : ~(p.answer[e][s] = {} /\ p.target[e][s] = {})

(* the moves the cell of event e in state s declares *)
Moves(e, s) == Target(e, s) \union
  (IF program.returns = "states" THEN Answer(e, s) \ {NoTransition} ELSE {})

(* who is past the prologue has the lock *)
Locked == Reentrant => \A t \in Threads : Within(t) => lock = t

(* who is about to call the exit or entry function has a move of the cell  *)
(* in s, and the state is still the one it was taken in                    *)
Bound == \A t \in Threads : call[t].pc \in {"exit", "entry"} =>
  program.fns /\ call[t].s \in Moves(call[t].e, state)

IInv == FlatTypeOK /\ EntryExitPaired /\ Locked /\ Bound /\ EventReported

MovesStep == state' # state => \E t \in Threads :
  /\ call[t].pc \in {"call", "entry"}
  /\ state' \in Moves(call[t].e, state)

-----------------------------------------------------------------------------
(* Moves lead to states. *)
LEMMA MovesAreStates ==
  ASSUME program \in Programs, NEW e \in Events, NEW s \in States
  PROVE  Moves(e, s) \subseteq States
  BY FlatAssumption DEF Moves, Answer, Target, Program

(* Past the prologue a thread is alone. *)
LEMMA Alone == FlatTypeOK /\ Locked => Exclusive
  BY FlatAssumption DEF Locked, Exclusive, FlatTypeOK, Within

(* The value of a cell is noTransition or one of the cell's moves. *)
LEMMA CellMoves ==
  ASSUME program.returns = "states", NEW e \in Events, NEW s \in States,
         NEW v \in ArrayValue(e, s) \union StateFnValue(e, s)
  PROVE  v = NoTransition \/ v \in Moves(e, s)
  BY DEF ArrayValue, NoTransitionFn, StateFnValue, StateFnCaseValue, Moves

(* So is a handler's, or it is the state. *)
LEMMA HandlerMoves ==
  ASSUME Sound, program \in Programs, program.returns = "states", program.gen = "eventTable",
         NEW e \in Events, NEW s \in States, NEW v \in HandlerValue(e, s)
  PROVE  v \in {NoTransition, s} \/ v \in Moves(e, s)
<1>1. CASE e \in program.pai
  <2>1. Answer(e, s) = Answer(e, Start) /\ Target(e, s) = Target(e, Start)
    BY <1>1, FlatAssumption DEF Answer, Target
  <2> QED BY <1>1, <2>1 DEF HandlerValue, AlikeValue, Overwritten, Moves
<1>2. CASE e \notin program.pai /\ \A t \in States : IsNull(e, t)
  BY <1>2 DEF HandlerValue, SeveralValue
<1>3. CASE e \notin program.pai /\ \A t \in States : ~IsNull(e, t)
  BY <1>3 DEF HandlerValue, SeveralValue, CaseValue, Overwritten, IsNull, Moves
<1>. QED BY <1>1, <1>2, <1>3 DEF Sound, IsNull, Answer, Target

(* Without a value from the action a cell leads to one of its moves, or    *)
(* leaves the state.                                                       *)
LEMMA VoidMoves ==
  ASSUME program \in Programs, program.returns = "void",
         NEW e \in Events, NEW s \in States,
         NEW v \in ArrayTransition(e, s) \union SwitchMove(e, s) \union HandlerMove(e, s)
  PROVE  v = s \/ v \in Moves(e, s)
<1>1. CASE e \in program.pai
  <2>1. Target(e, s) = Target(e, Start)
    BY <1>1, FlatAssumption DEF Target
  <2> QED BY <1>1, <2>1 DEF ArrayTransition, NoTransitionFn, SwitchMove, PAIMove,
               HandlerMove, AlikeMove, OrStay, Moves
<1>2. CASE e \notin program.pai
  BY <1>2 DEF ArrayTransition, NoTransitionFn, SwitchMove, StateFnMove, StateFnCaseMove,
              HandlerMove, SeveralMove, CaseMove, OrStay, Moves
<1>. QED BY <1>1, <1>2

(* To take such a value keeps the invariant and moves by the cell. *)
LEMMA TakeKeeps ==
  ASSUME IInv, NEW t \in Threads, NEW v, call[t].pc = "call",
         \/ v = NoTransition /\ Take(t, v)
         \/ (v = state \/ v \in Moves(call[t].e, state)) /\ Settle(t, v),
         UNCHANGED <<program, event, lock, inside>>
  PROVE  IInv' /\ MovesStep
<1>. USE DEF IInv
<1>e. call[t].e \in Events /\ state \in States /\ program \in Programs
  BY DEF FlatTypeOK
<1>v. v \in Value
  BY <1>e, MovesAreStates DEF Value, Take
<1>a. Exclusive
  BY Alone
<1>o. \A u \in Threads \ {t} : ~Within(u)
  BY <1>a DEF Exclusive, Within
<1>1. CASE v = NoTransition /\ GoWith(t, "end", v) /\ UNCHANGED state
  <2>1. FlatTypeOK'
    <3>1. call' \in [Threads -> [pc : Pc, e : Events, s : Value]]
      BY <1>1, <1>v DEF FlatTypeOK, GoWith, Pc
    <3>. QED BY <1>1, <3>1 DEF FlatTypeOK
  <2>2. EntryExitPaired'
    BY <1>1, <1>o DEF EntryExitPaired, GoWith, FlatTypeOK, Within
  <2>3. Locked'
    BY <1>1 DEF Locked, GoWith, FlatTypeOK, Within
  <2>4. Bound'
    BY <1>1, <1>o DEF Bound, GoWith, FlatTypeOK, Within
  <2>5. EventReported'
    BY <1>1 DEF EventReported, GoWith, FlatTypeOK
  <2>. QED BY <2>1, <2>2, <2>3, <2>4, <2>5, <1>1 DEF MovesStep
<1>2. CASE /\ v \in States /\ (v = state \/ v \in Moves(call[t].e, state))
           /\ program.fns /\ v # state /\ GoWith(t, "exit", v) /\ UNCHANGED state
  <2>1. FlatTypeOK'
    BY <1>2, <1>v DEF FlatTypeOK, GoWith, Pc
  <2>2. EntryExitPaired'
    BY <1>2, <1>o DEF EntryExitPaired, GoWith, FlatTypeOK, Within
  <2>3. Locked'
    BY <1>2 DEF Locked, GoWith, FlatTypeOK, Within
  <2>4. Bound'
    <3>1. \A u \in Threads : u # t => call'[u].pc \notin {"exit", "entry"}
      BY <1>2, <1>o DEF GoWith, FlatTypeOK, Within
    <3>2. call'[t].s = v /\ call'[t].e = call[t].e
      BY <1>2 DEF GoWith, FlatTypeOK
    <3>3. program' = program /\ state' = state /\ v \in Moves(call[t].e, state)
      BY <1>2
    <3>4. Moves(call[t].e, state)' = Moves(call[t].e, state)
      BY <3>2, <3>3 DEF Moves, Answer, Target
    <3>. QED BY <1>2, <3>1, <3>2, <3>3, <3>4 DEF Bound
  <2>5. EventReported'
    BY <1>2 DEF EventReported, GoWith, FlatTypeOK
  <2>. QED BY <2>1, <2>2, <2>3, <2>4, <2>5, <1>2 DEF MovesStep
<1>3. CASE /\ v \in States /\ (v = state \/ v \in Moves(call[t].e, state))
           /\ ~(program.fns /\ v # state) /\ state' = v /\ GoWith(t, "end", v)
  <2>1. FlatTypeOK'
    BY <1>3, <1>v DEF FlatTypeOK, GoWith, Pc
  <2>2. EntryExitPaired'
    BY <1>3, <1>o DEF EntryExitPaired, GoWith, FlatTypeOK, Within
  <2>3. Locked'
    BY <1>3 DEF Locked, GoWith, FlatTypeOK, Within
  <2>4. Bound'
    BY <1>3, <1>o DEF Bound, GoWith, FlatTypeOK, Within
  <2>5. MovesStep
    BY <1>3 DEF MovesStep
  <2>6. EventReported'
    BY <1>3 DEF EventReported, GoWith, FlatTypeOK
  <2>. QED BY <2>1, <2>2, <2>3, <2>4, <2>5, <2>6
<1>4. v \in Moves(call[t].e, state) => v \in States
  BY <1>e, MovesAreStates
<1>. QED BY <1>1, <1>2, <1>3, <1>4, <1>e DEF Take, Settle

-----------------------------------------------------------------------------
LEMMA InitKeeps == FlatInit => IInv
<1>. SUFFICES ASSUME FlatInit PROVE IInv
  OBVIOUS
<1>1. FlatTypeOK
  BY FlatAssumption DEF FlatInit, FlatTypeOK, Pc, Value
<1>2. EntryExitPaired
  BY DEF FlatInit, EntryExitPaired
<1>3. Locked /\ Bound /\ EventReported
  BY DEF FlatInit, Locked, Bound, EventReported, Within
<1>. QED BY <1>1, <1>2, <1>3 DEF IInv

(* Every step keeps the invariant and changes the state by a cell only. *)
LEMMA StepKeeps ==
  ASSUME Sound, IInv, [FlatNext]_flatVars
  PROVE  IInv' /\ MovesStep
<1>. USE DEF IInv
<1>s. CASE UNCHANGED flatVars
  BY <1>s DEF flatVars, FlatTypeOK, EntryExitPaired, Locked, Bound, EventReported, Within, Moves, Answer, Target, MovesStep
<1>a. Exclusive
  BY Alone
<1>1. ASSUME NEW t \in Threads, NEW e \in Events, Run(t, e)
      PROVE  IInv' /\ MovesStep
  <2>1. FlatTypeOK'
    BY <1>1 DEF Run, FlatTypeOK, Pc
  <2>2. EntryExitPaired' /\ Locked' /\ Bound' /\ EventReported'
    BY <1>1 DEF Run, FlatTypeOK, EntryExitPaired, Locked, Bound, EventReported, Within, Moves, Answer, Target
  <2>. QED BY <2>1, <2>2, <1>1 DEF Run, MovesStep
<1>2. ASSUME NEW t \in Threads, StartCall(t)
      PROVE  IInv' /\ MovesStep
  <2>1. FlatTypeOK'
    BY <1>2 DEF StartCall, Goto, FlatTypeOK, Pc
  <2>2. EntryExitPaired' /\ Bound'
    BY <1>2 DEF StartCall, Goto, FlatTypeOK, EntryExitPaired, Bound, Moves, Answer, Target
  <2>3. Locked'
    BY <1>2, FlatAssumption DEF StartCall, Goto, FlatTypeOK, Locked, Within
  <2>4. Exclusive'
    BY <2>1, <2>3, FlatAssumption DEF Locked, Exclusive, FlatTypeOK, Within
  <2>5. EventReported'
    BY <1>2, <2>4 DEF StartCall, Goto, FlatTypeOK, EventReported, Exclusive, Within
  <2>. QED BY <2>1, <2>2, <2>3, <2>5, <1>2 DEF StartCall, MovesStep
<1>3. ASSUME NEW t \in Threads, CallNumber(t)
      PROVE  IInv' /\ MovesStep
  <2>1. FlatTypeOK'
    BY <1>3 DEF CallNumber, AtCell, Goto, FlatTypeOK, Pc
  <2>2. EntryExitPaired' /\ Locked' /\ Bound' /\ EventReported'
    BY <1>3 DEF CallNumber, AtCell, Goto, FlatTypeOK, EntryExitPaired, Locked, Bound, EventReported, Within, Moves, Answer, Target
  <2>. QED BY <2>1, <2>2, <1>3 DEF CallNumber, MovesStep
<1>4. ASSUME NEW t \in Threads, CallArray(t)
      PROVE  IInv' /\ MovesStep
  <2>1. call[t].e \in Events /\ state \in States /\ program \in Programs
    BY DEF FlatTypeOK
  <2>2. PICK v \in ArrayValue(call[t].e, state) : Take(t, v)
    BY <1>4 DEF CallArray
  <2>3. v = NoTransition \/ v \in Moves(call[t].e, state)
    BY <1>4, <2>1, <2>2, CellMoves DEF CallArray, AtCell
  <2>4. v = NoTransition \/ Settle(t, v)
    BY <2>2 DEF Take
  <2>. QED BY <1>4, <2>2, <2>3, <2>4, TakeKeeps DEF CallArray, AtCell
<1>5. ASSUME NEW t \in Threads, CallStateFn(t)
      PROVE  IInv' /\ MovesStep
  <2>1. call[t].e \in Events /\ state \in States /\ program \in Programs
    BY DEF FlatTypeOK
  <2>2. PICK v \in StateFnValue(call[t].e, state) : Take(t, v)
    BY <1>5 DEF CallStateFn
  <2>3. v = NoTransition \/ v \in Moves(call[t].e, state)
    BY <1>5, <2>1, <2>2, CellMoves DEF CallStateFn, AtCell
  <2>4. v = NoTransition \/ Settle(t, v)
    BY <2>2 DEF Take
  <2>. QED BY <1>5, <2>2, <2>3, <2>4, TakeKeeps DEF CallStateFn, AtCell
<1>6. ASSUME NEW t \in Threads, program.gen = "eventTable", CallHandler(t)
      PROVE  IInv' /\ MovesStep
  <2>1. call[t].e \in Events /\ state \in States /\ program \in Programs
    BY DEF FlatTypeOK
  <2>2. PICK v \in HandlerValue(call[t].e, state) : Take(t, v)
    BY <1>6 DEF CallHandler
  <2>3. v \in {NoTransition, state} \/ v \in Moves(call[t].e, state)
    BY <1>6, <2>1, <2>2, HandlerMoves DEF CallHandler, AtCell
  <2>4. v = NoTransition \/ Settle(t, v)
    BY <2>2 DEF Take
  <2>. QED BY <1>6, <2>2, <2>3, <2>4, TakeKeeps DEF CallHandler, AtCell
<1>7. ASSUME NEW t \in Threads, program.gen = "switch", CallForAllStates(t)
      PROVE  FALSE
  BY <1>7 DEF CallForAllStates, AtCell, Sound, FlatTypeOK
<1>8. ASSUME NEW t \in Threads, CallArrayVoid(t)
      PROVE  IInv' /\ MovesStep
  <2>1. call[t].e \in Events /\ state \in States /\ program \in Programs
    BY DEF FlatTypeOK
  <2>2. PICK v \in ArrayTransition(call[t].e, state) : Settle(t, v)
    BY <1>8 DEF CallArrayVoid
  <2>3. v = state \/ v \in Moves(call[t].e, state)
    BY <1>8, <2>1, <2>2, VoidMoves DEF CallArrayVoid, AtCell
  <2>. QED BY <1>8, <2>2, <2>3, TakeKeeps DEF CallArrayVoid, AtCell
<1>9. ASSUME NEW t \in Threads, CallVoid(t)
      PROVE  IInv' /\ MovesStep
  <2>1. call[t].e \in Events /\ state \in States /\ program \in Programs
    BY DEF FlatTypeOK
  <2>2. PICK v \in SwitchMove(call[t].e, state) \union HandlerMove(call[t].e, state) : Settle(t, v)
    BY <1>9 DEF CallVoid
  <2>3. v = state \/ v \in Moves(call[t].e, state)
    BY <1>9, <2>1, <2>2, VoidMoves DEF CallVoid, AtCell
  <2>. QED BY <1>9, <2>2, <2>3, TakeKeeps DEF CallVoid, AtCell
<1>10. ASSUME NEW t \in Threads, CallExit(t)
      PROVE  IInv' /\ MovesStep
  <2>1. FlatTypeOK'
    BY <1>10 DEF CallExit, Goto, FlatTypeOK, Pc
  <2>2. EntryExitPaired'
    BY <1>10 DEF CallExit, Goto, FlatTypeOK, EntryExitPaired
  <2>3. Locked' /\ Bound' /\ EventReported'
    BY <1>10 DEF CallExit, Goto, FlatTypeOK, Locked, Bound, EventReported, Within, Moves, Answer, Target
  <2>. QED BY <2>1, <2>2, <2>3, <1>10 DEF CallExit, MovesStep
<1>11. ASSUME NEW t \in Threads, CallEntry(t)
      PROVE  IInv' /\ MovesStep
  <2>0. call[t].e \in Events /\ state \in States /\ program \in Programs
    BY DEF FlatTypeOK
  <2>1. call[t].s \in Moves(call[t].e, state) /\ call[t].s \in States
    BY <1>11, <2>0, MovesAreStates DEF CallEntry, Bound
  <2>2. \A u \in Threads \ {t} : ~Within(u)
    BY <1>11, <1>a DEF Exclusive, Within, CallEntry
  <2>3. FlatTypeOK'
    BY <1>11, <2>1 DEF CallEntry, Goto, FlatTypeOK, Pc
  <2>4. EntryExitPaired'
    BY <1>11, <2>2 DEF CallEntry, Goto, FlatTypeOK, EntryExitPaired, Within
  <2>5. Locked'
    BY <1>11 DEF CallEntry, Goto, FlatTypeOK, Locked, Within
  <2>6. Bound'
    BY <1>11, <2>2 DEF CallEntry, Goto, FlatTypeOK, Bound, Within, Moves, Answer, Target
  <2>7. MovesStep
    BY <1>11, <2>1 DEF CallEntry, MovesStep
  <2>8. EventReported'
    BY <1>11 DEF CallEntry, Goto, FlatTypeOK, EventReported
  <2>. QED BY <2>3, <2>4, <2>5, <2>6, <2>7, <2>8
<1>12. ASSUME NEW t \in Threads, EndCall(t)
       PROVE  IInv' /\ MovesStep
  <2>1. FlatTypeOK'
    BY <1>12 DEF EndCall, Goto, FlatTypeOK, Pc
  <2>2. EntryExitPaired' /\ Bound'
    BY <1>12 DEF EndCall, Goto, FlatTypeOK, EntryExitPaired, Bound, Moves, Answer, Target
  <2>3. Locked'
    BY <1>12, <1>a DEF EndCall, Goto, FlatTypeOK, Locked, Within, Exclusive
  <2>4. EventReported'
    BY <1>12 DEF EndCall, Goto, FlatTypeOK, EventReported
  <2>. QED BY <2>1, <2>2, <2>3, <2>4, <1>12 DEF EndCall, MovesStep
<1>. QED
  BY <1>s, <1>1, <1>2, <1>3, <1>4, <1>5, <1>6, <1>7, <1>8, <1>9, <1>10, <1>11, <1>12
      DEF FlatNext, Work, ArrayFSM, SwitchFSM, EventTableFSM, Surrounding

LEMMA Invariant == ASSUME Sound PROVE FlatSpec => []IInv
<1>1. FlatInit => IInv
  BY InitKeeps
<1>2. IInv /\ [FlatNext]_flatVars => IInv'
  BY StepKeeps
<1>. QED BY <1>1, <1>2, PTL DEF FlatSpec

(* The machine's state is always one of its states: neither noTransition   *)
(* nor a value nobody assigned is ever stored.                             *)
THEOREM TypeCorrect == ASSUME Sound PROVE FlatSpec => []FlatTypeOK
<1>1. IInv => FlatTypeOK
  BY DEF IInv
<1>. QED BY <1>1, Invariant, PTL

(* Exit and entry functions are called in pairs around every change of     *)
(* state, whoever calls the machine meanwhile.                             *)
THEOREM EntryExitAlwaysPaired == ASSUME Sound PROVE FlatSpec => []EntryExitPaired
<1>1. IInv => EntryExitPaired
  BY DEF IInv
<1>. QED BY <1>1, Invariant, PTL

(* A reentrant machine's calls are one at a time at work on its state, and *)
(* each of them on its own event.                                          *)
THEOREM AlwaysOneAtWork == ASSUME Sound PROVE FlatSpec => []OneAtWork
<1>1. IInv => OneAtWork
  BY Alone DEF IInv, OneAtWork
<1>. QED BY <1>1, Invariant, PTL

(* A change of state is one the cell of the event and the state declares.  *)
THEOREM AlwaysMovesByCell == ASSUME Sound PROVE FlatSpec => MovesByCell
<1>1. IInv /\ [FlatNext]_flatVars => [MovesStep]_flatVars
  BY StepKeeps
<1>2. MovesStep => (state' # state => \E t \in Threads :
       /\ call[t].pc \in {"call", "entry"}
       /\ state' \in Target(call[t].e, state) \union
                     (IF program.returns = "states"
                      THEN Answer(call[t].e, state) \ {NoTransition} ELSE {}))
  BY DEF MovesStep, Moves, Answer, Target
<1>. QED BY <1>1, <1>2, Invariant, PTL DEF FlatSpec, MovesByCell

=============================================================================
