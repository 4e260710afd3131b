--------------------------- MODULE FsmCallsProofs ---------------------------
(***************************************************************************)
(* What every step of FsmCalls preserves, whichever generator's loop takes *)
(* it, the inductive invariant of TableFsmProofs and SwitchFsmProofs, and  *)
(* how the shared steps keep the promise of RunToCompletion.               *)
(***************************************************************************)
EXTENDS FsmCalls, SequenceTheorems, WellFoundedInduction, TLAPS

-----------------------------------------------------------------------------
(* How the events of the machines lie in the enumeration.  Layout says it  *)
(* of machines and their sub-machines; what it says of machines further    *)
(* apart follows by induction, for which the least counterexample does.    *)

LEMMA Least ==
  ASSUME NEW S \in SUBSET Nat, S # {}
  PROVE  \E n \in S : \A k \in S : n <= k
<1> DEFINE R == OpToRel(<, Nat)
<1>1. R = {p \in Nat \X Nat : p[1] < p[2]}
  BY Zenon DEF OpToRel
<1>2. IsWellFoundedOn(R, Nat)
  BY NatLessThanWellFounded, Zenon
<1> HIDE DEF R
<1>3. PICK n \in S : \A k \in S : ~ (<<k, n>> \in R)
  BY <1>2, WFMin, Zenon
<1>4. \A k \in S : <<k, n>> \in Nat \X Nat
  OBVIOUS
<1>5. \A k \in S : ~(k < n)
  BY <1>1, <1>3, <1>4
<1> QED BY <1>5

LEMMA Numbers ==
  ASSUME NEW m \in Machine
  PROVE  /\ m \in Nat /\ First[m] \in Nat /\ NoEv[m] \in Nat /\ Last[m] \in Nat
         /\ First[m] < NoEv[m] /\ NoEv[m] <= Last[m]
         /\ m # 0 => /\ Parent[m] \in Machine /\ Parent[m] \in Nat
                     /\ Parent[m] < m /\ m \in Children(Parent[m])
                     /\ NoEv[Parent[m]] < First[m] /\ Last[m] <= Last[Parent[m]]
BY HierarchyAssumption DEF TreeShape, Layout, Machine, Children

(* c lies below d in the tree, and so does its range of events *)
Within(c, d) == \E x \in Children(d) :
  x <= c /\ First[x] <= First[c] /\ Last[c] <= Last[x]

LEMMA WithinParent ==
  ASSUME NEW d \in Machine \ {0}, NEW c \in Machine,
         Parent[d] = c \/ Within(Parent[d], c)
  PROVE  Within(d, c)
<1>1. CASE Parent[d] = c
  BY <1>1, Numbers DEF Within
<1>2. CASE Within(Parent[d], c)
  <2>1. PICK x \in Children(c) : /\ x <= Parent[d] /\ First[x] <= First[Parent[d]]
                                 /\ Last[Parent[d]] <= Last[x]
    BY <1>2 DEF Within
  <2>2. x \in Machine
    BY <2>1 DEF Children
  <2>3. /\ x \in Nat /\ d \in Nat /\ Parent[d] \in Nat /\ Parent[d] < d
        /\ First[x] \in Nat /\ Last[x] \in Nat /\ First[d] \in Nat /\ Last[d] \in Nat
        /\ First[Parent[d]] \in Nat /\ NoEv[Parent[d]] \in Nat /\ Last[Parent[d]] \in Nat
        /\ First[Parent[d]] < NoEv[Parent[d]] /\ NoEv[Parent[d]] < First[d]
        /\ Last[d] <= Last[Parent[d]]
    BY <2>2, Numbers
  <2>4. x <= d /\ First[x] <= First[d] /\ Last[d] <= Last[x]
    BY <2>1, <2>3
  <2> QED BY <2>1, <2>4 DEF Within
<1> QED BY <1>1, <1>2

(* What lies below a machine has its events between noEvent and lastEvent. *)
LEMMA WithinRange ==
  ASSUME NEW c \in Machine, NEW d \in Machine, Within(d, c)
  PROVE  NoEv[c] < First[d] /\ Last[d] <= Last[c] /\ c < d
<1>1. PICK x \in Children(c) : x <= d /\ First[x] <= First[d] /\ Last[d] <= Last[x]
  BY DEF Within
<1>2. x \in Machine /\ x # 0 /\ Parent[x] = c
  BY <1>1 DEF Children
<1>3. /\ x \in Nat /\ c \in Nat /\ c < x /\ NoEv[c] < First[x] /\ Last[x] <= Last[c]
      /\ First[x] \in Nat /\ NoEv[c] \in Nat /\ Last[x] \in Nat /\ Last[c] \in Nat
  BY <1>2, Numbers
<1>4. d \in Nat /\ First[d] \in Nat /\ Last[d] \in Nat
  BY Numbers
<1> QED BY <1>1, <1>3, <1>4

LEMMA BelowTop ==
  ASSUME NEW m \in Machine \ {0} PROVE Within(m, 0)
<1> DEFINE Bad == {d \in Machine \ {0} : ~Within(d, 0)}
<1>1. SUFFICES ASSUME Bad # {} PROVE FALSE
  OBVIOUS
<1>2. Bad \in SUBSET Nat /\ 0 \in Machine
  BY Numbers, HierarchyAssumption DEF TreeShape, Machine
<1>3. PICK d \in Bad : \A k \in Bad : d <= k
  BY <1>1, <1>2, Least
<1>4. d \in Machine \ {0} /\ ~Within(d, 0)
  BY <1>3
<1>5. Parent[d] \in Machine /\ Parent[d] \in Nat /\ d \in Nat /\ Parent[d] < d
  BY <1>4, Numbers
<1>6. Parent[d] \notin Bad
  BY <1>3, <1>5
<1>7. Parent[d] = 0 \/ Within(Parent[d], 0)
  BY <1>5, <1>6
<1> QED BY <1>2, <1>4, <1>7, WithinParent

(* Of two machines one lies below the other, or their events lie apart.    *)
Apart(c, d) == Last[c] < First[d] \/ Last[d] < First[c]

LEMMA WithinOrApart ==
  ASSUME NEW c \in Machine, NEW d \in Machine, c < d
  PROVE  Within(d, c) \/ Apart(c, d)
<1> DEFINE OK(b, a) == Within(a, b) \/ Apart(b, a)
           Bad == {a \in Machine : \E b \in Machine : b < a /\ ~OK(b, a)}
<1>1. SUFFICES ASSUME Bad # {} PROVE FALSE
  OBVIOUS
<1>2. Bad \in SUBSET Nat
  BY Numbers
<1>3. PICK a \in Bad : \A k \in Bad : a <= k
  BY <1>1, <1>2, Least
<1>4. PICK b \in Machine : b < a /\ ~Within(a, b) /\ ~Apart(b, a)
  BY <1>3
<1> DEFINE p == Parent[a]
<1>5. /\ a \in Machine \ {0} /\ a \in Nat /\ b \in Nat
      /\ p \in Machine /\ p \in Nat /\ p < a
  <2>1. a \in Machine /\ a \in Nat /\ b \in Nat
    BY <1>3, Numbers
  <2>2. a # 0
    BY <2>1, <1>4
  <2> QED BY <2>1, <2>2, Numbers
<1>6. \A x, y \in Machine : x < y /\ y < a => OK(x, y)
  <2> TAKE x, y \in Machine
  <2> HAVE x < y /\ y < a
  <2>1. y \notin Bad
    BY <1>3, <1>5, Numbers
  <2> QED BY <2>1
<1>7. /\ First[p] \in Nat /\ NoEv[p] \in Nat /\ First[p] < NoEv[p]
      /\ NoEv[p] < First[a] /\ Last[a] <= Last[p]
      /\ First[a] \in Nat /\ Last[a] \in Nat /\ Last[p] \in Nat
      /\ First[b] \in Nat /\ Last[b] \in Nat
  BY <1>5, Numbers
<1> HIDE DEF p, OK
<1>8. CASE p = b
  BY <1>4, <1>5, <1>8, WithinParent DEF p
<1>9. CASE b < p
  <2>1. Within(p, b) \/ Apart(b, p)
    BY <1>5, <1>6, <1>9 DEF OK
  <2>2. Within(p, b) => Within(a, b)
    BY <1>5, WithinParent DEF p
  <2>3. Apart(b, p) => Apart(b, a)
    BY <1>7 DEF Apart
  <2> QED BY <1>4, <2>1, <2>2, <2>3
<1>10. CASE p < b
  <2>1. Within(b, p) \/ Apart(p, b)
    BY <1>4, <1>5, <1>6, <1>10 DEF OK
  <2>2. CASE Apart(p, b)
    BY <2>2, <1>4, <1>7 DEF Apart
  <2>3. CASE Within(b, p)
    <3>1. PICK x \in Children(p) : x <= b /\ Last[b] <= Last[x]
      BY <2>3 DEF Within
    <3>2. x \in Machine \ {0} /\ Parent[x] = Parent[a] /\ x < a /\ Last[x] \in Nat
      BY <3>1, <1>4, <1>5, Numbers DEF Children, p
    <3>3. Last[x] < First[a]
      BY <3>2, <1>5, HierarchyAssumption DEF Layout
    <3> QED BY <3>1, <3>2, <3>3, <1>4, <1>7 DEF Apart
  <2> QED BY <2>1, <2>2, <2>3
<1> QED BY <1>5, <1>8, <1>9, <1>10

(* The enumerators that are events, no machine's noEvent or numEvents.     *)
Real(e) == \E m \in Machine : e \in Own(m)

LEMMA NoEvNotReal == ASSUME NEW m \in Machine PROVE ~Real(NoEv[m])
<1> SUFFICES ASSUME NEW d \in Machine, NoEv[m] \in Own(d) PROVE FALSE
  BY DEF Real
<1>1. First[d] <= NoEv[m] /\ NoEv[m] < NoEv[d] /\ d # m
  BY Numbers DEF Own
<1>2. /\ First[d] \in Nat /\ NoEv[d] \in Nat /\ Last[d] \in Nat /\ d \in Nat
      /\ First[m] \in Nat /\ NoEv[m] \in Nat /\ Last[m] \in Nat /\ m \in Nat
      /\ First[d] < NoEv[d] /\ NoEv[d] <= Last[d]
      /\ First[m] < NoEv[m] /\ NoEv[m] <= Last[m]
  BY Numbers
<1>3. CASE m < d
  BY <1>1, <1>2, <1>3, WithinOrApart, WithinRange DEF Apart
<1>4. CASE d < m
  BY <1>1, <1>2, <1>4, WithinOrApart, WithinRange DEF Apart
<1> QED BY <1>1, <1>2, <1>3, <1>4

(* where a call is working on an event of its own *)
Handling == {"action", "share", "move", "exit", "entry"}

(* The values a call of m comes across: noEvent, an event of m or of a     *)
(* machine below it, or one of a machine before it in the enumeration; so  *)
(* a machine without sub-machines, whose loop has no upper bound, never    *)
(* takes an event beyond its own for its own.                              *)
Reach(m, e) == e = NoEv[m] \/ (Real(e) /\ e < Last[m])

(* every event is in the range of the top-level machine *)
LEMMA RealInTop == ASSUME NEW e, Real(e) PROVE Reach(0, e) /\ e \in Nat
<1>1. PICK d \in Machine : e \in Own(d)
  BY DEF Real
<1>2. 0 \in Machine
  BY HierarchyAssumption DEF TreeShape, Machine
<1>3. e \in Nat /\ e < NoEv[d]
  BY <1>1, Numbers DEF Own
<1>4. CASE d = 0
  BY <1>2, <1>3, <1>4, Numbers DEF Reach
<1>5. CASE d # 0
  <2>1. Last[d] <= Last[0]
    BY <1>2, <1>5, BelowTop, WithinRange
  <2> QED BY <1>2, <1>3, <2>1, Numbers DEF Reach
<1> QED BY <1>4, <1>5

LEMMA ReachBounded ==
  ASSUME NEW m \in Machine, NEW e, Reach(m, e), Children(m) = {}, e >= First[m]
  PROVE  e <= NoEv[m]
<1>1. CASE e = NoEv[m]
  BY <1>1, Numbers
<1>2. CASE Real(e) /\ m # 0
  BY <1>2, RealInTop, Numbers, HierarchyAssumption DEF Layout, Reach
<1>3. CASE Real(e) /\ m = 0
  <2>1. PICK d \in Machine : e \in Own(d)
    BY <1>3 DEF Real
  <2>2. CASE d = 0
    BY <1>3, <2>1, <2>2, Numbers DEF Own
  <2>3. CASE d # 0
    <3>1. 1 \in Machine \ {0} /\ Parent[1] = 0
      BY <2>3, HierarchyAssumption DEF TreeShape, Machine
    <3> QED BY <1>3, <3>1 DEF Children
  <2> QED BY <2>2, <2>3
<1> QED BY <1>1, <1>2, <1>3 DEF Reach

(* A frame is well formed; a call that works on an event works on one of   *)
(* its machine's.                                                          *)

FrameOK(f) ==
  /\ f \in Frame
  /\ f.new_s \in States[f.fsm]
  /\ \A j \in 1 .. Len(f.left) :
       f.left[j].fsm \in Children(f.fsm) /\ f.left[j].event \in Own(f.left[j].fsm)
  /\ f.pc \in {"exit", "entry"} => f.fsm \in HasFns
  /\ f.pc \in Handling => f.e \in Own(f.fsm)
  /\ Reach(f.fsm, f.e) /\ Reach(f.fsm, f.new_e)

StackOK(s) ==
  /\ s \in Seq(Frame)
  /\ \A i \in 1 .. Len(s) : FrameOK(s[i])
  /\ Len(s) > 0 => s[1].fsm = 0
  /\ \A i \in 1 .. Len(s) - 1 :
       /\ s[i + 1].fsm # 0 /\ Parent[s[i + 1].fsm] = s[i].fsm
       /\ s[i].pc \in {"find", "share"}
  /\ \A i, j \in 1 .. Len(s) : i < j => s[i].fsm < s[j].fsm

IInv == TypeOK /\ StackOK(stack) /\ EntryExitPaired

-----------------------------------------------------------------------------
(* The three things a step does to the stack: change the innermost frame,  *)
(* call a sub-machine, and return to the caller.                           *)

LEMMA SetTop ==
  ASSUME NEW s, StackOK(s), s # <<>>,
         NEW f, FrameOK(f), f.fsm = s[Len(s)].fsm
  PROVE  LET t == [s EXCEPT ![Len(s)] = f] IN
         StackOK(t) /\ Len(t) = Len(s) /\ t[Len(t)] = f /\ t # <<>>
<1> DEFINE t == [s EXCEPT ![Len(s)] = f]
<1>1. s \in Seq(Frame) /\ Len(s) \in Nat \ {0} /\ f \in Frame
  BY EmptySeq DEF StackOK, FrameOK
<1>2. /\ t \in Seq(Frame) /\ Len(t) = Len(s)
      /\ \A j \in 1 .. Len(s) : t[j] = IF j = Len(s) THEN f ELSE s[j]
  BY <1>1, ExceptSeq
<1> HIDE DEF t
<1>3. t # <<>> /\ t[Len(t)] = f
  BY <1>1, <1>2
<1>4. \A i \in 1 .. Len(t) : t[i].fsm = s[i].fsm
  BY <1>1, <1>2
<1>5. StackOK(t)
  <2>1. \A i \in 1 .. Len(t) : FrameOK(t[i])
    BY <1>2 DEF StackOK
  <2>2. \A i \in 1 .. Len(t) - 1 : t[i].pc = s[i].pc
    BY <1>1, <1>2
  <2>3. Len(t) > 0 => t[1].fsm = 0
    BY <1>1, <1>2, <1>4 DEF StackOK
  <2>4. \A i \in 1 .. Len(t) - 1 :
          /\ t[i + 1].fsm # 0 /\ Parent[t[i + 1].fsm] = t[i].fsm
          /\ t[i].pc \in {"find", "share"}
    BY <1>1, <1>2, <1>4, <2>2 DEF StackOK
  <2>5. \A i, j \in 1 .. Len(t) : i < j => t[i].fsm < t[j].fsm
    BY <1>2, <1>4 DEF StackOK
  <2> QED BY <1>2, <2>1, <2>3, <2>4, <2>5 DEF StackOK
<1> QED BY <1>2, <1>3, <1>5 DEF t

LEMMA Appended ==
  ASSUME NEW s, StackOK(s), s # <<>>, s[Len(s)].pc \in {"find", "share"},
         NEW g, FrameOK(g), g.fsm \in Children(s[Len(s)].fsm)
  PROVE  LET t == Append(s, g) IN
         StackOK(t) /\ Len(t) = Len(s) + 1 /\ t[Len(t)] = g
<1> DEFINE t == Append(s, g)
<1>1. s \in Seq(Frame) /\ Len(s) \in Nat \ {0} /\ g \in Frame
  BY EmptySeq DEF StackOK, FrameOK
<1>2. /\ t \in Seq(Frame) /\ Len(t) = Len(s) + 1
      /\ \A j \in 1 .. Len(t) : t[j] = IF j = Len(t) THEN g ELSE s[j]
  BY <1>1
<1>3. /\ g.fsm \in Machine \ {0} /\ Parent[g.fsm] = s[Len(s)].fsm
      /\ s[Len(s)].fsm < g.fsm
  BY HierarchyAssumption DEF Children, TreeShape
<1> HIDE DEF t
<1>4. t[Len(t)] = g
  BY <1>1, <1>2
<1>5. StackOK(t)
  <2>1. \A i \in 1 .. Len(t) : FrameOK(t[i])
    BY <1>1, <1>2 DEF StackOK
  <2>2. Len(t) > 0 => t[1].fsm = 0
    BY <1>1, <1>2 DEF StackOK
  <2>3. ASSUME NEW i \in 1 .. Len(t) - 1
        PROVE  /\ t[i + 1].fsm # 0 /\ Parent[t[i + 1].fsm] = t[i].fsm
               /\ t[i].pc \in {"find", "share"}
    <3>1. CASE i = Len(s)
      BY <3>1, <1>1, <1>2, <1>3
    <3>2. CASE i \in 1 .. Len(s) - 1
      BY <3>2, <1>1, <1>2 DEF StackOK
    <3> QED BY <3>1, <3>2, <1>1, <1>2
  <2>4. ASSUME NEW i \in 1 .. Len(t), NEW j \in 1 .. Len(t), i < j
        PROVE  t[i].fsm < t[j].fsm
    <3>1. \A k \in 1 .. Len(s) : s[k].fsm \in Machine
      BY <1>1 DEF StackOK, FrameOK, Frame
    <3>2. CASE j \in 1 .. Len(s)
      <4>1. t[i] = s[i] /\ t[j] = s[j] /\ i \in 1 .. Len(s)
        BY <3>2, <2>4, <1>1, <1>2
      <4> QED BY <3>2, <2>4, <4>1, <1>1 DEF StackOK
    <3>3. CASE j = Len(t)
      <4>1. t[j] = g /\ t[i] = s[i] /\ i \in 1 .. Len(s)
        BY <3>3, <2>4, <1>1, <1>2
      <4>2. s[i].fsm < s[Len(s)].fsm \/ i = Len(s)
        BY <4>1, <1>1 DEF StackOK
      <4>3. s[i].fsm \in Nat /\ s[Len(s)].fsm \in Nat /\ g.fsm \in Nat
        BY <3>1, <4>1, <1>1, <1>3, HierarchyAssumption DEF Machine
      <4>4. s[Len(s)].fsm < g.fsm
        BY <1>1, <1>3, <3>1, HierarchyAssumption DEF TreeShape, Machine
      <4> QED BY <4>1, <4>2, <4>3, <4>4
    <3> QED BY <3>2, <3>3, <1>1, <1>2
  <2> QED BY <1>2, <2>1, <2>2, <2>3, <2>4 DEF StackOK
<1> QED BY <1>2, <1>4, <1>5 DEF t

LEMMA PushTop ==
  ASSUME NEW s, StackOK(s), s # <<>>,
         NEW f, FrameOK(f), f.fsm = s[Len(s)].fsm, f.pc \in {"find", "share"},
         NEW g, FrameOK(g), g.fsm \in Children(f.fsm)
  PROVE  LET t == Append([s EXCEPT ![Len(s)] = f], g) IN
         StackOK(t) /\ Len(t) = Len(s) + 1 /\ t[Len(t)] = g
<1> DEFINE u == [s EXCEPT ![Len(s)] = f]
<1>1. StackOK(u) /\ Len(u) = Len(s) /\ u[Len(u)] = f /\ u # <<>>
  BY SetTop
<1> HIDE DEF u
<1>2. LET t == Append(u, g) IN StackOK(t) /\ Len(t) = Len(u) + 1 /\ t[Len(t)] = g
  BY <1>1, Appended
<1> QED BY <1>1, <1>2 DEF u

LEMMA PopTop ==
  ASSUME NEW s, StackOK(s), Len(s) > 1,
         NEW f, FrameOK(f), f.fsm = s[Len(s) - 1].fsm
  PROVE  LET t == [SubSeq(s, 1, Len(s) - 1) EXCEPT ![Len(s) - 1] = f] IN
         StackOK(t) /\ Len(t) = Len(s) - 1 /\ t[Len(t)] = f
<1> DEFINE u == SubSeq(s, 1, Len(s) - 1)
<1>1. s \in Seq(Frame) /\ Len(s) \in Nat \ {0, 1}
  BY EmptySeq, LenProperties DEF StackOK
<1>2. /\ u \in Seq(Frame) /\ Len(u) = Len(s) - 1
      /\ \A j \in 1 .. Len(u) : u[j] = s[j]
  BY <1>1, SubSeqProperties, ElementOfSeq
<1> HIDE DEF u
<1>3. StackOK(u) /\ u # <<>>
  <2>1. u # <<>>
    BY <1>1, <1>2, EmptySeq
  <2>2. \A i \in 1 .. Len(u) : FrameOK(u[i])
    BY <1>1, <1>2 DEF StackOK
  <2>3. ASSUME NEW i \in 1 .. Len(u) - 1
        PROVE  /\ u[i + 1].fsm # 0 /\ Parent[u[i + 1].fsm] = u[i].fsm
               /\ u[i].pc \in {"find", "share"}
    <3>1. i \in 1 .. Len(s) - 1 /\ u[i] = s[i] /\ u[i + 1] = s[i + 1]
      BY <1>1, <1>2
    <3> QED BY <3>1 DEF StackOK
  <2>4. \A i, j \in 1 .. Len(u) : i < j => u[i].fsm < u[j].fsm
    BY <1>1, <1>2 DEF StackOK
  <2>5. Len(u) > 0 => u[1].fsm = 0
    BY <1>1, <1>2 DEF StackOK
  <2> QED BY <1>2, <2>1, <2>2, <2>3, <2>4, <2>5 DEF StackOK
<1>4. f.fsm = u[Len(u)].fsm
  BY <1>1, <1>2
<1>5. LET t == [u EXCEPT ![Len(u)] = f] IN
      StackOK(t) /\ Len(t) = Len(u) /\ t[Len(t)] = f
  BY <1>3, <1>4, SetTop
<1> QED BY <1>2, <1>5 DEF u

-----------------------------------------------------------------------------
(* The steps. *)

(* what an action may return is within reach of its machine *)
LEMMA ReplyInReach ==
  ASSUME NEW m \in Machine, NEW e \in Own(m), NEW s \in States[m],
         NEW r \in Reply[e][s]
  PROVE  r \in Event /\ Reach(m, r)
<1>1. r \in Event /\ r \in Nat
  BY HierarchyAssumption DEF Tables, Event
<1>2. ASSUME NEW d \in Machine, r \in Own(d),
             First[d] \in Span(m) \/ First[m] \in Span(d)
      PROVE  r < Last[m]
  <2>1. /\ First[d] \in Nat /\ NoEv[d] \in Nat /\ Last[d] \in Nat /\ d \in Nat
        /\ First[m] \in Nat /\ NoEv[m] \in Nat /\ Last[m] \in Nat /\ m \in Nat
        /\ First[d] < NoEv[d] /\ NoEv[d] <= Last[d]
        /\ First[m] < NoEv[m] /\ NoEv[m] <= Last[m]
    BY Numbers
  <2>2. CASE d = m
    BY <2>1, <2>2, <1>2 DEF Own
  <2>3. CASE Within(d, m)
    BY <2>1, <2>3, <1>2, WithinRange DEF Own
  <2>4. CASE Within(m, d)
    BY <2>1, <2>4, <1>2, WithinRange DEF Own
  <2>5. ~Apart(m, d) /\ ~Apart(d, m)
    BY <2>1, <1>2 DEF Apart, Span
  <2> QED BY <2>1, <2>2, <2>3, <2>4, <2>5, WithinOrApart
<1>3. r = NoEv[m] \/ (\E d \in Machine :
        r \in Own(d) /\ (First[d] \in Span(m) \/ First[m] \in Span(d)))
  BY HierarchyAssumption DEF ReturnsRule
<1> QED BY <1>1, <1>2, <1>3 DEF Reach, Real

LEMMA TopFacts ==
  ASSUME IInv, Busy
  PROVE  /\ FrameOK(top) /\ top \in Frame /\ Len(stack) \in Nat \ {0}
         /\ cur \in Machine /\ state[cur] \in States[cur]
         /\ top.e \in Nat /\ top.new_e \in Nat
<1>1. stack \in Seq(Frame) /\ Len(stack) \in Nat \ {0}
  BY EmptySeq DEF IInv, StackOK, Busy
<1>2. FrameOK(top)
  BY <1>1 DEF IInv, StackOK, top
<1> QED BY <1>1, <1>2 DEF FrameOK, Frame, Event, IInv, TypeOK, cur

(* A step that only changes the innermost frame, not at an entry function. *)
LEMMA FrameStep ==
  ASSUME IInv, Busy, top.pc # "entry",
         NEW f, FrameOK(f), f.fsm = cur, f.pc # "entry", Set(f),
         state' = state, inside' = inside, event' \in [Machine -> Event]
  PROVE  IInv'
<1>1. stack # <<>> /\ StackOK(stack) /\ f.fsm = stack[Len(stack)].fsm
  BY DEF IInv, Busy, cur, top
<1> DEFINE t == [stack EXCEPT ![Len(stack)] = f]
<1>2. StackOK(t) /\ Len(t) = Len(stack) /\ t[Len(t)] = f /\ t # <<>>
  BY <1>1, SetTop
<1> HIDE DEF t
<1>3. stack' = t
  BY DEF Set, t
<1>4. top' = f /\ cur' = f.fsm /\ Busy'
  BY <1>2, <1>3 DEF top, cur, Busy
<1>5. TypeOK'
  BY <1>2, <1>3 DEF IInv, TypeOK, StackOK
<1>6. EntryExitPaired'
  BY <1>4 DEF IInv, EntryExitPaired
<1> QED BY <1>2, <1>3, <1>5, <1>6 DEF IInv

LEMMA CallActionInv ==
  ASSUME IInv, Busy, CallAction PROVE IInv'
<1>0. /\ FrameOK(top) /\ top \in Frame /\ cur \in Machine /\ cur = top.fsm
      /\ state[cur] \in States[cur] /\ top.pc = "action" /\ top.e \in Own(cur)
      /\ event' \in [Machine -> Event] /\ state' = state /\ inside' = inside
  BY TopFacts DEF FrameOK, Handling, CallAction, IInv, TypeOK, cur
<1>1. CASE state[cur] \in Passes[top.e]
  <2> DEFINE f == [top EXCEPT !.pc = "share", !.new_e = NoEv[cur], !.left = Sharers[top.e]]
  <2>1. /\ Sharers[top.e] \in Seq(Sharer) /\ NoEv[cur] \in Nat
        /\ \A j \in 1 .. Len(Sharers[top.e]) :
             /\ Sharers[top.e][j].fsm \in Children(cur)
             /\ Sharers[top.e][j].event \in Own(Sharers[top.e][j].fsm)
    BY <1>0, HierarchyAssumption DEF Tables, Layout
  <2>2. /\ f \in Frame /\ f.fsm = cur /\ f.pc = "share" /\ f.e = top.e
        /\ f.new_e = NoEv[cur] /\ f.new_s = top.new_s /\ f.left = Sharers[top.e]
    BY <1>0, <2>1 DEF Frame, Pc, Event
  <2>3. Set(f)
    BY <1>1 DEF CallAction
  <2> HIDE DEF f
  <2>4. FrameOK(f)
    BY <1>0, <2>1, <2>2 DEF FrameOK, Reach
  <2> QED BY <1>0, <2>2, <2>3, <2>4, FrameStep
<1>2. CASE state[cur] \notin Passes[top.e]
  <2>1. PICK r \in Reply[top.e][state[cur]] :
          Set([top EXCEPT !.pc = "move", !.new_e = r])
    BY <1>2 DEF CallAction
  <2> DEFINE f == [top EXCEPT !.pc = "move", !.new_e = r]
  <2>2. r \in Event /\ Reach(cur, r)
    BY <1>0, ReplyInReach
  <2>3. /\ f \in Frame /\ f.fsm = cur /\ f.pc = "move" /\ f.e = top.e
        /\ f.new_e = r /\ f.new_s = top.new_s /\ f.left = top.left
    BY <1>0, <2>2 DEF Frame, Pc
  <2>4. Set(f)
    BY <2>1
  <2> HIDE DEF f
  <2>5. FrameOK(f)
    BY <1>0, <2>2, <2>3 DEF FrameOK
  <2> QED BY <1>0, <2>3, <2>4, <2>5, FrameStep
<1> QED BY <1>1, <1>2

(* A step that calls a sub-machine. *)
LEMMA CallStep ==
  ASSUME IInv, Busy, top.pc # "entry",
         NEW f, FrameOK(f), f.fsm = cur, f.pc \in {"find", "share"},
         NEW c \in Children(cur), NEW e \in Span(c), Real(e),
         CallSub(f, c, e),
         state' = state, inside' = inside, event' \in [Machine -> Event]
  PROVE  IInv'
<1>1. stack # <<>> /\ StackOK(stack) /\ f.fsm = stack[Len(stack)].fsm
  BY DEF IInv, Busy, cur, top
<1> DEFINE g == NewFrame(c, e)
           t == Append([stack EXCEPT ![Len(stack)] = f], g)
<1>2. /\ c \in Machine \ {0} /\ e \in Nat
      /\ NoEv[c] \in Nat /\ First[c] \in Nat /\ Last[c] \in Nat
      /\ Start[c] \in States[c]
      /\ Children(c) = {} => Last[c] = NoEv[c]
  BY HierarchyAssumption DEF Children, Layout, Tables, Span
<1>3. /\ g \in Frame /\ g.fsm = c /\ g.pc = "while" /\ g.e = e
      /\ g.new_e = NoEv[c] /\ g.new_s = Start[c] /\ g.left = <<>>
  BY <1>2 DEF NewFrame, Frame, Pc, Event, AnyState
<1>4. FrameOK(g)
  <2>1. Reach(c, e)
    BY <1>2 DEF Reach, Span
  <2>2. Reach(c, NoEv[c])
    BY DEF Reach
  <2> QED BY <1>2, <1>3, <2>1, <2>2 DEF FrameOK, Handling
<1> HIDE DEF g
<1>5. StackOK(t) /\ Len(t) = Len(stack) + 1 /\ t[Len(t)] = g
  BY <1>1, <1>3, <1>4, PushTop
<1> HIDE DEF t
<1>6. stack' = t
  BY DEF CallSub, t, g
<1>7. top' = g /\ Busy'
  <2>1. Len(t) > 0
    BY <1>5, <1>1, LenProperties DEF StackOK
  <2> QED BY <1>5, <1>6, <2>1, EmptySeq DEF top, Busy
<1>8. TypeOK'
  BY <1>5, <1>6 DEF IInv, TypeOK, StackOK
<1>9. EntryExitPaired'
  BY <1>3, <1>7 DEF IInv, EntryExitPaired
<1> QED BY <1>5, <1>6, <1>8, <1>9 DEF IInv

LEMMA PassSharedEventInv ==
  ASSUME IInv, Busy, PassSharedEvent PROVE IInv'
<1>0. /\ FrameOK(top) /\ top \in Frame /\ cur \in Machine /\ cur = top.fsm
      /\ top.pc = "share" /\ top.e \in Own(cur) /\ top.left \in Seq(Sharer)
      /\ event' \in [Machine -> Event] /\ state' = state /\ inside' = inside
  BY TopFacts DEF FrameOK, Frame, Handling, PassSharedEvent, IInv, TypeOK, cur
<1>1. CASE top.left # <<>> /\ top.new_e = NoEv[cur]
  <2> DEFINE f == [top EXCEPT !.left = Tail(@)]
             c == Head(top.left).fsm
             e == Head(top.left).event
  <2>1. /\ Tail(top.left) \in Seq(Sharer) /\ Head(top.left) = top.left[1]
        /\ Len(top.left) \in Nat \ {0}
        /\ Len(Tail(top.left)) = Len(top.left) - 1
        /\ \A j \in 1 .. Len(Tail(top.left)) : Tail(top.left)[j] = top.left[j + 1]
    BY <1>0, <1>1, HeadTailProperties, EmptySeq
  <2>2. /\ f \in Frame /\ f.fsm = cur /\ f.pc = "share" /\ f.e = top.e
        /\ f.new_e = top.new_e /\ f.new_s = top.new_s /\ f.left = Tail(top.left)
    BY <1>0, <2>1 DEF Frame
  <2>3. c \in Children(cur) /\ e \in Own(c)
    BY <1>0, <2>1 DEF FrameOK
  <2>4. CallSub(f, c, e)
    BY <1>1 DEF PassSharedEvent
  <2> HIDE DEF f, c, e
  <2>5. ASSUME NEW j \in 1 .. Len(Tail(top.left))
        PROVE  /\ Tail(top.left)[j].fsm \in Children(cur)
               /\ Tail(top.left)[j].event \in Own(Tail(top.left)[j].fsm)
    <3>1. j + 1 \in 1 .. Len(top.left) /\ Tail(top.left)[j] = top.left[j + 1]
      BY <2>1
    <3> QED BY <3>1, <1>0 DEF FrameOK
  <2>6. FrameOK(f)
    BY <1>0, <2>2, <2>5 DEF FrameOK
  <2>7. e \in Span(c) /\ Real(e)
    BY <2>3, HierarchyAssumption DEF Children, Layout, Own, Span, Real
  <2>8. top.pc # "entry" /\ f.pc \in {"find", "share"}
    BY <1>0, <2>2
  <2> QED BY <1>0, <2>2, <2>3, <2>4, <2>6, <2>7, <2>8, CallStep
<1>2. CASE ~(top.left # <<>> /\ top.new_e = NoEv[cur])
  <2> DEFINE f == [top EXCEPT !.pc = "move"]
  <2>1. /\ f \in Frame /\ f.fsm = cur /\ f.pc = "move" /\ f.e = top.e
        /\ f.new_e = top.new_e /\ f.new_s = top.new_s /\ f.left = top.left
    BY <1>0 DEF Frame, Pc
  <2>2. Set(f)
    BY <1>2 DEF PassSharedEvent, Goto
  <2> HIDE DEF f
  <2>3. FrameOK(f)
    BY <1>0, <2>1 DEF FrameOK
  <2> QED BY <1>0, <2>1, <2>2, <2>3, FrameStep
<1> QED BY <1>1, <1>2

(* findAndRunSubMachine, called for an event that is not the machine's own *)
LEMMA FindInv ==
  ASSUME IInv, Busy, top.pc \notin Handling, top.e # NoEv[cur],
         FindAndRunSubMachine,
         state' = state, inside' = inside, event' \in [Machine -> Event]
  PROVE  IInv'
<1>0. /\ FrameOK(top) /\ top \in Frame /\ cur \in Machine /\ cur = top.fsm
      /\ top.e \in Nat /\ top.pc # "entry"
  BY TopFacts DEF cur, Handling
<1>1. CASE \E c \in Machine :
             IsHit(cur, top.e, c) /\ CallSub([top EXCEPT !.pc = "find"], c, top.e)
  <2>1. PICK c \in Machine :
          IsHit(cur, top.e, c) /\ CallSub([top EXCEPT !.pc = "find"], c, top.e)
    BY <1>1
  <2> DEFINE f == [top EXCEPT !.pc = "find"]
  <2>2. /\ f \in Frame /\ f.fsm = cur /\ f.pc = "find" /\ f.e = top.e
        /\ f.new_e = top.new_e /\ f.new_s = top.new_s /\ f.left = top.left
    BY <1>0 DEF Frame, Pc
  <2>3. c \in Children(cur) /\ top.e \in Span(c) /\ Real(top.e)
    BY <2>1, <1>0, HierarchyAssumption
       DEF IsHit, Hit, Span, Layout, FrameOK, Reach
  <2>4. CallSub(f, c, top.e)
    BY <2>1
  <2> HIDE DEF f
  <2>5. FrameOK(f)
    BY <1>0, <2>2 DEF FrameOK, Handling
  <2>6. f.pc \in {"find", "share"}
    BY <2>2
  <2> QED BY <1>0, <2>2, <2>3, <2>4, <2>5, <2>6, CallStep
<1>2. CASE Set([top EXCEPT !.e = NoEv[cur], !.pc = "while"])
  <2> DEFINE f == [top EXCEPT !.e = NoEv[cur], !.pc = "while"]
  <2>1. NoEv[cur] \in Nat
    BY <1>0, HierarchyAssumption DEF Layout
  <2>2. /\ f \in Frame /\ f.fsm = cur /\ f.pc = "while" /\ f.e = NoEv[cur]
        /\ f.new_e = top.new_e /\ f.new_s = top.new_s /\ f.left = top.left
    BY <1>0, <2>1 DEF Frame, Pc, Event
  <2>3. Set(f)
    BY <1>2
  <2> HIDE DEF f
  <2>4. FrameOK(f)
    BY <1>0, <2>1, <2>2 DEF FrameOK, Handling, Reach
  <2> QED BY <1>0, <2>2, <2>3, <2>4, FrameStep
<1> QED BY <1>1, <1>2 DEF FindAndRunSubMachine

LEMMA MoveInv ==
  ASSUME IInv, Busy, NEW next \in Pc \ (Handling \union {"find"}), Move(next)
  PROVE  IInv'
<1>0. /\ FrameOK(top) /\ top \in Frame /\ cur \in Machine /\ cur = top.fsm
      /\ state[cur] \in States[cur] /\ top.pc = "move" /\ top.e \in Own(cur)
      /\ event' \in [Machine -> Event] /\ inside' = inside
      /\ Target[top.e][state[cur]] \subseteq States[cur]
  BY TopFacts, HierarchyAssumption
     DEF FrameOK, Handling, Move, IInv, TypeOK, cur, Tables
<1>1. PICK s \in Target[top.e][state[cur]] :
        IF cur \in HasFns /\ s # state[cur]
        THEN /\ Set([top EXCEPT !.new_s = s, !.pc = "exit"])
             /\ UNCHANGED state
        ELSE /\ Set([top EXCEPT !.e = top.new_e, !.pc = next])
             /\ state' = [state EXCEPT ![cur] = s]
  BY DEF Move
<1>2. s \in States[cur] /\ s \in AnyState
  BY <1>0 DEF AnyState
<1>3. CASE cur \in HasFns /\ s # state[cur]
  <2> DEFINE f == [top EXCEPT !.new_s = s, !.pc = "exit"]
  <2>1. /\ f \in Frame /\ f.fsm = cur /\ f.pc = "exit" /\ f.e = top.e
        /\ f.new_e = top.new_e /\ f.new_s = s /\ f.left = top.left
    BY <1>0, <1>2 DEF Frame, Pc
  <2>2. Set(f) /\ state' = state
    BY <1>1, <1>3
  <2> HIDE DEF f
  <2>3. FrameOK(f)
    BY <1>0, <1>2, <1>3, <2>1 DEF FrameOK
  <2> QED BY <1>0, <2>1, <2>2, <2>3, FrameStep
<1>4. CASE ~(cur \in HasFns /\ s # state[cur])
  <2> DEFINE f == [top EXCEPT !.e = top.new_e, !.pc = next]
             t == [stack EXCEPT ![Len(stack)] = f]
  <2>1. /\ f \in Frame /\ f.fsm = cur /\ f.pc = next /\ f.e = top.new_e
        /\ f.new_e = top.new_e /\ f.new_s = top.new_s /\ f.left = top.left
    BY <1>0 DEF Frame
  <2>2. t = stack' /\ state' = [state EXCEPT ![cur] = s]
    BY <1>1, <1>4 DEF Set
  <2> HIDE DEF f
  <2>3. FrameOK(f)
    BY <1>0, <2>1 DEF FrameOK, Handling
  <2>4. StackOK(t) /\ t[Len(t)] = f /\ t # <<>>
    BY <1>0, <2>1, <2>3, SetTop DEF IInv, Busy, top, cur
  <2> HIDE DEF t
  <2>5. top' = f /\ cur' = cur /\ Busy'
    BY <2>1, <2>2, <2>4 DEF top, cur, Busy
  <2>6. TypeOK'
    BY <1>0, <1>2, <2>2, <2>4 DEF IInv, TypeOK, StackOK
  <2>7. EntryExitPaired'
    <3>1. top.pc # "entry" /\ top'.pc # "entry"
      BY <1>0, <2>1, <2>5 DEF Handling
    <3>2. \A m \in HasFns : state'[m] = state[m]
      BY <1>4, <2>2 DEF IInv, TypeOK
    <3> QED BY <1>0, <3>1, <3>2 DEF IInv, EntryExitPaired
  <2> QED BY <2>2, <2>4, <2>6, <2>7 DEF IInv
<1> QED BY <1>3, <1>4

LEMMA CallExitInv ==
  ASSUME IInv, Busy, CallExit PROVE IInv'
<1>0. /\ FrameOK(top) /\ top \in Frame /\ cur \in Machine /\ cur = top.fsm
      /\ top.pc = "exit" /\ top.e \in Own(cur) /\ cur \in HasFns
      /\ event' = event /\ state' = state
      /\ inside' = [inside EXCEPT ![cur] = Outside]
  BY TopFacts DEF FrameOK, Handling, CallExit, cur
<1> DEFINE f == [top EXCEPT !.pc = "entry"]
           t == [stack EXCEPT ![Len(stack)] = f]
<1>1. /\ f \in Frame /\ f.fsm = cur /\ f.pc = "entry" /\ f.e = top.e
      /\ f.new_e = top.new_e /\ f.new_s = top.new_s /\ f.left = top.left
  BY <1>0 DEF Frame, Pc
<1>2. t = stack'
  BY DEF CallExit, Goto, Set
<1> HIDE DEF f
<1>3. FrameOK(f)
  BY <1>0, <1>1 DEF FrameOK
<1>4. StackOK(t) /\ t[Len(t)] = f /\ t # <<>>
  BY <1>0, <1>1, <1>3, SetTop DEF IInv, Busy, top, cur
<1> HIDE DEF t
<1>5. top' = f /\ cur' = cur /\ Busy'
  BY <1>1, <1>2, <1>4 DEF top, cur, Busy
<1>6. TypeOK'
  BY <1>0, <1>2, <1>4 DEF IInv, TypeOK, StackOK
<1>7. EntryExitPaired'
  BY <1>0, <1>1, <1>5 DEF IInv, TypeOK, EntryExitPaired
<1> QED BY <1>2, <1>4, <1>6, <1>7 DEF IInv

LEMMA CallEntryInv ==
  ASSUME IInv, Busy, NEW next \in Pc \ (Handling \union {"find"}), CallEntry(next)
  PROVE  IInv'
<1>0. /\ FrameOK(top) /\ top \in Frame /\ cur \in Machine /\ cur = top.fsm
      /\ top.pc = "entry" /\ cur \in HasFns /\ event' = event
      /\ top.new_s \in States[cur] /\ top.new_s \in AnyState
      /\ inside' = [inside EXCEPT ![cur] = top.new_s]
      /\ state' = [state EXCEPT ![cur] = top.new_s]
  BY TopFacts DEF FrameOK, Frame, CallEntry, cur
<1> DEFINE f == [top EXCEPT !.e = top.new_e, !.pc = next]
           t == [stack EXCEPT ![Len(stack)] = f]
<1>1. /\ f \in Frame /\ f.fsm = cur /\ f.pc = next /\ f.e = top.new_e
      /\ f.new_e = top.new_e /\ f.new_s = top.new_s /\ f.left = top.left
  BY <1>0 DEF Frame
<1>2. t = stack'
  BY DEF CallEntry, Set
<1> HIDE DEF f
<1>3. FrameOK(f)
  BY <1>0, <1>1 DEF FrameOK, Handling
<1>4. StackOK(t) /\ t[Len(t)] = f /\ t # <<>>
  BY <1>0, <1>1, <1>3, SetTop DEF IInv, Busy, top, cur
<1> HIDE DEF t
<1>5. top' = f /\ cur' = cur /\ Busy'
  BY <1>1, <1>2, <1>4 DEF top, cur, Busy
<1>6. TypeOK'
  BY <1>0, <1>2, <1>4 DEF IInv, TypeOK, StackOK
<1>7. EntryExitPaired'
  BY <1>0, <1>1, <1>5 DEF IInv, TypeOK, EntryExitPaired, Handling
<1> QED BY <1>2, <1>4, <1>6, <1>7 DEF IInv

LEMMA ReturnInv ==
  ASSUME IInv, Busy, top.pc = "while", Return,
         top.e = NoEv[cur] \/ top.e < First[cur]
  PROVE  IInv'
<1>0. /\ FrameOK(top) /\ cur \in Machine /\ cur = top.fsm
      /\ event' = event /\ state' = state /\ inside' = inside
      /\ StackOK(stack) /\ stack \in Seq(Frame) /\ Len(stack) \in Nat \ {0}
      /\ top = stack[Len(stack)]
  BY TopFacts DEF Return, cur, IInv, StackOK, top
<1>1. CASE Len(stack) = 1
  <2>1. stack' = <<>> /\ StackOK(<<>>)
    BY <1>1, EmptySeq DEF Return, StackOK
  <2>2. TypeOK'
    BY <1>0, <2>1 DEF IInv, TypeOK, StackOK
  <2>3. EntryExitPaired'
    BY <1>0, <2>1 DEF IInv, EntryExitPaired, Busy
  <2> QED BY <2>1, <2>2, <2>3 DEF IInv
<1>2. CASE Len(stack) > 1
  <2> DEFINE out == stack[Len(stack) - 1]
             v == IF top.e = NoEv[cur] THEN ParentNoEv(cur) ELSE top.e
             f == IF out.pc = "find" THEN [out EXCEPT !.e = v, !.pc = "while"]
                  ELSE [out EXCEPT !.new_e = v]
             t == [SubSeq(stack, 1, Len(stack) - 1) EXCEPT ![Len(stack) - 1] = f]
  <2>1. stack' = t
    <3>1. Len(stack) # 1
      BY <1>0, <1>2
    <3> QED BY <3>1 DEF Return
  <2>2. /\ Len(stack) - 1 \in 1 .. Len(stack) - 1
        /\ Len(stack) - 1 \in 1 .. Len(stack)
        /\ (Len(stack) - 1) + 1 = Len(stack)
    BY <1>0, <1>2
  <2>3. /\ FrameOK(out) /\ out \in Frame
        /\ out.pc \in {"find", "share"}
        /\ cur # 0 /\ Parent[cur] = out.fsm
    BY <1>0, <2>2 DEF StackOK, FrameOK
  <2>4. v \in Nat /\ Reach(out.fsm, v)
    <3>1. /\ out.fsm \in Machine /\ top.e \in Nat /\ ParentNoEv(cur) = NoEv[out.fsm]
          /\ Reach(cur, top.e)
      BY <1>0, <2>3, TopFacts DEF Frame, ParentNoEv, FrameOK
    <3>2. CASE top.e = NoEv[cur]
      BY <3>1, <3>2, Numbers DEF Reach
    <3>3. CASE top.e # NoEv[cur]
      <4>1. top.e < First[cur] /\ Real(top.e)
        BY <3>1, <3>3 DEF Reach
      <4>2. /\ First[cur] \in Nat /\ NoEv[cur] \in Nat /\ Last[cur] \in Nat
            /\ First[cur] < NoEv[cur] /\ NoEv[cur] <= Last[cur]
            /\ Last[cur] <= Last[out.fsm] /\ Last[out.fsm] \in Nat
        BY <1>0, <2>3, <3>1, Numbers
      <4>3. top.e < Last[out.fsm]
        BY <3>1, <4>1, <4>2
      <4> QED BY <3>1, <3>3, <4>1, <4>3 DEF Reach
    <3> QED BY <3>2, <3>3
  <2> HIDE DEF out, v
  <2>5. /\ f \in Frame /\ f.fsm = out.fsm /\ f.left = out.left
        /\ f.new_s = out.new_s
        /\ f.e \in {out.e, v} /\ f.new_e \in {out.new_e, v}
        /\ \/ f.pc = "while"
           \/ f.pc = out.pc /\ f.e = out.e
    BY <2>3, <2>4 DEF Frame, Pc, Event
  <2> HIDE DEF f
  <2>6. FrameOK(f)
    BY <2>3, <2>4, <2>5 DEF FrameOK, Handling
  <2>7. f.pc # "entry" /\ f.fsm = stack[Len(stack) - 1].fsm
    BY <2>3, <2>5 DEF out
  <2>8. StackOK(t) /\ Len(t) = Len(stack) - 1 /\ t[Len(t)] = f
    BY <1>0, <1>2, <2>6, <2>7, PopTop
  <2> HIDE DEF t
  <2>9. top' = f
    BY <2>1, <2>8 DEF top
  <2>10. TypeOK'
    BY <1>0, <2>1, <2>8 DEF IInv, TypeOK, StackOK
  <2>11. EntryExitPaired'
    BY <1>0, <2>7, <2>9 DEF IInv, EntryExitPaired
  <2> QED BY <2>1, <2>8, <2>10, <2>11 DEF IInv
<1>3. Len(stack) = 1 \/ Len(stack) > 1
  <2>1. \A n \in Nat : n # 0 => n = 1 \/ n > 1
    OBVIOUS
  <2> QED BY <2>1, <1>0
<1> QED BY <1>1, <1>2, <1>3

LEMMA RunInv ==
  ASSUME IInv, NEW e \in UNION {Own(m) : m \in Machine}, Run(e)
  PROVE  IInv'
<1> DEFINE g == NewFrame(0, e)
<1>1. /\ 0 \in Machine /\ e \in Nat /\ NoEv[0] \in Nat /\ Start[0] \in States[0]
      /\ First[0] \in Nat
  <2>1. /\ 0 \in Machine /\ NoEv \in [Machine -> Nat] /\ First \in [Machine -> Nat]
    BY HierarchyAssumption DEF TreeShape, Layout, Machine
  <2>2. e \in Nat
    BY <2>1 DEF Own
  <2>3. Start[0] \in States[0]
    BY <2>1, HierarchyAssumption DEF Tables
  <2> QED BY <2>1, <2>2, <2>3
<1>2. /\ g \in Frame /\ g.fsm = 0 /\ g.pc = "while" /\ g.e = e
      /\ g.new_e = NoEv[0] /\ g.new_s = Start[0] /\ g.left = <<>>
  BY <1>1 DEF NewFrame, Frame, Pc, Event, AnyState
<1>3. FrameOK(g)
  <2>1. Reach(0, e) /\ Reach(0, NoEv[0])
    BY RealInTop DEF Real, Reach
  <2> QED BY <1>1, <1>2, <2>1 DEF FrameOK, Handling
<1>4. stack' = <<g>> /\ state' = state /\ event' = event /\ inside' = inside /\ ~Busy
  BY DEF Run, Busy
<1> HIDE DEF g
<1>5. StackOK(<<g>>)
  BY <1>2, <1>3 DEF StackOK
<1>6. top' = g
  BY <1>4 DEF top
<1>7. TypeOK'
  BY <1>4, <1>5 DEF IInv, TypeOK, StackOK
<1>8. EntryExitPaired'
  BY <1>2, <1>4, <1>6 DEF IInv, EntryExitPaired
<1> QED BY <1>4, <1>5, <1>7, <1>8 DEF IInv

LEMMA InitInv == Init => IInv
<1> SUFFICES ASSUME Init PROVE IInv
  OBVIOUS
<1>1. /\ Start \in [Machine -> AnyState] /\ \A m \in Machine : Start[m] \in States[m]
      /\ First \in [Machine -> Event] /\ HasFns \subseteq Machine
  BY HierarchyAssumption DEF Tables, Layout, Event, AnyState
<1>2. StackOK(<<>>)
  BY EmptySeq DEF StackOK
<1> QED BY <1>1, <1>2 DEF Init, IInv, TypeOK, EntryExitPaired, Busy, StackOK

LEMMA StutterInv == ASSUME IInv, UNCHANGED vars PROVE IInv'
BY DEF IInv, vars, TypeOK, EntryExitPaired, Busy, top, cur

-----------------------------------------------------------------------------
(* What the invariant says of the calls. *)
LEMMA IInvImplies ==
  IInv => TypeOK /\ CallsDescend /\ NotReentered /\ EntryExitPaired
<1> SUFFICES ASSUME IInv PROVE CallsDescend /\ NotReentered
  BY DEF IInv
<1>1. stack \in Seq(Frame) /\ StackOK(stack) /\ Len(stack) \in Nat
  BY DEF IInv, StackOK
<1>2. CallsDescend
  <2>1. Busy => Len(stack) > 0
    BY <1>1, EmptySeq DEF Busy
  <2> QED BY <1>1, <2>1 DEF CallsDescend, StackOK
<1>3. NotReentered
  <2> SUFFICES ASSUME NEW i \in 1 .. Len(stack), NEW j \in 1 .. Len(stack), i # j
               PROVE  stack[i].fsm # stack[j].fsm
    BY DEF NotReentered
  <2>1. stack[i].fsm \in Int /\ stack[j].fsm \in Int
    BY <1>1, HierarchyAssumption DEF StackOK, FrameOK, Frame, Machine, TreeShape
  <2>2. i < j \/ j < i
    BY <1>1
  <2> QED BY <1>1, <2>1, <2>2 DEF StackOK
<1> QED BY <1>2, <1>3
-----------------------------------------------------------------------------
(* What a step may do to the length of the stack, and to the call that a   *)
(* returning one leaves innermost: InhibitRespected and ReturnsOnlyToOthers *)
(* for one step.                                                           *)

GrowsAllowed ==
  Len(stack') > Len(stack) /\ Busy /\ state[cur] \in Inhibits[cur]
    => top.pc = "share"
ReturnsAbove ==
  Len(stack') < Len(stack) /\ Len(stack') > 0 =>
    LET got == stack'[Len(stack')]
        v   == IF got.pc = "share" THEN got.new_e ELSE got.e
    IN  v \notin Span(cur)

LEMMA SetSteady ==
  ASSUME IInv, Busy, NEW f, Set(f) PROVE GrowsAllowed /\ ReturnsAbove
<1>1. stack \in Seq(Frame) /\ Len(stack) \in Nat
  BY DEF IInv, StackOK
<1>2. Len(stack') = Len(stack)
  BY <1>1 DEF Set
<1> QED BY <1>1, <1>2 DEF GrowsAllowed, ReturnsAbove

LEMMA CallGrows ==
  ASSUME IInv, Busy, NEW f \in Frame, NEW m, NEW e, CallSub(f, m, e),
         top.pc = "share" \/ state[cur] \notin Inhibits[cur]
  PROVE  GrowsAllowed /\ ReturnsAbove
<1>1. stack \in Seq(Frame) /\ Len(stack) \in Nat \ {0}
  BY TopFacts DEF IInv, StackOK
<1> DEFINE u == [stack EXCEPT ![Len(stack)] = f]
           g == NewFrame(m, e)
<1>2. stack' = Append(u, g)
  BY DEF CallSub
<1>3. u \in Seq(Frame) /\ Len(u) = Len(stack)
  BY <1>1, ExceptSeq
<1> HIDE DEF u, g
<1>4. Len(stack') = Len(stack) + 1
  BY <1>2, <1>3
<1> QED BY <1>1, <1>4 DEF GrowsAllowed, ReturnsAbove

LEMMA FindGrows ==
  ASSUME IInv, Busy, FindAndRunSubMachine, state[cur] \notin Inhibits[cur]
  PROVE  GrowsAllowed /\ ReturnsAbove
<1>1. CASE \E c \in Machine :
             IsHit(cur, top.e, c) /\ CallSub([top EXCEPT !.pc = "find"], c, top.e)
  <2>1. PICK c \in Machine : CallSub([top EXCEPT !.pc = "find"], c, top.e)
    BY <1>1
  <2> DEFINE f == [top EXCEPT !.pc = "find"]
  <2>2. f \in Frame
    BY TopFacts DEF Frame, Pc
  <2>3. CallSub(f, c, top.e)
    BY <2>1
  <2> HIDE DEF f
  <2> QED BY <2>2, <2>3, CallGrows
<1>2. CASE Set([top EXCEPT !.e = NoEv[cur], !.pc = "while"])
  BY <1>2, SetSteady
<1> QED BY <1>1, <1>2 DEF FindAndRunSubMachine

LEMMA PassGrows ==
  ASSUME IInv, Busy, PassSharedEvent PROVE GrowsAllowed /\ ReturnsAbove
<1>1. top \in Frame /\ top.pc = "share"
  BY TopFacts DEF PassSharedEvent
<1>2. CASE top.left # <<>> /\ top.new_e = NoEv[cur]
  <2> DEFINE f == [top EXCEPT !.left = Tail(@)]
             m == Head(top.left).fsm
             e == Head(top.left).event
  <2>1. Tail(top.left) \in Seq(Sharer)
    BY <1>1, <1>2 DEF Frame
  <2>2. f \in Frame
    BY <1>1, <2>1 DEF Frame
  <2>3. CallSub(f, m, e)
    BY <1>2 DEF PassSharedEvent
  <2> HIDE DEF f, m, e
  <2> QED BY <1>1, <2>2, <2>3, CallGrows
<1>3. CASE Goto("move")
  BY <1>3, SetSteady DEF Goto
<1> QED BY <1>2, <1>3 DEF PassSharedEvent

LEMMA WorkSteady ==
  ASSUME IInv, Busy, NEW next,
         CallAction \/ Move(next) \/ CallExit \/ CallEntry(next)
  PROVE  GrowsAllowed /\ ReturnsAbove
<1>1. \E f : Set(f)
  BY DEF CallAction, Move, CallExit, CallEntry, Goto
<1> QED BY <1>1, SetSteady

LEMMA ReturnAbove ==
  ASSUME IInv, Busy, top.pc = "while", Return,
         top.e = NoEv[cur] \/ (cur # 0 /\ top.e < First[cur])
  PROVE  GrowsAllowed /\ ReturnsAbove
<1> DEFINE n == Len(stack)
<1>1. /\ FrameOK(top) /\ cur \in Machine /\ cur = top.fsm /\ StackOK(stack)
      /\ stack \in Seq(Frame) /\ n \in Nat \ {0} /\ top = stack[n] /\ n = Len(stack)
  BY TopFacts DEF cur, IInv, StackOK, top
<1> HIDE DEF n
<1>2. CASE n = 1
  <2>1. Len(stack') = 0
    BY <1>1, <1>2 DEF Return
  <2> QED BY <1>1, <1>2, <2>1 DEF GrowsAllowed, ReturnsAbove
<1>3. CASE n > 1
  <2> DEFINE out == stack[n - 1]
             v == IF top.e = NoEv[cur] THEN ParentNoEv(cur) ELSE top.e
             f == IF out.pc = "find" THEN [out EXCEPT !.e = v, !.pc = "while"]
                  ELSE [out EXCEPT !.new_e = v]
             u == SubSeq(stack, 1, n - 1)
  <2>1. stack' = [u EXCEPT ![n - 1] = f]
    BY <1>1, <1>3 DEF Return
  <2>2. n - 1 \in 1 .. n - 1 /\ u \in Seq(Frame) /\ Len(u) = n - 1 /\ (n - 1) + 1 = n
        /\ n - 1 \in 1 .. n
    BY <1>1, <1>3, SubSeqProperties
  <2>3. out \in Frame /\ out.pc \in {"find", "share"} /\ cur # 0
        /\ Parent[cur] = out.fsm
    BY <1>1, <2>2 DEF StackOK, FrameOK
  <2>4. v \notin Span(cur)
    <3>1. CASE top.e = NoEv[cur]
      BY <1>1, <2>3, <3>1, Numbers DEF ParentNoEv, Span
    <3>2. CASE top.e # NoEv[cur]
      BY <1>1, <3>2, TopFacts, Numbers DEF Span
    <3> QED BY <3>1, <3>2
  <2> HIDE DEF out, u, v
  <2>5. /\ out.pc = "find" => f.pc = "while" /\ f.e = v
        /\ out.pc = "share" => f.pc = "share" /\ f.new_e = v
    BY <2>3 DEF Frame
  <2> HIDE DEF f
  <2>6. Len(stack') = n - 1 /\ stack'[n - 1] = f
    BY <2>1, <2>2
  <2>7. (IF f.pc = "share" THEN f.new_e ELSE f.e) = v
    BY <2>3, <2>5
  <2> QED BY <1>1, <2>4, <2>6, <2>7 DEF GrowsAllowed, ReturnsAbove
<1>4. n = 1 \/ n > 1
  BY <1>1
<1> QED BY <1>2, <1>3, <1>4

LEMMA RunGrows ==
  ASSUME NEW e, Run(e) PROVE GrowsAllowed /\ ReturnsAbove
<1>1. stack = <<>> /\ Len(stack) = 0 /\ ~Busy
  BY DEF Run, Busy
<1>2. Len(stack') = 1
  BY DEF Run
<1> QED BY <1>1, <1>2 DEF GrowsAllowed, ReturnsAbove

-----------------------------------------------------------------------------
(* How the steps all generators share keep the promise of RunToCompletion. *)
(* Two things beyond IInv are needed: what a call that is past its action  *)
(* remembers is still what the cell of its event and state holds (Held),   *)
(* and how the promise's variables follow from the stack after each of the *)
(* three things a step does to it.                                         *)

(* The call f in the states st: a call that passes its event is in a state *)
(* that does, and goes on when it is answered or nobody is left to ask;    *)
(* otherwise new_e is what the cell's action returned; and new_s is a      *)
(* state the cell leads to.                                                *)
WorksIn(st, f) ==
  LET s == st[f.fsm] IN
  /\ f.pc = "share" => s \in Passes[f.e]
  /\ f.pc \in {"move", "exit", "entry"} =>
       IF s \in Passes[f.e] THEN f.new_e # NoEv[f.fsm] \/ f.left = <<>>
       ELSE f.new_e \in Reply[f.e][s]
  /\ f.pc \in {"exit", "entry"} => f.new_s \in Target[f.e][s]

Held == \A i \in 1 .. Len(stack) : WorksIn(state, stack[i])

-----------------------------------------------------------------------------
(* The promise's variables as functions of the states and the stack. *)

SharingIn(st, f) == f.pc \in {"share", "move", "exit", "entry"}
                    /\ st[f.fsm] \in Passes[f.e]
EventIn(st, f) == LET e == IF SharingIn(st, f) THEN f.new_e ELSE f.e
                  IN  IF e = NoEv[f.fsm] THEN -1 ELSE e
NoOffer == [e |-> -1, left |-> <<>>]
OfferIn(st, f) == IF SharingIn(st, f) THEN [e |-> f.e, left |-> f.left] ELSE NoOffer
CallsIn(s, m) == {i \in 1 .. Len(s) : s[i].fsm = m}
OffersIn(st, s) == [m \in Machine |->
  IF CallsIn(s, m) = {} THEN NoOffer
  ELSE OfferIn(st, s[CHOOSE i \in CallsIn(s, m) : TRUE])]

LEMMA Mapping ==
  /\ Pending = IF Busy THEN EventIn(state, top) ELSE -1
  /\ Offering = OffersIn(state, stack)
BY DEF Pending, EventIn, EventOf, SharingIn, Sharing, Offering, OffersIn,
       OfferIn, OfferOf, CallsIn, CallsOf, NoOffer

LEMMA OffersAt ==
  ASSUME NEW s, NEW st, StackOK(s), NEW i \in 1 .. Len(s)
  PROVE  s[i].fsm \in Machine /\ OffersIn(st, s)[s[i].fsm] = OfferIn(st, s[i])
<1>1. s[i].fsm \in Machine
  BY DEF StackOK, FrameOK, Frame
<1>2. i \in CallsIn(s, s[i].fsm)
  BY DEF CallsIn
<1> DEFINE k == CHOOSE j \in CallsIn(s, s[i].fsm) : TRUE
<1>3. k \in CallsIn(s, s[i].fsm)
  BY <1>2
<1> HIDE DEF k
<1>4. k = i
  <2>1. k \in 1 .. Len(s) /\ s[k].fsm = s[i].fsm
    BY <1>3 DEF CallsIn
  <2>2. Len(s) \in Nat /\ k \in Int /\ i \in Int /\ s[i].fsm \in Nat
    <3>1. Len(s) \in Nat
      BY DEF StackOK
    <3> QED BY <1>1, <2>1, <3>1, Numbers
  <2>3. ~(k < i) /\ ~(i < k)
    BY <2>1, <2>2 DEF StackOK
  <2> QED BY <2>2, <2>3
<1>5. OffersIn(st, s)[s[i].fsm] = OfferIn(st, s[k])
  BY <1>1, <1>2 DEF OffersIn, k
<1> QED BY <1>1, <1>4, <1>5

LEMMA OffersElse ==
  ASSUME NEW s, NEW st, NEW m \in Machine, \A i \in 1 .. Len(s) : s[i].fsm # m
  PROVE  OffersIn(st, s)[m] = NoOffer
BY DEF OffersIn, CallsIn

(* the innermost call changes, and its machine's state *)
LEMMA OffersChange ==
  ASSUME NEW s, NEW t, NEW st, NEW new, StackOK(s), StackOK(t), s # <<>>,
         Len(t) = Len(s), \A j \in 1 .. Len(s) - 1 : t[j] = s[j],
         t[Len(s)].fsm = s[Len(s)].fsm,
         \A m \in Machine \ {s[Len(s)].fsm} : new[m] = st[m]
  PROVE  OffersIn(new, t) =
           [OffersIn(st, s) EXCEPT ![s[Len(s)].fsm] = OfferIn(new, t[Len(s)])]
<1> DEFINE n == Len(s)
           A == OffersIn(st, s)
           B == OffersIn(new, t)
<1>1. n \in Nat \ {0} /\ n \in 1 .. Len(s) /\ n \in 1 .. Len(t)
  BY EmptySeq DEF StackOK
<1>2. s[n].fsm \in Machine
  BY <1>1, OffersAt
<1>3. A = [m \in Machine |-> A[m]] /\ B = [m \in Machine |-> B[m]]
  BY DEF OffersIn
<1>4. B[s[n].fsm] = OfferIn(new, t[n])
  BY <1>1, OffersAt
<1>5. ASSUME NEW m \in Machine, m # s[n].fsm PROVE B[m] = A[m]
  <2>1. CASE \A i \in 1 .. Len(s) : s[i].fsm # m
    <3>1. \A i \in 1 .. Len(t) : t[i].fsm # m
      <4> TAKE i \in 1 .. Len(t)
      <4>1. i = n \/ i \in 1 .. n - 1
        BY <1>1
      <4> QED BY <4>1, <1>1, <1>5, <2>1
    <3> QED BY <2>1, <3>1, OffersElse
  <2>2. CASE \E i \in 1 .. Len(s) : s[i].fsm = m
    <3>1. PICK i \in 1 .. Len(s) : s[i].fsm = m
      BY <2>2
    <3>2. i \in 1 .. n - 1 /\ i \in 1 .. Len(t)
      BY <1>1, <1>5, <3>1
    <3>3. t[i] = s[i] /\ new[m] = st[m]
      BY <1>5, <3>2
    <3>4. A[m] = OfferIn(st, s[i]) /\ B[m] = OfferIn(new, t[i])
      BY <3>1, <3>2, <3>3, OffersAt
    <3> QED BY <3>1, <3>3, <3>4 DEF OfferIn, SharingIn
  <2> QED BY <2>1, <2>2
<1> HIDE DEF A, B
<1>6. B = [A EXCEPT ![s[n].fsm] = OfferIn(new, t[n])]
  BY <1>2, <1>3, <1>4, <1>5
<1> QED BY <1>6 DEF A, B

LEMMA OffersSet ==
  ASSUME NEW s, NEW t, NEW st, StackOK(s), StackOK(t), s # <<>>,
         Len(t) = Len(s), \A j \in 1 .. Len(s) - 1 : t[j] = s[j],
         t[Len(s)].fsm = s[Len(s)].fsm
  PROVE  OffersIn(st, t) =
           [OffersIn(st, s) EXCEPT ![s[Len(s)].fsm] = OfferIn(st, t[Len(s)])]
<1> DEFINE new == st
<1>1. \A m \in Machine \ {s[Len(s)].fsm} : new[m] = st[m]
  OBVIOUS
<1> HIDE DEF new
<1>2. OffersIn(new, t) =
        [OffersIn(st, s) EXCEPT ![s[Len(s)].fsm] = OfferIn(new, t[Len(s)])]
  BY <1>1, OffersChange, ZenonT(60)
<1> QED BY <1>2 DEF new

(* a call at its loop passes nothing: with or without it is the same *)
LEMMA OffersPush ==
  ASSUME NEW s, NEW t, NEW st, StackOK(s), StackOK(t), Len(t) = Len(s) + 1,
         \A j \in 1 .. Len(s) : t[j] = s[j], t[Len(t)].pc = "while"
  PROVE  OffersIn(st, t) = OffersIn(st, s)
<1> DEFINE A == OffersIn(st, s)
           B == OffersIn(st, t)
<1>1. Len(s) \in Nat /\ Len(t) \in 1 .. Len(t)
  BY DEF StackOK
<1>2. A = [m \in Machine |-> A[m]] /\ B = [m \in Machine |-> B[m]]
  BY DEF OffersIn
<1>3. B[t[Len(t)].fsm] = NoOffer
  <2>1. B[t[Len(t)].fsm] = OfferIn(st, t[Len(t)])
    BY <1>1, OffersAt
  <2> QED BY <2>1 DEF OfferIn, SharingIn
<1>4. ASSUME NEW m \in Machine PROVE B[m] = A[m]
  <2>1. CASE \E i \in 1 .. Len(s) : s[i].fsm = m
    <3>1. PICK i \in 1 .. Len(s) : s[i].fsm = m
      BY <2>1
    <3>2. i \in 1 .. Len(t) /\ t[i] = s[i]
      BY <1>1, <3>1
    <3>3. A[m] = OfferIn(st, s[i]) /\ B[m] = OfferIn(st, t[i])
      BY <3>1, <3>2, OffersAt
    <3> QED BY <3>2, <3>3
  <2>2. CASE \A i \in 1 .. Len(s) : s[i].fsm # m
    <3>1. A[m] = NoOffer
      BY <2>2, OffersElse
    <3>2. CASE t[Len(t)].fsm = m
      BY <1>3, <3>1, <3>2
    <3>3. CASE t[Len(t)].fsm # m
      <4>1. \A i \in 1 .. Len(t) : t[i].fsm # m
        <5> TAKE i \in 1 .. Len(t)
        <5>1. i = Len(t) \/ i \in 1 .. Len(s)
          BY <1>1
        <5> QED BY <5>1, <2>2, <3>3
      <4> QED BY <3>1, <4>1, OffersElse
    <3> QED BY <3>2, <3>3
  <2> QED BY <2>1, <2>2
<1> HIDE DEF A, B
<1>5. B = A
  BY <1>2, <1>4
<1> QED BY <1>5 DEF A, B

-----------------------------------------------------------------------------
(* The same for the three things a step does to the stack.  The states of  *)
(* the calls that wait do not change, so what they remember still holds.   *)

LEMMA StackFacts ==
  ASSUME IInv, Busy
  PROVE  /\ StackOK(stack) /\ stack \in Seq(Frame) /\ Len(stack) \in Nat \ {0}
         /\ Len(stack) \in 1 .. Len(stack) /\ top = stack[Len(stack)]
         /\ cur = top.fsm /\ cur \in Machine /\ cur \in Nat
         /\ At = cur /\ Pending = EventIn(state, top)
         /\ Offering[cur] = OfferIn(state, top)
         /\ Offering = OffersIn(state, stack)
<1>1. StackOK(stack) /\ stack \in Seq(Frame) /\ Len(stack) \in Nat \ {0}
  BY EmptySeq DEF IInv, StackOK, Busy
<1>2. Len(stack) \in 1 .. Len(stack) /\ top = stack[Len(stack)] /\ cur = top.fsm
  BY <1>1 DEF top, cur
<1>3. /\ cur \in Machine /\ OffersIn(state, stack)[cur] = OfferIn(state, top)
  BY <1>1, <1>2, OffersAt
<1> QED BY <1>1, <1>2, <1>3, Mapping, Numbers DEF At

(* the calls that wait are of other machines than the innermost *)
LEMMA OthersWait ==
  ASSUME IInv, Busy, Held, NEW new, \A m \in Machine \ {cur} : new[m] = state[m],
         NEW i \in 1 .. Len(stack) - 1
  PROVE  /\ i \in 1 .. Len(stack) /\ stack[i].fsm \in Machine \ {cur}
         /\ WorksIn(new, stack[i])
<1>1. i \in 1 .. Len(stack) /\ i < Len(stack)
  BY StackFacts
<1>2. stack[i].fsm \in Machine /\ stack[i].fsm < cur
  BY <1>1, StackFacts, OffersAt DEF StackOK
<1>3. stack[i].fsm # cur
  BY <1>2, StackFacts, Numbers
<1>4. WorksIn(state, stack[i])
  BY <1>1 DEF Held
<1> QED BY <1>1, <1>2, <1>3, <1>4 DEF WorksIn

LEMMA SetKept ==
  ASSUME IInv, IInv', Busy, Held, NEW f, f.fsm = cur, Set(f),
         \A m \in Machine \ {cur} : state'[m] = state[m], WorksIn(state', f)
  PROVE  /\ Held' /\ At' = cur /\ Pending' = EventIn(state', f)
         /\ Offering' = [Offering EXCEPT ![cur] = OfferIn(state', f)]
<1> DEFINE n == Len(stack)
           t == [stack EXCEPT ![n] = f]
<1>1. stack' = t
  BY DEF Set
<1>2. /\ Len(t) = n /\ t[n] = f
      /\ \A j \in 1 .. n - 1 : t[j] = stack[j]
      /\ \A j \in 1 .. n : j = n \/ j \in 1 .. n - 1
  <2>1. stack \in Seq(Frame) /\ n \in 1 .. n
    BY StackFacts
  <2> QED BY <2>1
<1> HIDE DEF t
<1>3. StackOK(t)
  BY <1>1 DEF IInv
<1>4. Len(t) > 0 /\ t # <<>>
  BY <1>2, <1>3, StackFacts, EmptySeq
<1>5. Busy' /\ top' = f /\ cur' = cur
  BY <1>1, <1>2, <1>4 DEF Busy, top, cur
<1>6. Held'
  <2> SUFFICES ASSUME NEW j \in 1 .. n PROVE WorksIn(state', t[j])
    BY <1>1, <1>2 DEF Held
  <2>1. CASE j = n
    BY <1>2, <2>1
  <2>2. CASE j \in 1 .. n - 1
    BY <1>2, <2>2, OthersWait
  <2> QED BY <1>2, <2>1, <2>2
<1>7. OffersIn(state', t) = [OffersIn(state, stack) EXCEPT ![cur] = OfferIn(state', f)]
  <2>1. stack # <<>> /\ StackOK(stack) /\ cur = stack[n].fsm
    BY StackFacts DEF Busy
  <2>2. /\ t[n].fsm = stack[n].fsm /\ t[n] = f
        /\ \A m \in Machine \ {stack[n].fsm} : state'[m] = state[m]
    BY <1>2, <2>1
  <2>3. OffersIn(state', t) =
          [OffersIn(state, stack) EXCEPT ![stack[n].fsm] = OfferIn(state', t[n])]
    BY <1>2, <1>3, <2>1, <2>2, OffersChange, ZenonT(60)
  <2> QED BY <2>1, <2>2, <2>3
<1>8. Offering' = OffersIn(state', t)
  BY <1>1 DEF Offering, OffersIn, OfferIn, OfferOf, SharingIn, Sharing, CallsIn,
              CallsOf, NoOffer
<1>9. Pending' = EventIn(state', f)
  BY <1>5 DEF Pending, EventIn, EventOf, SharingIn, Sharing
<1> QED BY <1>5, <1>6, <1>7, <1>8, <1>9, StackFacts DEF At

LEMMA CallKept ==
  ASSUME IInv, IInv', Busy, Held, NEW f, FrameOK(f), f.fsm = cur,
         NEW c \in Machine, NEW e, e # NoEv[c], CallSub(f, c, e),
         state' = state, WorksIn(state, f)
  PROVE  /\ Held' /\ At' = c /\ Pending' = e
         /\ Offering' = [Offering EXCEPT ![cur] = OfferIn(state, f)]
<1> DEFINE n == Len(stack)
           u == [stack EXCEPT ![n] = f]
           g == NewFrame(c, e)
           t == Append(u, g)
<1>0. stack \in Seq(Frame) /\ n \in 1 .. n /\ stack # <<>> /\ StackOK(stack)
      /\ cur = stack[n].fsm
  BY StackFacts DEF Busy
<1>1. stack' = t
  BY DEF CallSub
<1>2. StackOK(u)
  BY <1>0, SetTop
<1>3. /\ u \in Seq(Frame) /\ Len(u) = n /\ u[n] = f
      /\ \A j \in 1 .. n - 1 : u[j] = stack[j]
      /\ \A j \in 1 .. n : j = n \/ j \in 1 .. n - 1
  BY <1>0, <1>2 DEF StackOK
<1>4. g.fsm = c /\ g.pc = "while" /\ g.e = e
  BY DEF NewFrame
<1> HIDE DEF u, g
<1>5. /\ Len(t) = n + 1 /\ t[n + 1] = g /\ \A j \in 1 .. n : t[j] = u[j]
      /\ \A j \in 1 .. n + 1 : j = n + 1 \/ j \in 1 .. n
  BY <1>0, <1>3
<1> HIDE DEF t
<1>6. StackOK(t) /\ t # <<>>
  BY <1>0, <1>1, <1>5, EmptySeq DEF IInv
<1>7. Busy' /\ top' = g /\ cur' = c
  BY <1>1, <1>4, <1>5, <1>6 DEF Busy, top, cur
<1>8. Held'
  <2> SUFFICES ASSUME NEW j \in 1 .. n + 1 PROVE WorksIn(state, t[j])
    BY <1>1, <1>5 DEF Held
  <2>1. CASE j = n + 1
    BY <1>4, <1>5, <2>1 DEF WorksIn
  <2>2. CASE j = n
    BY <1>0, <1>3, <1>5, <2>2
  <2>3. CASE j \in 1 .. n - 1
    <3>1. t[j] = stack[j]
      BY <1>3, <1>5, <2>3
    <3> QED BY <2>3, <3>1, OthersWait
  <2> QED BY <1>3, <1>5, <2>1, <2>2, <2>3
<1>9. OffersIn(state, u) = [OffersIn(state, stack) EXCEPT ![cur] = OfferIn(state, f)]
  <2>1. u[n].fsm = stack[n].fsm
    BY <1>0, <1>3
  <2>2. Len(u) = Len(stack) /\ \A j \in 1 .. Len(stack) - 1 : u[j] = stack[j]
    BY <1>3
  <2>3. OffersIn(state, u) =
          [OffersIn(state, stack) EXCEPT ![stack[n].fsm] = OfferIn(state, u[n])]
    BY <1>0, <1>2, <2>1, <2>2, OffersSet
  <2> QED BY <1>0, <1>3, <2>3
<1>10. OffersIn(state, t) = OffersIn(state, u)
  BY <1>2, <1>3, <1>4, <1>5, <1>6, OffersPush
<1>11. Offering' = OffersIn(state, t)
  BY <1>1 DEF Offering, OffersIn, OfferIn, OfferOf, SharingIn, Sharing, CallsIn,
              CallsOf, NoOffer
<1>12. Pending' = e
  BY <1>4, <1>7 DEF Pending, EventOf, Sharing
<1> QED BY <1>7, <1>8, <1>9, <1>10, <1>11, <1>12, StackFacts DEF At

(* A call of a machine that is done returns: the promise's work goes up.   *)
LEMMA ReturnKept ==
  ASSUME IInv, IInv', Busy, Held, top.pc = "while", Return,
         top.e = NoEv[cur] \/ (cur # 0 /\ top.e < First[cur])
  PROVE  /\ Held' /\ At' = (IF cur = 0 THEN -1 ELSE Parent[cur])
         /\ Pending' = Pending /\ Offering' = Offering
<1> DEFINE n == Len(stack)
<1>0. /\ stack \in Seq(Frame) /\ n \in Nat \ {0} /\ n \in 1 .. n /\ StackOK(stack)
      /\ cur = stack[n].fsm /\ top = stack[n] /\ FrameOK(top) /\ cur \in Machine
      /\ state' = state /\ Offering = OffersIn(state, stack)
      /\ Pending = IF top.e = NoEv[cur] THEN -1 ELSE top.e
      /\ n = Len(stack)
  BY StackFacts, TopFacts DEF Return, EventIn, SharingIn
<1> HIDE DEF n
<1>1. Offering' = OffersIn(state, stack')
  BY <1>0 DEF Offering, OffersIn, OfferIn, OfferOf, SharingIn, Sharing, CallsIn,
              CallsOf, NoOffer
<1>2. CASE n = 1
  <2>1. stack' = <<>> /\ StackOK(<<>>)
    BY <1>0, <1>2 DEF Return, IInv
  <2>2. cur = 0 /\ top.e = NoEv[cur]
    BY <1>0, <1>2 DEF StackOK
  <2>3. ~Busy' /\ Held'
    BY <2>1 DEF Busy, Held
  <2>4. OffersIn(state, stack) = OffersIn(state, <<>>)
    <3>1. Len(<<>>) = 0 /\ \A j \in 1 .. Len(<<>>) : stack[j] = (<<>>)[j]
      OBVIOUS
    <3>2. Len(stack) = Len(<<>>) + 1 /\ stack[Len(stack)].pc = "while"
      BY <1>0, <1>2, <3>1
    <3> QED BY <1>0, <2>1, <3>1, <3>2, OffersPush
  <2> QED BY <1>0, <1>1, <2>1, <2>2, <2>3, <2>4 DEF At, Pending
<1>3. CASE n > 1
  <2> DEFINE out == stack[n - 1]
             v == IF top.e = NoEv[cur] THEN ParentNoEv(cur) ELSE top.e
             f == IF out.pc = "find" THEN [out EXCEPT !.e = v, !.pc = "while"]
                  ELSE [out EXCEPT !.new_e = v]
             u == SubSeq(stack, 1, n - 1)
             t == [u EXCEPT ![n - 1] = f]
  <2>1. stack' = t
    <3>1. Len(stack) # 1
      BY <1>0, <1>3
    <3> QED BY <3>1 DEF Return, n
  <2>2. /\ n - 1 \in 1 .. n - 1 /\ n - 1 \in 1 .. n /\ (n - 1) + 1 = n
        /\ u \in Seq(Frame) /\ Len(u) = n - 1
        /\ \A j \in 1 .. n - 1 : u[j] = stack[j]
    BY <1>0, <1>3, SubSeqProperties
  <2>3. /\ FrameOK(out) /\ out \in Frame /\ out.pc \in {"find", "share"}
        /\ cur # 0 /\ Parent[cur] = out.fsm /\ out.fsm \in Machine
    <3>1. stack[n - 1] \in Frame /\ FrameOK(stack[n - 1]) /\ stack[n - 1].pc \in {"find", "share"}
      BY <1>0, <2>2 DEF StackOK
    <3>2. cur # 0 /\ Parent[cur] = stack[n - 1].fsm
      BY <1>0, <2>2 DEF StackOK
    <3> QED BY <3>1, <3>2 DEF FrameOK, Frame
  <2> HIDE DEF out, u, v, f
  <2>4. /\ Len(t) = n - 1 /\ t[n - 1] = f /\ \A j \in 1 .. n - 2 : t[j] = stack[j]
        /\ u[n - 1] = out /\ \A j \in 1 .. n - 1 : j = n - 1 \/ j \in 1 .. n - 2
        /\ (n - 1) - 1 = n - 2 /\ \A j \in 1 .. n - 2 : j \in 1 .. n - 1
    <3>1. n - 1 \in Nat /\ \A j \in 1 .. n - 2 : j \in 1 .. n - 1 /\ j # n - 1
      BY <1>0, <1>3
    <3>2. Len(t) = n - 1 /\ t[n - 1] = f /\ \A j \in 1 .. n - 2 : t[j] = stack[j]
      BY <2>2, <3>1
    <3>3. u[n - 1] = out
      BY <2>2 DEF out
    <3>4. /\ \A j \in 1 .. n - 1 : j = n - 1 \/ j \in 1 .. n - 2
          /\ (n - 1) - 1 = n - 2
      BY <1>0, <3>1
    <3> QED BY <3>1, <3>2, <3>3, <3>4
  <2>5. /\ f.fsm = out.fsm /\ f.left = out.left /\ f.new_s = out.new_s
        /\ out.pc = "find" => f.pc = "while" /\ f.e = v
        /\ out.pc = "share" => f.pc = "share" /\ f.e = out.e /\ f.new_e = v
    BY <2>3 DEF Frame, f
  <2>6. WorksIn(state, out)
    BY <1>0, <2>2 DEF Held, out
  <2> HIDE DEF t
  <2>7. StackOK(t) /\ t # <<>>
    <3>1. StackOK(t)
      BY <2>1 DEF IInv
    <3>2. Len(t) # 0
      BY <1>0, <1>3, <2>4
    <3> QED BY <3>1, <3>2
  <2>8. Busy' /\ top' = f /\ cur' = out.fsm
    BY <2>1, <2>4, <2>5, <2>7 DEF Busy, top, cur
  <2>9. WorksIn(state, f)
    BY <2>3, <2>5, <2>6 DEF WorksIn
  <2>10. Held'
    <3> SUFFICES ASSUME NEW j \in 1 .. n - 1 PROVE WorksIn(state, t[j])
      BY <1>0, <2>1, <2>4 DEF Held
    <3>1. CASE j = n - 1
      BY <2>4, <2>9, <3>1
    <3>2. CASE j \in 1 .. n - 2
      BY <1>0, <2>4, <3>2, OthersWait
    <3> QED BY <2>4, <3>1, <3>2
  <2>11. OffersIn(state, t) = OffersIn(state, stack)
    <3>1. StackOK(u) /\ u # <<>>
      <4>1. FrameOK(out) /\ out.fsm = stack[n - 1].fsm
        BY <2>3 DEF out
      <4>2. t = [SubSeq(stack, 1, n - 1) EXCEPT ![n - 1] = f]
        BY DEF t, u
      <4>3. StackOK([SubSeq(stack, 1, n - 1) EXCEPT ![n - 1] = out])
        BY <1>0, <1>3, <4>1, PopTop
      <4>4. [u EXCEPT ![n - 1] = out] = u
        <5>1. u = [j \in 1 .. Len(u) |-> u[j]]
          BY <2>2
        <5> QED BY <2>4, <5>1
      <4>5. StackOK(u)
        BY <4>3, <4>4 DEF u
      <4>6. n - 1 > 0
        BY <1>0, <1>3
      <4> QED BY <2>2, <4>5, <4>6, EmptySeq
    <3>2. OffersIn(state, stack) = OffersIn(state, u)
      <4>1. Len(stack) = Len(u) + 1 /\ stack[Len(stack)].pc = "while"
        BY <1>0, <2>2
      <4>2. \A j \in 1 .. Len(u) : stack[j] = u[j]
        BY <2>2
      <4> QED BY <1>0, <3>1, <4>1, <4>2, OffersPush
    <3>3. OffersIn(state, t) = [OffersIn(state, u) EXCEPT ![out.fsm] = OfferIn(state, f)]
      <4>1. u[Len(u)].fsm = out.fsm /\ t[Len(u)] = f /\ t[Len(u)].fsm = u[Len(u)].fsm
        BY <2>2, <2>4, <2>5
      <4>2. Len(t) = Len(u) /\ \A j \in 1 .. Len(u) - 1 : t[j] = u[j]
        BY <2>2, <2>4
      <4>3. OffersIn(state, t) =
              [OffersIn(state, u) EXCEPT ![u[Len(u)].fsm] = OfferIn(state, t[Len(u)])]
        BY <2>7, <3>1, <4>1, <4>2, OffersSet
      <4> QED BY <4>1, <4>3
    <3>4. OfferIn(state, f) = OfferIn(state, out)
      BY <2>3, <2>5 DEF OfferIn, SharingIn
    <3>5. OffersIn(state, u)[out.fsm] = OfferIn(state, out)
      <4>1. n - 1 \in 1 .. Len(u) /\ u[n - 1].fsm = out.fsm
        BY <2>2, <2>4
      <4> QED BY <2>4, <3>1, <4>1, OffersAt
    <3> QED BY <3>2, <3>3, <3>4, <3>5 DEF OffersIn
  <2>12. Pending' = Pending
    <3>1. Pending' = EventIn(state, f)
      BY <1>0, <2>8 DEF Pending, EventIn, EventOf, SharingIn, Sharing
    <3>2. EventIn(state, f) = IF v = NoEv[out.fsm] THEN -1 ELSE v
      BY <2>3, <2>5, <2>9 DEF EventIn, SharingIn, WorksIn
    <3>3. CASE top.e = NoEv[cur]
      BY <1>0, <2>3, <3>1, <3>2, <3>3 DEF v, ParentNoEv
    <3>4. CASE top.e # NoEv[cur]
      <4>1. Real(top.e)
        BY <1>0, <3>4 DEF FrameOK, Reach
      <4>2. top.e # NoEv[out.fsm]
        BY <2>3, <4>1, NoEvNotReal
      <4> QED BY <1>0, <3>1, <3>2, <3>4, <4>2 DEF v
    <3> QED BY <3>3, <3>4
  <2> QED BY <1>0, <1>1, <2>1, <2>3, <2>8, <2>10, <2>11, <2>12 DEF At
<1>4. n = 1 \/ n > 1
  BY <1>0
<1> QED BY <1>2, <1>3, <1>4
-----------------------------------------------------------------------------
(* The promise's actions, read off the calls. *)

LEMMA Stutters ==
  ASSUME state' = state, At' = At, Pending' = Pending, Offering' = Offering
  PROVE  [Promise!AbsNext]_(Promise!absvars)
BY DEF Promise!absvars

LEMMA Handles ==
  ASSUME At # -1, Offering[At] = NoOffer, Pending \in Own(At),
         state[At] \notin Passes[Pending],
         NEW r \in Reply[Pending][state[At]], NEW s \in Target[Pending][state[At]],
         state' = [state EXCEPT ![At] = s],
         Pending' = IF r = NoEv[At] THEN -1 ELSE r,
         At' = At, Offering' = Offering
  PROVE  Promise!AbsNext
<1>1. Promise!Handle
  BY DEF Promise!Handle, Promise!Free, Promise!Idle, Promise!None, Promise!NoOffer,
         Promise!Told, Promise!Own, Own, NoOffer
<1> QED BY <1>1 DEF Promise!AbsNext, Promise!Work

LEMMA Offers ==
  ASSUME At # -1, Offering[At] = NoOffer, Pending \in Own(At),
         state[At] \in Passes[Pending],
         Offering' = [Offering EXCEPT ![At] = [e |-> Pending, left |-> Sharers[Pending]]],
         Pending' = -1, At' = At, state' = state
  PROVE  Promise!AbsNext
<1>1. Promise!Offer
  BY DEF Promise!Offer, Promise!Free, Promise!Idle, Promise!None, Promise!NoOffer,
         Promise!Own, Own, NoOffer
<1> QED BY <1>1 DEF Promise!AbsNext, Promise!Work

LEMMA Asks ==
  ASSUME At # -1, Offering[At] # NoOffer, Pending = -1, Offering[At].left # <<>>,
         At' = Head(Offering[At].left).fsm, Pending' = Head(Offering[At].left).event,
         Offering' = [Offering EXCEPT ![At] = [e |-> Offering[At].e,
                                               left |-> Tail(Offering[At].left)]],
         state' = state
  PROVE  Promise!AbsNext
<1>1. Promise!Ask
  BY DEF Promise!Ask, Promise!Idle, Promise!None, Promise!NoOffer, NoOffer
<1> QED BY <1>1 DEF Promise!AbsNext, Promise!Work

LEMMA Concludes ==
  ASSUME At # -1, Offering[At] # NoOffer, Pending # -1 \/ Offering[At].left = <<>>,
         NEW s \in Target[Offering[At].e][state[At]],
         state' = [state EXCEPT ![At] = s],
         Offering' = [Offering EXCEPT ![At] = NoOffer],
         At' = At, Pending' = Pending
  PROVE  Promise!AbsNext
<1>1. Promise!Conclude
  BY DEF Promise!Conclude, Promise!Idle, Promise!None, Promise!NoOffer, NoOffer
<1> QED BY <1>1 DEF Promise!AbsNext, Promise!Work

LEMMA HitIsHit == ASSUME NEW m, NEW e PROVE Promise!Hit(m, e) = Hit(m, e)
BY DEF Promise!Hit, Promise!Children, Promise!Machine, Hit, Children, Machine

LEMMA GoesDown ==
  ASSUME At # -1, Offering[At] = NoOffer, Pending # -1,
         Pending \in Span(At) \ Own(At),
         \/ /\ state[At] \in Inhibits[At] \/ Hit(At, Pending) = {}
            /\ Pending' = -1 /\ At' = At
         \/ /\ state[At] \notin Inhibits[At]
            /\ At' \in Hit(At, Pending) /\ Pending' = Pending,
         state' = state, Offering' = Offering
  PROVE  Promise!AbsNext
<1>1. Promise!Down
  BY HitIsHit
     DEF Promise!Down, Promise!Free, Promise!Idle, Promise!None, Promise!NoOffer,
         Promise!Own, Own, Promise!Span, Span, NoOffer
<1> QED BY <1>1 DEF Promise!AbsNext, Promise!Work

LEMMA GoesUp ==
  ASSUME At # -1, Offering[At] = NoOffer,
         Pending = -1 \/ (At # 0 /\ Pending \notin Span(At)),
         At' = (IF At = 0 THEN -1 ELSE Parent[At]),
         state' = state, Pending' = Pending, Offering' = Offering
  PROVE  Promise!AbsNext
<1>1. Promise!Up
  BY DEF Promise!Up, Promise!Free, Promise!Idle, Promise!None, Promise!NoOffer,
         Promise!Span, Span, NoOffer
<1> QED BY <1>1 DEF Promise!AbsNext, Promise!Work

LEMMA Accepts ==
  ASSUME At = -1, NEW e \in UNION {Own(m) : m \in Machine},
         At' = 0, Pending' = e, state' = state, Offering' = Offering
  PROVE  Promise!AbsNext
<1>1. Promise!Accept(e) /\ e \in UNION {Promise!Own(m) : m \in Promise!Machine}
  BY DEF Promise!Accept, Promise!Idle, Promise!Own, Own, Promise!Machine, Machine
<1> QED BY <1>1 DEF Promise!AbsNext
-----------------------------------------------------------------------------
(* The steps all generators share. *)

Kept == Held' /\ [Promise!AbsNext]_(Promise!absvars)

(* where a call passes an event or is past its action *)
Settling == {"share", "move", "exit", "entry"}

LEMMA SameOffer ==
  ASSUME IInv, Busy, NEW o, Offering[cur] = o
  PROVE  [Offering EXCEPT ![cur] = o] = Offering
<1>1. Offering = [m \in Machine |-> Offering[m]]
  BY Mapping DEF OffersIn
<1> QED BY <1>1

LEMMA RunPromise ==
  ASSUME IInv, IInv', Held, NEW e \in UNION {Own(m) : m \in Machine}, Run(e)
  PROVE  Kept
<1> DEFINE g == NewFrame(0, e)
           t == <<g>>
<1>1. /\ ~Busy /\ stack = <<>> /\ stack' = t /\ state' = state
      /\ g.fsm = 0 /\ g.pc = "while" /\ g.e = e
  BY DEF Run, Busy, NewFrame
<1>2. 0 \in Machine /\ Real(e)
  BY HierarchyAssumption DEF TreeShape, Machine, Real
<1>3. e # NoEv[0]
  BY <1>2, NoEvNotReal
<1> HIDE DEF g
<1>4. Len(t) = 1 /\ t[1] = g /\ t # <<>>
  OBVIOUS
<1> HIDE DEF t
<1>5. Busy' /\ top' = g /\ cur' = 0
  BY <1>1, <1>4 DEF Busy, top, cur
<1>6. At = -1 /\ At' = 0 /\ Pending' = e
  BY <1>1, <1>3, <1>5 DEF At, Pending, EventOf, Sharing
<1>7. Held'
  BY <1>1, <1>4 DEF Held, WorksIn
<1>8. Offering' = Offering
  <2>1. StackOK(<<>>) /\ StackOK(t)
    BY <1>1 DEF IInv
  <2>2. /\ Len(<<>>) = 0 /\ Len(t) = Len(<<>>) + 1 /\ t[Len(t)].pc = "while"
        /\ \A j \in 1 .. Len(<<>>) : t[j] = (<<>>)[j]
    BY <1>1, <1>4
  <2>3. OffersIn(state, t) = OffersIn(state, <<>>)
    BY <2>1, <2>2, OffersPush
  <2>4. Offering' = OffersIn(state, t)
    BY <1>1 DEF Offering, OffersIn, OfferIn, OfferOf, SharingIn, Sharing, CallsIn,
                CallsOf, NoOffer
  <2> QED BY <1>1, <2>3, <2>4, Mapping
<1> QED BY <1>1, <1>6, <1>7, <1>8, Accepts DEF Kept

(* The innermost call moves on in its loop, or to an action: nothing the   *)
(* promise speaks of has happened.                                         *)
LEMMA LoopPromise ==
  ASSUME IInv, IInv', Busy, Held, top.pc \notin Settling,
         NEW f, f.fsm = cur, Set(f), f.pc \notin Settling, f.e = top.e,
         state' = state
  PROVE  Kept
<1>1. /\ cur = top.fsm /\ At = cur /\ Pending = EventIn(state, top)
      /\ Offering[cur] = OfferIn(state, top)
  BY StackFacts
<1>2. /\ WorksIn(state', f) /\ EventIn(state', f) = EventIn(state, top)
      /\ OfferIn(state', f) = OfferIn(state, top)
  BY <1>1 DEF Settling, WorksIn, EventIn, OfferIn, SharingIn
<1>3. /\ Held' /\ At' = cur /\ Pending' = EventIn(state', f)
      /\ Offering' = [Offering EXCEPT ![cur] = OfferIn(state', f)]
  BY <1>2, SetKept
<1>4. Offering' = Offering
  BY <1>1, <1>2, <1>3, SameOffer
<1> QED BY <1>1, <1>2, <1>3, <1>4, Stutters DEF Kept

(* The machine of a sub-machine's event is below one that inhibits: the    *)
(* event is dropped.                                                       *)
LEMMA DropPromise ==
  ASSUME IInv, IInv', Busy, Held, top.pc \notin Settling,
         NEW f, f.fsm = cur, Set(f), f.pc \notin Settling, f.e = NoEv[cur],
         top.e > NoEv[cur], state[cur] \in Inhibits[cur] \/ Hit(cur, top.e) = {},
         state' = state
  PROVE  Kept
<1>1. /\ cur = top.fsm /\ At = cur /\ cur \in Nat /\ cur \in Machine
      /\ Pending = EventIn(state, top) /\ Offering[cur] = OfferIn(state, top)
  BY StackFacts
<1>2. Offering[cur] = NoOffer /\ WorksIn(state', f) /\ OfferIn(state', f) = NoOffer
  BY <1>1 DEF Settling, WorksIn, OfferIn, SharingIn
<1>3. EventIn(state', f) = -1
  BY DEF Settling, EventIn, SharingIn
<1>4. Pending = top.e /\ Pending # -1 /\ Pending \in Span(cur) \ Own(cur)
  <2>1. Reach(cur, top.e) /\ top.e \in Nat
    BY <1>1, TopFacts DEF FrameOK
  <2>2. top.e < Last[cur]
    BY <1>1, <2>1, Numbers DEF Reach
  <2> QED BY <1>1, <2>1, <2>2, Numbers DEF EventIn, SharingIn, Settling, Span, Own
<1>5. /\ Held' /\ At' = cur /\ Pending' = -1
      /\ Offering' = [Offering EXCEPT ![cur] = NoOffer]
  BY <1>2, <1>3, SetKept
<1>6. Offering' = Offering
  BY <1>2, <1>5, SameOffer
<1>7. Promise!AbsNext
  BY <1>1, <1>2, <1>4, <1>5, <1>6, GoesDown
<1> QED BY <1>5, <1>7 DEF Kept

LEMMA FindPromise ==
  ASSUME IInv, IInv', Busy, Held, top.pc \notin Handling, FindAndRunSubMachine,
         top.e > NoEv[cur], state[cur] \notin Inhibits[cur], state' = state
  PROVE  Kept
<1>1. /\ cur = top.fsm /\ At = cur /\ cur \in Nat /\ cur \in Machine
      /\ Pending = EventIn(state, top) /\ Offering[cur] = OfferIn(state, top)
      /\ top.pc \notin Settling /\ top \in Frame /\ FrameOK(top)
  BY StackFacts, TopFacts DEF Handling, Settling
<1>2. CASE \E c \in Machine :
             IsHit(cur, top.e, c) /\ CallSub([top EXCEPT !.pc = "find"], c, top.e)
  <2>1. PICK c \in Machine :
          IsHit(cur, top.e, c) /\ CallSub([top EXCEPT !.pc = "find"], c, top.e)
    BY <1>2
  <2> DEFINE f == [top EXCEPT !.pc = "find"]
  <2>2. /\ f \in Frame /\ f.fsm = cur /\ f.pc = "find" /\ f.e = top.e
        /\ f.new_e = top.new_e /\ f.new_s = top.new_s /\ f.left = top.left
    BY <1>1 DEF Frame, Pc
  <2>3. CallSub(f, c, top.e)
    BY <2>1
  <2> HIDE DEF f
  <2>4. FrameOK(f) /\ WorksIn(state, f) /\ OfferIn(state, f) = NoOffer
    BY <1>1, <2>2 DEF FrameOK, Handling, WorksIn, OfferIn, SharingIn
  <2>5. Reach(cur, top.e) /\ top.e \in Nat /\ Real(top.e)
    <3>1. Reach(cur, top.e) /\ top.e \in Nat /\ NoEv[cur] \in Nat
      BY <1>1, TopFacts, Numbers DEF FrameOK
    <3> QED BY <3>1 DEF Reach
  <2>6. top.e # NoEv[c] /\ top.e # NoEv[cur] /\ top.e < Last[cur]
    BY <1>1, <2>5, NoEvNotReal DEF Reach
  <2>7. /\ Held' /\ At' = c /\ Pending' = top.e
        /\ Offering' = [Offering EXCEPT ![cur] = NoOffer]
    BY <2>2, <2>3, <2>4, <2>6, CallKept
  <2>8. Offering[cur] = NoOffer /\ Pending = top.e /\ Pending # -1
    BY <1>1, <2>5, <2>6 DEF OfferIn, EventIn, SharingIn, Settling
  <2>9. Pending \in Span(cur) \ Own(cur)
    BY <1>1, <2>5, <2>6, <2>8, Numbers DEF Span, Own
  <2>10. c \in Hit(cur, Pending)
    BY <2>1, <2>8 DEF IsHit
  <2>11. Offering' = Offering
    BY <2>7, <2>8, SameOffer
  <2>12. Promise!AbsNext
    BY <1>1, <2>7, <2>8, <2>9, <2>10, <2>11, GoesDown
  <2> QED BY <2>7, <2>12 DEF Kept
<1>3. CASE Hit(cur, top.e) = {} /\ Set([top EXCEPT !.e = NoEv[cur], !.pc = "while"])
  <2> DEFINE f == [top EXCEPT !.e = NoEv[cur], !.pc = "while"]
  <2>1. f.fsm = cur /\ f.pc = "while" /\ f.e = NoEv[cur] /\ f.pc \notin Settling
    BY <1>1 DEF Frame, Settling
  <2>2. Set(f)
    BY <1>3
  <2> HIDE DEF f
  <2> QED BY <1>1, <1>3, <2>1, <2>2, DropPromise
<1> QED BY <1>2, <1>3 DEF FindAndRunSubMachine

LEMMA ReturnPromise ==
  ASSUME IInv, IInv', Busy, Held, top.pc = "while", Return,
         top.e = NoEv[cur] \/ (cur # 0 /\ top.e < First[cur])
  PROVE  Kept
<1>1. /\ cur = top.fsm /\ At = cur /\ cur \in Nat /\ cur \in Machine
      /\ Pending = EventIn(state, top) /\ Offering[cur] = OfferIn(state, top)
  BY StackFacts
<1>2. Offering[cur] = NoOffer /\ Pending = IF top.e = NoEv[cur] THEN -1 ELSE top.e
  BY <1>1 DEF OfferIn, EventIn, SharingIn
<1>3. Pending = -1 \/ (cur # 0 /\ Pending \notin Span(cur))
  BY <1>1, <1>2, TopFacts, Numbers DEF Span
<1>4. /\ Held' /\ At' = (IF cur = 0 THEN -1 ELSE Parent[cur])
      /\ Pending' = Pending /\ Offering' = Offering /\ state' = state
  BY ReturnKept DEF Return
<1>5. Promise!AbsNext
  BY <1>1, <1>2, <1>3, <1>4, GoesUp
<1> QED BY <1>4, <1>5 DEF Kept

LEMMA CallActionPromise ==
  ASSUME IInv, IInv', Busy, Held, CallAction PROVE Kept
<1>1. /\ cur = top.fsm /\ At = cur /\ cur \in Nat /\ cur \in Machine
      /\ Pending = EventIn(state, top) /\ Offering[cur] = OfferIn(state, top)
      /\ top.pc = "action" /\ top \in Frame /\ state' = state
      /\ top.e \in Own(cur)
  BY StackFacts, TopFacts DEF CallAction, FrameOK, Handling
<1>2. Offering[cur] = NoOffer /\ Pending = top.e
  BY <1>1, Numbers DEF OfferIn, EventIn, SharingIn, Own
<1>3. CASE state[cur] \in Passes[top.e]
  <2> DEFINE f == [top EXCEPT !.pc = "share", !.new_e = NoEv[cur], !.left = Sharers[top.e]]
  <2>1. /\ f.fsm = cur /\ f.pc = "share" /\ f.e = top.e
        /\ f.new_e = NoEv[cur] /\ f.left = Sharers[top.e]
    BY <1>1 DEF Frame
  <2>2. Set(f)
    BY <1>3 DEF CallAction
  <2> HIDE DEF f
  <2>3. /\ WorksIn(state', f) /\ EventIn(state', f) = -1
        /\ OfferIn(state', f) = [e |-> top.e, left |-> Sharers[top.e]]
    BY <1>1, <1>3, <2>1 DEF WorksIn, EventIn, OfferIn, SharingIn
  <2>4. /\ Held' /\ At' = cur /\ Pending' = -1
        /\ Offering' = [Offering EXCEPT ![cur] = [e |-> top.e, left |-> Sharers[top.e]]]
    BY <1>1, <2>1, <2>2, <2>3, SetKept
  <2>5. Promise!AbsNext
    BY <1>1, <1>2, <1>3, <2>4, Offers
  <2> QED BY <2>4, <2>5 DEF Kept
<1>4. CASE state[cur] \notin Passes[top.e]
  <2>1. PICK r \in Reply[top.e][state[cur]] :
          Set([top EXCEPT !.pc = "move", !.new_e = r])
    BY <1>4 DEF CallAction
  <2> DEFINE f == [top EXCEPT !.pc = "move", !.new_e = r]
  <2>2. f.fsm = cur /\ f.pc = "move" /\ f.e = top.e /\ f.new_e = r
    BY <1>1 DEF Frame
  <2>3. Set(f)
    BY <2>1
  <2> HIDE DEF f
  <2>4. /\ WorksIn(state', f) /\ EventIn(state', f) = Pending
        /\ OfferIn(state', f) = NoOffer
    BY <1>1, <1>4, <2>2 DEF WorksIn, EventIn, OfferIn, SharingIn
  <2>5. /\ Held' /\ At' = cur /\ Pending' = Pending
        /\ Offering' = [Offering EXCEPT ![cur] = NoOffer]
    BY <1>1, <2>2, <2>3, <2>4, SetKept
  <2>6. Offering' = Offering
    BY <1>2, <2>5, SameOffer
  <2> QED BY <1>1, <2>5, <2>6, Stutters DEF Kept
<1> QED BY <1>3, <1>4

LEMMA PassSharedEventPromise ==
  ASSUME IInv, IInv', Busy, Held, PassSharedEvent PROVE Kept
<1>1. /\ cur = top.fsm /\ At = cur /\ cur \in Nat /\ cur \in Machine
      /\ Pending = EventIn(state, top) /\ Offering[cur] = OfferIn(state, top)
      /\ top.pc = "share" /\ top \in Frame /\ FrameOK(top) /\ state' = state
      /\ WorksIn(state, top) /\ top.left \in Seq(Sharer)
  BY StackFacts, TopFacts DEF PassSharedEvent, Frame, Held
<1>2. /\ state[cur] \in Passes[top.e]
      /\ Offering[cur] = [e |-> top.e, left |-> top.left]
      /\ Pending = IF top.new_e = NoEv[cur] THEN -1 ELSE top.new_e
  BY <1>1 DEF WorksIn, OfferIn, EventIn, SharingIn
<1>3. CASE top.left # <<>> /\ top.new_e = NoEv[cur]
  <2> DEFINE f == [top EXCEPT !.left = Tail(@)]
             c == Head(top.left).fsm
             e == Head(top.left).event
  <2>1. Head(top.left) = top.left[1] /\ 1 \in 1 .. Len(top.left)
        /\ Tail(top.left) \in Seq(Sharer)
    BY <1>1, <1>3, HeadTailProperties, EmptySeq
  <2>2. c \in Machine /\ e # NoEv[c] /\ c \in Children(cur) /\ e \in Own(c)
    <3>1. c \in Children(cur) /\ e \in Own(c)
      BY <1>1, <2>1 DEF FrameOK
    <3>2. c \in Machine
      BY <3>1 DEF Children
    <3> QED BY <3>1, <3>2, NoEvNotReal DEF Real
  <2>3. /\ f \in Frame /\ f.fsm = cur /\ f.pc = "share" /\ f.e = top.e
        /\ f.new_e = top.new_e /\ f.new_s = top.new_s /\ f.left = Tail(top.left)
    BY <1>1, <2>1 DEF Frame
  <2>4. CallSub(f, c, e)
    BY <1>3 DEF PassSharedEvent
  <2> HIDE DEF f
  <2>5. FrameOK(f)
    <3>1. ASSUME NEW j \in 1 .. Len(f.left)
          PROVE  f.left[j].fsm \in Children(cur) /\ f.left[j].event \in Own(f.left[j].fsm)
      <4>1. j + 1 \in 1 .. Len(top.left) /\ f.left[j] = top.left[j + 1]
        BY <1>1, <1>3, <2>3, HeadTailProperties, EmptySeq
      <4> QED BY <1>1, <4>1 DEF FrameOK
    <3> QED BY <1>1, <2>3, <3>1 DEF FrameOK
  <2>6. WorksIn(state, f) /\ OfferIn(state, f) = [e |-> top.e, left |-> Tail(top.left)]
    BY <1>1, <1>2, <2>3 DEF WorksIn, OfferIn, SharingIn
  <2> HIDE DEF c, e
  <2>7. /\ Held' /\ At' = c /\ Pending' = e
        /\ Offering' = [Offering EXCEPT ![cur] = [e |-> top.e, left |-> Tail(top.left)]]
    BY <1>1, <2>2, <2>3, <2>4, <2>5, <2>6, CallKept
  <2>8. Offering' = [Offering EXCEPT ![cur] = [e |-> Offering[cur].e,
                                              left |-> Tail(Offering[cur].left)]]
    BY <1>2, <2>7
  <2>9. Offering[cur] # NoOffer
    <3>1. top.e \in Nat
      BY TopFacts
    <3> QED BY <1>2, <3>1 DEF NoOffer
  <2>10. Pending = -1 /\ Offering[cur].left = top.left
    BY <1>2, <1>3
  <2>11. Promise!AbsNext
    <3>1. At # -1 /\ Offering[At] # NoOffer /\ Pending = -1 /\ Offering[At].left # <<>>
      BY <1>1, <1>3, <2>9, <2>10
    <3>2. /\ At' = Head(Offering[At].left).fsm /\ Pending' = Head(Offering[At].left).event
          /\ Offering' = [Offering EXCEPT ![At] = [e |-> Offering[At].e,
                                                   left |-> Tail(Offering[At].left)]]
          /\ state' = state
      BY <1>1, <2>7, <2>8, <2>10 DEF c, e
    <3> QED BY <3>1, <3>2, Asks
  <2> QED BY <2>7, <2>11 DEF Kept
<1>4. CASE ~(top.left # <<>> /\ top.new_e = NoEv[cur])
  <2> DEFINE f == [top EXCEPT !.pc = "move"]
  <2>1. /\ f.fsm = cur /\ f.pc = "move" /\ f.e = top.e
        /\ f.new_e = top.new_e /\ f.left = top.left
    BY <1>1 DEF Frame
  <2>2. Set(f)
    BY <1>4 DEF PassSharedEvent, Goto
  <2> HIDE DEF f
  <2>3. /\ WorksIn(state', f) /\ EventIn(state', f) = Pending
        /\ OfferIn(state', f) = Offering[cur]
    BY <1>1, <1>2, <1>4, <2>1 DEF WorksIn, EventIn, OfferIn, SharingIn
  <2>4. /\ Held' /\ At' = cur /\ Pending' = Pending
        /\ Offering' = [Offering EXCEPT ![cur] = Offering[cur]]
    BY <1>1, <2>1, <2>2, <2>3, SetKept
  <2>5. Offering' = Offering
    BY <2>4, SameOffer
  <2> QED BY <1>1, <2>4, <2>5, Stutters DEF Kept
<1> QED BY <1>3, <1>4

(* The transition takes effect, in Move or in CallEntry: the promise's     *)
(* Handle, or its Conclude if the event was passed on.                     *)
LEMMA Takes ==
  ASSUME IInv, IInv', Busy, Held, top.pc \in {"move", "entry"},
         NEW s \in Target[top.e][state[cur]],
         NEW f, f.fsm = cur, f.pc \notin Settling, f.e = top.new_e, Set(f),
         state' = [state EXCEPT ![cur] = s]
  PROVE  Kept
<1>1. /\ cur = top.fsm /\ At = cur /\ cur \in Nat /\ cur \in Machine
      /\ Pending = EventIn(state, top) /\ Offering[cur] = OfferIn(state, top)
      /\ WorksIn(state, top) /\ top.e \in Own(cur) /\ top.e \in Nat /\ top.new_e \in Nat
  BY StackFacts, TopFacts DEF Held, FrameOK, Handling
<1>2. \A m \in Machine \ {cur} : state'[m] = state[m]
  BY DEF IInv, TypeOK
<1>3. /\ WorksIn(state', f) /\ OfferIn(state', f) = NoOffer
      /\ EventIn(state', f) = IF top.new_e = NoEv[cur] THEN -1 ELSE top.new_e
  BY DEF Settling, WorksIn, OfferIn, EventIn, SharingIn
<1>4. /\ Held' /\ At' = cur
      /\ Pending' = IF top.new_e = NoEv[cur] THEN -1 ELSE top.new_e
      /\ Offering' = [Offering EXCEPT ![cur] = NoOffer]
  BY <1>2, <1>3, SetKept
<1>5. CASE state[cur] \in Passes[top.e]
  <2>1. /\ Offering[cur] = [e |-> top.e, left |-> top.left]
        /\ Pending = IF top.new_e = NoEv[cur] THEN -1 ELSE top.new_e
        /\ top.new_e # NoEv[cur] \/ top.left = <<>>
    BY <1>1, <1>5 DEF OfferIn, EventIn, SharingIn, WorksIn
  <2>2. /\ Offering[cur] # NoOffer /\ Offering[cur].e = top.e
        /\ Pending # -1 \/ Offering[cur].left = <<>>
    BY <1>1, <2>1 DEF NoOffer
  <2>3. Promise!AbsNext
    <3>1. /\ At # -1 /\ Offering[At] # NoOffer
          /\ Pending # -1 \/ Offering[At].left = <<>>
          /\ s \in Target[Offering[At].e][state[At]]
      BY <1>1, <2>2
    <3>2. /\ state' = [state EXCEPT ![At] = s]
          /\ Offering' = [Offering EXCEPT ![At] = NoOffer]
          /\ At' = At /\ Pending' = Pending
      BY <1>1, <1>4, <2>1
    <3> QED BY <3>1, <3>2, Concludes
  <2> QED BY <1>4, <2>3 DEF Kept
<1>6. CASE state[cur] \notin Passes[top.e]
  <2>1. /\ Offering[cur] = NoOffer /\ Pending = top.e
        /\ top.new_e \in Reply[top.e][state[cur]]
    BY <1>1, <1>6, Numbers DEF OfferIn, EventIn, SharingIn, WorksIn, Own
  <2>2. Offering' = Offering
    BY <1>4, <2>1, SameOffer
  <2>3. Promise!AbsNext
    <3>1. /\ At # -1 /\ Offering[At] = NoOffer /\ Pending \in Own(At)
          /\ state[At] \notin Passes[Pending]
          /\ top.new_e \in Reply[Pending][state[At]]
          /\ s \in Target[Pending][state[At]]
      BY <1>1, <1>6, <2>1
    <3>2. /\ state' = [state EXCEPT ![At] = s]
          /\ Pending' = IF top.new_e = NoEv[At] THEN -1 ELSE top.new_e
          /\ At' = At /\ Offering' = Offering
      BY <1>1, <1>4, <2>2
    <3> QED BY <3>1, <3>2, Handles
  <2> QED BY <1>4, <2>3 DEF Kept
<1> QED BY <1>5, <1>6

(* Between the transition function and the entry function nothing happens  *)
(* that the promise speaks of.                                             *)
LEMMA SettlePromise ==
  ASSUME IInv, IInv', Busy, Held, top.pc \in {"move", "exit"},
         NEW f, f.fsm = cur, f.pc \in {"exit", "entry"}, f.e = top.e,
         f.new_e = top.new_e, f.left = top.left, Set(f),
         f.new_s \in Target[top.e][state[cur]], state' = state
  PROVE  Kept
<1>1. /\ cur = top.fsm /\ At = cur /\ Pending = EventIn(state, top)
      /\ Offering[cur] = OfferIn(state, top) /\ WorksIn(state, top)
  BY StackFacts DEF Held
<1>2. /\ WorksIn(state', f) /\ EventIn(state', f) = EventIn(state, top)
      /\ OfferIn(state', f) = OfferIn(state, top)
  BY <1>1 DEF WorksIn, EventIn, OfferIn, SharingIn
<1>3. /\ Held' /\ At' = cur /\ Pending' = Pending
      /\ Offering' = [Offering EXCEPT ![cur] = Offering[cur]]
  BY <1>1, <1>2, SetKept
<1>4. Offering' = Offering
  BY <1>3, SameOffer
<1> QED BY <1>1, <1>3, <1>4, Stutters DEF Kept

LEMMA MovePromise ==
  ASSUME IInv, IInv', Busy, Held, NEW next, next \notin Settling, Move(next)
  PROVE  Kept
<1>1. top \in Frame /\ cur = top.fsm /\ top.pc = "move"
  BY StackFacts, TopFacts DEF Move
<1>2. PICK s \in Target[top.e][state[cur]] :
        IF cur \in HasFns /\ s # state[cur]
        THEN /\ Set([top EXCEPT !.new_s = s, !.pc = "exit"])
             /\ UNCHANGED state
        ELSE /\ Set([top EXCEPT !.e = top.new_e, !.pc = next])
             /\ state' = [state EXCEPT ![cur] = s]
  BY DEF Move
<1>3. CASE cur \in HasFns /\ s # state[cur]
  <2> DEFINE f == [top EXCEPT !.new_s = s, !.pc = "exit"]
  <2>1. /\ f.fsm = cur /\ f.pc = "exit" /\ f.e = top.e
        /\ f.new_e = top.new_e /\ f.new_s = s /\ f.left = top.left
    BY <1>1 DEF Frame
  <2>2. Set(f) /\ state' = state
    BY <1>2, <1>3
  <2> HIDE DEF f
  <2> QED BY <1>1, <2>1, <2>2, SettlePromise
<1>4. CASE ~(cur \in HasFns /\ s # state[cur])
  <2> DEFINE f == [top EXCEPT !.e = top.new_e, !.pc = next]
  <2>1. f.fsm = cur /\ f.pc = next /\ f.e = top.new_e
    BY <1>1 DEF Frame
  <2>2. Set(f) /\ state' = [state EXCEPT ![cur] = s]
    BY <1>2, <1>4
  <2> HIDE DEF f
  <2> QED BY <1>1, <2>1, <2>2, Takes
<1> QED BY <1>3, <1>4

LEMMA CallExitPromise ==
  ASSUME IInv, IInv', Busy, Held, CallExit PROVE Kept
<1>1. /\ top \in Frame /\ cur = top.fsm /\ top.pc = "exit" /\ state' = state
      /\ WorksIn(state, top)
  BY StackFacts, TopFacts DEF CallExit, Held
<1> DEFINE f == [top EXCEPT !.pc = "entry"]
<1>2. /\ f.fsm = cur /\ f.pc = "entry" /\ f.e = top.e
      /\ f.new_e = top.new_e /\ f.new_s = top.new_s /\ f.left = top.left
  BY <1>1 DEF Frame
<1>3. Set(f)
  BY DEF CallExit, Goto
<1> HIDE DEF f
<1>4. f.new_s \in Target[top.e][state[cur]]
  BY <1>1, <1>2 DEF WorksIn
<1> QED BY <1>1, <1>2, <1>3, <1>4, SettlePromise

LEMMA CallEntryPromise ==
  ASSUME IInv, IInv', Busy, Held, NEW next, next \notin Settling, CallEntry(next)
  PROVE  Kept
<1>1. /\ top \in Frame /\ cur = top.fsm /\ top.pc = "entry"
      /\ state' = [state EXCEPT ![cur] = top.new_s] /\ WorksIn(state, top)
  BY StackFacts, TopFacts DEF CallEntry, Held
<1> DEFINE f == [top EXCEPT !.e = top.new_e, !.pc = next]
<1>2. f.fsm = cur /\ f.pc = next /\ f.e = top.new_e
  BY <1>1 DEF Frame
<1>3. Set(f)
  BY DEF CallEntry
<1> HIDE DEF f
<1>4. top.new_s \in Target[top.e][state[cur]]
  BY <1>1 DEF WorksIn
<1> QED BY <1>1, <1>2, <1>3, <1>4, Takes

-----------------------------------------------------------------------------
LEMMA InitPromise == Init => Held /\ Promise!AbsInit
<1> SUFFICES ASSUME Init PROVE Held /\ Promise!AbsInit
  OBVIOUS
<1>1. stack = <<>> /\ state = Start /\ ~Busy
  BY DEF Init, Busy
<1>2. At = -1 /\ Pending = -1
  BY <1>1 DEF At, Pending
<1>3. Offering = [m \in Machine |-> NoOffer]
  BY <1>1 DEF Offering, CallsOf, NoOffer
<1> QED BY <1>1, <1>2, <1>3
        DEF Held, Promise!AbsInit, Promise!Idle, Promise!None, Promise!NoOffer,
            Promise!Machine, Machine, NoOffer

LEMMA StutterPromise == ASSUME Held, UNCHANGED vars PROVE Kept
<1>1. /\ state' = state /\ stack' = stack /\ Held'
  BY DEF vars, Held
<1>2. At' = At /\ Pending' = Pending
  BY <1>1 DEF At, Pending, Busy, top, cur, EventOf, Sharing
<1>3. Offering' = Offering
  BY <1>1 DEF Offering, CallsOf, OfferOf, Sharing
<1> QED BY <1>1, <1>2, <1>3, Stutters DEF Kept
=============================================================================
