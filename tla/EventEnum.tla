------------------------------ MODULE EventEnum ------------------------------
(***************************************************************************)
(* How the one enumeration that holds the events of every machine is       *)
(* printed (commonHeaderStart, print_sub_machine_events), and the values   *)
(* the C compiler gives its members: each the one before plus one, unless  *)
(* it is assigned.  A machine's members are                                *)
(*                                                                         *)
(*    firstEvent, e1 = firstEvent, e2 ..., noEvent,                        *)
(*    <the members of its sub-machines>,                                   *)
(*    lastEvent = noEvent of its last sub-machine   (if it has any)        *)
(*                                                                         *)
(* and the generated finder relies on them: an event goes to the           *)
(* sub-machine with firstEvent <= e < lastEvent (noEvent for one without   *)
(* sub-machines of its own).                                               *)
(***************************************************************************)
EXTENDS Integers, Sequences

CONSTANTS
  MaxNM,      \* bound: machines in a description
  MaxEvents,  \* bound: events in a machine
  MaxLevels   \* bound: levels of machines, the top-level machine included

ASSUME EnumAssumption ==
  /\ MaxNM \in Nat \ {0} /\ MaxEvents \in Nat \ {0} /\ MaxLevels \in Nat \ {0}

VARIABLES
  nm, parent, count,   \* the description: machines in the order they are
                       \* declared, and the number of events of each
  next,                \* the value the next enumerator gets
  path,                \* the machines whose sub-machines are being printed
  done,                \* the machines whose events have been printed
  first, noEv, last    \* firstEvent, noEvent, lastEvent (Unset until printed)

vars == <<nm, parent, count, next, path, done, first, noEv, last>>
tree == <<nm, parent, count>>

Machine     == 0 .. nm - 1
Unset       == -1
Children(m) == {c \in Machine \ {0} : parent[c] = m}
Here        == path[Len(path)]
Pending     == {c \in Children(Here) : c \notin done}
FirstOf(S)  == CHOOSE c \in S : \A d \in S : c <= d
LastOf(S)   == CHOOSE c \in S : \A d \in S : d <= c

Level == LET lv[m \in Machine] == IF m = 0 THEN 1 ELSE 1 + lv[parent[m]] IN lv
Above == LET up[m \in Machine] == IF m = 0 THEN {0} ELSE {m} \union up[parent[m]] IN up

TypeOK ==
  /\ next \in Nat
  /\ done \subseteq Machine
  /\ path \in Seq(Machine)
  /\ {first, noEv, last} \subseteq [Machine -> Nat \union {Unset}]

(* any description: machines are numbered as they are met in the file, so  *)
(* each is declared in the machine before it or in one around that         *)
Init ==
  /\ nm \in 1 .. MaxNM
  /\ parent \in [1 .. nm - 1 -> 0 .. nm - 1]
  /\ \A c \in 1 .. nm - 1 : parent[c] < c
  /\ \A c \in 2 .. nm - 1 : parent[c] \in Above[c - 1]
  /\ \A m \in Machine : Level[m] <= MaxLevels
  /\ count \in [Machine -> 1 .. MaxEvents]
  /\ next = 0
  /\ path = <<>> /\ done = {}
  /\ first = [m \in Machine |-> Unset]
  /\ noEv = first /\ last = first

(* m's events, then its noEvent; a machine without sub-machines is         *)
(* selected up to its noEvent                                              *)
PrintEvents(m) ==
  /\ done' = done \union {m}
  /\ first' = [first EXCEPT ![m] = next]
  /\ noEv' = [noEv EXCEPT ![m] = next + count[m]]
  /\ last' = [last EXCEPT ![m] = IF Children(m) = {} THEN noEv'[m] ELSE @]

(* the top-level machine's events, noEvent and numEvents *)
PrintTop ==
  /\ done = {}
  /\ PrintEvents(0)
  /\ next' = noEv'[0] + 2
  /\ path' = <<0>>
  /\ UNCHANGED tree

(* Counting on from noEvent instead of past it. *)
PrintSubMachineOverNoEvent ==
  /\ path # <<>> /\ Pending # {}
  /\ LET c == FirstOf(Pending) IN
       /\ PrintEvents(c)
       /\ next' = noEv'[c]
       /\ path' = IF Children(c) = {} THEN path ELSE Append(path, c)
  /\ UNCHANGED tree

PrintSubMachine ==
  /\ path # <<>> /\ Pending # {}
  /\ LET c == FirstOf(Pending) IN
       /\ PrintEvents(c)
       /\ next' = noEv'[c] + 1
       /\ path' = IF Children(c) = {} THEN path ELSE Append(path, c)
  /\ UNCHANGED tree

(* The first sub-machine's noEvent for the last one's. *)
PrintFirstAsLastEvent ==
  /\ path # <<>> /\ Pending = {} /\ Here # 0
  /\ last' = [last EXCEPT ![Here] = noEv[FirstOf(Children(Here))]]
  /\ next' = last'[Here] + 1
  /\ path' = SubSeq(path, 1, Len(path) - 1)
  /\ UNCHANGED <<tree, done, first, noEv>>

(* lastEvent = noEvent of the last sub-machine: an assigned enumerator,    *)
(* from which the compiler counts on                                       *)
PrintLastEvent ==
  /\ path # <<>> /\ Pending = {} /\ Here # 0
  /\ last' = [last EXCEPT ![Here] = noEv[LastOf(Children(Here))]]
  /\ next' = last'[Here] + 1
  /\ path' = SubSeq(path, 1, Len(path) - 1)
  /\ UNCHANGED <<tree, done, first, noEv>>

(* numAllEvents ends the enumeration; it is numEvents if there are no      *)
(* sub-machines                                                            *)
PrintNumAllEvents ==
  /\ path = <<0>> /\ Pending = {}
  /\ last' = [last EXCEPT ![0] = IF Children(0) = {} THEN next - 1 ELSE next]
  /\ path' = <<>>
  /\ UNCHANGED <<tree, done, next, first, noEv>>

Printed == done = Machine /\ path = <<>>

(* The cross reference and the array of names number the same events by    *)
(* counting: first come the top-level machine's, noEvent and numEvents,    *)
(* then those of each sub-machine and its noEvent.                         *)
CountedPerMachine ==
  LET n[m \in Machine] == IF m = 0 THEN 0 ELSE n[m - 1] + count[m - 1] + 1 IN n

Counted ==
  LET n[m \in Machine] ==
        IF m = 0 THEN 0
        ELSE n[m - 1] + count[m - 1] + (IF m = 1 THEN 2 ELSE 1)
  IN  n

Next == PrintTop \/ PrintSubMachine \/ PrintLastEvent \/ PrintNumAllEvents
        \/ (Printed /\ UNCHANGED vars)
Spec == Init /\ [][Next]_vars

-----------------------------------------------------------------------------
Own(m) == first[m] .. noEv[m]    \* noEvent included

(* No value is given to events of two machines, and numAllEvents is beyond *)
(* them all.                                                               *)
NumbersDistinct ==
  /\ \A c, d \in done : c # d => Own(c) \intersect Own(d) = {}
  /\ Printed => \A m \in Machine : noEv[m] < last[0]

(* findAndRunSubMachine's test, from the top-level machine down, leads an  *)
(* event to the machine that declares it: "any event can be passed to the  *)
(* machine" (README.md:424).                                               *)
FinderReaches == Printed =>
  \A m \in Machine \ {0} : \A e \in first[m] .. noEv[m] - 1 :
    \A c \in Machine \ {0} :
      (first[c] <= e /\ e < last[c]) <=> c \in Above[m]

(* "index" in the cross reference is the value of the enumerator, and      *)
(* EVENT_NAMES[e] its name, for events and noEvents of every machine; the  *)
(* cross reference ends with numAllEvents.                                 *)
CrossReferenceAgrees == Printed =>
  /\ \A m \in Machine : Counted[m] = first[m] /\ Counted[m] + count[m] = noEv[m]
  /\ nm > 1 => last[0] = Counted[nm - 1] + count[nm - 1] + 1

(* What Hierarchy assumes of First, NoEv, Last and Parent. *)
H == INSTANCE Hierarchy WITH
       NM <- nm, Parent <- parent, First <- first, NoEv <- noEv, Last <- last,
       States <- 0, Start <- 0, Target <- 0, Reply <- 0, Sharers <- 0,
       Passes <- 0, Inhibits <- 0, HasFns <- 0

(* "Sub-machines are easily selected based on their numeric event range"   *)
(* (README.md:424): numbers stay apart while they are given out, and in    *)
(* the end the ranges nest as Hierarchy assumes.                           *)
LayoutEstablished ==
  /\ TypeOK /\ NumbersDistinct
  /\ Printed => H!TreeShape /\ H!Layout
=============================================================================
