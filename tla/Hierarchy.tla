----------------------------- MODULE Hierarchy -----------------------------
(***************************************************************************)
(* The machine description a generated program is compiled from, and the   *)
(* numbering of its events.                                                *)
(*                                                                         *)
(* A .fsm file describes a tree of machines.  Machines are numbered in the *)
(* order their events are printed (the machine first, then its             *)
(* sub-machines from left to right), 0 being the top-level machine.  One   *)
(* enumeration holds the events of all of them; EventEnum shows how it is  *)
(* laid out and Layout below is what that module establishes for it.       *)
(*                                                                         *)
(* User functions are data here: an action may return any event of         *)
(* Reply[e][s], a transition is any state of Target[e][s].                 *)
(***************************************************************************)
EXTENDS Integers, Sequences

CONSTANTS
  NM,        \* number of machines
  Parent,    \* Parent[c]: the machine c is declared in, for c # 0
  First,     \* First[m]: firstEvent of m (event 0 of the top-level machine)
  NoEv,      \* NoEv[m]: noEvent of m
  Last,      \* Last[m]: lastEvent of m; noEvent if m has no sub-machine;
             \* numAllEvents for the top-level machine
  States,    \* States[m]: the states of m
  Start,     \* Start[m]: the first state m declares
  Target,    \* Target[e][s]: where the cell of event e in state s may lead
  Reply,     \* Reply[e][s]: what the action of that cell may return
  Sharers,   \* Sharers[e]: the sub-machines sharing e, in declaration order
  Passes,    \* Passes[e]: the states where e's action is the generated one
             \* that calls pass_shared_event
  Inhibits,  \* Inhibits[m]: the states of m that inhibit sub-machines
  HasFns     \* the machines with entry, exit or transition functions

Machine  == 0 .. NM - 1
Own(m)   == First[m] .. NoEv[m] - 1       \* the events m declares
Span(m) == First[m] .. Last[m] - 1       \* ... and those of its descendants
Event    == Nat                          \* any value of the enumeration
AnyState == UNION {States[m] : m \in Machine}
Children(m) == {c \in Machine \ {0} : Parent[c] = m}

(* one entry of a sharing_<event>[] array: which machine, under which event *)
Sharer == [fsm : Machine, event : Event]

(* PARENT(noEvent): what a sub-machine hands to its caller for "nothing" *)
ParentNoEv(m) == IF m = 0 THEN NoEv[0] ELSE NoEv[Parent[m]]

(* A finder that looks for the machine that declares e anywhere below. *)
HitAnywhere(m, e) == {c \in Machine \ {0} : First[c] <= e /\ e < NoEv[c]}

(* the sub-machines findAndRunSubMachine accepts for e, and its choice *)
Hit(m, e)  == {c \in Children(m) : First[c] <= e /\ e < Last[c]}
IsHit(m, e, c) == c \in Hit(m, e) /\ \A d \in Hit(m, e) : c <= d

-----------------------------------------------------------------------------
(* Machines are a tree, numbered parents first. *)
TreeShape ==
  /\ NM \in Nat \ {0}
  /\ Parent \in [Machine \ {0} -> Machine]
  /\ \A c \in Machine \ {0} : Parent[c] < c

(* Every machine declares an event, its sub-machines' events follow its    *)
(* own, and sub-machines do not overlap.  Top's Last is numAllEvents.      *)
Layout ==
  /\ First \in [Machine -> Nat] /\ NoEv \in [Machine -> Nat]
  /\ Last \in [Machine -> Nat]
  /\ First[0] = 0
  /\ \A m \in Machine : First[m] < NoEv[m] /\ NoEv[m] <= Last[m]
  /\ \A m \in Machine \ {0} : Children(m) = {} => Last[m] = NoEv[m]
  /\ \A c \in Machine \ {0} :
       NoEv[Parent[c]] < First[c] /\ Last[c] <= Last[Parent[c]]
  /\ \A c, d \in Machine \ {0} :
       Parent[c] = Parent[d] /\ c < d => Last[c] < First[d]

(* What the parser accepts: cells of declared states, sharers that are     *)
(* sub-machines of the declaring machine.                                  *)
Tables ==
  /\ HasFns \subseteq Machine
  /\ Start \in [Machine -> AnyState]
  /\ \A m \in Machine :
       /\ Start[m] \in States[m]
       /\ Inhibits[m] \subseteq States[m]
       /\ \A e \in Own(m) :
            /\ Passes[e] \subseteq States[m]
            /\ Sharers[e] \in Seq(Sharer)
            /\ \A i \in 1 .. Len(Sharers[e]) :
                 /\ Sharers[e][i].fsm \in Children(m)
                 /\ Sharers[e][i].event \in Own(Sharers[e][i].fsm)
            /\ \A s \in States[m] :
                 /\ Target[e][s] \subseteq States[m] /\ Target[e][s] # {}
                 /\ Reply[e][s] \subseteq Event /\ Reply[e][s] # {}

(* An action returns noEvent, an event of its own machine or of a machine  *)
(* below it ("activate" actions), or an event of a machine above it.       *)
ReturnsRule ==
  \A m \in Machine : \A e \in Own(m) : \A s \in States[m] :
    \A r \in Reply[e][s] :
      \/ r = NoEv[m]
      \/ \E d \in Machine :
           /\ r \in Own(d)
           /\ \/ First[d] \in Span(m)
              \/ First[m] \in Span(d)

ASSUME HierarchyAssumption == TreeShape /\ Layout /\ Tables /\ ReturnsRule
=============================================================================
