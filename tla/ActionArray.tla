---------------------------- MODULE ActionArray ----------------------------
(***************************************************************************)
(* How the action array of a machine is filled at the end of its           *)
(* description (populate_action_array), one declaration after the other,   *)
(* event by event and state by state, together with the lists and counters *)
(* the generators and the documents are written from.                      *)
(*                                                                         *)
(* A declaration is a matrix of events and states, the name of an action,  *)
(* and the states a transition may lead to: one for a plain transition,    *)
(* those its declaration returns for a transition function, none if there  *)
(* is no transition.                                                       *)
(***************************************************************************)
EXTENDS SequencesExt

CONSTANTS
  EventList, StateList,  \* the machine's events and states, in their order
  Actions, NoAction,     \* names of actions, and the empty name
  NoTransition,          \* may be among what a transition function returns
  Inputs                 \* the sequences of declarations considered

Events == ToSet(EventList)
States == ToSet(StateList)

Declaration ==
  [events : Seq(Events), states : Seq(States), action : Actions \union {NoAction},
   to : SUBSET (States \union {NoTransition})]

ASSUME ArrayAssumption ==
  /\ EventList \in Seq(Events) /\ StateList \in Seq(States)
  /\ Events # {} /\ States # {}
  /\ IsInjective(EventList) /\ IsInjective(StateList)
  /\ NoAction \notin Actions /\ NoTransition \notin States
  /\ \A input \in Inputs : input \in Seq(Declaration)

VARIABLES
  decls,     \* the declarations, in the order of the description
  at,        \* where the iterations stand: declaration, event, state
  array,     \* array[e][s]: the declaration in the cell, 0 if it is empty
  first,     \* psingle_pai of an event: the first declaration it is in, or 0
  covered,   \* single_pai_state_count of an event
  alike,     \* the events with single_pai_for_all_states
  handled, handling,    \* pevents_handled of a state, phandling_states of an event
  actionsOf, actionsBy, \* pactions_list of a state and of an event
  inbound, outbound,    \* the transition lists of a state
  error,     \* has an occupied cell been met?
  counts     \* the machine's counters, computed at the end

vars == <<decls, at, array, first, covered, alike, handled, handling, actionsOf,
          actionsBy, inbound, outbound, error, counts>>
lists == <<handled, handling, actionsOf, actionsBy, inbound, outbound>>

(* An empty list of events or states stands for ALL of the machine's. *)
EventsOf(d) == IF decls[d].events = << >> THEN EventList ELSE decls[d].events
StatesOf(d) == IF decls[d].states = << >> THEN StateList ELSE decls[d].states

Decls   == DOMAIN decls
Filling == at.d \in Decls
Event   == EventsOf(at.d)[at.e]
State   == StatesOf(at.d)[at.s]

NoCounts == [zeroEvents |-> 0, oneEvent |-> 0, noWayIn |-> 0, noWayOut |-> 0,
             zeroHandlers |-> 0, oneHandler |-> 0, average |-> 0, eventAverage |-> 0]

TypeOK ==
  /\ decls \in Inputs
  /\ at \in [d : Nat, e : Nat, s : Nat]
  /\ array \in [Events -> [States -> Decls \union {0}]]
  /\ first \in [Events -> Decls \union {0}]
  /\ covered \in [Events -> 0 .. Len(StateList)]
  /\ alike \subseteq Events
  /\ handled \in [States -> SUBSET Events] /\ handling \in [Events -> SUBSET States]
  /\ actionsOf \in [States -> SUBSET Actions] /\ actionsBy \in [Events -> SUBSET Actions]
  /\ inbound \in [States -> SUBSET States]
  /\ outbound \in [States -> SUBSET (States \union {NoTransition})]
  /\ error \in BOOLEAN

Init ==
  /\ decls \in Inputs
  /\ at = [d |-> 1, e |-> 1, s |-> 0]
  /\ array = [e \in Events |-> [s \in States |-> 0]]
  /\ first = [e \in Events |-> 0] /\ covered = first
  /\ alike = {}
  /\ handled = [s \in States |-> {}] /\ handling = [e \in Events |-> {}]
  /\ actionsOf = handled /\ actionsBy = handling
  /\ inbound = handled /\ outbound = handled
  /\ error = FALSE
  /\ counts = NoCounts

-----------------------------------------------------------------------------
(* an event begun without counting afresh *)
BeginEventCountingOn ==
  /\ Filling /\ at.s = 0
  /\ first' = [first EXCEPT ![Event] = IF @ = 0 THEN at.d ELSE @]
  /\ at' = [at EXCEPT !.s = 1]
  /\ UNCHANGED <<decls, array, covered, alike, lists, error, counts>>

(* iterate_matrix_states begins with an event: the declaration is its only *)
(* one unless there was one before.                                        *)
BeginEvent ==
  /\ Filling /\ at.s = 0
  /\ covered' = [covered EXCEPT ![Event] = 0]
  /\ first' = [first EXCEPT ![Event] = IF @ = 0 THEN at.d ELSE @]
  /\ at' = [at EXCEPT !.s = 1]
  /\ UNCHANGED <<decls, array, alike, lists, error, counts>>

InCell == Filling /\ at.s \in 1 .. Len(StatesOf(at.d)) /\ ~error

(* the transition lists, listing the state itself too *)
ConnectSelf(s, T) ==
  /\ outbound' = [outbound EXCEPT ![s] = @ \union T]
  /\ inbound' = [t \in States |-> IF t \in T THEN inbound[t] \union {s} ELSE inbound[t]]

(* the transition lists, when a cell of s leads to the states of T *)
Connect(s, T) ==
  /\ outbound' = [outbound EXCEPT ![s] = @ \union (T \ {s})]
  /\ inbound' = [t \in States |-> IF t \in T \ {s} THEN inbound[t] \union {s} ELSE inbound[t]]

(* the name of a declaration's action, if it has one *)
Named(d) == {decls[d].action} \ {NoAction}

(* add_to_action_array puts the declaration in its cell *)
Put(d, e, s) ==
  /\ array' = [array EXCEPT ![e][s] = d]
  /\ handled' = [handled EXCEPT ![s] = @ \union {e}]
  /\ handling' = [handling EXCEPT ![e] = @ \union {s}]
  /\ actionsOf' = [actionsOf EXCEPT ![s] = @ \union Named(d)]
  /\ actionsBy' = [actionsBy EXCEPT ![e] = @ \union Named(d)]
  /\ covered' = [covered EXCEPT ![e] = IF first[e] = d THEN @ + 1 ELSE @]
  /\ Connect(s, decls[d].to)
  /\ at' = [at EXCEPT !.s = @ + 1]
  /\ UNCHANGED <<decls, first, alike, error, counts>>

(* the same without looking what the cell holds *)
OverwriteCell == InCell /\ Put(at.d, Event, State)

AddToActionArray ==
  /\ InCell /\ array[Event][State] = 0
  /\ Put(at.d, Event, State)

(* passing over an occupied cell *)
PassOverCell ==
  /\ InCell /\ array[Event][State] # 0
  /\ at' = [at EXCEPT !.s = @ + 1]
  /\ UNCHANGED <<decls, array, first, covered, alike, lists, error, counts>>

(* ... unless the cell is occupied; then every iteration stops *)
RefuseCell ==
  /\ InCell /\ array[Event][State] # 0
  /\ error' = TRUE
  /\ UNCHANGED <<decls, at, array, first, covered, alike, lists, counts>>

EventOver == Filling /\ (error \/ at.s > Len(StatesOf(at.d)))

NextPlace ==
  IF error THEN [at EXCEPT !.d = Len(decls) + 1]
  ELSE IF at.e < Len(EventsOf(at.d)) THEN [at EXCEPT !.e = @ + 1, !.s = 0]
  ELSE [d |-> at.d + 1, e |-> 1, s |-> 0]

(* Counting over all declarations: an event every state handles somehow. *)
EndEventHandled ==
  /\ EventOver
  /\ alike' = IF handling[Event] = States THEN alike \union {Event} ELSE alike
  /\ at' = NextPlace
  /\ UNCHANGED <<decls, array, first, covered, lists, error, counts>>

(* A declaration that has filled all cells of the event is the only one. *)
EndEvent ==
  /\ EventOver
  /\ alike' = IF covered[Event] = Len(StateList) THEN alike \union {Event} ELSE alike
  /\ at' = NextPlace
  /\ UNCHANGED <<decls, array, first, covered, lists, error, counts>>

-----------------------------------------------------------------------------
(* The machine's counters, once the array is filled. *)
StatesHandling(n)  == Cardinality({s \in States : Cardinality(handled[s]) = n})
EventsHandledIn(n) == Cardinality({e \in Events : Cardinality(handling[e]) = n})

EventDensity(s) == (100 * Cardinality(handled[s])) \div Len(EventList)
StateDensity(e) == (100 * Cardinality(handling[e])) \div Len(StateList)

Counted ==
  [zeroEvents   |-> StatesHandling(0),
   oneEvent     |-> StatesHandling(1),
   noWayIn      |-> Cardinality({s \in States \ {StateList[1]} : inbound[s] = {}}),
   noWayOut     |-> Cardinality({s \in States : outbound[s] = {}}),
   zeroHandlers |-> EventsHandledIn(0),
   oneHandler   |-> EventsHandledIn(1),
   average      |-> MapThenSumSet(EventDensity, States) \div Len(StateList),
   eventAverage |-> MapThenSumSet(StateDensity, Events) \div Len(EventList)]

(* with the first state counted like the others *)
CountAllStates ==
  /\ ~Filling /\ counts = NoCounts
  /\ counts' = [Counted EXCEPT !.noWayIn = Cardinality({s \in States : inbound[s] = {}})]
  /\ UNCHANGED <<decls, at, array, first, covered, alike, lists, error>>

Count ==
  /\ ~Filling /\ counts = NoCounts
  /\ counts' = Counted
  /\ UNCHANGED <<decls, at, array, first, covered, alike, lists, error>>

Done == ~Filling /\ UNCHANGED vars

Next == BeginEvent \/ AddToActionArray \/ RefuseCell \/ EndEvent \/ Count \/ Done
Spec == Init /\ [][Next]_vars

-----------------------------------------------------------------------------
Matrix(d) == ToSet(EventsOf(d)) \X ToSet(StatesOf(d))

(* A cell holds a declaration made for it, without an error every          *)
(* declaration is in all its cells (ALL included), and an error ("already  *)
(* occupied") is reported exactly if two declarations meet in a cell, or   *)
(* one of them names an event or a state twice.                            *)
CellsAsDeclared ==
  /\ TypeOK
  /\ \A e \in Events, s \in States :
       array[e][s] # 0 => <<e, s>> \in Matrix(array[e][s])
  /\ ~Filling /\ ~error =>
       \A d \in Decls : \A p \in Matrix(d) : array[p[1]][p[2]] = d
  /\ ~Filling =>
       (error <=>
          \/ \E c, d \in Decls : c # d /\ Matrix(c) \intersect Matrix(d) # {}
          \/ \E d \in Decls : ~IsInjective(EventsOf(d)) \/ ~IsInjective(StatesOf(d)))

(* The generators write one handler for an event marked single_pai_for_all *)
(* _states: such an event has the same declaration in every state, and     *)
(* every such event is marked, whatever was declared before and after.     *)
AlikeIffOneCell ==
  at.s = 0 \/ ~Filling =>
    alike = {e \in Events : \E d \in Decls : \A s \in States : array[e][s] = d}

(* What the lists say is what is in the array. *)
ListsAgree ==
  \A e \in Events, s \in States :
    /\ e \in handled[s] <=> array[e][s] # 0
    /\ s \in handling[e] <=> array[e][s] # 0
    /\ actionsOf[s] = {decls[array[f][s]].action : f \in handled[s]} \ {NoAction}
    /\ actionsBy[e] = {decls[array[e][t]].action : t \in handling[e]} \ {NoAction}
=============================================================================
