------------------------------ MODULE FlatFsm ------------------------------
(***************************************************************************)
(* Machines whose actions return states, or nothing: their FSM function    *)
(* handles the one event it is called with and there is no loop.  (The     *)
(* generated code has no sub-machines then.)  In the programs of -ts and   *)
(* -te a state or event function chooses the action; in that of -tc the    *)
(* cell of an array is the action.                                         *)
(*                                                                         *)
(* The machine may be declared "reentrant": then the FSM function begins   *)
(* and ends with the user's macros FSM_START_CRITICAL, FSM_END_CRITICAL,   *)
(* here a lock, and threads may call it at any time.                       *)
(***************************************************************************)
EXTENDS FiniteSets, Naturals

CONSTANTS
  Programs,      \* the programs considered, see Program
  States, Start, \* the states of the machine and the first one
  Events, First, \* its events and the first one
  Reentrant,     \* is the machine declared reentrant?
  Threads,       \* the callers of run_<machine>
  NoTransition,  \* the member of the states' enumeration after the states
  Junk,          \* any other value of the states' type
  Nobody         \* no thread

(***************************************************************************)
(* A program is the generator and the description it was given:            *)
(*   returns  what actions return                                          *)
(*   answer   answer[e][s] is what the cell's action may return ({}: the   *)
(*            cell has no action)                                          *)
(*   target   target[e][s] is where its transition may lead ({}: none)     *)
(*   pai      the events that have one cell for all states                 *)
(*   tfns     is one of the transitions a function?                        *)
(*   fns      has the machine entry, exit or transition functions?         *)
(***************************************************************************)
Program ==
  [gen : {"table", "switch", "eventTable"}, returns : {"states", "void"},
   answer : [Events -> [States -> SUBSET (States \union {NoTransition})]],
   target : [Events -> [States -> SUBSET States]],
   pai : SUBSET Events, tfns : BOOLEAN, fns : BOOLEAN]

(* only a reentrant machine is called by threads; an event with one cell   *)
(* for all states has the same action and transition in each of them       *)
ASSUME FlatAssumption ==
  /\ Start \in States /\ First \in Events
  /\ {NoTransition, Junk} \intersect States = {}
  /\ Nobody \notin Threads
  /\ Reentrant \in BOOLEAN
  /\ Reentrant \/ \A t, u \in Threads : t = u
  /\ \A p \in Programs :
       /\ p \in Program
       /\ \A e \in p.pai : \A s \in States :
            /\ p.answer[e][s] \union p.target[e][s] # {}
            /\ p.answer[e][s] = p.answer[e][Start] /\ p.target[e][s] = p.target[e][Start]

VARIABLES
  program,  \* the program that was written
  state,    \* pfsm->state
  event,    \* pfsm->event
  lock,     \* who is between the two macros
  call,     \* call[t]: where t's call stands, its event, and s (or new_s)
  inside    \* the state the entry functions were last told, Outside
            \* between the exit and the entry function

flatVars == <<program, state, event, lock, call, inside>>

Outside == "outside"
Value   == States \union {NoTransition, Junk}
Pc      == {"idle", "start", "call", "exit", "entry", "end", "lost"}

FlatTypeOK ==
  /\ program \in Programs
  /\ state \in States
  /\ event \in Events
  /\ lock \in Threads \union {Nobody}
  /\ call \in [Threads -> [pc : Pc, e : Events, s : Value]]
  /\ inside \in States \union {Outside}

FlatInit ==
  /\ program \in Programs
  /\ state = Start /\ inside = Start
  /\ event = First
  /\ lock = Nobody
  /\ call = [t \in Threads |-> [pc |-> "idle", e |-> First, s |-> Start]]

Answer(e, s) == program.answer[e][s]

(* what a transition assigns: its state, or what its function returns *)
Target(e, s) == program.target[e][s]

Goto(t, pc)    == call' = [call EXCEPT ![t].pc = pc]
GoWith(t, pc, s) == call' = [call EXCEPT ![t].pc = pc, ![t].s = s]

-----------------------------------------------------------------------------
(* The values the generated code may take from the cell of event e in      *)
(* state s: first those of the array of -tc.                               *)

IsNull(e, s)  == Answer(e, s) = {} /\ Target(e, s) = {}

(* noTransitionFn, generated for the cells without a transition *)
NoTransitionFn(s) == IF program.returns = "states" THEN NoTransition ELSE s

(* Where actions return states a cell is the action, else the transition. *)
ArrayValue(e, s) ==
  IF Answer(e, s) # {} THEN Answer(e, s)
  ELSE IF Target(e, s) # {} THEN Target(e, s) ELSE {NoTransitionFn(s)}

(* Where they return nothing, it is an action and a transition. *)
ArrayTransition(e, s) ==
  IF Target(e, s) # {} THEN Target(e, s) ELSE {NoTransitionFn(s)}

(* The state functions of -ts have cases for the events their state        *)
(* handles; retVal is noTransition at first, new_s the function's state.   *)
StateFnCaseValue(e, s) == IF Answer(e, s) # {} THEN Answer(e, s) ELSE Target(e, s)
StateFnValue(e, s) == IF IsNull(e, s) THEN {NoTransition} ELSE StateFnCaseValue(e, s)

OrStay(T, s) == IF T = {} THEN {s} ELSE T

StateFnCaseMove(e, s) == OrStay(Target(e, s), s)
StateFnMove(e, s) == IF IsNull(e, s) THEN {s} ELSE StateFnCaseMove(e, s)
PAIMove(e, s)     == OrStay(Target(e, Start), s)
SwitchMove(e, s)  == IF e \in program.pai THEN PAIMove(e, s) ELSE StateFnMove(e, s)

(* The handlers of -te, and that of -ts for the events with one cell: the  *)
(* transition overwrites what the action returned.                         *)
Overwritten(A, T) == IF T # {} THEN T ELSE A

PAIValue(e)       == Overwritten(Answer(e, Start), Target(e, Start))
AlikeValue(e)     == Overwritten(Answer(e, Start), Target(e, Start))
CaseValue(e, s)   == Overwritten(Answer(e, s), Target(e, s))

(* A handler without the case of an event no state handles. *)
SeveralValueUnassigned(e, s) == IF IsNull(e, s) THEN Value ELSE CaseValue(e, s)

(* For an event no state handles the handler of -te returns the state; if  *)
(* only some do, the others return a variable nobody has assigned.         *)
SeveralValue(e, s) ==
  IF \A t \in States : IsNull(e, t) THEN {s}
  ELSE IF IsNull(e, s) THEN Value ELSE CaseValue(e, s)

HandlerValue(e, s) == IF e \in program.pai THEN AlikeValue(e) ELSE SeveralValue(e, s)

(* The same where actions return nothing: s is the state at first. *)
AlikeMove(e, s)   == OrStay(Target(e, Start), s)
CaseMove(e, s)    == OrStay(Target(e, s), s)
SeveralMove(e, s) == IF IsNull(e, s) THEN {s} ELSE CaseMove(e, s)
HandlerMove(e, s) == IF e \in program.pai THEN AlikeMove(e, s) ELSE SeveralMove(e, s)

-----------------------------------------------------------------------------
(* run_<machine>(e), called by t. *)
Run(t, e) ==
  /\ call[t].pc = "idle"
  /\ call' = [call EXCEPT ![t].pc = "start", ![t].e = e]
  /\ UNCHANGED <<program, state, event, lock, inside>>

(* A prologue that does not wait. *)
StartUnprotected(t) ==
  /\ call[t].pc = "start"
  /\ lock' = IF Reentrant THEN t ELSE lock
  /\ event' = IF program.returns = "void" THEN call[t].e ELSE event
  /\ Goto(t, "call")
  /\ UNCHANGED <<program, state, inside>>

(* FSM_START_CRITICAL; pfsm->event is stored by the functions of machines  *)
(* whose actions return nothing, and by no others.                         *)
StartCall(t) ==
  /\ call[t].pc = "start"
  /\ Reentrant => lock = Nobody
  /\ lock' = IF Reentrant THEN t ELSE lock
  /\ event' = IF program.returns = "void" THEN call[t].e ELSE event
  /\ Goto(t, "call")
  /\ UNCHANGED <<program, state, inside>>

(* A change of state calls the exit and entry functions before it is       *)
(* stored, where the machine has any.                                      *)
Settle(t, s) ==
  \/ program.fns /\ s # state /\ GoWith(t, "exit", s) /\ UNCHANGED state
  \/ ~(program.fns /\ s # state) /\ state' = s /\ GoWith(t, "end", s)

(* Stores noTransition like a state; or asks the cell again. *)
TakeUnchecked(t, s) == Settle(t, s)
TakeRetrying(t, s) ==
  IF s = NoTransition THEN UNCHANGED <<call, state>> ELSE Settle(t, s)

(* Actions that return states: noTransition is not taken. *)
Take(t, s) ==
  IF s = NoTransition THEN GoWith(t, "end", s) /\ UNCHANGED state ELSE Settle(t, s)

AtCell(t, returns) == call[t].pc = "call" /\ program.returns = returns

(* A null cell in the array of -tc holds the enumerator noTransition where *)
(* the machine has no transition functions: the program calls that number. *)
CallNumber(t) ==
  /\ AtCell(t, "states") /\ ~program.tfns /\ IsNull(call[t].e, state)
  /\ Goto(t, "lost")
  /\ UNCHANGED <<program, state, event, lock, inside>>

CallArray(t) ==
  /\ AtCell(t, "states") /\ (program.tfns \/ ~IsNull(call[t].e, state))
  /\ \E s \in ArrayValue(call[t].e, state) : Take(t, s)
  /\ UNCHANGED <<program, event, lock, inside>>

(* the cell's action, then its transition *)
CallArrayVoid(t) ==
  /\ AtCell(t, "void")
  /\ \E s \in ArrayTransition(call[t].e, state) : Settle(t, s)
  /\ UNCHANGED <<program, event, lock, inside>>

CallStateFn(t) ==
  /\ AtCell(t, "states") /\ call[t].e \notin program.pai
  /\ \E s \in StateFnValue(call[t].e, state) : Take(t, s)
  /\ UNCHANGED <<program, event, lock, inside>>

(* eventIsNotHandledInAllStates assigns pfsm->state itself. *)
CallForAllStates(t) ==
  /\ AtCell(t, "states") /\ call[t].e \in program.pai
  /\ \E s \in PAIValue(call[t].e) : state' = s
  /\ Goto(t, "end")
  /\ UNCHANGED <<program, event, lock, inside>>

CallHandler(t) ==
  /\ AtCell(t, "states")
  /\ \E s \in HandlerValue(call[t].e, state) : Take(t, s)
  /\ UNCHANGED <<program, event, lock, inside>>

(* The FSM functions of -ts and -te are the same around a state function   *)
(* or a handler.                                                           *)
CallVoid(t) ==
  /\ AtCell(t, "void")
  /\ \E s \in IF program.gen = "switch" THEN SwitchMove(call[t].e, state)
              ELSE HandlerMove(call[t].e, state) : Settle(t, s)
  /\ UNCHANGED <<program, event, lock, inside>>

(* the machine's transition function, then the exit function *)
CallExit(t) ==
  /\ call[t].pc = "exit"
  /\ inside' = Outside
  /\ Goto(t, "entry")
  /\ UNCHANGED <<program, state, event, lock>>

(* the entry function, then the state is stored *)
CallEntry(t) ==
  /\ call[t].pc = "entry"
  /\ inside' = call[t].s
  /\ state' = call[t].s
  /\ Goto(t, "end")
  /\ UNCHANGED <<program, event, lock>>

(* FSM_END_CRITICAL *)
EndCall(t) ==
  /\ call[t].pc = "end"
  /\ lock' = IF Reentrant THEN Nobody ELSE lock
  /\ Goto(t, "idle")
  /\ UNCHANGED <<program, state, event, inside>>

Surrounding(t) == StartCall(t) \/ CallExit(t) \/ CallEntry(t) \/ EndCall(t)

(* The FSM functions of -tc, -ts and -te. *)
ArrayFSM(t) ==
  program.gen = "table" /\ (Surrounding(t) \/ CallNumber(t) \/ CallArray(t) \/ CallArrayVoid(t))
SwitchFSM(t) ==
  program.gen = "switch" /\ (Surrounding(t) \/ CallStateFn(t) \/ CallForAllStates(t) \/ CallVoid(t))
EventTableFSM(t) ==
  program.gen = "eventTable" /\ (Surrounding(t) \/ CallHandler(t) \/ CallVoid(t))

Work(t) == ArrayFSM(t) \/ SwitchFSM(t) \/ EventTableFSM(t)
FlatNext == \E t \in Threads : Work(t) \/ \E e \in Events : Run(t, e)
FlatSpec == FlatInit /\ [][FlatNext]_flatVars

(* threads run on; user functions return; nothing makes a thread call, and *)
(* the lock need not be fair                                               *)
FairSpec == FlatSpec /\ \A t \in Threads : WF_flatVars(Work(t))

-----------------------------------------------------------------------------
Within(t) == call[t].pc \in {"call", "exit", "entry", "end"}

(* Between exit and entry function the machine is nowhere, and otherwise   *)
(* it is in the state the entry function announced, whoever else calls it. *)
EntryExitPaired == program.fns =>
  inside = IF \E t \in Threads : call[t].pc = "entry" THEN Outside ELSE state

(* A change of state is one the cell declares, for the event of the call   *)
(* and the state the machine was in when it was handled: events "may be    *)
(* safely ignored" (README.md:32) where there is no cell.                  *)
MovesByCell ==
  [][state' # state => \E t \in Threads :
       /\ call[t].pc \in {"call", "entry"}
       /\ state' \in Target(call[t].e, state) \union
                     (IF program.returns = "states"
                      THEN Answer(call[t].e, state) \ {NoTransition} ELSE {})]_flatVars

(* Two calls are not between the macros at once. *)
Exclusive == \A t, u \in Threads : Within(t) /\ Within(u) => t = u

(* Actions that return nothing find the event of their own call in the     *)
(* structure ("Put the current event into the FSM struct",                 *)
(* revision.c:214), not that of a caller that waits.                       *)
EventReported == program.returns = "void" =>
  \A t \in Threads : call[t].pc = "call" => event = call[t].e

(* What the user's lock is for: one call at a time is at work on the       *)
(* machine's state and event ("to properly protect the machine from        *)
(* re-entrance", README.md:24).                                            *)
OneAtWork == Exclusive /\ EventReported

(* Every call that has begun leaves the FSM function again, by its end:    *)
(* the lock is given back, unless the program is lost.                     *)
CallsEnd == \A t \in Threads : Within(t) ~> call[t].pc \in {"idle", "lost"}
=============================================================================
