------------------------------ MODULE FsmCalls ------------------------------
(***************************************************************************)
(* What the programs of every code generator share: the FSM structures,    *)
(* the calls of FSM functions in progress, and the functions of            *)
(* fsm_c_common.c they all call: pass_shared_event, the entry and exit     *)
(* managers, the sub-machine finder and its inhibitor.                     *)
(*                                                                         *)
(* A call in progress is a frame.  The generated code is sequential: only  *)
(* the innermost frame moves.  A step is the code between two calls (of a  *)
(* user function or of another FSM function).                              *)
(***************************************************************************)
EXTENDS Hierarchy

VARIABLES
  state,   \* state[m]: pfsm->state of machine m
  event,   \* event[m]: pfsm->event of machine m
  stack,   \* the calls of FSM functions in progress, innermost last
  inside   \* inside[m]: the state m's entry functions were last told m is
           \* in, Outside between the exit and the entry function

vars == <<state, event, stack, inside>>

Outside == "outside"

(* Where a call stands.  "while": at the loop's condition; "check",        *)
(* "dispatch", "below": in the loop's body (see SwitchFsm); "find": its    *)
(* findAndRunSubMachine has called a sub-machine; "action": about to call  *)
(* an action; "share": in pass_shared_event; "move": about to compute the  *)
(* transition; "exit", "entry": about to call that function.               *)
Pc == {"while", "check", "dispatch", "below", "find", "action", "share",
       "move", "exit", "entry"}

Frame == [fsm : Machine, pc : Pc,
          e : Event,              \* the local e
          new_e : Event,          \* new_e, retVal, or return_event
          new_s : AnyState,       \* new_s
          left : Seq(Sharer),     \* the sharers pcurrent_sharer has to visit
          whole : BOOLEAN]        \* in the handler of single-PAI events?

TypeOK ==
  /\ state \in [Machine -> AnyState] /\ \A m \in Machine : state[m] \in States[m]
  /\ event \in [Machine -> Event]
  /\ stack \in Seq(Frame)
  /\ inside \in [Machine -> AnyState \union {Outside}]

NewFrame(m, e) ==
  [fsm |-> m, pc |-> "while", e |-> e, new_e |-> NoEv[m],
   new_s |-> Start[m], left |-> <<>>, whole |-> FALSE]

Busy  == stack # <<>>
top   == stack[Len(stack)]
cur    == top.fsm

(* the innermost frame becomes f, or gives way to a new call *)
Set(f)     == stack' = [stack EXCEPT ![Len(stack)] = f]
Goto(pc)   == Set([top EXCEPT !.pc = pc])
CallSub(f, m, e) == stack' = Append([stack EXCEPT ![Len(stack)] = f], NewFrame(m, e))

(* The machines are initialised statically, or by run_<machine>. *)
Init ==
  /\ state = Start
  /\ event = First
  /\ stack = <<>>
  /\ inside = Start

(* run_<machine>(e): the program hands the top-level machine an event. *)
Run(e) ==
  /\ stack = <<>>
  /\ stack' = <<NewFrame(0, e)>>
  /\ UNCHANGED <<state, event, inside>>

(* A sub-machine that reports to its parent by calling it. *)
ReturnByCalling ==
  /\ stack' = IF Len(stack) = 1 THEN <<>>
              ELSE Append(stack, NewFrame(stack[Len(stack) - 1].fsm, ParentNoEv(cur)))
  /\ UNCHANGED <<state, event, inside>>

(* The FSM function returns.  Its caller is in findAndRunSubMachine, whose *)
(* result becomes the loop's e, or in pass_shared_event.                   *)
Return ==
  LET v   == IF top.e = NoEv[cur] THEN ParentNoEv(cur) ELSE top.e
      out == stack[Len(stack) - 1]
  IN  /\ stack' = IF Len(stack) = 1 THEN <<>>
                  ELSE [SubSeq(stack, 1, Len(stack) - 1) EXCEPT ![Len(stack) - 1] =
                          IF out.pc = "find"
                          THEN [out EXCEPT !.e = v, !.pc = "while"]
                          ELSE [out EXCEPT !.new_e = v]]
      /\ UNCHANGED <<state, event, inside>>

(* findAndRunSubMachine: the first sub-machine whose range holds e runs;   *)
(* noEvent if there is none.                                               *)
FindAndRunSubMachine ==
  \/ \E c \in Machine :
       IsHit(cur, top.e, c) /\ CallSub([top EXCEPT !.pc = "find"], c, top.e)
  \/ /\ Hit(cur, top.e) = {}
     /\ Set([top EXCEPT !.e = NoEv[cur], !.pc = "while"])

(* The action of the cell is called: a user's returns at once; the         *)
(* generated one starts passing the event to the sharers.                  *)
CallAction ==
  /\ top.pc = "action"
  /\ IF state[cur] \in Passes[top.e]
     THEN Set([top EXCEPT !.pc = "share", !.new_e = NoEv[cur],
                          !.left = Sharers[top.e]])
     ELSE \E r \in Reply[top.e][state[cur]] :
            Set([top EXCEPT !.pc = "move", !.new_e = r])
  /\ UNCHANGED <<state, event, inside>>

(* A pass_shared_event that calls every sharer, whatever they return. *)
PassToAll ==
  /\ top.pc = "share"
  /\ IF top.left # <<>>
     THEN CallSub([top EXCEPT !.left = Tail(@)],
                  Head(top.left).fsm, Head(top.left).event)
     ELSE Goto("move")
  /\ UNCHANGED <<state, event, inside>>

(* pass_shared_event's loop: the next sharer is called as long as those    *)
(* before it returned noEvent.                                             *)
PassSharedEvent ==
  /\ top.pc = "share"
  /\ IF top.left # <<>> /\ top.new_e = NoEv[cur]
     THEN CallSub([top EXCEPT !.left = Tail(@)],
                  Head(top.left).fsm, Head(top.left).event)
     ELSE Goto("move")
  /\ UNCHANGED <<state, event, inside>>

(* Transitions that are stored before the functions are called, and ones   *)
(* that take over the action's event only when the state changes.          *)
MoveThenCall(next) ==
  /\ top.pc = "move"
  /\ \E s \in Target[top.e][state[cur]] :
       /\ state' = [state EXCEPT ![cur] = s]
       /\ IF cur \in HasFns /\ s # state[cur]
          THEN Set([top EXCEPT !.new_s = s, !.pc = "exit"])
          ELSE Set([top EXCEPT !.e = top.new_e, !.pc = next])
  /\ UNCHANGED <<event, inside>>

MoveKeepingEvent(next) ==
  /\ top.pc = "move"
  /\ \E s \in Target[top.e][state[cur]] :
       IF s # state[cur]
       THEN IF cur \in HasFns
            THEN Set([top EXCEPT !.new_s = s, !.pc = "exit"]) /\ UNCHANGED state
            ELSE /\ Set([top EXCEPT !.e = top.new_e, !.pc = next])
                 /\ state' = [state EXCEPT ![cur] = s]
       ELSE Goto(next) /\ UNCHANGED state
  /\ UNCHANGED <<event, inside>>

(* The cell's transition.  Without entry, exit and transition functions it *)
(* is assigned at once; with them, a change of state calls them first.     *)
(* Then the action's event becomes e and the loop goes on at next.         *)
Move(next) ==
  /\ top.pc = "move"
  /\ \E s \in Target[top.e][state[cur]] :
       IF cur \in HasFns /\ s # state[cur]
       THEN /\ Set([top EXCEPT !.new_s = s, !.pc = "exit"])
            /\ UNCHANGED state
       ELSE /\ Set([top EXCEPT !.e = top.new_e, !.pc = next])
            /\ state' = [state EXCEPT ![cur] = s]
  /\ UNCHANGED <<event, inside>>

(* The machine's transition function, then the exit function of the state  *)
(* the machine leaves.                                                     *)
CallExit ==
  /\ top.pc = "exit"
  /\ inside' = [inside EXCEPT ![cur] = Outside]
  /\ Goto("entry")
  /\ UNCHANGED <<state, event>>

(* A new state that is stored in the top-level machine's structure, and    *)
(* one that is never stored.                                               *)
CallEntryOfTop(next) ==
  /\ top.pc = "entry"
  /\ inside' = [inside EXCEPT ![cur] = top.new_s]
  /\ state' = [state EXCEPT ![0] = top.new_s]
  /\ Set([top EXCEPT !.e = top.new_e, !.pc = next])
  /\ UNCHANGED event

CallEntryOnly(next) ==
  /\ top.pc = "entry"
  /\ inside' = [inside EXCEPT ![cur] = top.new_s]
  /\ Set([top EXCEPT !.e = top.new_e, !.pc = next])
  /\ UNCHANGED <<state, event>>

(* The entry function of the new state; only then is the state changed.    *)
CallEntry(next) ==
  /\ top.pc = "entry"
  /\ inside' = [inside EXCEPT ![cur] = top.new_s]
  /\ state' = [state EXCEPT ![cur] = top.new_s]
  /\ Set([top EXCEPT !.e = top.new_e, !.pc = next])
  /\ UNCHANGED event
-----------------------------------------------------------------------------
(* Properties of the calls, the same for every generator. *)

(* The calls in progress go down the tree of machines one level at a time, *)
(* so no machine's FSM function is entered while it is running: the        *)
(* generated code keeps the rule README.md:24 states for its users.        *)
CallsDescend ==
  /\ Busy => stack[1].fsm = 0
  /\ \A i \in 1 .. Len(stack) - 1 :
       /\ stack[i + 1].fsm # 0
       /\ Parent[stack[i + 1].fsm] = stack[i].fsm
       /\ stack[i].pc \in {"find", "share"}

NotReentered == \A i, j \in 1 .. Len(stack) :
  i # j => stack[i].fsm # stack[j].fsm

(* Entry and exit functions come in pairs around every change of state: a  *)
(* machine is in the state its entry function last announced, except       *)
(* between the two calls, and then the call is the innermost one.          *)
EntryExitPaired == \A m \in HasFns :
  inside[m] = IF Busy /\ cur = m /\ top.pc = "entry" THEN Outside ELSE state[m]

(* A machine in a state that inhibits sub-machines does not run one for    *)
(* its event; only sharing reaches them (README.md:432).                   *)
InhibitRespected ==
  [][Len(stack') > Len(stack) /\ Busy /\ state[cur] \in Inhibits[cur]
       => top.pc = "share"]_vars

(* What a sub-machine returns is never an event of its own or of a machine *)
(* below it: those it has handled itself (README.md:426).                  *)
ReturnsOnlyToOthers ==
  [][Len(stack') < Len(stack) /\ Len(stack') > 0 =>
       LET got == stack'[Len(stack')]
           v   == IF got.pc = "share" THEN got.new_e ELSE got.e
       IN  v \notin Span(cur)]_vars

(* Every call of the top-level FSM function returns. *)
Terminates == Busy ~> ~Busy

-----------------------------------------------------------------------------
(* The promise of RunToCompletion, read off the calls in progress.         *)

Sharing(f) == f.pc \in {"share", "move", "exit", "entry"}
              /\ state[f.fsm] \in Passes[f.e]

(* the event a call works on, the answer so far to one it passes on, and   *)
(* that event with those still to be asked                                 *)
EventOf(f) == LET e == IF Sharing(f) THEN f.new_e ELSE f.e
              IN  IF e = NoEv[f.fsm] THEN -1 ELSE e
OfferOf(f) == IF Sharing(f) THEN [e |-> f.e, left |-> f.left]
                            ELSE [e |-> -1, left |-> <<>>]
CallsOf(m) == {i \in 1 .. Len(stack) : stack[i].fsm = m}

At       == IF Busy THEN cur ELSE -1
Pending  == IF Busy THEN EventOf(top) ELSE -1
Offering == [m \in Machine |->
               IF CallsOf(m) = {} THEN [e |-> -1, left |-> <<>>]
               ELSE OfferOf(stack[CHOOSE i \in CallsOf(m) : TRUE])]

Promise == INSTANCE RunToCompletion WITH
  st <- state, at <- At, pending <- Pending, offering <- Offering

(* The FSM functions do what RunToCompletion promises. *)
KeepsPromise == Promise!AbsSpec
=============================================================================
