------------------------------ MODULE TableFsm ------------------------------
(***************************************************************************)
(* The program fsm_c.c generates (-tc): a two dimensional action array and *)
(* a loop, in the FSM function of each machine, that runs until an action  *)
(* returns noEvent or an event that is not the machine's business.         *)
(***************************************************************************)
EXTENDS FsmCalls

(* Loops that do not look at the lower bound, or stop at any event that is *)
(* not the machine's own.                                                  *)
ContinuesAtAny == top.e # NoEv[cur]
ContinuesWithOwn == top.e # NoEv[cur] /\ (cur # 0 => top.e \in Own(cur))

(* The loop's condition: the top-level machine goes on until noEvent; a    *)
(* sub-machine also stops at an event numbered below its own.              *)
Continues == top.e # NoEv[cur] /\ (cur # 0 => top.e >= First[cur])

Leave == top.pc = "while" /\ ~Continues /\ Return

(* A loop that does not ask whether sub-machines are inhibited. *)
WhileNeverInhibits ==
  /\ top.pc = "while" /\ Continues
  /\ event' = [event EXCEPT ![cur] = top.e]
  /\ IF Children(cur) = {} \/ top.e < NoEv[cur] THEN Goto("action")
     ELSE FindAndRunSubMachine
  /\ UNCHANGED <<state, inside>>

(* The head of the loop's body.  A machine without sub-machines indexes    *)
(* its action array with whatever e is.                                    *)
While ==
  /\ top.pc = "while" /\ Continues
  /\ event' = [event EXCEPT ![cur] = top.e]
  /\ \/ /\ Children(cur) = {} \/ top.e < NoEv[cur]
        /\ Goto("action")
     \/ /\ Children(cur) # {} /\ top.e >= NoEv[cur]
        /\ IF state[cur] \in Inhibits[cur]
           THEN UNCHANGED stack        \* e is left as it is
           ELSE FindAndRunSubMachine
  /\ UNCHANGED <<state, inside>>

Step == Busy /\ (\/ While \/ Leave \/ CallAction \/ PassSharedEvent
                 \/ Move("while") \/ CallExit \/ CallEntry("while"))
Next == Step \/ \E e \in UNION {Own(m) : m \in Machine} : Run(e)
Spec == Init /\ [][Next]_vars

(* C code runs on; user functions return. *)
FairSpec == Spec /\ WF_vars(Step)

-----------------------------------------------------------------------------
(* The action array is never indexed with an event of another machine,     *)
(* although the loop of a machine without sub-machines does not look at    *)
(* the upper bound of its events.                                          *)
InBounds == \A i \in 1 .. Len(stack) :
  stack[i].pc \in {"action", "share", "move", "exit", "entry"} =>
    stack[i].e \in Own(stack[i].fsm)
=============================================================================
