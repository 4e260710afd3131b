------------------------------ MODULE SwitchFsm ------------------------------
(***************************************************************************)
(* The program fsm_cswitch.c generates (-ts): the loop of                  *)
(* fsm_c_switch_common.c around a function per state that switches on the  *)
(* event.  The events the description handles alike in every state ("single*)
(* PAI" events) are left out of the state functions; a function of their   *)
(* own is tried first.  With SinglePAI = {} this is also the program of    *)
(* fsm_c_event_table.c (-te), which has the same loop around a function    *)
(* per event that switches on the state.                                   *)
(***************************************************************************)
EXTENDS FsmCalls

CONSTANT SinglePAI   \* the single_pai_for_all_states events of all machines

(* single-PAI events have one action and one transition for every state *)
ASSUME SinglePAIAssumption ==
  /\ SinglePAI \subseteq UNION {Own(m) : m \in Machine}
  /\ \A m \in Machine : \A e \in SinglePAI \intersect Own(m) :
       /\ Passes[e] \in {{}, States[m]}
       /\ \A s, t \in States[m] : Reply[e][s] = Reply[e][t]
       /\ \/ \A s, t \in States[m] : Target[e][s] = Target[e][t]
          \/ \A s \in States[m] : Target[e][s] = {s}

HasSinglePAI(m) == SinglePAI \intersect Own(m) # {}

Continues ==
  /\ top.e # NoEv[cur]
  /\ cur # 0 => top.e >= First[cur]
  /\ cur # 0 /\ Children(cur) # {} => top.e < Last[cur]

Leave == top.pc = "while" /\ ~Continues /\ Return

(* The head of the loop's body.  Top keeps its sub-machines' events away   *)
(* from its own code; a sub-machine lets every event through.              *)
While ==
  /\ top.pc = "while" /\ Continues
  /\ event' = [event EXCEPT ![cur] = top.e]
  /\ IF cur = 0 /\ Children(0) # {} /\ top.e >= NoEv[0]
     THEN Goto("below")
     ELSE Goto(IF HasSinglePAI(cur) THEN "check" ELSE "dispatch")
  /\ UNCHANGED <<state, inside>>

(* A switch that returns noEvent for the events it has no case for.        *)
CheckSwallows ==
  /\ top.pc = "check"
  /\ IF top.e \in SinglePAI \intersect Own(cur)
     THEN Set([top EXCEPT !.pc = "action", !.whole = TRUE])
     ELSE Set([top EXCEPT !.e = NoEv[cur], !.pc = "dispatch"])
  /\ UNCHANGED <<state, event, inside>>

(* checkWhetherEventIsHandledInAllStates: the switch has a case for the    *)
(* single-PAI events; any other event is handed back as it is.             *)
Check ==
  /\ top.pc = "check"
  /\ IF top.e \in SinglePAI \intersect Own(cur)
     THEN Set([top EXCEPT !.pc = "action", !.whole = TRUE])
     ELSE Goto("dispatch")
  /\ UNCHANGED <<state, event, inside>>

(* A state function that is called with other machines' events too. *)
SkipsOnlyNoEvent == HasSinglePAI(cur) /\ top.e = NoEv[cur]

(* The call of the state function, skipped for noEvent and, in a           *)
(* sub-machine, for an event of another machine.  The state function has   *)
(* no case for events of others or for single-PAI events: its default      *)
(* leaves retVal at noEvent.  In top this ends the loop's body.            *)
Skips == \/ HasSinglePAI(cur) /\ top.e = NoEv[cur]
         \/ cur # 0 /\ top.e \notin Own(cur)

EndOfOwn == IF cur = 0 THEN "while" ELSE "below"

Dispatch ==
  /\ top.pc = "dispatch"
  /\ IF Skips THEN Goto(EndOfOwn)
     ELSE IF top.e \in Own(cur) \ SinglePAI
     THEN Set([top EXCEPT !.pc = "action", !.whole = FALSE])
     ELSE Set([top EXCEPT !.e = NoEv[cur], !.pc = EndOfOwn])
  /\ UNCHANGED <<state, event, inside>>

(* Ends that do not ask whether sub-machines are inhibited, or keep the    *)
(* event when they are.                                                    *)
BelowNeverInhibits ==
  /\ top.pc = "below"
  /\ IF /\ Children(cur) # {}
        /\ top.e > NoEv[cur] /\ (cur # 0 => top.e < Last[cur])
     THEN FindAndRunSubMachine
     ELSE Goto("while")
  /\ UNCHANGED <<state, event, inside>>

BelowKeepsEvent ==
  /\ top.pc = "below"
  /\ IF /\ Children(cur) # {} /\ state[cur] \notin Inhibits[cur]
        /\ top.e > NoEv[cur] /\ (cur # 0 => top.e < Last[cur])
     THEN FindAndRunSubMachine
     ELSE Goto("while")
  /\ UNCHANGED <<state, event, inside>>

(* The end of the body, or top's else branch: an event beyond the          *)
(* machine's own goes to its sub-machines.                                 *)
Below ==
  /\ top.pc = "below"
  /\ IF /\ Children(cur) # {}
        /\ top.e > NoEv[cur] /\ (cur # 0 => top.e < Last[cur])
     THEN IF state[cur] \in Inhibits[cur]
          THEN Set([top EXCEPT !.e = NoEv[cur], !.pc = "while"])
          ELSE FindAndRunSubMachine
     ELSE Goto("while")
  /\ UNCHANGED <<state, event, inside>>

After == IF top.whole THEN "dispatch" ELSE EndOfOwn

Step == Busy /\ (\/ While \/ Check \/ Dispatch \/ Below \/ Leave
                 \/ CallAction \/ PassSharedEvent
                 \/ Move(After) \/ CallExit \/ CallEntry(After))
Next == Step \/ \E e \in UNION {Own(m) : m \in Machine} : Run(e)
Spec == Init /\ [][Next]_vars
FairSpec == Spec /\ WF_vars(Step)

=============================================================================
