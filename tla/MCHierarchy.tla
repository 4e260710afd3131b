---------------------------- MODULE MCHierarchy ----------------------------
(***************************************************************************)
(* A hierarchy of four machines on three levels for the runs:              *)
(*                                                                         *)
(*    0 top  --- 1 sub_machine1 --- 2 its sub-machine                      *)
(*            \- 3 sub_machine2                                            *)
(*                                                                         *)
(* numbered as EventEnum numbers it: top 0 1 2, noEvent 3, numEvents 4,    *)
(* machine 1: 5 6, noEvent 7, machine 2: 8, noEvent 9 = lastEvent of 1,    *)
(* machine 3: 10, noEvent 11, numAllEvents 12.                             *)
(*                                                                         *)
(* Event 2 is shared by machines 1 (as 6) and 3 (as 10), and machine 1     *)
(* shares its 6 with machine 2 (as 8): an event is passed on while it is   *)
(* being passed.  Top's 0 activates machine 1, whose 5 may activate        *)
(* machine 2; every sub-machine may answer with top's 1.  No action can    *)
(* lead back to the event it handles, so every call can end.               *)
(***************************************************************************)
EXTENDS Integers, Sequences, TLC

mcNM     == 4
mcParent == 1 :> 0 @@ 2 :> 1 @@ 3 :> 0
mcFirst  == 0 :> 0 @@ 1 :> 5 @@ 2 :> 8 @@ 3 :> 10
mcNoEv   == 0 :> 3 @@ 1 :> 7 @@ 2 :> 9 @@ 3 :> 11
mcLast   == 0 :> 12 @@ 1 :> 9 @@ 2 :> 9 @@ 3 :> 11

mcStates == 0 :> {"t0", "t1"} @@ 1 :> {"u0", "u1"} @@ 2 :> {"v0", "v1"} @@ 3 :> {"w0", "w1"}
mcStart  == 0 :> "t0" @@ 1 :> "u0" @@ 2 :> "v0" @@ 3 :> "w0"

mcOwner(e) == CASE e \in 0 .. 2 -> 0 [] e \in 5 .. 6 -> 1 [] e = 8 -> 2 [] e = 10 -> 3
mcEvents   == {0, 1, 2, 5, 6, 8, 10}
Cells(Op(_, _)) == [e \in mcEvents |-> [s \in mcStates[mcOwner(e)] |-> Op(e, s)]]

mcPasses == [e \in mcEvents |-> CASE e = 2 -> {"t0"} [] e = 6 -> {"u0"} [] OTHER -> {}]
mcSharers ==
  [e \in mcEvents |->
     CASE e = 2 -> <<[fsm |-> 1, event |-> 6], [fsm |-> 3, event |-> 10]>>
       [] e = 6 -> <<[fsm |-> 2, event |-> 8]>>
       [] OTHER -> <<>>]

(* a null cell: noEvent, and the state as it was *)
NullCell(e, s) == <<e, s>> \in {<<1, "t1">>, <<6, "u1">>}
mcTarget == Cells(LAMBDA e, s : IF NullCell(e, s) THEN {s}
                                ELSE IF e \in {0, 8, 10} THEN mcStates[mcOwner(e)]
                                ELSE IF e = 5 THEN {"u1"}
                                ELSE mcStates[mcOwner(e)] \ {s})
mcReply  == Cells(LAMBDA e, s :
              IF NullCell(e, s) THEN {mcNoEv[mcOwner(e)]}
              ELSE CASE e = 0 -> {5, 8, 3}
                     [] e = 1 -> {3}
                     [] e = 2 -> {1, 10}
                     [] e = 5 -> {1, 6, 8, 7}   \* u1 inhibits 8
                     [] e = 6 -> {1, 7}
                     [] e = 8 -> {1, 9}
                     [] e = 10 -> {1, 11})

mcHasFns     == {0, 1}
mcInhibits   == 0 :> {"t1"} @@ 1 :> {"u1"} @@ 2 :> {} @@ 3 :> {}
mcNoInhibits == [m \in 0 .. 3 |-> {}]
=============================================================================
