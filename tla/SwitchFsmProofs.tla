--------------------------- MODULE SwitchFsmProofs ---------------------------
(***************************************************************************)
(* The invariant of FsmCallsProofs holds of the switch (and, without       *)
(* single-PAI events, the event table) program too: every description,     *)
(* every choice of single-PAI events.                                      *)
(***************************************************************************)
EXTENDS SwitchFsm, FsmCallsProofs

(* The loop's own steps change the innermost frame only: it goes to pc,    *)
(* with e as it is or noEvent, and works only on an event of its own.      *)
LEMMA LoopStep ==
  ASSUME IInv, Busy, top.pc \notin Handling,
         NEW f, Set(f), NEW pc \in Pc \ {"exit", "entry"}, NEW w \in BOOLEAN,
         \/ f = [top EXCEPT !.pc = pc]
         \/ f = [top EXCEPT !.pc = pc, !.whole = w]
         \/ f = [top EXCEPT !.e = NoEv[cur], !.pc = pc],
         pc \in Handling => f.e \in Own(cur),
         state' = state, inside' = inside, event' \in [Machine -> Event]
  PROVE  IInv'
<1>0. /\ FrameOK(top) /\ top \in Frame /\ cur \in Machine /\ cur = top.fsm
      /\ top.pc # "entry"
  BY TopFacts DEF cur, Handling
<1>1. NoEv[cur] \in Event /\ Reach(cur, NoEv[cur])
  BY <1>0, HierarchyAssumption DEF Layout, Event, Reach
<1>2. /\ f \in Frame /\ f.fsm = cur /\ f.pc = pc
      /\ f.new_e = top.new_e /\ f.new_s = top.new_s /\ f.left = top.left
      /\ f.e = top.e \/ f.e = NoEv[cur]
  BY <1>0, <1>1 DEF Frame
<1>3. FrameOK(f)
  BY <1>0, <1>1, <1>2 DEF FrameOK
<1>4. f.pc # "entry"
  BY <1>2
<1> QED BY <1>0, <1>2, <1>3, <1>4, FrameStep

LEMMA WhileInv == ASSUME IInv, Busy, While PROVE IInv'
<1>1. /\ event' \in [Machine -> Event] /\ state' = state /\ inside' = inside
      /\ top.pc = "while"
  BY TopFacts DEF While, IInv, TypeOK, Event
<1>2. PICK pc \in {"below", "check", "dispatch"} : Set([top EXCEPT !.pc = pc])
  BY DEF While, Goto
<1> DEFINE f == [top EXCEPT !.pc = pc]
<1>3. pc \in Pc \ {"exit", "entry"} /\ pc \notin Handling /\ top.pc \notin Handling
  BY <1>1 DEF Pc, Handling
<1>4. Set(f) /\ f = [top EXCEPT !.pc = pc] /\ TRUE \in BOOLEAN
  BY <1>2
<1> HIDE DEF f
<1> QED BY <1>1, <1>3, <1>4, LoopStep

LEMMA CheckInv == ASSUME IInv, Busy, Check PROVE IInv'
<1>1. /\ event' \in [Machine -> Event] /\ state' = state /\ inside' = inside
      /\ top.pc \notin Handling /\ top \in Frame
  BY TopFacts DEF Check, IInv, TypeOK, Handling
<1>2. CASE top.e \in SinglePAI \intersect Own(cur)
  <2> DEFINE f == [top EXCEPT !.pc = "action", !.whole = TRUE]
  <2>1. Set(f) /\ f = [top EXCEPT !.pc = "action", !.whole = TRUE] /\ f.e \in Own(cur)
    BY <1>1, <1>2 DEF Check, Frame
  <2>2. "action" \in Pc \ {"exit", "entry"} /\ TRUE \in BOOLEAN
    BY DEF Pc
  <2> HIDE DEF f
  <2> QED BY <1>1, <2>1, <2>2, LoopStep
<1>3. CASE top.e \notin SinglePAI \intersect Own(cur)
  <2> DEFINE f == [top EXCEPT !.pc = "dispatch"]
  <2>1. Set(f) /\ f = [top EXCEPT !.pc = "dispatch"]
    BY <1>3 DEF Check, Goto
  <2>2. "dispatch" \in Pc \ {"exit", "entry"} /\ "dispatch" \notin Handling
        /\ TRUE \in BOOLEAN
    BY DEF Pc, Handling
  <2> HIDE DEF f
  <2> QED BY <1>1, <2>1, <2>2, LoopStep
<1> QED BY <1>2, <1>3

LEMMA DispatchInv == ASSUME IInv, Busy, Dispatch PROVE IInv'
<1>1. /\ event' \in [Machine -> Event] /\ state' = state /\ inside' = inside
      /\ top.pc \notin Handling /\ top \in Frame
  BY TopFacts DEF Dispatch, IInv, TypeOK, Handling
<1>2. /\ EndOfOwn \in Pc \ {"exit", "entry"} /\ EndOfOwn \notin Handling
      /\ TRUE \in BOOLEAN /\ FALSE \in BOOLEAN
  BY DEF EndOfOwn, Pc, Handling
<1>3. CASE Skips
  <2> DEFINE f == [top EXCEPT !.pc = EndOfOwn]
  <2>1. Set(f) /\ f = [top EXCEPT !.pc = EndOfOwn]
    BY <1>3 DEF Dispatch, Goto
  <2> HIDE DEF f
  <2> QED BY <1>1, <1>2, <2>1, LoopStep
<1>4. CASE ~Skips /\ top.e \in Own(cur) \ SinglePAI
  <2> DEFINE f == [top EXCEPT !.pc = "action", !.whole = FALSE]
  <2>1. Set(f) /\ f = [top EXCEPT !.pc = "action", !.whole = FALSE] /\ f.e \in Own(cur)
    BY <1>1, <1>4 DEF Dispatch, Frame
  <2>2. "action" \in Pc \ {"exit", "entry"}
    BY DEF Pc
  <2> HIDE DEF f
  <2> QED BY <1>1, <1>2, <2>1, <2>2, LoopStep
<1>5. CASE ~Skips /\ top.e \notin Own(cur) \ SinglePAI
  <2> DEFINE f == [top EXCEPT !.e = NoEv[cur], !.pc = EndOfOwn]
  <2>1. Set(f) /\ f = [top EXCEPT !.e = NoEv[cur], !.pc = EndOfOwn]
    BY <1>5 DEF Dispatch
  <2> HIDE DEF f
  <2> QED BY <1>1, <1>2, <2>1, LoopStep
<1> QED BY <1>3, <1>4, <1>5

LEMMA BelowInv == ASSUME IInv, Busy, Below PROVE IInv'
<1>1. /\ event' \in [Machine -> Event] /\ state' = state /\ inside' = inside
      /\ top.pc \notin Handling
  BY TopFacts DEF Below, IInv, TypeOK, Handling
<1>2. /\ "while" \in Pc \ {"exit", "entry"} /\ "while" \notin Handling
      /\ TRUE \in BOOLEAN
  BY DEF Pc, Handling
<1>3. CASE FindAndRunSubMachine /\ top.e > NoEv[cur]
  <2>1. top.e # NoEv[cur]
    BY <1>3, TopFacts, Numbers
  <2> QED BY <1>1, <1>3, <2>1, FindInv
<1>4. CASE Set([top EXCEPT !.e = NoEv[cur], !.pc = "while"])
  <2> DEFINE f == [top EXCEPT !.e = NoEv[cur], !.pc = "while"]
  <2>1. Set(f) /\ f = [top EXCEPT !.e = NoEv[cur], !.pc = "while"]
    BY <1>4
  <2> HIDE DEF f
  <2> QED BY <1>1, <1>2, <2>1, LoopStep
<1>5. CASE Goto("while")
  <2> DEFINE f == [top EXCEPT !.pc = "while"]
  <2>1. Set(f) /\ f = [top EXCEPT !.pc = "while"]
    BY <1>5 DEF Goto
  <2> HIDE DEF f
  <2> QED BY <1>1, <1>2, <2>1, LoopStep
<1> QED BY <1>3, <1>4, <1>5 DEF Below

(* The loop is left with noEvent or an event of a machine above: what lies *)
(* beyond lastEvent never reaches the machine.                             *)
LEMMA LeavesWith ==
  ASSUME IInv, Busy, ~Continues
  PROVE  top.e = NoEv[cur] \/ top.e < First[cur]
<1>1. cur \in Machine /\ top.e \in Nat /\ Reach(cur, top.e)
  BY TopFacts DEF FrameOK, cur
<1> QED BY <1>1, Numbers DEF Continues, Reach

LEMMA StepInv == ASSUME IInv, [Next]_vars PROVE IInv'
<1>0. After \in Pc \ (Handling \union {"find"})
  BY DEF After, EndOfOwn, Pc, Handling
<1>1. CASE Busy /\ While
  BY <1>1, WhileInv
<1>2. CASE Busy /\ Check
  BY <1>2, CheckInv
<1>3. CASE Busy /\ Dispatch
  BY <1>3, DispatchInv
<1>4. CASE Busy /\ Below
  BY <1>4, BelowInv
<1>5. CASE Busy /\ Leave
  <2>1. top.e = NoEv[cur] \/ top.e < First[cur]
    BY <1>5, LeavesWith DEF Leave
  <2> QED BY <1>5, <2>1, ReturnInv DEF Leave
<1>6. CASE Busy /\ CallAction
  BY <1>6, CallActionInv
<1>7. CASE Busy /\ PassSharedEvent
  BY <1>7, PassSharedEventInv
<1>8. CASE Busy /\ Move(After)
  BY <1>0, <1>8, MoveInv
<1>9. CASE Busy /\ CallExit
  BY <1>9, CallExitInv
<1>10. CASE Busy /\ CallEntry(After)
  BY <1>0, <1>10, CallEntryInv
<1>11. CASE \E e \in UNION {Own(m) : m \in Machine} : Run(e)
  BY <1>11, RunInv
<1>12. CASE UNCHANGED vars
  BY <1>12, StutterInv
<1> QED BY <1>1, <1>2, <1>3, <1>4, <1>5, <1>6, <1>7, <1>8, <1>9, <1>10,
           <1>11, <1>12 DEF Next, Step

(* The invariant holds of every behaviour. *)
LEMMA SpecIInv == Spec => []IInv
<1>1. Init => IInv
  BY InitInv
<1>2. IInv /\ [Next]_vars => IInv'
  BY StepInv
<1> QED BY <1>1, <1>2, PTL DEF Spec

(* Every variable, and every local of every call of the switch program,    *)
(* keeps to its values.                                                    *)
THEOREM TypeCorrect == Spec => []TypeOK
<1>1. IInv => TypeOK
  BY IInvImplies
<1> QED BY <1>1, SpecIInv, PTL

(* The switch program's FSM functions call only the machine below.         *)
THEOREM CallsDescendAlways == Spec => []CallsDescend
<1>1. IInv => CallsDescend
  BY IInvImplies
<1> QED BY <1>1, SpecIInv, PTL

(* No FSM function of the switch program is entered while it is running,   *)
(* even when an event is handled both as a single-PAI event and, for the   *)
(* event its action returns, by a state function.                          *)
THEOREM NeverReentered == Spec => []NotReentered
<1>1. IInv => NotReentered
  BY IInvImplies
<1> QED BY <1>1, SpecIInv, PTL

(* A single iteration of the switch program's loop may change state twice; *)
(* entry and exit functions are paired all the same.                       *)
THEOREM EntryExitAlwaysPaired == Spec => []EntryExitPaired
<1>1. IInv => EntryExitPaired
  BY IInvImplies
<1> QED BY <1>1, SpecIInv, PTL
-----------------------------------------------------------------------------
(* The promise.  The code drops what the action of a single-PAI event      *)
(* returns when that is a single-PAI event of the same machine, or, in the *)
(* top-level machine, an event of a sub-machine: the state function it is  *)
(* given to has no case for either.  Orderly descriptions have no such     *)
(* action, and do not pass a single-PAI event on.                          *)
Orderly ==
  \A m \in Machine : \A e \in SinglePAI \intersect Own(m) :
    /\ Passes[e] = {}
    /\ \A s \in States[m] : \A r \in Reply[e][s] :
         /\ r \notin SinglePAI \intersect Own(m)
         /\ m = 0 => r \in Own(0) \union {NoEv[0]}

(* What a call in the body of the loop works on, such that its state       *)
(* function has a case for it: with Orderly the dispatch drops nothing.    *)
ChosenAt(f) ==
  /\ f.pc \in {"check", "dispatch"} /\ f.fsm = 0 => f.e \in Own(0) \union {NoEv[0]}
  /\ f.pc = "dispatch" => f.e \notin SinglePAI \intersect Own(f.fsm)
  /\ f.pc \in Handling /\ f.whole => f.e \in SinglePAI

Chosen == \A i \in 1 .. Len(stack) : ChosenAt(stack[i])

LEMMA TopChosen ==
  ASSUME IInv, Busy, Chosen PROVE ChosenAt(top)
BY StackFacts DEF Chosen

LEMMA SetChosen ==
  ASSUME IInv, Busy, Chosen, NEW f, Set(f), ChosenAt(f) PROVE Chosen'
<1>1. stack \in Seq(Frame) /\ Len(stack) \in Nat \ {0}
  BY StackFacts
<1> DEFINE t == [stack EXCEPT ![Len(stack)] = f]
<1>2. Len(t) = Len(stack)
      /\ \A j \in 1 .. Len(stack) : t[j] = IF j = Len(stack) THEN f ELSE stack[j]
  BY <1>1
<1>3. stack' = t
  BY DEF Set
<1> HIDE DEF t
<1> QED BY <1>2, <1>3 DEF Chosen, ChosenAt

LEMMA CallChosen ==
  ASSUME IInv, Busy, Chosen, NEW f \in Frame, NEW m, NEW e, CallSub(f, m, e),
         ChosenAt(f)
  PROVE  Chosen'
<1>1. stack \in Seq(Frame) /\ Len(stack) \in Nat \ {0}
  BY StackFacts
<1> DEFINE u == [stack EXCEPT ![Len(stack)] = f]
           g == NewFrame(m, e)
           t == Append(u, g)
<1>2. /\ u \in Seq(Frame) /\ Len(u) = Len(stack)
      /\ \A j \in 1 .. Len(stack) : u[j] = IF j = Len(stack) THEN f ELSE stack[j]
  BY <1>1, ExceptSeq
<1>3. stack' = t
  BY DEF CallSub
<1>4. ChosenAt(g)
  BY DEF NewFrame, ChosenAt, Handling
<1> HIDE DEF u, g
<1>5. /\ Len(t) = Len(stack) + 1
      /\ \A j \in 1 .. Len(t) : t[j] = IF j = Len(t) THEN g ELSE u[j]
      /\ \A j \in 1 .. Len(t) : j = Len(t) \/ j \in 1 .. Len(stack)
  BY <1>1, <1>2
<1> HIDE DEF t
<1>6. \A j \in 1 .. Len(t) : ChosenAt(t[j])
  <2> TAKE j \in 1 .. Len(t)
  <2>1. CASE j = Len(t)
    BY <1>4, <1>5, <2>1
  <2>2. CASE j # Len(t)
    <3>1. j \in 1 .. Len(stack) /\ t[j] = u[j]
      BY <1>5, <2>2
    <3>2. u[j] = f \/ u[j] = stack[j]
      BY <1>2, <3>1
    <3> QED BY <3>1, <3>2 DEF Chosen
  <2> QED BY <2>1, <2>2
<1> QED BY <1>3, <1>6 DEF Chosen, ChosenAt

LEMMA ReturnChosen ==
  ASSUME IInv, Busy, Chosen, Return PROVE Chosen'
<1> DEFINE n == Len(stack)
<1>1. /\ StackOK(stack) /\ stack \in Seq(Frame) /\ n \in Nat \ {0} /\ n = Len(stack)
  BY StackFacts
<1> HIDE DEF n
<1>2. CASE n = 1
  BY <1>1, <1>2 DEF Return, Chosen
<1>3. CASE n > 1
  <2> DEFINE out == stack[n - 1]
             v == IF top.e = NoEv[cur] THEN ParentNoEv(cur) ELSE top.e
             f == IF out.pc = "find" THEN [out EXCEPT !.e = v, !.pc = "while"]
                  ELSE [out EXCEPT !.new_e = v]
             u == SubSeq(stack, 1, n - 1)
             t == [u EXCEPT ![n - 1] = f]
  <2>1. stack' = t
    BY <1>1, <1>3 DEF Return
  <2>2. /\ n - 1 \in 1 .. n - 1 /\ n - 1 \in 1 .. n
        /\ u \in Seq(Frame) /\ Len(u) = n - 1
        /\ \A j \in 1 .. n - 1 : u[j] = stack[j] /\ j \in 1 .. n
    BY <1>1, <1>3, SubSeqProperties
  <2>3. out \in Frame /\ out.pc \in {"find", "share"} /\ ChosenAt(out)
    BY <1>1, <2>2 DEF StackOK, FrameOK, Chosen
  <2> HIDE DEF out, u, v
  <2>4. ChosenAt(f)
    <3>1. /\ out.pc = "find" => f.pc = "while"
          /\ out.pc = "share" => f.pc = "share" /\ f.e = out.e /\ f.whole = out.whole
      BY <2>3 DEF Frame
    <3> HIDE DEF f
    <3> QED BY <2>3, <3>1 DEF ChosenAt, Handling
  <2> HIDE DEF f
  <2>5. Len(t) = n - 1 /\ \A j \in 1 .. n - 1 : t[j] = IF j = n - 1 THEN f ELSE u[j]
    BY <2>2
  <2> HIDE DEF t
  <2>6. \A j \in 1 .. Len(t) : ChosenAt(t[j])
    <3> TAKE j \in 1 .. Len(t)
    <3>1. j \in 1 .. n - 1 /\ (t[j] = f \/ t[j] = stack[j]) /\ j \in 1 .. n
      BY <2>2, <2>5
    <3> QED BY <1>1, <2>4, <3>1 DEF Chosen
  <2> QED BY <2>1, <2>6 DEF Chosen, ChosenAt
<1>4. n = 1 \/ n > 1
  BY <1>1
<1> QED BY <1>2, <1>3, <1>4

(* A step of the loop that keeps e, and what it has chosen by it. *)
LEMMA LoopKept ==
  ASSUME IInv, IInv', Busy, Held, Chosen, top.pc \notin Settling,
         NEW f, f.fsm = cur, Set(f), f.pc \notin Settling, f.e = top.e,
         ChosenAt(f), state' = state
  PROVE  Kept /\ Chosen'
BY LoopPromise, SetChosen

LEMMA WhileKept ==
  ASSUME IInv, IInv', Busy, Held, Chosen, While PROVE Kept /\ Chosen'
<1>1. /\ top \in Frame /\ cur = top.fsm /\ cur \in Machine /\ top.e \in Nat
      /\ top.e # NoEv[cur] /\ Reach(cur, top.e) /\ state' = state /\ top.pc = "while"
      /\ Continues
  BY TopFacts, StackFacts DEF While, Continues, FrameOK
<1> DEFINE pc == IF cur = 0 /\ Children(0) # {} /\ top.e >= NoEv[0] THEN "below"
                 ELSE IF HasSinglePAI(cur) THEN "check" ELSE "dispatch"
           f == [top EXCEPT !.pc = pc]
<1>2. Set(f)
  BY DEF While, Goto
<1>3. f.fsm = cur /\ f.e = top.e /\ f.pc = pc /\ f.whole = top.whole
  BY <1>1 DEF Frame
<1> HIDE DEF f
<1>4. pc \in {"check", "dispatch"} /\ cur = 0 => top.e \in Own(0)
  <2> SUFFICES ASSUME cur = 0, ~(Children(0) # {} /\ top.e >= NoEv[0])
               PROVE  top.e \in Own(0)
    OBVIOUS
  <2>1. First[0] = 0 /\ NoEv[0] \in Nat /\ top.e >= First[cur]
    BY <1>1, HierarchyAssumption DEF Layout
  <2>2. Children(cur) = {} => top.e <= NoEv[cur]
    BY <1>1, <2>1, ReachBounded
  <2> QED BY <1>1, <2>1, <2>2 DEF Own
<1>5. pc = "dispatch" => top.e \notin SinglePAI \intersect Own(cur)
  BY DEF HasSinglePAI
<1>6. pc \notin Handling /\ pc \notin Settling /\ top.pc \notin Settling
  BY <1>1 DEF Handling, Settling
<1> HIDE DEF pc
<1>7. ChosenAt(f)
  BY <1>3, <1>4, <1>5, <1>6 DEF ChosenAt
<1> QED BY <1>1, <1>2, <1>3, <1>6, <1>7, LoopKept

LEMMA CheckKept ==
  ASSUME IInv, IInv', Busy, Held, Chosen, Check PROVE Kept /\ Chosen'
<1>1. /\ top \in Frame /\ cur = top.fsm /\ state' = state /\ top.pc = "check"
      /\ ChosenAt(top) /\ top.pc \notin Settling
  BY TopFacts, StackFacts, TopChosen DEF Check, Settling
<1>2. CASE top.e \in SinglePAI \intersect Own(cur)
  <2> DEFINE f == [top EXCEPT !.pc = "action", !.whole = TRUE]
  <2>1. f.fsm = cur /\ f.e = top.e /\ f.pc = "action" /\ Set(f)
    BY <1>1, <1>2 DEF Check, Frame
  <2> HIDE DEF f
  <2>2. ChosenAt(f) /\ f.pc \notin Settling
    BY <1>2, <2>1 DEF ChosenAt, Settling
  <2> QED BY <1>1, <2>1, <2>2, LoopKept
<1>3. CASE top.e \notin SinglePAI \intersect Own(cur)
  <2> DEFINE f == [top EXCEPT !.pc = "dispatch"]
  <2>1. f.fsm = cur /\ f.e = top.e /\ f.pc = "dispatch" /\ Set(f)
    BY <1>1, <1>3 DEF Check, Goto, Frame
  <2> HIDE DEF f
  <2>2. ChosenAt(f) /\ f.pc \notin Settling
    BY <1>1, <1>3, <2>1 DEF ChosenAt, Settling, Handling
  <2> QED BY <1>1, <2>1, <2>2, LoopKept
<1> QED BY <1>2, <1>3

(* the dispatch drops an event only where it drops noEvent *)
LEMMA DispatchKept ==
  ASSUME IInv, IInv', Busy, Held, Chosen, Dispatch PROVE Kept /\ Chosen'
<1>1. /\ top \in Frame /\ cur = top.fsm /\ state' = state /\ top.pc = "dispatch"
      /\ ChosenAt(top) /\ top.pc \notin Settling
  BY TopFacts, StackFacts, TopChosen DEF Dispatch, Settling
<1>2. EndOfOwn \in {"while", "below"}
  BY DEF EndOfOwn
<1>3. CASE Skips
  <2> DEFINE f == [top EXCEPT !.pc = EndOfOwn]
  <2>1. f.fsm = cur /\ f.e = top.e /\ f.pc = EndOfOwn /\ Set(f)
    BY <1>1, <1>3 DEF Dispatch, Goto, Frame
  <2> HIDE DEF f
  <2>2. ChosenAt(f) /\ f.pc \notin Settling
    BY <1>2, <2>1 DEF ChosenAt, Settling, Handling
  <2> QED BY <1>1, <2>1, <2>2, LoopKept
<1>4. CASE ~Skips /\ top.e \in Own(cur) \ SinglePAI
  <2> DEFINE f == [top EXCEPT !.pc = "action", !.whole = FALSE]
  <2>1. f.fsm = cur /\ f.e = top.e /\ f.pc = "action" /\ ~f.whole /\ Set(f)
    BY <1>1, <1>4 DEF Dispatch, Frame
  <2> HIDE DEF f
  <2>2. ChosenAt(f) /\ f.pc \notin Settling
    BY <2>1 DEF ChosenAt, Settling
  <2> QED BY <1>1, <2>1, <2>2, LoopKept
<1>5. CASE ~Skips /\ top.e \notin Own(cur) \ SinglePAI
  <2> DEFINE f == [top EXCEPT !.e = NoEv[cur], !.pc = EndOfOwn]
  <2>1. top.e = NoEv[cur]
    BY <1>1, <1>5 DEF ChosenAt, Skips
  <2>2. f.fsm = cur /\ f.e = NoEv[cur] /\ f.pc = EndOfOwn /\ Set(f)
    BY <1>1, <1>5 DEF Dispatch, Frame
  <2> HIDE DEF f
  <2>3. ChosenAt(f) /\ f.pc \notin Settling
    BY <1>2, <2>2 DEF ChosenAt, Settling, Handling
  <2> QED BY <1>1, <2>1, <2>2, <2>3, LoopKept
<1> QED BY <1>3, <1>4, <1>5

LEMMA BelowKept ==
  ASSUME IInv, IInv', Busy, Held, Chosen, Below PROVE Kept /\ Chosen'
<1>1. /\ top \in Frame /\ cur = top.fsm /\ state' = state /\ top.pc = "below"
      /\ top.pc \notin Settling /\ top.pc \notin Handling
  BY TopFacts, StackFacts DEF Below, Settling, Handling
<1>2. CASE top.e > NoEv[cur] /\ state[cur] \in Inhibits[cur]
             /\ Set([top EXCEPT !.e = NoEv[cur], !.pc = "while"])
  <2> DEFINE f == [top EXCEPT !.e = NoEv[cur], !.pc = "while"]
  <2>1. f.fsm = cur /\ f.e = NoEv[cur] /\ f.pc = "while" /\ Set(f)
    BY <1>1, <1>2 DEF Frame
  <2> HIDE DEF f
  <2>2. ChosenAt(f) /\ f.pc \notin Settling
    BY <2>1 DEF ChosenAt, Settling, Handling
  <2> QED BY <1>1, <1>2, <2>1, <2>2, DropPromise, SetChosen
<1>3. CASE top.e > NoEv[cur] /\ state[cur] \notin Inhibits[cur] /\ FindAndRunSubMachine
  <2>1. Kept
    BY <1>1, <1>3, FindPromise
  <2>2. CASE \E c \in Machine : CallSub([top EXCEPT !.pc = "find"], c, top.e)
    <3>1. PICK c \in Machine : CallSub([top EXCEPT !.pc = "find"], c, top.e)
      BY <2>2
    <3> DEFINE f == [top EXCEPT !.pc = "find"]
    <3>2. f \in Frame /\ f.pc = "find"
      BY <1>1 DEF Frame, Pc
    <3>3. CallSub(f, c, top.e)
      BY <3>1
    <3> HIDE DEF f
    <3>4. ChosenAt(f)
      BY <3>2 DEF ChosenAt, Handling
    <3> QED BY <2>1, <3>2, <3>3, <3>4, CallChosen
  <2>3. CASE Set([top EXCEPT !.e = NoEv[cur], !.pc = "while"])
    <3> DEFINE f == [top EXCEPT !.e = NoEv[cur], !.pc = "while"]
    <3>1. f.pc = "while" /\ Set(f)
      BY <1>1, <2>3 DEF Frame
    <3> HIDE DEF f
    <3>2. ChosenAt(f)
      BY <3>1 DEF ChosenAt, Handling
    <3> QED BY <2>1, <3>1, <3>2, SetChosen
  <2> QED BY <1>3, <2>2, <2>3 DEF FindAndRunSubMachine
<1>4. CASE Goto("while")
  <2> DEFINE f == [top EXCEPT !.pc = "while"]
  <2>1. f.fsm = cur /\ f.e = top.e /\ f.pc = "while" /\ Set(f)
    BY <1>1, <1>4 DEF Goto, Frame
  <2> HIDE DEF f
  <2>2. ChosenAt(f) /\ f.pc \notin Settling
    BY <2>1 DEF ChosenAt, Settling, Handling
  <2> QED BY <1>1, <2>1, <2>2, LoopKept
<1> QED BY <1>2, <1>3, <1>4 DEF Below

(* After the handler of a single-PAI event the state function is given what *)
(* its action returned: Orderly says that it has a case for it.            *)
LEMMA AfterChosen ==
  ASSUME Orderly, IInv, Busy, Held, Chosen, top.pc \in {"move", "entry"},
         NEW f, f.fsm = cur, f.e = top.new_e, f.pc = After
  PROVE  ChosenAt(f)
<1>1. /\ cur = top.fsm /\ cur \in Machine /\ WorksIn(state, top) /\ ChosenAt(top)
      /\ top.e \in Own(cur) /\ state[cur] \in States[cur] /\ top.pc \in Handling
  BY TopFacts, StackFacts, TopChosen DEF Held, FrameOK, Handling
<1>2. CASE ~top.whole
  <2>1. f.pc \in {"while", "below"}
    BY <1>2 DEF After, EndOfOwn
  <2> QED BY <2>1 DEF ChosenAt, Handling
<1>3. CASE top.whole
  <2>1. top.e \in SinglePAI \intersect Own(cur)
    BY <1>1, <1>3 DEF ChosenAt
  <2>2. state[cur] \notin Passes[top.e]
    BY <1>1, <2>1 DEF Orderly
  <2>3. top.new_e \in Reply[top.e][state[cur]]
    BY <1>1, <2>2 DEF WorksIn
  <2>4. /\ top.new_e \notin SinglePAI \intersect Own(cur)
        /\ cur = 0 => top.new_e \in Own(0) \union {NoEv[0]}
    BY <1>1, <2>1, <2>3 DEF Orderly
  <2>5. f.pc = "dispatch"
    BY <1>3 DEF After
  <2> QED BY <2>4, <2>5 DEF ChosenAt, Handling
<1> QED BY <1>2, <1>3

LEMMA WorkChosen ==
  ASSUME Orderly, IInv, Busy, Held, Chosen,
         CallAction \/ PassSharedEvent \/ Move(After) \/ CallExit \/ CallEntry(After)
  PROVE  Chosen'
<1>1. top \in Frame /\ cur = top.fsm /\ ChosenAt(top)
  BY TopFacts, StackFacts, TopChosen
<1>2. ASSUME NEW f, Set(f), top.pc \in Handling, f.pc \in Handling,
             f.pc \notin {"check", "dispatch"}, f.e = top.e, f.whole = top.whole
      PROVE  Chosen'
  BY <1>1, <1>2, SetChosen DEF ChosenAt
<1>3. CASE CallAction
  <2>1. CASE state[cur] \in Passes[top.e]
    <3> DEFINE f == [top EXCEPT !.pc = "share", !.new_e = NoEv[cur], !.left = Sharers[top.e]]
    <3>1. /\ f.pc = "share" /\ f.e = top.e /\ f.whole = top.whole /\ Set(f)
          /\ top.pc = "action"
      BY <1>1, <1>3, <2>1 DEF CallAction, Frame
    <3> HIDE DEF f
    <3> QED BY <1>2, <3>1 DEF Handling
  <2>2. CASE state[cur] \notin Passes[top.e]
    <3>1. PICK r \in Reply[top.e][state[cur]] :
            Set([top EXCEPT !.pc = "move", !.new_e = r])
      BY <1>3, <2>2 DEF CallAction
    <3> DEFINE f == [top EXCEPT !.pc = "move", !.new_e = r]
    <3>2. /\ f.pc = "move" /\ f.e = top.e /\ f.whole = top.whole /\ Set(f)
          /\ top.pc = "action"
      BY <1>1, <1>3, <3>1 DEF CallAction, Frame
    <3> HIDE DEF f
    <3> QED BY <1>2, <3>2 DEF Handling
  <2> QED BY <2>1, <2>2
<1>4. CASE PassSharedEvent
  <2>1. CASE top.left # <<>> /\ top.new_e = NoEv[cur]
    <3> DEFINE f == [top EXCEPT !.left = Tail(@)]
               m == Head(top.left).fsm
               e == Head(top.left).event
    <3>1. Tail(top.left) \in Seq(Sharer)
      BY <1>1, <2>1 DEF Frame
    <3>2. f \in Frame /\ f.pc = top.pc /\ f.e = top.e /\ f.whole = top.whole
          /\ f.fsm = top.fsm
      BY <1>1, <3>1 DEF Frame
    <3>3. CallSub(f, m, e)
      BY <1>4, <2>1 DEF PassSharedEvent
    <3> HIDE DEF f, m, e
    <3>4. ChosenAt(f)
      BY <1>1, <3>2 DEF ChosenAt
    <3> QED BY <3>2, <3>3, <3>4, CallChosen
  <2>2. CASE Goto("move")
    <3> DEFINE f == [top EXCEPT !.pc = "move"]
    <3>1. /\ f.pc = "move" /\ f.e = top.e /\ f.whole = top.whole /\ Set(f)
          /\ top.pc = "share"
      BY <1>1, <1>4, <2>2 DEF PassSharedEvent, Goto, Frame
    <3> HIDE DEF f
    <3> QED BY <1>2, <3>1 DEF Handling
  <2> QED BY <1>4, <2>1, <2>2 DEF PassSharedEvent
<1>5. CASE Move(After)
  <2>1. PICK s \in Target[top.e][state[cur]] :
          IF cur \in HasFns /\ s # state[cur]
          THEN Set([top EXCEPT !.new_s = s, !.pc = "exit"])
          ELSE Set([top EXCEPT !.e = top.new_e, !.pc = After])
    BY <1>5 DEF Move
  <2>2. top.pc = "move"
    BY <1>5 DEF Move
  <2>3. CASE cur \in HasFns /\ s # state[cur]
    <3> DEFINE f == [top EXCEPT !.new_s = s, !.pc = "exit"]
    <3>1. f.pc = "exit" /\ f.e = top.e /\ f.whole = top.whole /\ Set(f)
      BY <1>1, <2>1, <2>3 DEF Frame
    <3> HIDE DEF f
    <3> QED BY <1>2, <2>2, <3>1 DEF Handling
  <2>4. CASE ~(cur \in HasFns /\ s # state[cur])
    <3> DEFINE f == [top EXCEPT !.e = top.new_e, !.pc = After]
    <3>1. f.fsm = cur /\ f.pc = After /\ f.e = top.new_e /\ Set(f)
      BY <1>1, <2>1, <2>4 DEF Frame
    <3> HIDE DEF f
    <3> QED BY <2>2, <3>1, AfterChosen, SetChosen
  <2> QED BY <2>3, <2>4
<1>6. CASE CallExit
  <2> DEFINE f == [top EXCEPT !.pc = "entry"]
  <2>1. /\ f.pc = "entry" /\ f.e = top.e /\ f.whole = top.whole /\ Set(f)
        /\ top.pc = "exit"
    BY <1>1, <1>6 DEF CallExit, Goto, Frame
  <2> HIDE DEF f
  <2> QED BY <1>2, <2>1 DEF Handling
<1>7. CASE CallEntry(After)
  <2> DEFINE f == [top EXCEPT !.e = top.new_e, !.pc = After]
  <2>1. f.fsm = cur /\ f.pc = After /\ f.e = top.new_e /\ Set(f) /\ top.pc = "entry"
    BY <1>1, <1>7 DEF CallEntry, Frame
  <2> HIDE DEF f
  <2> QED BY <2>1, AfterChosen, SetChosen
<1> QED BY <1>3, <1>4, <1>5, <1>6, <1>7

LEMMA StepPromise ==
  ASSUME Orderly, IInv, IInv', Held, Chosen, [Next]_vars PROVE Kept /\ Chosen'
<1>0. After \notin Settling
  BY DEF After, EndOfOwn, Settling
<1>1. CASE Busy /\ While
  BY <1>1, WhileKept
<1>2. CASE Busy /\ Check
  BY <1>2, CheckKept
<1>3. CASE Busy /\ Dispatch
  BY <1>3, DispatchKept
<1>4. CASE Busy /\ Below
  BY <1>4, BelowKept
<1>5. CASE Busy /\ Leave
  <2>1. top.e = NoEv[cur] \/ (cur # 0 /\ top.e < First[cur])
    BY <1>5, LeavesWith DEF Leave, Continues
  <2>2. top.pc = "while" /\ Return
    BY <1>5 DEF Leave
  <2> QED BY <1>5, <2>1, <2>2, ReturnPromise, ReturnChosen
<1>6. CASE Busy /\ CallAction
  BY <1>6, CallActionPromise, WorkChosen
<1>7. CASE Busy /\ PassSharedEvent
  BY <1>7, PassSharedEventPromise, WorkChosen
<1>8. CASE Busy /\ Move(After)
  BY <1>0, <1>8, MovePromise, WorkChosen
<1>9. CASE Busy /\ CallExit
  BY <1>9, CallExitPromise, WorkChosen
<1>10. CASE Busy /\ CallEntry(After)
  BY <1>0, <1>10, CallEntryPromise, WorkChosen
<1>11. CASE \E e \in UNION {Own(m) : m \in Machine} : Run(e)
  <2>1. PICK e \in UNION {Own(m) : m \in Machine} : Run(e)
    BY <1>11
  <2> DEFINE g == NewFrame(0, e)
  <2>2. stack' = <<g>>
    BY <2>1 DEF Run
  <2>3. ChosenAt(g)
    BY DEF NewFrame, ChosenAt, Handling
  <2> HIDE DEF g
  <2>4. Chosen'
    BY <2>2, <2>3 DEF Chosen, ChosenAt
  <2> QED BY <2>1, <2>4, RunPromise
<1>12. CASE UNCHANGED vars
  <2>1. Chosen'
    BY <1>12 DEF vars, Chosen, ChosenAt
  <2> QED BY <1>12, <2>1, StutterPromise
<1> QED BY <1>1, <1>2, <1>3, <1>4, <1>5, <1>6, <1>7, <1>8, <1>9, <1>10,
           <1>11, <1>12 DEF Next, Step

LEMMA SpecHeld == ASSUME Orderly PROVE Spec => [](IInv /\ Held /\ Chosen)
<1>1. Init => IInv /\ Held /\ Chosen
  <2>1. Init => Chosen
    BY DEF Init, Chosen
  <2> QED BY <2>1, InitInv, InitPromise
<1>2. IInv /\ Held /\ Chosen /\ [Next]_vars => IInv' /\ Held' /\ Chosen'
  BY StepInv, StepPromise DEF Kept
<1> QED BY <1>1, <1>2, PTL DEF Spec

(* The switch program implements the safety half of RunToCompletion for    *)
(* every description that is Orderly: although it tries two functions for  *)
(* an event and may handle two events in one iteration, it loses none, and *)
(* drops one only where the promise drops it, in an inhibiting state.      *)
THEOREM PromiseKept == ASSUME Orderly PROVE Spec => Promise!AbsSafety
<1>1. Init => Promise!AbsInit
  BY InitPromise
<1>2. IInv /\ IInv' /\ Held /\ Chosen /\ [Next]_vars
        => [Promise!AbsNext]_(Promise!absvars)
  BY StepPromise DEF Kept
<1> QED BY <1>1, <1>2, SpecHeld, PTL DEF Spec, Promise!AbsSafety

(* The event table program (-te), which has no function for single-PAI     *)
(* events, implements it for every description.                            *)
THEOREM EventTablePromiseKept == ASSUME SinglePAI = {} PROVE Spec => Promise!AbsSafety
<1>1. Orderly
  BY DEF Orderly
<1> QED BY <1>1, PromiseKept
=============================================================================
