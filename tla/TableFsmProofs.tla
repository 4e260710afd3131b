--------------------------- MODULE TableFsmProofs ---------------------------
(***************************************************************************)
(* For every description of machines that Hierarchy admits: the calls of a *)
(* generated table program descend the tree of machines, none is entered   *)
(* twice, entry and exit functions are paired, and the action array is     *)
(* never indexed out of bounds.                                            *)
(***************************************************************************)
EXTENDS TableFsm, FsmCallsProofs

LEMMA WhileInv ==
  ASSUME IInv, Busy, While PROVE IInv'
<1>0. /\ FrameOK(top) /\ top \in Frame /\ cur \in Machine /\ cur = top.fsm
      /\ top.e \in Nat /\ top.pc = "while" /\ top.e # NoEv[cur]
      /\ top.e >= First[cur]
      /\ state' = state /\ inside' = inside /\ event' \in [Machine -> Event]
      /\ event' = [event EXCEPT ![cur] = top.e]
  BY TopFacts, HierarchyAssumption
     DEF While, Continues, cur, IInv, TypeOK, Event, Layout
<1>1. CASE Goto("action") /\ (Children(cur) = {} \/ top.e < NoEv[cur])
  <2> DEFINE f == [top EXCEPT !.pc = "action"]
  <2>1. /\ f \in Frame /\ f.fsm = cur /\ f.pc = "action" /\ f.e = top.e
        /\ f.new_e = top.new_e /\ f.new_s = top.new_s /\ f.left = top.left
    BY <1>0 DEF Frame, Pc
  <2>2. Set(f)
    BY <1>1 DEF Goto
  <2> HIDE DEF f
  <2>3. top.e \in Own(cur)
    <3>1. First[cur] \in Nat /\ NoEv[cur] \in Nat
      BY <1>0, HierarchyAssumption DEF Layout
    <3>2. Reach(cur, top.e)
      BY <1>0 DEF FrameOK
    <3>3. top.e < NoEv[cur]
      <4>1. Children(cur) = {} => top.e <= NoEv[cur]
        BY <1>0, <3>2, ReachBounded
      <4> QED BY <1>0, <1>1, <3>1, <4>1
    <3> QED BY <1>0, <3>1, <3>3 DEF Own
  <2>4. FrameOK(f)
    BY <1>0, <2>1, <2>3 DEF FrameOK
  <2> QED BY <1>0, <2>1, <2>2, <2>4, FrameStep
<1>2. CASE UNCHANGED stack
  <2>1. TypeOK'
    BY <1>0, <1>2 DEF IInv, TypeOK
  <2>2. EntryExitPaired'
    BY <1>0, <1>2 DEF IInv, EntryExitPaired, Busy, top, cur
  <2> QED BY <1>2, <2>1, <2>2 DEF IInv
<1>3. CASE FindAndRunSubMachine
  BY <1>0, <1>3, FindInv DEF Handling
<1> QED BY <1>1, <1>2, <1>3 DEF While

(* the loop is left with noEvent or an event of a machine above *)
LEMMA LeavesWith ==
  ASSUME IInv, Busy, ~Continues
  PROVE  top.e = NoEv[cur] \/ top.e < First[cur]
BY TopFacts, Numbers DEF Continues

LEMMA StepInv == ASSUME IInv, [Next]_vars PROVE IInv'
<1>1. CASE Busy /\ While
  BY <1>1, WhileInv
<1>2. CASE Busy /\ Leave
  <2>1. top.e = NoEv[cur] \/ top.e < First[cur]
    BY <1>2, LeavesWith DEF Leave
  <2> QED BY <1>2, <2>1, ReturnInv DEF Leave
<1>3. CASE Busy /\ CallAction
  BY <1>3, CallActionInv
<1>4. CASE Busy /\ PassSharedEvent
  BY <1>4, PassSharedEventInv
<1>5. CASE Busy /\ Move("while")
  <2>1. "while" \in Pc \ (Handling \union {"find"})
    BY DEF Pc, Handling
  <2> QED BY <1>5, <2>1, MoveInv
<1>6. CASE Busy /\ CallExit
  BY <1>6, CallExitInv
<1>7. CASE Busy /\ CallEntry("while")
  <2>1. "while" \in Pc \ (Handling \union {"find"})
    BY DEF Pc, Handling
  <2> QED BY <1>7, <2>1, CallEntryInv
<1>8. CASE \E e \in UNION {Own(m) : m \in Machine} : Run(e)
  BY <1>8, RunInv
<1>9. CASE UNCHANGED vars
  BY <1>9, StutterInv
<1> QED BY <1>1, <1>2, <1>3, <1>4, <1>5, <1>6, <1>7, <1>8, <1>9 DEF Next, Step

(* The invariant holds of every behaviour. *)
LEMMA SpecIInv == Spec => []IInv
<1>1. Init => IInv
  BY InitInv
<1>2. IInv /\ [Next]_vars => IInv'
  BY StepInv
<1> QED BY <1>1, <1>2, PTL DEF Spec

(* Every variable, and every local of every call, keeps to its values.     *)
THEOREM TypeCorrect == Spec => []TypeOK
<1>1. IInv => TypeOK
  BY IInvImplies
<1> QED BY <1>1, SpecIInv, PTL

(* The FSM functions call only the machine below: fsm_c_common.c's finder  *)
(* and pass_shared_event never leave the path from the top-level machine.  *)
THEOREM CallsDescendAlways == Spec => []CallsDescend
<1>1. IInv => CallsDescend
  BY IInvImplies
<1> QED BY <1>1, SpecIInv, PTL

(* No FSM function is entered while a call of it is in progress, however   *)
(* deep the hierarchy and whatever the actions return (README.md:24).      *)
THEOREM NeverReentered == Spec => []NotReentered
<1>1. IInv => NotReentered
  BY IInvImplies
<1> QED BY <1>1, SpecIInv, PTL

(* Each machine's entry functions have last announced the state it is in,  *)
(* except between the exit and the entry function of one transition.       *)
THEOREM EntryExitAlwaysPaired == Spec => []EntryExitPaired
<1>1. IInv => EntryExitPaired
  BY IInvImplies
<1> QED BY <1>1, SpecIInv, PTL

(* The loop never indexes its action array with an event of another        *)
(* machine, although it checks only the lower bound in a machine without   *)
(* sub-machines: the layout of the enumeration and the rule on what        *)
(* actions return make up for the missing test.                            *)
THEOREM AlwaysInBounds == Spec => []InBounds
<1>1. IInv => InBounds
  BY DEF IInv, StackOK, FrameOK, InBounds, Handling
<1> QED BY <1>1, SpecIInv, PTL
-----------------------------------------------------------------------------
LEMMA StepAllowed == ASSUME IInv, [Next]_vars PROVE GrowsAllowed /\ ReturnsAbove
<1>1. CASE Busy /\ While
  <2>1. CASE Goto("action")
    BY <1>1, <2>1, SetSteady DEF Goto
  <2>2. CASE UNCHANGED stack
    <3>1. Len(stack) \in Nat /\ Len(stack') = Len(stack)
      BY <2>2 DEF IInv, StackOK
    <3> QED BY <3>1 DEF GrowsAllowed, ReturnsAbove
  <2>3. CASE FindAndRunSubMachine /\ state[cur] \notin Inhibits[cur]
    BY <1>1, <2>3, FindGrows
  <2> QED BY <1>1, <2>1, <2>2, <2>3 DEF While
<1>2. CASE Busy /\ Leave
  <2>1. top.e = NoEv[cur] \/ (cur # 0 /\ top.e < First[cur])
    BY <1>2, LeavesWith DEF Leave, Continues
  <2> QED BY <1>2, <2>1, ReturnAbove DEF Leave
<1>3. CASE Busy /\ PassSharedEvent
  BY <1>3, PassGrows
<1>4. CASE Busy /\ (CallAction \/ Move("while") \/ CallExit \/ CallEntry("while"))
  BY <1>4, WorkSteady
<1>5. CASE \E e \in UNION {Own(m) : m \in Machine} : Run(e)
  BY <1>5, RunGrows
<1>6. CASE UNCHANGED vars
  <2>1. Len(stack) \in Nat /\ Len(stack') = Len(stack)
    BY <1>6 DEF IInv, StackOK, vars
  <2> QED BY <2>1 DEF GrowsAllowed, ReturnsAbove
<1> QED BY <1>1, <1>2, <1>3, <1>4, <1>5, <1>6 DEF Next, Step

(* A machine of the table program whose state inhibits its sub-machines    *)
(* calls none to hand an event down: only pass_shared_event reaches them   *)
(* then (README.md:432).                                                   *)
THEOREM InhibitAlwaysRespected == Spec => InhibitRespected
<1>1. IInv /\ [Next]_vars =>
        [Len(stack') > Len(stack) /\ Busy /\ state[cur] \in Inhibits[cur]
           => top.pc = "share"]_vars
  BY StepAllowed DEF GrowsAllowed
<1> QED BY <1>1, SpecIInv, PTL DEF Spec, InhibitRespected

(* What a sub-machine of the table program hands to its caller is never an *)
(* event of its own or of a machine below: its loop has handled those      *)
(* (README.md:426).                                                        *)
THEOREM AlwaysReturnsOnlyToOthers == Spec => ReturnsOnlyToOthers
<1>1. IInv /\ [Next]_vars =>
        [Len(stack') < Len(stack) /\ Len(stack') > 0 =>
           LET got == stack'[Len(stack')]
               v   == IF got.pc = "share" THEN got.new_e ELSE got.e
           IN  v \notin Span(cur)]_vars
  BY StepAllowed DEF ReturnsAbove
<1> QED BY <1>1, SpecIInv, PTL DEF Spec, ReturnsOnlyToOthers
-----------------------------------------------------------------------------
(* The promise.  A step of the loop that only looks is a stutter; one that *)
(* spins because the state inhibits sub-machines is too: the promise's     *)
(* Down, which would drop the event, is never taken then, which breaks no  *)
(* more than the liveness half.                                            *)
LEMMA WhilePromise ==
  ASSUME IInv, IInv', Busy, Held, While PROVE Kept
<1>1. /\ FrameOK(top) /\ top \in Frame /\ cur \in Machine /\ cur = top.fsm
      /\ top.e \in Nat /\ top.pc = "while" /\ top.e # NoEv[cur] /\ state' = state
  BY TopFacts, StackFacts DEF While, Continues
<1>2. CASE Goto("action")
  <2> DEFINE f == [top EXCEPT !.pc = "action"]
  <2>1. f.fsm = cur /\ f.pc = "action" /\ f.e = top.e
    BY <1>1 DEF Frame
  <2>2. Set(f)
    BY <1>2 DEF Goto
  <2> HIDE DEF f
  <2>3. top.pc \notin Settling /\ f.pc \notin Settling
    BY <1>1, <2>1 DEF Settling
  <2> QED BY <1>1, <2>1, <2>2, <2>3, LoopPromise
<1>3. CASE UNCHANGED stack
  <2>1. /\ At' = At /\ Pending' = Pending
    BY <1>1, <1>3 DEF At, Pending, Busy, top, cur, EventOf, Sharing
  <2>2. Offering' = Offering
    BY <1>1, <1>3 DEF Offering, CallsOf, OfferOf, Sharing
  <2>3. Held'
    BY <1>1, <1>3 DEF Held
  <2> QED BY <1>1, <2>1, <2>2, <2>3, Stutters DEF Kept
<1>4. CASE FindAndRunSubMachine /\ state[cur] \notin Inhibits[cur] /\ top.e >= NoEv[cur]
  <2>1. top.e > NoEv[cur]
    BY <1>1, <1>4, Numbers
  <2> QED BY <1>1, <1>4, <2>1, FindPromise DEF Handling
<1> QED BY <1>2, <1>3, <1>4 DEF While

LEMMA StepPromise == ASSUME IInv, IInv', Held, [Next]_vars PROVE Kept
<1>1. CASE Busy /\ While
  BY <1>1, WhilePromise
<1>2. CASE Busy /\ Leave
  <2>1. top.e = NoEv[cur] \/ top.e < First[cur]
    BY <1>2, LeavesWith DEF Leave
  <2>2. top.e = NoEv[cur] \/ (cur # 0 /\ top.e < First[cur])
    BY <1>2, <2>1 DEF Leave, Continues
  <2> QED BY <1>2, <2>2, ReturnPromise DEF Leave
<1>3. CASE Busy /\ CallAction
  BY <1>3, CallActionPromise
<1>4. CASE Busy /\ PassSharedEvent
  BY <1>4, PassSharedEventPromise
<1>5. CASE Busy /\ Move("while")
  BY <1>5, MovePromise DEF Settling
<1>6. CASE Busy /\ CallExit
  BY <1>6, CallExitPromise
<1>7. CASE Busy /\ CallEntry("while")
  BY <1>7, CallEntryPromise DEF Settling
<1>8. CASE \E e \in UNION {Own(m) : m \in Machine} : Run(e)
  BY <1>8, RunPromise
<1>9. CASE UNCHANGED vars
  BY <1>9, StutterPromise
<1> QED BY <1>1, <1>2, <1>3, <1>4, <1>5, <1>6, <1>7, <1>8, <1>9 DEF Next, Step

LEMMA SpecHeld == Spec => [](IInv /\ Held)
<1>1. Init => IInv /\ Held
  BY InitInv, InitPromise
<1>2. IInv /\ Held /\ [Next]_vars => IInv' /\ Held'
  BY StepInv, StepPromise DEF Kept
<1> QED BY <1>1, <1>2, PTL DEF Spec

(* The table program implements the safety half of RunToCompletion: every  *)
(* change of state, every machine asked, every event dropped, kept or      *)
(* handed up is one the promise allows, in the promised order, also when   *)
(* states inhibit their sub-machines.  That it gets on is the other half.  *)
THEOREM PromiseKept == Spec => Promise!AbsSafety
<1>1. Init => Promise!AbsInit
  BY InitPromise
<1>2. IInv /\ IInv' /\ Held /\ [Next]_vars => [Promise!AbsNext]_(Promise!absvars)
  BY StepPromise DEF Kept
<1> QED BY <1>1, <1>2, SpecHeld, PTL DEF Spec, Promise!AbsSafety
=============================================================================
