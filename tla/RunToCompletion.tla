--------------------------- MODULE RunToCompletion ---------------------------
(***************************************************************************)
(* What a hierarchy of machines promises its user, whichever generator     *)
(* wrote it (README.md, "Hierarchical state machines"):                    *)
(*                                                                         *)
(*   - one event at a time is being worked on; it goes to the machine that *)
(*     declares it, up out of the machine that returned it and down        *)
(*     through the machines in between, unless one of those is in a state  *)
(*     that inhibits its sub-machines: then it is dropped;                 *)
(*   - handling it changes that machine's state, and what the action       *)
(*     returns is worked on next; noEvent ends the work;                   *)
(*   - an event the sub-machines share is offered to them in order until   *)
(*     one of them answers; the machine that passed it changes state after *)
(*     the last of them has finished.                                      *)
(*                                                                         *)
(* There is no call stack, no loop, no local variable and no callback      *)
(* here: only where the work is and what it is.                            *)
(***************************************************************************)
EXTENDS Hierarchy

VARIABLES
  st,        \* st[m]: the state of machine m
  at,        \* the machine at work, or Idle
  pending,   \* the event to be worked on, or None
  offering   \* offering[m]: the event m is passing to its sub-machines (None
             \* if it is not), and those still to be asked

absvars == <<st, at, pending, offering>>

(* no machine, no event: neither is numbered -1 *)
Idle == -1
None == -1
NoOffer == [e |-> None, left |-> <<>>]

AbsInit ==
  /\ st = Start
  /\ at = Idle
  /\ pending = None
  /\ offering = [m \in Machine |-> NoOffer]

Told(m, r) == IF r = NoEv[m] THEN None ELSE r
Free       == at # Idle /\ offering[at] = NoOffer

Accept(e) ==
  /\ at = Idle
  /\ at' = 0 /\ pending' = e
  /\ UNCHANGED <<st, offering>>

Handle ==
  /\ Free /\ pending \in Own(at) /\ st[at] \notin Passes[pending]
  /\ \E r \in Reply[pending][st[at]], s \in Target[pending][st[at]] :
       st' = [st EXCEPT ![at] = s] /\ pending' = Told(at, r)
  /\ UNCHANGED <<at, offering>>

Offer ==
  /\ Free /\ pending \in Own(at) /\ st[at] \in Passes[pending]
  /\ offering' = [offering EXCEPT ![at] = [e |-> pending, left |-> Sharers[pending]]]
  /\ pending' = None
  /\ UNCHANGED <<st, at>>

(* the next sharer is asked: nobody has answered so far *)
Ask ==
  /\ at # Idle /\ offering[at] # NoOffer
  /\ pending = None /\ offering[at].left # <<>>
  /\ at' = Head(offering[at].left).fsm
  /\ pending' = Head(offering[at].left).event
  /\ offering' = [offering EXCEPT ![at] = [e |-> offering[at].e,
                                           left |-> Tail(offering[at].left)]]
  /\ UNCHANGED st

(* a sharer has answered, or there is none left *)
Conclude ==
  /\ at # Idle /\ offering[at] # NoOffer
  /\ pending # None \/ offering[at].left = <<>>
  /\ \E s \in Target[offering[at].e][st[at]] : st' = [st EXCEPT ![at] = s]
  /\ offering' = [offering EXCEPT ![at] = NoOffer]
  /\ UNCHANGED <<at, pending>>

Down ==
  /\ Free /\ pending # None /\ pending \in Span(at) \ Own(at)
  /\ \/ /\ st[at] \in Inhibits[at] \/ Hit(at, pending) = {}
        /\ pending' = None /\ at' = at
     \/ /\ st[at] \notin Inhibits[at]
        /\ at' \in Hit(at, pending) /\ pending' = pending
  /\ UNCHANGED <<st, offering>>

Up ==
  /\ Free
  /\ pending = None \/ (at # 0 /\ pending \notin Span(at))
  /\ at' = IF at = 0 THEN Idle ELSE Parent[at]
  /\ UNCHANGED <<st, pending, offering>>

Work    == Handle \/ Offer \/ Ask \/ Conclude \/ Down \/ Up
AbsNext == Work \/ \E e \in UNION {Own(m) : m \in Machine} : Accept(e)
AbsSafety == AbsInit /\ [][AbsNext]_absvars
AbsSpec   == AbsSafety /\ WF_absvars(Work)
=============================================================================
