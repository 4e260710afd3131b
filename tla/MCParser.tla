------------------------------ MODULE MCParser ------------------------------
(***************************************************************************)
(* Descriptions put together from the parts below: a top-level machine     *)
(* with up to two sub-machines, one of which may have one of its own.      *)
(***************************************************************************)
EXTENDS ParserContext

Begin(n, q, d)   == [kind |-> "machine", name |-> n, quals |-> q, data |-> d]
State(n)         == [kind |-> "state", name |-> n, inhibits |-> FALSE]
Inhibiting(n)    == [kind |-> "state", name |-> n, inhibits |-> TRUE]
Event(n)         == [kind |-> "event", name |-> n, translator |-> None, block |-> FALSE]
DataEvent(n, tr, b) == [kind |-> "event", name |-> n, translator |-> tr, block |-> b]
Parent           == [kind |-> "parent"]
Sub(n)           == [kind |-> "sub", name |-> n]
Shared(n, tr)    == <<Parent, [kind |-> "parentEvent", name |-> n, translator |-> tr,
                               block |-> FALSE]>>
Action(n, e, s, to) == [kind |-> "action", name |-> n, events |-> e, states |-> s, to |-> to]
Transition(e, s, to) ==
  [kind |-> "transition", name |-> None, events |-> e, states |-> s, to |-> to]
Ref(x)           == [kind |-> "returned", name |-> x]
Returns(a, refs) == <<[kind |-> "returns", name |-> a]>> \o refs
                      \o <<[kind |-> "endReturns"]>>
End              == <<[kind |-> "end"]>>

(* how a sub-machine declares its events *)
mcOwn    == {<<Event("e1")>>, <<Event("e2"), Event("e1")>>}
mcShares == {Shared("e1", None), Shared("e1", None) \o Shared("e2", None),
             Shared("e1", "tr") \o <<Event("e2")>>, <<Event("e2")>> \o Shared("e1", None)}
mcWrong  == {Shared("act", None), <<DataEvent("e1", "tr", FALSE)>>,
             <<DataEvent("e1", None, TRUE)>>}

(* events of the parent whose names the sub-machine has already *)
mcAgain  == {Shared("e1", None) \o Shared("e1", None), <<Event("e1")>> \o Shared("e1", None),
             <<DataEvent("e1", None, TRUE)>> \o Shared("e1", None),
             <<State("e2"), Event("e1")>> \o Shared("e2", None),
             <<DataEvent("e1", "e2", FALSE)>> \o Shared("e2", None)}

(* what it does, and what its action returns *)
mcDoes ==
  {<<Action("act", <<"e1">>, <<"s1">>, None)>> \o Returns("act", refs) :
     refs \in {<<Ref("noEvent")>>,
               <<Parent, Ref("e2"), Ref("noEvent")>>,
               <<Ref("e1"), Ref("noEvent"), Ref("e1")>>}}

SubMachine(n, own, below, does) ==
  <<Begin(n, << >>, FALSE), State("s1")>> \o own \o below \o does \o End

mcQuiet == <<Action("act", <<"e1">>, <<"s1">>, None)>>
mcPlain(n) == SubMachine(n, <<Event("e1")>>, << >>, mcQuiet)
mcSharing(n) == SubMachine(n, Shared("e1", None), << >>, mcQuiet)

(* a machine that looks into the namespace of its own sub-machine *)
mcLooksDown == mcQuiet \o Returns("act", <<Sub("low"), Ref("e1")>>)

mcSubMachines ==
  {<< >>}
    \union {SubMachine("one", own, << >>, does) : own \in mcOwn \union mcShares, does \in mcDoes}
    \union {SubMachine("one", own, << >>, mcQuiet) : own \in mcWrong \union mcAgain}
    \union {a \o b : a, b \in {mcPlain("one"), mcSharing("two"),
                             SubMachine("two", Shared("e1", None) \o Shared("e2", None),
                                        mcSharing("low"), mcQuiet)}}
    \union {SubMachine(n, <<Event("e1")>>, mcPlain("low"), does) \o
             SubMachine("two", <<Event("e1")>>, below, mcQuiet) :
              n \in {"one", "e2"}, does \in {mcQuiet, mcLooksDown}, below \in {<< >>, mcPlain("low")}}

(* what the top-level machine does once its sub-machines are known *)
mcTopDoes ==
  {<<Action("act", e, <<"s1">>, to)>> :
     e \in {<< >>, <<"e1">>, <<"e1", "e2">>, <<"e2", "e1">>}, to \in {None, "s2", "fn"}}
  \union
  {<<Action("act", <<"e2">>, <<"s1", "s2">>, "fn"), Action("act", <<"e1">>, s, "fn"),
     Transition(<<"e1">>, <<"s1">>, to)>> : s \in {<<"s2">>, << >>}, to \in {"s2", "fn", "act"}}
  \union
  {<<Transition(<<"e1">>, <<"s1">>, "fn"), Transition(<<"e2">>, <<"s2">>, "fn"),
     Action("act", <<"e1">>, <<"s2">>, "s1")>> \o more :
     more \in {Returns("fn", <<Ref("s1"), Ref("noTransition")>>),
               Returns("act", <<Sub("one"), Ref("e1"), Ref("noEvent")>>)
                 \o <<Action("more", <<"e2">>, <<"s1">>, None)>>,
               Returns("act", <<Ref("e2")>>) \o Returns("act", <<Ref("e2"), Ref("e1")>>)}}

mcTopHead(q, d) ==
  <<Begin("top", q, d), Inhibiting("s1"), State("s2"), Event("e1"), Event("e2")>>

(* statements out of order, and names that are not complete *)
mcMisplaced ==
  {mcQuiet \o mcPlain("one"), mcQuiet \o <<Event("more")>>, mcPlain("one") \o <<State("more")>> \o mcQuiet,
   mcQuiet \o Returns("act", << >>), mcQuiet \o Returns("act", <<Sub("one")>>),
   mcQuiet \o Returns("act", <<Ref("e1"), Event("more")>>), <<Parent, Parent>>, << >>}

(* qualifiers, parents above the top, and two descriptions in one file *)
mcQualifiers ==
  {<< >>, <<{"events"}, {"states"}>>, <<{"states"}, {"void"}>>,
   <<{"transition"}, {"void"}, {"transition"}>>,
   <<{"prologue", "epilogue"}, {"states"}, {"transition"}>>,
   <<{"prologue"}, {"events"}, {"prologue"}>>, <<{"prologue"}, {"states"}, {"epilogue"}>>}

mcSmall(q) == mcTopHead(q, FALSE) \o mcQuiet \o End

mcInputs ==
  {mcTopHead(<< >>, d) \o subs \o does \o End :
     d \in BOOLEAN, subs \in mcSubMachines, does \in mcTopDoes}
  \union {mcTopHead(<< >>, FALSE) \o wrong \o End : wrong \in mcMisplaced}
  \union {mcTopHead(<< >>, FALSE) \o SubMachine("one", wrong, << >>, mcQuiet) \o mcQuiet \o End :
             wrong \in {<<Parent, Event("more")>>, <<Parent>>, <<Parent, Parent>>}}
  \union {mcSmall(q) : q \in mcQualifiers}
  \union {mcSmall(<< >>) \o mcSmall(<< >>)}
  \union {mcTopHead(<< >>, FALSE) \o Shared("e1", None) \o mcQuiet \o End}
  \union {mcTopHead(<<{"states"}>>, FALSE) \o mcQuiet \o Returns("act", refs) \o more \o End :
             refs \in {<<Ref("s1"), Ref("noTransition")>>, <<Ref("s1")>>},
             more \in {<< >>, Returns("act", <<Ref("s1")>>), Returns("act", <<Ref("s2"), Ref("s1")>>)}}
  \union {mcTopHead(<< >>, FALSE) \o SubMachine("one", own, << >>, <<Action("act", << >>, << >>, None)>>)
            \o mcQuiet \o End : own \in {Shared("e1", None) \o Shared("e1", None), <<Event("e1")>>, << >>}}

(* an action that returns one state *)
mcOneState ==
  {mcTopHead(<<{"states"}>>, FALSE) \o subs \o mcQuiet \o Returns("act", <<Ref("s1")>>) \o End :
     subs \in {<< >>, mcPlain("one"), mcPlain("one") \o mcPlain("two"),
               mcPlain("one") \o mcSharing("two") \o mcPlain("three")}}

mcNames == {"top", "one", "two", "three", "low", "s1", "s2", "e1", "e2", "act", "more", "fn", "tr",
            "noEvent", "noTransition"}
=============================================================================
