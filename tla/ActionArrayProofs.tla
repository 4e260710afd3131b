------------------------- MODULE ActionArrayProofs -------------------------
(***************************************************************************)
(* What the action array and the lists made with it are for any number of  *)
(* events and states and any sequence of declarations; and that the        *)
(* documents written from them agree with each other.                      *)
(***************************************************************************)
EXTENDS Documents, FiniteSetTheorems, TLAPS

(* where the iterations may stand *)
Places ==
  /\ at.d \in 1 .. Len(decls) + 1
  /\ Filling => /\ at.e \in 1 .. Len(EventsOf(at.d))
                /\ at.s \in 0 .. Len(StatesOf(at.d)) + 1
                /\ error => at.s \in 1 .. Len(StatesOf(at.d))

(* the declaration's event i and state j have been met *)
Met(d, i, j) == \/ d < at.d
                \/ d = at.d /\ i < at.e
                \/ d = at.d /\ i = at.e /\ j < at.s

(* the cell of event e and state s is the one of d's event i and state j *)
Cell(d, i, j, e, s) ==
  /\ i \in DOMAIN EventsOf(d) /\ EventsOf(d)[i] = e
  /\ j \in DOMAIN StatesOf(d) /\ StatesOf(d)[j] = s

(* What is in a cell was met there, and until an error what was met is in  *)
(* its cell; nothing is met in the same cell again.                        *)
CellsMet ==
  \A e \in Events, s \in States :
    /\ array[e][s] # 0 =>
         \E i, j \in Nat : Cell(array[e][s], i, j, e, s) /\ Met(array[e][s], i, j)
    /\ ~error => \A d \in Decls : \A i, j \in Nat :
         Cell(d, i, j, e, s) /\ Met(d, i, j) =>
           /\ array[e][s] = d
           /\ \A k, l \in Nat : Cell(d, k, l, e, s) /\ Met(d, k, l) => k = i /\ l = j

(* Two declarations meet in a cell, or one does so with itself. *)
Clash ==
  \/ \E c, d \in Decls : c # d /\ Matrix(c) \intersect Matrix(d) # {}
  \/ \E d \in Decls : ~IsInjective(EventsOf(d)) \/ ~IsInjective(StatesOf(d))

(* the first declaration of an event *)
Begun(e) == Filling /\ ~error /\ at.s = 1 /\ e = Event /\ first[e] = at.d
Firsts ==
  /\ Filling /\ at.s > 0 => first[Event] # 0
  /\ \A e \in Events :
       /\ \A s \in States : array[e][s] # 0 => first[e] # 0 /\ first[e] <= array[e][s]
       /\ first[e] # 0 => Begun(e) \/ \E s \in States : array[e][s] = first[e]

(* the count of the states in which it is the event's only one *)
Counts ==
  /\ \A e \in Events : covered[e] # 0 =>
       /\ first[e] # 0
       /\ covered[e] = Cardinality({s \in States : array[e][s] = first[e]})
       /\ \A s \in States : array[e][s] \in {0, first[e]}
  /\ Filling /\ at.s > 0 =>
       (covered[Event] = 0 <=> first[Event] # at.d \/ at.s = 1)

(* the events that have one declaration in all states *)
OneCell(e) == \E d \in Decls : \A s \in States : array[e][s] = d
Alikes ==
  \A e \in Events :
    /\ e \in alike => OneCell(e)
    /\ OneCell(e) => \/ e \in alike
                     \/ Filling /\ at.s > 0 /\ e = Event /\ covered[e] = Len(StateList)

(* the transition lists *)
Leads(s, t) == \E e \in Events : array[e][s] # 0 /\ t \in decls[array[e][s]].to
ListsConnected ==
  \A s \in States :
    /\ \A t : t \in outbound[s] <=> t # s /\ Leads(s, t)
    /\ \A t \in States : s \in inbound[t] <=> t # s /\ Leads(s, t)

IInv ==
  /\ TypeOK /\ Places
  /\ CellsMet /\ (error => Clash)
  /\ Firsts /\ Counts /\ Alikes
  /\ ListsAgree /\ ListsConnected
-----------------------------------------------------------------------------
(* A list of n different members has n members. *)
LEMMA StatesCounted ==
  IsFiniteSet(States) /\ Cardinality(States) = Len(StateList) /\ Len(StateList) \in Nat \ {0}
<1>1. StateList \in Seq(States) /\ IsInjective(StateList) /\ States # {}
  BY ArrayAssumption
<1>2. Len(StateList) \in Nat /\ DOMAIN StateList = 1 .. Len(StateList)
  BY <1>1
<1>3. StateList \in Bijection(1 .. Len(StateList), States)
  BY <1>1, <1>2 DEF Bijection, Injection, Surjection, IsInjective, States, ToSet
<1>4. ExistsBijection(1 .. Len(StateList), States)
  BY <1>3 DEF ExistsBijection
<1>5. IsFiniteSet(States)
  BY <1>2, <1>4, FS_NatBijection
<1>6. Cardinality(States) = Len(StateList)
  BY <1>2, <1>4, FS_CountingElements
<1>. QED BY <1>1, <1>2, <1>5, <1>6, FS_EmptySet

LEMMA EventsCounted ==
  IsFiniteSet(Events) /\ Cardinality(Events) = Len(EventList) /\ Len(EventList) \in Nat \ {0}
<1>1. EventList \in Seq(Events) /\ IsInjective(EventList) /\ Events # {}
  BY ArrayAssumption
<1>2. Len(EventList) \in Nat /\ DOMAIN EventList = 1 .. Len(EventList)
  BY <1>1
<1>3. EventList \in Bijection(1 .. Len(EventList), Events)
  BY <1>1, <1>2 DEF Bijection, Injection, Surjection, IsInjective, Events, ToSet
<1>4. ExistsBijection(1 .. Len(EventList), Events)
  BY <1>3 DEF ExistsBijection
<1>5. IsFiniteSet(Events)
  BY <1>2, <1>4, FS_NatBijection
<1>6. Cardinality(Events) = Len(EventList)
  BY <1>2, <1>4, FS_CountingElements
<1>. QED BY <1>1, <1>2, <1>5, <1>6, FS_EmptySet

(* The lists of a declaration name events and states of the machine. *)
LEMMA DeclFacts ==
  ASSUME decls \in Inputs
  PROVE  /\ Decls = 1 .. Len(decls) /\ Len(decls) \in Nat
         /\ \A d \in Decls :
              /\ decls[d].to \subseteq States \union {NoTransition}
              /\ decls[d].action \in Actions \union {NoAction}
              /\ EventsOf(d) \in Seq(Events) /\ Len(EventsOf(d)) \in Nat \ {0}
              /\ DOMAIN EventsOf(d) = 1 .. Len(EventsOf(d))
              /\ StatesOf(d) \in Seq(States) /\ Len(StatesOf(d)) \in Nat \ {0}
              /\ DOMAIN StatesOf(d) = 1 .. Len(StatesOf(d))
<1>1. decls \in Seq(Declaration)
  BY ArrayAssumption
<1>2. Decls = 1 .. Len(decls) /\ Len(decls) \in Nat /\ \A d \in Decls : decls[d] \in Declaration
  BY <1>1 DEF Decls
<1>3. EventList \in Seq(Events) /\ EventList # << >> /\ StateList \in Seq(States) /\ StateList # << >>
  BY ArrayAssumption DEF Events, States, ToSet
<1>. SUFFICES ASSUME NEW d \in Decls
     PROVE /\ decls[d].to \subseteq States \union {NoTransition}
           /\ decls[d].action \in Actions \union {NoAction}
           /\ EventsOf(d) \in Seq(Events) /\ Len(EventsOf(d)) \in Nat \ {0}
           /\ DOMAIN EventsOf(d) = 1 .. Len(EventsOf(d))
           /\ StatesOf(d) \in Seq(States) /\ Len(StatesOf(d)) \in Nat \ {0}
           /\ DOMAIN StatesOf(d) = 1 .. Len(StatesOf(d))
  BY <1>2
<1>4. decls[d] \in Declaration
  BY <1>2
<1>5. EventsOf(d) \in Seq(Events) /\ EventsOf(d) # << >>
  BY <1>3, <1>4 DEF EventsOf, Declaration
<1>6. StatesOf(d) \in Seq(States) /\ StatesOf(d) # << >>
  BY <1>3, <1>4 DEF StatesOf, Declaration
<1>. QED BY <1>4, <1>5, <1>6 DEF Declaration

(* While the iterations are on, they stand at an event, and in a cell at a *)
(* state.                                                                  *)
LEMMA PlaceFacts ==
  ASSUME TypeOK, Places, Filling
  PROVE  /\ at.d \in Decls /\ at.d \in Nat \ {0} /\ Event \in Events
         /\ at.e \in DOMAIN EventsOf(at.d) /\ at.s \in Nat
         /\ at.s \in 1 .. Len(StatesOf(at.d)) => State \in States /\ at.s \in DOMAIN StatesOf(at.d)
<1>1. decls \in Inputs /\ at \in [d : Nat, e : Nat, s : Nat]
  BY DEF TypeOK
<1>. QED BY <1>1, DeclFacts DEF Places, Filling, Event, State

(* The declarations stay what they are. *)
LEMMA SameDecls ==
  ASSUME decls' = decls
  PROVE  /\ Decls' = Decls /\ Clash' = Clash
         /\ \A d : EventsOf(d)' = EventsOf(d) /\ StatesOf(d)' = StatesOf(d) /\ Matrix(d)' = Matrix(d)
         /\ \A d, i, j, e, s : Cell(d, i, j, e, s)' = Cell(d, i, j, e, s)
<1>1. Decls' = Decls
  BY DEF Decls
<1>2. \A d : EventsOf(d)' = EventsOf(d) /\ StatesOf(d)' = StatesOf(d)
  BY DEF EventsOf, StatesOf
<1>3. \A d : Matrix(d)' = Matrix(d)
  BY <1>2 DEF Matrix
<1>4. \A d, i, j, e, s : Cell(d, i, j, e, s)' = Cell(d, i, j, e, s)
  BY <1>2 DEF Cell
<1>5. Clash' = Clash
  BY <1>1, <1>2, <1>3 DEF Clash
<1>. QED BY <1>1, <1>2, <1>3, <1>4, <1>5

(* Where no cell is filled the cells stay what they are, if the iterations *)
(* have met no further cell.                                               *)
LEMMA CellsKept ==
  ASSUME TypeOK, CellsMet, decls' = decls, array' = array, error => error',
         \A d \in Decls : \A i, j, e, s :
            /\ Cell(d, i, j, e, s) /\ Met(d, i, j) => Met(d, i, j)'
            /\ Cell(d, i, j, e, s) /\ Met(d, i, j)' => Met(d, i, j) \/ error'
  PROVE  CellsMet'
<1>. SUFFICES ASSUME NEW e \in Events, NEW s \in States
     PROVE (/\ array[e][s] # 0 =>
                 \E i, j \in Nat : Cell(array[e][s], i, j, e, s) /\ Met(array[e][s], i, j)
            /\ ~error => \A d \in Decls : \A i, j \in Nat :
                 Cell(d, i, j, e, s) /\ Met(d, i, j) =>
                   /\ array[e][s] = d
                   /\ \A k, l \in Nat : Cell(d, k, l, e, s) /\ Met(d, k, l) => k = i /\ l = j)'
  BY DEF CellsMet
<1>1. \A d, i, j : Cell(d, i, j, e, s)' = Cell(d, i, j, e, s)
  BY SameDecls
<1>2. Decls' = Decls
  BY SameDecls
<1>3. ASSUME array[e][s] # 0
      PROVE  \E i, j \in Nat : Cell(array[e][s], i, j, e, s)' /\ Met(array[e][s], i, j)'
  <2>1. PICK i, j \in Nat : Cell(array[e][s], i, j, e, s) /\ Met(array[e][s], i, j)
    BY <1>3 DEF CellsMet
  <2>2. array[e][s] \in Decls
    BY <1>3 DEF TypeOK
  <2>. QED BY <2>1, <2>2, <1>1
<1>4. ASSUME ~error', NEW d \in Decls', NEW i \in Nat, NEW j \in Nat,
             Cell(d, i, j, e, s)', Met(d, i, j)'
      PROVE  /\ array[e][s] = d
             /\ \A k, l \in Nat : Cell(d, k, l, e, s)' /\ Met(d, k, l)' => k = i /\ l = j
  <2>1. ~error /\ d \in Decls /\ Cell(d, i, j, e, s) /\ Met(d, i, j)
    BY <1>1, <1>2, <1>4
  <2>2. \A k, l \in Nat : Cell(d, k, l, e, s)' /\ Met(d, k, l)' => Cell(d, k, l, e, s) /\ Met(d, k, l)
    BY <1>1, <2>1, <1>4
  <2>. QED BY <2>1, <2>2 DEF CellsMet
<1>. QED BY <1>2, <1>3, <1>4

LEMMA InitKeeps == Init => IInv
<1>. SUFFICES ASSUME Init PROVE IInv
  OBVIOUS
<1>. USE DEF Init
<1>1. TypeOK
  <2>1. array \in [Events -> [States -> Decls \union {0}]]
    OBVIOUS
  <2>2. first \in [Events -> Decls \union {0}] /\ covered \in [Events -> 0 .. Len(StateList)]
    BY StatesCounted
  <2>3. handled \in [States -> SUBSET Events] /\ actionsOf \in [States -> SUBSET Actions]
    OBVIOUS
  <2>4. handling \in [Events -> SUBSET States] /\ actionsBy \in [Events -> SUBSET Actions]
    OBVIOUS
  <2>5. inbound \in [States -> SUBSET States] /\ outbound \in [States -> SUBSET (States \union {NoTransition})]
    OBVIOUS
  <2>. QED BY <2>1, <2>2, <2>3, <2>4, <2>5 DEF TypeOK
<1>2. Places
  BY DeclFacts DEF Places, Filling
<1>3. \A d, i, j : d \in Decls /\ i \in DOMAIN EventsOf(d) /\ j \in Nat => ~Met(d, i, j)
  BY DeclFacts DEF Met
<1>4. CellsMet
  BY <1>3 DEF CellsMet, Cell
<1>5. Firsts /\ Counts
  BY DEF Firsts, Counts
<1>6. \A d \in Decls : d # 0
  BY DeclFacts
<1>7. Alikes
  BY <1>6, ArrayAssumption DEF Alikes, OneCell
<1>8. ListsAgree /\ ListsConnected
  BY DEF ListsAgree, ListsConnected, Leads
<1>. QED BY <1>1, <1>2, <1>4, <1>5, <1>7, <1>8 DEF IInv
-----------------------------------------------------------------------------
LEMMA BeginEventKeeps ==
  ASSUME IInv, BeginEvent
  PROVE  IInv'
<1>. USE DEF IInv
<1>0. /\ Filling /\ at.s = 0 /\ ~error /\ at' = [at EXCEPT !.s = 1]
      /\ covered' = [covered EXCEPT ![Event] = 0]
      /\ first' = [first EXCEPT ![Event] = IF @ = 0 THEN at.d ELSE @]
      /\ UNCHANGED <<decls, array, alike, lists, error>>
  BY DEF BeginEvent, Places
<1>u. /\ decls' = decls /\ array' = array /\ alike' = alike /\ error' = error
      /\ UNCHANGED <<handled, handling, actionsOf, actionsBy, inbound, outbound>>
  BY <1>0 DEF lists
<1>p. at.d \in Decls /\ at.d \in Nat \ {0} /\ Event \in Events /\ Decls = 1 .. Len(decls)
  BY <1>0, PlaceFacts, DeclFacts DEF TypeOK
<1>a. at'.d = at.d /\ at'.e = at.e /\ at'.s = 1 /\ Filling' /\ Event' = Event
  BY <1>0, <1>u, <1>p, SameDecls DEF TypeOK, Filling, Event
<1>f. /\ \A e \in Events \ {Event} : first'[e] = first[e] /\ covered'[e] = covered[e]
      /\ first'[Event] = (IF first[Event] = 0 THEN at.d ELSE first[Event]) /\ covered'[Event] = 0
  BY <1>0, <1>p DEF TypeOK
<1>1. TypeOK'
  <2>1. first' \in [Events -> Decls \union {0}] /\ covered' \in [Events -> 0 .. Len(StateList)]
    BY <1>0, <1>p, StatesCounted DEF TypeOK
  <2>. QED BY <1>0, <1>u, <2>1, SameDecls DEF TypeOK
<1>2. Places'
  BY <1>0, <1>a, <1>u, SameDecls, DeclFacts DEF Places, TypeOK
<1>3. CellsMet'
  <2>1. \A d \in Decls : \A i, j, e, s : Cell(d, i, j, e, s) => j \in Nat \ {0}
    BY DeclFacts DEF Cell, TypeOK
  <2>2. \A d \in Decls : \A i, j, e, s : Cell(d, i, j, e, s) => (Met(d, i, j)' <=> Met(d, i, j))
    BY <1>0, <1>a, <1>p, <2>1 DEF Met
  <2>. QED BY <1>u, <2>2, CellsKept
<1>4. (error => Clash)'
  BY <1>u, SameDecls
<1>5. Firsts'
  <2>1. first'[Event] # 0
    BY <1>f, <1>p
  <2>2. ASSUME NEW e \in Events, NEW s \in States, array[e][s] # 0
        PROVE  first'[e] # 0 /\ first'[e] <= array[e][s]
    BY <1>f, <2>2 DEF Firsts
  <2>3. ASSUME NEW e \in Events, first'[e] # 0
        PROVE  Begun(e)' \/ \E s \in States : array[e][s] = first'[e]
    <3>1. CASE e = Event /\ first[e] = 0
      BY <1>0, <1>a, <1>f, <1>p, <3>1 DEF Begun
    <3>2. CASE ~(e = Event /\ first[e] = 0)
      BY <1>0, <1>f, <2>3, <3>2 DEF Firsts, Begun
    <3>. QED BY <3>1, <3>2
  <2>. QED BY <1>a, <1>u, <2>1, <2>2, <2>3 DEF Firsts
<1>6. Counts'
  <2>1. ASSUME NEW e \in Events, covered'[e] # 0
        PROVE  /\ first'[e] # 0
               /\ covered'[e] = Cardinality({s \in States : array[e][s] = first'[e]})
               /\ \A s \in States : array[e][s] \in {0, first'[e]}
    <3>1. e # Event /\ first'[e] = first[e] /\ covered'[e] = covered[e]
      BY <1>f, <2>1
    <3>. QED BY <2>1, <3>1 DEF Counts
  <2>. QED BY <1>a, <1>u, <1>f, <2>1 DEF Counts
<1>7. Alikes'
  BY <1>0, <1>u, SameDecls DEF Alikes, OneCell
<1>8. ListsAgree' /\ ListsConnected'
  BY <1>u DEF ListsAgree, ListsConnected, Leads
<1>. QED BY <1>1, <1>2, <1>3, <1>4, <1>5, <1>6, <1>7, <1>8
LEMMA RefuseCellKeeps ==
  ASSUME IInv, RefuseCell
  PROVE  IInv'
<1>. USE DEF IInv
<1>0. /\ Filling /\ at.s \in 1 .. Len(StatesOf(at.d)) /\ ~error /\ array[Event][State] # 0
      /\ error' = TRUE /\ UNCHANGED <<decls, at, array, first, covered, alike>>
      /\ UNCHANGED <<handled, handling, actionsOf, actionsBy, inbound, outbound>>
  BY DEF RefuseCell, InCell, lists
<1>p. /\ at.d \in Decls /\ at.e \in DOMAIN EventsOf(at.d) /\ at.s \in DOMAIN StatesOf(at.d)
      /\ Event \in Events /\ State \in States
  BY <1>0, PlaceFacts
<1>a. Filling' = Filling /\ Event' = Event
  BY <1>0, SameDecls DEF Filling, Event
<1>1. TypeOK'
  BY <1>0, SameDecls DEF TypeOK
<1>2. Places'
  BY <1>0, SameDecls DEF Places, Filling
<1>3. CellsMet'
  BY <1>0, CellsKept DEF Met
<1>4. Clash
  <2>. DEFINE c == array[Event][State]
  <2>1. c \in Decls
    BY <1>0, <1>p DEF TypeOK
  <2>2. PICK i, j \in Nat : Cell(c, i, j, Event, State) /\ Met(c, i, j)
    BY <1>0, <1>p DEF CellsMet
  <2>3. Cell(at.d, at.e, at.s, Event, State)
    BY <1>p DEF Cell, Event, State
  <2>4. CASE c # at.d
    <3>1. <<Event, State>> \in Matrix(c) \intersect Matrix(at.d)
      BY <2>2, <2>3 DEF Matrix, Cell, ToSet
    <3>. QED BY <1>p, <2>1, <2>4, <3>1 DEF Clash
  <2>5. CASE c = at.d
    <3>1. i # at.e \/ j # at.s
      BY <2>2, <2>5, <1>p, DeclFacts DEF Met, TypeOK
    <3>2. ~IsInjective(EventsOf(at.d)) \/ ~IsInjective(StatesOf(at.d))
      BY <2>2, <2>3, <2>5, <3>1 DEF Cell, IsInjective
    <3>. QED BY <1>p, <3>2 DEF Clash
  <2>. QED BY <2>4, <2>5
<1>5. (error => Clash)'
  BY <1>0, <1>4, SameDecls
<1>6. Firsts'
  <2>1. ASSUME NEW e \in Events, Begun(e)
        PROVE  array[e][State] = first[e]
    <3>1. first[e] \in Nat /\ array[e][State] \in Decls /\ first[e] <= array[e][State]
      BY <1>0, <1>p, <2>1, DeclFacts DEF Firsts, Begun, TypeOK
    <3>2. PICK i, j \in Nat : Met(array[e][State], i, j)
      BY <1>0, <1>p, <2>1 DEF CellsMet, Begun
    <3>3. array[e][State] <= at.d
      <4>1. at.d \in Nat /\ Decls \subseteq Nat
        BY <1>0, PlaceFacts DEF Decls
      <4>2. array[e][State] \in Nat
        BY <3>1, <4>1
      <4>. QED BY <3>2, <4>1, <4>2 DEF Met
    <3>. QED BY <1>p, <2>1, <3>1, <3>3, DeclFacts DEF Begun, TypeOK
  <2>. QED BY <1>0, <1>a, <1>p, <2>1 DEF Firsts
<1>c. Counts'
  BY <1>0, <1>a DEF Counts
<1>7. Alikes'
  BY <1>0, <1>a, SameDecls DEF Alikes, OneCell
<1>8. ListsAgree' /\ ListsConnected'
  BY <1>0 DEF ListsAgree, ListsConnected, Leads
<1>. QED BY <1>1, <1>2, <1>3, <1>5, <1>6, <1>c, <1>7, <1>8

LEMMA EndEventKeeps ==
  ASSUME IInv, EndEvent
  PROVE  IInv'
<1>. USE DEF IInv
<1>0. /\ Filling /\ (error \/ at.s > Len(StatesOf(at.d))) /\ at' = NextPlace
      /\ alike' = IF covered[Event] = Len(StateList) THEN alike \union {Event} ELSE alike
      /\ UNCHANGED <<decls, array, first, covered, error>>
      /\ UNCHANGED <<handled, handling, actionsOf, actionsBy, inbound, outbound>>
  BY DEF EndEvent, EventOver, lists
<1>p. /\ at.d \in Decls /\ at.d \in Nat /\ at.e \in 1 .. Len(EventsOf(at.d)) /\ at.s \in Nat \ {0}
      /\ Event \in Events
      /\ Decls = 1 .. Len(decls) /\ Len(decls) \in Nat
      /\ \A d \in Decls : Len(EventsOf(d)) \in Nat \ {0} /\ Len(StatesOf(d)) \in Nat \ {0}
  <2>1. /\ Decls = 1 .. Len(decls) /\ Len(decls) \in Nat
        /\ \A d \in Decls : Len(EventsOf(d)) \in Nat \ {0} /\ Len(StatesOf(d)) \in Nat \ {0}
    BY DeclFacts DEF TypeOK
  <2>2. at.e \in 1 .. Len(EventsOf(at.d)) /\ at.s \in Nat /\ Len(StatesOf(at.d)) \in Nat \ {0}
    BY <1>0, <2>1 DEF TypeOK, Places, Filling
  <2>3. at.s \in Nat \ {0}
    <3>1. error => at.s # 0
      BY <1>0 DEF Places
    <3>. QED BY <1>0, <2>2, <3>1
  <2>. QED BY <1>0, <2>1, <2>2, <2>3, PlaceFacts
<1>n. /\ at'.d \in Nat /\ at'.e \in Nat /\ at' \in [d : Nat, e : Nat, s : Nat]
      /\ \/ error /\ at'.d = Len(decls) + 1
         \/ ~error /\ at.e < Len(EventsOf(at.d)) /\ at'.d = at.d /\ at'.e = at.e + 1 /\ at'.s = 0
         \/ ~error /\ at.e = Len(EventsOf(at.d)) /\ at'.d = at.d + 1 /\ at'.e = 1 /\ at'.s = 0
  <2>1. at \in [d : Nat, e : Nat, s : Nat] /\ error \in BOOLEAN
    BY DEF TypeOK
  <2>2. CASE error
    BY <1>0, <1>p, <2>1, <2>2 DEF NextPlace
  <2>3. CASE ~error /\ at.e < Len(EventsOf(at.d))
    <3>1. at' = [at EXCEPT !.e = @ + 1, !.s = 0]
      BY <1>0, <2>3 DEF NextPlace
    <3>2. at.e \in Nat /\ at.e + 1 \in Nat
      BY <1>p
    <3>. QED BY <2>1, <2>3, <3>1, <3>2
  <2>4. CASE ~error /\ at.e = Len(EventsOf(at.d))
    <3>1. at' = [d |-> at.d + 1, e |-> 1, s |-> 0]
      BY <1>0, <1>p, <2>4 DEF NextPlace
    <3>. QED BY <1>p, <2>4, <3>1
  <2>. QED BY <1>p, <2>1, <2>2, <2>3, <2>4
<1>f. Filling' => ~error /\ at'.s = 0
  BY <1>0, <1>p, <1>n, SameDecls DEF Filling
<1>1. TypeOK'
  BY <1>0, <1>p, <1>n, SameDecls DEF TypeOK
<1>2. Places'
  <2>1. at'.d \in 1 .. Len(decls) + 1 /\ decls' = decls /\ error' = error
    BY <1>0, <1>n, <1>p
  <2>2. ASSUME Filling'
        PROVE  /\ at'.e \in 1 .. Len(EventsOf(at'.d))
               /\ at'.s \in 0 .. Len(StatesOf(at'.d)) + 1
               /\ ~error
    <3>1. at'.d \in Decls /\ ~error /\ at'.s = 0
      BY <1>0, <1>f, <2>2, SameDecls DEF Filling
    <3>2. at'.e \in 1 .. Len(EventsOf(at'.d))
      BY <1>n, <1>p, <3>1
    <3>. QED BY <1>p, <3>1, <3>2
  <2>. QED BY <2>1, <2>2 DEF Places, EventsOf, StatesOf
<1>3. CellsMet'
  <2>1. \A d \in Decls : \A i, j, e, s : Cell(d, i, j, e, s) =>
          i \in 1 .. Len(EventsOf(d)) /\ j \in 1 .. Len(StatesOf(d))
    BY DeclFacts DEF Cell, TypeOK
  <2>2. ASSUME NEW d \in Decls, NEW i, NEW j, NEW e, NEW s, Cell(d, i, j, e, s), Met(d, i, j)
        PROVE  Met(d, i, j)'
    <3>1. /\ i \in Nat /\ j \in Nat /\ i <= Len(EventsOf(d)) /\ d \in Nat /\ d < Len(decls) + 1
          /\ at.e \in Nat
      BY <1>p, <2>1, <2>2
    <3>2. CASE error
      BY <1>n, <3>1, <3>2 DEF Met
    <3>3. CASE ~error /\ at'.d = at.d
      <4>1. at'.e = at.e + 1 /\ at.d \in Nat
        BY <1>n, <1>p, <3>3
      <4>. QED BY <2>2, <3>1, <3>3, <4>1 DEF Met
    <3>4. CASE ~error /\ at'.d = at.d + 1
      BY <1>p, <2>2, <3>1, <3>4 DEF Met
    <3>. QED BY <1>n, <3>2, <3>3, <3>4
  <2>3. ASSUME ~error, NEW d \in Decls, NEW i, NEW j, NEW e, NEW s, Cell(d, i, j, e, s), Met(d, i, j)'
        PROVE  Met(d, i, j)
    <3>1. /\ i \in Nat \ {0} /\ j \in Nat \ {0} /\ i <= Len(EventsOf(d)) /\ j <= Len(StatesOf(d))
          /\ d \in Nat /\ at.e \in Nat /\ at.s > Len(StatesOf(at.d))
          /\ Len(EventsOf(d)) \in Nat /\ Len(StatesOf(d)) \in Nat
      <4>1. Len(EventsOf(d)) \in Nat /\ Len(StatesOf(d)) \in Nat /\ d \in Nat
        BY <1>p
      <4>2. i \in 1 .. Len(EventsOf(d)) /\ j \in 1 .. Len(StatesOf(d))
        BY <2>1, <2>3
      <4>3. at.e \in Nat /\ at.s > Len(StatesOf(at.d))
        BY <1>0, <1>p, <2>3
      <4>. QED BY <4>1, <4>2, <4>3
    <3>2. CASE at'.d = at.d /\ at'.e = at.e + 1 /\ at'.s = 0
      BY <1>p, <2>3, <3>1, <3>2 DEF Met
    <3>3. CASE at.e = Len(EventsOf(at.d)) /\ at'.d = at.d + 1 /\ at'.e = 1 /\ at'.s = 0
      BY <1>p, <2>3, <3>1, <3>3 DEF Met
    <3>. QED BY <1>n, <2>3, <3>2, <3>3
  <2>. QED BY <1>0, <2>2, <2>3, CellsKept
<1>4. (error => Clash)'
  BY <1>0, SameDecls
<1>5. Firsts'
  <2>1. ASSUME NEW e \in Events, first[e] # 0
        PROVE  \E s \in States : array[e][s] = first[e]
    <3>1. CASE ~Begun(e)
      BY <2>1, <3>1 DEF Firsts
    <3>2. CASE Begun(e)
      BY <1>0, <1>p, <3>2 DEF Places, Begun
    <3>. QED BY <3>1, <3>2
  <2>. QED BY <1>0, <1>f, <2>1 DEF Firsts
<1>6. Counts'
  <2>1. ~(Filling' /\ at'.s > 0)
    BY <1>f
  <2>. QED BY <1>0, <2>1 DEF Counts
<1>7. Alikes'
  <2>1. ASSUME covered[Event] = Len(StateList)
        PROVE  OneCell(Event)
    <3>. DEFINE S == {s \in States : array[Event][s] = first[Event]}
    <3>1. Cardinality(S) = Cardinality(States) /\ S \in SUBSET States
      BY <1>p, <2>1, StatesCounted DEF Counts
    <3>2. S = States
      BY <3>1, StatesCounted, FS_Subset
    <3>3. first[Event] \in Decls
      BY <1>0, <1>p DEF Firsts, TypeOK
    <3>. QED BY <3>2, <3>3 DEF OneCell
  <2>. QED BY <1>0, <1>f, <2>1, SameDecls DEF Alikes, OneCell
<1>8. ListsAgree' /\ ListsConnected'
  BY <1>0 DEF ListsAgree, ListsConnected, Leads
<1>. QED BY <1>1, <1>2, <1>3, <1>4, <1>5, <1>6, <1>7, <1>8
LEMMA AddToActionArrayKeeps ==
  ASSUME IInv, AddToActionArray
  PROVE  IInv'
<1>. USE DEF IInv
<1>. DEFINE c == at.d
<1>0. /\ Filling /\ at.s \in 1 .. Len(StatesOf(c)) /\ ~error /\ array[Event][State] = 0
      /\ array' = [array EXCEPT ![Event][State] = c]
      /\ handled' = [handled EXCEPT ![State] = @ \union {Event}]
      /\ handling' = [handling EXCEPT ![Event] = @ \union {State}]
      /\ actionsOf' = [actionsOf EXCEPT ![State] = @ \union Named(c)]
      /\ actionsBy' = [actionsBy EXCEPT ![Event] = @ \union Named(c)]
      /\ covered' = [covered EXCEPT ![Event] = IF first[Event] = c THEN @ + 1 ELSE @]
      /\ outbound' = [outbound EXCEPT ![State] = @ \union (decls[c].to \ {State})]
      /\ inbound' = [t \in States |-> IF t \in decls[c].to \ {State}
                                     THEN inbound[t] \union {State} ELSE inbound[t]]
      /\ at' = [at EXCEPT !.s = @ + 1]
      /\ UNCHANGED <<decls, first, alike, error>>
  BY DEF AddToActionArray, InCell, Put, Connect
<1>p. /\ c \in Decls /\ c \in Nat \ {0} /\ at.e \in DOMAIN EventsOf(c) /\ at.s \in DOMAIN StatesOf(c)
      /\ Event \in Events /\ State \in States /\ at.e \in Nat \ {0} /\ at.s \in Nat \ {0}
      /\ Decls = 1 .. Len(decls) /\ Len(decls) \in Nat
      /\ Cell(c, at.e, at.s, Event, State)
  <2>1. at.e \in DOMAIN EventsOf(c) /\ DOMAIN EventsOf(c) = 1 .. Len(EventsOf(c)) /\ c \in Decls
    BY <1>0, PlaceFacts, DeclFacts DEF TypeOK
  <2>. QED BY <1>0, <2>1, PlaceFacts, DeclFacts DEF TypeOK, Cell, Event, State
<1>a. /\ at' \in [d : Nat, e : Nat, s : Nat] /\ at'.d = c /\ at'.e = at.e /\ at'.s = at.s + 1
      /\ Filling' /\ Event' = Event
  <2>1. at \in [d : Nat, e : Nat, s : Nat] /\ at' = [at EXCEPT !.s = @ + 1]
    BY <1>0 DEF TypeOK
  <2>2. at' \in [d : Nat, e : Nat, s : Nat] /\ at'.d = c /\ at'.e = at.e /\ at'.s = at.s + 1
    BY <2>1
  <2>. QED BY <1>0, <1>p, <2>2, SameDecls DEF Filling, Event
<1>c. \A e \in Events, s \in States :
        array'[e][s] = IF e = Event /\ s = State THEN c ELSE array[e][s]
  BY <1>0, <1>p DEF TypeOK
<1>m. \A e \in Events, s \in States : array[e][s] # 0 =>
        /\ array[e][s] \in Decls /\ array[e][s] <= c
        /\ ~(e = Event /\ s = State)
  <2>. SUFFICES ASSUME NEW e \in Events, NEW s \in States, array[e][s] # 0
       PROVE array[e][s] \in Decls /\ array[e][s] <= c /\ ~(e = Event /\ s = State)
    OBVIOUS
  <2>1. array[e][s] \in Decls
    BY DEF TypeOK
  <2>2. PICK i, j \in Nat : Met(array[e][s], i, j)
    BY DEF CellsMet
  <2>. QED BY <1>0, <1>p, <2>1, <2>2 DEF Met
<1>f. first[Event] # 0 /\ first[Event] \in Decls /\ first[Event] <= c
      /\ (first[Event] = c \/ \E s \in States : array[Event][s] = first[Event])
  <2>1. first[Event] # 0 /\ first[Event] \in Decls
    BY <1>0, <1>p DEF Firsts, TypeOK
  <2>2. Begun(Event) \/ \E s \in States : array[Event][s] = first[Event]
    BY <1>p, <2>1 DEF Firsts
  <2>. QED BY <1>m, <1>p, <2>1, <2>2 DEF Begun
<1>3. CellsMet'
  <2>1. \A d \in Decls : \A i, j, e, s : Cell(d, i, j, e, s) => i \in Nat /\ j \in Nat
    BY DeclFacts DEF Cell, TypeOK
  <2>2. \A d \in Decls : \A i, j \in Nat :
          Met(d, i, j)' <=> Met(d, i, j) \/ (d = c /\ i = at.e /\ j = at.s)
    BY <1>a, <1>p DEF Met
  <2>3. \A d, i, j, e, s : Cell(d, i, j, e, s)' = Cell(d, i, j, e, s)
    BY <1>0, SameDecls
  <2>4. \A e, s : Cell(c, at.e, at.s, e, s) <=> e = Event /\ s = State
    BY <1>p DEF Cell
  <2>. SUFFICES ASSUME NEW e \in Events, NEW s \in States
       PROVE (/\ array[e][s] # 0 =>
                   \E i, j \in Nat : Cell(array[e][s], i, j, e, s) /\ Met(array[e][s], i, j)
              /\ ~error => \A d \in Decls : \A i, j \in Nat :
                   Cell(d, i, j, e, s) /\ Met(d, i, j) =>
                     /\ array[e][s] = d
                     /\ \A k, l \in Nat : Cell(d, k, l, e, s) /\ Met(d, k, l) => k = i /\ l = j)'
    BY DEF CellsMet
  <2>5. ASSUME array'[e][s] # 0
        PROVE  \E i, j \in Nat : Cell(array[e][s], i, j, e, s)' /\ Met(array[e][s], i, j)'
    <3>1. CASE e = Event /\ s = State
      BY <1>c, <1>p, <2>2, <2>3, <2>4, <3>1
    <3>2. CASE ~(e = Event /\ s = State)
      <4>1. array'[e][s] = array[e][s] /\ array[e][s] # 0 /\ array[e][s] \in Decls
        BY <1>c, <1>m, <2>5, <3>2
      <4>2. PICK i, j \in Nat : Cell(array[e][s], i, j, e, s) /\ Met(array[e][s], i, j)
        BY <4>1 DEF CellsMet
      <4>. QED BY <2>2, <2>3, <4>1, <4>2
    <3>. QED BY <3>1, <3>2
  <2>6. ASSUME NEW d \in Decls, NEW i \in Nat, NEW j \in Nat,
               Cell(d, i, j, e, s), Met(d, i, j) \/ (d = c /\ i = at.e /\ j = at.s)
        PROVE  /\ array'[e][s] = d
               /\ \A k, l \in Nat : Cell(d, k, l, e, s) /\ (Met(d, k, l) \/ (d = c /\ k = at.e /\ l = at.s))
                    => k = i /\ l = j
    <3>1. CASE Met(d, i, j)
      <4>1. array[e][s] = d /\ d # 0
        BY <1>0, <1>p, <2>6, <3>1 DEF CellsMet
      <4>2. array'[e][s] = d /\ ~(e = Event /\ s = State)
        BY <1>c, <1>m, <4>1
      <4>. QED BY <1>0, <2>4, <2>6, <3>1, <4>2 DEF CellsMet
    <3>2. CASE d = c /\ i = at.e /\ j = at.s
      <4>1. e = Event /\ s = State /\ array'[e][s] = c
        BY <1>c, <2>4, <2>6, <3>2
      <4>2. \A k, l \in Nat : ~(Cell(c, k, l, e, s) /\ Met(c, k, l))
        BY <1>0, <1>p, <4>1 DEF CellsMet
      <4>. QED BY <3>2, <4>1, <4>2
    <3>. QED BY <2>6, <3>1, <3>2
  <2>7. ASSUME NEW d \in Decls', NEW i \in Nat, NEW j \in Nat, Cell(d, i, j, e, s)', Met(d, i, j)'
        PROVE  /\ array'[e][s] = d
               /\ \A k, l \in Nat : Cell(d, k, l, e, s)' /\ Met(d, k, l)' => k = i /\ l = j
    <3>1. d \in Decls
      BY <1>0, SameDecls
    <3>. QED BY <2>2, <2>3, <2>6, <2>7, <3>1
  <2>. QED BY <2>5, <2>7
<1>4. (error => Clash)'
  BY <1>0
<1>5. Firsts'
  <2>1. ASSUME NEW e \in Events, NEW s \in States, array'[e][s] # 0
        PROVE  first[e] # 0 /\ first[e] <= array'[e][s]
    <3>1. CASE e = Event /\ s = State
      BY <1>c, <1>f, <3>1
    <3>2. CASE ~(e = Event /\ s = State)
      BY <1>c, <2>1, <3>2 DEF Firsts
    <3>. QED BY <3>1, <3>2
  <2>2. ASSUME NEW e \in Events, first[e] # 0
        PROVE  \E s \in States : array'[e][s] = first[e]
    <3>1. CASE e = Event /\ first[e] = c
      BY <1>c, <1>p, <3>1
    <3>2. CASE ~(e = Event /\ first[e] = c)
      <4>1. PICK s \in States : array[e][s] = first[e]
        BY <2>2, <3>2 DEF Firsts, Begun
      <4>. QED BY <1>0, <1>c, <2>2, <4>1
    <3>. QED BY <3>1, <3>2
  <2>. QED BY <1>0, <1>a, <1>f, <2>1, <2>2 DEF Firsts
<1>v. /\ \A e \in Events \ {Event} : covered'[e] = covered[e]
      /\ covered'[Event] = IF first[Event] = c THEN covered[Event] + 1 ELSE covered[Event]
      /\ covered[Event] \in Nat
  BY <1>0, <1>p, StatesCounted DEF TypeOK
<1>e. ASSUME first[Event] = c
      PROVE  /\ covered'[Event] = Cardinality({s \in States : array'[Event][s] = c})
             /\ \A s \in States : array'[Event][s] \in {0, c}
  <2>. DEFINE S == {s \in States : array[Event][s] = c}
  <2>1. {s \in States : array'[Event][s] = c} = S \union {State} /\ State \notin S
    BY <1>0, <1>c, <1>p
  <2>2. IsFiniteSet(S)
    BY StatesCounted, FS_Subset
  <2>3. Cardinality(S \union {State}) = Cardinality(S) + 1
    BY <2>1, <2>2, FS_AddElement
  <2>4. CASE covered[Event] # 0
    <3>1. covered[Event] = Cardinality(S) /\ \A s \in States : array[Event][s] \in {0, c}
      BY <1>e, <1>p, <2>4 DEF Counts
    <3>. QED BY <1>c, <1>e, <1>p, <1>v, <2>1, <2>3, <3>1
  <2>5. CASE covered[Event] = 0
    <3>1. at.s = 1
      BY <1>0, <1>e, <1>p, <2>5 DEF Counts
    <3>2. ASSUME NEW s \in States, array[Event][s] # 0
          PROVE  FALSE
      <4>1. array[Event][s] = c
        BY <1>e, <1>m, <1>p, <3>2 DEF Firsts
      <4>2. PICK i, j \in Nat : Cell(c, i, j, Event, s) /\ Met(c, i, j)
        BY <1>p, <3>2, <4>1 DEF CellsMet
      <4>3. j \in Nat \ {0}
        BY <1>p, <4>2, DeclFacts DEF Cell, TypeOK
      <4>4. i < at.e
        BY <1>p, <3>1, <4>2, <4>3 DEF Met
      <4>5. Cell(c, i, 1, Event, State) /\ Met(c, i, 1)
        BY <1>p, <3>1, <4>2, <4>4 DEF Cell, Met
      <4>. QED BY <1>0, <1>p, <4>5 DEF CellsMet
    <3>3. S = {} /\ Cardinality(S) = 0
      BY <1>p, <3>2, FS_EmptySet
    <3>. QED BY <1>c, <1>e, <1>p, <1>v, <2>1, <2>3, <2>5, <3>2, <3>3
  <2>. QED BY <2>4, <2>5
<1>6. Counts'
  <2>1. ASSUME NEW e \in Events, covered'[e] # 0
        PROVE  /\ first[e] # 0
               /\ covered'[e] = Cardinality({s \in States : array'[e][s] = first[e]})
               /\ \A s \in States : array'[e][s] \in {0, first[e]}
    <3>1. CASE e # Event
      <4>1. covered[e] # 0 /\ covered'[e] = covered[e] /\ \A s \in States : array'[e][s] = array[e][s]
        BY <1>c, <1>v, <2>1, <3>1
      <4>2. {s \in States : array'[e][s] = first[e]} = {s \in States : array[e][s] = first[e]}
        BY <4>1
      <4>. QED BY <4>1, <4>2 DEF Counts
    <3>2. CASE e = Event /\ first[e] = c
      BY <1>e, <1>f, <3>2
    <3>3. CASE e = Event /\ first[e] # c
      BY <1>0, <1>p, <1>v, <2>1, <3>3 DEF Counts
    <3>. QED BY <3>1, <3>2, <3>3
  <2>2. covered'[Event] = 0 <=> first[Event] # c \/ at.s + 1 = 1
    BY <1>0, <1>p, <1>v DEF Counts
  <2>3. (covered[Event] = 0 <=> first[Event] # at.d \/ at.s = 1)'
    BY <1>0, <1>a, <2>2
  <2>4. first' = first
    BY <1>0
  <2>. QED BY <2>1, <2>3, <2>4 DEF Counts
<1>1. TypeOK'
  <2>1. array' \in [Events -> [States -> Decls \union {0}]]
    BY <1>0, <1>p DEF TypeOK
  <2>2. covered' \in [Events -> 0 .. Len(StateList)]
    <3>1. covered'[Event] \in 0 .. Len(StateList)
      <4>1. CASE first[Event] = c
        <5>1. {s \in States : array'[Event][s] = c} \in SUBSET States
          OBVIOUS
        <5>2. Cardinality({s \in States : array'[Event][s] = c}) <= Len(StateList)
          BY <5>1, StatesCounted, FS_Subset
        <5>. QED BY <1>e, <1>v, <4>1, <5>2, StatesCounted
      <4>2. CASE first[Event] # c
        BY <1>p, <1>v, <4>2 DEF TypeOK
      <4>. QED BY <4>1, <4>2
    <3>. QED BY <1>0, <1>p, <1>v, <3>1 DEF TypeOK
  <2>3. Named(c) \subseteq Actions /\ decls[c].to \subseteq States \union {NoTransition}
    BY <1>p, DeclFacts DEF TypeOK, Named
  <2>4. /\ handled' \in [States -> SUBSET Events] /\ handling' \in [Events -> SUBSET States]
        /\ actionsOf' \in [States -> SUBSET Actions] /\ actionsBy' \in [Events -> SUBSET Actions]
    BY <1>0, <1>p, <2>3 DEF TypeOK
  <2>5. /\ outbound' \in [States -> SUBSET (States \union {NoTransition})]
        /\ inbound' \in [States -> SUBSET States]
    BY <1>0, <1>p, <2>3 DEF TypeOK
  <2>. QED BY <1>0, <1>a, <2>1, <2>2, <2>4, <2>5, SameDecls DEF TypeOK
<1>2. Places'
  <2>1. /\ c \in 1 .. Len(decls) + 1 /\ at.e \in 1 .. Len(EventsOf(c)) /\ Len(StatesOf(c)) \in Nat
    BY <1>0, <1>p, DeclFacts DEF Places, TypeOK
  <2>2. EventsOf(at.d)' = EventsOf(c) /\ StatesOf(at.d)' = StatesOf(c)
    BY <1>0, <1>a, SameDecls
  <2>3. at.s + 1 \in 0 .. Len(StatesOf(c)) + 1
    BY <1>0, <2>1
  <2>. QED BY <1>0, <1>a, <2>1, <2>2, <2>3 DEF Places
<1>7. Alikes'
  <2>1. ASSUME NEW e \in Events, e # Event
        PROVE  OneCell(e)' <=> OneCell(e)
    BY <1>0, <1>c, <2>1, SameDecls DEF OneCell
  <2>2. ~OneCell(Event)
    BY <1>0, <1>p DEF OneCell
  <2>3. ASSUME OneCell(Event)'
        PROVE  covered'[Event] = Len(StateList)
    <3>1. \A s \in States : array'[Event][s] = c
      <4>1. PICK d : \A s \in States : array'[Event][s] = d
        BY <1>a, <2>3 DEF OneCell
      <4>. QED BY <1>c, <1>p, <4>1
    <3>2. first[Event] = c
      BY <1>c, <1>f, <1>m, <1>p, <3>1
    <3>3. {s \in States : array'[Event][s] = c} = States
      BY <3>1
    <3>. QED BY <1>e, <3>2, <3>3, StatesCounted
  <2>4. ASSUME NEW e \in Events
        PROVE  /\ e \in alike => OneCell(e)'
               /\ OneCell(e)' => e \in alike \/ (e = Event /\ covered'[e] = Len(StateList))
    <3>1. CASE e = Event
      <4>1. OneCell(e)' = OneCell(Event)'
        BY <1>a, <3>1
      <4>. QED BY <1>p, <2>2, <2>3, <3>1, <4>1 DEF Alikes
    <3>2. CASE e # Event
      BY <2>1, <3>2 DEF Alikes
    <3>. QED BY <3>1, <3>2
  <2>5. at'.s > 0
    BY <1>a, <1>p
  <2>. QED BY <1>0, <1>a, <2>4, <2>5 DEF Alikes
<1>8. ListsAgree'
  <2>1. \A s \in States : handled'[s] = IF s = State THEN handled[s] \union {Event} ELSE handled[s]
    BY <1>0 DEF TypeOK
  <2>2. \A e \in Events : handling'[e] = IF e = Event THEN handling[e] \union {State} ELSE handling[e]
    BY <1>0 DEF TypeOK
  <2>3. \A s \in States : actionsOf'[s] = IF s = State THEN actionsOf[s] \union Named(c) ELSE actionsOf[s]
    BY <1>0 DEF TypeOK
  <2>4. \A e \in Events : actionsBy'[e] = IF e = Event THEN actionsBy[e] \union Named(c) ELSE actionsBy[e]
    BY <1>0 DEF TypeOK
  <2>5. ASSUME NEW e \in Events, NEW s \in States
        PROVE  (e \in handled'[s] <=> array'[e][s] # 0) /\ (s \in handling'[e] <=> array'[e][s] # 0)
    <3>1. (e \in handled[s] <=> array[e][s] # 0) /\ (s \in handling[e] <=> array[e][s] # 0)
      BY DEF ListsAgree
    <3>2. array'[e][s] = IF e = Event /\ s = State THEN c ELSE array[e][s]
      BY <1>c, <1>p
    <3>3. c # 0
      BY <1>p
    <3>4. (e = Event /\ s = State) => c = array'[e][s]
      BY <3>2
    <3>. QED BY <2>1, <2>2, <3>1, <3>2, <3>3
  <2>6. ASSUME NEW s \in States
        PROVE  actionsOf'[s] = {decls[array'[f][s]].action : f \in handled'[s]} \ {NoAction}
    <3>1. actionsOf[s] = {decls[array[f][s]].action : f \in handled[s]} \ {NoAction}
      BY <1>p DEF ListsAgree
    <3>2. \A a : a \in actionsOf[s] <=> a # NoAction /\ \E f \in handled[s] : a = decls[array[f][s]].action
      BY <3>1
    <3>3. \A f \in handled[s] : array'[f][s] = array[f][s]
      <4>1. \A f \in handled[s] : f \in Events /\ array[f][s] # 0
        BY DEF TypeOK, ListsAgree
      <4>. QED BY <1>0, <1>c, <4>1
    <3>4. \A a : a \in actionsOf'[s] <=> a # NoAction /\ \E f \in handled'[s] : a = decls[array'[f][s]].action
      <4>1. CASE s # State
        <5>1. handled'[s] = handled[s] /\ actionsOf'[s] = actionsOf[s]
          BY <2>1, <2>3, <4>1
        <5>. QED BY <3>2, <3>3, <5>1
      <4>2. CASE s = State
        <5>1. array'[Event][s] = c
          BY <1>c, <1>p, <4>2
        <5>2. handled'[s] = handled[s] \union {Event} /\ actionsOf'[s] = actionsOf[s] \union Named(c)
          BY <2>1, <2>3, <4>2
        <5>. QED BY <3>2, <3>3, <5>1, <5>2 DEF Named
      <4>. QED BY <4>1, <4>2
    <3>. QED BY <3>4
  <2>7. ASSUME NEW e \in Events
        PROVE  actionsBy'[e] = {decls[array'[e][f]].action : f \in handling'[e]} \ {NoAction}
    <3>1. actionsBy[e] = {decls[array[e][f]].action : f \in handling[e]} \ {NoAction}
      BY <1>p DEF ListsAgree
    <3>2. \A a : a \in actionsBy[e] <=> a # NoAction /\ \E f \in handling[e] : a = decls[array[e][f]].action
      BY <3>1
    <3>3. \A f \in handling[e] : array'[e][f] = array[e][f]
      <4>1. \A f \in handling[e] : f \in States /\ array[e][f] # 0
        BY DEF TypeOK, ListsAgree
      <4>. QED BY <1>0, <1>c, <4>1
    <3>4. \A a : a \in actionsBy'[e] <=> a # NoAction /\ \E f \in handling'[e] : a = decls[array'[e][f]].action
      <4>1. CASE e # Event
        <5>1. handling'[e] = handling[e] /\ actionsBy'[e] = actionsBy[e]
          BY <2>2, <2>4, <4>1
        <5>. QED BY <3>2, <3>3, <5>1
      <4>2. CASE e = Event
        <5>1. array'[e][State] = c
          BY <1>c, <1>p, <4>2
        <5>2. handling'[e] = handling[e] \union {State} /\ actionsBy'[e] = actionsBy[e] \union Named(c)
          BY <2>2, <2>4, <4>2
        <5>. QED BY <3>2, <3>3, <5>1, <5>2 DEF Named
      <4>. QED BY <4>1, <4>2
    <3>. QED BY <3>4
  <2>8. decls' = decls
    BY <1>0
  <2>. QED BY <2>5, <2>6, <2>7, <2>8 DEF ListsAgree
<1>9. ListsConnected'
  <2>1. \A s \in States : \A t : Leads(s, t)' <=> Leads(s, t) \/ (s = State /\ t \in decls[c].to)
    BY <1>0, <1>c, <1>p DEF Leads
  <2>2. \A s \in States : outbound'[s] = IF s = State THEN outbound[s] \union (decls[c].to \ {s}) ELSE outbound[s]
    BY <1>0 DEF TypeOK
  <2>3. \A t \in States : inbound'[t] = IF t \in decls[c].to \ {State} THEN inbound[t] \union {State} ELSE inbound[t]
    BY <1>0
  <2>4. ASSUME NEW s \in States, NEW t
        PROVE  t \in outbound'[s] <=> t # s /\ Leads(s, t)'
    <3>1. Leads(s, t)' <=> Leads(s, t) \/ (s = State /\ t \in decls[c].to)
      BY <2>1
    <3>2. t \in outbound[s] <=> t # s /\ Leads(s, t)
      BY DEF ListsConnected
    <3>3. outbound'[s] = IF s = State THEN outbound[s] \union (decls[c].to \ {s}) ELSE outbound[s]
      BY <2>2
    <3>4. CASE s = State
      BY <3>1, <3>2, <3>3, <3>4
    <3>5. CASE s # State
      BY <3>1, <3>2, <3>3, <3>5
    <3> QED BY <3>4, <3>5
  <2>5. ASSUME NEW s \in States, NEW t \in States
        PROVE  s \in inbound'[t] <=> t # s /\ Leads(s, t)'
    <3>1. Leads(s, t)' <=> Leads(s, t) \/ (s = State /\ t \in decls[c].to)
      BY <2>1
    <3>2. s \in inbound[t] <=> t # s /\ Leads(s, t)
      BY DEF ListsConnected
    <3>3. inbound'[t] = IF t \in decls[c].to \ {State} THEN inbound[t] \union {State} ELSE inbound[t]
      BY <2>3
    <3>4. CASE t \in decls[c].to \ {State}
      BY <3>1, <3>2, <3>3, <3>4
    <3>5. CASE t \notin decls[c].to \ {State}
      BY <3>1, <3>2, <3>3, <3>5
    <3> QED BY <3>4, <3>5
  <2>. QED BY <2>4, <2>5 DEF ListsConnected
<1>. QED BY <1>1, <1>2, <1>3, <1>4, <1>5, <1>6, <1>7, <1>8, <1>9

-----------------------------------------------------------------------------
LEMMA StepKeeps ==
  ASSUME IInv, [Next]_vars
  PROVE  IInv'
<1>1. CASE UNCHANGED <<decls, at, array, first, covered, alike, lists, error>>
  <2>. USE <1>1 DEF IInv, lists
  <2>1. TypeOK' /\ (error => Clash)' /\ Firsts' /\ Alikes'
    BY SameDecls DEF TypeOK, Firsts, Alikes, Begun, OneCell, Filling, Event
  <2>2. Places' /\ Counts'
    BY SameDecls DEF Places, Counts, Filling, Event
  <2>3. CellsMet'
    BY CellsKept DEF Met
  <2>4. ListsAgree' /\ ListsConnected'
    BY DEF ListsAgree, ListsConnected, Leads
  <2>. QED BY <2>1, <2>2, <2>3, <2>4
<1>2. CASE BeginEvent
  BY <1>2, BeginEventKeeps
<1>3. CASE AddToActionArray
  BY <1>3, AddToActionArrayKeeps
<1>4. CASE RefuseCell
  BY <1>4, RefuseCellKeeps
<1>5. CASE EndEvent
  BY <1>5, EndEventKeeps
<1>6. Count \/ Done \/ UNCHANGED vars => UNCHANGED <<decls, at, array, first, covered, alike, lists, error>>
  BY DEF Count, Done, vars, lists
<1>. QED BY <1>1, <1>2, <1>3, <1>4, <1>5, <1>6 DEF Next

LEMMA Invariant == Spec => []IInv
<1>1. Init => IInv
  BY InitKeeps
<1>2. IInv /\ [Next]_vars => IInv'
  BY StepKeeps
<1>. QED BY <1>1, <1>2, PTL DEF Spec

(* What is in the cells once they are filled. *)
LEMMA Declared == IInv => CellsAsDeclared
<1>. SUFFICES ASSUME IInv PROVE CellsAsDeclared
  OBVIOUS
<1>. USE DEF IInv
<1>d. /\ Decls = 1 .. Len(decls) /\ Len(decls) \in Nat
      /\ \A d \in Decls : /\ DOMAIN EventsOf(d) \subseteq Nat /\ DOMAIN StatesOf(d) \subseteq Nat
                          /\ 1 \in DOMAIN EventsOf(d) /\ 1 \in DOMAIN StatesOf(d)
                          /\ ToSet(EventsOf(d)) \subseteq Events /\ ToSet(StatesOf(d)) \subseteq States
  BY DeclFacts DEF TypeOK, ToSet
<1>1. ASSUME NEW e \in Events, NEW s \in States, array[e][s] # 0
      PROVE  <<e, s>> \in Matrix(array[e][s])
  <2>1. PICK i, j \in Nat : Cell(array[e][s], i, j, e, s)
    BY <1>1 DEF CellsMet
  <2>. QED BY <2>1 DEF Cell, Matrix, ToSet
<1>2. ASSUME ~Filling, ~error, NEW d \in Decls, NEW i \in DOMAIN EventsOf(d), NEW j \in DOMAIN StatesOf(d)
      PROVE  /\ EventsOf(d)[i] \in Events /\ StatesOf(d)[j] \in States
             /\ array[EventsOf(d)[i]][StatesOf(d)[j]] = d
             /\ \A k \in DOMAIN EventsOf(d), l \in DOMAIN StatesOf(d) :
                  EventsOf(d)[k] = EventsOf(d)[i] /\ StatesOf(d)[l] = StatesOf(d)[j] => k = i /\ l = j
  <2>1. at.d = Len(decls) + 1
    <3>1. at.d \in 1 .. Len(decls) + 1 /\ at.d \notin 1 .. Len(decls) /\ Len(decls) \in Nat
      BY <1>d, <1>2 DEF Places, Filling
    <3>. QED BY <3>1
  <2>2. \A k, l : Met(d, k, l)
    BY <1>d, <2>1 DEF Met
  <2>3. EventsOf(d)[i] \in Events /\ StatesOf(d)[j] \in States
    BY <1>d DEF ToSet
  <2>. QED BY <1>d, <1>2, <2>2, <2>3 DEF CellsMet, Cell
<1>3. ASSUME ~Filling, ~error, NEW d \in Decls, NEW p \in Matrix(d)
      PROVE  array[p[1]][p[2]] = d
  <2>1. PICK i \in DOMAIN EventsOf(d), j \in DOMAIN StatesOf(d) : p = <<EventsOf(d)[i], StatesOf(d)[j]>>
    BY DEF Matrix, ToSet
  <2>. QED BY <1>2, <1>3, <2>1
<1>4. ASSUME ~Filling, ~error, Clash
      PROVE  FALSE
  <2>1. ASSUME NEW b \in Decls, NEW d \in Decls, b # d, NEW p \in Matrix(b) \intersect Matrix(d)
        PROVE  FALSE
    BY <1>3, <1>4, <2>1
  <2>2. ASSUME NEW d \in Decls, NEW i \in DOMAIN EventsOf(d), NEW k \in DOMAIN EventsOf(d),
               EventsOf(d)[i] = EventsOf(d)[k]
        PROVE  i = k
    BY <1>d, <1>2, <1>4, <2>2
  <2>3. ASSUME NEW d \in Decls, NEW j \in DOMAIN StatesOf(d), NEW l \in DOMAIN StatesOf(d),
               StatesOf(d)[j] = StatesOf(d)[l]
        PROVE  j = l
    BY <1>d, <1>2, <1>4, <2>3
  <2>. QED BY <1>4, <2>1, <2>2, <2>3 DEF Clash, IsInjective
<1>. QED BY <1>1, <1>3, <1>4 DEF CellsAsDeclared, Clash

(* The array holds what was declared: every cell a declaration made for    *)
(* it, every declaration all its cells, unless the error ("already         *)
(* occupied") is reported, and that exactly if two declarations meet, or   *)
(* one names an event or a state twice.                                    *)
THEOREM AlwaysCellsAsDeclared == Spec => []CellsAsDeclared
<1>. QED BY Invariant, Declared, PTL

(* Between two events the events marked single_pai_for_all_states are      *)
(* those with the same declaration in every state.                         *)
THEOREM AlwaysAlikeIffOneCell == Spec => []AlikeIffOneCell
<1>1. IInv => AlikeIffOneCell
  <2>. SUFFICES ASSUME IInv, at.s = 0 \/ ~Filling
       PROVE alike = {e \in Events : \E d \in Decls : \A s \in States : array[e][s] = d}
    BY DEF AlikeIffOneCell
  <2>1. ~(Filling /\ at.s > 0) /\ alike \subseteq Events
    BY DEF IInv, TypeOK
  <2>. QED BY <2>1 DEF IInv, Alikes, OneCell
<1>. QED BY Invariant, <1>1, PTL

(* The lists of events, states and actions a machine's documents are       *)
(* written from say what is in the array, while it is filled and after.    *)
THEOREM AlwaysListsAgree == Spec => []ListsAgree
<1>1. IInv => ListsAgree
  BY DEF IInv
<1>. QED BY Invariant, <1>1, PTL

-----------------------------------------------------------------------------
(***************************************************************************)
(* The documents                                                           *)
(***************************************************************************)
(* Rows and cells are found by the positions of events and states. *)
LEMMA Positions ==
  /\ DOMAIN EventList = 1 .. Len(EventList) /\ DOMAIN StateList = 1 .. Len(StateList)
  /\ \A i \in DOMAIN EventList : EventList[i] \in Events
  /\ \A j \in DOMAIN StateList : StateList[j] \in States
  /\ \A e \in Events : \E i \in DOMAIN EventList : EventList[i] = e
  /\ \A s \in States : \E j \in DOMAIN StateList : StateList[j] = s
  /\ \A j, k \in DOMAIN StateList : StateList[j] = StateList[k] => j = k
  /\ 1 \in DOMAIN StateList
<1>1. EventList \in Seq(Events) /\ StateList \in Seq(States)
  BY ArrayAssumption
<1>2. \A j, k \in DOMAIN StateList : StateList[j] = StateList[k] => j = k
  BY ArrayAssumption DEF IsInjective
<1>. QED BY <1>1, <1>2, StatesCounted DEF Events, States, ToSet

(* The arrows of a state are the transitions of its cells. *)
LEMMA Arrows ==
  ASSUME NEW j \in DOMAIN StateList
  PROVE  /\ \A a \in ArrowsOf(j) :
              /\ a[1] \in Events /\ array[a[1]][StateList[j]] # 0
              /\ a[2] \in decls[array[a[1]][StateList[j]]].to
         /\ \A e \in Events : array[e][StateList[j]] # 0 =>
              \A t \in decls[array[e][StateList[j]]].to : <<e, t>> \in ArrowsOf(j)
<1>1. \A a : a \in ArrowsOf(j) <=>
        \E i \in DOMAIN EventList : /\ array[EventList[i]][StateList[j]] # 0
                                    /\ \E t \in decls[array[EventList[i]][StateList[j]]].to : a = <<EventList[i], t>>
  BY DEF ArrowsOf
<1>2. ASSUME NEW a \in ArrowsOf(j)
      PROVE  /\ a[1] \in Events /\ array[a[1]][StateList[j]] # 0
             /\ a[2] \in decls[array[a[1]][StateList[j]]].to
  <2>1. PICK i \in DOMAIN EventList : /\ array[EventList[i]][StateList[j]] # 0
          /\ \E t \in decls[array[EventList[i]][StateList[j]]].to : a = <<EventList[i], t>>
    BY <1>1
  <2>2. a[1] = EventList[i] /\ a[2] \in decls[array[EventList[i]][StateList[j]]].to
    BY <2>1
  <2>. QED BY <2>1, <2>2, Positions
<1>3. ASSUME NEW e \in Events, array[e][StateList[j]] # 0, NEW t \in decls[array[e][StateList[j]]].to
      PROVE  <<e, t>> \in ArrowsOf(j)
  <2>1. PICK i \in DOMAIN EventList : EventList[i] = e
    BY Positions
  <2>. QED BY <1>1, <1>3, <2>1
<1>. QED BY <1>2, <1>3

(* ... and loops those of its cells that have none. *)
LEMMA Loops ==
  ASSUME NEW j \in DOMAIN StateList, NEW e
  PROVE  e \in LoopBacks(j) <=>
           e \in Events /\ array[e][StateList[j]] # 0 /\ decls[array[e][StateList[j]]].to = {}
<1>1. e \in LoopBacks(j) <=>
        \E i \in DOMAIN EventList : /\ e = EventList[i] /\ array[EventList[i]][StateList[j]] # 0
                                    /\ decls[array[EventList[i]][StateList[j]]].to = {}
  BY DEF LoopBacks
<1>2. e \in Events <=> \E i \in DOMAIN EventList : e = EventList[i]
  BY Positions
<1>. QED BY <1>1, <1>2

LEMMA Diagram == IInv => DiagramAgrees
<1>. SUFFICES ASSUME IInv, NEW j \in DOMAIN StateList
     PROVE LET s == StateList[j] IN
           /\ StateRow(j).to = {a[2] : a \in ArrowsOf(j)} \ {s}
           /\ StateRow(j).from =
                {StateList[k] : k \in {n \in DOMAIN StateList \ {j} :
                                         \E a \in ArrowsOf(n) : a[2] = s}}
           /\ StateRow(j).events = {a[1] : a \in ArrowsOf(j)} \union LoopBacks(j)
  BY DEF DiagramAgrees
<1>. USE DEF IInv
<1>. DEFINE s == StateList[j]
<1>0. s \in States
  BY Positions
<1>1. /\ StateRow(j).to = outbound[s] /\ StateRow(j).from = inbound[s]
      /\ StateRow(j).events = handled[s]
  BY DEF StateRow
<1>2. \A k \in DOMAIN StateList : \A t :
        (\E a \in ArrowsOf(k) : a[2] = t) <=> Leads(StateList[k], t)
  <2>1. ASSUME NEW k \in DOMAIN StateList, NEW a \in ArrowsOf(k)
        PROVE  Leads(StateList[k], a[2])
    BY <2>1, Arrows DEF Leads
  <2>2. ASSUME NEW k \in DOMAIN StateList, NEW t, Leads(StateList[k], t)
        PROVE  \E a \in ArrowsOf(k) : a[2] = t
    <3>1. PICK e \in Events : array[e][StateList[k]] # 0 /\ t \in decls[array[e][StateList[k]]].to
      BY <2>2 DEF Leads
    <3>2. <<e, t>> \in ArrowsOf(k) /\ <<e, t>>[2] = t
      BY <3>1, Arrows
    <3>. QED BY <3>2
  <2>. QED BY <2>1, <2>2
<1>3. outbound[s] = {a[2] : a \in ArrowsOf(j)} \ {s}
  <2>1. \A t : t \in outbound[s] <=> t # s /\ Leads(s, t)
    BY <1>0 DEF ListsConnected
  <2>. QED BY <1>2, <2>1
<1>4. inbound[s] = {StateList[k] : k \in {n \in DOMAIN StateList \ {j} :
                                            \E a \in ArrowsOf(n) : a[2] = s}}
  <2>1. \A t : t \in inbound[s] <=> t \in States /\ s # t /\ Leads(t, s)
    BY <1>0 DEF ListsConnected, TypeOK
  <2>2. \A t : t \in States /\ s # t <=> \E k \in DOMAIN StateList \ {j} : t = StateList[k]
    BY Positions
  <2>. QED BY <1>2, <2>1, <2>2
<1>5. handled[s] = {a[1] : a \in ArrowsOf(j)} \union LoopBacks(j)
  <2>1. \A e : e \in handled[s] <=> e \in Events /\ array[e][s] # 0
    BY <1>0 DEF ListsAgree, TypeOK
  <2>2. \A e : (\E a \in ArrowsOf(j) : e = a[1]) <=>
               e \in Events /\ array[e][s] # 0 /\ decls[array[e][s]].to # {}
    <3>1. ASSUME NEW a \in ArrowsOf(j)
          PROVE  a[1] \in Events /\ array[a[1]][s] # 0 /\ decls[array[a[1]][s]].to # {}
      BY Arrows
    <3>2. ASSUME NEW e \in Events, array[e][s] # 0, NEW t \in decls[array[e][s]].to
          PROVE  \E a \in ArrowsOf(j) : e = a[1]
      <4>1. <<e, t>> \in ArrowsOf(j) /\ <<e, t>>[1] = e
        BY <3>2, Arrows
      <4>. QED BY <4>1
    <3>. QED BY <3>1, <3>2
  <2>3. \A e : e \in LoopBacks(j) <=> e \in Events /\ array[e][s] # 0 /\ decls[array[e][s]].to = {}
    BY Loops
  <2>4. \A e : e \in handled[s] <=> (\E a \in ArrowsOf(j) : e = a[1]) \/ e \in LoopBacks(j)
    BY <2>1, <2>2, <2>3
  <2>. QED BY <2>4
<1>. QED BY <1>1, <1>3, <1>4, <1>5
(* A cell of the chart has the words of its declaration. *)
LEMMA Cells ==
  ASSUME TypeOK, NEW i \in DOMAIN EventList, NEW j \in DOMAIN StateList
  PROVE  LET d == array[EventList[i]][StateList[j]] IN
         /\ d = 0 \/ d \in Decls
         /\ ChartCell(i, j).action # "not defined" <=> d # 0
         /\ d # 0 => /\ ChartCell(i, j) = [action |-> decls[d].action, to |-> decls[d].to]
                     /\ ChartCell(i, j).action = decls[d].action
                     /\ decls[d].action \in Actions \union {NoAction}
                     /\ decls[d].action # NoAction \/ decls[d].to # {}
<1>. DEFINE d == array[EventList[i]][StateList[j]]
<1>1. d \in Decls \union {0}
  BY Positions DEF TypeOK
<1>2. 0 \notin Decls /\ decls \in Inputs
  BY DeclFacts DEF TypeOK
<1>3. ASSUME d \in Decls
      PROVE  /\ decls[d].action \in Actions \union {NoAction}
             /\ decls[d].action # NoAction \/ decls[d].to # {}
             /\ decls[d].action # "not defined"
  <2>1. decls[d] \in ToSet(decls)
    BY <1>3 DEF Decls, ToSet
  <2>. QED BY <1>2, <1>3, <2>1, DeclFacts, DocumentAssumption
<1>. QED BY <1>1, <1>2, <1>3 DEF ChartCell

LEMMA ChartRows ==
  ASSUME IInv, NEW i \in DOMAIN EventList, NEW j \in DOMAIN StateList
  PROVE  LET shown == ChartCell(i, j).action # "not defined" IN
         /\ shown <=> RstCell(i, j) # [action |-> NoAction, to |-> {}]
         /\ EventList[i] \in StateRow(j).events <=> shown
         /\ StateList[j] \in EventRow(i).states <=> shown
         /\ EventLine(i).single => shown /\ ChartCell(i, j) = ChartCell(i, 1)
         /\ shown /\ ChartCell(i, j).action # NoAction =>
              ChartCell(i, j).action \in StateRow(j).actions \intersect EventRow(i).actions
<1>. USE DEF IInv
<1>. DEFINE e == EventList[i]  s == StateList[j]  d == array[e][s]
            shown == ChartCell(i, j).action # "not defined"
<1>0. e \in Events /\ s \in States /\ 1 \in DOMAIN StateList
  BY Positions
<1>c. /\ d = 0 \/ d \in Decls
      /\ shown <=> d # 0
      /\ d # 0 => /\ ChartCell(i, j).action = decls[d].action
                  /\ decls[d].action # NoAction \/ decls[d].to # {}
  BY Cells
<1>1. shown <=> RstCell(i, j) # [action |-> NoAction, to |-> {}]
  <2>1. RstCell(i, j) = IF d = 0 THEN [action |-> NoAction, to |-> {}]
                        ELSE [action |-> decls[d].action, to |-> decls[d].to]
    BY DEF RstCell
  <2>2. CASE d = 0
    <3>1. RstCell(i, j) = [action |-> NoAction, to |-> {}] /\ ~shown
      BY <1>c, <2>1, <2>2
    <3>. QED BY <3>1
  <2>3. CASE d # 0
    <3>1. RstCell(i, j).action = decls[d].action /\ RstCell(i, j).to = decls[d].to
      BY <2>1, <2>3
    <3>2. RstCell(i, j).action # NoAction \/ RstCell(i, j).to # {}
      BY <1>c, <2>3, <3>1
    <3>3. RstCell(i, j) # [action |-> NoAction, to |-> {}]
      <4>1. ASSUME RstCell(i, j) = [action |-> NoAction, to |-> {}]
            PROVE  RstCell(i, j).action = NoAction /\ RstCell(i, j).to = {}
        BY <4>1
      <4>. QED BY <3>2, <4>1
    <3>. QED BY <1>c, <2>3, <3>3
  <2>. QED BY <2>2, <2>3
<1>2. e \in handled[s] <=> shown
  BY <1>0, <1>c DEF ListsAgree
<1>3. s \in handling[e] <=> shown
  BY <1>0, <1>c DEF ListsAgree
<1>4. ASSUME e \in alike
      PROVE  shown /\ ChartCell(i, j) = ChartCell(i, 1)
  <2>1. PICK b \in Decls : \A t \in States : array[e][t] = b
    BY <1>0, <1>4 DEF Alikes, OneCell
  <2>2. b # 0
    BY DeclFacts DEF TypeOK
  <2>3. d = b /\ array[e][StateList[1]] = b
    BY <1>0, <2>1, Positions
  <2>. QED BY <1>c, <2>2, <2>3 DEF ChartCell
<1>5. ASSUME shown, decls[d].action # NoAction
      PROVE  decls[d].action \in actionsOf[s] \intersect actionsBy[e]
  <2>1. /\ actionsOf[s] = {decls[array[f][s]].action : f \in handled[s]} \ {NoAction}
        /\ actionsBy[e] = {decls[array[e][t]].action : t \in handling[e]} \ {NoAction}
    BY <1>0 DEF ListsAgree
  <2>. QED BY <1>2, <1>3, <1>5, <2>1
<1>6. /\ StateRow(j).events = handled[s] /\ StateRow(j).actions = actionsOf[s]
      /\ EventRow(i).states = handling[e] /\ EventRow(i).actions = actionsBy[e]
      /\ EventLine(i).single <=> e \in alike
  BY DEF StateRow, EventRow, EventLine
<1>7. ASSUME shown, ChartCell(i, j).action # NoAction
      PROVE  ChartCell(i, j).action \in actionsOf[s] \intersect actionsBy[e]
  <2>1. ChartCell(i, j).action = decls[d].action
    BY <1>c, <1>7
  <2>. QED BY <1>5, <1>7, <2>1
<1>. HIDE DEF shown
<1>8. /\ shown <=> RstCell(i, j) # [action |-> NoAction, to |-> {}]
      /\ e \in StateRow(j).events <=> shown
      /\ s \in EventRow(i).states <=> shown
      /\ EventLine(i).single => shown /\ ChartCell(i, j) = ChartCell(i, 1)
      /\ shown /\ ChartCell(i, j).action # NoAction =>
           ChartCell(i, j).action \in StateRow(j).actions \intersect EventRow(i).actions
  BY <1>1, <1>2, <1>3, <1>4, <1>6, <1>7
<1>. QED BY <1>8 DEF shown

LEMMA Identically == IInv /\ Written => IdenticallyHandled
<1>. SUFFICES ASSUME IInv, NEW i \in DOMAIN EventList, RstEventRow(i).identically > 0
     PROVE /\ Cardinality(RstEventRow(i).states) = RstEventRow(i).identically
           /\ \A s, t \in RstEventRow(i).states : array[EventList[i]][s] = array[EventList[i]][t]
  BY DEF IdenticallyHandled
<1>. USE DEF IInv
<1>. DEFINE e == EventList[i]
<1>0. e \in Events
  BY Positions
<1>1. /\ RstEventRow(i).states = handling[e]
      /\ RstEventRow(i).identically = IF e \in alike THEN Len(StateList) ELSE covered[e]
  BY DEF RstEventRow
<1>2. handling[e] = {s \in States : array[e][s] # 0}
  BY <1>0 DEF ListsAgree, TypeOK
<1>3. CASE e \in alike
  <2>1. PICK b \in Decls : \A t \in States : array[e][t] = b
    BY <1>0, <1>3 DEF Alikes, OneCell
  <2>2. handling[e] = States
    BY <1>2, <2>1, DeclFacts DEF TypeOK
  <2>. QED BY <1>1, <1>3, <2>1, <2>2, StatesCounted
<1>4. CASE e \notin alike
  <2>1. covered[e] # 0
    BY <1>1, <1>4
  <2>2. /\ first[e] # 0
        /\ covered[e] = Cardinality({s \in States : array[e][s] = first[e]})
        /\ \A s \in States : array[e][s] \in {0, first[e]}
    BY <1>0, <2>1 DEF Counts
  <2>3. handling[e] = {s \in States : array[e][s] = first[e]}
    BY <1>2, <2>2
  <2>. QED BY <1>1, <1>4, <2>2, <2>3
<1>. QED BY <1>3, <1>4

LEMMA ActionRows == IInv /\ Written => ActionsAgree
<1>. SUFFICES ASSUME IInv, Written, ~error, NEW a \in Actions
     PROVE UNION {Matrix(d) : d \in ActionRow(a)} =
             {<<EventList[c[1]], StateList[c[2]]>> : c \in
                {p \in (DOMAIN EventList) \X (DOMAIN StateList) : ChartCell(p[1], p[2]).action = a}}
  BY DEF ActionsAgree
<1>. DEFINE M == UNION {Matrix(d) : d \in ActionRow(a)}
            C == {p \in (DOMAIN EventList) \X (DOMAIN StateList) : ChartCell(p[1], p[2]).action = a}
<1>0. /\ CellsAsDeclared /\ ~Filling /\ TypeOK /\ a # "not defined" /\ a # NoAction
      /\ 0 \notin Decls
      /\ \A d \in Decls : ToSet(EventsOf(d)) \subseteq Events /\ ToSet(StatesOf(d)) \subseteq States
  <2>1. TypeOK /\ decls \in Inputs
    BY DEF IInv, TypeOK
  <2>2. CellsAsDeclared /\ ~Filling
    BY Declared DEF Written
  <2>3. a # "not defined" /\ a # NoAction
    BY ArrayAssumption, DocumentAssumption
  <2>4. 0 \notin Decls
    BY <2>1, DeclFacts
  <2>5. \A d \in Decls : ToSet(EventsOf(d)) \subseteq Events /\ ToSet(StatesOf(d)) \subseteq States
    BY <2>1, DeclFacts DEF ToSet
  <2>. QED BY <2>1, <2>2, <2>3, <2>4, <2>5
<1>1. ASSUME NEW p \in M
      PROVE  \E c \in C : p = <<EventList[c[1]], StateList[c[2]]>>
  <2>1. PICK d \in Decls : decls[d].action = a /\ p \in Matrix(d)
    BY DEF ActionRow
  <2>2. p \in Events \X States /\ array[p[1]][p[2]] = d
    BY <1>0, <2>1 DEF CellsAsDeclared, Matrix
  <2>3. PICK i \in DOMAIN EventList, j \in DOMAIN StateList : p = <<EventList[i], StateList[j]>>
    BY <2>2, Positions
  <2>4. ChartCell(i, j).action = a
    BY <1>0, <2>1, <2>2, <2>3 DEF ChartCell
  <2>5. <<i, j>> \in C
    BY <2>4
  <2>. QED BY <2>3, <2>5
<1>2. ASSUME NEW c \in C
      PROVE  <<EventList[c[1]], StateList[c[2]]>> \in M
  <2>. DEFINE e == EventList[c[1]]  s == StateList[c[2]]  d == array[e][s]
  <2>1. c[1] \in DOMAIN EventList /\ c[2] \in DOMAIN StateList /\ ChartCell(c[1], c[2]).action = a
    OBVIOUS
  <2>2. /\ d = 0 \/ d \in Decls
        /\ d # 0 => ChartCell(c[1], c[2]).action = decls[d].action
        /\ ChartCell(c[1], c[2]).action # "not defined" <=> d # 0
    BY <1>0, <2>1, Cells
  <2>3. d \in Decls /\ decls[d].action = a
    BY <1>0, <2>1, <2>2
  <2>4. e \in Events /\ s \in States
    BY <2>1, Positions
  <2>5. <<e, s>> \in Matrix(d)
    BY <1>0, <2>3, <2>4 DEF CellsAsDeclared
  <2>. QED BY <2>3, <2>5 DEF ActionRow
<1>. QED BY <1>1, <1>2

(* A state's row in the documents lists the transitions and the events the *)
(* diagram draws.                                                          *)
THEOREM DiagramAlwaysAgrees == Spec => []DiagramAgrees
<1>. QED BY Invariant, Diagram, PTL

(* Chart, rows and lines of all documents tell of the same cells; what is  *)
(* said to be handled identically is; and an action's row lists the cells  *)
(* that have the action.                                                   *)
THEOREM ChartAlwaysAgrees == Spec => []ChartAgrees
<1>1. IInv => ChartAgrees
  BY ChartRows, Identically, ActionRows DEF ChartAgrees
<1>. QED BY Invariant, <1>1, PTL

-----------------------------------------------------------------------------
(***************************************************************************)
(* The counters and averages of the statistics                             *)
(***************************************************************************)
(* Sums over a set, as MapThenSumSet takes them, element by element. *)
Pick(T) == CHOOSE x \in T : TRUE
SumStep(v, g, T) == IF T = {} THEN 0 ELSE v[Pick(T)] + g[T \ {Pick(T)}]
Sums(v, S) == CHOOSE g : g = [T \in SUBSET S |-> SumStep(v, g, T)]

(* The recursion has a solution, found for ever larger subsets.  (It is    *)
(* induction over their sizes, with the least size that would have none.)  *)
LEMMA SumsDefined ==
  ASSUME NEW S, IsFiniteSet(S), NEW v \in [S -> Nat]
  PROVE  Sums(v, S) = [T \in SUBSET S |-> SumStep(v, Sums(v, S), T)]
<1>. DEFINE Right(g, n) == \A T \in SUBSET S : Cardinality(T) <= n => g[T] = SumStep(v, g, T)
            Wrong == {n \in Nat : ~ \E g \in [SUBSET S -> Nat] : Right(g, n)}
            Less == {p \in Nat \X Nat : p[1] < p[2]}
<1>1. \A T \in SUBSET S : /\ IsFiniteSet(T) /\ Cardinality(T) \in Nat
                          /\ Cardinality(T) = 0 <=> T = {}
                          /\ T # {} => /\ Pick(T) \in T /\ T \ {Pick(T)} \in SUBSET S
                                       /\ Cardinality(T \ {Pick(T)}) = Cardinality(T) - 1
  <2>. SUFFICES ASSUME NEW T \in SUBSET S
       PROVE /\ IsFiniteSet(T) /\ Cardinality(T) \in Nat
             /\ Cardinality(T) = 0 <=> T = {}
             /\ T # {} => /\ Pick(T) \in T /\ T \ {Pick(T)} \in SUBSET S
                          /\ Cardinality(T \ {Pick(T)}) = Cardinality(T) - 1
    OBVIOUS
  <2>1. IsFiniteSet(T)
    BY FS_Subset
  <2>2. Cardinality(T) \in Nat /\ (Cardinality(T) = 0 <=> T = {})
    BY <2>1, FS_CardinalityType, FS_EmptySet
  <2>3. T # {} => Pick(T) \in T
    BY DEF Pick
  <2>4. ASSUME T # {} PROVE Cardinality(T \ {Pick(T)}) = Cardinality(T) - 1
    BY <2>1, <2>3, <2>4, FS_RemoveElement
  <2>. QED BY <2>1, <2>2, <2>3, <2>4
<1>2. IsWellFoundedOn(Less, Nat)
  BY NatLessThanWellFounded DEF OpToRel
<1>3. Wrong = {}
  <2>. SUFFICES ASSUME Wrong # {} PROVE FALSE
    OBVIOUS
  <2>1. PICK n \in Wrong : \A m \in Wrong : <<m, n>> \notin Less
    <3>. HIDE DEF Wrong, Less
    <3>1. Wrong \subseteq Nat
      BY DEF Wrong
    <3>. QED BY <1>2, <3>1, WFMin
  <2>2. n \in Nat /\ \A g \in [SUBSET S -> Nat] : ~ Right(g, n)
    BY <2>1
  <2>3. CASE n = 0
    <3>. DEFINE z == [T \in SUBSET S |-> 0]
    <3>1. z \in [SUBSET S -> Nat]
      OBVIOUS
    <3>2. ASSUME NEW T \in SUBSET S, Cardinality(T) <= n PROVE z[T] = SumStep(v, z, T)
      <4>1. T = {}
        <5>1. Cardinality(T) \in Nat /\ (Cardinality(T) = 0 <=> T = {})
          BY <1>1
        <5>2. Cardinality(T) <= 0
          BY <2>3, <3>2
        <5>. QED BY <5>1, <5>2
      <4>2. z[T] = 0
        OBVIOUS
      <4>. QED BY <4>1, <4>2 DEF SumStep
    <3>3. Right(z, n)
      BY <3>2
    <3>. QED BY <2>2, <3>1, <3>3
  <2>4. CASE n # 0
    <3>1. n - 1 \in Nat /\ <<n - 1, n>> \in Less
      BY <2>2, <2>4
    <3>2. n - 1 \notin Wrong
      BY <2>1, <3>1
    <3>3. PICK g \in [SUBSET S -> Nat] : Right(g, n - 1)
      <4>. HIDE DEF Right
      <4>. QED BY <3>1, <3>2
    <3>. DEFINE h == [T \in SUBSET S |-> IF Cardinality(T) <= n - 1 THEN g[T] ELSE SumStep(v, g, T)]
    <3>4. ASSUME NEW T \in SUBSET S PROVE SumStep(v, g, T) \in Nat
      <4>1. CASE T = {}
        BY <4>1 DEF SumStep
      <4>2. CASE T # {}
        <5>1. Pick(T) \in S /\ T \ {Pick(T)} \in SUBSET S
          BY <1>1, <4>2
        <5>2. v[Pick(T)] \in Nat /\ g[T \ {Pick(T)}] \in Nat
          BY <3>3, <5>1
        <5>. QED BY <4>2, <5>2 DEF SumStep
      <4>. QED BY <4>1, <4>2
    <3>5. h \in [SUBSET S -> Nat]
      BY <3>3, <3>4
    <3>6. ASSUME NEW T \in SUBSET S, Cardinality(T) <= n PROVE h[T] = SumStep(v, h, T)
      <4>1. T # {} => h[T \ {Pick(T)}] = g[T \ {Pick(T)}]
        BY <1>1, <2>2, <3>6
      <4>2. SumStep(v, h, T) = SumStep(v, g, T)
        BY <4>1 DEF SumStep
      <4>3. h[T] = SumStep(v, g, T)
        BY <3>1, <3>3
      <4>. QED BY <4>2, <4>3
    <3>7. Right(h, n)
      BY <3>6
    <3>. QED BY <2>2, <3>5, <3>7
  <2>. QED BY <2>3, <2>4
<1>4. Cardinality(S) \in Nat /\ \A T \in SUBSET S : Cardinality(T) <= Cardinality(S)
  BY FS_CardinalityType, FS_Subset
<1>5. PICK g \in [SUBSET S -> Nat] : Right(g, Cardinality(S))
  BY <1>3, <1>4
<1>6. \A T \in SUBSET S : g[T] = SumStep(v, g, T)
  BY <1>4, <1>5
<1>7. g = [T \in SUBSET S |-> SumStep(v, g, T)]
  BY <1>6
<1>. QED BY <1>7, Zenon DEF Sums

(* A sum of percentages is 100 for each of them exactly if all are 100, by *)
(* way of a smallest subset for which it would not be.                     *)
LEMMA SumOfPercents ==
  ASSUME NEW S, IsFiniteSet(S), NEW v \in [S -> 0 .. 100]
  PROVE  /\ Sums(v, S)[S] \in 0 .. 100 * Cardinality(S)
         /\ Sums(v, S)[S] = 100 * Cardinality(S) <=> \A x \in S : v[x] = 100
<1>. DEFINE g == Sums(v, S)
            Good(T) == /\ g[T] \in 0 .. 100 * Cardinality(T)
                       /\ g[T] = 100 * Cardinality(T) <=> \A x \in T : v[x] = 100
            Bad == {T \in SUBSET S : ~Good(T)}
<1>1. v \in [S -> Nat]
  OBVIOUS
<1>2. g = [T \in SUBSET S |-> SumStep(v, g, T)]
  BY <1>1, SumsDefined
<1>3. \A T \in SUBSET S : g[T] = SumStep(v, g, T)
  <2>. HIDE DEF g
  <2>. QED BY <1>2
<1>4. IsWellFoundedOn(StrictSubsetOrdering(S), SUBSET S)
  BY FS_StrictSubsetOrderingWellFounded, FS_FiniteSubsetsOfFinite
<1>. HIDE DEF g
<1>5. Bad = {}
  <2>. SUFFICES ASSUME Bad # {} PROVE FALSE
    OBVIOUS
  <2>1. PICK T \in Bad : \A U \in Bad : <<U, T>> \notin StrictSubsetOrdering(S)
    <3>1. Bad \subseteq SUBSET S
      OBVIOUS
    <3>. HIDE DEF Bad
    <3>. QED BY <1>4, <3>1, WFMin
  <2>2. T \in SUBSET S /\ ~Good(T) /\ IsFiniteSet(T)
    BY <2>1, FS_Subset
  <2>3. CASE T = {}
    <3>1. g[T] = 0 /\ Cardinality(T) = 0
      BY <1>3, <2>2, <2>3, FS_EmptySet DEF SumStep
    <3>. QED BY <2>2, <2>3, <3>1
  <2>4. CASE T # {}
    <3>. DEFINE x == Pick(T)
                U == T \ {x}
    <3>1. x \in T /\ U \in SUBSET S /\ g[T] = v[x] + g[U]
      BY <1>3, <2>2, <2>4 DEF SumStep, Pick
    <3>2. Cardinality(U) = Cardinality(T) - 1 /\ Cardinality(T) \in Nat /\ Cardinality(U) \in Nat
      BY <2>2, <3>1, FS_RemoveElement, FS_CardinalityType
    <3>3. <<U, T>> \in StrictSubsetOrdering(S)
      BY <2>2, <3>1 DEF StrictSubsetOrdering
    <3>4. Good(U)
      BY <2>1, <3>1, <3>3
    <3>5. v[x] \in 0 .. 100
      BY <2>2, <3>1
    <3>6. (\A y \in T : v[y] = 100) <=> v[x] = 100 /\ \A y \in U : v[y] = 100
      BY <3>1
    <3>. HIDE DEF x, U
    <3>7. g[T] \in 0 .. 100 * Cardinality(T)
      BY <3>1, <3>2, <3>4, <3>5
    <3>8. g[T] = 100 * Cardinality(T) <=> v[x] = 100 /\ g[U] = 100 * Cardinality(U)
      BY <3>1, <3>2, <3>4, <3>5
    <3>. QED BY <2>2, <3>4, <3>6, <3>7, <3>8
  <2>. QED BY <2>3, <2>4
<1>6. Good(S)
  BY <1>5
<1>. QED BY <1>6 DEF g

(* What a division says of a sum of percentages. *)
LEMMA Percent ==
  ASSUME NEW n \in Nat \ {0}, NEW m \in 0 .. 100 * n
  PROVE  m \div n \in 0 .. 100 /\ (m \div n = 100 <=> m = 100 * n)
OBVIOUS

(* An average of percentages is 100 exactly if all of them are. *)
LEMMA Average ==
  ASSUME NEW S, IsFiniteSet(S), NEW n \in Nat \ {0}, Cardinality(S) = n, NEW v \in [S -> 0 .. 100]
  PROVE  Sums(v, S)[S] \div n \in Nat /\ (Sums(v, S)[S] \div n = 100 <=> \A x \in S : v[x] = 100)
<1>. DEFINE m == Sums(v, S)[S]
<1>1. m \in 0 .. 100 * n /\ (m = 100 * n <=> \A x \in S : v[x] = 100)
  BY SumOfPercents
<1>. HIDE DEF m
<1>2. m \div n \in 0 .. 100 /\ (m \div n = 100 <=> m = 100 * n)
  <2>. HIDE DEF m
  <2>1. m \in 0 .. 100 * n
    BY <1>1
  <2>. QED BY <2>1, Percent
<1>3. m \div n \in Nat /\ (m \div n = 100 <=> \A x \in S : v[x] = 100)
  BY <1>1, <1>2
<1>. QED BY <1>3 DEF m

(* Part of the members of a list of different members, counted by their    *)
(* positions.                                                              *)
LEMMA CountedByPosition ==
  ASSUME NEW L, IsInjective(L), NEW A \in SUBSET ToSet(L), IsFiniteSet(ToSet(L))
  PROVE  Cardinality({i \in DOMAIN L : L[i] \in A}) = Cardinality(A)
<1>. DEFINE P == {i \in DOMAIN L : L[i] \in A}
            f == [i \in P |-> L[i]]
            Place(a) == CHOOSE i \in DOMAIN L : L[i] = a
            g == [a \in A |-> Place(a)]
<1>1. \A a \in A : Place(a) \in DOMAIN L /\ L[Place(a)] = a
  BY DEF ToSet
<1>2. \A i, j \in DOMAIN L : L[i] = L[j] => i = j
  BY DEF IsInjective
<1>3. \A i \in P : L[i] \in A /\ Place(L[i]) = i
  BY <1>1, <1>2
<1>. HIDE DEF Place
<1>4. g \in Bijection(A, P)
  <2>1. g \in [A -> P]
    BY <1>1
  <2>2. \A a, b \in A : g[a] = g[b] => a = b
    BY <1>1
  <2>3. \A i \in P : L[i] \in A /\ g[L[i]] = i
    BY <1>3
  <2>. QED BY <2>1, <2>2, <2>3 DEF Bijection, Injection, Surjection, IsInjective
<1>5. IsFiniteSet(A)
  BY FS_Subset
<1>. QED BY <1>4, <1>5, FS_Bijection DEF ExistsBijection

(* How much of a set a part of it is, as a percentage. *)
LEMMA PartOf ==
  ASSUME NEW S, IsFiniteSet(S), NEW n \in Nat \ {0}, Cardinality(S) = n
  PROVE  \A T \in SUBSET S : /\ (100 * Cardinality(T)) \div n \in 0 .. 100
                             /\ (100 * Cardinality(T)) \div n = 100 <=> T = S
<1>. SUFFICES ASSUME NEW T \in SUBSET S
     PROVE /\ (100 * Cardinality(T)) \div n \in 0 .. 100
           /\ (100 * Cardinality(T)) \div n = 100 <=> T = S
  OBVIOUS
<1>1. IsFiniteSet(T) /\ Cardinality(T) <= n /\ (Cardinality(T) = n <=> T = S)
  BY FS_Subset
<1>. DEFINE c == Cardinality(T)  m == 100 * c
<1>2. c \in Nat
  BY <1>1, FS_CardinalityType
<1>3. m \in 0 .. 100 * n /\ (m = 100 * n <=> c = n)
  <2>1. c <= n
    BY <1>1
  <2>. HIDE DEF c
  <2>. QED BY <1>2, <2>1
<1>. HIDE DEF m
<1>4. m \div n \in 0 .. 100 /\ (m \div n = 100 <=> m = 100 * n)
  BY <1>3, Percent
<1>5. m \div n \in 0 .. 100 /\ (m \div n = 100 <=> T = S)
  BY <1>1, <1>3, <1>4
<1>. QED BY <1>5 DEF m

(* The densities are percentages, 100 for a state that handles all events  *)
(* and for an event all states handle.                                     *)
LEMMA Densities ==
  ASSUME TypeOK
  PROVE  /\ \A s \in States : EventDensity(s) \in 0 .. 100 /\ (EventDensity(s) = 100 <=> handled[s] = Events)
         /\ \A e \in Events : StateDensity(e) \in 0 .. 100 /\ (StateDensity(e) = 100 <=> handling[e] = States)
<1>1. \A T \in SUBSET Events : /\ (100 * Cardinality(T)) \div Len(EventList) \in 0 .. 100
                               /\ (100 * Cardinality(T)) \div Len(EventList) = 100 <=> T = Events
  BY EventsCounted, PartOf
<1>2. \A T \in SUBSET States : /\ (100 * Cardinality(T)) \div Len(StateList) \in 0 .. 100
                               /\ (100 * Cardinality(T)) \div Len(StateList) = 100 <=> T = States
  BY StatesCounted, PartOf
<1>3. (\A s \in States : handled[s] \in SUBSET Events) /\ (\A e \in Events : handling[e] \in SUBSET States)
  BY DEF TypeOK
<1>4. ASSUME NEW s \in States
      PROVE EventDensity(s) \in 0 .. 100 /\ (EventDensity(s) = 100 <=> handled[s] = Events)
  BY <1>1, <1>3 DEF EventDensity
<1>5. ASSUME NEW e \in Events
      PROVE StateDensity(e) \in 0 .. 100 /\ (StateDensity(e) = 100 <=> handling[e] = States)
  BY <1>2, <1>3 DEF StateDensity
<1>. QED BY <1>4, <1>5

(* The averages, which are sums of densities. *)
LEMMA Averages ==
  ASSUME IInv
  PROVE  \A average \in {Counted.average, Counted.eventAverage} :
           average \in Nat /\ (average = 100 <=> \A s \in States : handled[s] = Events)
<1>. DEFINE u == [s \in States |-> EventDensity(s)]
            v == [e \in Events |-> StateDensity(e)]
<1>1. TypeOK /\ ListsAgree
  BY DEF IInv
<1>2. u \in [States -> 0 .. 100] /\ v \in [Events -> 0 .. 100]
  BY <1>1, Densities
<1>3. MapThenSumSet(EventDensity, States) = Sums(u, States)[States]
  <2>1. \A g, T : T \in SUBSET States =>
          SumStep(u, g, T) = IF T = {} THEN 0 ELSE EventDensity(Pick(T)) + g[T \ {Pick(T)}]
    BY DEF SumStep, Pick
  <2>2. \A g : [T \in SUBSET States |-> SumStep(u, g, T)] =
               [T \in SUBSET States |-> IF T = {} THEN 0 ELSE EventDensity(Pick(T)) + g[T \ {Pick(T)}]]
    BY <2>1, Zenon
  <2>3. Sums(u, States) = CHOOSE g : g =
          [T \in SUBSET States |-> IF T = {} THEN 0 ELSE EventDensity(Pick(T)) + g[T \ {Pick(T)}]]
    BY <2>2 DEF Sums
  <2>. QED BY <2>3 DEF MapThenSumSet, MapThenFoldSet, Pick
<1>4. MapThenSumSet(StateDensity, Events) = Sums(v, Events)[Events]
  <2>1. \A g, T : T \in SUBSET Events =>
          SumStep(v, g, T) = IF T = {} THEN 0 ELSE StateDensity(Pick(T)) + g[T \ {Pick(T)}]
    BY DEF SumStep, Pick
  <2>2. \A g : [T \in SUBSET Events |-> SumStep(v, g, T)] =
               [T \in SUBSET Events |-> IF T = {} THEN 0 ELSE StateDensity(Pick(T)) + g[T \ {Pick(T)}]]
    BY <2>1, Zenon
  <2>3. Sums(v, Events) = CHOOSE g : g =
          [T \in SUBSET Events |-> IF T = {} THEN 0 ELSE StateDensity(Pick(T)) + g[T \ {Pick(T)}]]
    BY <2>2 DEF Sums
  <2>. QED BY <2>3 DEF MapThenSumSet, MapThenFoldSet, Pick
<1>5. Counted.average = Sums(u, States)[States] \div Len(StateList)
  BY <1>3 DEF Counted
<1>6. Counted.eventAverage = Sums(v, Events)[Events] \div Len(EventList)
  BY <1>4 DEF Counted
<1>7. Counted.average \in Nat /\ (Counted.average = 100 <=> \A s \in States : handled[s] = Events)
  <2>. HIDE DEF u
  <2>1. Counted.average \in Nat /\ (Counted.average = 100 <=> \A s \in States : u[s] = 100)
    BY <1>2, <1>5, StatesCounted, Average
  <2>. QED BY <1>1, <2>1, Densities DEF u
<1>8. Counted.eventAverage \in Nat /\ (Counted.eventAverage = 100 <=> \A e \in Events : handling[e] = States)
  <2>. HIDE DEF v
  <2>1. Counted.eventAverage \in Nat /\ (Counted.eventAverage = 100 <=> \A e \in Events : v[e] = 100)
    BY <1>2, <1>6, EventsCounted, Average
  <2>. QED BY <1>1, <2>1, Densities DEF v
<1>9. (\A e \in Events : handling[e] = States) <=> (\A s \in States : handled[s] = Events)
  <2>1. /\ \A s \in States : handled[s] \subseteq Events
        /\ \A e \in Events : handling[e] \subseteq States
        /\ \A e \in Events, s \in States : e \in handled[s] <=> s \in handling[e]
    BY <1>1 DEF TypeOK, ListsAgree
  <2>2. ASSUME \A e \in Events : handling[e] = States, NEW s \in States PROVE handled[s] = Events
    <3>1. \A e \in Events : s \in handling[e]
      BY <2>2
    <3>2. Events \subseteq handled[s]
      BY <2>1, <3>1
    <3>3. handled[s] \subseteq Events
      BY <2>1, <2>2
    <3>. QED BY <3>2, <3>3
  <2>3. ASSUME \A s \in States : handled[s] = Events, NEW e \in Events PROVE handling[e] = States
    <3>1. \A s \in States : e \in handled[s]
      BY <2>3
    <3>2. States \subseteq handling[e]
      BY <2>1, <3>1
    <3>3. handling[e] \subseteq States
      BY <2>1, <2>3
    <3>. QED BY <3>2, <3>3
  <2>. QED BY <2>2, <2>3
<1>. QED BY <1>7, <1>8, <1>9

(* Once made, the counters are those of the lists as they then are. *)
CountersMade == counts = NoCounts \/ (~Filling /\ counts = Counted)

(* The counters depend on the lists alone. *)
LEMMA SameCounts ==
  ASSUME UNCHANGED <<handled, handling, inbound, outbound>>
  PROVE  Counted' = Counted
<1>1. MapThenSumSet(EventDensity, States)' = MapThenSumSet(EventDensity, States)
  BY DEF MapThenSumSet, MapThenFoldSet, EventDensity
<1>2. MapThenSumSet(StateDensity, Events)' = MapThenSumSet(StateDensity, Events)
  BY DEF MapThenSumSet, MapThenFoldSet, StateDensity
<1>3. \A n : StatesHandling(n)' = StatesHandling(n) /\ EventsHandledIn(n)' = EventsHandledIn(n)
  BY DEF StatesHandling, EventsHandledIn
<1>. QED BY <1>1, <1>2, <1>3 DEF Counted

(* Only Count changes them, once the array is filled. *)
LEMMA CountersKept == Spec => []CountersMade
<1>1. Init => CountersMade
  BY DEF Init, CountersMade
<1>2. CountersMade /\ [Next]_vars => CountersMade'
  <2>. SUFFICES ASSUME CountersMade, [Next]_vars PROVE CountersMade'
    OBVIOUS
  <2>1. CASE BeginEvent
    BY <2>1 DEF BeginEvent, CountersMade, NoCounts
  <2>2. CASE AddToActionArray
    BY <2>2 DEF AddToActionArray, InCell, Put, CountersMade, NoCounts
  <2>3. CASE RefuseCell
    BY <2>3 DEF RefuseCell, InCell, CountersMade, NoCounts
  <2>4. CASE EndEvent
    BY <2>4 DEF EndEvent, EventOver, CountersMade, NoCounts
  <2>5. CASE Count
    <3>1. ~Filling /\ counts' = Counted
          /\ UNCHANGED <<decls, at, array, first, covered, alike, lists, error>>
      BY <2>5 DEF Count
    <3>2. ~Filling'
      BY <3>1 DEF Filling, Decls
    <3>3. Counted' = Counted
      BY <3>1, SameCounts DEF lists
    <3>. QED BY <3>1, <3>2, <3>3 DEF CountersMade
  <2>6. CASE UNCHANGED vars
    <3>1. Filling' = Filling /\ counts' = counts
      BY <2>6 DEF vars, Filling, Decls
    <3>2. Counted' = Counted
      BY <2>6, SameCounts DEF vars, lists
    <3>. QED BY <3>1, <3>2 DEF CountersMade, NoCounts
  <2>. QED BY <2>1, <2>2, <2>3, <2>4, <2>5, <2>6 DEF Next, Done
<1>. QED BY <1>1, <1>2, PTL DEF Spec

(* The rows and lines with a mark, counted by the positions of the states  *)
(* and of the events in their lists.                                       *)
LEMMA Marks ==
  ASSUME TypeOK
  PROVE  /\ Cardinality({j \in DOMAIN StateList : handled[StateList[j]] = {}}) = StatesHandling(0)
         /\ Cardinality({j \in DOMAIN StateList : Cardinality(handled[StateList[j]]) = 1}) = StatesHandling(1)
         /\ Cardinality({j \in DOMAIN StateList : inbound[StateList[j]] = {} /\ j # 1}) = Counted.noWayIn
         /\ Counted.noWayIn \in
              {Cardinality({j \in DOMAIN StateList : inbound[StateList[j]] = {}}) - n : n \in {0, 1}}
         /\ Cardinality({j \in DOMAIN StateList : outbound[StateList[j]] = {}}) = Counted.noWayOut
         /\ Cardinality({i \in DOMAIN EventList : handling[EventList[i]] = {}}) = EventsHandledIn(0)
         /\ Cardinality({i \in DOMAIN EventList : Cardinality(handling[EventList[i]]) = 1}) = EventsHandledIn(1)
<1>. DEFINE SomeStates(A) == {j \in DOMAIN StateList : StateList[j] \in A}
            SomeEvents(A) == {i \in DOMAIN EventList : EventList[i] \in A}
<1>1. \A A \in SUBSET States : Cardinality(SomeStates(A)) = Cardinality(A)
  BY CountedByPosition, StatesCounted, ArrayAssumption DEF States
<1>2. \A A \in SUBSET Events : Cardinality(SomeEvents(A)) = Cardinality(A)
  BY CountedByPosition, EventsCounted, ArrayAssumption DEF Events
<1>3. /\ \A s \in States : Cardinality(handled[s]) = 0 <=> handled[s] = {}
      /\ \A e \in Events : Cardinality(handling[e]) = 0 <=> handling[e] = {}
  <2>1. ASSUME NEW s \in States PROVE Cardinality(handled[s]) = 0 <=> handled[s] = {}
    <3>1. IsFiniteSet(handled[s])
      BY EventsCounted, FS_Subset DEF TypeOK
    <3>. QED BY <3>1, FS_EmptySet
  <2>2. ASSUME NEW e \in Events PROVE Cardinality(handling[e]) = 0 <=> handling[e] = {}
    <3>1. IsFiniteSet(handling[e])
      BY StatesCounted, FS_Subset DEF TypeOK
    <3>. QED BY <3>1, FS_EmptySet
  <2>. QED BY <2>1, <2>2
<1>4. Cardinality({j \in DOMAIN StateList : handled[StateList[j]] = {}}) = StatesHandling(0)
  <2>. DEFINE A == {s \in States : Cardinality(handled[s]) = 0}
  <2>1. {j \in DOMAIN StateList : handled[StateList[j]] = {}} = SomeStates(A)
    BY <1>3, Positions
  <2>. QED BY <1>1, <2>1 DEF StatesHandling
<1>5. Cardinality({j \in DOMAIN StateList : Cardinality(handled[StateList[j]]) = 1}) = StatesHandling(1)
  <2>. DEFINE A == {s \in States : Cardinality(handled[s]) = 1}
  <2>1. {j \in DOMAIN StateList : Cardinality(handled[StateList[j]]) = 1} = SomeStates(A)
    BY Positions
  <2>. QED BY <1>1, <2>1 DEF StatesHandling
<1>6. Cardinality({j \in DOMAIN StateList : inbound[StateList[j]] = {} /\ j # 1}) = Counted.noWayIn
  <2>. DEFINE A == {s \in States \ {StateList[1]} : inbound[s] = {}}
  <2>1. {j \in DOMAIN StateList : inbound[StateList[j]] = {} /\ j # 1} = SomeStates(A)
    BY Positions
  <2>. QED BY <1>1, <2>1 DEF Counted
<1>7. Counted.noWayIn \in
        {Cardinality({j \in DOMAIN StateList : inbound[StateList[j]] = {}}) - n : n \in {0, 1}}
  <2>. DEFINE A == {s \in States : inbound[s] = {}}
              B == {s \in States \ {StateList[1]} : inbound[s] = {}}
  <2>1. {j \in DOMAIN StateList : inbound[StateList[j]] = {}} = SomeStates(A)
    BY Positions
  <2>2. Cardinality({j \in DOMAIN StateList : inbound[StateList[j]] = {}}) = Cardinality(A)
    BY <1>1, <2>1
  <2>3. B = A \ {StateList[1]}
    OBVIOUS
  <2>4. IsFiniteSet(A) /\ Cardinality(A) \in Nat
    BY StatesCounted, FS_Subset, FS_CardinalityType
  <2>5. Cardinality(B) = IF StateList[1] \in A THEN Cardinality(A) - 1 ELSE Cardinality(A)
    BY <2>3, <2>4, FS_RemoveElement
  <2>6. Counted.noWayIn = Cardinality(B)
    BY DEF Counted
  <2>. HIDE DEF A, B
  <2>7. Cardinality(B) = Cardinality(A) - 0 \/ Cardinality(B) = Cardinality(A) - 1
    BY <2>4, <2>5
  <2>. QED BY <2>2, <2>6, <2>7
<1>8. Cardinality({j \in DOMAIN StateList : outbound[StateList[j]] = {}}) = Counted.noWayOut
  <2>. DEFINE A == {s \in States : outbound[s] = {}}
  <2>1. {j \in DOMAIN StateList : outbound[StateList[j]] = {}} = SomeStates(A)
    BY Positions
  <2>. QED BY <1>1, <2>1 DEF Counted
<1>9. Cardinality({i \in DOMAIN EventList : handling[EventList[i]] = {}}) = EventsHandledIn(0)
  <2>. DEFINE A == {e \in Events : Cardinality(handling[e]) = 0}
  <2>1. {i \in DOMAIN EventList : handling[EventList[i]] = {}} = SomeEvents(A)
    BY <1>3, Positions
  <2>. QED BY <1>2, <2>1 DEF EventsHandledIn
<1>10. Cardinality({i \in DOMAIN EventList : Cardinality(handling[EventList[i]]) = 1}) = EventsHandledIn(1)
  <2>. DEFINE A == {e \in Events : Cardinality(handling[e]) = 1}
  <2>1. {i \in DOMAIN EventList : Cardinality(handling[EventList[i]]) = 1} = SomeEvents(A)
    BY Positions
  <2>. QED BY <1>2, <2>1 DEF EventsHandledIn
<1>. QED BY <1>4, <1>5, <1>6, <1>7, <1>8, <1>9, <1>10

(* The counters are numbers. *)
LEMMA CountersAreNumbers == ASSUME IInv PROVE Counted \in [DOMAIN NoCounts -> Nat]
<1>1. \A A \in SUBSET States : Cardinality(A) \in Nat
  BY StatesCounted, FS_Subset, FS_CardinalityType
<1>2. \A A \in SUBSET Events : Cardinality(A) \in Nat
  BY EventsCounted, FS_Subset, FS_CardinalityType
<1>3. \A n : StatesHandling(n) \in Nat /\ EventsHandledIn(n) \in Nat
  BY <1>1, <1>2 DEF StatesHandling, EventsHandledIn
<1>4. Counted.noWayIn \in Nat /\ Counted.noWayOut \in Nat
  BY <1>1 DEF Counted
<1>5. Counted.average \in Nat /\ Counted.eventAverage \in Nat
  BY Averages
<1>6. Counted = [zeroEvents |-> StatesHandling(0), oneEvent |-> StatesHandling(1),
                 noWayIn |-> Counted.noWayIn, noWayOut |-> Counted.noWayOut,
                 zeroHandlers |-> EventsHandledIn(0), oneHandler |-> EventsHandledIn(1),
                 average |-> Counted.average, eventAverage |-> Counted.eventAverage]
  BY DEF Counted
<1>. QED BY <1>3, <1>4, <1>5, <1>6 DEF NoCounts

(* So the counters are what the statistics should say. *)
LEMMA Counters == IInv /\ CountersMade => CountersAgree
<1>. SUFFICES ASSUME IInv, CountersMade, Written PROVE CountersAgree
  BY DEF CountersAgree
<1>1. TypeOK /\ counts = Counted
  BY DEF IInv, CountersMade, Written
<1>2. counts \in [DOMAIN NoCounts -> Nat]
  BY <1>1, CountersAreNumbers
<1>3. /\ counts.zeroEvents = StatesHandling(0) /\ counts.oneEvent = StatesHandling(1)
      /\ counts.zeroHandlers = EventsHandledIn(0) /\ counts.oneHandler = EventsHandledIn(1)
      /\ counts.noWayIn = Counted.noWayIn /\ counts.noWayOut = Counted.noWayOut
  BY <1>1 DEF Counted
<1>4. \A average \in {counts.average, counts.eventAverage} :
        average = 100 <=> \A j \in DOMAIN StateList : StateRow(j).events = Events
  <2>1. (\A s \in States : handled[s] = Events) <=>
          \A j \in DOMAIN StateList : handled[StateList[j]] = Events
    BY Positions
  <2>. QED BY <1>1, <2>1, Averages DEF StateRow
<1>5. alike # {} <=> \E i \in DOMAIN EventList : EventLine(i).single
  <2>1. alike \subseteq Events
    BY <1>1 DEF TypeOK
  <2>2. \A i : EventLine(i).single = (EventList[i] \in alike)
    BY DEF EventLine
  <2>3. ASSUME NEW e \in alike PROVE \E i \in DOMAIN EventList : EventList[i] \in alike
    BY <2>1, <2>3, Positions
  <2>4. alike # {} <=> \E i \in DOMAIN EventList : EventList[i] \in alike
    BY <2>3
  <2>. QED BY <2>2, <2>4
<1>6. ASSUME NEW T \in {HtmlStatistics, RstStatistics, Statistics}
      PROVE  /\ T.lazy = Cardinality({j \in DOMAIN StateList : StateRow(j).lazy})
             /\ T.oneEvent = Cardinality({j \in DOMAIN StateList : StateLine(j).handled = 1})
             /\ T.noWayIn = Cardinality({j \in DOMAIN StateList : StateRow(j).noEntry})
             /\ T.noWayIn \in {Cardinality({j \in DOMAIN StateList : RstStateRow(j).noEntry}) - n : n \in {0, 1}}
             /\ T.noWayOut = Cardinality({j \in DOMAIN StateList : RstStateRow(j).deadEnd})
             /\ T.unhandled = Cardinality({i \in DOMAIN EventList : RstEventRow(i).unhandled})
             /\ T.inOneState = Cardinality({i \in DOMAIN EventList : EventLine(i).states = 1})
             /\ T.single <=> \E i \in DOMAIN EventList : EventLine(i).single
             /\ T.exit = Cardinality(ExitFns)
  <2>1. /\ T.lazy = counts.zeroEvents /\ T.oneEvent = counts.oneEvent
        /\ T.noWayIn = counts.noWayIn /\ T.noWayOut = counts.noWayOut
        /\ T.unhandled = counts.zeroHandlers /\ T.inOneState = counts.oneHandler
        /\ T.single = (alike # {}) /\ T.exit = Cardinality(ExitFns)
    BY DEF HtmlStatistics, RstStatistics, Statistics
  <2>2. \A j : /\ StateRow(j).lazy = (handled[StateList[j]] = {})
               /\ StateLine(j).handled = Cardinality(handled[StateList[j]])
               /\ StateRow(j).noEntry = (inbound[StateList[j]] = {} /\ j # 1)
               /\ RstStateRow(j).noEntry = (inbound[StateList[j]] = {})
               /\ RstStateRow(j).deadEnd = (outbound[StateList[j]] = {})
    BY DEF StateRow, StateLine, RstStateRow
  <2>3. \A i : /\ RstEventRow(i).unhandled = (handling[EventList[i]] = {})
               /\ EventLine(i).states = Cardinality(handling[EventList[i]])
    BY DEF RstEventRow, EventLine
  <2>4. /\ {j \in DOMAIN StateList : StateRow(j).lazy} = {j \in DOMAIN StateList : handled[StateList[j]] = {}}
        /\ {j \in DOMAIN StateList : StateLine(j).handled = 1} =
             {j \in DOMAIN StateList : Cardinality(handled[StateList[j]]) = 1}
        /\ {j \in DOMAIN StateList : StateRow(j).noEntry} =
             {j \in DOMAIN StateList : inbound[StateList[j]] = {} /\ j # 1}
        /\ {j \in DOMAIN StateList : RstStateRow(j).noEntry} =
             {j \in DOMAIN StateList : inbound[StateList[j]] = {}}
        /\ {j \in DOMAIN StateList : RstStateRow(j).deadEnd} =
             {j \in DOMAIN StateList : outbound[StateList[j]] = {}}
    BY <2>2
  <2>5. /\ {i \in DOMAIN EventList : RstEventRow(i).unhandled} =
             {i \in DOMAIN EventList : handling[EventList[i]] = {}}
        /\ {i \in DOMAIN EventList : EventLine(i).states = 1} =
             {i \in DOMAIN EventList : Cardinality(handling[EventList[i]]) = 1}
    BY <2>3
  <2>. QED BY <1>1, <1>3, <1>5, <2>1, <2>4, <2>5, Marks
<1>. QED BY <1>2, <1>4, <1>6 DEF CountersAgree

(* The statistics of every document count the rows it marks, and the       *)
(* averages are 100 exactly if every state handles every event.            *)
THEOREM AlwaysCountersAgree == Spec => []CountersAgree
<1>. QED BY Invariant, CountersKept, Counters, PTL
=============================================================================
