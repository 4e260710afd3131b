---------------------------- MODULE ParserProofs ----------------------------
(***************************************************************************)
(* That the records the parser leaves behind are right, for every          *)
(* description: any names, any number of machines on any number of levels, *)
(* statements in any order, right or wrong.                                *)
(*                                                                         *)
(* What is promised of a machine holds because of where the statements     *)
(* about it stand: its events are declared before its sub-machines share   *)
(* them, and those are complete before anything is returned or done.  The  *)
(* inductive invariant IParser says where the parser is (Nested: which     *)
(* machines are open; Focused: which list of identifiers is searched) and  *)
(* what is recorded by then (Recorded, Sharing, Returning, RefsThere).     *)
(* What an error excuses is claimed only while there was none (Sound).     *)
(* IDeep says what the depth of sub-machines counts, which is not the      *)
(* height it is used for.                                                  *)
(***************************************************************************)
EXTENDS ParserContext, FiniteSetTheorems, SequenceTheorems, WellFoundedInduction, TLAPS

-----------------------------------------------------------------------------
(* Numbers. *)
LEMMA Least ==
  ASSUME NEW S \in SUBSET Nat, S # {}
  PROVE  \E n \in S : \A k \in S : n <= k
<1> DEFINE R == OpToRel(<, Nat)
<1>1. R = {p \in Nat \X Nat : p[1] < p[2]}
  BY Zenon DEF OpToRel
<1>2. IsWellFoundedOn(R, Nat)
  BY NatLessThanWellFounded, Zenon
<1> HIDE DEF R
<1>3. PICK n \in S : \A k \in S : ~ (<<k, n>> \in R)
  BY <1>2, WFMin, Zenon
<1>4. \A k \in S : <<k, n>> \in Nat \X Nat
  OBVIOUS
<1>5. \A k \in S : ~(k < n)
  BY <1>1, <1>3, <1>4
<1> QED BY <1>5

(* Induction, for a set of numbers. *)
LEMMA Induct ==
  ASSUME NEW S, NEW N \in Nat, 0 \in S,
         \A n \in 1..N : n - 1 \in S => n \in S
  PROVE  \A n \in 0..N : n \in S
<1> SUFFICES ASSUME {n \in 0..N : n \notin S} # {} PROVE FALSE
  OBVIOUS
<1>1. PICK n \in {n \in 0..N : n \notin S} : \A k \in {n1 \in 0..N : n1 \notin S} : n <= k
  <2> DEFINE T == {n \in 0..N : n \notin S}
  <2>1. T \in SUBSET Nat
    OBVIOUS
  <2> HIDE DEF T
  <2>2. \E n \in T : \A k \in T : n <= k
    BY <2>1, Least DEF T
  <2> QED BY <2>2 DEF T
<1>2. n # 0 /\ n \in 1..N /\ n - 1 \in 0..N /\ ~(n <= n - 1)
  BY <1>1
<1> QED BY <1>1, <1>2

-----------------------------------------------------------------------------
(* The types of what is recorded, without the bounds of ParserTypeOK: a    *)
(* machine may have a number no machine has yet.                           *)
Infos ==
  [action : Names \union {None}, events : Seq(Names), states : Seq(Names), to : Names \union {None}]
Refs == Nat \X Names
Records ==
  [parent : Nat, name : Names, data : BOOLEAN, stage : Stages, ids : [Names -> Id],
   events : Seq(Names), states : Seq(Names), shared : SUBSET Names, blocks : SUBSET Names,
   sharers : [Names -> Seq(Nat)], subs : Seq(Nat), depth : Nat, inhibits : SUBSET Names,
   infos : Seq(Infos), actions : Seq(Names \union {None}), fns : Seq(Names),
   targets : Seq(Names), returns : [Names -> Seq(Refs)]]

Pendings == [of : Names \union {None}, refs : Seq(Refs), type : Types]

Typed ==
  /\ text \in Inputs /\ at \in 1 .. Len(text) + 1
  /\ machines \in Seq(Records)
  /\ current \in 0 .. Len(machines)
  /\ scope \in (IF machines = << >> THEN {0} ELSE DOMAIN machines)
  /\ pending \in Pendings
  /\ pending.of = None => pending.refs = << >>

(* The machines being described are those around the current one. *)
Open(m) == machines[m].stage # "ended"

Nested ==
  /\ \A m \in Machines : machines[m].parent \in 0 .. m - 1
  /\ current # 0 => Open(current)
  /\ \A m \in Machines : Open(m) =>
       /\ m <= current
       /\ machines[m].parent # 0 => Open(machines[m].parent)
       /\ m # current => machines[m].stage = "subs"
       /\ \A c \in Machines : machines[c].parent = machines[m].parent => c <= m
       /\ \A k \in Machines : Open(k) /\ m < k => m <= machines[k].parent
  /\ \A m \in Machines :
       ToSet(machines[m].subs) = {c \in Machines : machines[c].parent = m /\ ~Open(c)}

(* The list that is searched is the current machine's, but for one name. *)
Focused ==
  /\ pending.of # None => current # 0 /\ Cur.stage = "does"
  /\ Reading =>
       /\ current # 0 /\ ~Namespaced => scope = current
       /\ Namespaced =>
            /\ current # 0
            /\ text[at - 1].kind = "parent" => Cur.parent # 0 /\ scope = Cur.parent
            /\ text[at - 1].kind = "sub" =>
                 machines[scope].parent = current /\ (Sound => Cur.parent = 0)
            /\ pending.of = None => text[at - 1].kind = "parent" /\ Cur.stage = "decls"

(* Nothing is done before the sub-machines are known. *)
Staged(m) ==
  LET M == machines[m] IN
  /\ M.stage \in {"decls", "subs"} =>
       M.infos = << >> /\ M.actions = << >> /\ M.fns = << >> /\ M.targets = << >>
  /\ M.stage = "decls" => \A x \in Names : M.ids[x].type # "MACHINE"

(* What a name is known as, and whose it is: a machine's own, or that of    *)
(* the sub-machine of that name.                                           *)
OwnName(m, o, x) ==
  o = m /\ x \in {noEvent, noTransition} \union ToSet(machines[m].events) \union ToSet(machines[m].states)
SubName(m, o, x) ==
  o \in ToSet(machines[m].subs) /\ machines[o].name = x

KnownAs(m, x, id) ==
  /\ id.type = "MACHINE" => SubName(m, id.owner, x)
  /\ id.type \in {"EVENT", "STATE"} => OwnName(m, id.owner, x) \/ SubName(m, id.owner, x)
  /\ id.type = "EVENT" => x = noEvent \/ x \in ToSet(machines[m].events)
  /\ x \in ToSet(machines[m].events) => id.type # "none"
Known(m) == \A x \in Names : KnownAs(m, x, machines[m].ids[x])

Holds(m, x, type) == machines[m].ids[x] = [type |-> type, owner |-> m] \/ NamesSub(m, x)

(* A parent's event of a name that was known stays what it was, and the    *)
(* machine's own.                                                          *)
KeptAs(m, x) ==
  /\ x \in machines[m].shared /\ machines[m].ids[x].owner = m
  /\ machines[m].ids[x].type \in {"ID", "STATE", "ACTION", "TRANSITION_FN"}
EventHeld(m, x) == Holds(m, x, "EVENT") \/ KeptAs(m, x)

(* What is in a machine's lists is known as what it was declared as. *)
Listed(m) ==
  /\ \A x \in ToSet(machines[m].events) : EventHeld(m, x)
  /\ \A x \in ToSet(machines[m].states) : Holds(m, x, "STATE")
  /\ \A x \in ToSet(machines[m].actions) : x # None => Holds(m, x, "ACTION")

(* The lists of actions, transition functions and targets hold what the    *)
(* cells of the matrix ask for, once each.                                 *)
Tabled(m) ==
  LET M  == machines[m]
      to == {M.infos[i].to : i \in DOMAIN M.infos} \ {None}
  IN  /\ IsInjective(M.actions) /\ IsInjective(M.fns) /\ IsInjective(M.targets)
      /\ ToSet(M.actions) = {M.infos[i].action : i \in DOMAIN M.infos}
      /\ ToSet(M.fns) \union ToSet(M.targets) = to
      /\ \A x \in ToSet(M.fns) : M.ids[x].type = "TRANSITION_FN"
      /\ \A x \in ToSet(M.targets) : M.ids[x].type = "STATE"

(* The sub-machines that share an event of m, in the order they were begun: *)
(* once, or more often if they list it more often.                          *)
Ordered(m, x) ==
  LET q == machines[m].sharers[x] IN
  \A i, j \in DOMAIN q : i < j =>
    q[i] < q[j] \/ (q[i] = q[j] /\ Repeated(machines[q[i]].events, x))

Sharing(m) ==
  \A x \in Names :
    LET q == machines[m].sharers[x] IN
    /\ \A i \in DOMAIN q : q[i] \in Machines /\ machines[q[i]].parent = m
    /\ Sound =>
         /\ ToSet(q) = {c \in Machines : machines[c].parent = m /\ x \in machines[c].shared}
         /\ Ordered(m, x)
         /\ q # << >> => x = noEvent \/ x \in ToSet(machines[m].events)
SharedOwn(m) == machines[m].shared \subseteq ToSet(machines[m].events)

(* What is returned in m is in its reach. *)
GoodRef(m, r) ==
  \E s \in Reach(m) : OwnName(s, r[1], r[2]) \/ SubName(s, r[1], r[2])

Returning ==
  Sound =>
    /\ \A m \in Machines : \A a \in Names :
         \A i \in DOMAIN machines[m].returns[a] : GoodRef(m, machines[m].returns[a][i])
    /\ \A i \in DOMAIN pending.refs : GoodRef(current, pending.refs[i])

(* Owners are machines that have been begun. *)
RefsThere ==
  /\ \A m \in Machines : \A a \in Names :
         \A i \in DOMAIN machines[m].returns[a] : machines[m].returns[a][i][1] <= Len(machines)
  /\ \A i \in DOMAIN pending.refs : pending.refs[i][1] <= Len(machines)
  /\ \A m \in Machines : \A x \in Names : machines[m].ids[x].owner <= Len(machines)

(* An event others share ends a vector. *)
Vectors(m) ==
  Sound => \A i \in DOMAIN machines[m].infos :
    LET q == machines[m].infos[i].events IN
    \A k \in DOMAIN q : machines[m].sharers[q[k]] # << >> => k = Len(q)

-----------------------------------------------------------------------------
(* What a statement is. *)
LEMMA Statement ==
  ASSUME Typed, Reading
  PROVE  /\ text \in Seq(Statements) /\ Len(text) \in Nat /\ at \in 1 .. Len(text)
         /\ Stmt \in Statements
<1>1. text \in Seq(Statements)
  BY ParserAssumption DEF Typed
<1>2. Len(text) \in Nat /\ at \in 1 .. Len(text)
  BY <1>1 DEF Typed, Reading
<1> QED BY <1>1, <1>2 DEF Stmt

LEMMA OfKind ==
  ASSUME Typed, Reading
  PROVE  /\ Stmt.kind \in {"machine", "state", "event", "parentEvent", "sub", "returns", "returned", "action"} =>
              Stmt.name \in Names
         /\ Stmt.kind = "machine" => Stmt.data \in BOOLEAN
         /\ Stmt.kind \in {"event", "parentEvent"} => Stmt.translator \in Names \union {None}
         /\ Stmt.kind \in {"action", "transition"} =>
              /\ Stmt.events \in Seq(Names) /\ Stmt.states \in Seq(Names)
              /\ Stmt.to \in Names \union {None} /\ Stmt.name \in Names \union {None}
         /\ Stmt.kind = "transition" => Stmt.name = None /\ Stmt.to # None
<1>1. Stmt \in Statements
  BY Statement
<1>2. None \notin Names
  BY ParserAssumption
<1> HIDE DEF Stmt
<1> QED BY <1>1, <1>2 DEF Statements

(* What is known of the places. *)
LEMMA Placed ==
  ASSUME Typed
  PROVE  /\ Len(machines) \in Nat /\ Machines = 1 .. Len(machines)
         /\ current \in Nat /\ scope \in Nat
         /\ current # 0 => current \in Machines /\ scope \in Machines /\ Cur \in Records
         /\ \A m \in Machines : m \in Nat /\ m # 0 /\ machines[m] \in Records
<1>1. machines \in Seq(Records)
  BY DEF Typed
<1>2. Len(machines) \in Nat /\ Machines = 1 .. Len(machines)
  BY <1>1 DEF Machines
<1>3. current \in 0 .. Len(machines)
  BY DEF Typed
<1>4. \A m \in Machines : m \in Nat /\ m # 0 /\ machines[m] \in Records
  BY <1>1, <1>2
<1>5. machines = << >> => Len(machines) = 0
  OBVIOUS
<1>6. scope \in IF machines = << >> THEN {0} ELSE Machines
  BY DEF Typed, Machines
<1>7. current # 0 => current \in Machines /\ scope \in Machines
  BY <1>2, <1>3, <1>5, <1>6
<1> QED BY <1>2, <1>3, <1>4, <1>6, <1>7 DEF Cur

(* One record of the machines is changed. *)
LEMMA OneChanged ==
  ASSUME Typed, NEW c \in Machines, NEW r \in Records, machines' = [machines EXCEPT ![c] = r]
  PROVE  /\ machines' \in Seq(Records) /\ Len(machines') = Len(machines)
         /\ Machines' = Machines
         /\ machines'[c] = r
         /\ \A m \in Machines : m # c => machines'[m] = machines[m]
<1>1. machines \in Seq(Records) /\ Machines = 1 .. Len(machines) /\ Len(machines) \in Nat
  BY Placed DEF Typed
<1>2. machines' \in Seq(Records) /\ Len(machines') = Len(machines)
  BY <1>1
<1>3. Machines' = Machines
  BY <1>1, <1>2 DEF Machines
<1> QED BY <1>1, <1>2, <1>3

(* The record a declaration leaves behind. *)
WithState ==
  [Cur EXCEPT !.states = Append(@, Stmt.name),
              !.inhibits = IF Stmt.inhibits THEN @ \union {Stmt.name} ELSE @,
              !.ids = Own(SetType(@, Stmt.name, "STATE"), Stmt.name, current)]
WithEvent ==
  [Cur EXCEPT !.events = Append(@, Stmt.name), !.blocks = Blocks(@),
              !.ids = Own(SetType(Translated(@), Stmt.name, "EVENT"), Stmt.name, current)]
WithDone(actions, ids) ==
  [Cur EXCEPT !.infos = Append(@, Info), !.actions = actions, !.stage = "does",
              !.fns = Fns(@), !.targets = Targets(@), !.ids = ids]
WithAction ==
  WithDone(AddUnique(Cur.actions, Stmt.name),
           Own(SetType(TypedTo(Cur.ids), Stmt.name, "ACTION"), Stmt.name, current))
WithTransition == WithDone(AddUnique(Cur.actions, None), TypedTo(Cur.ids))
WithReturns ==
  [Cur EXCEPT !.returns[pending.of] = Merged(@)]
WithShared ==
  [Cur EXCEPT !.events = Append(@, Stmt.name), !.shared = @ \union {Stmt.name},
              !.blocks = Blocks(@),
              !.ids = Own(AddId(@, Stmt.name, "EVENT"), Stmt.name, current)]
WithSharer ==
  [machines[Cur.parent] EXCEPT !.ids = Translated(@),
                               !.sharers[Stmt.name] = Append(@, current)]

(* The list of identifiers stays one.                                      *)
LEMMA IdsTyped ==
  ASSUME NEW ids \in [Names -> Id], NEW x \in Names, NEW type \in Types, NEW m \in Nat
  PROVE  /\ AddId(ids, x, type) \in [Names -> Id]
         /\ SetType(ids, x, type) \in [Names -> Id]
         /\ Own(ids, x, m) \in [Names -> Id]
BY DEF AddId, SetType, Own, Id

(* Adding to a list what it has not changes no type.                       *)
LEMMA UniqueTyped ==
  ASSUME NEW S, NEW q \in Seq(S), NEW x \in S
  PROVE  AddUnique(q, x) \in Seq(S)
BY DEF AddUnique

(* only the record of the current machine has changed, to r *)
OnlyCurrent(r) ==
  /\ current # 0 /\ scope = current /\ current \in Machines /\ Cur \in Records
  /\ r \in Records
  /\ machines' \in Seq(Records) /\ Len(machines') = Len(machines) /\ Machines' = Machines
  /\ machines'[current] = r
  /\ \A m \in Machines : m # current => machines'[m] = machines[m]

(* A statement that declares something is read in the machine's own list of*)
(* identifiers.                                                            *)
LEMMA BegunInOwn ==
  ASSUME Typed, Focused, Reading, Begins, current # 0
  PROVE  scope = current /\ current \in Machines /\ current \in Nat /\ Cur \in Records
BY Placed DEF Focused, Begins

(* What the steps below do to the records, one lemma for every statement.  *)
LEMMA DeclareStateDoes ==
  ASSUME Typed, Nested, Focused, DeclareState
  PROVE  /\ Reading /\ Begins /\ Cur.stage = "decls" /\ Stmt.name \in Names
         /\ TypeOf(current, Stmt.name) = "ID"
         /\ OnlyCurrent(WithState)
<1>1. Reading /\ Stmt.kind = "state" /\ Fits
  BY DEF DeclareState, Is
<1>2. Begins /\ current # 0 /\ Cur.stage = "decls"
  BY <1>1 DEF Fits
<1>3. scope = current /\ current \in Machines /\ current \in Nat /\ Cur \in Records
  BY <1>1, <1>2, BegunInOwn
<1>4. Stmt.name \in Names
  BY <1>1, OfKind
<1> DEFINE ids == Own(SetType(Cur.ids, Stmt.name, "STATE"), Stmt.name, current)
           states == Append(Cur.states, Stmt.name)
           inhibits == IF Stmt.inhibits THEN Cur.inhibits \union {Stmt.name} ELSE Cur.inhibits
<1>5. Cur.ids \in [Names -> Id] /\ "STATE" \in Types /\ Cur.states \in Seq(Names)
      /\ Cur.inhibits \in SUBSET Names
  BY <1>3 DEF Records, Types
<1>6. ids \in [Names -> Id] /\ states \in Seq(Names) /\ inhibits \in SUBSET Names
  <2>1. SetType(Cur.ids, Stmt.name, "STATE") \in [Names -> Id]
    BY <1>4, <1>5, IdsTyped
  <2>2. ids \in [Names -> Id]
    BY <1>3, <1>4, <1>5, <2>1, IdsTyped
  <2>3. states \in Seq(Names) /\ inhibits \in SUBSET Names
    BY <1>4, <1>5
  <2> QED BY <2>2, <2>3
<1>7. machines' = [machines EXCEPT ![current] = WithState]
  <2>1. machines \in Seq(Records) /\ current \in DOMAIN machines
    BY <1>3 DEF Typed, Machines
  <2> QED BY <1>3, <2>1 DEF DeclareState, Cur, WithState, Records
<1>8. TypeOf(scope, Stmt.name) = "ID"
  BY DEF DeclareState, Is
<1> HIDE DEF ids, states, inhibits
<1>9. [Cur EXCEPT !.states = states, !.inhibits = inhibits, !.ids = ids] \in Records
  BY <1>3, <1>6 DEF Records
<1>10. WithState \in Records
  BY <1>9 DEF ids, states, inhibits, WithState
<1> QED BY <1>1, <1>2, <1>3, <1>4, <1>7, <1>8, <1>10, OneChanged DEF OnlyCurrent

LEMMA TranslatedTyped ==
  ASSUME Typed, Reading, Stmt.kind \in {"event", "parentEvent"}, NEW ids \in [Names -> Id]
  PROVE  Translated(ids) \in [Names -> Id]
<1>1. Stmt.translator # None => Stmt.translator \in Names /\ "ID" \in Types
  BY OfKind DEF Types
<1> QED BY <1>1, IdsTyped DEF Translated

LEMMA DeclareEventDoes ==
  ASSUME Typed, Nested, Focused, DeclareEvent
  PROVE  /\ Reading /\ Begins /\ Cur.stage = "decls" /\ Stmt.name \in Names
         /\ Stmt.translator \in Names \union {None}
         /\ TypeOf(current, Stmt.name) = "ID"
         /\ OnlyCurrent(WithEvent)
<1>1. Reading /\ Stmt.kind = "event" /\ Fits
  BY DEF DeclareEvent, Is
<1>2. Begins /\ current # 0 /\ Cur.stage = "decls"
  BY <1>1 DEF Fits
<1>3. scope = current /\ current \in Machines /\ current \in Nat /\ Cur \in Records
  BY <1>1, <1>2, BegunInOwn
<1>4. Stmt.name \in Names /\ Stmt.translator \in Names \union {None}
  BY <1>1, OfKind
<1> DEFINE ids == Own(SetType(Translated(Cur.ids), Stmt.name, "EVENT"), Stmt.name, current)
           events == Append(Cur.events, Stmt.name)
           blocks == Blocks(Cur.blocks)
<1>5. Cur.ids \in [Names -> Id] /\ "EVENT" \in Types /\ Cur.events \in Seq(Names)
      /\ Cur.blocks \in SUBSET Names
  BY <1>3 DEF Records, Types
<1>6. ids \in [Names -> Id] /\ events \in Seq(Names) /\ blocks \in SUBSET Names
  <2>1. Translated(Cur.ids) \in [Names -> Id]
    BY <1>1, <1>5, TranslatedTyped
  <2>2. SetType(Translated(Cur.ids), Stmt.name, "EVENT") \in [Names -> Id]
    BY <1>4, <1>5, <2>1, IdsTyped
  <2>3. ids \in [Names -> Id]
    BY <1>3, <1>4, <1>5, <2>2, IdsTyped
  <2>4. events \in Seq(Names) /\ blocks \in SUBSET Names
    BY <1>4, <1>5 DEF Blocks
  <2> QED BY <2>3, <2>4
<1>7. machines' = [machines EXCEPT ![current] = WithEvent]
  <2>1. machines \in Seq(Records) /\ current \in DOMAIN machines
    BY <1>3 DEF Typed, Machines
  <2> QED BY <1>3, <2>1 DEF DeclareEvent, Cur, WithEvent, Records
<1>8. TypeOf(scope, Stmt.name) = "ID"
  BY DEF DeclareEvent, Is
<1> HIDE DEF ids, events, blocks
<1>9. [Cur EXCEPT !.events = events, !.blocks = blocks, !.ids = ids] \in Records
  BY <1>3, <1>6 DEF Records
<1>10. WithEvent \in Records
  BY <1>9 DEF ids, events, blocks, WithEvent
<1> QED BY <1>1, <1>2, <1>3, <1>4, <1>7, <1>8, <1>10, OneChanged DEF OnlyCurrent

(* The record a declared action leaves is a record.                        *)
LEMMA DoneTyped ==
  ASSUME Typed, Reading, Stmt.kind \in {"action", "transition"}, current # 0,
         NEW actions \in Seq(Names \union {None}), NEW ids \in [Names -> Id]
  PROVE  WithDone(actions, ids) \in Records
<1>1. Cur \in Records
  BY Placed
<1>2. /\ Stmt.name \in Names \union {None} /\ Stmt.to \in Names \union {None}
      /\ Stmt.events \in Seq(Names) /\ Stmt.states \in Seq(Names)
  BY OfKind
<1>3. Info \in Infos
  BY <1>2 DEF Info, Infos
<1>4. Append(Cur.infos, Info) \in Seq(Infos)
  BY <1>1, <1>3 DEF Records
<1>5. Fns(Cur.fns) \in Seq(Names) /\ Targets(Cur.targets) \in Seq(Names)
  <2>1. Cur.fns \in Seq(Names) /\ Cur.targets \in Seq(Names)
    BY <1>1 DEF Records
  <2>2. Stmt.to # None => AddUnique(Cur.fns, Stmt.to) \in Seq(Names)
                          /\ AddUnique(Cur.targets, Stmt.to) \in Seq(Names)
    BY <1>2, <2>1, UniqueTyped
  <2> QED BY <2>1, <2>2 DEF Fns, Targets
<1> DEFINE infos == Append(Cur.infos, Info)
           fns == Fns(Cur.fns)
           targets == Targets(Cur.targets)
<1>6. infos \in Seq(Infos) /\ fns \in Seq(Names) /\ targets \in Seq(Names)
  BY <1>4, <1>5
<1> HIDE DEF infos, fns, targets
<1>7. [Cur EXCEPT !.infos = infos, !.actions = actions, !.stage = "does",
                  !.fns = fns, !.targets = targets, !.ids = ids] \in Records
  BY <1>1, <1>6 DEF Records, Stages
<1> QED BY <1>7 DEF infos, fns, targets, WithDone

LEMMA TypedToTyped ==
  ASSUME Typed, Reading, Stmt.kind \in {"action", "transition"}, NEW ids \in [Names -> Id]
  PROVE  TypedTo(ids) \in [Names -> Id]
<1>1. Stmt.to # None => Stmt.to \in Names /\ "TRANSITION_FN" \in Types
  BY OfKind DEF Types
<1> QED BY <1>1, IdsTyped DEF TypedTo

LEMMA DeclareActionDoes ==
  ASSUME Typed, Nested, Focused, DeclareAction
  PROVE  /\ Reading /\ Begins /\ Declared /\ Matrix /\ Stmt.name \in Names
         /\ Stmt.to \in Names \union {None}
         /\ Stmt.events \in Seq(Names) /\ Stmt.states \in Seq(Names)
         /\ TypeOf(current, Stmt.name) \in {"ID", "ACTION"}
         /\ OnlyCurrent(WithAction)
<1>1. Reading /\ Stmt.kind = "action" /\ Fits
  BY DEF DeclareAction, Is
<1>2. Begins /\ Declared
  BY <1>1 DEF Fits
<1>3. scope = current /\ current \in Machines /\ current \in Nat /\ Cur \in Records /\ current # 0
  BY <1>1, <1>2, BegunInOwn DEF Declared
<1>4. /\ Stmt.name \in Names /\ Stmt.to \in Names \union {None}
      /\ Stmt.events \in Seq(Names) /\ Stmt.states \in Seq(Names)
  BY <1>1, OfKind
<1>5. Cur.ids \in [Names -> Id] /\ "ACTION" \in Types /\ Cur.actions \in Seq(Names \union {None})
  BY <1>3 DEF Records, Types
<1>6. Own(SetType(TypedTo(Cur.ids), Stmt.name, "ACTION"), Stmt.name, current) \in [Names -> Id]
  BY <1>1, <1>3, <1>4, <1>5, IdsTyped, TypedToTyped
<1>7. AddUnique(Cur.actions, Stmt.name) \in Seq(Names \union {None})
  BY <1>4, <1>5, UniqueTyped
<1>8. WithAction \in Records
  BY <1>1, <1>3, <1>6, <1>7, DoneTyped DEF WithAction
<1>9. machines' = [machines EXCEPT ![current] = WithAction]
  <2>1. machines \in Seq(Records) /\ current \in DOMAIN machines
    BY <1>3 DEF Typed, Machines
  <2> QED BY <1>3, <2>1 DEF DeclareAction, Cur, WithAction, WithDone, Records
<1>10. TypeOf(current, Stmt.name) \in {"ID", "ACTION"} /\ Matrix
  BY <1>3 DEF DeclareAction, Is, IsA
<1> QED BY <1>1, <1>2, <1>3, <1>4, <1>8, <1>9, <1>10, OneChanged DEF OnlyCurrent

LEMMA DeclareTransitionDoes ==
  ASSUME Typed, Nested, Focused, DeclareTransition
  PROVE  /\ Reading /\ Begins /\ Declared /\ Matrix /\ Stmt.name = None
         /\ Stmt.to \in Names
         /\ Stmt.events \in Seq(Names) /\ Stmt.states \in Seq(Names)
         /\ OnlyCurrent(WithTransition)
<1>1. Reading /\ Stmt.kind = "transition" /\ Fits
  BY DEF DeclareTransition, Is
<1>2. Begins /\ Declared
  BY <1>1 DEF Fits
<1>3. scope = current /\ current \in Machines /\ current \in Nat /\ Cur \in Records /\ current # 0
  BY <1>1, <1>2, BegunInOwn DEF Declared
<1>4. /\ Stmt.name = None /\ Stmt.to \in Names
      /\ Stmt.events \in Seq(Names) /\ Stmt.states \in Seq(Names)
  BY <1>1, OfKind
<1>5. Cur.ids \in [Names -> Id] /\ Cur.actions \in Seq(Names \union {None})
  BY <1>3 DEF Records
<1>6. TypedTo(Cur.ids) \in [Names -> Id]
  BY <1>1, <1>5, TypedToTyped
<1>7. AddUnique(Cur.actions, None) \in Seq(Names \union {None})
  BY <1>5, UniqueTyped
<1>8. WithTransition \in Records
  BY <1>1, <1>3, <1>6, <1>7, DoneTyped DEF WithTransition
<1>9. machines' = [machines EXCEPT ![current] = WithTransition]
  <2>1. machines \in Seq(Records) /\ current \in DOMAIN machines
    BY <1>3 DEF Typed, Machines
  <2> QED BY <1>3, <2>1 DEF DeclareTransition, Cur, WithTransition, WithDone, Records
<1>10. Matrix
  BY DEF DeclareTransition, Is
<1> QED BY <1>1, <1>2, <1>3, <1>4, <1>8, <1>9, <1>10, OneChanged DEF OnlyCurrent

-----------------------------------------------------------------------------
(* move_list_unique: what it leaves is of the two lists. *)
Move(q, r, moved) ==
  [n \in 0 .. Len(r) |-> IF n = 0 THEN q ELSE AddUnique(moved[n - 1], r[n])]
Moved(q, r) == CHOOSE moved : moved = Move(q, r, moved)

(* MoveUnique is the last of what Moved computes.                      *)
LEMMA MoveUniqueIs ==
  ASSUME NEW q, NEW r
  PROVE  MoveUnique(q, r) = Moved(q, r)[Len(r)]
BY Zenon DEF MoveUnique, Moved, Move

LEMMA MoveSolved ==
  ASSUME NEW S, NEW q \in Seq(S), NEW r \in Seq(S)
  PROVE  Moved(q, r) = Move(q, r, Moved(q, r))
<1> DEFINE P == {n \in 0 .. Len(r) :
                   \E f \in [0 .. n -> Seq(S)] :
                     f[0] = q /\ \A i \in 1 .. n : f[i] = AddUnique(f[i - 1], r[i])}
<1>1. Len(r) \in Nat /\ \A i \in 1 .. Len(r) : r[i] \in S
  OBVIOUS
<1>2. 0 \in P
  <2> DEFINE f == [i \in 0 .. 0 |-> q]
  <2>1. f \in [0 .. 0 -> Seq(S)] /\ f[0] = q
    OBVIOUS
  <2> HIDE DEF f
  <2>2. \A i \in 1 .. 0 : f[i] = AddUnique(f[i - 1], r[i])
    OBVIOUS
  <2>3. \E g \in [0 .. 0 -> Seq(S)] :
           g[0] = q /\ \A i \in 1 .. 0 : g[i] = AddUnique(g[i - 1], r[i])
    BY <2>1, <2>2
  <2> QED BY <1>1, <2>3
<1>3. ASSUME NEW n \in 1 .. Len(r), n - 1 \in P PROVE n \in P
  <2>1. PICK f \in [0 .. n - 1 -> Seq(S)] :
          f[0] = q /\ \A i \in 1 .. n - 1 : f[i] = AddUnique(f[i - 1], r[i])
    BY <1>3
  <2> DEFINE g == [i \in 0 .. n |-> IF i = n THEN AddUnique(f[n - 1], r[n]) ELSE f[i]]
  <2>2. n \in Nat /\ n # 0 /\ n - 1 \in 0 .. n - 1 /\ r[n] \in S /\ f[n - 1] \in Seq(S)
    BY <1>1, <2>1
  <2>3. AddUnique(f[n - 1], r[n]) \in Seq(S)
    BY <2>2, UniqueTyped
  <2>4. g \in [0 .. n -> Seq(S)]
    <3>1. \A i \in 0 .. n : i # n => i \in 0 .. n - 1
      BY <2>2
    <3> QED BY <2>1, <2>3, <3>1
  <2>5. g[0] = q
    BY <2>1, <2>2
  <2>6. \A i \in 1 .. n : g[i] = AddUnique(g[i - 1], r[i])
    <3>1. SUFFICES ASSUME NEW i \in 1 .. n PROVE g[i] = AddUnique(g[i - 1], r[i])
      OBVIOUS
    <3>2. i \in 0 .. n /\ i - 1 \in 0 .. n /\ i - 1 # n
      OBVIOUS
    <3>3. g[i - 1] = f[i - 1]
      BY <3>2
    <3>4. CASE i = n
      BY <3>2, <3>3, <3>4
    <3>5. CASE i # n
      <4>1. i \in 1 .. n - 1 /\ g[i] = f[i]
        BY <3>2, <3>5
      <4> HIDE DEF g
      <4> QED BY <2>1, <3>3, <4>1
    <3> QED BY <3>4, <3>5
  <2> HIDE DEF g
  <2>7. \E h \in [0 .. n -> Seq(S)] :
           h[0] = q /\ \A i \in 1 .. n : h[i] = AddUnique(h[i - 1], r[i])
    BY <2>4, <2>5, <2>6
  <2>8. n \in 0 .. Len(r)
    BY <1>1
  <2> QED BY <2>7, <2>8, Zenon
<1> HIDE DEF P
<1>4. \A n \in 0 .. Len(r) : n \in P
  BY <1>1, <1>2, <1>3, Induct
<1>5. PICK f \in [0 .. Len(r) -> Seq(S)] :
        f[0] = q /\ \A i \in 1 .. Len(r) : f[i] = AddUnique(f[i - 1], r[i])
  <2>1. Len(r) \in P
    BY <1>1, <1>4
  <2> QED BY <2>1 DEF P
<1>6. f = Move(q, r, f)
  <2>1. \A i \in 0 .. Len(r) : f[i] = IF i = 0 THEN q ELSE AddUnique(f[i - 1], r[i])
    <3>1. \A i \in 0 .. Len(r) : i # 0 => i \in 1 .. Len(r)
      BY <1>1
    <3> QED BY <1>5, <3>1
  <2> QED BY <1>5, <2>1 DEF Move
<1> QED BY <1>6 DEF Moved

(* Adding a member once: the set grows by it, and none is there twice.     *)
LEMMA UniqueSet ==
  ASSUME NEW S, NEW q \in Seq(S), NEW x \in S
  PROVE  /\ ToSet(AddUnique(q, x)) = ToSet(q) \union {x}
         /\ IsInjective(q) => IsInjective(AddUnique(q, x))
<1>1. CASE Contains(q, x)
  <2>1. x \in ToSet(q) /\ AddUnique(q, x) = q
    BY <1>1 DEF Contains, AddUnique, ToSet
  <2> QED BY <2>1
<1>2. CASE ~Contains(q, x)
  <2>1. AddUnique(q, x) = Append(q, x) /\ \A i \in 1 .. Len(q) : q[i] # x
    BY <1>2 DEF Contains, AddUnique
  <2>2. /\ Len(q) \in Nat /\ Len(Append(q, x)) = Len(q) + 1
        /\ \A i \in 1 .. Len(q) : Append(q, x)[i] = q[i]
        /\ Append(q, x)[Len(q) + 1] = x
        /\ DOMAIN q = 1 .. Len(q) /\ DOMAIN Append(q, x) = 1 .. Len(q) + 1
    OBVIOUS
  <2>3. ToSet(Append(q, x)) = ToSet(q) \union {x}
    BY <2>2 DEF ToSet
  <2>4. IsInjective(q) => IsInjective(Append(q, x))
    BY <2>1, <2>2 DEF IsInjective
  <2> QED BY <2>1, <2>3, <2>4
<1> QED BY <1>1, <1>2

(* What is moved is of the one list or the other.                          *)
LEMMA MoveUniqueOf ==
  ASSUME NEW S, NEW q \in Seq(S), NEW r \in Seq(S)
  PROVE  /\ MoveUnique(q, r) \in Seq(S)
         /\ ToSet(MoveUnique(q, r)) \subseteq ToSet(q) \union ToSet(r)
<1> DEFINE f == Moved(q, r)
           P == {n \in 0 .. Len(r) : f[n] \in Seq(S) /\ ToSet(f[n]) \subseteq ToSet(q) \union ToSet(r)}
<1>1. f = Move(q, r, f)
  BY MoveSolved
<1>2. Len(r) \in Nat /\ \A i \in 1 .. Len(r) : r[i] \in S /\ r[i] \in ToSet(r)
  BY DEF ToSet
<1> HIDE DEF f
<1>3. f[0] = q /\ \A n \in 1 .. Len(r) : f[n] = AddUnique(f[n - 1], r[n])
  BY <1>1, <1>2 DEF Move
<1>4. 0 \in P
  BY <1>2, <1>3
<1>5. ASSUME NEW n \in 1 .. Len(r), n - 1 \in P PROVE n \in P
  <2>1. f[n - 1] \in Seq(S) /\ ToSet(f[n - 1]) \subseteq ToSet(q) \union ToSet(r)
    BY <1>5
  <2>2. r[n] \in S /\ r[n] \in ToSet(r)
    BY <1>2
  <2>3. f[n] = AddUnique(f[n - 1], r[n])
    BY <1>3
  <2>4. f[n] \in Seq(S)
    BY <2>1, <2>2, <2>3, UniqueTyped
  <2>5. ToSet(f[n]) = ToSet(f[n - 1]) \union {r[n]}
    BY <2>1, <2>2, <2>3, UniqueSet
  <2> QED BY <1>2, <2>1, <2>2, <2>4, <2>5
<1>6. \A n \in 0 .. Len(r) : n \in P
  <2> HIDE DEF P
  <2> QED BY <1>2, <1>4, <1>5, Induct
<1>7. Len(r) \in P
  BY <1>2, <1>6
<1> QED BY <1>7, MoveUniqueIs DEF f

(* So is what a "returns" declaration makes of a list.                     *)
LEMMA MergedOf ==
  ASSUME NEW S, NEW q \in Seq(S), pending.refs \in Seq(S)
  PROVE  /\ Merged(q) \in Seq(S)
         /\ ToSet(Merged(q)) \subseteq ToSet(q) \union ToSet(pending.refs)
<1> DEFINE r == pending.refs
<1>1. CASE LoneState
  <2>1. r \in Seq(S)
    OBVIOUS
  <2> HIDE DEF r
  <2>2. q \o r \in Seq(S)
    BY <2>1
  <2>3. ToSet(q \o r) \subseteq ToSet(q) \union ToSet(r)
    <3> SUFFICES ASSUME NEW i \in DOMAIN (q \o r)
                 PROVE  \/ \E k \in DOMAIN q : (q \o r)[i] = q[k]
                        \/ \E k \in DOMAIN r : (q \o r)[i] = r[k]
      BY DEF ToSet
    <3>1. /\ Len(q) \in Nat /\ Len(r) \in Nat /\ DOMAIN q = 1 .. Len(q) /\ DOMAIN r = 1 .. Len(r)
          /\ i \in 1 .. Len(q) + Len(r)
      BY <2>1
    <3>2. CASE i <= Len(q)
      BY <2>1, <3>1, <3>2
    <3>3. CASE i > Len(q)
      <4>1. i - Len(q) \in DOMAIN r /\ (q \o r)[i] = r[i - Len(q)]
        BY <2>1, <3>1, <3>3
      <4> QED BY <4>1
    <3> QED BY <3>1, <3>2, <3>3
  <2>4. Merged(q) = q \o r
    BY <1>1 DEF Merged, r
  <2> QED BY <2>2, <2>3, <2>4 DEF r
<1>2. CASE ~LoneState
  BY <1>2, MoveUniqueOf DEF Merged
<1> QED BY <1>1, <1>2

-----------------------------------------------------------------------------
WithBegun == [Cur EXCEPT !.stage = "does"]

LEMMA BeginReturnsDoes ==
  ASSUME Typed, Nested, Focused, BeginReturns
  PROVE  /\ Reading /\ Begins /\ Declared /\ Stmt.name \in Names
         /\ OnlyCurrent(WithBegun)
<1>1. Reading /\ Stmt.kind = "returns" /\ Fits
  BY DEF BeginReturns, Is
<1>2. Begins /\ Declared
  BY <1>1 DEF Fits
<1>3. scope = current /\ current \in Machines /\ current \in Nat /\ Cur \in Records /\ current # 0
  BY <1>1, <1>2, BegunInOwn DEF Declared
<1>4. Stmt.name \in Names
  BY <1>1, OfKind
<1>5. WithBegun \in Records
  BY <1>3 DEF WithBegun, Records, Stages
<1>6. machines' = [machines EXCEPT ![current] = WithBegun]
  <2>1. machines \in Seq(Records) /\ current \in DOMAIN machines
    BY <1>3 DEF Typed, Machines
  <2> QED BY <1>3, <2>1 DEF BeginReturns, Cur, WithBegun, Records
<1> QED BY <1>1, <1>2, <1>3, <1>4, <1>5, <1>6, OneChanged DEF OnlyCurrent

LEMMA EndReturnsDoes ==
  ASSUME Typed, Nested, Focused, EndReturns
  PROVE  /\ Reading /\ ~Namespaced /\ pending.of \in Names /\ pending.refs \in Seq(Refs)
         /\ Cur.returns[pending.of] \in Seq(Refs)
         /\ OnlyCurrent(WithReturns)
<1>1. Reading /\ Stmt.kind = "endReturns" /\ Fits
  BY DEF EndReturns, Is
<1>2. ~Namespaced /\ pending.refs # << >>
  BY <1>1 DEF Fits
<1>3. pending.of \in Names /\ pending.refs \in Seq(Refs) /\ pending.of # None
  BY <1>2 DEF Typed, Pendings
<1>4. scope = current /\ current # 0 /\ current \in Machines /\ current \in Nat /\ Cur \in Records
  BY <1>1, <1>2, <1>3, Placed DEF Focused
<1>5. Cur.returns[pending.of] \in Seq(Refs)
  BY <1>3, <1>4 DEF Records
<1>6. WithReturns \in Records
  <2> DEFINE q == Merged(Cur.returns[pending.of])
  <2>1. q \in Seq(Refs)
    BY <1>3, <1>5, MergedOf
  <2> HIDE DEF q
  <2>2. [Cur EXCEPT !.returns[pending.of] = q] \in Records
    BY <1>3, <1>4, <2>1 DEF Records
  <2> QED BY <2>2 DEF q, WithReturns
<1>7. machines' = [machines EXCEPT ![current] = WithReturns]
  <2>1. machines \in Seq(Records) /\ current \in DOMAIN machines
    BY <1>4 DEF Typed, Machines
  <2> QED BY <1>4, <2>1 DEF EndReturns, Cur, WithReturns, Records
<1> QED BY <1>1, <1>2, <1>3, <1>4, <1>5, <1>6, <1>7, OneChanged DEF OnlyCurrent

LEMMA ReferParentEventDoes ==
  ASSUME Typed, Nested, Focused, ReferParentEvent
  PROVE  /\ Reading /\ pending.of = None /\ current # 0 /\ Cur.stage = "decls"
         /\ Stmt.name \in Names /\ Stmt.translator \in Names \union {None}
         /\ current \in Machines /\ Cur \in Records
         /\ scope = Cur.parent /\ scope \in Machines /\ scope < current
         /\ machines[scope] \in Records
         /\ WithShared \in Records /\ WithSharer \in Records
         /\ machines' \in Seq(Records) /\ Len(machines') = Len(machines) /\ Machines' = Machines
         /\ machines'[current] = WithShared
         /\ machines'[Cur.parent] = WithSharer
         /\ \A m \in Machines : m \notin {current, Cur.parent} => machines'[m] = machines[m]
<1>1. Reading /\ Stmt.kind = "parentEvent" /\ Fits
  BY DEF ReferParentEvent, Is
<1>2. Namespaced /\ pending.of = None
  BY <1>1 DEF Fits
<1>3. current # 0 /\ Cur.stage = "decls" /\ Cur.parent # 0 /\ scope = Cur.parent
  BY <1>1, <1>2 DEF Focused
<1>4. current \in Machines /\ scope \in Machines /\ Cur \in Records /\ machines[scope] \in Records
      /\ current \in Nat /\ scope \in Nat
  BY <1>3, Placed
<1>5. scope < current
  BY <1>3, <1>4 DEF Nested, Cur
<1>6. Stmt.name \in Names /\ Stmt.translator \in Names \union {None}
  BY <1>1, OfKind
<1>7. WithShared \in Records
  <2> DEFINE ids == Own(AddId(Cur.ids, Stmt.name, "EVENT"), Stmt.name, current)
             events == Append(Cur.events, Stmt.name)
             shared == Cur.shared \union {Stmt.name}
             blocks == Blocks(Cur.blocks)
  <2>1. Cur.ids \in [Names -> Id] /\ "EVENT" \in Types
    BY <1>4 DEF Records, Types
  <2>2. AddId(Cur.ids, Stmt.name, "EVENT") \in [Names -> Id]
    BY <1>6, <2>1, IdsTyped
  <2>3. ids \in [Names -> Id]
    BY <1>4, <1>6, <2>1, <2>2, IdsTyped
  <2>4. events \in Seq(Names) /\ shared \in SUBSET Names /\ blocks \in SUBSET Names
    <3>1. Cur.events \in Seq(Names) /\ Cur.shared \in SUBSET Names /\ Cur.blocks \in SUBSET Names
      BY <1>4 DEF Records
    <3> QED BY <1>6, <3>1 DEF Blocks
  <2> HIDE DEF ids, events, shared, blocks
  <2>5. [Cur EXCEPT !.events = events, !.shared = shared, !.blocks = blocks, !.ids = ids] \in Records
    BY <1>4, <2>3, <2>4 DEF Records
  <2> QED BY <2>5 DEF ids, events, shared, blocks, WithShared
<1>8. WithSharer \in Records
  <2> DEFINE r == machines[Cur.parent]
             ids == Translated(r.ids)
             q == Append(r.sharers[Stmt.name], current)
  <2>1. r \in Records /\ r.ids \in [Names -> Id] /\ r.sharers[Stmt.name] \in Seq(Nat)
    BY <1>3, <1>4, <1>6 DEF Records
  <2>2. ids \in [Names -> Id] /\ q \in Seq(Nat)
    BY <1>1, <1>4, <2>1, TranslatedTyped
  <2> HIDE DEF r, ids, q
  <2>3. [r EXCEPT !.ids = ids, !.sharers[Stmt.name] = q] \in Records
    BY <1>6, <2>1, <2>2 DEF Records
  <2> QED BY <2>3 DEF r, ids, q, WithSharer
<1>9. machines' = [machines EXCEPT ![current] = WithShared, ![scope] = WithSharer]
  <2>1. machines \in Seq(Records) /\ current \in DOMAIN machines /\ scope \in DOMAIN machines
    BY <1>4 DEF Typed, Machines
  <2>2. scope # current
    BY <1>4, <1>5
  <2> QED BY <1>3, <1>4, <2>1, <2>2 DEF ReferParentEvent, Cur, WithShared, WithSharer, Records
<1> DEFINE half == [machines EXCEPT ![current] = WithShared]
<1>10. machines \in Seq(Records) /\ Len(machines) \in Nat /\ Machines = 1 .. Len(machines)
  BY Placed DEF Typed
<1>11. half \in Seq(Records) /\ Len(half) = Len(machines) /\ half[current] = WithShared
       /\ \A m \in Machines : m # current => half[m] = machines[m]
  BY <1>4, <1>7, <1>10
<1>12. machines' = [half EXCEPT ![scope] = WithSharer]
  BY <1>9
<1> HIDE DEF half
<1>13. /\ machines' \in Seq(Records) /\ Len(machines') = Len(machines)
       /\ machines'[scope] = WithSharer
       /\ \A m \in Machines : m # scope => machines'[m] = half[m]
  BY <1>4, <1>8, <1>10, <1>11, <1>12
<1>14. Machines' = Machines
  BY <1>10, <1>13 DEF Machines
<1>15. machines'[current] = WithShared
  BY <1>4, <1>5, <1>11, <1>13
<1>16. \A m \in Machines : m \notin {current, Cur.parent} => machines'[m] = machines[m]
  BY <1>3, <1>11, <1>13
<1> QED BY <1>1, <1>2, <1>3, <1>4, <1>5, <1>6, <1>7, <1>8, <1>13, <1>14, <1>15, <1>16

-----------------------------------------------------------------------------
NewMachine ==
  [parent |-> current, name |-> Stmt.name, data |-> Stmt.data, stage |-> "decls",
   ids |-> NewIds(Stmt.name, Len(machines) + 1, Qualified(Stmt.quals)),
   events |-> << >>, states |-> << >>, shared |-> {}, blocks |-> {},
   sharers |-> NoLists, subs |-> << >>, depth |-> 0, inhibits |-> {},
   infos |-> << >>, actions |-> << >>, fns |-> << >>, targets |-> << >>,
   returns |-> NoLists]

(* A new machine knows noEvent, noTransition and its own name.             *)
LEMMA NewIdsTyped ==
  ASSUME NEW name \in Names, NEW m \in Nat, NEW q
  PROVE  NewIds(name, m, q) \in [Names -> Id]
<1>1. noEvent \in Names /\ noTransition \in Names
      /\ "ID" \in Types /\ "EVENT" \in Types /\ "STATE" \in Types /\ "none" \in Types
  BY ParserAssumption DEF Types
<1> DEFINE blank == [x \in Names |-> [type |-> "none", owner |-> 0]]
           named == SetType(blank, name, "ID")
           own   == Own(AddId(named, noEvent, "EVENT"), noEvent, m)
           events == IF q.noEvent \/ q.spec \in {{}, {"events"}} THEN own ELSE named
<1>2. blank \in [Names -> Id]
  BY <1>1 DEF Id
<1> HIDE DEF blank
<1>3. named \in [Names -> Id]
  BY <1>1, <1>2, IdsTyped
<1> HIDE DEF named
<1>4. AddId(named, noEvent, "EVENT") \in [Names -> Id]
  BY <1>1, <1>3, IdsTyped
<1>5. own \in [Names -> Id]
  BY <1>1, <1>4, IdsTyped
<1> HIDE DEF own
<1>6. events \in [Names -> Id]
  BY <1>3, <1>5
<1> HIDE DEF events
<1>7. AddId(events, noTransition, "STATE") \in [Names -> Id]
  BY <1>1, <1>6, IdsTyped
<1>8. Own(AddId(events, noTransition, "STATE"), noTransition, m) \in [Names -> Id]
  BY <1>1, <1>7, IdsTyped
<1> QED BY <1>8 DEF NewIds, events, own, named, blank

LEMMA BeginMachineDoes ==
  ASSUME Typed, Nested, Focused, BeginMachine
  PROVE  /\ Reading /\ Begins /\ Stmt.name \in Names
         /\ current # 0 => Cur.stage \in {"decls", "subs"}
         /\ NewMachine \in Records
         /\ machines' \in Seq(Records) /\ Len(machines') = Len(machines) + 1
         /\ Machines' = Machines \union {Len(machines) + 1}
         /\ Len(machines) + 1 \notin Machines
         /\ machines'[Len(machines) + 1] = NewMachine
         /\ \A m \in Machines :
              machines'[m] = IF m = current THEN [machines[m] EXCEPT !.stage = "subs"] ELSE machines[m]
         /\ current' = Len(machines) + 1 /\ scope' = current' /\ UNCHANGED pending
<1>1. Reading /\ Stmt.kind = "machine" /\ Fits
  BY DEF BeginMachine, Is
<1>2. Begins /\ (current = 0 \/ (Declared /\ Cur.stage # "does"))
  BY <1>1 DEF Fits
<1>3. Stmt.name \in Names /\ Stmt.data \in BOOLEAN
  BY <1>1, OfKind
<1>4. machines \in Seq(Records) /\ Len(machines) \in Nat /\ Machines = 1 .. Len(machines)
      /\ current \in Nat /\ (current # 0 => current \in Machines /\ Cur \in Records)
  BY Placed DEF Typed
<1>5. current # 0 => Cur.stage \in {"decls", "subs"}
  <2>1. current # 0 => Cur.stage \in Stages /\ Cur.stage # "ended"
    BY <1>4 DEF Nested, Open, Cur, Records
  <2> QED BY <1>2, <2>1 DEF Stages
<1>6. NewMachine \in Records
  <2>1. NewIds(Stmt.name, Len(machines) + 1, Qualified(Stmt.quals)) \in [Names -> Id]
    BY <1>3, <1>4, NewIdsTyped
  <2>2. NoLists \in [Names -> Seq(Nat)] /\ NoLists \in [Names -> Seq(Refs)]
    BY DEF NoLists
  <2> DEFINE ids == NewIds(Stmt.name, Len(machines) + 1, Qualified(Stmt.quals))
  <2>3. ids \in [Names -> Id]
    BY <2>1
  <2> HIDE DEF ids
  <2>4. /\ << >> \in Seq(Names) /\ << >> \in Seq(Nat) /\ << >> \in Seq(Infos)
        /\ << >> \in Seq(Names \union {None})
    OBVIOUS
  <2>5. "decls" \in Stages
    BY DEF Stages
  <2>6. [parent |-> current, name |-> Stmt.name, data |-> Stmt.data, stage |-> "decls",
         ids |-> ids,
         events |-> << >>, states |-> << >>, shared |-> {}, blocks |-> {},
         sharers |-> NoLists, subs |-> << >>, depth |-> 0, inhibits |-> {},
         infos |-> << >>, actions |-> << >>, fns |-> << >>, targets |-> << >>,
         returns |-> NoLists] \in Records
    BY <1>3, <1>4, <2>2, <2>3, <2>4, <2>5 DEF Records
  <2> QED BY <2>6 DEF ids, NewMachine
<1> DEFINE up == IF current = 0 THEN machines ELSE [machines EXCEPT ![current].stage = "subs"]
<1>7. /\ up \in Seq(Records) /\ Len(up) = Len(machines)
      /\ \A m \in Machines :
           up[m] = IF m = current THEN [machines[m] EXCEPT !.stage = "subs"] ELSE machines[m]
  <2>1. CASE current = 0
    BY <1>4, <2>1
  <2>2. CASE current # 0
    <3> DEFINE r == [machines[current] EXCEPT !.stage = "subs"]
    <3>1. r \in Records
      BY <1>4, <2>2 DEF Records, Stages, Cur
    <3>2. up = [machines EXCEPT ![current] = r]
      BY <1>4, <2>2
    <3> HIDE DEF r, up
    <3>3. /\ up \in Seq(Records) /\ Len(up) = Len(machines) /\ up[current] = r
          /\ \A m \in Machines : m # current => up[m] = machines[m]
      BY <1>4, <2>2, <3>1, <3>2
    <3> QED BY <3>3 DEF r
  <2> QED BY <2>1, <2>2
<1>8. machines' = Append(up, NewMachine)
  BY DEF BeginMachine, NewMachine
<1>9. current' = Len(machines) + 1 /\ scope' = current' /\ UNCHANGED pending
  BY DEF BeginMachine
<1> HIDE DEF up
<1>10. /\ machines' \in Seq(Records) /\ Len(machines') = Len(machines) + 1
       /\ machines'[Len(machines) + 1] = NewMachine
       /\ \A m \in Machines : machines'[m] = up[m]
  BY <1>4, <1>6, <1>7, <1>8
<1>11. Machines' = Machines \union {Len(machines) + 1} /\ Len(machines) + 1 \notin Machines
  BY <1>4, <1>10 DEF Machines
<1> QED BY <1>1, <1>2, <1>3, <1>5, <1>6, <1>7, <1>9, <1>10, <1>11

(* what the end of a sub-machine leaves alone in every record *)
Like(r, s) ==
  /\ r.parent = s.parent /\ r.name = s.name /\ r.data = s.data
  /\ r.events = s.events /\ r.states = s.states
  /\ r.shared = s.shared /\ r.sharers = s.sharers /\ r.infos = s.infos
  /\ r.actions = s.actions /\ r.fns = s.fns /\ r.targets = s.targets
  /\ r.returns = s.returns

FirstSub == Cur.parent # 0 /\ machines[Cur.parent].subs = << >>

(* The end of a sub-machine is recorded in its parent, the depth in all    *)
(* above it.                                                               *)
LEMMA EndMachineDoes ==
  ASSUME Typed, Nested, Focused, EndMachine
  PROVE  /\ Reading /\ Begins /\ current # 0 /\ current \in Machines /\ Cur \in Records
         /\ Cur.parent \in 0 .. current - 1 /\ Cur.parent \in {0} \union Machines
         /\ machines' \in Seq(Records) /\ Len(machines') = Len(machines) /\ Machines' = Machines
         /\ \A m \in Machines :
              /\ Like(machines'[m], machines[m])
              /\ machines'[m].stage = IF m = current THEN "ended" ELSE machines[m].stage
              /\ machines'[m].depth = IF FirstSub /\ m \in Ancestors(Cur.parent)
                                      THEN machines[m].depth + 1 ELSE machines[m].depth
              /\ m # Cur.parent => machines'[m].subs = machines[m].subs
                                   /\ machines'[m].ids = machines[m].ids
              /\ m = Cur.parent =>
                   /\ machines'[m].subs = Append(machines[m].subs, current)
                   /\ machines'[m].ids =
                        Own(AddId(machines[m].ids, Cur.name, "MACHINE"), Cur.name, current)
         /\ current' = Cur.parent /\ (Cur.parent # 0 => scope' = Cur.parent)
         /\ (Cur.parent = 0 => scope' = scope) /\ UNCHANGED pending
<1>1. Reading /\ Stmt.kind = "end" /\ Fits
  BY DEF EndMachine, Is
<1>2. Begins /\ current # 0
  BY <1>1 DEF Fits
<1>3. machines \in Seq(Records) /\ Len(machines) \in Nat /\ Machines = 1 .. Len(machines)
      /\ current \in Nat /\ current \in Machines /\ Cur \in Records
  BY <1>2, Placed DEF Typed
<1>4. Cur.parent \in 0 .. current - 1
  BY <1>3 DEF Nested, Cur
<1> DEFINE up == Cur.parent
<1>5. up \in {0} \union Machines /\ up \in Nat /\ up # current
  BY <1>3, <1>4
<1> DEFINE ms == IF FirstSub THEN Deepened(machines, up) ELSE machines
<1>6. /\ ms \in Seq(Records) /\ Len(ms) = Len(machines)
      /\ \A m \in Machines :
           /\ Like(ms[m], machines[m]) /\ ms[m].stage = machines[m].stage
           /\ ms[m].ids = machines[m].ids /\ ms[m].subs = machines[m].subs
           /\ ms[m].depth = IF FirstSub /\ m \in Ancestors(Cur.parent)
                            THEN machines[m].depth + 1 ELSE machines[m].depth
  <2>1. CASE ~FirstSub
    BY <1>3, <2>1 DEF Like
  <2>2. CASE FirstSub
    <3>1. ms = [n \in Machines |-> IF n \in Ancestors(up)
                  THEN [machines[n] EXCEPT !.depth = @ + 1] ELSE machines[n]]
      BY <2>2 DEF Deepened, Machines
    <3> HIDE DEF ms, up
    <3>2. ASSUME NEW n \in Machines PROVE [machines[n] EXCEPT !.depth = @ + 1] \in Records
      <4> DEFINE r == machines[n]
      <4>1. r \in Records
        BY <1>3
      <4> HIDE DEF r
      <4> DEFINE d == r.depth + 1
      <4>3. d \in Nat
        BY <4>1 DEF Records
      <4> HIDE DEF d
      <4>4. [r EXCEPT !.depth = d] \in Records
        BY <4>1, <4>3 DEF Records
      <4>2. [r EXCEPT !.depth = @ + 1] \in Records
        BY <4>4 DEF d
      <4> QED BY <4>2 DEF r
    <3>3. \A n \in Machines : ms[n] \in Records
      BY <1>3, <3>1, <3>2
    <3>4. ms = [n \in Machines |-> ms[n]]
      BY <3>1
    <3>5. ms \in Seq(Records) /\ Len(ms) = Len(machines)
      BY <1>3, <3>3, <3>4
    <3>6. ASSUME NEW m \in Machines
          PROVE  /\ Like(ms[m], machines[m]) /\ ms[m].stage = machines[m].stage
                 /\ ms[m].ids = machines[m].ids /\ ms[m].subs = machines[m].subs
                 /\ ms[m].depth = IF m \in Ancestors(up)
                                  THEN machines[m].depth + 1 ELSE machines[m].depth
      <4>1. machines[m] \in Records
        BY <1>3
      <4>2. CASE m \in Ancestors(up)
        <5>1. ms[m] = [machines[m] EXCEPT !.depth = @ + 1]
          BY <3>1, <4>2
        <5> QED BY <4>1, <4>2, <5>1 DEF Records, Like
      <4>3. CASE m \notin Ancestors(up)
        <5>1. ms[m] = machines[m]
          BY <3>1, <4>3
        <5> QED BY <4>3, <5>1 DEF Like
      <4> QED BY <4>2, <4>3
    <3> QED BY <2>2, <3>5, <3>6 DEF up
  <2> QED BY <2>1, <2>2
<1>7. machines' = IF up = 0 THEN [ms EXCEPT ![current].stage = "ended"]
                  ELSE [ms EXCEPT ![current].stage = "ended",
                          ![up].subs = Append(@, current),
                          ![up].ids = Own(AddId(@, Cur.name, "MACHINE"), Cur.name, current)]
  BY Zenon DEF EndMachine, FirstSub
<1>8. current' = up /\ (up # 0 => scope' = up) /\ (up = 0 => scope' = scope) /\ UNCHANGED pending
  BY <1>5 DEF EndMachine
<1> HIDE DEF ms
<1> DEFINE old == ms[current]
           ended == [old EXCEPT !.stage = "ended"]
           half == [ms EXCEPT ![current] = ended]
<1>9. ms \in Seq(Records) /\ Len(ms) = Len(machines) /\ DOMAIN ms = Machines /\ old \in Records
  BY <1>3, <1>6
<1>10. ended \in Records /\ Like(ended, old) /\ ended.stage = "ended" /\ ended.ids = old.ids
       /\ ended.subs = old.subs /\ ended.depth = old.depth
  <2> HIDE DEF old
  <2> QED BY <1>9 DEF Records, Stages, Like
<1> HIDE DEF ended
<1>11. /\ half \in Seq(Records) /\ Len(half) = Len(machines) /\ half[current] = ended
       /\ \A m \in Machines : m # current => half[m] = ms[m]
  BY <1>3, <1>9, <1>10
<1>12. CASE up = 0
  <2>1. machines' = half
    BY <1>7, <1>9, <1>12 DEF ended
  <2>2. Machines' = Machines
    BY <1>3, <1>11, <2>1 DEF Machines
  <2>3. ASSUME NEW m \in Machines
        PROVE  /\ Like(machines'[m], machines[m])
               /\ machines'[m].stage = IF m = current THEN "ended" ELSE machines[m].stage
               /\ machines'[m].depth = IF FirstSub /\ m \in Ancestors(Cur.parent)
                                       THEN machines[m].depth + 1 ELSE machines[m].depth
               /\ machines'[m].subs = machines[m].subs
               /\ machines'[m].ids = machines[m].ids
    <3> HIDE DEF half
    <3>1. CASE m = current
      BY <1>6, <1>10, <1>11, <2>1, <3>1 DEF Like
    <3>2. CASE m # current
      BY <1>6, <1>11, <2>1, <3>2
    <3> QED BY <3>1, <3>2
  <2> HIDE DEF half
  <2>4. \A m \in Machines : m # up
    BY <1>3, <1>12
  <2> QED BY <1>1, <1>2, <1>3, <1>4, <1>5, <1>8, <1>11, <2>1, <2>2, <2>3, <2>4
<1>13. CASE up # 0
  <2>1. up \in Machines /\ half[up] = ms[up] /\ half[up] \in Records
    BY <1>3, <1>5, <1>9, <1>11, <1>13
  <2> DEFINE was == machines[up]
             r == [half[up] EXCEPT !.subs = Append(@, current),
                                   !.ids = Own(AddId(@, Cur.name, "MACHINE"), Cur.name, current)]
  <2>2. r \in Records
    <3> DEFINE ids == Own(AddId(half[up].ids, Cur.name, "MACHINE"), Cur.name, current)
               subs == Append(half[up].subs, current)
    <3>1. half[up].ids \in [Names -> Id] /\ half[up].subs \in Seq(Nat) /\ Cur.name \in Names
          /\ "MACHINE" \in Types
      BY <1>3, <2>1 DEF Records, Types
    <3>2. AddId(half[up].ids, Cur.name, "MACHINE") \in [Names -> Id]
      BY <3>1, IdsTyped
    <3>3. ids \in [Names -> Id]
      BY <1>3, <3>1, <3>2, IdsTyped
    <3>4. subs \in Seq(Nat)
      BY <1>3, <3>1
    <3> HIDE DEF ids, subs
    <3>5. [half[up] EXCEPT !.subs = subs, !.ids = ids] \in Records
      <4> DEFINE h == half[up]
      <4>1. h \in Records
        BY <2>1
      <4> HIDE DEF h
      <4>2. [h EXCEPT !.subs = subs, !.ids = ids] \in Records
        BY <3>3, <3>4, <4>1 DEF Records
      <4> QED BY <4>2 DEF h
    <3> QED BY <3>5 DEF ids, subs
  <2>3. /\ r.subs = Append(was.subs, current)
        /\ r.ids = Own(AddId(was.ids, Cur.name, "MACHINE"), Cur.name, current)
        /\ Like(r, was) /\ r.stage = was.stage /\ r.depth = ms[up].depth
    <3> DEFINE h == ms[up]
    <3>1. h \in Records /\ Like(h, was) /\ h.stage = was.stage /\ h.subs = was.subs /\ h.ids = was.ids
      BY <1>6, <2>1
    <3>2. r = [h EXCEPT !.subs = Append(@, current),
                        !.ids = Own(AddId(@, Cur.name, "MACHINE"), Cur.name, current)]
      BY <2>1
    <3> HIDE DEF h, r, was
    <3>3. /\ r.subs = Append(was.subs, current)
          /\ r.ids = Own(AddId(was.ids, Cur.name, "MACHINE"), Cur.name, current)
          /\ r.stage = was.stage /\ r.depth = h.depth
      BY <3>1, <3>2 DEF Records
    <3>4. Like(r, was)
      BY <3>1, <3>2 DEF Records, Like
    <3> QED BY <3>3, <3>4 DEF h
  <2>4. machines' = [half EXCEPT ![up] = r]
    <3>1. machines' = [ms EXCEPT ![current].stage = "ended",
                          ![up].subs = Append(@, current),
                          ![up].ids = Own(AddId(@, Cur.name, "MACHINE"), Cur.name, current)]
      BY <1>7, <1>13
    <3>2. half[up] = ms[up] /\ DOMAIN ms = Machines /\ up # current
      BY <1>5, <1>9, <2>1
    <3> QED BY <1>3, <1>9, <2>1, <3>1, <3>2 DEF ended, Records
  <2> HIDE DEF r, half
  <2>5. /\ machines' \in Seq(Records) /\ Len(machines') = Len(machines) /\ machines'[up] = r
        /\ \A m \in Machines : m # up => machines'[m] = half[m]
    BY <1>3, <1>11, <2>1, <2>2, <2>4
  <2>6. Machines' = Machines
    BY <1>3, <2>5 DEF Machines
  <2>7. ASSUME NEW m \in Machines
        PROVE  /\ Like(machines'[m], machines[m])
               /\ machines'[m].stage = IF m = current THEN "ended" ELSE machines[m].stage
               /\ machines'[m].depth = IF FirstSub /\ m \in Ancestors(Cur.parent)
                                       THEN machines[m].depth + 1 ELSE machines[m].depth
               /\ m # up => machines'[m].subs = machines[m].subs
                            /\ machines'[m].ids = machines[m].ids
               /\ m = up => /\ machines'[m].subs = Append(machines[m].subs, current)
                            /\ machines'[m].ids =
                                 Own(AddId(machines[m].ids, Cur.name, "MACHINE"), Cur.name, current)
    <3>1. CASE m = current
      BY <1>5, <1>6, <1>10, <1>11, <2>5, <3>1 DEF Like
    <3>2. CASE m = up
      BY <1>5, <1>6, <2>3, <2>5, <3>2
    <3>3. CASE m # up /\ m # current
      BY <1>6, <1>11, <2>5, <3>3
    <3> QED BY <3>1, <3>2, <3>3
  <2> QED BY <1>1, <1>2, <1>3, <1>4, <1>5, <1>8, <2>5, <2>6, <2>7
<1> QED BY <1>12, <1>13

-----------------------------------------------------------------------------
(* The invariant, of one machine and of the parser. *)
Recorded(m) == /\ Staged(m) /\ Known(m) /\ Listed(m) /\ Tabled(m)
               /\ SharedOwn(m) /\ Vectors(m)
IParser == /\ Typed /\ Nested /\ Focused
           /\ \A m \in Machines : Recorded(m) /\ Sharing(m)
           /\ Returning /\ RefsThere

(* Members of a list that is one longer.                                   *)
LEMMA Appended ==
  ASSUME NEW S, NEW q \in Seq(S), NEW x
  PROVE  /\ Len(q) \in Nat /\ DOMAIN q = 1 .. Len(q) /\ DOMAIN Append(q, x) = 1 .. Len(q) + 1
         /\ \A i \in 1 .. Len(q) : Append(q, x)[i] = q[i]
         /\ Append(q, x)[Len(q) + 1] = x
         /\ ToSet(Append(q, x)) = ToSet(q) \union {x}
<1>1. /\ Len(q) \in Nat /\ DOMAIN q = 1 .. Len(q) /\ DOMAIN Append(q, x) = 1 .. Len(q) + 1
      /\ \A i \in 1 .. Len(q) : Append(q, x)[i] = q[i]
      /\ Append(q, x)[Len(q) + 1] = x
  OBVIOUS
<1>2. ToSet(Append(q, x)) = ToSet(q) \union {x}
  BY <1>1 DEF ToSet
<1> QED BY <1>1, <1>2

(* What a list names twice it still does when it is longer, and it names   *)
(* twice what is added again.                                              *)
LEMMA RepeatedAppended ==
  ASSUME NEW S, NEW q \in Seq(S), NEW e
  PROVE  /\ \A x : Repeated(q, x) => Repeated(Append(q, e), x)
         /\ e \in ToSet(q) => Repeated(Append(q, e), e)
<1> DEFINE L == Len(q)
           r == Append(q, e)
<1>1. /\ L \in Nat /\ DOMAIN q = 1 .. L /\ DOMAIN r = 1 .. L + 1
      /\ \A i \in 1 .. L : r[i] = q[i]
      /\ r[L + 1] = e
  BY Appended
<1> HIDE DEF L, r
<1>2. ASSUME NEW x, Repeated(q, x) PROVE Repeated(r, x)
  <2>1. PICK i \in DOMAIN q, j \in DOMAIN q : i # j /\ q[i] = x /\ q[j] = x
    BY <1>2 DEF Repeated
  <2>2. i \in DOMAIN r /\ j \in DOMAIN r /\ r[i] = x /\ r[j] = x
    BY <1>1, <2>1
  <2> QED BY <2>1, <2>2 DEF Repeated
<1>3. ASSUME e \in ToSet(q) PROVE Repeated(r, e)
  <2>1. PICK i \in DOMAIN q : q[i] = e
    BY <1>3 DEF ToSet
  <2>2. i \in DOMAIN r /\ L + 1 \in DOMAIN r /\ i # L + 1 /\ r[i] = e /\ r[L + 1] = e
    BY <1>1, <2>1
  <2> QED BY <2>2 DEF Repeated
<1> QED BY <1>2, <1>3 DEF r

(* What every step keeps: a machine's place and name, and what it has. *)
Grows ==
  /\ Machines \subseteq Machines' /\ Len(machines) <= Len(machines')
  /\ Sound' => Sound
  /\ \A m \in Machines :
       /\ machines'[m].parent = machines[m].parent /\ machines'[m].name = machines[m].name
       /\ ToSet(machines[m].events) \subseteq ToSet(machines'[m].events)
       /\ ToSet(machines[m].states) \subseteq ToSet(machines'[m].states)
       /\ ToSet(machines[m].subs) \subseteq ToSet(machines'[m].subs)
       /\ \A x : Repeated(machines[m].events, x) => Repeated(machines'[m].events, x)

(* The step does not touch what is recorded of m. *)
Alike(m) ==
  LET r == machines'[m]
      s == machines[m]
  IN  /\ r.ids = s.ids /\ r.events = s.events /\ r.states = s.states
      /\ r.shared = s.shared /\ r.sharers = s.sharers /\ r.subs = s.subs /\ r.infos = s.infos
      /\ r.actions = s.actions /\ r.fns = s.fns /\ r.targets = s.targets
      /\ r.stage \in {"decls", "subs"} => s.stage \in {"decls", "subs"}
      /\ r.stage = "decls" => s.stage = "decls"

(* The sub-machines of a machine are machines of which it is the parent.   *)
LEMMA SubsKnown ==
  ASSUME Nested, NEW m \in Machines, NEW o \in ToSet(machines[m].subs)
  PROVE  o \in Machines /\ machines[o].parent = m /\ ~Open(o)
BY DEF Nested

(* What is known of names, owners and references is not lost by a step that*)
(* lets machines grow.                                                     *)
LEMMA NamesSubKept ==
  ASSUME Typed, Nested, Grows, NEW m \in Machines, NEW x, NamesSub(m, x)
  PROVE  NamesSub(m, x)' 
<1>1. PICK i \in DOMAIN machines[m].subs : machines[machines[m].subs[i]].name = x
  BY DEF NamesSub
<1> DEFINE o == machines[m].subs[i]
<1>2. o \in ToSet(machines[m].subs)
  BY DEF ToSet
<1>3. o \in Machines /\ o \in ToSet(machines'[m].subs)
  BY <1>2, SubsKnown DEF Grows
<1>4. machines'[o].name = x
  BY <1>1, <1>3 DEF Grows
<1> HIDE DEF o
<1>5. PICK j \in DOMAIN machines'[m].subs : machines'[m].subs[j] = o
  BY <1>3 DEF ToSet
<1> QED BY <1>4, <1>5 DEF NamesSub

LEMMA SubNameKept ==
  ASSUME Typed, Nested, Grows, NEW m \in Machines, NEW o, NEW x, SubName(m, o, x)
  PROVE  SubName(m, o, x)'
<1>1. o \in ToSet(machines[m].subs) /\ machines[o].name = x
  BY DEF SubName
<1>2. o \in Machines
  BY <1>1, SubsKnown
<1> QED BY <1>1, <1>2 DEF SubName, Grows

LEMMA OwnNameKept ==
  ASSUME Grows, NEW m \in Machines, NEW o, NEW x, OwnName(m, o, x)
  PROVE  OwnName(m, o, x)'
BY DEF OwnName, Grows

LEMMA GoodRefKept ==
  ASSUME Typed, Nested, Grows, NEW m \in Machines, NEW r, GoodRef(m, r)
  PROVE  GoodRef(m, r)'
<1>1. PICK s \in Reach(m) : OwnName(s, r[1], r[2]) \/ SubName(s, r[1], r[2])
  BY DEF GoodRef
<1>2. s \in Machines /\ s \in Reach(m)'
  BY <1>1 DEF Reach, Grows
<1>3. OwnName(s, r[1], r[2])' \/ SubName(s, r[1], r[2])'
  BY <1>1, <1>2, OwnNameKept, SubNameKept
<1> QED BY <1>2, <1>3 DEF GoodRef

LEMMA HoldsKept ==
  ASSUME Typed, Nested, Grows, NEW m \in Machines, NEW x, NEW type,
         machines'[m].ids[x] = machines[m].ids[x], Holds(m, x, type)
  PROVE  Holds(m, x, type)'
BY NamesSubKept DEF Holds

LEMMA KnownAsKept ==
  ASSUME Typed, Nested, Grows, NEW m \in Machines, NEW x,
         machines'[m].ids[x] = machines[m].ids[x],
         x \in ToSet(machines'[m].events) => x \in ToSet(machines[m].events),
         KnownAs(m, x, machines[m].ids[x])
  PROVE  KnownAs(m, x, machines[m].ids[x])'
<1>1. PICK id : id = machines[m].ids[x]
  OBVIOUS
<1>2. /\ id.type = "MACHINE" => SubName(m, id.owner, x)
      /\ id.type \in {"EVENT", "STATE"} => OwnName(m, id.owner, x) \/ SubName(m, id.owner, x)
      /\ id.type = "EVENT" => x = noEvent \/ x \in ToSet(machines[m].events)
      /\ x \in ToSet(machines[m].events) => id.type # "none"
  BY <1>1 DEF KnownAs
<1>3. /\ id.type = "MACHINE" => SubName(m, id.owner, x)'
      /\ id.type \in {"EVENT", "STATE"} => OwnName(m, id.owner, x)' \/ SubName(m, id.owner, x)'
  BY <1>2, SubNameKept, OwnNameKept
<1>4. id.type = "EVENT" => x = noEvent \/ x \in ToSet(machines'[m].events)
  BY <1>2 DEF Grows
<1>5. KnownAs(m, x, id)'
  BY <1>2, <1>3, <1>4 DEF KnownAs
<1> QED BY <1>1, <1>5

(* What is recorded of a machine stays right where the step does not touch *)
(* it.                                                                     *)
LEMMA AlikeKeeps ==
  ASSUME Typed, Nested, Grows, NEW m \in Machines, Alike(m), Recorded(m)
  PROVE  Recorded(m)'
<1> DEFINE r == machines'[m]
           s == machines[m]
<1>1. /\ r.ids = s.ids /\ r.events = s.events /\ r.states = s.states
      /\ r.shared = s.shared /\ r.sharers = s.sharers /\ r.subs = s.subs /\ r.infos = s.infos
      /\ r.actions = s.actions /\ r.fns = s.fns /\ r.targets = s.targets
      /\ r.stage \in {"decls", "subs"} => s.stage \in {"decls", "subs"}
      /\ r.stage = "decls" => s.stage = "decls"
  BY DEF Alike
<1>2. Sound' => Sound
  BY DEF Grows
<1>3. Staged(m)'
  BY <1>1 DEF Staged, Recorded
<1>4. Known(m)'
  <2> SUFFICES ASSUME NEW x \in Names PROVE KnownAs(m, x, machines[m].ids[x])'
    BY DEF Known
  <2>1. KnownAs(m, x, machines[m].ids[x])
    BY DEF Known, Recorded
  <2> QED BY <1>1, <2>1, KnownAsKept
<1>5. Listed(m)'
  <2>1. ASSUME NEW x, NEW type, Holds(m, x, type) PROVE Holds(m, x, type)'
    BY <1>1, <2>1, HoldsKept
  <2>2. /\ \A x \in ToSet(s.events) : EventHeld(m, x)
        /\ \A x \in ToSet(s.states) : Holds(m, x, "STATE")
        /\ \A x \in ToSet(s.actions) : x # None => Holds(m, x, "ACTION")
    BY DEF Listed, Recorded
  <2>3. ASSUME NEW x, KeptAs(m, x) PROVE KeptAs(m, x)'
    BY <1>1, <2>3 DEF KeptAs
  <2>4. \A x \in ToSet(r.events) : EventHeld(m, x)'
    BY <1>1, <2>1, <2>2, <2>3 DEF EventHeld
  <2>5. /\ \A x \in ToSet(r.states) : Holds(m, x, "STATE")'
        /\ \A x \in ToSet(r.actions) : x # None => Holds(m, x, "ACTION")'
    BY <1>1, <2>1, <2>2
  <2> QED BY <2>4, <2>5 DEF Listed
<1>6. Tabled(m)'
  BY <1>1 DEF Tabled, Recorded
<1>7. SharedOwn(m)'
  BY <1>1 DEF SharedOwn, Recorded
<1>8. Vectors(m)'
  BY <1>1, <1>2 DEF Vectors, Recorded
<1> QED BY <1>3, <1>4, <1>5, <1>6, <1>7, <1>8 DEF Recorded

-----------------------------------------------------------------------------
(* No error is taken back.                                                 *)
LEMMA ErrorsStay == ASSUME ParserNext PROVE errors \subseteq errors' /\ (Sound' => Sound)
<1>1. errors \subseteq errors'
  <2>1. CASE BeginMachine BY <2>1 DEF BeginMachine, Advance
  <2>2. CASE DeclareState BY <2>2 DEF DeclareState, Advance
  <2>3. CASE DeclareEvent BY <2>3 DEF DeclareEvent, Advance
  <2>4. CASE ParentNamespace BY <2>4 DEF ParentNamespace, Advance
  <2>5. CASE ParentOfTop BY <2>5 DEF ParentOfTop
  <2>6. CASE SubNamespace BY <2>6 DEF SubNamespace, Advance
  <2>7. CASE ReferParentEvent BY <2>7 DEF ReferParentEvent, Advance
  <2>8. CASE DeclareAction BY <2>8 DEF DeclareAction, Advance
  <2>9. CASE DeclareTransition BY <2>9 DEF DeclareTransition, Advance
  <2>10. CASE BeginReturns BY <2>10 DEF BeginReturns, Advance
  <2>11. CASE Returned BY <2>11 DEF Returned, Advance
  <2>12. CASE EndReturns BY <2>12 DEF EndReturns, Advance
  <2>13. CASE EndMachine BY <2>13 DEF EndMachine, Advance
  <2>14. CASE SyntaxError BY <2>14 DEF SyntaxError
  <2> QED BY <2>1, <2>2, <2>3, <2>4, <2>5, <2>6, <2>7, <2>8, <2>9, <2>10, <2>11, <2>12, <2>13, <2>14
          DEF ParserNext
<1> QED BY <1>1 DEF Sound

(* The nesting is the same when no machine begins or ends.                 *)
LEMMA NestedSame ==
  ASSUME Typed, Nested, Machines' = Machines, current' = current,
         \A m \in Machines :
           /\ machines'[m].parent = machines[m].parent /\ machines'[m].subs = machines[m].subs
           /\ machines'[m].stage = "ended" <=> machines[m].stage = "ended"
           /\ m # current => machines'[m].stage = machines[m].stage
  PROVE  Nested'
<1>1. \A m \in Machines : Open(m)' <=> Open(m)
  BY DEF Open
<1>2. current # 0 => current \in Machines
  BY Placed
<1>3. \A m \in Machines : machines'[m].parent \in 0 .. m - 1
  BY DEF Nested
<1>4. \A m \in Machines : machines[m].parent # 0 => machines[m].parent \in Machines
  BY Placed DEF Nested
<1>5. ASSUME NEW m \in Machines, Open(m)
      PROVE  /\ m <= current
             /\ machines'[m].parent # 0 => Open(machines[m].parent)'
             /\ m # current => machines'[m].stage = "subs"
             /\ \A c \in Machines : machines'[c].parent = machines'[m].parent => c <= m
             /\ \A k \in Machines : Open(k) /\ m < k => m <= machines'[k].parent
  BY <1>1, <1>4, <1>5 DEF Nested
<1>6. \A m \in Machines :
        ToSet(machines'[m].subs) = {c \in Machines : machines'[c].parent = m /\ ~Open(c)'}
  BY <1>1 DEF Nested
<1>7. current # 0 => Open(current)'
  BY <1>1, <1>2 DEF Nested
<1>8. \A m \in Machines : Open(m)' =>
        /\ m <= current
        /\ machines'[m].parent # 0 => Open(machines[m].parent)'
        /\ m # current => machines'[m].stage = "subs"
        /\ \A c \in Machines : machines'[c].parent = machines'[m].parent => c <= m
        /\ \A k \in Machines : Open(k)' /\ m < k => m <= machines'[k].parent
  BY <1>1, <1>5
<1> QED BY <1>3, <1>6, <1>7, <1>8 DEF Nested

(* The sharers of an event stay in order.                                  *)
LEMMA OrderedKept ==
  ASSUME Grows, NEW m \in Machines, NEW x, machines'[m].sharers[x] = machines[m].sharers[x],
         \A i \in DOMAIN machines[m].sharers[x] : machines[m].sharers[x][i] \in Machines,
         Ordered(m, x)
  PROVE  Ordered(m, x)'
<1>1. PICK q : q = machines[m].sharers[x] /\ q = machines'[m].sharers[x]
  OBVIOUS
<1>2. \A i, j \in DOMAIN q : i < j =>
        q[i] < q[j] \/ (q[i] = q[j] /\ Repeated(machines[q[i]].events, x))
  BY <1>1 DEF Ordered
<1>3. \A i \in DOMAIN q : Repeated(machines[q[i]].events, x) => Repeated(machines'[q[i]].events, x)
  BY <1>1 DEF Grows
<1>4. \A i, j \in DOMAIN q : i < j =>
        q[i] < q[j] \/ (q[i] = q[j] /\ Repeated(machines'[q[i]].events, x))
  BY <1>2, <1>3
<1> QED BY <1>1, <1>4 DEF Ordered

(* So are the sharers when nothing is shared.                              *)
LEMMA SharingSame ==
  ASSUME Typed, Nested, Grows, Machines' = Machines,
         \A m \in Machines : machines'[m].sharers = machines[m].sharers
                             /\ machines'[m].shared = machines[m].shared,
         NEW m \in Machines, Sharing(m)
  PROVE  Sharing(m)'
<1> SUFFICES ASSUME NEW x \in Names
             PROVE  LET q == machines'[m].sharers[x] IN
               /\ \A i \in DOMAIN q : q[i] \in Machines /\ machines'[q[i]].parent = m
               /\ Sound' =>
                    /\ ToSet(q) = {c \in Machines : machines'[c].parent = m /\ x \in machines'[c].shared}
                    /\ Ordered(m, x)'
                    /\ q # << >> => x = noEvent \/ x \in ToSet(machines'[m].events)
  BY DEF Sharing
<1> DEFINE q == machines[m].sharers[x]
<1>1. q = machines'[m].sharers[x]
  OBVIOUS
<1>2. /\ \A i \in DOMAIN q : q[i] \in Machines /\ machines[q[i]].parent = m
      /\ Sound =>
           /\ ToSet(q) = {c \in Machines : machines[c].parent = m /\ x \in machines[c].shared}
           /\ Ordered(m, x)
           /\ q # << >> => x = noEvent \/ x \in ToSet(machines[m].events)
  BY DEF Sharing
<1>6. Sound' => Ordered(m, x)'
  BY <1>1, <1>2, OrderedKept DEF Grows
<1> HIDE DEF q
<1>3. \A i \in DOMAIN q : q[i] \in Machines /\ machines'[q[i]].parent = m
  BY <1>2 DEF Grows
<1>4. {c \in Machines : machines[c].parent = m /\ x \in machines[c].shared} =
      {c \in Machines : machines'[c].parent = m /\ x \in machines'[c].shared}
  BY DEF Grows
<1>5. (Sound' => Sound) /\ (x \in ToSet(machines[m].events) => x \in ToSet(machines'[m].events))
  BY DEF Grows
<1> QED BY <1>1, <1>2, <1>3, <1>4, <1>5, <1>6

(* And what is returned.                                                   *)
LEMMA ReturningSame ==
  ASSUME Typed, Nested, Grows, Returning, UNCHANGED pending, current' = current,
         Machines' = Machines, pending.refs # << >> => current \in Machines,
         \A m \in Machines : machines'[m].returns = machines[m].returns
  PROVE  Returning'
<1> SUFFICES ASSUME Sound'
             PROVE  /\ \A m \in Machines : \A a \in Names :
                         \A i \in DOMAIN machines'[m].returns[a] : GoodRef(m, machines[m].returns[a][i])'
                    /\ \A i \in DOMAIN pending.refs : GoodRef(current, pending.refs[i])'
  BY DEF Returning
<1>1. Sound
  BY DEF Grows
<1>2. ASSUME NEW m \in Machines, NEW a \in Names, NEW i \in DOMAIN machines'[m].returns[a]
      PROVE  GoodRef(m, machines[m].returns[a][i])'
  <2>1. PICK r : r = machines[m].returns[a][i]
    OBVIOUS
  <2>2. GoodRef(m, r)
    BY <1>1, <2>1 DEF Returning
  <2>3. GoodRef(m, r)'
    BY <2>2, GoodRefKept
  <2> QED BY <2>1, <2>3
<1>3. ASSUME NEW i \in DOMAIN pending.refs PROVE GoodRef(current, pending.refs[i])'
  <2>1. PICK r, c : r = pending.refs[i] /\ c = current
    OBVIOUS
  <2>2. pending.refs # << >>
    OBVIOUS
  <2>3. c \in Machines /\ GoodRef(c, r)
    BY <1>1, <2>1, <2>2 DEF Returning
  <2>4. GoodRef(c, r)'
    BY <2>3, GoodRefKept
  <2> QED BY <2>1, <2>4
<1> QED BY <1>2, <1>3

(* A step that changes the record of the current machine alone keeps the   *)
(* invariant when that record is right and the place is.                   *)
LEMMA CurrentKeeps ==
  ASSUME IParser, ParserNext, NEW r, OnlyCurrent(r), current' = current,
         r.parent = Cur.parent, r.name = Cur.name, r.subs = Cur.subs,
         r.shared = Cur.shared, r.sharers = Cur.sharers, r.stage # "ended",
         ToSet(Cur.events) \subseteq ToSet(r.events), ToSet(Cur.states) \subseteq ToSet(r.states),
         \A x : Repeated(Cur.events, x) => Repeated(r.events, x)
  PROVE  /\ Grows /\ Nested'
         /\ \A m \in Machines : Sharing(m)' /\ (m # current => Recorded(m)')
<1>1. /\ current # 0 /\ current \in Machines /\ Cur = machines[current]
      /\ Machines' = Machines /\ Len(machines') = Len(machines)
      /\ machines'[current] = r
      /\ \A m \in Machines : m # current => machines'[m] = machines[m]
  BY DEF OnlyCurrent, Cur
<1>2. Typed /\ Nested /\ Len(machines) \in Nat
  BY Placed DEF IParser
<1>3. Grows
  <2>1. Sound' => Sound
    BY ErrorsStay
  <2>2. ASSUME NEW m \in Machines
        PROVE  /\ machines'[m].parent = machines[m].parent /\ machines'[m].name = machines[m].name
               /\ ToSet(machines[m].events) \subseteq ToSet(machines'[m].events)
               /\ ToSet(machines[m].states) \subseteq ToSet(machines'[m].states)
               /\ ToSet(machines[m].subs) \subseteq ToSet(machines'[m].subs)
               /\ \A x : Repeated(machines[m].events, x) => Repeated(machines'[m].events, x)
    <3>1. CASE m = current
      BY <1>1, <3>1
    <3>2. CASE m # current
      <4>1. machines'[m] = machines[m]
        BY <1>1, <3>2
      <4> QED BY <4>1
    <3> QED BY <3>1, <3>2
  <2>3. Machines \subseteq Machines' /\ Len(machines) <= Len(machines')
    BY <1>1, <1>2
  <2> QED BY <2>1, <2>2, <2>3 DEF Grows
<1>4. Nested'
  <2>1. machines[current].stage # "ended"
    BY <1>1, <1>2 DEF Nested, Open
  <2>2. \A m \in Machines :
           /\ machines'[m].parent = machines[m].parent /\ machines'[m].subs = machines[m].subs
           /\ machines'[m].stage = "ended" <=> machines[m].stage = "ended"
           /\ m # current => machines'[m].stage = machines[m].stage
    BY <1>1, <2>1
  <2> QED BY <1>1, <1>2, <2>2, NestedSame
<1>5. ASSUME NEW m \in Machines PROVE Sharing(m)'
  <2>1. \A k \in Machines : machines'[k].sharers = machines[k].sharers
                            /\ machines'[k].shared = machines[k].shared
    BY <1>1
  <2>2. Sharing(m)
    BY DEF IParser
  <2> QED BY <1>1, <1>2, <1>3, <2>1, <2>2, SharingSame
<1>6. ASSUME NEW m \in Machines, m # current PROVE Recorded(m)'
  <2>1. Alike(m)
    BY <1>1, <1>6 DEF Alike
  <2>2. Recorded(m)
    BY DEF IParser
  <2> QED BY <1>2, <1>3, <2>1, <2>2, AlikeKeeps
<1> QED BY <1>3, <1>4, <1>5, <1>6

(* The text goes on, and with it the place. *)
LEMMA Onward ==
  ASSUME Typed, Reading, at' = at + 1, text' = text
  PROVE  /\ text' \in Inputs /\ at' \in 1 .. Len(text') + 1
         /\ at' > 1 /\ text'[at' - 1] = Stmt
<1>1. Len(text) \in Nat /\ at \in 1 .. Len(text)
  BY Statement
<1> QED BY <1>1 DEF Typed, Stmt

(* After a statement without a namespace the own list is searched. *)
LEMMA PlainFocus ==
  ASSUME Typed, Reading, at' = at + 1, text' = text, Stmt.kind \notin {"parent", "sub"},
         pending'.of # None => current' # 0 /\ machines'[current'].stage = "does",
         current' # 0 => scope' = current'
  PROVE  Focused'
<1>1. Namespaced' = FALSE
  BY Onward DEF Namespaced
<1> QED BY <1>1 DEF Focused, Cur

(* The identifiers after an entry. *)
LEMMA AfterSet ==
  ASSUME NEW ids \in [Names -> Id], NEW x \in Names, NEW type, NEW y \in Names
  PROVE  SetType(ids, x, type)[y] =
           IF y = x THEN [type |-> type, owner |-> ids[x].owner] ELSE ids[y]
<1>1. ids[x] \in Id
  OBVIOUS
<1> QED BY <1>1 DEF SetType, Id

LEMMA AfterOwn ==
  ASSUME NEW ids \in [Names -> Id], NEW x \in Names, NEW m, NEW y \in Names
  PROVE  Own(ids, x, m)[y] = IF y = x THEN [type |-> ids[x].type, owner |-> m] ELSE ids[y]
<1>1. ids[x] \in Id
  OBVIOUS
<1> QED BY <1>1 DEF Own, Id

LEMMA AfterAdd ==
  ASSUME NEW ids \in [Names -> Id], NEW x \in Names, NEW type, NEW y \in Names
  PROVE  AddId(ids, x, type)[y] =
           IF y = x /\ ids[x].type = "none" THEN [type |-> type, owner |-> ids[x].owner] ELSE ids[y]
<1>1. AddId(ids, x, type) = IF ids[x].type = "none" THEN SetType(ids, x, type) ELSE ids
  BY DEF AddId, SetType
<1> QED BY <1>1, AfterSet

LEMMA Retyped ==
  ASSUME NEW ids \in [Names -> Id], NEW x \in Names, NEW type \in Types, NEW m \in Nat
  PROVE  /\ Own(SetType(ids, x, type), x, m)[x] = [type |-> type, owner |-> m]
         /\ \A y \in Names : y # x => Own(SetType(ids, x, type), x, m)[y] = ids[y]
<1> DEFINE set == SetType(ids, x, type)
<1>1. set \in [Names -> Id]
  BY IdsTyped
<1>2. \A y \in Names : set[y] = IF y = x THEN [type |-> type, owner |-> ids[x].owner] ELSE ids[y]
  BY AfterSet
<1> HIDE DEF set
<1>3. \A y \in Names : Own(set, x, m)[y] = IF y = x THEN [type |-> set[x].type, owner |-> m] ELSE set[y]
  BY <1>1, AfterOwn
<1>4. set[x].type = type
  BY <1>2
<1> QED BY <1>2, <1>3, <1>4 DEF set

(* Owners still exist.                                                     *)
LEMMA RefsSame ==
  ASSUME RefsThere, Machines' = Machines, Len(machines') = Len(machines), UNCHANGED pending,
         \A m \in Machines :
           /\ machines'[m].returns = machines[m].returns
           /\ \A x \in Names : machines'[m].ids[x].owner <= Len(machines)
  PROVE  RefsThere'
BY DEF RefsThere

(* Entries that leave everything as known leave the lists right. *)
LEMMA EntriesKeep ==
  ASSUME Typed, Nested, Grows, NEW m \in Machines, machines'[m] \in Records, Recorded(m),
         \A y \in Names :
           \/ /\ machines'[m].ids[y] = machines[m].ids[y]
              /\ y \in ToSet(machines'[m].events) => y \in ToSet(machines[m].events)
           \/ /\ KnownAs(m, y, machines[m].ids[y])'
              /\ \A type \in {"EVENT", "STATE", "ACTION"} :
                   machines[m].ids[y].type = type => Holds(m, y, type)'
              /\ KeptAs(m, y) => EventHeld(m, y)',
         machines[m].shared \subseteq machines'[m].shared,
         \A y \in ToSet(machines'[m].events) :
           y \in ToSet(machines[m].events) \/ EventHeld(m, y)',
         \A y \in ToSet(machines'[m].states) :
           y \in ToSet(machines[m].states) \/ Holds(m, y, "STATE")',
         \A y \in ToSet(machines'[m].actions) :
           y # None => y \in ToSet(machines[m].actions) \/ Holds(m, y, "ACTION")'
  PROVE  Known(m)' /\ Listed(m)'
<1>1. Known(m) /\ Listed(m)
  BY DEF Recorded
<1>2. ASSUME NEW y \in Names PROVE KnownAs(m, y, machines[m].ids[y])'
  <2>1. CASE KnownAs(m, y, machines[m].ids[y])'
    BY <2>1
  <2>2. CASE /\ machines'[m].ids[y] = machines[m].ids[y]
             /\ y \in ToSet(machines'[m].events) => y \in ToSet(machines[m].events)
    <3>1. KnownAs(m, y, machines[m].ids[y])
      BY <1>1 DEF Known
    <3> QED BY <2>2, <3>1, KnownAsKept
  <2> QED BY <2>1, <2>2
<1>3. ASSUME NEW y \in Names, NEW type \in {"EVENT", "STATE", "ACTION"}, Holds(m, y, type)
      PROVE  Holds(m, y, type)'
  <2>1. CASE machines'[m].ids[y] = machines[m].ids[y]
    BY <1>3, <2>1, HoldsKept
  <2>2. CASE machines[m].ids[y].type = type => Holds(m, y, type)'
    <3>1. CASE machines[m].ids[y].type = type
      BY <2>2, <3>1
    <3>2. CASE machines[m].ids[y].type # type
      <4>1. NamesSub(m, y)
        BY <1>3, <3>2 DEF Holds
      <4>2. NamesSub(m, y)'
        BY <4>1, NamesSubKept
      <4> QED BY <4>2 DEF Holds
    <3> QED BY <3>1, <3>2
  <2> QED BY <2>1, <2>2
<1>4. /\ \A y \in ToSet(machines'[m].events) : y \in Names
      /\ \A y \in ToSet(machines'[m].states) : y \in Names
      /\ \A y \in ToSet(machines'[m].actions) : y # None => y \in Names
  <2>1. /\ machines'[m].events \in Seq(Names) /\ machines'[m].states \in Seq(Names)
        /\ machines'[m].actions \in Seq(Names \union {None})
    BY DEF Records
  <2> QED BY <2>1 DEF ToSet
<1>5. ASSUME NEW y \in Names, EventHeld(m, y) PROVE EventHeld(m, y)'
  <2>1. CASE Holds(m, y, "EVENT")
    BY <1>3, <2>1 DEF EventHeld
  <2>2. CASE KeptAs(m, y) /\ machines'[m].ids[y] = machines[m].ids[y]
    <3>1. KeptAs(m, y)'
      BY <2>2 DEF KeptAs
    <3> QED BY <3>1 DEF EventHeld
  <2>3. CASE KeptAs(m, y) /\ (KeptAs(m, y) => EventHeld(m, y)')
    BY <2>3
  <2> QED BY <1>5, <2>1, <2>2, <2>3 DEF EventHeld
<1>6. ASSUME NEW y \in ToSet(machines'[m].events) PROVE EventHeld(m, y)'
  <2>1. y \in ToSet(machines[m].events) => EventHeld(m, y)
    BY <1>1 DEF Listed
  <2> QED BY <1>4, <1>5, <2>1
<1>7. ASSUME NEW y \in ToSet(machines'[m].states) PROVE Holds(m, y, "STATE")'
  <2>1. y \in ToSet(machines[m].states) => Holds(m, y, "STATE")
    BY <1>1 DEF Listed
  <2> QED BY <1>3, <1>4, <2>1
<1>8. ASSUME NEW y \in ToSet(machines'[m].actions), y # None PROVE Holds(m, y, "ACTION")'
  <2>1. y \in ToSet(machines[m].actions) => Holds(m, y, "ACTION")
    BY <1>1, <1>8 DEF Listed
  <2> QED BY <1>3, <1>4, <1>8, <2>1
<1> QED BY <1>2, <1>6, <1>7, <1>8 DEF Known, Listed

(* Nothing has been done in the machine yet. *)
LEMMA NothingDone ==
  ASSUME NEW m, machines'[m].infos = << >>, machines'[m].actions = << >>,
         machines'[m].fns = << >>, machines'[m].targets = << >>
  PROVE  Tabled(m)' /\ Vectors(m)'
<1>1. DOMAIN << >> = {} /\ ToSet(<< >>) = {} /\ IsInjective(<< >>)
  BY DEF ToSet, IsInjective
<1>2. Tabled(m)'
  <2> DEFINE M == machines'[m]
  <2>1. {M.infos[i].to : i \in DOMAIN M.infos} = {} /\ {M.infos[i].action : i \in DOMAIN M.infos} = {}
    BY <1>1
  <2> QED BY <1>1, <2>1 DEF Tabled
<1>3. Vectors(m)'
  BY <1>1 DEF Vectors
<1> QED BY <1>2, <1>3

(* Where the parser is after a declaration.                                *)
LEMMA SamePlace ==
  ASSUME Typed, machines' \in Seq(Records), Len(machines') = Len(machines), Machines' = Machines,
         current' = current, scope' = scope,
         UNCHANGED pending, text' \in Inputs, at' \in 1 .. Len(text') + 1
  PROVE  Typed'
<1>1. machines' = << >> <=> machines = << >>
  BY DEF Typed
<1> QED BY <1>1 DEF Typed, Machines

LEMMA DeclareStateKeeps == ASSUME IParser, DeclareState PROVE IParser'
<1> DEFINE x == Stmt.name
           M == machines[current]
           r == WithState
<1>1. Typed /\ Nested /\ Focused /\ ParserNext
  BY DEF IParser, ParserNext
<1>2. /\ Reading /\ Begins /\ Cur.stage = "decls" /\ x \in Names
      /\ TypeOf(current, x) = "ID" /\ OnlyCurrent(r)
  BY <1>1, DeclareStateDoes
<1>3. /\ current # 0 /\ current \in Machines /\ Cur = M /\ M \in Records /\ M.stage = "decls"
      /\ machines'[current] = r /\ Machines' = Machines /\ scope = current
      /\ current' = current /\ scope' = scope /\ pending' = pending
      /\ text' = text /\ at' = at + 1 /\ errors' = errors
      /\ Stmt.kind = "state"
  BY <1>2 DEF OnlyCurrent, Cur, DeclareState, Advance, Is
<1>4. /\ r.parent = M.parent /\ r.name = M.name /\ r.subs = M.subs /\ r.stage = M.stage
      /\ r.shared = M.shared /\ r.sharers = M.sharers /\ r.events = M.events
      /\ r.states = Append(M.states, x) /\ r.infos = M.infos /\ r.actions = M.actions
      /\ r.fns = M.fns /\ r.targets = M.targets /\ r.returns = M.returns
      /\ r.ids = Own(SetType(M.ids, x, "STATE"), x, current)
  BY <1>3 DEF WithState, Records
<1>5. M.ids \in [Names -> Id] /\ M.states \in Seq(Names)
  BY <1>3 DEF Records
<1>6. ToSet(r.states) = ToSet(M.states) \union {x}
  BY <1>4, <1>5, Appended
<1>7. r.ids[x] = [type |-> "STATE", owner |-> current] /\ \A y \in Names : y # x => r.ids[y] = M.ids[y]
  <2>1. "STATE" \in Types /\ current \in Nat
    BY <1>3, Placed DEF Types, IParser
  <2> QED BY <1>2, <1>4, <1>5, <2>1, Retyped
<1> HIDE DEF r, x
<1>8. Grows /\ Nested' /\ \A m \in Machines : Sharing(m)' /\ (m # current => Recorded(m)')
  BY <1>1, <1>2, <1>3, <1>4, <1>6, CurrentKeeps
<1>9. M.ids[x].type \in {"none", "ID"}
  BY <1>2, <1>3 DEF TypeOf
<1>10. Recorded(current)
  BY <1>3 DEF IParser
<1>11. PICK c : c = current
  OBVIOUS
<1>12. Staged(c)'
  <2>1. Staged(current)
    BY <1>10 DEF Recorded
  <2>2. /\ M.infos = << >> /\ M.actions = << >> /\ M.fns = << >> /\ M.targets = << >>
        /\ \A y \in Names : M.ids[y].type # "MACHINE"
    BY <1>3, <2>1 DEF Staged
  <2>3. \A y \in Names : r.ids[y].type # "MACHINE"
    BY <1>7, <2>2
  <2> QED BY <1>3, <1>4, <1>11, <2>2, <2>3 DEF Staged
<1>13. machines'[c] = r /\ machines[c] = M /\ r \in Records /\ c \in Machines
  BY <1>2, <1>3, <1>11 DEF OnlyCurrent
<1>14. Known(c)' /\ Listed(c)'
  <2>1. ASSUME NEW y \in Names, y = x
        PROVE  /\ KnownAs(c, y, machines[c].ids[y])' /\ Holds(c, y, "STATE")'
               /\ machines[c].ids[y].type \notin {"EVENT", "STATE", "ACTION"}
               /\ KeptAs(c, y) => EventHeld(c, y)'
    <3>1. machines'[c].ids[y] = [type |-> "STATE", owner |-> c]
      BY <1>7, <1>11, <1>13, <2>1
    <3>2. y \in ToSet(machines'[c].states)
      BY <1>6, <1>13, <2>1
    <3>3. KeptAs(c, y) => KeptAs(c, y)'
      BY <1>4, <1>13, <3>1 DEF KeptAs
    <3>4. KeptAs(c, y) => EventHeld(c, y)'
      BY <3>3 DEF EventHeld
    <3> QED BY <1>9, <1>13, <2>1, <3>1, <3>2, <3>4 DEF KnownAs, OwnName, Holds
  <2>2. \A y \in Names : y # x => machines'[c].ids[y] = machines[c].ids[y]
    BY <1>7, <1>13
  <2>3. /\ machines'[c].events = machines[c].events /\ machines'[c].actions = machines[c].actions
        /\ ToSet(machines'[c].states) = ToSet(machines[c].states) \union {x}
        /\ machines'[c].shared = machines[c].shared
    BY <1>4, <1>6, <1>13
  <2> QED BY <1>1, <1>2, <1>8, <1>10, <1>11, <1>13, <2>1, <2>2, <2>3, EntriesKeep
<1>15. Tabled(c)' /\ Vectors(c)' /\ SharedOwn(c)'
  <2>1. M.infos = << >> /\ M.actions = << >> /\ M.fns = << >> /\ M.targets = << >>
    BY <1>3, <1>10, <1>11 DEF Recorded, Staged
  <2>2. /\ machines'[c].infos = << >> /\ machines'[c].actions = << >>
        /\ machines'[c].fns = << >> /\ machines'[c].targets = << >>
        /\ machines'[c].events = machines[c].events /\ machines'[c].shared = machines[c].shared
    BY <1>4, <1>13, <2>1
  <2>3. SharedOwn(c)'
    BY <1>10, <1>11, <2>2 DEF SharedOwn, Recorded
  <2> QED BY <2>2, <2>3, NothingDone
<1>16. \A m \in Machines : Recorded(m)'
  BY <1>8, <1>12, <1>11, <1>14, <1>15 DEF Recorded
<1>17. Typed'
  <2>1. text' \in Inputs /\ at' \in 1 .. Len(text') + 1
    BY <1>1, <1>2, <1>3, Onward
  <2>2. machines' \in Seq(Records) /\ Len(machines') = Len(machines)
    BY <1>2 DEF OnlyCurrent
  <2> QED BY <1>1, <1>3, <2>1, <2>2, SamePlace
<1>18. Focused'
  BY <1>1, <1>2, <1>3, PlainFocus DEF Begins
<1>19. Returning' /\ RefsThere'
  <2>1. \A m \in Machines : machines'[m].returns = machines[m].returns
    BY <1>2, <1>3, <1>4 DEF OnlyCurrent
  <2>2. ASSUME NEW m \in Machines, NEW y \in Names PROVE machines'[m].ids[y].owner <= Len(machines)
    <3>1. machines[m].ids[y].owner <= Len(machines) /\ current <= Len(machines)
      BY <1>3, Placed DEF IParser, RefsThere
    <3>2. CASE m = current /\ y = x
      BY <1>3, <1>7, <3>1, <3>2
    <3>3. CASE m = current /\ y # x
      BY <1>3, <1>7, <3>1, <3>3
    <3>4. CASE m # current
      BY <1>2, <3>1, <3>4 DEF OnlyCurrent
    <3> QED BY <3>2, <3>3, <3>4
  <2>3. Len(machines') = Len(machines)
    BY <1>2 DEF OnlyCurrent
  <2> QED BY <1>1, <1>3, <1>8, <2>1, <2>2, <2>3, ReturningSame, RefsSame DEF IParser
<1> QED BY <1>3, <1>8, <1>16, <1>17, <1>18, <1>19 DEF IParser

(* The translator of an event is entered, and nothing else.                *)
LEMMA TranslatedIs ==
  ASSUME Typed, Reading, Stmt.kind \in {"event", "parentEvent"}, NEW ids \in [Names -> Id],
         NEW y \in Names
  PROVE  \/ Translated(ids)[y] = ids[y]
         \/ ids[y].type = "none" /\ Translated(ids)[y] = [type |-> "ID", owner |-> ids[y].owner]
<1>1. Stmt.translator # None => Stmt.translator \in Names
  BY OfKind
<1>2. CASE Stmt.translator = None
  BY <1>2 DEF Translated
<1>3. CASE Stmt.translator # None
  <2> DEFINE tr == Stmt.translator
  <2>1. Translated(ids) = AddId(ids, tr, "ID") /\ tr \in Names
    BY <1>1, <1>3 DEF Translated
  <2> HIDE DEF tr
  <2>2. AddId(ids, tr, "ID")[y] =
          IF y = tr /\ ids[tr].type = "none" THEN [type |-> "ID", owner |-> ids[tr].owner] ELSE ids[y]
    BY <2>1, AfterAdd
  <2>3. CASE y = tr
    BY <2>1, <2>2, <2>3
  <2>4. CASE y # tr
    BY <2>1, <2>2, <2>4
  <2> QED BY <2>3, <2>4
<1> QED BY <1>2, <1>3

LEMMA DeclareEventKeeps == ASSUME IParser, DeclareEvent PROVE IParser'
<1> DEFINE x == Stmt.name
           M == machines[current]
           r == WithEvent
<1>1. Typed /\ Nested /\ Focused /\ ParserNext
  BY DEF IParser, ParserNext
<1>2. /\ Reading /\ Begins /\ Cur.stage = "decls" /\ x \in Names
      /\ TypeOf(current, x) = "ID" /\ OnlyCurrent(r)
  BY <1>1, DeclareEventDoes
<1>3. /\ current # 0 /\ current \in Machines /\ Cur = M /\ M \in Records /\ M.stage = "decls"
      /\ machines'[current] = r /\ Machines' = Machines /\ scope = current
      /\ current' = current /\ scope' = scope /\ pending' = pending
      /\ text' = text /\ at' = at + 1
      /\ Stmt.kind = "event"
  BY <1>2 DEF OnlyCurrent, Cur, DeclareEvent, Advance, Is
<1>4. /\ r.parent = M.parent /\ r.name = M.name /\ r.subs = M.subs /\ r.stage = M.stage
      /\ r.shared = M.shared /\ r.sharers = M.sharers /\ r.states = M.states
      /\ r.events = Append(M.events, x) /\ r.infos = M.infos /\ r.actions = M.actions
      /\ r.fns = M.fns /\ r.targets = M.targets /\ r.returns = M.returns
      /\ r.ids = Own(SetType(Translated(M.ids), x, "EVENT"), x, current)
  BY <1>3 DEF WithEvent, Records
<1>5. M.ids \in [Names -> Id] /\ M.events \in Seq(Names)
  BY <1>3 DEF Records
<1>6. /\ ToSet(r.events) = ToSet(M.events) \union {x}
      /\ \A y : Repeated(M.events, y) => Repeated(r.events, y)
  BY <1>4, <1>5, Appended, RepeatedAppended
<1>7. /\ r.ids[x] = [type |-> "EVENT", owner |-> current]
      /\ \A y \in Names : y # x =>
           \/ r.ids[y] = M.ids[y]
           \/ M.ids[y].type = "none" /\ r.ids[y] = [type |-> "ID", owner |-> M.ids[y].owner]
  <2>1. "EVENT" \in Types /\ current \in Nat
    BY <1>3, Placed DEF Types, IParser
  <2> DEFINE ids == Translated(M.ids)
  <2>2. /\ ids \in [Names -> Id]
        /\ \A y \in Names :
             \/ ids[y] = M.ids[y]
             \/ M.ids[y].type = "none" /\ ids[y] = [type |-> "ID", owner |-> M.ids[y].owner]
    BY <1>1, <1>2, <1>3, <1>5, TranslatedTyped, TranslatedIs
  <2> HIDE DEF ids
  <2>3. r.ids = Own(SetType(ids, x, "EVENT"), x, current)
    BY <1>4 DEF ids
  <2> QED BY <1>2, <2>1, <2>2, <2>3, Retyped
<1> HIDE DEF r, x
<1>8. Grows /\ Nested' /\ \A m \in Machines : Sharing(m)' /\ (m # current => Recorded(m)')
  BY <1>1, <1>2, <1>3, <1>4, <1>6, CurrentKeeps
<1>9. M.ids[x].type \in {"none", "ID"}
  BY <1>2, <1>3 DEF TypeOf
<1>10. Recorded(current)
  BY <1>3 DEF IParser
<1>11. PICK c : c = current
  OBVIOUS
<1>12. Staged(c)'
  <2>1. Staged(current)
    BY <1>10 DEF Recorded
  <2>2. /\ M.infos = << >> /\ M.actions = << >> /\ M.fns = << >> /\ M.targets = << >>
        /\ \A y \in Names : M.ids[y].type # "MACHINE"
    BY <1>3, <2>1 DEF Staged
  <2>3. ASSUME NEW y \in Names PROVE r.ids[y].type # "MACHINE"
    <3>1. y = x => r.ids[y].type = "EVENT"
      BY <1>7
    <3>2. r.ids[y] = [type |-> "ID", owner |-> M.ids[y].owner] => r.ids[y].type = "ID"
      OBVIOUS
    <3> QED BY <1>7, <2>2, <3>1, <3>2
  <2> QED BY <1>3, <1>4, <1>11, <2>2, <2>3 DEF Staged
<1>13. machines'[c] = r /\ machines[c] = M /\ r \in Records /\ c \in Machines
  BY <1>2, <1>3, <1>11 DEF OnlyCurrent
<1>14. Known(c)' /\ Listed(c)'
  <2>1. ASSUME NEW y \in Names, y = x
        PROVE  /\ KnownAs(c, y, machines[c].ids[y])' /\ EventHeld(c, y)'
               /\ machines[c].ids[y].type \notin {"EVENT", "STATE", "ACTION"}
    <3>1. machines'[c].ids[y] = [type |-> "EVENT", owner |-> c]
      BY <1>7, <1>11, <1>13, <2>1
    <3>2. y \in ToSet(machines'[c].events)
      BY <1>6, <1>13, <2>1
    <3> QED BY <1>9, <1>13, <2>1, <3>1, <3>2 DEF KnownAs, OwnName, Holds, EventHeld
  <2>2. ASSUME NEW y \in Names, machines[c].ids[y].type = "none",
               machines'[c].ids[y] = [type |-> "ID", owner |-> machines[c].ids[y].owner]
        PROVE  /\ KnownAs(c, y, machines[c].ids[y])'
               /\ machines[c].ids[y].type \notin {"EVENT", "STATE", "ACTION"}
               /\ ~KeptAs(c, y)
    BY <2>2 DEF KnownAs, KeptAs
  <2>3. /\ machines'[c].states = machines[c].states /\ machines'[c].actions = machines[c].actions
        /\ ToSet(machines'[c].events) = ToSet(machines[c].events) \union {x}
        /\ machines'[c].shared = machines[c].shared
    BY <1>4, <1>6, <1>13
  <2>4. ASSUME NEW y \in Names
        PROVE  \/ /\ machines'[c].ids[y] = machines[c].ids[y]
                  /\ y \in ToSet(machines'[c].events) => y \in ToSet(machines[c].events)
               \/ /\ KnownAs(c, y, machines[c].ids[y])'
                  /\ machines[c].ids[y].type \notin {"EVENT", "STATE", "ACTION"}
                  /\ KeptAs(c, y) => EventHeld(c, y)'
    <3>1. CASE y = x
      BY <2>1, <3>1
    <3>2. CASE y # x
      BY <1>7, <1>13, <2>2, <2>3, <3>2
    <3> QED BY <3>1, <3>2
  <2> QED BY <1>1, <1>2, <1>8, <1>10, <1>11, <1>13, <2>1, <2>3, <2>4, EntriesKeep
<1>15. Tabled(c)' /\ Vectors(c)' /\ SharedOwn(c)'
  <2>1. M.infos = << >> /\ M.actions = << >> /\ M.fns = << >> /\ M.targets = << >>
    BY <1>3, <1>10, <1>11 DEF Recorded, Staged
  <2>2. /\ machines'[c].infos = << >> /\ machines'[c].actions = << >>
        /\ machines'[c].fns = << >> /\ machines'[c].targets = << >>
        /\ ToSet(machines[c].events) \subseteq ToSet(machines'[c].events) /\ machines'[c].shared = machines[c].shared
    BY <1>4, <1>6, <1>13, <2>1
  <2>3. SharedOwn(c)'
    BY <1>10, <1>11, <2>2 DEF SharedOwn, Recorded
  <2> QED BY <2>2, <2>3, NothingDone
<1>16. \A m \in Machines : Recorded(m)'
  BY <1>8, <1>12, <1>11, <1>14, <1>15 DEF Recorded
<1>17. Typed'
  <2>1. text' \in Inputs /\ at' \in 1 .. Len(text') + 1
    BY <1>1, <1>2, <1>3, Onward
  <2>2. machines' \in Seq(Records) /\ Len(machines') = Len(machines)
    BY <1>2 DEF OnlyCurrent
  <2> QED BY <1>1, <1>3, <2>1, <2>2, SamePlace
<1>18. Focused'
  BY <1>1, <1>2, <1>3, PlainFocus DEF Begins
<1>19. Returning' /\ RefsThere'
  <2>1. \A m \in Machines : machines'[m].returns = machines[m].returns
    BY <1>2, <1>3, <1>4 DEF OnlyCurrent
  <2>2. ASSUME NEW m \in Machines, NEW y \in Names PROVE machines'[m].ids[y].owner <= Len(machines)
    <3>1. machines[m].ids[y].owner <= Len(machines) /\ current <= Len(machines)
      BY <1>3, Placed DEF IParser, RefsThere
    <3>2. CASE m = current /\ y = x
      BY <1>3, <1>7, <3>1, <3>2
    <3>3. CASE m = current /\ y # x
      <4>1. r.ids[y] = [type |-> "ID", owner |-> M.ids[y].owner] => r.ids[y].owner = M.ids[y].owner
        OBVIOUS
      <4> QED BY <1>3, <1>7, <3>1, <3>3, <4>1
    <3>4. CASE m # current
      BY <1>2, <3>1, <3>4 DEF OnlyCurrent
    <3> QED BY <3>2, <3>3, <3>4
  <2>3. Len(machines') = Len(machines)
    BY <1>2 DEF OnlyCurrent
  <2> QED BY <1>1, <1>3, <1>8, <2>1, <2>2, <2>3, ReturningSame, RefsSame DEF IParser
<1> QED BY <1>3, <1>8, <1>16, <1>17, <1>18, <1>19 DEF IParser

(* Entries of other names are left alone.                                  *)
LEMMA SetOther ==
  ASSUME NEW ids \in [Names -> Id], NEW x \in Names, NEW type, NEW y \in Names, y # x
  PROVE  SetType(ids, x, type)[y] = ids[y]
BY DEF SetType

LEMMA OwnOther ==
  ASSUME NEW ids \in [Names -> Id], NEW x \in Names, NEW m, NEW y \in Names, y # x
  PROVE  Own(ids, x, m)[y] = ids[y]
BY DEF Own

LEMMA RetypedOther ==
  ASSUME NEW ids \in [Names -> Id], NEW x \in Names, NEW m \in Nat, NEW y \in Names, y # x
  PROVE  Own(SetType(ids, x, "ACTION"), x, m)[y] = ids[y]
<1> DEFINE set == SetType(ids, x, "ACTION")
<1>1. set \in [Names -> Id]
  BY IdsTyped DEF Types
<1>2. set[y] = ids[y]
  BY SetOther
<1> HIDE DEF set
<1>3. Own(set, x, m)[y] = set[y]
  BY <1>1, OwnOther
<1> QED BY <1>2, <1>3 DEF set

(* The types of the names a transition leads to.                           *)
LEMMA TypedToIs ==
  ASSUME Typed, Reading, Stmt.kind \in {"action", "transition"}, scope \in Machines, scope = current,
         Matrix, NEW y \in Names
  PROVE  LET ids == Cur.ids IN
         /\ \/ TypedTo(ids)[y] = ids[y]
            \/ /\ y = Stmt.to /\ ids[y].type \in {"none", "ID"}
               /\ TypedTo(ids)[y] = [type |-> "TRANSITION_FN", owner |-> ids[y].owner]
         /\ y = Stmt.to => TypedTo(ids)[y].type =
                             IF IsA(y, {"STATE"}) THEN "STATE" ELSE "TRANSITION_FN"
<1> DEFINE ids == Cur.ids
           to == Stmt.to
<1>1. to \in Names \union {None} /\ ids \in [Names -> Id] /\ None \notin Names
  <2>1. Cur \in Records
    BY Placed DEF Cur
  <2> QED BY <2>1, OfKind, ParserAssumption DEF Records
<1>2. TypeOf(scope, y) = IF ids[y].type = "none" THEN "ID" ELSE ids[y].type
  BY DEF TypeOf, Cur
<1>3. CASE to # None /\ IsA(to, {"ID"})
  <2>1. TypedTo(ids) = SetType(ids, to, "TRANSITION_FN") /\ to \in Names
    BY <1>1, <1>3 DEF TypedTo
  <2> HIDE DEF ids, to
  <2>2. TypedTo(ids)[y] =
          IF y = to THEN [type |-> "TRANSITION_FN", owner |-> ids[to].owner] ELSE ids[y]
    BY <1>1, <2>1, AfterSet
  <2>3. CASE y = to
    <3>1. ids[y].type \in {"none", "ID"} /\ ~IsA(y, {"STATE"})
      BY <1>2, <1>3, <2>3 DEF IsA
    <3> QED BY <2>2, <2>3, <3>1 DEF ids, to
  <2>4. CASE y # to
    BY <2>2, <2>4 DEF ids, to
  <2> QED BY <2>3, <2>4
<1>4. CASE ~(to # None /\ IsA(to, {"ID"}))
  <2>1. TypedTo(ids) = ids
    BY <1>4 DEF TypedTo
  <2>2. ASSUME y = to PROVE ids[y].type = IF IsA(y, {"STATE"}) THEN "STATE" ELSE "TRANSITION_FN"
    <3>1. to # None
      BY <1>1, <2>2
    <3>2. IsA(to, {"STATE", "TRANSITION_FN", "ID"})
      BY <3>1 DEF Matrix
    <3>3. TypeOf(scope, y) \in {"STATE", "TRANSITION_FN"}
      BY <1>4, <2>2, <3>1, <3>2 DEF IsA
    <3>4. IsA(y, {"STATE"}) <=> TypeOf(scope, y) = "STATE"
      BY DEF IsA
    <3>5. ids[y].type = TypeOf(scope, y)
      BY <1>2, <3>3
    <3> HIDE DEF ids, to
    <3> QED BY <3>3, <3>4, <3>5
  <2> QED BY <2>1, <2>2
<1> QED BY <1>3, <1>4

(* Which list the end of a transition is put in. *)
LEMMA Ends ==
  ASSUME Typed, Reading, Stmt.kind \in {"action", "transition"}, current # 0
  PROVE  /\ ToSet(Fns(Cur.fns)) = IF Stmt.to # None /\ ~IsA(Stmt.to, {"STATE"})
                                  THEN ToSet(Cur.fns) \union {Stmt.to} ELSE ToSet(Cur.fns)
         /\ ToSet(Targets(Cur.targets)) = IF Stmt.to # None /\ IsA(Stmt.to, {"STATE"})
                                          THEN ToSet(Cur.targets) \union {Stmt.to}
                                          ELSE ToSet(Cur.targets)
         /\ IsInjective(Cur.fns) => IsInjective(Fns(Cur.fns))
         /\ IsInjective(Cur.targets) => IsInjective(Targets(Cur.targets))
<1>1. Cur.fns \in Seq(Names) /\ Cur.targets \in Seq(Names)
  BY Placed DEF Records
<1>2. Stmt.to # None => Stmt.to \in Names
  BY OfKind
<1>3. Stmt.to # None =>
        /\ ToSet(AddUnique(Cur.fns, Stmt.to)) = ToSet(Cur.fns) \union {Stmt.to}
        /\ IsInjective(Cur.fns) => IsInjective(AddUnique(Cur.fns, Stmt.to))
        /\ ToSet(AddUnique(Cur.targets, Stmt.to)) = ToSet(Cur.targets) \union {Stmt.to}
        /\ IsInjective(Cur.targets) => IsInjective(AddUnique(Cur.targets, Stmt.to))
  BY <1>1, <1>2, UniqueSet
<1>4. /\ ToSet(Fns(Cur.fns)) = IF Stmt.to # None /\ ~IsA(Stmt.to, {"STATE"})
                               THEN ToSet(Cur.fns) \union {Stmt.to} ELSE ToSet(Cur.fns)
      /\ IsInjective(Cur.fns) => IsInjective(Fns(Cur.fns))
  BY <1>3 DEF Fns
<1>5. /\ ToSet(Targets(Cur.targets)) = IF Stmt.to # None /\ IsA(Stmt.to, {"STATE"})
                                       THEN ToSet(Cur.targets) \union {Stmt.to}
                                       ELSE ToSet(Cur.targets)
      /\ IsInjective(Cur.targets) => IsInjective(Targets(Cur.targets))
  BY <1>3 DEF Targets
<1> QED BY <1>4, <1>5

(* The statements that add a cell to the matrix keep the invariant.        *)
LEMMA DoneKeeps ==
  ASSUME IParser, DeclareAction \/ DeclareTransition
  PROVE  IParser'
<1> DEFINE M == machines[current]
           x == Stmt.name
           to == Stmt.to
<1>1. Typed /\ Nested /\ Focused /\ ParserNext
  BY DEF IParser, ParserNext
<1>2. /\ Reading /\ Begins /\ Declared /\ Matrix /\ Stmt.kind \in {"action", "transition"}
      /\ x \in Names \union {None} /\ to \in Names \union {None}
      /\ Stmt.events \in Seq(Names) /\ Stmt.states \in Seq(Names)
      /\ x # None => TypeOf(current, x) \in {"ID", "ACTION"}
      /\ current # 0 /\ scope = current /\ current \in Machines /\ Cur = M /\ M \in Records
  <2>1. CASE DeclareAction
    BY <1>1, <2>1, DeclareActionDoes DEF DeclareAction, Is, OnlyCurrent, Cur
  <2>2. CASE DeclareTransition
    BY <1>1, <2>2, DeclareTransitionDoes DEF DeclareTransition, Is, OnlyCurrent, Cur
  <2> QED BY <2>1, <2>2
<1>3. /\ current' = current /\ scope' = scope /\ pending' = pending
      /\ text' = text /\ at' = at + 1 /\ errors' = errors \union VectorErrors
  BY DEF DeclareAction, DeclareTransition, Advance
<1>4. PICK ids : /\ x # None => ids = Own(SetType(TypedTo(M.ids), x, "ACTION"), x, current)
                 /\ x = None => ids = TypedTo(M.ids)
                 /\ OnlyCurrent(WithDone(AddUnique(M.actions, x), ids))
  <2>1. CASE DeclareAction
    <3>1. x \in Names /\ None \notin Names /\ OnlyCurrent(WithAction)
      BY <1>1, <2>1, DeclareActionDoes, ParserAssumption
    <3> QED BY <1>2, <3>1 DEF WithAction
  <2>2. CASE DeclareTransition
    <3>1. x = None /\ OnlyCurrent(WithTransition)
      BY <1>1, <2>2, DeclareTransitionDoes
    <3> QED BY <1>2, <3>1 DEF WithTransition
  <2> QED BY <2>1, <2>2
<1>5. PICK r : r = WithDone(AddUnique(M.actions, x), ids)
  OBVIOUS
<1>6. /\ r.parent = M.parent /\ r.name = M.name /\ r.subs = M.subs /\ r.stage = "does"
      /\ r.shared = M.shared /\ r.sharers = M.sharers /\ r.events = M.events
      /\ r.states = M.states /\ r.infos = Append(M.infos, Info) /\ r.actions = AddUnique(M.actions, x)
      /\ r.fns = Fns(M.fns) /\ r.targets = Targets(M.targets) /\ r.returns = M.returns
      /\ r.ids = ids
  BY <1>2, <1>5 DEF WithDone, Records
<1>7. /\ OnlyCurrent(r) /\ machines'[current] = r /\ Machines' = Machines /\ r \in Records
      /\ Len(machines') = Len(machines) /\ machines' \in Seq(Records)
  BY <1>4, <1>5 DEF OnlyCurrent
<1>8. Grows /\ Nested' /\ \A m \in Machines : Sharing(m)' /\ (m # current => Recorded(m)')
  BY <1>1, <1>2, <1>3, <1>6, <1>7, CurrentKeeps
<1>9. None \notin Names /\ M.ids \in [Names -> Id] /\ TypedTo(M.ids) \in [Names -> Id]
  BY <1>1, <1>2, ParserAssumption, TypedToTyped DEF Records
(* the identifiers *)
<1>10. ASSUME NEW y \in Names, y = x
       PROVE  ids[y] = [type |-> "ACTION", owner |-> current] /\ M.ids[y].type \in {"none", "ID", "ACTION"}
  <2>1. x \in Names /\ x # None
    BY <1>9, <1>10
  <2>2. "ACTION" \in Types /\ current \in Nat
    BY <1>1, <1>2, Placed DEF Types
  <2> DEFINE t == TypedTo(M.ids)
  <2>3. t \in [Names -> Id] /\ ids = Own(SetType(t, x, "ACTION"), x, current)
    BY <1>4, <1>9, <2>1
  <2> HIDE DEF t
  <2>4. ids[x] = [type |-> "ACTION", owner |-> current]
    BY <2>1, <2>2, <2>3, Retyped
  <2>5. M.ids[x].type \in {"none", "ID", "ACTION"}
    BY <1>2, <2>1 DEF TypeOf
  <2> QED BY <1>10, <2>4, <2>5
<1>11. ASSUME NEW y \in Names, y # x
       PROVE  /\ \/ ids[y] = M.ids[y]
                 \/ /\ y = to /\ M.ids[y].type \in {"none", "ID"}
                    /\ ids[y] = [type |-> "TRANSITION_FN", owner |-> M.ids[y].owner]
              /\ y = to => ids[y].type = IF IsA(y, {"STATE"}) THEN "STATE" ELSE "TRANSITION_FN"
  <2> DEFINE t == TypedTo(M.ids)
  <2>1. /\ \/ t[y] = M.ids[y]
           \/ /\ y = to /\ M.ids[y].type \in {"none", "ID"}
              /\ t[y] = [type |-> "TRANSITION_FN", owner |-> M.ids[y].owner]
        /\ y = to => t[y].type = IF IsA(y, {"STATE"}) THEN "STATE" ELSE "TRANSITION_FN"
    BY <1>1, <1>2, TypedToIs
  <2>2. ids[y] = t[y]
    <3>1. CASE x = None
      BY <1>4, <3>1
    <3>2. CASE x # None
      <4>1. x \in Names /\ "ACTION" \in Types /\ current \in Nat
        BY <1>1, <1>2, <3>2, Placed DEF Types
      <4>2. t \in [Names -> Id] /\ ids = Own(SetType(t, x, "ACTION"), x, current)
        BY <1>4, <1>9, <3>2
      <4> HIDE DEF t
      <4> QED BY <1>11, <4>1, <4>2, RetypedOther
    <3> QED BY <3>1, <3>2
  <2> QED BY <2>1, <2>2
<1> HIDE DEF x, to
<1>12. PICK c : c = current
  OBVIOUS
<1>13. machines'[c] = r /\ machines[c] = M /\ c \in Machines /\ Recorded(c)
  BY <1>2, <1>7, <1>12 DEF IParser
<1>14. Staged(c)'
  BY <1>6, <1>13 DEF Staged
<1>15. ToSet(r.actions) = ToSet(M.actions) \union {x} /\ (IsInjective(M.actions) => IsInjective(r.actions))
  <2>1. M.actions \in Seq(Names \union {None})
    BY <1>2 DEF Records
  <2> QED BY <1>2, <1>6, <2>1, UniqueSet
<1>16. Known(c)' /\ Listed(c)'
  <2>0. machines'[c].shared = machines[c].shared
    BY <1>6, <1>13
  <2>1. ASSUME NEW y \in Names
        PROVE  \/ /\ machines'[c].ids[y] = machines[c].ids[y]
                  /\ y \in ToSet(machines'[c].events) => y \in ToSet(machines[c].events)
               \/ /\ KnownAs(c, y, machines[c].ids[y])'
                  /\ \A type \in {"EVENT", "STATE", "ACTION"} :
                       machines[c].ids[y].type = type => Holds(c, y, type)'
                  /\ KeptAs(c, y) => EventHeld(c, y)'
    <3>1. CASE y = x
      <4>1. machines'[c].ids[y] = [type |-> "ACTION", owner |-> c]
            /\ machines[c].ids[y].type \in {"none", "ID", "ACTION"}
        BY <1>6, <1>10, <1>12, <1>13, <3>1
      <4>2. KnownAs(c, y, machines[c].ids[y])'
        BY <4>1 DEF KnownAs
      <4>3. Holds(c, y, "ACTION")'
        BY <4>1 DEF Holds
      <4>4. KeptAs(c, y) => EventHeld(c, y)'
        BY <2>0, <4>1 DEF KeptAs, EventHeld
      <4> QED BY <4>1, <4>2, <4>3, <4>4
    <3>2. CASE y # x /\ ids[y] = M.ids[y]
      BY <1>6, <1>13, <3>2
    <3>3. CASE /\ y # x /\ M.ids[y].type \in {"none", "ID"}
               /\ ids[y] = [type |-> "TRANSITION_FN", owner |-> M.ids[y].owner]
      <4>1. /\ machines'[c].ids[y].type = "TRANSITION_FN" /\ machines[c].ids[y].type \in {"none", "ID"}
            /\ machines'[c].ids[y].owner = machines[c].ids[y].owner
        BY <1>6, <1>13, <3>3
      <4>2. KnownAs(c, y, machines[c].ids[y])'
        BY <4>1 DEF KnownAs
      <4>3. KeptAs(c, y) => EventHeld(c, y)'
        BY <2>0, <4>1 DEF KeptAs, EventHeld
      <4> QED BY <4>1, <4>2, <4>3
    <3> QED BY <1>11, <3>1, <3>2, <3>3
  <2>2. /\ machines'[c].events = machines[c].events /\ machines'[c].states = machines[c].states
        /\ ToSet(machines'[c].actions) = ToSet(machines[c].actions) \union {x}
    BY <1>6, <1>13, <1>15
  <2>3. ASSUME NEW y \in Names, y = x PROVE Holds(c, y, "ACTION")'
    <3>1. machines'[c].ids[y] = [type |-> "ACTION", owner |-> c]
      BY <1>6, <1>10, <1>12, <1>13, <2>3
    <3> QED BY <3>1 DEF Holds
  <2>4. \A y \in ToSet(machines'[c].actions) :
          y # None => y \in ToSet(machines[c].actions) \/ Holds(c, y, "ACTION")'
    BY <1>2, <2>2, <2>3
  <2> QED BY <1>1, <1>7, <1>8, <1>13, <2>0, <2>1, <2>2, <2>4, EntriesKeep
<1>17. Tabled(c)'
  <2> DEFINE tos == {M.infos[i].to : i \in DOMAIN M.infos}
             tos1 == {r.infos[i].to : i \in DOMAIN r.infos}
             acts == {M.infos[i].action : i \in DOMAIN M.infos}
             acts1 == {r.infos[i].action : i \in DOMAIN r.infos}
  <2>1. /\ IsInjective(M.actions) /\ IsInjective(M.fns) /\ IsInjective(M.targets)
        /\ ToSet(M.actions) = acts /\ ToSet(M.fns) \union ToSet(M.targets) = tos \ {None}
        /\ \A y \in ToSet(M.fns) : M.ids[y].type = "TRANSITION_FN"
        /\ \A y \in ToSet(M.targets) : M.ids[y].type = "STATE"
    BY <1>13 DEF Tabled, Recorded
  <2>2. /\ Len(M.infos) \in Nat /\ DOMAIN M.infos = 1 .. Len(M.infos)
        /\ DOMAIN r.infos = 1 .. Len(M.infos) + 1
        /\ \A i \in 1 .. Len(M.infos) : r.infos[i] = M.infos[i]
        /\ r.infos[Len(M.infos) + 1] = Info
    <3>1. M.infos \in Seq(Infos)
      BY <1>2 DEF Records
    <3> QED BY <1>6, <3>1, Appended
  <2>3. Info.to = to /\ Info.action = x
    BY DEF Info, to, x
  <2>4. tos1 = tos \union {to} /\ acts1 = acts \union {x}
    <3> DEFINE L == Len(M.infos)
    <3>1. /\ \A i \in 1 .. L : i \in 1 .. L + 1 /\ r.infos[i].to = M.infos[i].to
                              /\ r.infos[i].action = M.infos[i].action
          /\ L + 1 \in 1 .. L + 1 /\ r.infos[L + 1].to = to /\ r.infos[L + 1].action = x
          /\ \A i \in 1 .. L + 1 : i \in 1 .. L \/ i = L + 1
      BY <2>2, <2>3
    <3>2. /\ tos = {M.infos[i].to : i \in 1 .. L} /\ tos1 = {r.infos[i].to : i \in 1 .. L + 1}
          /\ acts = {M.infos[i].action : i \in 1 .. L} /\ acts1 = {r.infos[i].action : i \in 1 .. L + 1}
      BY <2>2
    <3> HIDE DEF L, tos, tos1, acts, acts1
    <3>3. tos1 = tos \union {to}
      BY <3>1, <3>2
    <3>4. acts1 = acts \union {x}
      BY <3>1, <3>2
    <3> QED BY <3>3, <3>4
  <2>5. /\ ToSet(r.fns) = IF to # None /\ ~IsA(to, {"STATE"}) THEN ToSet(M.fns) \union {to} ELSE ToSet(M.fns)
        /\ ToSet(r.targets) = IF to # None /\ IsA(to, {"STATE"})
                              THEN ToSet(M.targets) \union {to} ELSE ToSet(M.targets)
        /\ IsInjective(M.fns) => IsInjective(r.fns)
        /\ IsInjective(M.targets) => IsInjective(r.targets)
    BY <1>1, <1>2, <1>6, Ends DEF to
  <2> HIDE DEF tos, tos1, acts, acts1
  <2>6. ToSet(r.fns) \union ToSet(r.targets) = tos1 \ {None}
    BY <2>1, <2>4, <2>5
  <2>7. ToSet(M.fns) \subseteq Names /\ ToSet(M.targets) \subseteq Names
    <3>1. M.fns \in Seq(Names) /\ M.targets \in Seq(Names)
      BY <1>2 DEF Records
    <3> QED BY <3>1 DEF ToSet
  <2>8. ASSUME NEW y \in Names, M.ids[y].type \in {"TRANSITION_FN", "STATE"} PROVE r.ids[y] = M.ids[y]
    BY <1>6, <1>10, <1>11, <2>8
  <2>9. to # None => /\ to \in Names /\ to # x
                     /\ r.ids[to].type = IF IsA(to, {"STATE"}) THEN "STATE" ELSE "TRANSITION_FN"
    <3>1. to # None => to \in Names /\ to # x
      BY <1>2 DEF Matrix, to, x
    <3> QED BY <1>6, <1>11, <3>1
  <2>10. \A y \in ToSet(r.fns) : r.ids[y].type = "TRANSITION_FN"
    <3> SUFFICES ASSUME NEW y \in ToSet(r.fns) PROVE r.ids[y].type = "TRANSITION_FN"
      OBVIOUS
    <3>1. CASE y \in ToSet(M.fns)
      BY <2>1, <2>7, <2>8, <3>1
    <3>2. CASE y = to /\ to # None /\ ~IsA(to, {"STATE"})
      BY <2>9, <3>2
    <3> QED BY <2>5, <3>1, <3>2
  <2>11. \A y \in ToSet(r.targets) : r.ids[y].type = "STATE"
    <3> SUFFICES ASSUME NEW y \in ToSet(r.targets) PROVE r.ids[y].type = "STATE"
      OBVIOUS
    <3>1. CASE y \in ToSet(M.targets)
      BY <2>1, <2>7, <2>8, <3>1
    <3>2. CASE y = to /\ to # None /\ IsA(to, {"STATE"})
      BY <2>9, <3>2
    <3> QED BY <2>5, <3>1, <3>2
  <2> QED BY <1>13, <1>15, <2>1, <2>4, <2>5, <2>6, <2>10, <2>11 DEF Tabled, tos1, acts1
<1>18. SharedOwn(c)'
  BY <1>6, <1>13 DEF SharedOwn, Recorded
<1>19. Vectors(c)'
  <2> SUFFICES ASSUME Sound', NEW i \in DOMAIN r.infos, NEW k \in DOMAIN r.infos[i].events,
                      r.sharers[r.infos[i].events[k]] # << >>
               PROVE  k = Len(r.infos[i].events)
    BY <1>13 DEF Vectors
  <2>1. /\ Len(M.infos) \in Nat /\ DOMAIN M.infos = 1 .. Len(M.infos)
        /\ DOMAIN r.infos = 1 .. Len(M.infos) + 1
        /\ \A j \in 1 .. Len(M.infos) : r.infos[j] = M.infos[j]
        /\ r.infos[Len(M.infos) + 1] = Info
    <3>1. M.infos \in Seq(Infos)
      BY <1>2 DEF Records
    <3> QED BY <1>6, <3>1, Appended
  <2>2. CASE i \in 1 .. Len(M.infos)
    <3>1. Sound /\ r.infos[i] = M.infos[i] /\ i \in DOMAIN M.infos
      BY <1>8, <2>1, <2>2 DEF Grows
    <3> QED BY <1>6, <1>13, <3>1 DEF Vectors, Recorded
  <2>3. CASE i = Len(M.infos) + 1
    <3>1. r.infos[i].events = Stmt.events
      BY <2>1, <2>3 DEF Info
    <3>2. VectorErrors = {}
      BY <1>3 DEF Sound
    <3>3. \A j \in 1 .. Len(Stmt.events) - 1 : M.sharers[Stmt.events[j]] = << >>
      BY <1>2, <3>2 DEF VectorErrors, If
    <3>4. k \in 1 .. Len(Stmt.events) /\ Len(Stmt.events) \in Nat
      BY <1>2, <3>1
    <3>5. M.sharers[Stmt.events[k]] # << >>
      BY <1>6, <3>1
    <3>6. k \notin 1 .. Len(Stmt.events) - 1
      BY <3>3, <3>5
    <3> QED BY <3>1, <3>4, <3>6
  <2> QED BY <2>1, <2>2, <2>3
<1>20. \A m \in Machines : Recorded(m)'
  BY <1>8, <1>12, <1>14, <1>16, <1>17, <1>18, <1>19 DEF Recorded
<1>21. Typed'
  <2>1. text' \in Inputs /\ at' \in 1 .. Len(text') + 1
    BY <1>1, <1>2, <1>3, Onward
  <2> QED BY <1>1, <1>3, <1>7, <2>1, SamePlace
<1>22. Focused'
  BY <1>1, <1>2, <1>3, PlainFocus DEF Begins
<1>23. Returning' /\ RefsThere'
  <2>1. \A m \in Machines : machines'[m].returns = machines[m].returns
    BY <1>6, <1>7 DEF OnlyCurrent, Cur
  <2>2. ASSUME NEW m \in Machines, NEW y \in Names PROVE machines'[m].ids[y].owner <= Len(machines)
    <3>1. machines[m].ids[y].owner <= Len(machines) /\ current <= Len(machines)
      BY <1>1, <1>2, Placed DEF IParser, RefsThere
    <3>2. CASE m # current
      BY <1>7, <3>1, <3>2 DEF OnlyCurrent
    <3>3. CASE m = current /\ y = x
      BY <1>6, <1>7, <1>10, <3>1, <3>3
    <3>4. CASE m = current /\ y # x
      <4>1. ids[y] = [type |-> "TRANSITION_FN", owner |-> M.ids[y].owner] => ids[y].owner = M.ids[y].owner
        OBVIOUS
      <4>2. ids[y].owner = M.ids[y].owner
        BY <1>11, <3>4, <4>1
      <4> QED BY <1>6, <1>7, <3>1, <3>4, <4>2
    <3> QED BY <3>2, <3>3, <3>4
  <2> QED BY <1>1, <1>2, <1>3, <1>7, <1>8, <2>1, <2>2, ReturningSame, RefsSame DEF IParser
<1> QED BY <1>7, <1>8, <1>20, <1>21, <1>22, <1>23 DEF IParser

-----------------------------------------------------------------------------
(* Steps that change nothing of what has been recorded. *)
LEMMA Untouched ==
  ASSUME IParser, ParserNext, UNCHANGED <<machines, current>>
  PROVE  /\ Grows /\ Nested' /\ Machines' = Machines
         /\ \A m \in Machines : Recorded(m)' /\ Sharing(m)'
<1>1. Typed /\ Nested /\ Machines' = Machines /\ Len(machines) \in Nat
  BY Placed DEF IParser, Machines
<1>2. Grows
  BY <1>1, ErrorsStay DEF Grows
<1>3. Nested'
  BY <1>1, NestedSame
<1>4. ASSUME NEW m \in Machines PROVE Recorded(m)' /\ Sharing(m)'
  <2>1. Recorded(m) /\ Sharing(m) /\ Alike(m)
    BY DEF IParser, Alike
  <2> QED BY <1>1, <1>2, <2>1, AlikeKeeps, SharingSame
<1> QED BY <1>1, <1>2, <1>3, <1>4

(* The place and the list searched after a statement of a "returns".       *)
LEMMA NewPlace ==
  ASSUME Typed, machines' \in Seq(Records), Len(machines') = Len(machines), Machines' = Machines,
         current' = current, scope' = scope \/ scope' \in Machines,
         text' \in Inputs, at' \in 1 .. Len(text') + 1,
         pending' \in Pendings,
         pending'.of = None => pending'.refs = << >>
  PROVE  Typed'
<1>1. machines' = << >> <=> machines = << >>
  BY DEF Typed
<1>2. machines = << >> => Machines = {}
  BY DEF Machines
<1> QED BY <1>1, <1>2 DEF Typed, Machines

LEMMA ReturnsStay ==
  ASSUME Typed, Nested, Grows, Returning, Sound'
  PROVE  /\ \A m \in Machines, a \in Names : \A r \in ToSet(machines[m].returns[a]) : GoodRef(m, r)'
         /\ \A c \in Machines : c = current => \A r \in ToSet(pending.refs) : GoodRef(c, r)'
<1>1. Sound
  BY DEF Grows
<1>2. ASSUME NEW m \in Machines, NEW a \in Names, NEW r \in ToSet(machines[m].returns[a])
      PROVE  GoodRef(m, r)'
  <2>1. GoodRef(m, r)
    BY <1>1 DEF Returning, ToSet
  <2> QED BY <2>1, GoodRefKept
<1>3. ASSUME NEW c \in Machines, c = current, NEW r \in ToSet(pending.refs) PROVE GoodRef(c, r)'
  <2>1. GoodRef(c, r)
    BY <1>1, <1>3 DEF Returning, ToSet
  <2> QED BY <2>1, GoodRefKept
<1> QED BY <1>2, <1>3

LEMMA ReturningFrom ==
  ASSUME Sound' => /\ \A m \in Machines', a \in Names :
                        \A r \in ToSet(machines'[m].returns[a]) : GoodRef(m, r)'
                   /\ \A c : c = current' => \A r \in ToSet(pending'.refs) : GoodRef(c, r)'
  PROVE  Returning'
<1> SUFFICES ASSUME Sound'
             PROVE  /\ \A m \in Machines' : \A a \in Names :
                         \A i \in DOMAIN machines'[m].returns[a] : GoodRef(m, machines[m].returns[a][i])'
                    /\ \A i \in DOMAIN pending'.refs : GoodRef(current, pending.refs[i])'
  BY DEF Returning
<1>1. ASSUME NEW m \in Machines', NEW a \in Names, NEW i \in DOMAIN machines'[m].returns[a]
      PROVE  GoodRef(m, machines[m].returns[a][i])'
  <2>1. PICK r : r = machines'[m].returns[a][i]
    OBVIOUS
  <2>2. r \in ToSet(machines'[m].returns[a])
    BY <2>1 DEF ToSet
  <2> QED BY <2>1, <2>2
<1>2. ASSUME NEW i \in DOMAIN pending'.refs PROVE GoodRef(current, pending.refs[i])'
  <2>1. PICK r, c : r = pending'.refs[i] /\ c = current'
    OBVIOUS
  <2>2. r \in ToSet(pending'.refs)
    BY <2>1 DEF ToSet
  <2>3. GoodRef(c, r)'
    BY <2>1, <2>2
  <2> QED BY <2>1, <2>3
<1> QED BY <1>1, <1>2

LEMMA BeginReturnsKeeps == ASSUME IParser, BeginReturns PROVE IParser'
<1> DEFINE r == WithBegun
<1>1. Typed /\ Nested /\ Focused /\ Returning /\ RefsThere /\ ParserNext
  BY DEF IParser, ParserNext
<1>2. Reading /\ Begins /\ Declared /\ Stmt.name \in Names /\ OnlyCurrent(r)
  BY <1>1, BeginReturnsDoes
<1>3. /\ current # 0 /\ current \in Machines /\ Machines' = Machines /\ scope = current
      /\ Cur = machines[current] /\ Cur \in Records
      /\ machines'[current] = r /\ Len(machines') = Len(machines) /\ machines' \in Seq(Records)
      /\ current' = current /\ scope' = scope /\ pending' = [NoReturns EXCEPT !.of = Stmt.name]
      /\ text' = text /\ at' = at + 1 /\ Stmt.kind = "returns"
  BY <1>2 DEF OnlyCurrent, Cur, BeginReturns, Advance, Is
<1>4. /\ r.parent = Cur.parent /\ r.name = Cur.name /\ r.subs = Cur.subs /\ r.stage = "does"
      /\ r.shared = Cur.shared /\ r.sharers = Cur.sharers /\ r.events = Cur.events
      /\ r.states = Cur.states /\ r.infos = Cur.infos /\ r.actions = Cur.actions
      /\ r.fns = Cur.fns /\ r.targets = Cur.targets /\ r.returns = Cur.returns /\ r.ids = Cur.ids
  BY <1>3 DEF WithBegun, Records
<1> HIDE DEF r
<1>5. Grows /\ Nested' /\ \A m \in Machines : Sharing(m)' /\ (m # current => Recorded(m)')
  BY <1>1, <1>2, <1>3, <1>4, CurrentKeeps
<1>6. \A m \in Machines : Recorded(m)'
  <2>1. PICK c : c = current
    OBVIOUS
  <2>2. c \in Machines /\ Recorded(c) /\ Alike(c)
    BY <1>3, <1>4, <2>1 DEF IParser, Alike
  <2>3. Recorded(c)'
    BY <1>1, <1>5, <2>2, AlikeKeeps
  <2> QED BY <1>5, <2>1, <2>3
<1>7. text' \in Inputs /\ at' \in 1 .. Len(text') + 1
  BY <1>1, <1>2, <1>3, Onward
<1>8. pending'.of = Stmt.name /\ pending'.refs = << >>
      /\ pending' \in Pendings
  <2>1. PICK x \in Names : x = Stmt.name
    BY <1>2
  <2>2. pending' = [of |-> x, refs |-> << >>, type |-> "none"]
    BY <1>3, <2>1 DEF NoReturns
  <2>3. << >> \in Seq(Refs) /\ "none" \in Types
    BY DEF Types
  <2> QED BY <2>1, <2>2, <2>3 DEF Pendings
<1>9. Typed'
  <2>1. None \notin Names
    BY ParserAssumption
  <2> QED BY <1>1, <1>2, <1>3, <1>7, <1>8, <2>1, NewPlace
<1>10. Focused'
  BY <1>1, <1>2, <1>3, <1>4, PlainFocus DEF Begins
<1>11. \A m \in Machines : machines'[m].returns = machines[m].returns /\ machines'[m].ids = machines[m].ids
  BY <1>2, <1>3, <1>4 DEF OnlyCurrent
<1>12. Returning'
  <2>1. ToSet(pending'.refs) = {}
    BY <1>8 DEF ToSet
  <2> QED BY <1>1, <1>3, <1>5, <1>11, <2>1, ReturnsStay, ReturningFrom
<1>13. RefsThere'
  BY <1>1, <1>3, <1>8, <1>11 DEF RefsThere
<1> QED BY <1>3, <1>5, <1>6, <1>9, <1>10, <1>12, <1>13 DEF IParser

LEMMA EndReturnsKeeps == ASSUME IParser, EndReturns PROVE IParser'
<1> DEFINE r == WithReturns
           a0 == pending.of
           q == Merged(Cur.returns[a0])
<1>1. Typed /\ Nested /\ Focused /\ Returning /\ RefsThere /\ ParserNext
  BY DEF IParser, ParserNext
<1>2. /\ Reading /\ ~Namespaced /\ a0 \in Names /\ pending.refs \in Seq(Refs)
      /\ Cur.returns[a0] \in Seq(Refs) /\ OnlyCurrent(r)
  BY <1>1, EndReturnsDoes
<1>3. /\ current # 0 /\ current \in Machines /\ Machines' = Machines /\ scope = current
      /\ Cur = machines[current] /\ Cur \in Records
      /\ machines'[current] = r /\ Len(machines') = Len(machines) /\ machines' \in Seq(Records)
      /\ current' = current /\ scope' = scope /\ pending' = NoReturns
      /\ text' = text /\ at' = at + 1 /\ Stmt.kind = "endReturns"
  BY <1>2 DEF OnlyCurrent, Cur, EndReturns, Advance, Is
<1>4. /\ r.parent = Cur.parent /\ r.name = Cur.name /\ r.subs = Cur.subs /\ r.stage = Cur.stage
      /\ r.shared = Cur.shared /\ r.sharers = Cur.sharers /\ r.events = Cur.events
      /\ r.states = Cur.states /\ r.infos = Cur.infos /\ r.actions = Cur.actions
      /\ r.fns = Cur.fns /\ r.targets = Cur.targets /\ r.ids = Cur.ids
      /\ \A a \in Names : r.returns[a] = IF a = a0 THEN q ELSE Cur.returns[a]
  BY <1>2, <1>3 DEF WithReturns, Records
<1>5. ToSet(q) \subseteq ToSet(Cur.returns[a0]) \union ToSet(pending.refs)
  BY <1>2, MergedOf
<1> HIDE DEF r, q
<1>6. r.stage # "ended"
  BY <1>1, <1>3, <1>4 DEF Nested, Open
<1>7. Grows /\ Nested' /\ \A m \in Machines : Sharing(m)' /\ (m # current => Recorded(m)')
  BY <1>1, <1>2, <1>3, <1>4, <1>6, CurrentKeeps
<1>8. \A m \in Machines : Recorded(m)'
  <2>1. PICK c : c = current
    OBVIOUS
  <2>2. c \in Machines /\ Recorded(c) /\ Alike(c)
    BY <1>3, <1>4, <2>1 DEF IParser, Alike
  <2>3. Recorded(c)'
    BY <1>1, <1>7, <2>2, AlikeKeeps
  <2> QED BY <1>7, <2>1, <2>3
<1>9. text' \in Inputs /\ at' \in 1 .. Len(text') + 1
  BY <1>1, <1>2, <1>3, Onward
<1>10. pending'.of = None /\ pending'.refs = << >>
       /\ pending' \in Pendings
  BY <1>3 DEF NoReturns, Pendings, Types
<1>11. Typed'
  BY <1>1, <1>3, <1>9, <1>10, NewPlace
<1>12. Focused'
  BY <1>1, <1>2, <1>3, <1>10, PlainFocus
<1>13. \A m \in Machines : m # current => machines'[m] = machines[m]
  BY <1>2 DEF OnlyCurrent
<1>14. ASSUME NEW m \in Machines, NEW a \in Names, NEW ref \in ToSet(machines'[m].returns[a])
       PROVE  ref \in ToSet(machines[m].returns[a]) \/ (m = current /\ ref \in ToSet(pending.refs))
  <2>1. CASE m = current /\ a = a0
    BY <1>3, <1>4, <1>5, <1>14, <2>1
  <2>2. CASE m = current /\ a # a0
    BY <1>3, <1>4, <1>14, <2>2
  <2>3. CASE m # current
    BY <1>13, <1>14, <2>3
  <2> QED BY <2>1, <2>2, <2>3
<1>15. Returning'
  <2>1. ToSet(pending'.refs) = {}
    BY <1>10 DEF ToSet
  <2>2. Sound' => \A m \in Machines, a \in Names :
                    \A ref \in ToSet(machines'[m].returns[a]) : GoodRef(m, ref)'
    BY <1>1, <1>7, <1>14, ReturnsStay
  <2> QED BY <1>3, <2>1, <2>2, ReturningFrom
<1>16. RefsThere'
  <2>1. ASSUME NEW m \in Machines, NEW a \in Names, NEW i \in DOMAIN machines'[m].returns[a]
        PROVE  machines'[m].returns[a][i][1] <= Len(machines)
    <3>1. \A ref \in ToSet(machines[m].returns[a]) \union ToSet(pending.refs) : ref[1] <= Len(machines)
      BY <1>1 DEF RefsThere, ToSet
    <3>2. machines'[m].returns[a][i] \in ToSet(machines'[m].returns[a])
      BY DEF ToSet
    <3> QED BY <1>14, <3>1, <3>2
  <2>2. \A m \in Machines : machines'[m].ids = machines[m].ids
    BY <1>3, <1>4, <1>13
  <2>3. DOMAIN pending'.refs = {}
    BY <1>10
  <2> QED BY <1>1, <1>3, <2>1, <2>2, <2>3 DEF RefsThere
<1> QED BY <1>3, <1>7, <1>8, <1>11, <1>12, <1>15, <1>16 DEF IParser

-----------------------------------------------------------------------------
(* When nothing is recorded, the rest is the place and what is returned. *)
LEMMA UntouchedKeeps ==
  ASSUME IParser, ParserNext, UNCHANGED <<machines, current, pending>>, Typed', Focused'
  PROVE  IParser'
<1>1. /\ Grows /\ Nested' /\ Machines' = Machines
      /\ \A m \in Machines : Recorded(m)' /\ Sharing(m)'
  BY Untouched
<1>2. Typed /\ Nested /\ Returning /\ RefsThere /\ Focused
  BY DEF IParser
<1>3. pending.refs # << >> => current \in Machines
  BY <1>2, Placed DEF Typed, Focused
<1>4. Returning'
  BY <1>1, <1>2, <1>3, ReturningSame
<1>5. RefsThere'
  BY <1>1, <1>2 DEF RefsThere
<1> QED BY <1>1, <1>4, <1>5 DEF IParser

(* the end of the parse *)
LEMMA StopKeeps ==
  ASSUME IParser, SyntaxError \/ ParentOfTop
  PROVE  IParser'
<1>1. Typed /\ Focused /\ ParserNext /\ Reading
  BY DEF IParser, ParserNext, SyntaxError, ParentOfTop, Is
<1>2. UNCHANGED <<text, machines, current, scope, pending>> /\ at' = Len(text) + 1
  BY DEF SyntaxError, ParentOfTop
<1>3. Len(text) \in Nat
  BY <1>1, Statement
<1>4. Typed'
  BY <1>1, <1>2, <1>3 DEF Typed
<1>5. ~Reading'
  BY <1>2, <1>3 DEF Reading
<1>6. Focused'
  BY <1>1, <1>2, <1>5 DEF Focused, Cur
<1> QED BY <1>1, <1>2, <1>4, <1>6, UntouchedKeeps

LEMMA ParentNamespaceKeeps == ASSUME IParser, ParentNamespace PROVE IParser'
<1>1. Typed /\ Nested /\ Focused /\ ParserNext
  BY DEF IParser, ParserNext
<1>2. /\ Reading /\ Stmt.kind = "parent" /\ Fits /\ Cur.parent # 0
      /\ scope' = Cur.parent /\ at' = at + 1 /\ text' = text
      /\ UNCHANGED <<machines, current, pending>>
  BY DEF ParentNamespace, Is, Advance
<1>3. current # 0 /\ (Cur.stage = "decls" \/ pending.of # None)
  BY <1>2 DEF Fits
<1>4. current \in Machines /\ Cur = machines[current] /\ Machines' = Machines
      /\ machines \in Seq(Records)
  BY <1>1, <1>2, <1>3, Placed DEF Machines, Cur, Typed
<1>5. Cur.parent \in Machines
  <2>1. Cur.parent \in 0 .. current - 1 /\ Machines = 1 .. Len(machines) /\ Len(machines) \in Nat
    BY <1>1, <1>4, Placed DEF Nested
  <2> QED BY <1>2, <1>4, <2>1
<1>6. text' \in Inputs /\ at' \in 1 .. Len(text') + 1 /\ at' > 1 /\ text'[at' - 1] = Stmt
  BY <1>1, <1>2, Onward
<1>7. Typed'
  BY <1>1, <1>2, <1>4, <1>5, <1>6, NewPlace DEF Typed
<1>8. Focused'
  <2>1. Namespaced' /\ text'[at' - 1].kind = "parent"
    BY <1>2, <1>6 DEF Namespaced
  <2>2. pending.of # None => current # 0 /\ Cur.stage = "does"
    BY <1>1 DEF Focused
  <2> QED BY <1>2, <1>3, <2>1, <2>2 DEF Focused, Cur
<1> QED BY <1>1, <1>2, <1>7, <1>8, UntouchedKeeps

LEMMA SubNamespaceKeeps == ASSUME IParser, SubNamespace PROVE IParser'
<1> DEFINE x == Stmt.name
           o == machines[scope].ids[x].owner
<1>1. Typed /\ Nested /\ Focused /\ ParserNext
  BY DEF IParser, ParserNext
<1>2. /\ Reading /\ Stmt.kind = "sub" /\ Fits /\ TypeOf(scope, x) = "MACHINE"
      /\ scope' = o /\ at' = at + 1 /\ text' = text
      /\ errors' = errors \union If(Cur.parent # 0, "machine namespace in sub-machine")
      /\ UNCHANGED <<machines, current, pending>>
  BY DEF SubNamespace, Is, Advance
<1>3. ~Namespaced /\ pending.of # None /\ x \in Names
  BY <1>1, <1>2, OfKind DEF Fits
<1>4. current # 0 /\ Cur.stage = "does" /\ scope = current
  BY <1>1, <1>2, <1>3 DEF Focused
<1>5. current \in Machines /\ Machines' = Machines /\ machines \in Seq(Records)
  BY <1>1, <1>2, <1>4, Placed DEF Machines, Typed
<1>6. machines[current].ids[x].type = "MACHINE"
  BY <1>2, <1>4 DEF TypeOf
<1>7. SubName(current, o, x)
  <2>1. Known(current)
    BY <1>5 DEF IParser, Recorded
  <2> QED BY <1>3, <1>4, <1>6, <2>1 DEF Known, KnownAs
<1>8. o \in Machines /\ machines[o].parent = current
  BY <1>1, <1>5, <1>7, SubsKnown DEF SubName
<1>9. text' \in Inputs /\ at' \in 1 .. Len(text') + 1 /\ at' > 1 /\ text'[at' - 1] = Stmt
  BY <1>1, <1>2, Onward
<1> HIDE DEF o, x
<1>10. Typed'
  BY <1>1, <1>2, <1>5, <1>8, <1>9, NewPlace DEF Typed
<1>11. Focused'
  <2>1. Namespaced' /\ text'[at' - 1].kind = "sub"
    BY <1>2, <1>9 DEF Namespaced
  <2>2. Sound' => Cur.parent = 0
    BY <1>2 DEF Sound, If
  <2>3. Cur' = Cur /\ machines'[scope'].parent = current'
    BY <1>2, <1>8 DEF Cur
  <2> QED BY <1>2, <1>3, <1>4, <2>1, <2>2, <2>3 DEF Focused
<1> QED BY <1>1, <1>2, <1>10, <1>11, UntouchedKeeps

(* What the searched list knows may be referred to from the machine. *)
LEMMA FoundInReach ==
  ASSUME IParser, Sound, Reading, current # 0, NEW x \in Names,
         machines[scope].ids[x].type \in {"EVENT", "STATE"}
  PROVE  GoodRef(current, <<machines[scope].ids[x].owner, x>>)
<1> DEFINE r == <<machines[scope].ids[x].owner, x>>
<1>1. Typed /\ Nested /\ Focused
  BY DEF IParser
<1>2. current \in Machines /\ scope \in Machines /\ Cur = machines[current]
  BY <1>1, Placed DEF Cur
<1>3. OwnName(scope, r[1], r[2]) \/ SubName(scope, r[1], r[2])
  <2>1. Known(scope)
    BY <1>2 DEF IParser, Recorded
  <2> QED BY <2>1 DEF Known, KnownAs
<1>4. scope \in Reach(current)
  <2>1. CASE ~Namespaced
    BY <1>1, <1>2, <2>1 DEF Focused, Reach
  <2>2. CASE Namespaced
    <3>1. text[at - 1].kind \in {"parent", "sub"}
      BY <2>2 DEF Namespaced
    <3>2. \/ scope = machines[current].parent
          \/ machines[scope].parent = current /\ machines[current].parent = 0
      BY <1>1, <1>2, <2>2, <3>1 DEF Focused
    <3> QED BY <1>2, <3>2 DEF Reach
  <2> QED BY <2>1, <2>2
<1> QED BY <1>3, <1>4 DEF GoodRef

LEMMA ReturnedKeeps == ASSUME IParser, Returned PROVE IParser'
<1> DEFINE x == Stmt.name
           r == <<machines[scope].ids[x].owner, x>>
<1>1. Typed /\ Nested /\ Focused /\ Returning /\ RefsThere /\ ParserNext
  BY DEF IParser, ParserNext
<1>2. /\ Reading /\ Stmt.kind = "returned" /\ Fits /\ MayReturn
      /\ pending' = [pending EXCEPT !.refs = Append(@, r), !.type = TypeOf(scope, x)]
      /\ scope' = current /\ at' = at + 1 /\ text' = text
      /\ UNCHANGED <<machines, current>>
  BY DEF Returned, Is, Advance, WithRef
<1>3. pending.of # None /\ x \in Names
  BY <1>1, <1>2, OfKind DEF Fits
<1>4. current # 0 /\ Cur.stage = "does"
  BY <1>1, <1>3 DEF Focused
<1>5. current \in Machines /\ scope \in Machines /\ machines[scope] \in Records
      /\ Machines' = Machines /\ machines \in Seq(Records)
  BY <1>1, <1>2, <1>4, Placed DEF Machines, Typed
<1>6. machines[scope].ids[x].type \in {"EVENT", "STATE"}
  <2>1. TypeOf(scope, x) \in {"EVENT", "STATE"}
    BY <1>2 DEF MayReturn
  <2> QED BY <2>1 DEF TypeOf
<1>7. r \in Refs /\ r[1] <= Len(machines)
  <2>1. machines[scope].ids[x] \in Id
    BY <1>3, <1>5 DEF Records
  <2>2. machines[scope].ids[x].owner \in Nat
    BY <2>1 DEF Id
  <2> QED BY <1>1, <1>3, <1>5, <2>2 DEF Refs, RefsThere
<1>8. Sound => GoodRef(current, r)
  BY <1>2, <1>3, <1>4, <1>6, FoundInReach
<1> DEFINE t == TypeOf(scope, x)
<1>16. t \in Types
  BY <1>2 DEF MayReturn, Types
<1>17. pending' = [pending EXCEPT !.refs = Append(@, r), !.type = t]
  BY <1>2
<1> HIDE DEF r, x, t
<1>9. /\ Grows /\ Nested' /\ Machines' = Machines
      /\ \A m \in Machines : Recorded(m)' /\ Sharing(m)'
  BY <1>1, <1>2, Untouched
<1>10. text' \in Inputs /\ at' \in 1 .. Len(text') + 1
  BY <1>1, <1>2, Onward
<1>11. /\ pending' \in Pendings
       /\ pending'.of = pending.of /\ pending'.refs = Append(pending.refs, r)
       /\ pending.refs \in Seq(Refs)
  <2>1. pending \in Pendings
    BY <1>1 DEF Typed
  <2>2. Append(pending.refs, r) \in Seq(Refs)
    BY <1>7, <2>1 DEF Pendings
  <2> DEFINE q == Append(pending.refs, r)
  <2>3. q \in Seq(Refs) /\ pending' = [pending EXCEPT !.refs = q, !.type = t]
    BY <1>17, <2>2
  <2> HIDE DEF q
  <2>4. pending' \in Pendings
        /\ pending'.of = pending.of /\ pending'.refs = q
    BY <1>16, <2>1, <2>3 DEF Pendings
  <2> QED BY <2>1, <2>4 DEF q, Pendings
<1>12. Typed'
  BY <1>1, <1>2, <1>3, <1>5, <1>10, <1>11, NewPlace DEF Typed
<1>13. Focused'
  <2>1. machines'[current'].stage = "does"
    BY <1>2, <1>4 DEF Cur
  <2> QED BY <1>1, <1>2, <1>4, <2>1, PlainFocus
<1>14. Returning'
  <2>1. ToSet(pending'.refs) = ToSet(pending.refs) \union {r}
    BY <1>11, Appended
  <2>2. ASSUME Sound', NEW c, c = current', NEW s \in ToSet(pending'.refs) PROVE GoodRef(c, s)'
    <3>1. c \in Machines /\ c = current
      BY <1>2, <1>5, <2>2
    <3>2. CASE s \in ToSet(pending.refs)
      BY <1>1, <1>9, <2>2, <3>1, <3>2, ReturnsStay
    <3>3. CASE s = r
      <4>1. GoodRef(c, s)
        BY <1>8, <1>9, <2>2, <3>1, <3>3 DEF Grows
      <4> QED BY <1>1, <1>9, <3>1, <4>1, GoodRefKept
    <3> QED BY <2>1, <2>2, <3>2, <3>3
  <2>3. Sound' => \A m \in Machines', a \in Names :
                    \A s \in ToSet(machines'[m].returns[a]) : GoodRef(m, s)'
    BY <1>1, <1>2, <1>9, ReturnsStay
  <2> QED BY <2>2, <2>3, ReturningFrom
<1>15. RefsThere'
  <2>1. \A i \in DOMAIN pending'.refs : pending'.refs[i][1] <= Len(machines)
    <3>1. \A i \in DOMAIN pending.refs : pending.refs[i][1] <= Len(machines)
      BY <1>1 DEF RefsThere
    <3>2. \A i \in DOMAIN pending'.refs :
            pending'.refs[i] = r \/ (i \in DOMAIN pending.refs /\ pending'.refs[i] = pending.refs[i])
      BY <1>11, Appended
    <3> QED BY <1>7, <3>1, <3>2
  <2> QED BY <1>1, <1>2, <1>9, <2>1 DEF RefsThere
<1> QED BY <1>9, <1>12, <1>13, <1>14, <1>15 DEF IParser

-----------------------------------------------------------------------------
(* A name of the parent that is referred to becomes the machine's own.     *)
LEMMA Claimed ==
  ASSUME NEW ids \in [Names -> Id], NEW x \in Names, NEW type \in Types, NEW m \in Nat
  PROVE  Own(AddId(ids, x, type), x, m)[x] =
           [type |-> IF ids[x].type = "none" THEN type ELSE ids[x].type, owner |-> m]
<1> DEFINE add == AddId(ids, x, type)
<1>1. add \in [Names -> Id]
  BY IdsTyped
<1>2. add[x] = IF ids[x].type = "none" THEN [type |-> type, owner |-> ids[x].owner] ELSE ids[x]
  BY AfterAdd
<1>3. add[x].type = IF ids[x].type = "none" THEN type ELSE ids[x].type
  BY <1>2
<1> HIDE DEF add
<1>4. Own(add, x, m)[x] = [type |-> add[x].type, owner |-> m]
  BY <1>1, AfterOwn
<1> QED BY <1>3, <1>4 DEF add

LEMMA ClaimedOther ==
  ASSUME NEW ids \in [Names -> Id], NEW x \in Names, NEW type \in Types, NEW m \in Nat,
         NEW y \in Names, y # x
  PROVE  Own(AddId(ids, x, type), x, m)[y] = ids[y]
<1> DEFINE add == AddId(ids, x, type)
<1>1. add \in [Names -> Id]
  BY IdsTyped
<1>2. add[y] = ids[y]
  BY DEF AddId
<1> HIDE DEF add
<1>3. Own(add, x, m)[y] = add[y]
  BY <1>1, OwnOther
<1> QED BY <1>2, <1>3 DEF add

LEMMA ReferParentEventKeeps == ASSUME IParser, ReferParentEvent PROVE IParser'
<1> DEFINE x == Stmt.name
           M == machines[current]
           P == machines[scope]
           r == WithShared
           s == WithSharer
<1>1. Typed /\ Nested /\ Focused /\ Returning /\ RefsThere /\ ParserNext
  BY DEF IParser, ParserNext
<1>2. /\ Reading /\ pending.of = None /\ current # 0 /\ Cur.stage = "decls"
      /\ x \in Names /\ Stmt.translator \in Names \union {None}
      /\ current \in Machines /\ Cur \in Records
      /\ scope = Cur.parent /\ scope \in Machines /\ scope < current
      /\ P \in Records /\ r \in Records /\ s \in Records
      /\ machines' \in Seq(Records) /\ Len(machines') = Len(machines) /\ Machines' = Machines
      /\ machines'[current] = r /\ machines'[scope] = s
      /\ \A m \in Machines : m \notin {current, scope} => machines'[m] = machines[m]
  <2> HIDE DEF r, s, x
  <2>1. WithShared = r /\ WithSharer = s /\ Stmt.name = x
    BY DEF r, s, x
  <2> QED BY <1>1, <2>1, ReferParentEventDoes
<1>3. /\ Cur = M /\ M \in Records /\ M.stage = "decls" /\ M.parent = scope
      /\ current' = current /\ scope' = current /\ pending' = pending
      /\ text' = text /\ at' = at + 1 /\ Stmt.kind = "parentEvent"
      /\ TypeOf(scope, x) = "EVENT"
      /\ Sound' => Sound
      /\ current \in Nat /\ scope \in Nat
  BY <1>1, <1>2, ErrorsStay, Placed DEF Cur, ReferParentEvent, Advance, Is
<1>4. /\ r.parent = M.parent /\ r.name = M.name /\ r.subs = M.subs /\ r.stage = M.stage
      /\ r.shared = M.shared \union {x} /\ r.sharers = M.sharers /\ r.states = M.states
      /\ r.events = Append(M.events, x) /\ r.infos = M.infos /\ r.actions = M.actions
      /\ r.fns = M.fns /\ r.targets = M.targets /\ r.returns = M.returns
      /\ r.ids = Own(AddId(M.ids, x, "EVENT"), x, current)
  BY <1>3 DEF WithShared, Records
<1>5. /\ s.parent = P.parent /\ s.name = P.name /\ s.subs = P.subs /\ s.stage = P.stage
      /\ s.shared = P.shared /\ s.states = P.states
      /\ s.events = P.events /\ s.infos = P.infos /\ s.actions = P.actions
      /\ s.fns = P.fns /\ s.targets = P.targets /\ s.returns = P.returns
      /\ s.ids = Translated(P.ids)
      /\ \A y \in Names : y # x => s.sharers[y] = P.sharers[y]
      /\ s.sharers[x] = Append(P.sharers[x], current)
  <2>1. machines[Cur.parent] = P
    BY <1>2
  <2> HIDE DEF P, x
  <2> QED BY <1>2, <2>1 DEF WithSharer, Records, x
<1>6. M.ids \in [Names -> Id] /\ M.events \in Seq(Names) /\ P.ids \in [Names -> Id]
      /\ P.sharers[x] \in Seq(Nat)
  BY <1>2, <1>3 DEF Records
<1>7. /\ ToSet(r.events) = ToSet(M.events) \union {x}
      /\ \A y : Repeated(M.events, y) => Repeated(r.events, y)
      /\ x \in ToSet(M.events) => Repeated(r.events, x)
  BY <1>4, <1>6, Appended, RepeatedAppended
<1>8. /\ r.ids[x] = [type |-> IF M.ids[x].type = "none" THEN "EVENT" ELSE M.ids[x].type, owner |-> current]
      /\ \A y \in Names : y # x => r.ids[y] = M.ids[y]
  <2> "EVENT" \in Types
    BY DEF Types
  <2>1. \A y \in Names : y # x => Own(AddId(M.ids, x, "EVENT"), x, current)[y] = M.ids[y]
    BY <1>2, <1>3, <1>6, ClaimedOther
  <2>2. Own(AddId(M.ids, x, "EVENT"), x, current)[x] =
           [type |-> IF M.ids[x].type = "none" THEN "EVENT" ELSE M.ids[x].type, owner |-> current]
    BY <1>2, <1>3, <1>6, Claimed
  <2> QED BY <1>4, <2>1, <2>2
<1>9. \A y \in Names :
        \/ s.ids[y] = P.ids[y]
        \/ P.ids[y].type = "none" /\ s.ids[y] = [type |-> "ID", owner |-> P.ids[y].owner]
  <2>1. PICK ids : ids = P.ids
    OBVIOUS
  <2>2. \A y \in Names :
          \/ Translated(ids)[y] = ids[y]
          \/ ids[y].type = "none" /\ Translated(ids)[y] = [type |-> "ID", owner |-> ids[y].owner]
    BY <1>1, <1>2, <1>3, <1>6, <2>1, TranslatedIs
  <2> HIDE DEF s, P
  <2> QED BY <1>5, <2>1, <2>2
<1> HIDE DEF r, s, x
<1>10. Grows
  <2>1. ASSUME NEW m \in Machines
        PROVE  /\ machines'[m].parent = machines[m].parent /\ machines'[m].name = machines[m].name
               /\ ToSet(machines[m].events) \subseteq ToSet(machines'[m].events)
               /\ ToSet(machines[m].states) \subseteq ToSet(machines'[m].states)
               /\ ToSet(machines[m].subs) \subseteq ToSet(machines'[m].subs)
               /\ \A y : Repeated(machines[m].events, y) => Repeated(machines'[m].events, y)
    <3>1. CASE m = current
      BY <1>2, <1>4, <1>7, <3>1
    <3>2. CASE m = scope
      BY <1>2, <1>5, <3>2
    <3>3. CASE m \notin {current, scope}
      <4>1. machines'[m] = machines[m]
        BY <1>2, <3>3
      <4> QED BY <4>1
    <3> QED BY <3>1, <3>2, <3>3
  <2>2. Machines \subseteq Machines' /\ Len(machines) <= Len(machines') /\ (Sound' => Sound)
    BY <1>1, <1>2, <1>3, Placed
  <2> QED BY <2>1, <2>2 DEF Grows
<1>11. Nested'
  <2>1. \A m \in Machines :
           /\ machines'[m].parent = machines[m].parent /\ machines'[m].subs = machines[m].subs
           /\ machines'[m].stage = machines[m].stage
    <3> SUFFICES ASSUME NEW m \in Machines
                 PROVE  /\ machines'[m].parent = machines[m].parent /\ machines'[m].subs = machines[m].subs
                        /\ machines'[m].stage = machines[m].stage
      OBVIOUS
    <3>1. CASE m = current
      BY <1>2, <1>4, <3>1
    <3>2. CASE m = scope
      BY <1>2, <1>5, <3>2
    <3>3. CASE m \notin {current, scope}
      BY <1>2, <3>3
    <3> QED BY <3>1, <3>2, <3>3
  <2> QED BY <1>1, <1>2, <1>3, <2>1, NestedSame
<1>12. PICK c, p : c = current /\ p = scope
  OBVIOUS
<1>13. /\ c \in Machines /\ p \in Machines /\ machines'[c] = r /\ machines[c] = M
       /\ machines'[p] = s /\ machines[p] = P /\ Recorded(c) /\ Recorded(p) /\ p # c
  BY <1>2, <1>3, <1>12 DEF IParser
<1>14. P.stage = "subs"
  <2>1. Open(scope)
    <3>1. Open(current) /\ M.parent # 0
      BY <1>1, <1>2, <1>3, Placed DEF Nested
    <3> QED BY <1>1, <1>2, <1>3, <3>1 DEF Nested
  <2> QED BY <1>1, <1>2, <2>1, <1>12, <1>13 DEF Nested
(* the machine *)
<1>15. Recorded(c)'
  <2>1. /\ M.infos = << >> /\ M.actions = << >> /\ M.fns = << >> /\ M.targets = << >>
        /\ \A y \in Names : M.ids[y].type # "MACHINE"
    BY <1>3, <1>13 DEF Recorded, Staged
  <2>2. \A y \in Names : r.ids[y].type # "MACHINE"
    <3>1. r.ids[x].type # "MACHINE"
      BY <1>2, <1>8, <2>1
    <3> QED BY <1>8, <2>1, <3>1
  <2>3. Staged(c)'
    BY <1>3, <1>4, <1>13, <2>1, <2>2 DEF Staged
  <2>4. Tabled(c)' /\ Vectors(c)'
    BY <1>4, <1>13, <2>1, NothingDone
  <2>5. SharedOwn(c)'
    BY <1>4, <1>7, <1>13 DEF SharedOwn, Recorded
  <2>6. Known(c)' /\ Listed(c)'
    <3>1. ASSUME NEW y \in Names, y = x
          PROVE  /\ KnownAs(c, y, machines[c].ids[y])'
                 /\ \A type \in {"EVENT", "STATE", "ACTION"} :
                      machines[c].ids[y].type = type => Holds(c, y, type)'
                 /\ EventHeld(c, y)'
      <4>1. PICK t : t = IF M.ids[y].type = "none" THEN "EVENT" ELSE M.ids[y].type
        OBVIOUS
      <4>2. machines'[c].ids[y] = [type |-> t, owner |-> c]
        BY <1>8, <1>12, <1>13, <3>1, <4>1
      <4>3. t # "none" /\ t # "MACHINE"
        BY <2>1, <4>1
      <4>4. y \in ToSet(machines'[c].events)
        BY <1>7, <1>13, <3>1
      <4>5. KnownAs(c, y, machines[c].ids[y])'
        BY <4>2, <4>3, <4>4 DEF KnownAs, OwnName
      <4>6. \A type \in {"EVENT", "STATE", "ACTION"} :
              machines[c].ids[y].type = type => Holds(c, y, type)'
        BY <1>13, <4>1, <4>2 DEF Holds
      <4>7. EventHeld(c, y)'
        <5>1. CASE t = "EVENT"
          BY <4>2, <5>1 DEF EventHeld, Holds
        <5>2. CASE t # "EVENT"
          <6>1. t \in {"ID", "STATE", "ACTION", "TRANSITION_FN"}
            BY <1>6, <4>1, <4>3, <5>2 DEF Id, Types
          <6>2. y \in machines'[c].shared
            BY <1>4, <1>13, <3>1
          <6>3. KeptAs(c, y)'
            BY <4>2, <6>1, <6>2 DEF KeptAs
          <6> QED BY <6>3 DEF EventHeld
        <5> QED BY <5>1, <5>2
      <4> QED BY <4>5, <4>6, <4>7
    <3>2. /\ machines'[c].states = machines[c].states /\ machines'[c].actions = machines[c].actions
          /\ ToSet(machines'[c].events) = ToSet(machines[c].events) \union {x}
          /\ machines[c].shared \subseteq machines'[c].shared
      BY <1>4, <1>7, <1>13
    <3>3. ASSUME NEW y \in Names
          PROVE  \/ /\ machines'[c].ids[y] = machines[c].ids[y]
                    /\ y \in ToSet(machines'[c].events) => y \in ToSet(machines[c].events)
                 \/ /\ KnownAs(c, y, machines[c].ids[y])'
                    /\ \A type \in {"EVENT", "STATE", "ACTION"} :
                         machines[c].ids[y].type = type => Holds(c, y, type)'
                    /\ KeptAs(c, y) => EventHeld(c, y)'
      <4>1. CASE y = x
        BY <3>1, <4>1
      <4>2. CASE y # x
        BY <1>8, <1>13, <3>2, <4>2
      <4> QED BY <4>1, <4>2
    <3>4. \A y \in ToSet(machines'[c].events) :
            y \in ToSet(machines[c].events) \/ EventHeld(c, y)'
      BY <1>2, <3>1, <3>2
    <3> QED BY <1>1, <1>2, <1>10, <1>13, <3>2, <3>3, <3>4, EntriesKeep
  <2> QED BY <2>3, <2>4, <2>5, <2>6 DEF Recorded
(* its parent *)
<1>16. Recorded(p)'
  <2>1. P.infos = << >> /\ P.actions = << >> /\ P.fns = << >> /\ P.targets = << >>
    BY <1>13, <1>14 DEF Recorded, Staged
  <2>2. Staged(p)'
    BY <1>5, <1>13, <1>14, <2>1 DEF Staged
  <2>3. Tabled(p)' /\ Vectors(p)'
    BY <1>5, <1>13, <2>1, NothingDone
  <2>4. SharedOwn(p)'
    BY <1>5, <1>13 DEF SharedOwn, Recorded
  <2>5. Known(p)' /\ Listed(p)'
    <3>1. /\ machines'[p].events = machines[p].events /\ machines'[p].states = machines[p].states
          /\ machines'[p].actions = machines[p].actions /\ machines'[p].shared = machines[p].shared
      BY <1>5, <1>13
    <3>2. ASSUME NEW y \in Names, P.ids[y].type = "none", s.ids[y] = [type |-> "ID", owner |-> P.ids[y].owner]
          PROVE  /\ KnownAs(p, y, machines[p].ids[y])'
                 /\ machines[p].ids[y].type \notin {"EVENT", "STATE", "ACTION"}
                 /\ ~KeptAs(p, y)
      <4>1. machines'[p].ids[y].type = "ID" /\ machines[p].ids[y].type = "none"
        BY <1>13, <3>2
      <4> QED BY <4>1 DEF KnownAs, KeptAs
    <3>3. ASSUME NEW y \in Names
          PROVE  \/ /\ machines'[p].ids[y] = machines[p].ids[y]
                    /\ y \in ToSet(machines'[p].events) => y \in ToSet(machines[p].events)
                 \/ /\ KnownAs(p, y, machines[p].ids[y])'
                    /\ machines[p].ids[y].type \notin {"EVENT", "STATE", "ACTION"}
                    /\ KeptAs(p, y) => EventHeld(p, y)'
      BY <1>9, <1>13, <3>1, <3>2
    <3> QED BY <1>1, <1>2, <1>10, <1>13, <3>1, <3>3, EntriesKeep
  <2> QED BY <2>2, <2>3, <2>4, <2>5 DEF Recorded
<1>17. \A m \in Machines : Recorded(m)'
  <2> SUFFICES ASSUME NEW m \in Machines, m # c, m # p PROVE Recorded(m)'
    BY <1>15, <1>16
  <2>1. machines'[m] = machines[m]
    BY <1>2, <1>12
  <2>2. Alike(m) /\ Recorded(m)
    BY <2>1 DEF Alike, IParser
  <2> QED BY <1>1, <1>10, <2>2, AlikeKeeps
(* who shares *)
<1>18. \A m \in Machines : machines'[m].shared = IF m = c THEN machines[m].shared \union {x} ELSE machines[m].shared
  <2> SUFFICES ASSUME NEW m \in Machines
               PROVE machines'[m].shared = IF m = c THEN machines[m].shared \union {x} ELSE machines[m].shared
    OBVIOUS
  <2>1. CASE m = c
    BY <1>4, <1>13, <2>1
  <2>2. CASE m = p
    BY <1>5, <1>13, <2>2
  <2>3. CASE m # c /\ m # p
    BY <1>2, <1>12, <2>3
  <2> QED BY <2>1, <2>2, <2>3
<1>19. ASSUME NEW m \in Machines, NEW y \in Names, ~(m = p /\ y = x)
       PROVE  machines'[m].sharers[y] = machines[m].sharers[y]
  <2>1. CASE m = c
    BY <1>4, <1>13, <2>1
  <2>2. CASE m = p
    BY <1>5, <1>13, <1>19, <2>2
  <2>3. CASE m # c /\ m # p
    BY <1>2, <1>12, <2>3
  <2> QED BY <2>1, <2>2, <2>3
<1>20. machines[c].parent = p /\ \A m \in Machines : machines'[m].parent = machines[m].parent
  BY <1>3, <1>10, <1>12, <1>13 DEF Grows
<1>21. ASSUME NEW m \in Machines PROVE Sharing(m)'
  <2> SUFFICES ASSUME NEW y \in Names
               PROVE  LET q == machines'[m].sharers[y] IN
                 /\ \A i \in DOMAIN q : q[i] \in Machines /\ machines'[q[i]].parent = m
                 /\ Sound' =>
                      /\ ToSet(q) = {k \in Machines : machines'[k].parent = m /\ y \in machines'[k].shared}
                      /\ Ordered(m, y)'
                      /\ q # << >> => y = noEvent \/ y \in ToSet(machines'[m].events)
    BY <1>2 DEF Sharing
  <2> DEFINE q == machines[m].sharers[y]
             q1 == machines'[m].sharers[y]
             of == {k \in Machines : machines[k].parent = m /\ y \in machines[k].shared}
             of1 == {k \in Machines : machines'[k].parent = m /\ y \in machines'[k].shared}
  <2>1. /\ \A i \in DOMAIN q : q[i] \in Machines /\ machines[q[i]].parent = m
        /\ Sound =>
             /\ ToSet(q) = of
             /\ Ordered(m, y)
             /\ q # << >> => y = noEvent \/ y \in ToSet(machines[m].events)
    BY DEF IParser, Sharing
  <2>2. ToSet(machines[m].events) \subseteq ToSet(machines'[m].events)
    BY <1>10 DEF Grows
  <2>3. CASE ~(m = p /\ y = x)
    <3>1. q1 = q
      BY <1>19, <2>3
    <3>2. of1 = of
      BY <1>18, <1>20, <2>3
    <3>5. Sound' => Ordered(m, y)'
      BY <1>3, <1>10, <2>1, <3>1, OrderedKept
    <3> HIDE DEF q, q1, of, of1
    <3>3. \A i \in DOMAIN q1 : q1[i] \in Machines /\ machines'[q1[i]].parent = m
      BY <1>20, <2>1, <3>1
    <3>4. Sound' =>
            /\ ToSet(q1) = of1
            /\ Ordered(m, y)'
            /\ q1 # << >> => y = noEvent \/ y \in ToSet(machines'[m].events)
      BY <1>3, <2>1, <2>2, <3>1, <3>2, <3>5
    <3> QED BY <3>3, <3>4 DEF q1, of1
  <2>4. CASE m = p /\ y = x
    <3>1. q1 = Append(q, c) /\ q \in Seq(Nat)
      BY <1>5, <1>6, <1>12, <1>13, <2>4
    <3>2. of1 = of \union {c}
      BY <1>13, <1>18, <1>20, <2>4
    <3>3. c \in of => Repeated(machines'[c].events, x)
      <4>1. c \in of => x \in ToSet(M.events)
        BY <1>13, <2>4 DEF Recorded, SharedOwn
      <4> QED BY <1>7, <1>13, <4>1
    <3>4. \A k \in of : k <= c
      BY <1>1, <1>2, <1>12, <1>20, <2>4 DEF Nested
    <3>5. y = noEvent \/ y \in ToSet(machines[m].events)
      <4>1. KnownAs(p, x, machines[p].ids[x]) /\ machines[p].ids[x].type = "EVENT"
        BY <1>2, <1>3, <1>12, <1>13 DEF Recorded, Known, TypeOf
      <4> QED BY <2>4, <4>1 DEF KnownAs
    <3>6. c \in Machines /\ machines'[c].parent = m
      BY <1>13, <1>20, <2>4
    <3> HIDE DEF q, q1, of, of1
    <3>7. /\ Len(q) \in Nat /\ DOMAIN q = 1 .. Len(q) /\ DOMAIN q1 = 1 .. Len(q) + 1
          /\ \A i \in 1 .. Len(q) : q1[i] = q[i]
          /\ q1[Len(q) + 1] = c
          /\ ToSet(q1) = ToSet(q) \union {c}
      BY <3>1, Appended
    <3>8. \A i \in DOMAIN q1 : q1[i] \in Machines /\ machines'[q1[i]].parent = m
      BY <1>20, <2>1, <3>6, <3>7
    <3>11. q = machines[m].sharers[y] /\ q1 = machines'[m].sharers[y]
      BY DEF q, q1
    <3>9. ASSUME Sound'
          PROVE  Ordered(m, y)'
      <4>1. \A i \in DOMAIN q : q[i] \in of
        BY <1>3, <2>1, <3>9 DEF ToSet
      <4>2. \A i \in DOMAIN q : q[i] < c \/ (q[i] = c /\ Repeated(machines'[q[i]].events, y))
        <5>1. \A i \in DOMAIN q : q[i] \in Nat /\ c \in Nat
          BY <1>3, <1>12, <3>1
        <5> QED BY <2>4, <3>3, <3>4, <4>1, <5>1
      <4>3. \A i, j \in DOMAIN q : i < j =>
              q[i] < q[j] \/ (q[i] = q[j] /\ Repeated(machines[q[i]].events, y))
        BY <1>3, <2>1, <3>9, <3>11 DEF Ordered
      <4>4. \A i \in DOMAIN q : Repeated(machines[q[i]].events, y) => Repeated(machines'[q[i]].events, y)
        BY <1>10, <2>1 DEF Grows
      <4>5. \A i, j \in DOMAIN q1 : i < j =>
              q1[i] < q1[j] \/ (q1[i] = q1[j] /\ Repeated(machines'[q1[i]].events, y))
        BY <3>7, <4>2, <4>3, <4>4
      <4> QED BY <3>11, <4>5 DEF Ordered
    <3>10. Sound' => ToSet(q1) = of1
      BY <1>3, <2>1, <3>2, <3>7
    <3> QED BY <2>2, <3>5, <3>8, <3>9, <3>10 DEF q1, of1
  <2> QED BY <2>3, <2>4
<1>22. Typed'
  <2>1. text' \in Inputs /\ at' \in 1 .. Len(text') + 1
    BY <1>1, <1>2, <1>3, Onward
  <2> QED BY <1>1, <1>2, <1>3, <2>1, NewPlace DEF Typed
<1>23. Focused'
  BY <1>1, <1>2, <1>3, PlainFocus
<1>24. Returning' /\ RefsThere'
  <2>1. ASSUME NEW m \in Machines PROVE machines'[m].returns = machines[m].returns
    <3>1. CASE m = c
      BY <1>4, <1>13, <3>1
    <3>2. CASE m = p
      BY <1>5, <1>13, <3>2
    <3>3. CASE m # c /\ m # p
      BY <1>2, <1>12, <3>3
    <3> QED BY <3>1, <3>2, <3>3
  <2>2. ASSUME NEW m \in Machines, NEW y \in Names PROVE machines'[m].ids[y].owner <= Len(machines)
    <3>1. machines[m].ids[y].owner <= Len(machines) /\ c <= Len(machines)
      BY <1>1, <1>12, <1>13, Placed DEF RefsThere
    <3>2. CASE m = c /\ y = x
      <4>1. r.ids[y].owner = c
        BY <1>8, <1>12, <3>2
      <4> QED BY <1>13, <3>1, <3>2, <4>1
    <3>3. CASE m = c /\ y # x
      BY <1>8, <1>13, <3>1, <3>3
    <3>4. CASE m = p
      <4>1. s.ids[y] = [type |-> "ID", owner |-> P.ids[y].owner] => s.ids[y].owner = P.ids[y].owner
        OBVIOUS
      <4> QED BY <1>9, <1>13, <3>1, <3>4, <4>1
    <3>5. CASE m # c /\ m # p
      BY <1>2, <1>12, <3>1, <3>5
    <3> QED BY <3>2, <3>3, <3>4, <3>5
  <2> QED BY <1>1, <1>2, <1>3, <1>10, <2>1, <2>2, ReturningSame, RefsSame
<1> QED BY <1>2, <1>11, <1>17, <1>21, <1>22, <1>23, <1>24 DEF IParser

-----------------------------------------------------------------------------
(* The identifiers a machine begins with. *)
LEMMA NewIdsAre ==
  ASSUME NEW name \in Names, NEW m \in Nat, NEW q, NEW y \in Names
  PROVE  LET id == NewIds(name, m, q)[y] IN
         /\ id.owner \in {0, m}
         /\ \/ id.type \in {"none", "ID"}
            \/ y = noEvent /\ id = [type |-> "EVENT", owner |-> m]
            \/ y = noTransition /\ id = [type |-> "STATE", owner |-> m]
<1> DEFINE blank == [x \in Names |-> [type |-> "none", owner |-> 0]]
           named == SetType(blank, name, "ID")
           own   == Own(AddId(named, noEvent, "EVENT"), noEvent, m)
           events == IF q.noEvent \/ q.spec \in {{}, {"events"}} THEN own ELSE named
           all   == Own(AddId(events, noTransition, "STATE"), noTransition, m)
<1>1. /\ noEvent \in Names /\ noTransition \in Names /\ noEvent # noTransition
      /\ "ID" \in Types /\ "EVENT" \in Types /\ "STATE" \in Types /\ "none" \in Types
  BY ParserAssumption DEF Types
<1>2. blank \in [Names -> Id]
  BY <1>1 DEF Id
<1>3. \A z \in Names : blank[z] = [type |-> "none", owner |-> 0]
  OBVIOUS
<1> HIDE DEF blank
<1>4. named \in [Names -> Id]
  BY <1>1, <1>2, IdsTyped
<1>5. \A z \in Names : named[z].type \in {"none", "ID"} /\ named[z].owner = 0
  <2>1. \A z \in Names : named[z] = IF z = name THEN [type |-> "ID", owner |-> blank[name].owner] ELSE blank[z]
    BY <1>2, AfterSet
  <2> QED BY <1>3, <2>1
<1> HIDE DEF named
<1>6. own \in [Names -> Id]
  BY <1>1, <1>4, IdsTyped
<1>7. /\ \A z \in Names : z # noEvent => own[z] = named[z]
      /\ own[noEvent] = [type |-> IF named[noEvent].type = "none" THEN "EVENT" ELSE named[noEvent].type,
                         owner |-> m]
  BY <1>1, <1>4, Claimed, ClaimedOther
<1> HIDE DEF own
<1>8. /\ events \in [Names -> Id]
      /\ \A z \in Names :
           /\ events[z].owner \in {0, m}
           /\ events[z].type \in {"none", "ID"} \/ (z = noEvent /\ events[z] = [type |-> "EVENT", owner |-> m])
  <2>1. ASSUME NEW z \in Names
        PROVE  /\ own[z].owner \in {0, m}
               /\ own[z].type \in {"none", "ID"} \/ (z = noEvent /\ own[z] = [type |-> "EVENT", owner |-> m])
    <3>1. CASE z = noEvent
      BY <1>1, <1>5, <1>7, <3>1
    <3>2. CASE z # noEvent
      BY <1>5, <1>7, <3>2
    <3> QED BY <3>1, <3>2
  <2> QED BY <1>4, <1>5, <1>6, <2>1
<1> HIDE DEF events
<1>9. /\ \A z \in Names : z # noTransition => all[z] = events[z]
      /\ all[noTransition] = [type |-> IF events[noTransition].type = "none" THEN "STATE"
                                       ELSE events[noTransition].type, owner |-> m]
  BY <1>1, <1>8, Claimed, ClaimedOther
<1>10. NewIds(name, m, q) = all
  BY DEF NewIds, all, events, own, named, blank
<1> HIDE DEF all
<1>11. CASE y = noTransition
  <2>1. events[noTransition].type \in {"none", "ID"}
    BY <1>1, <1>8
  <2>2. all[y].owner = m /\ all[y].type \in {"STATE", "ID"}
    BY <1>9, <1>11, <2>1
  <2>3. all[y].type = "STATE" => all[y] = [type |-> "STATE", owner |-> m]
    BY <1>9, <1>11, <2>1
  <2> QED BY <1>10, <1>11, <2>2, <2>3
<1>12. CASE y # noTransition
  BY <1>8, <1>9, <1>10, <1>12
<1> QED BY <1>11, <1>12

LEMMA BeginMachineKeeps == ASSUME IParser, BeginMachine PROVE IParser'
<1> DEFINE L == Len(machines)
           r == NewMachine
<1>1. Typed /\ Nested /\ Focused /\ Returning /\ RefsThere /\ ParserNext
  BY DEF IParser, ParserNext
<1>2. /\ Reading /\ Begins /\ Stmt.name \in Names
      /\ current # 0 => Cur.stage \in {"decls", "subs"}
      /\ r \in Records
      /\ machines' \in Seq(Records) /\ Len(machines') = L + 1
      /\ Machines' = Machines \union {L + 1} /\ L + 1 \notin Machines
      /\ machines'[L + 1] = r
      /\ \A m \in Machines :
           machines'[m] = IF m = current THEN [machines[m] EXCEPT !.stage = "subs"] ELSE machines[m]
      /\ current' = L + 1 /\ scope' = current' /\ UNCHANGED pending
  <2> HIDE DEF r
  <2>1. NewMachine = r
    BY DEF r
  <2> QED BY <1>1, <2>1, BeginMachineDoes
<1>3. /\ L \in Nat /\ Machines = 1 .. L /\ current \in 0 .. L /\ current \in Nat
      /\ \A m \in Machines : m \in Nat /\ m # 0 /\ machines[m] \in Records
      /\ text' = text /\ at' = at + 1 /\ Stmt.kind = "machine"
  BY <1>1, Placed DEF Typed, BeginMachine, Advance, Is
<1>4. pending.of = None /\ pending.refs = << >>
  BY <1>1, <1>2 DEF Begins, Typed
<1>5. /\ r.parent = current /\ r.stage = "decls" /\ r.events = << >> /\ r.states = << >>
      /\ r.shared = {} /\ r.sharers = NoLists /\ r.subs = << >> /\ r.infos = << >>
      /\ r.actions = << >> /\ r.fns = << >> /\ r.targets = << >> /\ r.returns = NoLists
      /\ r.ids = NewIds(Stmt.name, L + 1, Qualified(Stmt.quals))
  BY DEF NewMachine
<1> HIDE DEF r, L
<1>6. \A m \in Machines :
        /\ machines'[m].parent = machines[m].parent /\ machines'[m].name = machines[m].name
        /\ machines'[m].ids = machines[m].ids
        /\ machines'[m].events = machines[m].events /\ machines'[m].states = machines[m].states
        /\ machines'[m].shared = machines[m].shared /\ machines'[m].sharers = machines[m].sharers
        /\ machines'[m].subs = machines[m].subs /\ machines'[m].infos = machines[m].infos
        /\ machines'[m].actions = machines[m].actions /\ machines'[m].fns = machines[m].fns
        /\ machines'[m].targets = machines[m].targets /\ machines'[m].returns = machines[m].returns
        /\ machines'[m].stage = IF m = current THEN "subs" ELSE machines[m].stage
  <2> SUFFICES ASSUME NEW m \in Machines
               PROVE  LET s == machines[m]  t == machines'[m] IN
                 /\ t.parent = s.parent /\ t.name = s.name /\ t.ids = s.ids
                 /\ t.events = s.events /\ t.states = s.states
                 /\ t.shared = s.shared /\ t.sharers = s.sharers
                 /\ t.subs = s.subs /\ t.infos = s.infos /\ t.actions = s.actions
                 /\ t.fns = s.fns /\ t.targets = s.targets /\ t.returns = s.returns
                 /\ t.stage = IF m = current THEN "subs" ELSE s.stage
    OBVIOUS
  <2>1. PICK s : s = machines[m]
    OBVIOUS
  <2>2. s \in Records /\ machines'[m] = IF m = current THEN [s EXCEPT !.stage = "subs"] ELSE s
    BY <1>2, <1>3, <2>1
  <2> QED BY <2>1, <2>2 DEF Records
<1>7. Grows
  <2>1. Machines \subseteq Machines' /\ Len(machines) <= Len(machines') /\ (Sound' => Sound)
    BY <1>1, <1>2, <1>3, ErrorsStay DEF L
  <2> QED BY <1>6, <2>1 DEF Grows
(* the machines nest *)
<1>8. \A m \in Machines : (Open(m)' <=> Open(m)) /\ m # L + 1
  <2> SUFFICES ASSUME NEW m \in Machines PROVE (Open(m)' <=> Open(m)) /\ m # L + 1
    OBVIOUS
  <2>1. m = current => Open(m)
    BY <1>1, <1>3 DEF Nested
  <2> QED BY <1>2, <1>6, <2>1 DEF Open
<1>9. machines'[L + 1].stage = "decls" /\ machines'[L + 1].parent = current
      /\ machines'[L + 1].subs = << >>
  BY <1>2, <1>5
<1>10. \A m \in Machines : machines[m].parent \in 0 .. m - 1 /\ machines[m].parent \in Nat
  BY <1>1, <1>3 DEF Nested
<1>11. Nested'
  <2>1. \A m \in Machines' : machines'[m].parent \in 0 .. m - 1
    BY <1>2, <1>3, <1>6, <1>9, <1>10
  <2>2. PICK d : d = L + 1 /\ d = current'
    BY <1>2
  <2>3. Open(d)' /\ \A m \in Machines' : Open(m)' => m = d \/ (m \in Machines /\ Open(m))
    BY <1>2, <1>8, <1>9, <2>2 DEF Open
  <2>4. ASSUME NEW m \in Machines', Open(m)'
        PROVE  /\ m <= d
               /\ machines'[m].parent # 0 => Open(machines[m].parent)'
               /\ m # d => machines'[m].stage = "subs"
               /\ \A k \in Machines' : machines'[k].parent = machines'[m].parent => k <= m
               /\ \A k \in Machines' : Open(k)' /\ m < k => m <= machines'[k].parent
    <3>1. CASE m = d
      <4>2. machines'[m].parent # 0 => Open(machines[m].parent)'
        <5>1. PICK e : e = current
          OBVIOUS
        <5>2. e # 0 => Open(e)'
          BY <5>1, <1>1, <1>3, <1>8 DEF Nested
        <5>3. machines'[m].parent = e
          BY <1>9, <2>2, <3>1, <5>1
        <5> QED BY <5>2, <5>3 DEF Open
      <4> QED BY <1>2, <1>3, <2>2, <3>1, <4>2
    <3>2. CASE m # d
      <4>1. m \in Machines /\ Open(m)
        BY <2>3, <2>4, <3>2
      <4>2. /\ m <= current
            /\ machines[m].parent # 0 => Open(machines[m].parent)
            /\ m # current => machines[m].stage = "subs"
            /\ \A k \in Machines : machines[k].parent = machines[m].parent => k <= m
            /\ \A k \in Machines : Open(k) /\ m < k => m <= machines[k].parent
        BY <1>1, <4>1 DEF Nested
      <4>3. machines'[m].stage = "subs" /\ machines'[m].parent = machines[m].parent
        BY <1>6, <4>1, <4>2
      <4>4. machines'[m].parent # 0 => Open(machines[m].parent)'
        <5>1. PICK e : e = machines[m].parent
          OBVIOUS
        <5>2. e # 0 => e \in Machines /\ Open(e)
          BY <1>3, <1>10, <4>1, <4>2, <5>1
        <5>3. e # 0 => Open(e)'
          BY <1>8, <5>2
        <5> QED BY <4>3, <5>1, <5>3 DEF Open
      <4>5. ASSUME NEW k \in Machines', machines'[k].parent = machines'[m].parent PROVE k <= m
        <5>1. k # d
          BY <1>3, <1>9, <1>10, <2>2, <4>1, <4>2, <4>3, <4>5
        <5> QED BY <1>2, <1>6, <2>2, <4>2, <4>3, <4>5, <5>1
      <4>6. ASSUME NEW k \in Machines', Open(k)', m < k PROVE m <= machines'[k].parent
        <5>1. CASE k = d
          BY <1>9, <2>2, <4>2, <5>1
        <5>2. CASE k # d
          BY <1>6, <2>3, <4>2, <4>6, <5>2
        <5> QED BY <5>1, <5>2
      <4> QED BY <1>3, <2>2, <4>1, <4>2, <4>3, <4>4, <4>5, <4>6
    <3> QED BY <3>1, <3>2
  <2>5. ASSUME NEW m \in Machines'
        PROVE  ToSet(machines'[m].subs) = {k \in Machines' : machines'[k].parent = m /\ ~Open(k)'}
    <3>1. CASE m = d
      <4>1. \A k \in Machines' : machines'[k].parent # d
        BY <1>2, <1>3, <1>6, <1>9, <1>10, <2>2
      <4>2. ToSet(machines'[m].subs) = {}
        BY <1>9, <2>2, <3>1 DEF ToSet
      <4> QED BY <3>1, <4>1, <4>2
    <3>2. CASE m # d
      <4>1. m \in Machines
        BY <1>2, <2>2, <3>2
      <4>2. ToSet(machines[m].subs) = {k \in Machines : machines[k].parent = m /\ ~Open(k)}
        BY <1>1, <4>1 DEF Nested
      <4>3. {k \in Machines : machines[k].parent = m /\ ~Open(k)} =
            {k \in Machines' : machines'[k].parent = m /\ ~Open(k)'}
        BY <1>2, <1>6, <1>8, <2>2, <2>3
      <4> QED BY <1>6, <4>1, <4>2, <4>3
    <3> QED BY <3>1, <3>2
  <2>6. current' # 0 => Open(current)'
    BY <2>2, <2>3 DEF Open
  <2>7. \A m \in Machines' : Open(m)' =>
          /\ m <= current'
          /\ machines'[m].parent # 0 => Open(machines[m].parent)'
          /\ m # current' => machines'[m].stage = "subs"
          /\ \A k \in Machines' : machines'[k].parent = machines'[m].parent => k <= m
          /\ \A k \in Machines' : Open(k)' /\ m < k => m <= machines'[k].parent
    BY <2>2, <2>4
  <2> QED BY <2>1, <2>5, <2>6, <2>7 DEF Nested
(* what is recorded *)
<1>12. ASSUME NEW m \in Machines PROVE Recorded(m)'
  <2>1. Recorded(m)
    BY DEF IParser
  <2>2. m = current => machines[m].stage \in {"decls", "subs"}
    BY <1>2, <1>3 DEF Cur
  <2>3. Alike(m)
    BY <1>6, <2>2 DEF Alike
  <2> QED BY <1>1, <1>7, <2>1, <2>3, AlikeKeeps
<1>13. PICK d : d = L + 1
  OBVIOUS
<1>14. machines'[d] = r /\ d \in Nat /\ d \notin Machines /\ Machines' = Machines \union {d}
  BY <1>2, <1>3, <1>13
<1>15. \A y \in Names :
         /\ r.ids[y].owner \in {0, d}
         /\ \/ r.ids[y].type \in {"none", "ID"}
            \/ y = noEvent /\ r.ids[y] = [type |-> "EVENT", owner |-> d]
            \/ y = noTransition /\ r.ids[y] = [type |-> "STATE", owner |-> d]
  <2> SUFFICES ASSUME NEW y \in Names
               PROVE  /\ r.ids[y].owner \in {0, d}
                      /\ \/ r.ids[y].type \in {"none", "ID"}
                         \/ y = noEvent /\ r.ids[y] = [type |-> "EVENT", owner |-> d]
                         \/ y = noTransition /\ r.ids[y] = [type |-> "STATE", owner |-> d]
    OBVIOUS
  <2>1. PICK q, x : q = Qualified(Stmt.quals) /\ x = Stmt.name
    OBVIOUS
  <2>2. r.ids = NewIds(x, d, q) /\ x \in Names
    BY <1>2, <1>5, <1>13, <2>1
  <2> QED BY <1>14, <2>2, NewIdsAre
<1>16. Recorded(d)'
  <2>1. ToSet(<< >>) = {}
    BY DEF ToSet
  <2>2. Staged(d)'
    <3>1. \A y \in Names : r.ids[y].type # "MACHINE"
      BY <1>15
    <3> QED BY <1>5, <1>14, <3>1 DEF Staged
  <2>3. Known(d)'
    <3> SUFFICES ASSUME NEW y \in Names PROVE KnownAs(d, y, machines[d].ids[y])'
      BY DEF Known
    <3>1. PICK id : id = machines'[d].ids[y]
      OBVIOUS
    <3>2. \/ id.type \in {"none", "ID"}
          \/ y = noEvent /\ id = [type |-> "EVENT", owner |-> d]
          \/ y = noTransition /\ id = [type |-> "STATE", owner |-> d]
      BY <1>14, <1>15, <3>1
    <3>3. y \notin ToSet(machines'[d].events)
      BY <1>5, <1>14, <2>1
    <3>4. KnownAs(d, y, id)'
      BY <3>2, <3>3 DEF KnownAs, OwnName
    <3> QED BY <3>1, <3>4
  <2>4. Listed(d)'
    BY <1>5, <1>14, <2>1 DEF Listed
  <2>5. Tabled(d)' /\ Vectors(d)'
    BY <1>5, <1>14, NothingDone
  <2>6. SharedOwn(d)'
    BY <1>5, <1>14 DEF SharedOwn
  <2> QED BY <2>2, <2>3, <2>4, <2>5, <2>6 DEF Recorded
<1>17. \A x \in Names : NoLists[x] = << >>
  BY DEF NoLists
<1>18. ASSUME NEW m \in Machines' PROVE Sharing(m)'
  <2> SUFFICES ASSUME NEW y \in Names
               PROVE  LET q == machines'[m].sharers[y] IN
                 /\ \A i \in DOMAIN q : q[i] \in Machines' /\ machines'[q[i]].parent = m
                 /\ Sound' =>
                      /\ ToSet(q) = {k \in Machines' : machines'[k].parent = m /\ y \in machines'[k].shared}
                      /\ Ordered(m, y)'
                      /\ q # << >> => y = noEvent \/ y \in ToSet(machines'[m].events)
    BY DEF Sharing
  <2>1. CASE m = d
    <3>1. machines'[m].sharers[y] = << >>
      BY <1>5, <1>14, <1>17, <2>1
    <3>2. \A k \in Machines' : machines'[k].parent # d
      BY <1>2, <1>3, <1>6, <1>9, <1>10, <1>13
    <3>3. ToSet(<< >>) = {} /\ DOMAIN << >> = {}
      BY DEF ToSet
    <3>4. Ordered(m, y)'
      BY <3>1, <3>3 DEF Ordered
    <3> QED BY <2>1, <3>1, <3>2, <3>3, <3>4
  <2>2. CASE m \in Machines
    <3> DEFINE q == machines[m].sharers[y]
    <3>1. /\ \A i \in DOMAIN q : q[i] \in Machines /\ machines[q[i]].parent = m
          /\ Sound =>
               /\ ToSet(q) = {k \in Machines : machines[k].parent = m /\ y \in machines[k].shared}
               /\ Ordered(m, y)
               /\ q # << >> => y = noEvent \/ y \in ToSet(machines[m].events)
      BY <2>2 DEF IParser, Sharing
    <3>2. machines'[m].sharers[y] = q /\ machines'[m].events = machines[m].events
      BY <1>6, <2>2
    <3>3. {k \in Machines : machines[k].parent = m /\ y \in machines[k].shared} =
          {k \in Machines' : machines'[k].parent = m /\ y \in machines'[k].shared}
      BY <1>5, <1>6, <1>14
    <3>4. Sound' => Sound
      BY <1>7 DEF Grows
    <3>6. Sound' => Ordered(m, y)'
      BY <1>7, <2>2, <3>1, <3>2, <3>4, OrderedKept
    <3> HIDE DEF q
    <3>5. \A i \in DOMAIN q : q[i] \in Machines' /\ machines'[q[i]].parent = m
      BY <1>6, <1>14, <3>1
    <3> QED BY <3>1, <3>2, <3>3, <3>4, <3>5, <3>6
  <2> QED BY <1>14, <2>1, <2>2
(* the place *)
<1>19. text' \in Inputs /\ at' \in 1 .. Len(text') + 1
  BY <1>1, <1>2, <1>3, Onward
<1>20. Typed'
  <2>1. machines' # << >> /\ DOMAIN machines' = Machines' /\ d \in Machines' /\ d \in 0 .. Len(machines')
    BY <1>2, <1>3, <1>13, <1>14 DEF Machines
  <2>2. current' = d /\ scope' = d
    BY <1>2, <1>13
  <2> QED BY <1>1, <1>2, <1>19, <2>1, <2>2 DEF Typed
<1>21. Focused'
  BY <1>1, <1>2, <1>3, <1>4, PlainFocus
<1>22. Returning'
  <2>1. ToSet(pending'.refs) = {}
    BY <1>2, <1>4 DEF ToSet
  <2>2. ASSUME Sound', NEW m \in Machines', NEW a \in Names, NEW ref \in ToSet(machines'[m].returns[a])
        PROVE  GoodRef(m, ref)'
    <3>1. m # d
      BY <1>5, <1>14, <1>17, <2>2 DEF ToSet
    <3>2. m \in Machines /\ ref \in ToSet(machines[m].returns[a])
      BY <1>6, <1>14, <2>2, <3>1
    <3> QED BY <1>1, <1>7, <2>2, <3>2, ReturnsStay
  <2> QED BY <2>1, <2>2, ReturningFrom
<1>23. RefsThere'
  <2>1. Len(machines') = d /\ Len(machines) \in Nat /\ Len(machines) < d
    BY <1>2, <1>3, <1>13 DEF L
  <2>2. ASSUME NEW m \in Machines', NEW a \in Names, NEW i \in DOMAIN machines'[m].returns[a]
        PROVE  machines'[m].returns[a][i][1] <= d
    <3>1. m # d
      BY <1>5, <1>14, <1>17, <2>2
    <3>2. m \in Machines /\ machines'[m].returns = machines[m].returns /\ machines[m] \in Records
      BY <1>3, <1>6, <1>14, <3>1
    <3>3. machines[m].returns[a][i] \in Refs
      <4>1. machines[m].returns[a] \in Seq(Refs)
        BY <3>2 DEF Records
      <4> QED BY <2>2, <3>2, <4>1
    <3>4. machines[m].returns[a][i][1] <= Len(machines)
      BY <1>1, <2>2, <3>2 DEF RefsThere
    <3> QED BY <2>1, <3>2, <3>3, <3>4, <1>14 DEF Refs
  <2>3. ASSUME NEW m \in Machines', NEW y \in Names PROVE machines'[m].ids[y].owner <= d
    <3>1. CASE m = d
      <4>1. r.ids[y].owner \in {0, d}
        BY <1>15
      <4> QED BY <1>14, <3>1, <4>1
    <3>2. CASE m \in Machines
      <4>1. machines[m].ids[y].owner <= Len(machines) /\ machines[m].ids[y] \in Id
        BY <1>1, <1>3, <3>2 DEF RefsThere, Records
      <4> QED BY <1>6, <1>14, <2>1, <3>2, <4>1 DEF Id
    <3> QED BY <1>14, <3>1, <3>2
  <2>4. DOMAIN pending'.refs = {}
    BY <1>2, <1>4
  <2> QED BY <2>1, <2>2, <2>3, <2>4 DEF RefsThere
<1> QED BY <1>11, <1>12, <1>14, <1>16, <1>18, <1>20, <1>21, <1>22, <1>23 DEF IParser

LEMMA EndMachineKeeps == ASSUME IParser, EndMachine PROVE IParser'
<1>1. Typed /\ Nested /\ Focused /\ Returning /\ RefsThere /\ ParserNext
  BY DEF IParser, ParserNext
<1>2. PICK c, u, x : c = current /\ u = Cur.parent /\ x = Cur.name
  OBVIOUS
<1>3. /\ Reading /\ Begins /\ c # 0 /\ c \in Machines /\ Cur = machines[c] /\ Cur \in Records
      /\ u \in 0 .. c - 1 /\ u \in {0} \union Machines
      /\ machines' \in Seq(Records) /\ Len(machines') = Len(machines) /\ Machines' = Machines
      /\ current' = u /\ (u # 0 => scope' = u) /\ (u = 0 => scope' = scope) /\ UNCHANGED pending
      /\ text' = text /\ at' = at + 1 /\ Stmt.kind = "end"
  BY <1>1, <1>2, EndMachineDoes DEF Cur, EndMachine, Is, Advance
<1>4. \A m \in Machines :
        /\ Like(machines'[m], machines[m])
        /\ machines'[m].stage = IF m = c THEN "ended" ELSE machines[m].stage
        /\ m # u => machines'[m].subs = machines[m].subs /\ machines'[m].ids = machines[m].ids
        /\ m = u => /\ machines'[m].subs = Append(machines[m].subs, c)
                    /\ machines'[m].ids = Own(AddId(machines[m].ids, x, "MACHINE"), x, c)
  BY <1>1, <1>2, EndMachineDoes
<1>5. \A m \in Machines :
        /\ machines'[m].parent = machines[m].parent /\ machines'[m].name = machines[m].name
        /\ machines'[m].events = machines[m].events /\ machines'[m].states = machines[m].states
        /\ machines'[m].shared = machines[m].shared /\ machines'[m].sharers = machines[m].sharers
        /\ machines'[m].infos = machines[m].infos
        /\ machines'[m].actions = machines[m].actions /\ machines'[m].fns = machines[m].fns
        /\ machines'[m].targets = machines[m].targets /\ machines'[m].returns = machines[m].returns
  BY <1>4 DEF Like
<1>6. x \in Names /\ pending.of = None /\ pending.refs = << >>
  BY <1>1, <1>2, <1>3 DEF Records, Begins, Typed
<1>7. /\ Len(machines) \in Nat /\ Machines = 1 .. Len(machines) /\ c \in Nat /\ u \in Nat
      /\ \A m \in Machines : m \in Nat /\ m # 0 /\ machines[m] \in Records
      /\ machines[c].parent = u /\ machines[c].name = x
  BY <1>1, <1>2, <1>3, Placed
<1>8. \A m \in Machines : ToSet(machines'[m].subs) = ToSet(machines[m].subs) \union (IF m = u THEN {c} ELSE {})
  <2> SUFFICES ASSUME NEW m \in Machines
               PROVE ToSet(machines'[m].subs) = ToSet(machines[m].subs) \union (IF m = u THEN {c} ELSE {})
    OBVIOUS
  <2>1. machines[m].subs \in Seq(Nat)
    BY <1>7 DEF Records
  <2>2. ToSet(Append(machines[m].subs, c)) = ToSet(machines[m].subs) \union {c}
    BY <2>1, Appended
  <2> QED BY <1>4, <2>2
<1>9. Grows
  <2>1. Machines \subseteq Machines' /\ Len(machines) <= Len(machines') /\ (Sound' => Sound)
    BY <1>1, <1>3, <1>7, ErrorsStay
  <2> QED BY <1>5, <1>8, <2>1 DEF Grows
<1>10. /\ Open(c) /\ \A m \in Machines : Open(m)' <=> Open(m) /\ m # c
  <2>1. Open(c)
    BY <1>1, <1>2, <1>3 DEF Nested
  <2> QED BY <1>4, <2>1 DEF Open
<1>11. \A m \in Machines : Open(m) =>
         /\ m <= c
         /\ machines[m].parent # 0 => Open(machines[m].parent)
         /\ m # c => machines[m].stage = "subs"
         /\ \A k \in Machines : machines[k].parent = machines[m].parent => k <= m
         /\ \A k \in Machines : Open(k) /\ m < k => m <= machines[k].parent
  BY <1>1, <1>2 DEF Nested
<1>12. u # 0 => u \in Machines /\ Open(u) /\ u # c /\ machines[u].stage = "subs"
  BY <1>3, <1>7, <1>10, <1>11
(* the machines nest *)
<1>13. Nested'
  <2>1. \A m \in Machines : machines'[m].parent \in 0 .. m - 1
    BY <1>1, <1>5 DEF Nested
  <2>2. u # 0 => Open(u)'
    BY <1>10, <1>12
  <2>3. ASSUME NEW m \in Machines, Open(m)'
        PROVE  /\ m <= u
               /\ machines'[m].parent # 0 => Open(machines[m].parent)'
               /\ m # u => machines'[m].stage = "subs"
               /\ \A k \in Machines : machines'[k].parent = machines'[m].parent => k <= m
               /\ \A k \in Machines : Open(k)' /\ m < k => m <= machines'[k].parent
    <3>1. Open(m) /\ m # c
      BY <1>10, <2>3
    <3>2. m < c
      BY <1>7, <1>11, <3>1
    <3>3. m <= u
      BY <1>3, <1>7, <1>10, <1>11, <3>1, <3>2
    <3>4. machines'[m].parent # 0 => Open(machines[m].parent)'
      <4>1. PICK e : e = machines[m].parent
        OBVIOUS
      <4>2. machines[m].parent \in 0 .. m - 1
        BY <1>1 DEF Nested
      <4>3. e # 0 => e \in Machines /\ Open(e) /\ e # c
        BY <1>7, <1>11, <3>1, <3>2, <4>1, <4>2
      <4>4. e # 0 => Open(e)'
        BY <1>10, <4>3
      <4> QED BY <1>5, <4>1, <4>4 DEF Open
    <3>5. machines'[m].stage = "subs"
      BY <1>4, <1>11, <3>1
    <3> QED BY <1>5, <1>10, <1>11, <3>1, <3>3, <3>4, <3>5
  <2>4. ASSUME NEW m \in Machines
        PROVE  ToSet(machines'[m].subs) = {k \in Machines : machines'[k].parent = m /\ ~Open(k)'}
    <3>1. ToSet(machines[m].subs) = {k \in Machines : machines[k].parent = m /\ ~Open(k)}
      BY <1>1 DEF Nested
    <3>2. {k \in Machines : machines'[k].parent = m /\ ~Open(k)'} =
          {k \in Machines : machines[k].parent = m /\ ~Open(k)} \union (IF m = u THEN {c} ELSE {})
      BY <1>3, <1>5, <1>7, <1>10
    <3> QED BY <1>8, <3>1, <3>2
  <2>5. current' # 0 => Open(current)'
    BY <1>3, <2>2 DEF Open
  <2>6. \A m \in Machines' : Open(m)' =>
          /\ m <= current'
          /\ machines'[m].parent # 0 => Open(machines[m].parent)'
          /\ m # current' => machines'[m].stage = "subs"
          /\ \A k \in Machines' : machines'[k].parent = machines'[m].parent => k <= m
          /\ \A k \in Machines' : Open(k)' /\ m < k => m <= machines'[k].parent
    BY <1>3, <2>3
  <2> QED BY <1>3, <2>1, <2>4, <2>5, <2>6 DEF Nested
(* the parent *)
<1>14. ASSUME u # 0 PROVE Recorded(u)'
  <2>1. u \in Machines /\ machines'[u].stage = "subs" /\ Recorded(u) /\ u # c
        /\ machines[u].stage = "subs"
    BY <1>4, <1>12, <1>14 DEF IParser
  <2>2. /\ machines'[u].infos = << >> /\ machines'[u].actions = << >>
        /\ machines'[u].fns = << >> /\ machines'[u].targets = << >>
    BY <1>5, <2>1 DEF Recorded, Staged
  <2>3. Staged(u)'
    BY <2>1, <2>2 DEF Staged
  <2>4. Tabled(u)' /\ Vectors(u)'
    BY <2>2, NothingDone
  <2>5. SharedOwn(u)'
    BY <1>5, <2>1 DEF SharedOwn, Recorded
  <2>6. SubName(u, c, x)' /\ NamesSub(u, x)'
    <3>1. c \in ToSet(machines'[u].subs) /\ machines'[c].name = x
      BY <1>3, <1>5, <1>7, <1>8, <2>1
    <3>2. SubName(u, c, x)'
      BY <3>1 DEF SubName
    <3>3. PICK i \in DOMAIN machines'[u].subs : machines'[u].subs[i] = c
      BY <3>1 DEF ToSet
    <3> QED BY <3>1, <3>2, <3>3 DEF NamesSub
  <2>7. Known(u)' /\ Listed(u)'
    <3>1. machines[u].ids \in [Names -> Id] /\ machines'[u] \in Records /\ "MACHINE" \in Types
      <4>1. machines'[u] \in Records
        BY <1>3, <1>7, <2>1
      <4> QED BY <1>7, <2>1, <4>1 DEF Records, Types
    <3>2. machines'[u].ids = Own(AddId(machines[u].ids, x, "MACHINE"), x, c)
      BY <1>4, <2>1
    <3>3. ASSUME NEW y \in Names, y = x
          PROVE  /\ KnownAs(u, y, machines[u].ids[y])'
                 /\ \A type \in {"EVENT", "STATE", "ACTION"} : Holds(u, y, type)'
                 /\ EventHeld(u, y)'
      <4>1. PICK t : t = IF machines[u].ids[y].type = "none" THEN "MACHINE" ELSE machines[u].ids[y].type
        OBVIOUS
      <4>2. machines'[u].ids[y] = [type |-> t, owner |-> c]
        BY <1>6, <1>7, <3>1, <3>2, <3>3, <4>1, Claimed
      <4>3. KnownAs(u, y, machines[u].ids[y])
        BY <2>1 DEF Recorded, Known
      <4>4. machines'[u].events = machines[u].events
        BY <1>5, <2>1
      <4>5. /\ t = "EVENT" => y = noEvent \/ y \in ToSet(machines'[u].events)
            /\ t # "none"
        BY <4>1, <4>3, <4>4 DEF KnownAs
      <4>6. PICK id : id = [type |-> t, owner |-> c]
        OBVIOUS
      <4>7. SubName(u, id.owner, y)' /\ id.type = t
        BY <2>6, <3>3, <4>6
      <4>8. KnownAs(u, y, id)'
        BY <4>5, <4>7 DEF KnownAs
      <4>9. KnownAs(u, y, machines[u].ids[y])'
        BY <4>2, <4>6, <4>8
      <4> QED BY <2>6, <3>3, <4>9 DEF Holds, EventHeld
    <3>4. ASSUME NEW y \in Names, y # x PROVE machines'[u].ids[y] = machines[u].ids[y]
      BY <1>6, <1>7, <3>1, <3>2, <3>4, ClaimedOther
    <3>5. /\ machines'[u].events = machines[u].events /\ machines'[u].states = machines[u].states
          /\ machines'[u].actions = machines[u].actions /\ machines'[u].shared = machines[u].shared
      BY <1>5, <2>1
    <3> QED BY <1>1, <1>9, <2>1, <3>1, <3>3, <3>4, <3>5, EntriesKeep
  <2> QED BY <2>3, <2>4, <2>5, <2>7 DEF Recorded
<1>15. \A m \in Machines : Recorded(m)'
  <2> SUFFICES ASSUME NEW m \in Machines, m # u PROVE Recorded(m)'
    BY <1>7, <1>14
  <2>1. Alike(m) /\ Recorded(m)
    BY <1>4, <1>5 DEF Alike, IParser
  <2> QED BY <1>1, <1>9, <2>1, AlikeKeeps
<1>16. \A m \in Machines : Sharing(m)'
  BY <1>1, <1>3, <1>5, <1>9, SharingSame DEF IParser
(* the place *)
<1>17. text' \in Inputs /\ at' \in 1 .. Len(text') + 1
  BY <1>1, <1>3, Onward
<1>18. Typed'
  <2>1. machines' = << >> <=> machines = << >>
    BY <1>1, <1>3 DEF Typed
  <2>2. scope' = scope \/ scope' \in Machines
    BY <1>3
  <2>3. scope \in Machines /\ Machines # {}
    BY <1>1, <1>2, <1>3, Placed
  <2>4. u \in 0 .. Len(machines')
    BY <1>3, <1>7
  <2>5. machines' # << >>
    BY <2>1, <2>3 DEF Machines
  <2> QED BY <1>1, <1>3, <1>17, <2>2, <2>3, <2>4, <2>5 DEF Typed, Machines
<1>19. Focused'
  BY <1>1, <1>3, <1>6, PlainFocus
<1>20. Returning'
  <2>1. ToSet(pending'.refs) = {}
    BY <1>3, <1>6 DEF ToSet
  <2> QED BY <1>1, <1>3, <1>5, <1>9, <2>1, ReturnsStay, ReturningFrom
<1>21. RefsThere'
  <2>1. ASSUME NEW m \in Machines, NEW y \in Names PROVE machines'[m].ids[y].owner <= Len(machines)
    <3>1. machines[m].ids[y].owner <= Len(machines) /\ c <= Len(machines)
      BY <1>1, <1>3, <1>7 DEF RefsThere
    <3>2. CASE m = u
      <4>1. machines[m].ids \in [Names -> Id] /\ "MACHINE" \in Types
        BY <1>7 DEF Records, Types
      <4>2. machines'[m].ids = Own(AddId(machines[m].ids, x, "MACHINE"), x, c)
        BY <1>4, <3>2
      <4>3. CASE y = x
        <5>1. PICK t : t = IF machines[m].ids[x].type = "none" THEN "MACHINE" ELSE machines[m].ids[x].type
          OBVIOUS
        <5>2. machines'[m].ids[x] = [type |-> t, owner |-> c]
          BY <1>6, <1>7, <4>1, <4>2, <5>1, Claimed
        <5>3. machines'[m].ids[x].owner = c
          BY <5>2
        <5> QED BY <3>1, <4>3, <5>3
      <4>4. CASE y # x
        <5>1. machines'[m].ids[y] = machines[m].ids[y]
          BY <1>6, <1>7, <4>1, <4>2, <4>4, ClaimedOther
        <5> QED BY <3>1, <5>1
      <4> QED BY <4>3, <4>4
    <3>3. CASE m # u
      BY <1>4, <3>1, <3>3
    <3> QED BY <3>2, <3>3
  <2> QED BY <1>1, <1>3, <1>5, <2>1, RefsSame
<1> QED BY <1>3, <1>13, <1>15, <1>16, <1>18, <1>19, <1>20, <1>21 DEF IParser

-----------------------------------------------------------------------------
(* Before the first statement nothing is recorded.                         *)
LEMMA InitParser == ASSUME ParserInit PROVE IParser
<1>1. /\ text \in Inputs /\ at = 1 /\ machines = << >> /\ current = 0 /\ scope = 0
      /\ pending = NoReturns /\ errors = {}
  BY DEF ParserInit
<1>2. text \in Seq(Statements)
  BY <1>1, ParserAssumption
<1>3. Machines = {} /\ Len(machines) = 0 /\ pending.refs = << >> /\ pending.of = None
  BY <1>1 DEF Machines, NoReturns
<1>4. Typed
  <2>1. pending \in Pendings
    BY <1>1 DEF NoReturns, Pendings, Types
  <2>2. at \in 1 .. Len(text) + 1 /\ machines \in Seq(Records) /\ current \in 0 .. Len(machines)
    BY <1>1, <1>2, <1>3
  <2> QED BY <1>1, <1>3, <2>1, <2>2 DEF Typed
<1>5. Nested
  BY <1>1, <1>3 DEF Nested
<1>6. Focused
  BY <1>1, <1>3 DEF Focused, Namespaced
<1>7. Returning /\ RefsThere
  BY <1>3 DEF Returning, RefsThere
<1> QED BY <1>3, <1>4, <1>5, <1>6, <1>7 DEF IParser

LEMMA StutterParser == ASSUME IParser, UNCHANGED vars PROVE IParser'
<1>1. /\ text' = text /\ at' = at /\ machines' = machines /\ current' = current /\ scope' = scope
      /\ pending' = pending /\ errors' = errors
  BY DEF vars
<1>2. Typed'
  BY <1>1 DEF IParser, Typed
<1>3. Nested'
  BY <1>1 DEF IParser, Nested, Machines, Open
<1>4. Focused'
  BY <1>1 DEF IParser, Focused, Reading, Namespaced, Cur, Sound
<1>5. Machines' = Machines /\ (Sound' <=> Sound)
  BY <1>1 DEF Machines, Sound
<1>6. Grows
  <2>1. Len(machines) \in Nat
    BY Placed DEF IParser
  <2> QED BY <1>1, <1>5, <2>1 DEF Grows
<1>7. \A m \in Machines : Recorded(m)' /\ Sharing(m)'
  <2> SUFFICES ASSUME NEW m \in Machines PROVE Recorded(m)' /\ Sharing(m)'
    OBVIOUS
  <2>1. Typed /\ Nested /\ Recorded(m) /\ Sharing(m) /\ Alike(m)
    BY <1>1 DEF IParser, Alike
  <2> QED BY <1>1, <1>5, <1>6, <2>1, AlikeKeeps, SharingSame
<1>8. Returning'
  <2>1. pending.refs # << >> => current \in Machines
    BY Placed DEF IParser, Typed, Focused
  <2> QED BY <1>1, <1>5, <1>6, <2>1, ReturningSame DEF IParser
<1>9. RefsThere'
  BY <1>1, <1>5 DEF IParser, RefsThere
<1> QED BY <1>2, <1>3, <1>4, <1>5, <1>7, <1>8, <1>9 DEF IParser

(* IParser is inductive: through every statement of every description, in   *)
(* whatever order the grammar takes or refuses them, the parser knows which *)
(* machine it is in, searches that machine's identifiers, and its records   *)
(* agree with each other.                                                   *)
THEOREM InvariantParser == ParserSpec => []IParser
<1>1. ParserInit => IParser
  BY InitParser
<1>2. IParser /\ [ParserNext]_vars => IParser'
  <2> SUFFICES ASSUME IParser, [ParserNext]_vars PROVE IParser'
    OBVIOUS
  <2>1. CASE UNCHANGED vars
    BY <2>1, StutterParser
  <2>2. CASE ParserNext
    BY <2>2, BeginMachineKeeps, DeclareStateKeeps, DeclareEventKeeps, ParentNamespaceKeeps, StopKeeps,
       SubNamespaceKeeps, ReferParentEventKeeps, DoneKeeps, BeginReturnsKeeps, ReturnedKeeps,
       EndReturnsKeeps, EndMachineKeeps DEF ParserNext
  <2> QED BY <2>1, <2>2
<1> QED BY <1>1, <1>2, PTL DEF ParserSpec

-----------------------------------------------------------------------------
(* Contains and the set of a sequence say the same.                        *)
LEMMA HasIs ==
  ASSUME NEW S, NEW q \in Seq(S), NEW x
  PROVE  Contains(q, x) <=> x \in ToSet(q)
BY DEF Contains, ToSet

(* What the invariant is for: each property follows from it.               *)
LEMMA SharersMutualHolds == ASSUME IParser PROVE SharersMutual
<1> SUFFICES ASSUME Sound, NEW m \in Machines, NEW x \in Names
             PROVE  LET sharers == machines[m].sharers[x] IN
               /\ ToSet(sharers) = {c \in Machines : machines[c].parent = m /\ x \in machines[c].shared}
               /\ Ordered(m, x)
               /\ \A i \in DOMAIN sharers :
                    /\ Contains(machines[m].events, x) \/ x = noEvent
                    /\ Contains(machines[sharers[i]].events, x)
  BY DEF SharersMutual, Ordered
<1> DEFINE q == machines[m].sharers[x]
<1>1. /\ \A i \in DOMAIN q : q[i] \in Machines /\ machines[q[i]].parent = m
      /\ ToSet(q) = {c \in Machines : machines[c].parent = m /\ x \in machines[c].shared}
      /\ Ordered(m, x)
      /\ q # << >> => x = noEvent \/ x \in ToSet(machines[m].events)
  BY DEF IParser, Sharing
<1>2. \A k \in Machines : machines[k].events \in Seq(Names)
  BY Placed DEF IParser, Records
<1>3. ASSUME NEW i \in DOMAIN q
      PROVE  /\ Contains(machines[m].events, x) \/ x = noEvent
             /\ Contains(machines[q[i]].events, x)
  <2>1. q # << >>
    OBVIOUS
  <2>2. q[i] \in ToSet(q)
    BY DEF ToSet
  <2> HIDE DEF q
  <2>3. q[i] \in Machines /\ x \in machines[q[i]].shared
    BY <1>1, <2>2
  <2>4. x \in ToSet(machines[q[i]].events)
    BY <2>3 DEF IParser, Recorded, SharedOwn
  <2> QED BY <1>1, <1>2, <2>1, <2>3, <2>4, HasIs
<1> QED BY <1>1, <1>3

LEMMA SharedLastHolds == ASSUME IParser PROVE SharedLast
BY DEF IParser, Recorded, Vectors, SharedLast

LEMMA ReturnsInReachHolds == ASSUME IParser PROVE ReturnsInReach
<1> SUFFICES ASSUME Sound, NEW m \in Machines, NEW a \in Names, NEW i \in DOMAIN machines[m].returns[a]
             PROVE  LET o == machines[m].returns[a][i][1]
                        x == machines[m].returns[a][i][2]
                    IN  \E s \in Reach(m) :
                          \/ /\ o = s
                             /\ x \in {noEvent, noTransition} \union ToSet(machines[s].events \o machines[s].states)
                          \/ o \in ToSet(machines[s].subs) /\ machines[o].name = x
  BY DEF ReturnsInReach
<1>1. PICK r : r = machines[m].returns[a][i]
  OBVIOUS
<1>2. GoodRef(m, r)
  BY <1>1 DEF IParser, Returning
<1>3. PICK s \in Reach(m) : OwnName(s, r[1], r[2]) \/ SubName(s, r[1], r[2])
  BY <1>2 DEF GoodRef
<1>4. machines[s].events \in Seq(Names) /\ machines[s].states \in Seq(Names)
  BY Placed DEF IParser, Records, Reach
<1>5. ToSet(machines[s].events) \union ToSet(machines[s].states)
        \subseteq ToSet(machines[s].events \o machines[s].states)
  <2>1. PICK p, q : p = machines[s].events /\ q = machines[s].states
    OBVIOUS
  <2>2. p \in Seq(Names) /\ q \in Seq(Names)
    BY <1>4, <2>1
  <2>3. /\ Len(p) \in Nat /\ Len(q) \in Nat /\ DOMAIN p = 1 .. Len(p) /\ DOMAIN q = 1 .. Len(q)
        /\ DOMAIN (p \o q) = 1 .. Len(p) + Len(q)
        /\ \A j \in 1 .. Len(p) : (p \o q)[j] = p[j]
        /\ \A j \in 1 .. Len(q) : (p \o q)[Len(p) + j] = q[j] /\ Len(p) + j \in 1 .. Len(p) + Len(q)
    BY <2>2
  <2>4. ToSet(p) \subseteq ToSet(p \o q)
    BY <2>3 DEF ToSet
  <2>5. ToSet(q) \subseteq ToSet(p \o q)
    BY <2>3 DEF ToSet
  <2> QED BY <2>1, <2>4, <2>5
<1> QED BY <1>1, <1>3, <1>5 DEF OwnName, SubName

LEMMA TablesAgreeHolds == ASSUME IParser PROVE TablesAgree
<1> SUFFICES ASSUME NEW m \in Machines
             PROVE  LET M  == machines[m]
                        to == {M.infos[i].to : i \in DOMAIN M.infos} \ {None}
                    IN  /\ IsInjective(M.actions) /\ IsInjective(M.fns) /\ IsInjective(M.targets)
                        /\ ToSet(M.actions) = {M.infos[i].action : i \in DOMAIN M.infos}
                        /\ ToSet(M.fns) \union ToSet(M.targets) = to
                        /\ \A x \in to : M.ids[x].type = IF Contains(M.fns, x) THEN "TRANSITION_FN" ELSE "STATE"
  BY DEF TablesAgree
<1> DEFINE M == machines[m]
           to == {M.infos[i].to : i \in DOMAIN M.infos} \ {None}
<1>1. /\ IsInjective(M.actions) /\ IsInjective(M.fns) /\ IsInjective(M.targets)
      /\ ToSet(M.actions) = {M.infos[i].action : i \in DOMAIN M.infos}
      /\ ToSet(M.fns) \union ToSet(M.targets) = to
      /\ \A x \in ToSet(M.fns) : M.ids[x].type = "TRANSITION_FN"
      /\ \A x \in ToSet(M.targets) : M.ids[x].type = "STATE"
  BY DEF IParser, Recorded, Tabled
<1>2. M.fns \in Seq(Names)
  BY Placed DEF IParser, Records
<1> HIDE DEF to
<1>3. \A x \in to : M.ids[x].type = IF Contains(M.fns, x) THEN "TRANSITION_FN" ELSE "STATE"
  BY <1>1, <1>2, HasIs
<1> QED BY <1>1, <1>3 DEF to

LEMMA OwnersRightHolds == ASSUME IParser PROVE OwnersRight
<1> SUFFICES ASSUME NEW m \in Machines
             PROVE  LET M == machines[m]
                        Of(x, type) == M.ids[x] = [type |-> type, owner |-> m] \/ NamesSub(m, x)
                    IN  /\ \A i \in DOMAIN M.events :
                             LET x == M.events[i] IN
                             \/ Of(x, "EVENT")
                             \/ /\ x \in M.shared /\ M.ids[x].owner = m
                                /\ M.ids[x].type \in {"ID", "STATE", "ACTION", "TRANSITION_FN"}
                        /\ \A i \in DOMAIN M.states : Of(M.states[i], "STATE")
                        /\ \A i \in DOMAIN M.actions : M.actions[i] # None => Of(M.actions[i], "ACTION")
  BY DEF OwnersRight
<1>1. Listed(m)
  BY DEF IParser, Recorded
<1> QED BY <1>1 DEF Listed, EventHeld, KeptAs, Holds, ToSet

(* The events a sub-machine shares with its parent (parser.y:1512) are      *)
(* known to both: the parent lists, in order, exactly the sub-machines that *)
(* share, and both have the event.  Until an error is reported.             *)
THEOREM AlwaysSharersMutual == ParserSpec => []SharersMutual
<1>1. IParser => SharersMutual
  BY SharersMutualHolds
<1> QED BY <1>1, InvariantParser, PTL

(* Nothing follows an event that sub-machines share in the event vector of  *)
(* a description without errors (parser.y:1185).                            *)
THEOREM AlwaysSharedLast == ParserSpec => []SharedLast
<1>1. IParser => SharedLast
  BY SharedLastHolds
<1> QED BY <1>1, InvariantParser, PTL

(* What a "returns" declaration names (parser.y:1963) is known in the       *)
(* machine itself, in its parent, or, of a top-level machine, in one of its *)
(* sub-machines, however the namespaces before it switched the list that is *)
(* searched.                                                                *)
THEOREM AlwaysReturnsInReach == ParserSpec => []ReturnsInReach
<1>1. IParser => ReturnsInReach
  BY ReturnsInReachHolds
<1> QED BY <1>1, InvariantParser, PTL

-----------------------------------------------------------------------------
(* The tree of machines. *)
(* Induction from the first machine to the last.                           *)
LEMMA Upward ==
  ASSUME NEW S, NEW N \in Nat, \A n \in 1..N : (\A k \in 1 .. n - 1 : k \in S) => n \in S
  PROVE  \A n \in 1..N : n \in S
<1> SUFFICES ASSUME {n \in 1..N : n \notin S} # {} PROVE FALSE
  OBVIOUS
<1> DEFINE T == {n \in 1..N : n \notin S}
<1>1. T \in SUBSET Nat
  OBVIOUS
<1>2. PICK n \in T : \A k \in T : n <= k
  <2> HIDE DEF T
  <2>1. T # {}
    BY DEF T
  <2> QED BY <1>1, <2>1, Least
<1>3. \A k \in 1 .. n - 1 : k \in S
  <2> SUFFICES ASSUME NEW k \in 1 .. n - 1, k \notin S PROVE FALSE
    OBVIOUS
  <2>1. k \in T /\ n \in Nat /\ k \in Nat /\ k < n
    BY <1>2
  <2> QED BY <1>2, <2>1
<1> QED BY <1>2, <1>3

Rooted(ms) == Len(ms) \in Nat /\ \A m \in 1 .. Len(ms) : ms[m].parent \in 0 .. m - 1
Climb(ms, up) == [n \in 0 .. Len(ms) |-> IF n = 0 THEN {} ELSE {n} \union up[ms[n].parent]]
Above(ms) == CHOOSE up : up = Climb(ms, up)

(* Ancestors is what Above computes, by climbing from parent to parent.    *)
LEMMA AncestorsIs ==
  ASSUME NEW m
  PROVE  Ancestors(m) = Above(machines)[m]
BY Zenon DEF Ancestors, Above, Climb

LEMMA AboveSolved ==
  ASSUME NEW ms, Rooted(ms)
  PROVE  /\ Above(ms)[0] = {}
         /\ \A m \in 1 .. Len(ms) : Above(ms)[m] = {m} \union Above(ms)[ms[m].parent]
<1> DEFINE L == Len(ms)
           par(i) == ms[i].parent
           P == {n \in 0 .. L : \E f \in [0 .. n -> SUBSET Nat] :
                   f[0] = {} /\ \A i \in 1 .. n : f[i] = {i} \union f[par(i)]}
<1>1. L \in Nat /\ \A i \in 1 .. L : par(i) \in 0 .. i - 1
  BY DEF Rooted
<1> HIDE DEF L, par
<1>2. 0 \in P
  <2> DEFINE f == [i \in 0 .. 0 |-> {}]
  <2>1. f \in [0 .. 0 -> SUBSET Nat] /\ f[0] = {}
    OBVIOUS
  <2> HIDE DEF f
  <2>2. \A i \in 1 .. 0 : f[i] = {i} \union f[par(i)]
    OBVIOUS
  <2>3. \E g \in [0 .. 0 -> SUBSET Nat] : g[0] = {} /\ \A i \in 1 .. 0 : g[i] = {i} \union g[par(i)]
    BY <2>1, <2>2
  <2> QED BY <1>1, <2>3
<1>3. ASSUME NEW n \in 1 .. L, n - 1 \in P PROVE n \in P
  <2>1. PICK f \in [0 .. n - 1 -> SUBSET Nat] :
          f[0] = {} /\ \A i \in 1 .. n - 1 : f[i] = {i} \union f[par(i)]
    BY <1>3
  <2>2. n \in Nat /\ n # 0 /\ par(n) \in 0 .. n - 1
    BY <1>1
  <2> DEFINE g == [i \in 0 .. n |-> IF i = n THEN {n} \union f[par(n)] ELSE f[i]]
  <2>3. g \in [0 .. n -> SUBSET Nat]
    <3>1. \A i \in 0 .. n : i # n => i \in 0 .. n - 1
      BY <2>2
    <3>2. f[par(n)] \in SUBSET Nat
      BY <2>1, <2>2
    <3> QED BY <2>1, <2>2, <3>1, <3>2
  <2>4. g[0] = {}
    BY <2>1, <2>2
  <2>5. \A i \in 1 .. n : g[i] = {i} \union g[par(i)]
    <3> SUFFICES ASSUME NEW i \in 1 .. n PROVE g[i] = {i} \union g[par(i)]
      OBVIOUS
    <3>1. i \in 1 .. L /\ i \in 0 .. n /\ par(i) \in 0 .. i - 1 /\ par(i) \in 0 .. n /\ par(i) # n
      BY <1>1, <2>2
    <3>2. g[par(i)] = f[par(i)]
      BY <3>1
    <3>3. CASE i = n
      BY <3>1, <3>2, <3>3
    <3>4. CASE i # n
      <4>1. i \in 1 .. n - 1 /\ g[i] = f[i]
        BY <3>1, <3>4
      <4> HIDE DEF g
      <4> QED BY <2>1, <3>2, <4>1
    <3> QED BY <3>3, <3>4
  <2> HIDE DEF g
  <2>6. \E h \in [0 .. n -> SUBSET Nat] : h[0] = {} /\ \A i \in 1 .. n : h[i] = {i} \union h[par(i)]
    BY <2>3, <2>4, <2>5
  <2>7. n \in 0 .. L
    BY <1>1
  <2> QED BY <2>6, <2>7, Zenon
<1> HIDE DEF P
<1>4. \A n \in 0 .. L : n \in P
  BY <1>1, <1>2, <1>3, Induct
<1>5. PICK f \in [0 .. L -> SUBSET Nat] : f[0] = {} /\ \A i \in 1 .. L : f[i] = {i} \union f[par(i)]
  <2>1. L \in P
    BY <1>1, <1>4
  <2> QED BY <2>1 DEF P
<1>6. f = Climb(ms, f)
  <2>1. \A i \in 0 .. L : f[i] = IF i = 0 THEN {} ELSE {i} \union f[par(i)]
    <3>1. \A i \in 0 .. L : i # 0 => i \in 1 .. L
      BY <1>1
    <3> QED BY <1>5, <3>1
  <2> QED BY <1>5, <2>1 DEF Climb, L, par
<1>7. Above(ms) = Climb(ms, Above(ms))
  BY <1>6 DEF Above
<1>8. 0 \in 0 .. L /\ \A i \in 1 .. L : i \in 0 .. L /\ i # 0
  BY <1>1
<1> QED BY <1>7, <1>8 DEF Climb, L

(* A machine is above itself, and what is above it was begun before it. *)
LEMMA AboveBefore ==
  ASSUME NEW ms, Rooted(ms), NEW m \in 1 .. Len(ms)
  PROVE  m \in Above(ms)[m] /\ Above(ms)[m] \subseteq 1 .. m
<1> DEFINE A == Above(ms)
           S == {n \in 1 .. Len(ms) : A[n] \subseteq 1 .. n}
<1>1. /\ A[0] = {} /\ \A n \in 1 .. Len(ms) : A[n] = {n} \union A[ms[n].parent]
      /\ Len(ms) \in Nat /\ \A n \in 1 .. Len(ms) : ms[n].parent \in 0 .. n - 1
  BY AboveSolved DEF Rooted
<1> HIDE DEF A
<1>2. ASSUME NEW n \in 1 .. Len(ms), \A k \in 1 .. n - 1 : k \in S PROVE n \in S
  <2>1. PICK p : p = ms[n].parent
    OBVIOUS
  <2>2. p \in 0 .. n - 1 /\ A[n] = {n} \union A[p]
    BY <1>1, <2>1
  <2>3. A[p] \subseteq 1 .. n
    <3>1. CASE p = 0
      BY <1>1, <3>1
    <3>2. CASE p # 0
      <4>1. p \in 1 .. n - 1
        BY <2>2, <3>2
      <4>2. A[p] \subseteq 1 .. p
        BY <1>2, <4>1
      <4> QED BY <4>1, <4>2
    <3> QED BY <3>1, <3>2
  <2> QED BY <2>2, <2>3
<1>3. \A n \in 1 .. Len(ms) : n \in S
  <2> HIDE DEF S
  <2> QED BY <1>1, <1>2, Upward
<1> QED BY <1>1, <1>3 DEF A

(* What is above a machine above is above. *)
LEMMA AboveAbove ==
  ASSUME NEW ms, Rooted(ms), NEW m \in 1 .. Len(ms), NEW k \in Above(ms)[m]
  PROVE  k \in 1 .. m /\ Above(ms)[k] \subseteq Above(ms)[m]
<1> DEFINE A == Above(ms)
           S == {n \in 1 .. Len(ms) : \A j \in A[n] : A[j] \subseteq A[n]}
<1>1. /\ A[0] = {} /\ \A n \in 1 .. Len(ms) : A[n] = {n} \union A[ms[n].parent]
      /\ Len(ms) \in Nat /\ \A n \in 1 .. Len(ms) : ms[n].parent \in 0 .. n - 1
  BY AboveSolved DEF Rooted
<1> HIDE DEF A
<1>2. ASSUME NEW n \in 1 .. Len(ms), \A j \in 1 .. n - 1 : j \in S PROVE n \in S
  <2>1. PICK p : p = ms[n].parent
    OBVIOUS
  <2>2. p \in 0 .. n - 1 /\ A[n] = {n} \union A[p]
    BY <1>1, <2>1
  <2>3. \A j \in A[p] : A[j] \subseteq A[p]
    <3>1. CASE p = 0
      BY <1>1, <3>1
    <3>2. CASE p # 0
      <4>1. p \in 1 .. n - 1
        BY <2>2, <3>2
      <4> QED BY <1>2, <4>1
    <3> QED BY <3>1, <3>2
  <2> QED BY <2>2, <2>3
<1>3. \A n \in 1 .. Len(ms) : n \in S
  <2> HIDE DEF S
  <2> QED BY <1>1, <1>2, Upward
<1>4. k \in 1 .. m
  BY AboveBefore
<1> QED BY <1>3, <1>4 DEF A

(* Of two machines above a third, the earlier one is above the later one. *)
LEMMA AboveChain ==
  ASSUME NEW ms, Rooted(ms), NEW m \in 1 .. Len(ms),
         NEW a \in Above(ms)[m], NEW b \in Above(ms)[m], a <= b
  PROVE  a \in Above(ms)[b]
<1> DEFINE A == Above(ms)
           S == {n \in 1 .. Len(ms) : \A i, j \in A[n] : i <= j => i \in A[j]}
<1>1. /\ A[0] = {} /\ \A n \in 1 .. Len(ms) : A[n] = {n} \union A[ms[n].parent]
      /\ Len(ms) \in Nat /\ \A n \in 1 .. Len(ms) : ms[n].parent \in 0 .. n - 1
      /\ \A n \in 1 .. Len(ms) : A[n] \subseteq 1 .. n
  BY AboveSolved, AboveBefore DEF Rooted
<1> HIDE DEF A
<1>2. ASSUME NEW n \in 1 .. Len(ms), \A j \in 1 .. n - 1 : j \in S PROVE n \in S
  <2>1. PICK p : p = ms[n].parent
    OBVIOUS
  <2>2. p \in 0 .. n - 1 /\ A[n] = {n} \union A[p]
    BY <1>1, <2>1
  <2>3. \A i, j \in A[p] : i <= j => i \in A[j]
    <3>1. CASE p = 0
      BY <1>1, <3>1
    <3>2. CASE p # 0
      <4>1. p \in 1 .. n - 1
        BY <2>2, <3>2
      <4> QED BY <1>2, <4>1
    <3> QED BY <3>1, <3>2
  <2>4. ASSUME NEW i \in A[n], NEW j \in A[n], i <= j PROVE i \in A[j]
    <3>1. CASE j = n
      BY <2>4, <3>1
    <3>2. CASE j # n
      <4>1. j \in A[p] /\ j \in 1 .. n /\ i \in 1 .. n
        BY <1>1, <2>2, <3>2
      <4>2. i # n
        BY <2>4, <3>2, <4>1
      <4> QED BY <2>2, <2>3, <2>4, <4>1, <4>2
    <3> QED BY <3>1, <3>2
  <2> QED BY <2>4
<1>3. \A n \in 1 .. Len(ms) : n \in S
  <2> HIDE DEF S
  <2> QED BY <1>1, <1>2, Upward
<1> QED BY <1>3 DEF A

(* On the way to what is below a machine is one of its sub-machines. *)
LEMMA AboveBySub ==
  ASSUME NEW ms, Rooted(ms), NEW k \in 1 .. Len(ms), NEW m \in Above(ms)[k], m # k
  PROVE  \E c \in 1 .. Len(ms) : ms[c].parent = m /\ c \in Above(ms)[k]
<1> DEFINE A == Above(ms)
           S == {n \in 1 .. Len(ms) : \A j \in A[n] : j # n =>
                   \E c \in 1 .. Len(ms) : ms[c].parent = j /\ c \in A[n]}
<1>1. /\ A[0] = {} /\ \A n \in 1 .. Len(ms) : A[n] = {n} \union A[ms[n].parent]
      /\ Len(ms) \in Nat /\ \A n \in 1 .. Len(ms) : ms[n].parent \in 0 .. n - 1
  BY AboveSolved DEF Rooted
<1> HIDE DEF A
<1>2. ASSUME NEW n \in 1 .. Len(ms), \A j \in 1 .. n - 1 : j \in S PROVE n \in S
  <2>1. PICK p : p = ms[n].parent
    OBVIOUS
  <2>2. p \in 0 .. n - 1 /\ A[n] = {n} \union A[p]
    BY <1>1, <2>1
  <2>3. ASSUME NEW j \in A[n], j # n PROVE \E c \in 1 .. Len(ms) : ms[c].parent = j /\ c \in A[n]
    <3>1. j \in A[p]
      BY <2>2, <2>3
    <3>2. CASE j = p
      BY <2>1, <2>2, <3>2
    <3>3. CASE j # p
      <4>1. p \in 1 .. n - 1
        BY <1>1, <2>2, <3>1
      <4>2. PICK c \in 1 .. Len(ms) : ms[c].parent = j /\ c \in A[p]
        BY <1>2, <3>1, <3>3, <4>1
      <4> QED BY <2>2, <4>2
    <3> QED BY <3>2, <3>3
  <2> QED BY <2>3
<1>3. \A n \in 1 .. Len(ms) : n \in S
  <2> HIDE DEF S
  <2> QED BY <1>1, <1>2, Upward
<1> QED BY <1>3 DEF A

(* Machines begun later are above none begun before. *)
LEMMA AboveSame ==
  ASSUME NEW ms, NEW mt, Rooted(ms), Rooted(mt), Len(ms) <= Len(mt),
         \A m \in 1 .. Len(ms) : mt[m].parent = ms[m].parent
  PROVE  \A m \in 0 .. Len(ms) : Above(mt)[m] = Above(ms)[m]
<1> DEFINE A == Above(ms)
           B == Above(mt)
           S == {n \in 1 .. Len(ms) : B[n] = A[n]}
<1>1. /\ A[0] = {} /\ \A n \in 1 .. Len(ms) : A[n] = {n} \union A[ms[n].parent]
      /\ B[0] = {} /\ \A n \in 1 .. Len(mt) : B[n] = {n} \union B[mt[n].parent]
      /\ Len(ms) \in Nat /\ Len(mt) \in Nat
      /\ \A n \in 1 .. Len(ms) : ms[n].parent \in 0 .. n - 1
  BY AboveSolved DEF Rooted
<1> HIDE DEF A, B
<1>2. ASSUME NEW n \in 1 .. Len(ms), \A j \in 1 .. n - 1 : j \in S PROVE n \in S
  <2>1. PICK p : p = ms[n].parent
    OBVIOUS
  <2>2. p \in 0 .. n - 1 /\ A[n] = {n} \union A[p] /\ B[n] = {n} \union B[p]
    BY <1>1, <2>1
  <2>3. B[p] = A[p]
    <3>1. CASE p = 0
      BY <1>1, <3>1
    <3>2. CASE p # 0
      <4>1. p \in 1 .. n - 1
        BY <2>2, <3>2
      <4> QED BY <1>2, <4>1
    <3> QED BY <3>1, <3>2
  <2> QED BY <2>2, <2>3
<1>3. \A n \in 1 .. Len(ms) : n \in S
  <2> HIDE DEF S
  <2> QED BY <1>1, <1>2, Upward
<1>4. \A n \in 0 .. Len(ms) : n = 0 \/ n \in 1 .. Len(ms)
  BY <1>1
<1> QED BY <1>1, <1>3, <1>4 DEF A, B

-----------------------------------------------------------------------------
(* The depth of sub-machines is how many below have sub-machines. *)
Lower(ms, m) == {k \in 1 .. Len(ms) : m \in Above(ms)[k] /\ ms[k].subs # << >>}
IDeep == \A m \in Machines : machines[m].depth = Cardinality(Lower(machines, m))

(* The machines that are recorded are a tree.                              *)
LEMMA RootedHere == ASSUME Typed, Nested PROVE Rooted(machines)
BY Placed DEF Nested, Rooted

LEMMA RootedNext == ASSUME Typed', Nested' PROVE Rooted(machines')
<1>1. machines' \in Seq(Records) /\ Machines' = DOMAIN machines'
  BY DEF Typed, Machines
<1>2. Len(machines') \in Nat /\ Machines' = 1 .. Len(machines')
  BY <1>1
<1> QED BY <1>2 DEF Nested, Rooted

(* What counts for the depth changes only where a first sub-machine ends.  *)
LEMMA LowerSame ==
  ASSUME NEW ms, NEW mt, Rooted(ms), Rooted(mt), Len(mt) = Len(ms),
         \A m \in 1 .. Len(ms) : mt[m].parent = ms[m].parent /\ (mt[m].subs = << >> <=> ms[m].subs = << >>),
         NEW m
  PROVE  Lower(mt, m) = Lower(ms, m)
<1>1. Len(ms) \in Nat
  BY DEF Rooted
<1>2. \A k \in 1 .. Len(ms) : Above(mt)[k] = Above(ms)[k]
  BY <1>1, AboveSame
<1> QED BY <1>2 DEF Lower

LEMMA LowerFinite ==
  ASSUME NEW ms, Rooted(ms), NEW m
  PROVE  /\ IsFiniteSet(Lower(ms, m)) /\ Cardinality(Lower(ms, m)) \in Nat
         /\ Cardinality(Lower(ms, m)) <= Len(ms)
<1>1. Len(ms) \in Nat
  BY DEF Rooted
<1>2. IsFiniteSet(1 .. Len(ms)) /\ Cardinality(1 .. Len(ms)) = Len(ms)
  <2>1. PICK a, b : a = 1 /\ b = Len(ms)
    OBVIOUS
  <2>2. a \in Int /\ b \in Int /\ (a > b => b = 0)
    BY <1>1, <2>1
  <2>3. IsFiniteSet(a .. b) /\ Cardinality(a .. b) = IF a > b THEN 0 ELSE b - a + 1
    BY <2>2, FS_Interval
  <2> QED BY <2>1, <2>2, <2>3
<1>3. Lower(ms, m) \subseteq 1 .. Len(ms)
  BY DEF Lower
<1> QED BY <1>2, <1>3, FS_Subset, FS_CardinalityType

(* IDeep does not change with what it does not mention.                    *)
LEMMA DeepSame ==
  ASSUME IParser, IParser', IDeep, Machines' = Machines, Len(machines') = Len(machines),
         \A m \in Machines : /\ machines'[m].parent = machines[m].parent
                             /\ machines'[m].subs = machines[m].subs
                             /\ machines'[m].depth = machines[m].depth
  PROVE  IDeep'
<1>1. Rooted(machines) /\ Rooted(machines') /\ Machines = 1 .. Len(machines)
  BY RootedHere, RootedNext, Placed DEF IParser
<1>2. ASSUME NEW m \in Machines PROVE machines'[m].depth = Cardinality(Lower(machines', m))
  <2>1. Lower(machines', m) = Lower(machines, m)
    BY <1>1, LowerSame
  <2> QED BY <2>1 DEF IDeep
<1> QED BY <1>2 DEF IDeep

LEMMA DeepOnly ==
  ASSUME IParser, IParser', IDeep, NEW r, OnlyCurrent(r),
         r.parent = Cur.parent, r.subs = Cur.subs, r.depth = Cur.depth
  PROVE  IDeep'
<1>1. \A m \in Machines : /\ machines'[m].parent = machines[m].parent
                          /\ machines'[m].subs = machines[m].subs
                          /\ machines'[m].depth = machines[m].depth
  BY DEF OnlyCurrent, Cur
<1> QED BY <1>1, DeepSame DEF OnlyCurrent

(* Declarations change no depth.                                           *)
LEMMA PlainDeep ==
  ASSUME IParser, IParser', IDeep,
         \/ DeclareState \/ DeclareEvent \/ DeclareAction \/ DeclareTransition
         \/ BeginReturns \/ EndReturns
  PROVE  IDeep'
<1>1. Typed /\ Nested /\ Focused
  BY DEF IParser
<1>2. CASE DeclareState
  <2>1. OnlyCurrent(WithState)
    BY <1>1, <1>2, DeclareStateDoes
  <2>2. WithState.parent = Cur.parent /\ WithState.subs = Cur.subs /\ WithState.depth = Cur.depth
    BY <2>1 DEF OnlyCurrent, WithState, Records
  <2> QED BY <2>1, <2>2, DeepOnly
<1>3. CASE DeclareEvent
  <2>1. OnlyCurrent(WithEvent)
    BY <1>1, <1>3, DeclareEventDoes
  <2>2. WithEvent.parent = Cur.parent /\ WithEvent.subs = Cur.subs /\ WithEvent.depth = Cur.depth
    BY <2>1 DEF OnlyCurrent, WithEvent, Records
  <2> QED BY <2>1, <2>2, DeepOnly
<1>4. CASE DeclareAction
  <2>1. OnlyCurrent(WithAction)
    BY <1>1, <1>4, DeclareActionDoes
  <2>2. WithAction.parent = Cur.parent /\ WithAction.subs = Cur.subs /\ WithAction.depth = Cur.depth
    BY <2>1 DEF OnlyCurrent, WithAction, WithDone, Records
  <2> QED BY <2>1, <2>2, DeepOnly
<1>5. CASE DeclareTransition
  <2>1. OnlyCurrent(WithTransition)
    BY <1>1, <1>5, DeclareTransitionDoes
  <2>2. /\ WithTransition.parent = Cur.parent /\ WithTransition.subs = Cur.subs
        /\ WithTransition.depth = Cur.depth
    BY <2>1 DEF OnlyCurrent, WithTransition, WithDone, Records
  <2> QED BY <2>1, <2>2, DeepOnly
<1>6. CASE BeginReturns
  <2>1. OnlyCurrent(WithBegun)
    BY <1>1, <1>6, BeginReturnsDoes
  <2>2. WithBegun.parent = Cur.parent /\ WithBegun.subs = Cur.subs /\ WithBegun.depth = Cur.depth
    BY <2>1 DEF OnlyCurrent, WithBegun, Records
  <2> QED BY <2>1, <2>2, DeepOnly
<1>7. CASE EndReturns
  <2>1. OnlyCurrent(WithReturns)
    BY <1>1, <1>7, EndReturnsDoes
  <2>2. WithReturns.parent = Cur.parent /\ WithReturns.subs = Cur.subs /\ WithReturns.depth = Cur.depth
    BY <2>1 DEF OnlyCurrent, WithReturns, Records
  <2> QED BY <2>1, <2>2, DeepOnly
<1> QED BY <1>2, <1>3, <1>4, <1>5, <1>6, <1>7

LEMMA ReferDeep == ASSUME IParser, IParser', IDeep, ReferParentEvent PROVE IDeep'
<1>1. /\ current \in Machines /\ Cur = machines[current] /\ Cur \in Records
      /\ Cur.parent \in Machines /\ machines[Cur.parent] \in Records
      /\ Machines' = Machines /\ Len(machines') = Len(machines)
      /\ machines'[current] = WithShared /\ machines'[Cur.parent] = WithSharer
      /\ \A m \in Machines : m \notin {current, Cur.parent} => machines'[m] = machines[m]
  BY ReferParentEventDoes DEF IParser, Cur
<1>2. WithShared.parent = Cur.parent /\ WithShared.subs = Cur.subs /\ WithShared.depth = Cur.depth
  BY <1>1 DEF WithShared, Records
<1>3. LET P == machines[Cur.parent] IN
      WithSharer.parent = P.parent /\ WithSharer.subs = P.subs /\ WithSharer.depth = P.depth
  BY <1>1 DEF WithSharer, Records
<1>4. \A m \in Machines : /\ machines'[m].parent = machines[m].parent
                          /\ machines'[m].subs = machines[m].subs
                          /\ machines'[m].depth = machines[m].depth
  <2> SUFFICES ASSUME NEW m \in Machines
               PROVE  /\ machines'[m].parent = machines[m].parent
                      /\ machines'[m].subs = machines[m].subs
                      /\ machines'[m].depth = machines[m].depth
    OBVIOUS
  <2>1. CASE m = current
    BY <1>1, <1>2, <2>1
  <2>2. CASE m = Cur.parent
    BY <1>1, <1>3, <2>2
  <2>3. CASE m \notin {current, Cur.parent}
    BY <1>1, <2>3
  <2> QED BY <2>1, <2>2, <2>3
<1> QED BY <1>1, <1>4, DeepSame

(* A new machine has no sub-machine yet and counts nowhere.                *)
LEMMA BeginDeep == ASSUME IParser, IParser', IDeep, BeginMachine PROVE IDeep'
<1>1. PICK d : d = Len(machines) + 1
  OBVIOUS
<1>2. /\ NewMachine \in Records /\ Len(machines') = d
      /\ Machines' = Machines \union {d} /\ d \notin Machines
      /\ machines'[d] = NewMachine
      /\ \A m \in Machines :
           machines'[m] = IF m = current THEN [machines[m] EXCEPT !.stage = "subs"] ELSE machines[m]
  BY <1>1, BeginMachineDoes DEF IParser
<1>3. /\ Rooted(machines) /\ Rooted(machines') /\ Machines = 1 .. Len(machines) /\ Len(machines) \in Nat
      /\ \A m \in Machines : machines[m] \in Records
  BY RootedHere, RootedNext, Placed DEF IParser
<1>4. \A m \in Machines : /\ machines'[m].parent = machines[m].parent
                          /\ machines'[m].subs = machines[m].subs
                          /\ machines'[m].depth = machines[m].depth
  <2> SUFFICES ASSUME NEW m \in Machines
               PROVE  /\ machines'[m].parent = machines[m].parent
                      /\ machines'[m].subs = machines[m].subs
                      /\ machines'[m].depth = machines[m].depth
    OBVIOUS
  <2>1. PICK s : s = machines[m]
    OBVIOUS
  <2>2. s \in Records /\ machines'[m] = IF m = current THEN [s EXCEPT !.stage = "subs"] ELSE s
    BY <1>2, <1>3, <2>1
  <2> QED BY <2>1, <2>2 DEF Records
<1>5. machines'[d].subs = << >> /\ machines'[d].depth = 0
  BY <1>2 DEF NewMachine
<1>6. \A k \in Machines : Above(machines')[k] = Above(machines)[k]
  <2>1. Len(machines) <= Len(machines') /\ \A m \in 1 .. Len(machines) : machines'[m].parent = machines[m].parent
    BY <1>1, <1>2, <1>3, <1>4
  <2> QED BY <1>3, <2>1, AboveSame
<1>7. 1 .. Len(machines') = Machines \union {d}
  BY <1>1, <1>2, <1>3
<1>8. ASSUME NEW m \in Machines PROVE machines'[m].depth = Cardinality(Lower(machines', m))
  <2>1. Lower(machines', m) = Lower(machines, m)
    BY <1>3, <1>4, <1>5, <1>6, <1>7 DEF Lower
  <2> QED BY <1>4, <2>1 DEF IDeep
<1>9. Lower(machines', d) = {}
  <2>1. \A k \in Machines : Above(machines)[k] \subseteq 1 .. k
    BY <1>3, AboveBefore
  <2>2. \A k \in Machines : d \notin Above(machines')[k]
    BY <1>1, <1>3, <1>6, <2>1
  <2> QED BY <1>5, <1>7, <2>2 DEF Lower
<1>10. Cardinality(Lower(machines', d)) = 0
  BY <1>9, FS_EmptySet
<1> QED BY <1>2, <1>5, <1>8, <1>10 DEF IDeep

(* The first sub-machine that ends makes its parent count in all above it. *)
LEMMA EndDeep == ASSUME IParser, IParser', IDeep, EndMachine PROVE IDeep'
<1>1. PICK c, u : c = current /\ u = Cur.parent
  OBVIOUS
<1>2. /\ u \in {0} \union Machines /\ Len(machines') = Len(machines) /\ Machines' = Machines
      /\ \A m \in Machines :
           /\ machines'[m].parent = machines[m].parent
           /\ machines'[m].depth = IF FirstSub /\ m \in Ancestors(u)
                                   THEN machines[m].depth + 1 ELSE machines[m].depth
           /\ m # u => machines'[m].subs = machines[m].subs
           /\ m = u => machines'[m].subs = Append(machines[m].subs, c)
  BY <1>1, EndMachineDoes DEF IParser, Like
<1>3. /\ Rooted(machines) /\ Rooted(machines') /\ Machines = 1 .. Len(machines) /\ Len(machines) \in Nat
      /\ \A m \in Machines : machines[m] \in Records /\ m # 0
  BY RootedHere, RootedNext, Placed DEF IParser
<1>4. \A k \in Machines : Above(machines')[k] = Above(machines)[k]
  BY <1>2, <1>3, AboveSame
<1>5. u \in Machines => machines'[u].subs # << >>
  <2> SUFFICES ASSUME u \in Machines PROVE machines'[u].subs # << >>
    OBVIOUS
  <2>1. machines[u].subs \in Seq(Nat)
    BY <1>3 DEF Records
  <2> QED BY <1>2, <2>1
<1>6. FirstSub <=> u # 0 /\ machines[u].subs = << >>
  BY <1>1 DEF FirstSub
<1>7. ASSUME NEW m \in Machines PROVE machines'[m].depth = Cardinality(Lower(machines', m))
  <2>1. machines[m].depth = Cardinality(Lower(machines, m))
    BY DEF IDeep
  <2>2. Ancestors(u) = Above(machines)[u]
    BY AncestorsIs
  <2>3. CASE FirstSub /\ m \in Ancestors(u)
    <3>1. Lower(machines', m) = Lower(machines, m) \union {u} /\ u \notin Lower(machines, m)
      BY <1>2, <1>3, <1>4, <1>5, <1>6, <2>2, <2>3 DEF Lower
    <3>2. Cardinality(Lower(machines', m)) = Cardinality(Lower(machines, m)) + 1
      BY <1>3, <3>1, LowerFinite, FS_AddElement
    <3> QED BY <1>2, <2>1, <2>3, <3>2
  <2>4. CASE ~(FirstSub /\ m \in Ancestors(u))
    <3>1. Lower(machines', m) = Lower(machines, m)
      BY <1>2, <1>3, <1>4, <1>5, <1>6, <2>2, <2>4 DEF Lower
    <3> QED BY <1>2, <2>1, <2>4, <3>1
  <2> QED BY <2>3, <2>4
<1> QED BY <1>2, <1>7 DEF IDeep

(* increase_sub_machine_depth counts, in every machine, the machines below  *)
(* it (itself included) that have sub-machines.                             *)
THEOREM InvariantDeep == ParserSpec => []IDeep
<1>1. ParserInit => IDeep
  BY DEF ParserInit, IDeep, Machines
<1>2. IParser /\ IParser' /\ IDeep /\ [ParserNext]_vars => IDeep'
  <2> SUFFICES ASSUME IParser, IParser', IDeep, [ParserNext]_vars PROVE IDeep'
    OBVIOUS
  <2>1. CASE UNCHANGED machines
    BY <2>1 DEF IDeep, Machines
  <2>2. UNCHANGED vars \/ ParentNamespace \/ ParentOfTop \/ SubNamespace \/ Returned \/ SyntaxError
          => UNCHANGED machines
    BY DEF vars, ParentNamespace, ParentOfTop, SubNamespace, Returned, SyntaxError
  <2> QED BY <2>1, <2>2, PlainDeep, ReferDeep, BeginDeep, EndDeep DEF ParserNext
<1> QED BY <1>1, <1>2, InvariantParser, PTL DEF ParserSpec

-----------------------------------------------------------------------------
(* The height of the tree below a machine. *)
(* Induction from the last machine to the first.                           *)
LEMMA Downward ==
  ASSUME NEW S, NEW N \in Nat, \A n \in 1..N : (\A k \in n + 1 .. N : k \in S) => n \in S
  PROVE  \A n \in 1..N : n \in S
<1> DEFINE T == {n \in 1..N : N + 1 - n \in S}
<1>1. ASSUME NEW n \in 1..N, \A k \in 1 .. n - 1 : k \in T PROVE n \in T
  <2>1. PICK j : j = N + 1 - n
    OBVIOUS
  <2>2. j \in 1..N
    BY <2>1
  <2>3. ASSUME NEW k \in j + 1 .. N PROVE k \in S
    <3>1. N + 1 - k \in 1 .. n - 1 /\ N + 1 - (N + 1 - k) = k
      BY <2>1, <2>2
    <3>2. N + 1 - k \in T
      BY <1>1, <3>1
    <3> QED BY <3>1, <3>2
  <2> QED BY <2>1, <2>2, <2>3
<1>2. \A n \in 1..N : n \in T
  <2> HIDE DEF T
  <2> QED BY <1>1, Upward
<1>3. ASSUME NEW n \in 1..N PROVE n \in S
  <2>1. N + 1 - n \in 1..N /\ N + 1 - (N + 1 - n) = n
    OBVIOUS
  <2>2. N + 1 - n \in T
    BY <1>2, <2>1
  <2> QED BY <2>1, <2>2
<1> QED BY <1>3

(* The greatest of a bounded set of numbers.                               *)
LEMMA MaxIs ==
  ASSUME NEW S \in SUBSET Nat, S # {}, NEW b \in Nat, \A s \in S : s <= b
  PROVE  Max(S) \in S /\ \A s \in S : s <= Max(S)
<1> DEFINE T == {n \in Nat : \A s \in S : s <= n}
<1>1. T \in SUBSET Nat /\ b \in T
  OBVIOUS
<1>2. PICK n \in T : \A k \in T : n <= k
  <2> HIDE DEF T
  <2>1. T # {}
    BY <1>1
  <2> QED BY <1>1, <2>1, Least
<1>3. n \in S
  <2> SUFFICES ASSUME n \notin S PROVE FALSE
    OBVIOUS
  <2>1. \A s \in S : s < n
    BY <1>2
  <2>2. n # 0
    <3>1. PICK s \in S : TRUE
      OBVIOUS
    <3>2. s \in Nat /\ n \in Nat /\ s < n
      BY <1>2, <2>1
    <3> QED BY <3>2
  <2>3. n - 1 \in T
    BY <1>2, <2>1, <2>2
  <2> QED BY <1>2, <2>3
<1>4. \A s \in S : n >= s
  BY <1>2
<1>5. Max(S) \in S /\ \A s \in S : Max(S) >= s
  <2> HIDE DEF T
  <2> QED BY <1>3, <1>4 DEF Max
<1> QED BY <1>5

Subs(ms, m) == ToSet(ms[m].subs)
Grown(ms) ==
  /\ Rooted(ms) /\ DOMAIN ms = 1 .. Len(ms)
  /\ \A m \in 1 .. Len(ms) :
       /\ \A c \in Subs(ms, m) : c \in m + 1 .. Len(ms) /\ ms[c].parent = m
       /\ ms[m].subs # << >> => Subs(ms, m) # {}
       /\ ms[m].subs = << >> => Subs(ms, m) = {}

Tall(ms, h) ==
  [m \in DOMAIN ms |-> IF ms[m].subs = << >> THEN 0 ELSE 1 + Max({h[c] : c \in ToSet(ms[m].subs)})]
High(ms) == CHOOSE h : h = Tall(ms, h)

(* Height solves its equation.                                             *)
LEMMA HeightIs == Height = High(machines)
BY Zenon DEF Height, High, Tall, Machines

LEMMA HighSolved ==
  ASSUME NEW ms, Grown(ms)
  PROVE  High(ms) = Tall(ms, High(ms))
<1> DEFINE L == Len(ms)
           none(i) == ms[i].subs = << >>
           kids(i) == Subs(ms, i)
           P == {d \in 0 .. L : \E f \in [L - d + 1 .. L -> 0 .. L] :
                  \A i \in L - d + 1 .. L :
                    /\ f[i] = IF none(i) THEN 0 ELSE 1 + Max({f[c] : c \in kids(i)})
                    /\ f[i] <= L - i}
<1>1. L \in Nat /\ \A i \in 1 .. L : kids(i) \subseteq i + 1 .. L /\ (~none(i) => kids(i) # {})
  BY DEF Grown, Rooted
<1> HIDE DEF L, none, kids
<1>2. 0 \in P
  <2>1. L - 0 + 1 .. L = {}
    BY <1>1
  <2> DEFINE f == [i \in {} |-> 0]
  <2>2. f \in [{} -> 0 .. L]
    OBVIOUS
  <2> HIDE DEF f
  <2>3. 0 \in 0 .. L
    BY <1>1
  <2> QED BY <2>1, <2>2, <2>3
<1>3. ASSUME NEW n \in 1 .. L, n - 1 \in P PROVE n \in P
  <2>1. PICK j : j = L - n + 1
    OBVIOUS
  <2>2. n \in Nat /\ j \in 1 .. L /\ L - (n - 1) + 1 = j + 1 /\ j \in Nat
    BY <1>1, <2>1
  <2>3. PICK f \in [j + 1 .. L -> 0 .. L] :
          \A i \in j + 1 .. L :
            /\ f[i] = IF none(i) THEN 0 ELSE 1 + Max({f[c] : c \in kids(i)})
            /\ f[i] <= L - i
    BY <1>3, <2>2
  <2>4. PICK v : v = IF none(j) THEN 0 ELSE 1 + Max({f[c] : c \in kids(j)})
    OBVIOUS
  <2>5. v \in 0 .. L /\ v <= L - j
    <3>1. CASE none(j)
      BY <1>1, <2>2, <2>4, <3>1
    <3>2. CASE ~none(j)
      <4> DEFINE V == {f[c] : c \in kids(j)}
      <4>1. kids(j) # {} /\ kids(j) \subseteq j + 1 .. L
        BY <1>1, <2>2, <3>2
      <4>2. \A c \in kids(j) : f[c] \in Nat /\ f[c] <= L - j - 1
        <5> SUFFICES ASSUME NEW c \in kids(j) PROVE f[c] \in Nat /\ f[c] <= L - j - 1
          OBVIOUS
        <5>1. c \in j + 1 .. L
          BY <4>1
        <5>2. f[c] \in 0 .. L /\ f[c] <= L - c
          BY <2>3, <5>1
        <5> QED BY <1>1, <2>2, <5>1, <5>2
      <4>3. V \in SUBSET Nat /\ V # {} /\ \A s \in V : s <= L - j - 1
        BY <4>1, <4>2
      <4>4. L - j - 1 \in Nat
        <5>1. PICK c \in kids(j) : TRUE
          BY <4>1
        <5>2. c \in j + 1 .. L
          BY <4>1, <5>1
        <5> QED BY <1>1, <2>2, <5>2
      <4> HIDE DEF V
      <4>5. Max(V) \in V
        BY <4>3, <4>4, MaxIs
      <4>6. v = 1 + Max(V)
        BY <2>4, <3>2 DEF V
      <4>7. Max(V) \in Nat /\ Max(V) <= L - j - 1
        BY <4>3, <4>5
      <4> QED BY <1>1, <2>2, <4>6, <4>7
    <3> QED BY <3>1, <3>2
  <2> DEFINE g == [i \in j .. L |-> IF i = j THEN v ELSE f[i]]
  <2>6. \A i \in j .. L : i = j \/ i \in j + 1 .. L
    BY <1>1, <2>2
  <2>7. g \in [j .. L -> 0 .. L]
    BY <2>3, <2>5, <2>6
  <2>8. ASSUME NEW i \in j .. L
        PROVE  /\ g[i] = IF none(i) THEN 0 ELSE 1 + Max({g[c] : c \in kids(i)})
               /\ g[i] <= L - i
    <3>1. \A c \in kids(i) : c \in j + 1 .. L /\ c \in j .. L /\ c # j
      <4>1. i \in 1 .. L /\ \A c \in i + 1 .. L : c \in j + 1 .. L
        BY <1>1, <2>2
      <4>2. kids(i) \subseteq j + 1 .. L
        BY <1>1, <4>1
      <4>3. \A c \in j + 1 .. L : c \in j .. L /\ c # j
        BY <1>1, <2>2
      <4> QED BY <4>2, <4>3
    <3>2. \A c \in kids(i) : g[c] = f[c]
      BY <3>1
    <3>3. {g[c] : c \in kids(i)} = {f[c] : c \in kids(i)}
      BY <3>2
    <3>4. CASE i = j
      <4>1. g[i] = v
        BY <3>4
      <4> HIDE DEF g
      <4> QED BY <2>4, <2>5, <3>3, <3>4, <4>1
    <3>5. CASE i # j
      <4>1. i \in j + 1 .. L /\ g[i] = f[i]
        BY <2>6, <3>5
      <4> HIDE DEF g
      <4> QED BY <2>3, <3>3, <4>1
    <3> QED BY <3>4, <3>5
  <2> HIDE DEF g
  <2>9. \E h \in [L - n + 1 .. L -> 0 .. L] :
          \A i \in L - n + 1 .. L :
            /\ h[i] = IF none(i) THEN 0 ELSE 1 + Max({h[c] : c \in kids(i)})
            /\ h[i] <= L - i
    BY <2>1, <2>7, <2>8
  <2>10. n \in 0 .. L
    BY <1>1
  <2> QED BY <2>9, <2>10, Zenon
<1> HIDE DEF P
<1>4. \A n \in 0 .. L : n \in P
  BY <1>1, <1>2, <1>3, Induct
<1>5. PICK f \in [1 .. L -> 0 .. L] :
        \A i \in 1 .. L : f[i] = IF none(i) THEN 0 ELSE 1 + Max({f[c] : c \in kids(i)})
  <2>1. L \in P /\ L - L + 1 = 1
    BY <1>1, <1>4
  <2> QED BY <2>1 DEF P
<1>6. f = Tall(ms, f)
  <2>1. DOMAIN ms = 1 .. L
    BY DEF Grown, L
  <2> QED BY <1>5, <2>1 DEF Tall, none, kids, Subs
<1> QED BY <1>6 DEF High

(* A tree of machines is not higher than there are machines to come.       *)
LEMMA HighTyped ==
  ASSUME NEW ms, Grown(ms), NEW m \in 1 .. Len(ms)
  PROVE  High(ms)[m] \in Nat /\ High(ms)[m] <= Len(ms) - m
<1> DEFINE L == Len(ms)
           h == High(ms)
           S == {i \in 1 .. L : h[i] \in Nat /\ h[i] <= L - i}
<1>1. L \in Nat /\ \A i \in 1 .. L : Subs(ms, i) \subseteq i + 1 .. L /\ (ms[i].subs # << >> => Subs(ms, i) # {})
  BY DEF Grown, Rooted
<1>2. \A i \in 1 .. L : h[i] = IF ms[i].subs = << >> THEN 0 ELSE 1 + Max({h[c] : c \in Subs(ms, i)})
  <2>1. DOMAIN ms = 1 .. L /\ h = Tall(ms, h)
    BY HighSolved DEF Grown
  <2> HIDE DEF h
  <2> QED BY <2>1 DEF Tall, Subs
<1> HIDE DEF L, h
<1>3. ASSUME NEW i \in 1 .. L, \A k \in i + 1 .. L : k \in S PROVE i \in S
  <2>1. CASE ms[i].subs = << >>
    <3>1. h[i] = 0
      BY <1>2, <2>1
    <3>2. i \in Nat /\ L - i \in Nat
      BY <1>1
    <3> QED BY <3>1, <3>2
  <2>2. CASE ms[i].subs # << >>
    <3> DEFINE V == {h[c] : c \in Subs(ms, i)}
    <3>1. Subs(ms, i) # {} /\ Subs(ms, i) \subseteq i + 1 .. L
      BY <1>1, <2>2
    <3>2. \A c \in Subs(ms, i) : h[c] \in Nat /\ h[c] <= L - i - 1
      <4> SUFFICES ASSUME NEW c \in Subs(ms, i) PROVE h[c] \in Nat /\ h[c] <= L - i - 1
        OBVIOUS
      <4>1. c \in i + 1 .. L
        BY <3>1
      <4>2. h[c] \in Nat /\ h[c] <= L - c
        BY <1>3, <4>1
      <4> QED BY <1>1, <4>1, <4>2
    <3>3. V \in SUBSET Nat /\ V # {} /\ \A s \in V : s <= L - i - 1
      BY <3>1, <3>2
    <3>4. L - i - 1 \in Nat
      <4>1. PICK c \in Subs(ms, i) : TRUE
        BY <3>1
      <4>2. c \in i + 1 .. L
        BY <3>1, <4>1
      <4> QED BY <1>1, <4>2
    <3> HIDE DEF V
    <3>5. Max(V) \in V
      BY <3>3, <3>4, MaxIs
    <3>6. h[i] = 1 + Max(V)
      BY <1>2, <2>2 DEF V
    <3>7. Max(V) \in Nat /\ Max(V) <= L - i - 1
      BY <3>3, <3>5
    <3> QED BY <1>1, <3>6, <3>7
  <2> QED BY <2>1, <2>2
<1>4. \A i \in 1 .. L : i \in S
  <2> HIDE DEF S
  <2> QED BY <1>1, <1>3, Downward
<1> QED BY <1>4 DEF L, h

(* It is one more than that of the highest of the sub-machines. *)
LEMMA HighOf ==
  ASSUME NEW ms, Grown(ms), NEW m \in 1 .. Len(ms)
  PROVE  /\ ms[m].subs = << >> => High(ms)[m] = 0
         /\ ms[m].subs # << >> =>
              \E c \in Subs(ms, m) : /\ High(ms)[m] = 1 + High(ms)[c]
                                     /\ \A k \in Subs(ms, m) : High(ms)[k] <= High(ms)[c]
<1> DEFINE h == High(ms)
           V == {h[c] : c \in Subs(ms, m)}
<1>1. h[m] = IF ms[m].subs = << >> THEN 0 ELSE 1 + Max(V)
  <2>1. m \in DOMAIN ms /\ h = Tall(ms, h)
    BY HighSolved DEF Grown
  <2> HIDE DEF h
  <2> QED BY <2>1 DEF Tall, Subs
<1>2. Len(ms) \in Nat
  BY DEF Grown, Rooted
<1>3. ASSUME NEW c \in Subs(ms, m) PROVE h[c] \in Nat /\ h[c] <= Len(ms)
  <2>1. c \in m + 1 .. Len(ms)
    BY DEF Grown
  <2>2. c \in 1 .. Len(ms) /\ Len(ms) - c <= Len(ms)
    BY <1>2, <2>1
  <2>3. h[c] \in Nat /\ h[c] <= Len(ms) - c
    BY <2>2, HighTyped
  <2> HIDE DEF h
  <2> QED BY <1>2, <2>2, <2>3
<1>4. ms[m].subs # << >> => Subs(ms, m) # {}
  BY DEF Grown
<1> HIDE DEF h
<1>5. CASE ms[m].subs # << >>
  <2>1. V \in SUBSET Nat /\ V # {} /\ \A s \in V : s <= Len(ms)
    BY <1>3, <1>4, <1>5
  <2>2. Max(V) \in V /\ \A s \in V : s <= Max(V)
    <3> HIDE DEF V
    <3> QED BY <1>2, <2>1, MaxIs
  <2>3. PICK c \in Subs(ms, m) : Max(V) = h[c]
    BY <2>2
  <2>4. \A k \in Subs(ms, m) : h[k] <= h[c]
    BY <2>2, <2>3
  <2>5. h[m] = 1 + h[c]
    BY <1>1, <1>5, <2>3
  <2> QED BY <1>5, <2>4, <2>5 DEF h
<1>6. CASE ms[m].subs = << >>
  BY <1>1, <1>6 DEF h
<1> QED BY <1>5, <1>6

-----------------------------------------------------------------------------
(* What counts for a sub-machine counts for its parent, and the parent     *)
(* besides.                                                                *)
LEMMA LowerBySub ==
  ASSUME NEW ms, Grown(ms), NEW m \in 1 .. Len(ms), NEW c \in 1 .. Len(ms), ms[c].parent = m
  PROVE  Lower(ms, c) \subseteq Lower(ms, m) /\ m \notin Lower(ms, c)
<1>1. Rooted(ms)
  BY DEF Grown
<1>2. Above(ms)[c] = {c} \union Above(ms)[m] /\ m \in Above(ms)[m] /\ m \in 0 .. c - 1
  BY <1>1, AboveSolved, AboveBefore DEF Rooted
<1>3. ASSUME NEW k \in 1 .. Len(ms), c \in Above(ms)[k] PROVE m \in Above(ms)[k] /\ k # m
  <2>1. Above(ms)[c] \subseteq Above(ms)[k] /\ c \in 1 .. k
    BY <1>1, <1>3, AboveAbove
  <2>2. k \in Nat /\ c \in Nat /\ Len(ms) \in Nat
    BY <1>1 DEF Rooted
  <2> QED BY <1>2, <2>1, <2>2
<1> QED BY <1>3 DEF Lower

(* The depth is at least the height: one machine counts on every level.    *)
LEMMA HighAtMost ==
  ASSUME NEW ms, Grown(ms), NEW m \in 1 .. Len(ms)
  PROVE  High(ms)[m] <= Cardinality(Lower(ms, m))
<1> DEFINE h(i) == High(ms)[i]
           n(i) == Cardinality(Lower(ms, i))
           S == {i \in 1 .. Len(ms) : h(i) <= n(i)}
<1>1. /\ Rooted(ms) /\ Len(ms) \in Nat
      /\ \A i \in 1 .. Len(ms) : h(i) \in Nat /\ n(i) \in Nat
  BY HighTyped, LowerFinite DEF Grown, Rooted
<1>2. ASSUME NEW i \in 1 .. Len(ms), \A k \in i + 1 .. Len(ms) : k \in S PROVE i \in S
  <2>1. CASE ms[i].subs = << >>
    <3>1. h(i) = 0
      BY <2>1, HighOf
    <3> HIDE DEF h, n
    <3> QED BY <1>1, <3>1
  <2>2. CASE ms[i].subs # << >>
    <3>1. PICK c \in Subs(ms, i) : h(i) = 1 + h(c)
      BY <2>2, HighOf
    <3>2. c \in i + 1 .. Len(ms) /\ ms[c].parent = i
      BY DEF Grown
    <3>3. c \in 1 .. Len(ms)
      BY <1>1, <3>2
    <3>4. h(c) <= n(c)
      BY <1>2, <3>2
    <3>5. Lower(ms, c) \subseteq Lower(ms, i) /\ i \notin Lower(ms, c)
      BY <3>2, <3>3, LowerBySub
    <3>6. i \in Lower(ms, i)
      BY <1>1, <2>2, AboveBefore DEF Lower
    <3>7. n(c) + 1 <= n(i)
      <4>1. IsFiniteSet(Lower(ms, i)) /\ IsFiniteSet(Lower(ms, c))
        BY <1>1, LowerFinite
      <4>2. Cardinality(Lower(ms, c) \union {i}) = n(c) + 1
        BY <3>5, <4>1, FS_AddElement
      <4>3. Lower(ms, c) \union {i} \in SUBSET Lower(ms, i)
        BY <3>5, <3>6
      <4>4. Cardinality(Lower(ms, c) \union {i}) <= Cardinality(Lower(ms, i))
        BY <4>1, <4>3, FS_Subset
      <4> QED BY <4>2, <4>4
    <3>8. h(i) \in Nat /\ h(c) \in Nat /\ n(i) \in Nat /\ n(c) \in Nat
      BY <1>1, <3>3
    <3> HIDE DEF h, n
    <3> QED BY <3>1, <3>4, <3>7, <3>8
  <2> QED BY <2>1, <2>2
<1>3. \A i \in 1 .. Len(ms) : i \in S
  <2> HIDE DEF S
  <2> QED BY <1>1, <1>2, Downward
<1> QED BY <1>3

(* Only one sub-machine on each level has sub-machines. *)
Line(ms, m) == \A k, j \in Lower(ms, m) : k \in Above(ms)[j] \/ j \in Above(ms)[k]

(* Two sub-machines of one machine are above no common one.                *)
LEMMA OneSub ==
  ASSUME NEW ms, Rooted(ms), NEW k \in 1 .. Len(ms), NEW m \in 1 .. Len(ms),
         NEW a \in Above(ms)[k], NEW b \in Above(ms)[k], ms[a].parent = m, ms[b].parent = m
  PROVE  a = b
<1>1. a \in 1 .. Len(ms) /\ b \in 1 .. Len(ms) /\ Len(ms) \in Nat
  <2>1. Above(ms)[k] \subseteq 1 .. k /\ Len(ms) \in Nat
    BY AboveBefore DEF Rooted
  <2> QED BY <2>1
<1>2. Above(ms)[a] = {a} \union Above(ms)[m] /\ Above(ms)[b] = {b} \union Above(ms)[m]
      /\ m \in 0 .. a - 1 /\ m \in 0 .. b - 1
  <2>1. \A i \in 1 .. Len(ms) :
          Above(ms)[i] = {i} \union Above(ms)[ms[i].parent] /\ ms[i].parent \in 0 .. i - 1
    BY AboveSolved DEF Rooted
  <2> QED BY <1>1, <2>1
<1>3. Above(ms)[m] \subseteq 1 .. m
  BY AboveBefore
<1>4. CASE a <= b
  <2>1. a \in Above(ms)[b]
    BY <1>4, AboveChain
  <2>2. a \notin Above(ms)[m]
    BY <1>1, <1>2, <1>3
  <2> QED BY <1>2, <2>1, <2>2
<1>5. CASE b <= a
  <2>1. b \in Above(ms)[a]
    BY <1>5, AboveChain
  <2>2. b \notin Above(ms)[m]
    BY <1>1, <1>2, <1>3
  <2> QED BY <1>2, <2>1, <2>2
<1> QED BY <1>1, <1>4, <1>5

(* Where one machine on every level has sub-machines, depth is height.     *)
LEMMA HighExactly ==
  ASSUME NEW ms, Grown(ms), NEW C \in SUBSET (1 .. Len(ms)),
         \A i \in C : \A c \in 1 .. Len(ms) : ms[c].parent = i => c \in C /\ c \in Subs(ms, i),
         NEW m \in C, Line(ms, m)
  PROVE  Cardinality(Lower(ms, m)) = High(ms)[m]
<1> DEFINE h(i) == High(ms)[i]
           n(i) == Cardinality(Lower(ms, i))
           S == {i \in 1 .. Len(ms) : i \in C /\ Line(ms, i) => n(i) = h(i)}
<1>1. /\ Rooted(ms) /\ Len(ms) \in Nat
      /\ \A i \in 1 .. Len(ms) : h(i) \in Nat /\ n(i) \in Nat /\ IsFiniteSet(Lower(ms, i))
  BY HighTyped, LowerFinite DEF Grown, Rooted
<1>2. ASSUME NEW i \in 1 .. Len(ms), \A k \in i + 1 .. Len(ms) : k \in S, i \in C, Line(ms, i)
      PROVE  n(i) = h(i)
  <2>1. \A k \in Lower(ms, i) : k # i =>
          \E c \in Subs(ms, i) : c \in 1 .. Len(ms) /\ ms[c].parent = i /\ k \in Lower(ms, c)
    <3> SUFFICES ASSUME NEW k \in Lower(ms, i), k # i
                 PROVE \E c \in Subs(ms, i) : c \in 1 .. Len(ms) /\ ms[c].parent = i /\ k \in Lower(ms, c)
      OBVIOUS
    <3>1. k \in 1 .. Len(ms) /\ i \in Above(ms)[k] /\ ms[k].subs # << >>
      BY DEF Lower
    <3>2. PICK c \in 1 .. Len(ms) : ms[c].parent = i /\ c \in Above(ms)[k]
      BY <1>1, <3>1, AboveBySub
    <3>3. c \in Subs(ms, i)
      BY <1>2, <3>2
    <3> QED BY <3>1, <3>2, <3>3 DEF Lower
  <2>2. CASE ms[i].subs = << >>
    <3>1. h(i) = 0 /\ Subs(ms, i) = {}
      BY <2>2, HighOf DEF Grown
    <3>2. i \notin Lower(ms, i)
      BY <2>2 DEF Lower
    <3>3. Lower(ms, i) = {}
      BY <2>1, <3>1, <3>2
    <3> QED BY <3>1, <3>3, FS_EmptySet
  <2>3. CASE ms[i].subs # << >>
    <3>1. PICK d \in Subs(ms, i) : h(i) = 1 + h(d) /\ \A k \in Subs(ms, i) : h(k) <= h(d)
      BY <2>3, HighOf
    <3>2. \A c \in Subs(ms, i) : c \in i + 1 .. Len(ms) /\ c \in 1 .. Len(ms) /\ ms[c].parent = i
      <4>1. \A c \in Subs(ms, i) : c \in i + 1 .. Len(ms) /\ ms[c].parent = i
        BY DEF Grown
      <4>2. \A c \in i + 1 .. Len(ms) : c \in 1 .. Len(ms)
        BY <1>1
      <4> QED BY <4>1, <4>2
    <3>3. \A c \in Subs(ms, i) : Lower(ms, c) \subseteq Lower(ms, i) /\ i \notin Lower(ms, c)
      BY <3>2, LowerBySub
    <3>4. ASSUME NEW c \in Subs(ms, i) PROVE n(c) = h(c)
      <4>1. Line(ms, c)
        BY <1>2, <3>3 DEF Line
      <4>2. c \in C
        BY <1>2, <3>2
      <4>3. c \in S
        BY <1>2, <3>2
      <4> QED BY <4>1, <4>2, <4>3
    <3>5. ASSUME NEW k \in Lower(ms, i), k # i PROVE k \in Lower(ms, d)
      <4>1. PICK c \in Subs(ms, i) : k \in Lower(ms, c)
        BY <2>1, <3>5
      <4>2. CASE c = d
        BY <4>1, <4>2
      <4>3. CASE c # d
        <5>1. Lower(ms, d) # {}
          <6>1. c \in 1 .. Len(ms) /\ d \in 1 .. Len(ms)
            BY <3>2
          <6>2. n(c) # 0
            BY <1>1, <4>1, <6>1, FS_EmptySet
          <6>3. h(c) <= h(d) /\ n(c) = h(c) /\ n(d) = h(d)
            BY <3>1, <3>4
          <6>4. n(d) # 0
            <7>1. n(c) \in Nat /\ n(d) \in Nat /\ h(c) \in Nat /\ h(d) \in Nat
              BY <1>1, <6>1
            <7> HIDE DEF n, h
            <7> QED BY <6>2, <6>3, <7>1
          <6> QED BY <6>4, FS_EmptySet
        <5>2. PICK j \in Lower(ms, d) : TRUE
          BY <5>1
        <5>3. j \in 1 .. Len(ms) /\ k \in 1 .. Len(ms) /\ d \in Above(ms)[j] /\ c \in Above(ms)[k]
          BY <4>1 DEF Lower
        <5>4. k \in Above(ms)[j] \/ j \in Above(ms)[k]
          BY <1>2, <3>3, <5>2 DEF Line
        <5>5. \E e \in 1 .. Len(ms) : c \in Above(ms)[e] /\ d \in Above(ms)[e]
          <6>1. CASE k \in Above(ms)[j]
            <7>1. Above(ms)[k] \subseteq Above(ms)[j]
              BY <1>1, <5>3, <6>1, AboveAbove
            <7> QED BY <5>3, <7>1
          <6>2. CASE j \in Above(ms)[k]
            <7>1. Above(ms)[j] \subseteq Above(ms)[k]
              BY <1>1, <5>3, <6>2, AboveAbove
            <7> QED BY <5>3, <7>1
          <6> QED BY <5>4, <6>1, <6>2
        <5>6. c = d
          BY <1>1, <3>2, <5>5, OneSub
        <5> QED BY <4>3, <5>6
      <4> QED BY <4>2, <4>3
    <3>6. i \in Lower(ms, i)
      BY <1>1, <2>3, AboveBefore DEF Lower
    <3>7. Lower(ms, i) = Lower(ms, d) \union {i} /\ i \notin Lower(ms, d)
      BY <3>3, <3>5, <3>6
    <3>8. n(i) = n(d) + 1
      <4>1. IsFiniteSet(Lower(ms, d))
        BY <1>1, <3>2
      <4> QED BY <3>7, <4>1, FS_AddElement
    <3>9. n(d) = h(d) /\ h(d) \in Nat
      BY <1>1, <3>2, <3>4
    <3> HIDE DEF n, h
    <3> QED BY <3>1, <3>8, <3>9
  <2> QED BY <2>2, <2>3
<1>3. \A i \in 1 .. Len(ms) : i \in S
  <2>1. \A i \in 1 .. Len(ms) : (\A k \in i + 1 .. Len(ms) : k \in S) => i \in S
    BY <1>2
  <2> HIDE DEF S
  <2> QED BY <1>1, <2>1, Downward
<1> QED BY <1>3

(* The machines of the parser are a tree that lists its sub-machines.      *)
LEMMA GrownHere == ASSUME Typed, Nested PROVE Grown(machines)
<1>1. /\ Rooted(machines) /\ Machines = 1 .. Len(machines) /\ Machines = DOMAIN machines
      /\ Len(machines) \in Nat /\ \A m \in Machines : machines[m] \in Records
  BY RootedHere, Placed DEF Machines
<1>2. ASSUME NEW m \in Machines, NEW c \in Subs(machines, m)
      PROVE  c \in m + 1 .. Len(machines) /\ machines[c].parent = m
  <2>1. c \in Machines /\ machines[c].parent = m
    BY SubsKnown DEF Subs
  <2>2. m \in 0 .. c - 1
    BY <2>1 DEF Nested
  <2> QED BY <1>1, <2>1, <2>2
<1>3. ASSUME NEW m \in Machines
      PROVE  /\ machines[m].subs # << >> => Subs(machines, m) # {}
             /\ machines[m].subs = << >> => Subs(machines, m) = {}
  <2>1. PICK q : q = machines[m].subs
    OBVIOUS
  <2>2. q \in Seq(Nat)
    BY <1>1, <2>1 DEF Records
  <2>3. q # << >> => 1 \in DOMAIN q /\ q[1] \in ToSet(q)
    BY <2>2 DEF ToSet
  <2>4. ToSet(<< >>) = {}
    BY DEF ToSet
  <2> QED BY <2>1, <2>3, <2>4 DEF Subs
<1> QED BY <1>1, <1>2, <1>3 DEF Grown

(* What is not above the current machine is complete. *)
LEMMA OpenAbove ==
  ASSUME Typed, Nested, NEW m \in Machines, Open(m)
  PROVE  m \in Ancestors(current)
<1> DEFINE A == Above(machines)
           S == {k \in Machines : Open(k) => \A j \in 1 .. k : Open(j) => j \in A[k]}
<1>1. /\ Rooted(machines) /\ Machines = 1 .. Len(machines) /\ Len(machines) \in Nat
      /\ current \in 0 .. Len(machines)
  BY RootedHere, Placed DEF Typed
<1>2. \A k \in Machines : A[k] = {k} \union A[machines[k].parent] /\ machines[k].parent \in 0 .. k - 1
  BY <1>1, AboveSolved DEF Rooted
<1> HIDE DEF A
<1>3. ASSUME NEW k \in Machines, \A j \in 1 .. k - 1 : j \in S, Open(k), NEW j \in 1 .. k, Open(j)
      PROVE  j \in A[k]
  <2>1. CASE j = k
    BY <1>2, <2>1
  <2>2. CASE j # k
    <3>1. PICK p : p = machines[k].parent
      OBVIOUS
    <3>2. j < k /\ j \in Machines /\ j \in Nat
      BY <1>1, <2>2
    <3>3. j <= p
      BY <1>3, <3>1, <3>2 DEF Nested
    <3>4. p \in 1 .. k - 1 /\ p # 0 /\ j \in 1 .. p
      BY <1>2, <1>3, <3>1, <3>3
    <3>5. Open(p)
      BY <1>3, <3>1, <3>4 DEF Nested
    <3>6. p \in S
      BY <1>3, <3>4
    <3> QED BY <1>2, <1>3, <3>1, <3>4, <3>5, <3>6
  <2> QED BY <2>1, <2>2
<1>4. \A k \in 1 .. Len(machines) : k \in S
  <2>1. \A k \in 1 .. Len(machines) : (\A j \in 1 .. k - 1 : j \in S) => k \in S
    BY <1>1, <1>3
  <2> HIDE DEF S
  <2> QED BY <1>1, <2>1, Upward
<1>5. m <= current /\ m \in 1 .. Len(machines)
  BY <1>1 DEF Nested
<1>6. current \in Machines /\ current # 0 /\ m \in 1 .. current
  BY <1>1, <1>5
<1>7. Open(current)
  BY <1>6 DEF Nested
<1>8. m \in A[current]
  BY <1>1, <1>4, <1>6, <1>7
<1> QED BY <1>8, AncestorsIs DEF A

(* So the depth that is reported of complete machines is as promised.      *)
LEMMA DepthReportedHolds == ASSUME IParser, IDeep PROVE DepthReported
<1>1. Typed /\ Nested
  BY DEF IParser
<1>2. Grown(machines) /\ Machines = 1 .. Len(machines)
  BY <1>1, GrownHere, Placed
<1> SUFFICES ASSUME NEW m \in Machines \ Ancestors(current)
             PROVE  LET below == {n \in Machines : m \in Ancestors(n) /\ machines[n].subs # << >>} IN
                    /\ machines[m].depth >= Height[m]
                    /\ (\A n, k \in below : n \in Ancestors(k) \/ k \in Ancestors(n)) =>
                         machines[m].depth = Height[m]
  BY DEF DepthReported
<1> DEFINE below == {n \in Machines : m \in Ancestors(n) /\ machines[n].subs # << >>}
           C == {i \in Machines : ~Open(i)}
<1>3. \A n : Ancestors(n) = Above(machines)[n]
  BY AncestorsIs
<1>4. below = Lower(machines, m)
  BY <1>2, <1>3 DEF Lower
<1>5. machines[m].depth = Cardinality(Lower(machines, m))
  BY DEF IDeep
<1>6. Height[m] = High(machines)[m] /\ High(machines)[m] \in Nat
  BY <1>2, HeightIs, HighTyped
<1>7. machines[m].depth >= Height[m]
  <2>1. High(machines)[m] <= Cardinality(Lower(machines, m))
    BY <1>2, HighAtMost
  <2>2. Cardinality(Lower(machines, m)) \in Nat
    BY <1>2, LowerFinite DEF Grown
  <2> QED BY <1>5, <1>6, <2>1, <2>2
<1>8. ASSUME \A n, k \in below : n \in Ancestors(k) \/ k \in Ancestors(n)
      PROVE  machines[m].depth = Height[m]
  <2>1. Line(machines, m)
    BY <1>3, <1>4, <1>8 DEF Line
  <2>2. m \in C
    BY <1>1, OpenAbove
  <2>3. ASSUME NEW i \in C, NEW c \in Machines, machines[c].parent = i
        PROVE  c \in C /\ c \in Subs(machines, i)
    <3>1. i \in Machines /\ ~Open(i) /\ i # 0
      BY Placed, <1>1
    <3>2. ~Open(c)
      BY <1>1, <2>3, <3>1 DEF Nested
    <3>3. ToSet(machines[i].subs) = {k \in Machines : machines[k].parent = i /\ ~Open(k)}
      BY <1>1, <3>1 DEF Nested
    <3> QED BY <2>3, <3>2, <3>3 DEF Subs
  <2>4. C \in SUBSET (1 .. Len(machines))
    BY <1>2
  <2>5. Cardinality(Lower(machines, m)) = High(machines)[m]
    <3> HIDE DEF C
    <3> QED BY <1>2, <2>1, <2>2, <2>3, <2>4, HighExactly
  <2> QED BY <1>5, <1>6, <2>5
<1> QED BY <1>7, <1>8

(* A sequence of members of another set.                                   *)
LEMMA SeqIn ==
  ASSUME NEW S, NEW q \in Seq(S), NEW T, \A i \in DOMAIN q : q[i] \in T
  PROVE  q \in Seq(T)
<1>1. Len(q) \in Nat /\ DOMAIN q = 1 .. Len(q) /\ q \in [1 .. Len(q) -> S]
  BY LenProperties
<1>2. q \in [1 .. Len(q) -> T]
  BY <1>1
<1>3. [i \in 1 .. Len(q) |-> q[i]] = q
  BY <1>1
<1>4. [i \in 1 .. Len(q) |-> q[i]] \in Seq(T)
  BY <1>1, <1>2
<1> QED BY <1>3, <1>4

(* The records are typed, and the numbers in them are machines'.           *)
LEMMA TypedHolds == ASSUME IParser, IDeep PROVE ParserTypeOK
<1>1. Typed /\ Nested /\ RefsThere
  BY DEF IParser
<1>2. /\ Machines = 1 .. Len(machines) /\ Len(machines) \in Nat /\ Machines = DOMAIN machines
      /\ \A m \in Machines : m \in Nat /\ machines[m] \in Records
  BY <1>1, Placed DEF Machines
<1>3. \A m, c \in Machines : machines[c].parent = m => c \in m + 1 .. Len(machines)
  <2> SUFFICES ASSUME NEW m \in Machines, NEW c \in Machines, machines[c].parent = m
               PROVE c \in m + 1 .. Len(machines)
    OBVIOUS
  <2>1. m \in 0 .. c - 1
    BY <1>1 DEF Nested
  <2> QED BY <1>2, <2>1
<1>4. ASSUME NEW m \in Machines
      PROVE  /\ machines[m].parent \in 0 .. m - 1
             /\ machines[m].ids \in [Names -> Id]
             /\ machines[m].events \in Seq(Names) /\ machines[m].states \in Seq(Names)
             /\ machines[m].subs \in Seq(m + 1 .. Len(machines))
             /\ machines[m].depth \in 0 .. Len(machines)
             /\ machines[m].sharers \in [Names -> Seq(m + 1 .. Len(machines))]
             /\ machines[m].returns \in [Names -> Seq((0 .. Len(machines)) \X Names)]
             /\ machines[m].stage \in Stages
  <2>1. machines[m].parent \in 0 .. m - 1
    BY <1>1 DEF Nested
  <2>2. /\ machines[m].ids \in [Names -> Id] /\ machines[m].stage \in Stages
        /\ machines[m].events \in Seq(Names) /\ machines[m].states \in Seq(Names)
        /\ machines[m].subs \in Seq(Nat) /\ machines[m].sharers \in [Names -> Seq(Nat)]
        /\ machines[m].returns \in [Names -> Seq(Refs)]
    BY <1>2 DEF Records
  <2>3. machines[m].subs \in Seq(m + 1 .. Len(machines))
    <3>1. \A i \in DOMAIN machines[m].subs : machines[m].subs[i] \in m + 1 .. Len(machines)
      <4> SUFFICES ASSUME NEW i \in DOMAIN machines[m].subs
                   PROVE machines[m].subs[i] \in m + 1 .. Len(machines)
        OBVIOUS
      <4>1. machines[m].subs[i] \in ToSet(machines[m].subs)
        BY DEF ToSet
      <4>2. machines[m].subs[i] \in Machines /\ machines[machines[m].subs[i]].parent = m
        BY <1>1, <4>1, SubsKnown
      <4> QED BY <1>3, <4>2
    <3>2. PICK q, T : q = machines[m].subs /\ T = m + 1 .. Len(machines)
      OBVIOUS
    <3>3. q \in Seq(Nat) /\ \A i \in DOMAIN q : q[i] \in T
      BY <2>2, <3>1, <3>2
    <3> QED BY <3>2, <3>3, SeqIn
  <2>4. machines[m].depth \in 0 .. Len(machines)
    <3>1. machines[m].depth = Cardinality(Lower(machines, m))
      BY DEF IDeep
    <3>2. Cardinality(Lower(machines, m)) \in Nat /\ Cardinality(Lower(machines, m)) <= Len(machines)
      BY <1>1, RootedHere, LowerFinite
    <3> QED BY <1>2, <3>1, <3>2
  <2>5. machines[m].sharers \in [Names -> Seq(m + 1 .. Len(machines))]
    <3>1. ASSUME NEW x \in Names PROVE machines[m].sharers[x] \in Seq(m + 1 .. Len(machines))
      <4>1. PICK q : q = machines[m].sharers[x]
        OBVIOUS
      <4>2. q \in Seq(Nat)
        BY <2>2, <4>1
      <4>3. \A i \in DOMAIN q : q[i] \in Machines /\ machines[q[i]].parent = m
        BY <4>1 DEF IParser, Sharing
      <4>4. PICK T : T = m + 1 .. Len(machines)
        OBVIOUS
      <4>5. \A i \in DOMAIN q : q[i] \in T
        BY <1>3, <4>3, <4>4
      <4> QED BY <4>1, <4>2, <4>4, <4>5, SeqIn
    <3> QED BY <2>2, <3>1
  <2>6. machines[m].returns \in [Names -> Seq((0 .. Len(machines)) \X Names)]
    <3>1. ASSUME NEW x \in Names PROVE machines[m].returns[x] \in Seq((0 .. Len(machines)) \X Names)
      <4>1. PICK q : q = machines[m].returns[x]
        OBVIOUS
      <4>2. q \in Seq(Refs)
        BY <2>2, <4>1
      <4>3. \A i \in DOMAIN q : q[i] \in Refs /\ q[i][1] <= Len(machines)
        BY <1>1, <4>1, <4>2 DEF RefsThere
      <4>4. \A i \in DOMAIN q : q[i] \in (0 .. Len(machines)) \X Names
        BY <1>2, <4>3 DEF Refs
      <4> QED BY <4>1, <4>2, <4>4
    <3> QED BY <2>2, <3>1
  <2> QED BY <2>1, <2>2, <2>3, <2>4, <2>5, <2>6
<1> QED BY <1>1, <1>2, <1>4 DEF ParserTypeOK, Typed

(* The lists of actions, transition functions and targets the generators    *)
(* iterate (action_decl_list, transition_matrix_list) hold what the matrix  *)
(* entries name, once each, in every machine and at every statement.        *)
THEOREM AlwaysTablesAgree == ParserSpec => []TablesAgree
<1>1. IParser => TablesAgree
  BY TablesAgreeHolds
<1> QED BY <1>1, InvariantParser, PTL

(* Every state, action and event a machine lists is entered in its list of  *)
(* identifiers as that and as its own (add_id, lookup_id), unless a         *)
(* sub-machine has taken the name; an event of the parent whose name was    *)
(* known (parser.y:1525, fsm_utils.c:171) is its own, but stays what it was.*)
THEOREM AlwaysOwnersRight == ParserSpec => []OwnersRight
<1>1. IParser => OwnersRight
  BY OwnersRightHolds
<1> QED BY <1>1, InvariantParser, PTL

(* The records of the parser are what the statements say: typed, pointing   *)
(* at machines that exist, tables and owners in agreement, and the depth of *)
(* sub-machines never less than the height it stands for.                   *)
THEOREM AlwaysRecordsRight == ParserSpec => []RecordsRight
<1>1. IParser /\ IDeep => RecordsRight
  BY TypedHolds, TablesAgreeHolds, OwnersRightHolds, DepthReportedHolds DEF RecordsRight
<1> QED BY <1>1, InvariantParser, InvariantDeep, PTL

=============================================================================
