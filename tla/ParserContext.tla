--------------------------- MODULE ParserContext ---------------------------
(***************************************************************************)
(* The parser's actions (parser.y): a description is read statement by     *)
(* statement into the records of its machines.  Machines nest, and each    *)
(* has its own list of identifiers; a namespace ("parent::", "machine::")  *)
(* makes the lexer look in another machine's list for one identifier.      *)
(* An error is reported and parsing goes on, except after a syntax error.  *)
(*                                                                         *)
(* A description is a sequence of statements; one the grammar has no rule  *)
(* for at its place ends the parse.  Types matter: what the lexer returns  *)
(* for a name depends on what the name was declared as in the list that is *)
(* searched.                                                               *)
(***************************************************************************)
EXTENDS SequencesExt

CONSTANTS
  Names,                  \* identifiers, these two among them:
  noEvent, noTransition,
  None,                   \* no name: of an action, a transition, a translator
  Inputs                  \* the descriptions considered

Qualifiers == {"transition", "events", "states", "void", "prologue", "epilogue"}
Statements ==
  [kind : {"machine"}, name : Names, quals : Seq(SUBSET Qualifiers), data : BOOLEAN]
    \union [kind : {"state"}, name : Names, inhibits : BOOLEAN]
    \union [kind : {"event", "parentEvent"}, name : Names, translator : Names \union {None}, block : BOOLEAN]
    \union [kind : {"parent", "endReturns", "end"}]
    \union [kind : {"sub", "returns", "returned"}, name : Names]
    \union [kind : {"action"}, name : Names, events : Seq(Names), states : Seq(Names), to : Names \union {None}]
    \union [kind : {"transition"}, name : {None}, events : Seq(Names), states : Seq(Names), to : Names]

ASSUME ParserAssumption ==
  /\ {noEvent, noTransition} \subseteq Names /\ None \notin Names
  /\ noEvent # noTransition
  /\ Inputs \subseteq Seq(Statements)

VARIABLES
  text, at,   \* the description, and the statement that is next
  machines,   \* the machines begun, in order
  current,    \* pmachineInfo: the machine being described, 0 outside
  scope,      \* id_list: the machine whose identifiers are searched
  pending,    \* a "returns" declaration being read: of what, its list and its kind
  errors      \* what yyerror was called for

vars == <<text, at, machines, current, scope, pending, errors>>

Types == {"none", "ID", "STATE", "EVENT", "ACTION", "TRANSITION_FN", "MACHINE"}
Id    == [type : Types, owner : Nat]
Stages == {"decls", "subs", "does", "ended"}

Stmt == text[at]
Reading == at <= Len(text)
Cur  == machines[current]

(* lookup_id, as the lexer uses it: a name not in the list is added as ID *)
TypeOf(m, x) ==
  IF machines[m].ids[x].type = "none" THEN "ID" ELSE machines[m].ids[x].type

(* add_id leaves what it finds as it is *)
AddId(ids, x, type) ==
  IF ids[x].type = "none" THEN [ids EXCEPT ![x].type = type] ELSE ids

SetType(ids, x, type) == [ids EXCEPT ![x].type = type]
Own(ids, x, m) == [ids EXCEPT ![x].owner = m]

(* add_unique_to_list, move_list_unique *)
AddUnique(q, x)  == IF Contains(q, x) THEN q ELSE Append(q, x)
MoveUnique(q, r) ==
  LET moved[n \in 0 .. Len(r)] == IF n = 0 THEN q ELSE AddUnique(moved[n - 1], r[n])
  IN  moved[Len(r)]

(* "yyerror(e) if P" *)
If(P, e) == IF P THEN {e} ELSE {}

Advance(reported) ==
  /\ at' = at + 1
  /\ errors' = errors \union reported
  /\ UNCHANGED text

ParserTypeOK ==
  /\ text \in Inputs /\ at \in 1 .. Len(text) + 1
  /\ current \in 0 .. Len(machines)
  /\ scope \in (IF machines = << >> THEN {0} ELSE DOMAIN machines)
  /\ \A m \in DOMAIN machines :
       /\ machines[m].parent \in 0 .. m - 1
       /\ machines[m].ids \in [Names -> Id]
       /\ machines[m].events \in Seq(Names) /\ machines[m].states \in Seq(Names)
       /\ machines[m].subs \in Seq(m + 1 .. Len(machines))
       /\ machines[m].depth \in 0 .. Len(machines)
       /\ machines[m].sharers \in [Names -> Seq(m + 1 .. Len(machines))]
       /\ machines[m].returns \in [Names -> Seq((0 .. Len(machines)) \X Names)]
       /\ machines[m].stage \in Stages

NoReturns == [of |-> None, refs |-> << >>, type |-> "none"]

ParserInit ==
  /\ text \in Inputs /\ at = 1
  /\ machines = << >> /\ current = 0 /\ scope = 0
  /\ pending = NoReturns /\ errors = {}

-----------------------------------------------------------------------------
(* The grammar: a machine declares states and events, then its sub-        *)
(* machines, then its actions, transitions and what they return; what is   *)
(* begun with a namespace ends with a name.                                *)
Namespaced == at > 1 /\ text[at - 1].kind \in {"parent", "sub"}
Begins     == pending.of = None /\ ~Namespaced
Declared   == current # 0 /\ (Cur.stage = "decls" => Cur.states # << >> \/ Cur.events # << >>)

Fits ==
  CASE Stmt.kind = "machine" -> Begins /\ (current = 0 \/ (Declared /\ Cur.stage # "does"))
    [] Stmt.kind \in {"state", "event"} -> Begins /\ current # 0 /\ Cur.stage = "decls"
    [] Stmt.kind = "parent" ->
         current # 0 /\ ~Namespaced /\ (Cur.stage = "decls" \/ pending.of # None)
    [] Stmt.kind = "parentEvent" -> Namespaced /\ pending.of = None
    [] Stmt.kind \in {"action", "transition", "returns"} -> Begins /\ Declared
    [] Stmt.kind = "sub" -> ~Namespaced /\ pending.of # None
    [] Stmt.kind = "returned" -> pending.of # None
    [] Stmt.kind = "endReturns" -> ~Namespaced /\ pending.refs # << >>
    [] Stmt.kind = "end" -> Begins /\ current # 0 /\ Cur.stage # "decls"

Is(kind, ok) == Reading /\ Stmt.kind = kind /\ Fits /\ ok

(* The qualifiers of a machine.  Each is a return spec, "transition", or a *)
(* group of native blocks for the implementation.                          *)
Qualifier(acc, q) ==
  CASE q = {"transition"} ->
         [acc EXCEPT !.onTransition = TRUE,
                     !.errors = @ \union If(acc.onTransition, "two machine transitions")]
    [] q \in {{"events"}, {"states"}, {"void"}} ->
         [acc EXCEPT !.spec = q, !.noEvent = @ \/ q = {"events"},
                     !.errors = @ \union If(acc.spec \notin {{}, {"events"}}, "two specs")]
    [] OTHER ->
         [acc EXCEPT !.native = q,
                     !.errors = @ \union If(acc.native # {}, "two natives")]

Qualified(quals) ==
  LET none == [onTransition |-> FALSE, spec |-> {}, noEvent |-> FALSE, native |-> {},
               errors |-> {}]
  IN  FoldLeft(Qualifier, none, quals)

(* The last spec decides; noEvent is known without one, too. *)
NewIds(name, m, q) ==
  LET named  == SetType([x \in Names |-> [type |-> "none", owner |-> 0]], name, "ID")
      events == IF q.noEvent \/ q.spec \in {{}, {"events"}}
                THEN Own(AddId(named, noEvent, "EVENT"), noEvent, m) ELSE named
  IN  Own(AddId(events, noTransition, "STATE"), noTransition, m)

NoLists == [x \in Names |-> << >>]

(* machine_prefix, name and qualifiers: the new machine is the context.    *)
BeginMachine ==
  LET m == Len(machines) + 1
      q == Qualified(Stmt.quals)
      up == IF current = 0 THEN machines ELSE [machines EXCEPT ![current].stage = "subs"]
  IN  /\ Is("machine", TRUE)
      /\ machines' = Append(up,
           [parent |-> current, name |-> Stmt.name, data |-> Stmt.data, stage |-> "decls",
            ids |-> NewIds(Stmt.name, m, q),
            events |-> << >>, states |-> << >>, shared |-> {}, blocks |-> {},
            sharers |-> NoLists, subs |-> << >>, depth |-> 0, inhibits |-> {},
            infos |-> << >>, actions |-> << >>, fns |-> << >>, targets |-> << >>,
            returns |-> NoLists])
      /\ current' = m /\ scope' = m
      /\ Advance(q.errors)
      /\ UNCHANGED pending

-----------------------------------------------------------------------------
DeclareState ==
  /\ Is("state", TypeOf(scope, Stmt.name) = "ID")
  /\ machines' = [machines EXCEPT
       ![current].states = Append(@, Stmt.name),
       ![current].inhibits = IF Stmt.inhibits THEN @ \union {Stmt.name} ELSE @,
       ![scope].ids = Own(SetType(@, Stmt.name, "STATE"), Stmt.name, current)]
  /\ Advance({})
  /\ UNCHANGED <<current, scope, pending>>

(* A translator's name is entered in the list that is searched at the time. *)
Translated(ids) == IF Stmt.translator = None THEN ids ELSE AddId(ids, Stmt.translator, "ID")

(* user_event_data: a translator in a sub-machine needs data to translate  *)
(* from, unless it comes with a block.                                     *)
DataErrors ==
  If(/\ Stmt.translator # None /\ ~Stmt.block
     /\ Cur.parent # 0 /\ ~machines[Cur.parent].data, "no data to translate")

(* the events whose data has members, as the last declaration says *)
Blocks(set) == IF Stmt.block THEN set \union {Stmt.name} ELSE set \ {Stmt.name}

DeclareEvent ==
  /\ Is("event", TypeOf(scope, Stmt.name) = "ID")
  /\ machines' = [machines EXCEPT
       ![current].events = Append(@, Stmt.name),
       ![current].blocks = Blocks(@),
       ![scope].ids = Own(SetType(Translated(@), Stmt.name, "EVENT"), Stmt.name, current)]
  /\ Advance(DataErrors)
  /\ UNCHANGED <<current, scope, pending>>

(* "parent::" before the next name *)
ParentNamespace ==
  /\ Is("parent", Cur.parent # 0)
  /\ scope' = Cur.parent
  /\ Advance({})
  /\ UNCHANGED <<machines, current, pending>>

(* In the top-level machine there is no list to search: the message is the *)
(* last thing the program does.                                            *)
ParentOfTop ==
  /\ Is("parent", Cur.parent = 0)
  /\ at' = Len(text) + 1
  /\ errors' = errors \union {"parent of top", "crash"}
  /\ UNCHANGED <<text, machines, current, scope, pending>>

(* the namespace of a sub-machine in any machine *)
SubNamespaceAnywhere ==
  /\ Is("sub", TypeOf(scope, Stmt.name) = "MACHINE")
  /\ scope' = machines[scope].ids[Stmt.name].owner
  /\ Advance({})
  /\ UNCHANGED <<machines, current, pending>>

(* "machine::" is for the top-level machine only; the error changes nothing *)
SubNamespace ==
  /\ Is("sub", TypeOf(scope, Stmt.name) = "MACHINE")
  /\ scope' = machines[scope].ids[Stmt.name].owner
  /\ Advance(If(Cur.parent # 0, "machine namespace in sub-machine"))
  /\ UNCHANGED <<machines, current, pending>>

(* The parent learns of the first event of a declaration list only. *)
ReferParentEventFirst ==
  /\ Is("parentEvent", TypeOf(scope, Stmt.name) = "EVENT")
  /\ machines' = [machines EXCEPT
       ![current].events = Append(@, Stmt.name),
       ![current].shared = @ \union {Stmt.name},
       ![current].blocks = Blocks(@),
       ![current].ids = Own(AddId(@, Stmt.name, "EVENT"), Stmt.name, current),
       ![scope].ids = Translated(@),
       ![scope].sharers[Stmt.name] = IF Cur.events = << >> THEN Append(@, current) ELSE @]
  /\ scope' = current
  /\ Advance(DataErrors)
  /\ UNCHANGED <<current, pending>>

(* The event becomes one of the machine's own that is shared with its      *)
(* parent, and the parent's event learns who shares it.  A name the        *)
(* machine has already is entered again and stays what it is: the answer   *)
(* of add_unique_id is "no" for no name.                                   *)
ReferParentEvent ==
  /\ Is("parentEvent", TypeOf(scope, Stmt.name) = "EVENT")
  /\ machines' = [machines EXCEPT
       ![current].events = Append(@, Stmt.name),
       ![current].shared = @ \union {Stmt.name},
       ![current].blocks = Blocks(@),
       ![current].ids = Own(AddId(@, Stmt.name, "EVENT"), Stmt.name, current),
       ![scope].ids = Translated(@),
       ![scope].sharers[Stmt.name] = Append(@, current)]
  /\ scope' = current
  /\ Advance(DataErrors)
  /\ UNCHANGED <<current, pending>>

-----------------------------------------------------------------------------
IsA(x, types) == TypeOf(scope, x) \in types

Matrix ==
  /\ \A i \in DOMAIN Stmt.events : IsA(Stmt.events[i], {"EVENT"})
  /\ \A i \in DOMAIN Stmt.states : IsA(Stmt.states[i], {"STATE"})
  /\ Stmt.to # None => Stmt.to # Stmt.name /\ IsA(Stmt.to, {"STATE", "TRANSITION_FN", "ID"})

(* the check at the continuation of a vector, not at its beginning *)
VectorErrorsLater ==
  If(\E i \in 2 .. Len(Stmt.events) - 1 : Cur.sharers[Stmt.events[i]] # << >>,
     "shared event in vector")

(* Members of a vector that are followed by a comma must not be shared;    *)
(* no member of ALL and not the last one are looked at.                    *)
VectorErrors ==
  If(\E i \in 1 .. Len(Stmt.events) - 1 : Cur.sharers[Stmt.events[i]] # << >>,
     "shared event in vector")

Info == [action |-> Stmt.name, events |-> Stmt.events, states |-> Stmt.states, to |-> Stmt.to]

Fns(fns) == IF Stmt.to # None /\ ~IsA(Stmt.to, {"STATE"}) THEN AddUnique(fns, Stmt.to) ELSE fns
Targets(states) == IF Stmt.to # None /\ IsA(Stmt.to, {"STATE"}) THEN AddUnique(states, Stmt.to)
                   ELSE states

(* the identifiers after an action or a transition to a function *)
TypedTo(ids) ==
  IF Stmt.to # None /\ IsA(Stmt.to, {"ID"}) THEN SetType(ids, Stmt.to, "TRANSITION_FN") ELSE ids

(* the actions without looking whether they are in the list *)
DeclareActionAgain ==
  /\ Is("action", IsA(Stmt.name, {"ID", "ACTION"}) /\ Matrix)
  /\ machines' = [machines EXCEPT
       ![current].infos = Append(@, Info), ![current].actions = Append(@, Stmt.name),
       ![current].stage = "does",
       ![current].fns = Fns(@), ![current].targets = Targets(@),
       ![scope].ids = Own(SetType(TypedTo(@), Stmt.name, "ACTION"), Stmt.name, current)]
  /\ Advance(VectorErrors)
  /\ UNCHANGED <<current, scope, pending>>

DeclareAction ==
  /\ Is("action", IsA(Stmt.name, {"ID", "ACTION"}) /\ Matrix)
  /\ machines' = [machines EXCEPT
       ![current].infos = Append(@, Info), ![current].actions = AddUnique(@, Stmt.name),
       ![current].stage = "does",
       ![current].fns = Fns(@), ![current].targets = Targets(@),
       ![scope].ids = Own(SetType(TypedTo(@), Stmt.name, "ACTION"), Stmt.name, current)]
  /\ Advance(VectorErrors)
  /\ UNCHANGED <<current, scope, pending>>

(* A transition without an action is one of the "null action". *)
DeclareTransition ==
  /\ Is("transition", Matrix)
  /\ machines' = [machines EXCEPT
       ![current].infos = Append(@, Info), ![current].actions = AddUnique(@, None),
       ![current].stage = "does",
       ![current].fns = Fns(@), ![current].targets = Targets(@),
       ![scope].ids = TypedTo(@)]
  /\ Advance(VectorErrors)
  /\ UNCHANGED <<current, scope, pending>>

-----------------------------------------------------------------------------
(* "x returns" begins a list; the members of it follow one by one. *)
BeginReturns ==
  /\ Is("returns", IsA(Stmt.name, {"ACTION", "TRANSITION_FN"}))
  /\ machines' = [machines EXCEPT ![current].stage = "does"]
  /\ pending' = [NoReturns EXCEPT !.of = Stmt.name]
  /\ Advance({})
  /\ UNCHANGED <<current, scope>>

(* An action returns events or states, a transition function states; only *)
(* events are found in other machines.  A list has one kind of members.    *)
MayReturn ==
  LET t == TypeOf(scope, Stmt.name) IN
  /\ t \in {"EVENT", "STATE"}
  /\ t = "STATE" => scope = current
  /\ Cur.ids[pending.of].type = "TRANSITION_FN" => t = "STATE"
  /\ pending.type \in {"none", t}

WithRef ==
  [pending EXCEPT !.refs = Append(@, <<machines[scope].ids[Stmt.name].owner, Stmt.name>>),
                  !.type = TypeOf(scope, Stmt.name)]

(* the list that is searched stays the one of the namespace *)
ReturnedKeepingScope ==
  /\ Is("returned", MayReturn)
  /\ pending' = WithRef
  /\ Advance({})
  /\ UNCHANGED <<machines, current, scope>>

Returned ==
  /\ Is("returned", MayReturn)
  /\ pending' = WithRef
  /\ scope' = current
  /\ Advance({})
  /\ UNCHANGED <<machines, current>>

(* A state that is alone in the list of an action is added as it is, the   *)
(* first time to a list that is not there, which looks like running out of *)
(* memory; then it is added once more if it is not in the list.  All else  *)
(* is merged.                                                              *)
LoneState == Len(pending.refs) = 1 /\ pending.type = "STATE" /\ IsA(pending.of, {"ACTION"})

Merged(returns) ==
  IF LoneState THEN returns \o pending.refs ELSE MoveUnique(returns, pending.refs)

ReturnErrors(x) == If(LoneState /\ Cur.returns[x] = << >>, "out of memory")

EndReturns ==
  /\ Is("endReturns", TRUE)
  /\ machines' = [machines EXCEPT ![current].returns[pending.of] = Merged(@)]
  /\ pending' = NoReturns
  /\ Advance(ReturnErrors(pending.of))
  /\ UNCHANGED <<current, scope>>

-----------------------------------------------------------------------------
(* populate_action_array refuses a cell that is occupied (ActionArray):    *)
(* two places in the lists of declarations, ALL written out, are one cell. *)
EventsOf(m, i) == IF machines[m].infos[i].events = << >> THEN machines[m].events
                  ELSE machines[m].infos[i].events
StatesOf(m, i) == IF machines[m].infos[i].states = << >> THEN machines[m].states
                  ELSE machines[m].infos[i].states

Overlap(m) ==
  LET infos  == DOMAIN machines[m].infos
      Places(i) == (DOMAIN EventsOf(m, i)) \X (DOMAIN StatesOf(m, i))
      Cells(i)  == ToSet(EventsOf(m, i)) \X ToSet(StatesOf(m, i))
  IN  \/ \E i \in infos : Cardinality(Cells(i)) < Cardinality(Places(i))
      \/ \E i, j \in infos : i # j /\ Cells(i) \intersect Cells(j) # {}

(* increase_sub_machine_depth: a list of machines begins in m *)
Ancestors(m) ==
  LET up[n \in 0 .. Len(machines)] == IF n = 0 THEN {} ELSE {n} \union up[machines[n].parent]
  IN  up[m]

(* the same in the machine itself only *)
DeepenedOnce(ms, m) == [ms EXCEPT ![m].depth = @ + 1]

Deepened(ms, m) ==
  [n \in DOMAIN ms |-> IF n \in Ancestors(m) THEN [ms[n] EXCEPT !.depth = @ + 1] ELSE ms[n]]

(* the top-level machine as the context of what follows *)
EndMachineToTop ==
  /\ Is("end", TRUE)
  /\ LET up == Cur.parent
         ms == IF Cur.parent # 0 /\ machines[Cur.parent].subs = << >>
               THEN Deepened(machines, up) ELSE machines
     IN  /\ machines' = IF up = 0 THEN [ms EXCEPT ![current].stage = "ended"]
                        ELSE [ms EXCEPT ![current].stage = "ended",
                                ![up].subs = Append(@, current),
                                ![up].ids = Own(AddId(@, Cur.name, "MACHINE"), Cur.name, current)]
         /\ current' = (IF up = 0 THEN 0 ELSE 1) /\ scope' = IF up = 0 THEN scope ELSE 1
  /\ Advance(If(Cur.parent # 0 /\ Cur.blocks # {}, "event data in sub-machine")
               \union If(Cur.states = << >> \/ Cur.events = << >>, "out of memory")
               \union If(Overlap(current), "action array"))
  /\ UNCHANGED pending

(* The machine is complete, and has no room for actions where it has no    *)
(* states or no events; its parent is the context again, and knows it  *)
(* by name.  An identifier that has the name already only changes owner.   *)
EndMachine ==
  /\ Is("end", TRUE)
  /\ LET up == Cur.parent
         ms == IF Cur.parent # 0 /\ machines[Cur.parent].subs = << >>
               THEN Deepened(machines, up) ELSE machines
     IN  /\ machines' = IF up = 0 THEN [ms EXCEPT ![current].stage = "ended"]
                        ELSE [ms EXCEPT ![current].stage = "ended",
                                ![up].subs = Append(@, current),
                                ![up].ids = Own(AddId(@, Cur.name, "MACHINE"), Cur.name, current)]
         /\ current' = up /\ scope' = IF up = 0 THEN scope ELSE up
  /\ Advance(If(Cur.parent # 0 /\ Cur.blocks # {}, "event data in sub-machine")
               \union If(Cur.states = << >> \/ Cur.events = << >>, "out of memory")
               \union If(Overlap(current), "action array"))
  /\ UNCHANGED pending

(* What the grammar has no rule for ends the parse. *)
Acceptable ==
  Fits /\
  CASE Stmt.kind \in {"state", "event"} -> IsA(Stmt.name, {"ID"})
    [] Stmt.kind = "sub"         -> IsA(Stmt.name, {"MACHINE"})
    [] Stmt.kind = "parentEvent" -> IsA(Stmt.name, {"EVENT"})
    [] Stmt.kind = "returned"    -> MayReturn
    [] Stmt.kind = "returns"     -> IsA(Stmt.name, {"ACTION", "TRANSITION_FN"})
    [] Stmt.kind = "action"      -> IsA(Stmt.name, {"ID", "ACTION"}) /\ Matrix
    [] Stmt.kind = "transition"  -> Matrix
    [] OTHER -> TRUE

SyntaxError ==
  /\ Reading /\ ~Acceptable
  /\ at' = Len(text) + 1
  /\ errors' = errors \union {"syntax"}
  /\ UNCHANGED <<text, machines, current, scope, pending>>

ParserNext ==
  \/ BeginMachine \/ DeclareState \/ DeclareEvent
  \/ ParentNamespace \/ ParentOfTop \/ SubNamespace \/ ReferParentEvent
  \/ DeclareAction \/ DeclareTransition
  \/ BeginReturns \/ Returned \/ EndReturns
  \/ EndMachine \/ SyntaxError

ParserSpec == ParserInit /\ [][ParserNext]_vars

-----------------------------------------------------------------------------
Machines == DOMAIN machines
Sound    == errors = {}

(* An identifier of m that has the name of one of its sub-machines is      *)
(* given to the sub-machine when that is complete, whatever its type.      *)
NamesSub(m, x) == \E i \in DOMAIN machines[m].subs : machines[machines[m].subs[i]].name = x

(* A parent's event lists as its sharers exactly the sub-machines that     *)
(* have referred to it, in the order they are declared, and those have it  *)
(* among their events, more than once if they are listed more than once:   *)
(* pass_shared_event is generated from the one side, the code of the       *)
(* sub-machine from the other.                                             *)
Repeated(q, x) == \E i, j \in DOMAIN q : i # j /\ q[i] = x /\ q[j] = x

SharersMutual == Sound =>
  \A m \in Machines, x \in Names :
    LET sharers == machines[m].sharers[x] IN
    /\ ToSet(sharers) = {c \in Machines : machines[c].parent = m /\ x \in machines[c].shared}
    /\ \A i, j \in DOMAIN sharers : i < j =>
         \/ sharers[i] < sharers[j]
         \/ sharers[i] = sharers[j] /\ Repeated(machines[sharers[i]].events, x)
    /\ \A i \in DOMAIN sharers :
         /\ Contains(machines[m].events, x) \/ x = noEvent
         /\ Contains(machines[sharers[i]].events, x)

(* What an action is declared to return is declared where the generated    *)
(* code can reach it: in its own machine, in the parent, or, for the       *)
(* top-level machine, in one of its sub-machines; or it has the name of a  *)
(* sub-machine of one of these, and is taken for that one's.               *)
Reach(m) ==
  {s \in Machines : s \in {m, machines[m].parent} \/ (machines[m].parent = 0 /\ machines[s].parent = m)}
ReturnsInReach == Sound =>
  \A m \in Machines, a \in Names : \A i \in DOMAIN machines[m].returns[a] :
    LET o == machines[m].returns[a][i][1]
        x == machines[m].returns[a][i][2]
    IN  \E s \in Reach(m) :
          \/ /\ o = s
             /\ x \in {noEvent, noTransition} \union ToSet(machines[s].events \o machines[s].states)
          \/ o \in ToSet(machines[s].subs) /\ machines[o].name = x

(* The lists of actions, transition functions and target states name, each *)
(* once, what the declarations name, merged statement by statement.        *)
TablesAgree ==
  \A m \in Machines :
    LET M  == machines[m]
        to == {M.infos[i].to : i \in DOMAIN M.infos} \ {None}
    IN  /\ IsInjective(M.actions) /\ IsInjective(M.fns) /\ IsInjective(M.targets)
        /\ ToSet(M.actions) = {M.infos[i].action : i \in DOMAIN M.infos}
        /\ ToSet(M.fns) \union ToSet(M.targets) = to
        /\ \A x \in to : M.ids[x].type = IF Contains(M.fns, x) THEN "TRANSITION_FN" ELSE "STATE"

(* Names a machine has declared are its own, whatever namespaces it has    *)
(* looked into, and equal names of different machines do not meet, except  *)
(* that of an event and a sub-machine.  A parent's event that had another  *)
(* meaning in the sub-machine before has not become an event of it.        *)
OwnersRight ==
  \A m \in Machines :
    LET M  == machines[m]
        Of(x, type) == M.ids[x] = [type |-> type, owner |-> m] \/ NamesSub(m, x)
    IN  /\ \A i \in DOMAIN M.events :
             LET x == M.events[i] IN
             \/ Of(x, "EVENT")
             \/ /\ x \in M.shared /\ M.ids[x].owner = m
                /\ M.ids[x].type \in {"ID", "STATE", "ACTION", "TRANSITION_FN"}
        /\ \A i \in DOMAIN M.states : Of(M.states[i], "STATE")
        /\ \A i \in DOMAIN M.actions : M.actions[i] # None => Of(M.actions[i], "ACTION")

(* "events which are shared by sub-machines may not be part of a vector":  *)
(* when the sub-machines have been read, no member of a vector but the     *)
(* last is shared by any of them.                                          *)
SharedLast == Sound =>
  \A m \in Machines : \A i \in DOMAIN machines[m].infos :
    LET q == machines[m].infos[i].events IN
    \A k \in DOMAIN q : machines[m].sharers[q[k]] # << >> => k = Len(q)

(* The "depth of sub-machines" is the height of the tree where only one    *)
(* machine on each level has sub-machines; it is never less.  (Of machines *)
(* that are complete.)                                                     *)
Height ==
  LET h[m \in Machines] ==
        IF machines[m].subs = << >> THEN 0
        ELSE 1 + Max({h[c] : c \in ToSet(machines[m].subs)})
  IN  h

DepthReported ==
  \A m \in Machines \ Ancestors(current) :
    LET below == {n \in Machines : m \in Ancestors(n) /\ machines[n].subs # << >>} IN
    /\ machines[m].depth >= Height[m]
    /\ (\A n, k \in below : n \in Ancestors(k) \/ k \in Ancestors(n)) =>
         machines[m].depth = Height[m]

(* What has been recorded of a machine is what its statements say, after   *)
(* every statement and whatever was reported.                              *)
RecordsRight == ParserTypeOK /\ TablesAgree /\ OwnersRight /\ DepthReported

(* What the machines hold is what is written between their braces, read    *)
(* without any context: the statements of a machine are those whose        *)
(* innermost braces are its own.  So it is after every statement, whatever *)
(* namespaces were looked into and whatever was reported, as long as       *)
(* parsing goes on: pmachineInfo and id_list are set and set back in every *)
(* rule that has to.                                                       *)
Depths(q) ==
  LET Deeper(s) == CASE s.kind = "machine" -> 1 [] s.kind = "end" -> -1 [] OTHER -> 0
  IN  FoldLeft(LAMBDA d, s : Append(d, Last(d) + Deeper(s)), <<0>>, q)

(* the machine, by number, whose statement is next after each part of q *)
Enclosing(q) ==
  LET depth == Depths(q)
      begun == {k \in DOMAIN q : q[k].kind = "machine"}
      Around(n) == {k \in begun : k < n /\ depth[k] = depth[n] - 1}
      In(n) == IF Around(n) = {} THEN 0 ELSE Cardinality({k \in begun : k <= Max(Around(n))})
  IN  FoldLeft(LAMBDA in, n : Append(in, In(n)), << >>, [n \in 1 .. Len(q) + 1 |-> n])

ReadAsWritten == errors \intersect {"syntax", "crash"} = {} =>
  LET read == SubSeq(text, 1, at - 1)
      in   == Enclosing(read)
      Of(m, kinds) == {k \in DOMAIN read : read[k].kind \in kinds /\ in[k] = m}
      Written(m, kinds) == LET k == SetToSortSeq(Of(m, kinds), <) IN [i \in DOMAIN k |-> read[k[i]]]
      Named(m, kinds)   == LET q == Written(m, kinds) IN [i \in DOMAIN q |-> q[i].name]
      Begun == SetToSortSeq({k \in DOMAIN read : read[k].kind = "machine"}, <)
      (* what the statement k belongs to, a list that has been ended *)
      ReturnsBefore(k) == Max({j \in 1 .. k : read[j].kind = "returns"})
      Ended(k) == \E j \in k .. Len(read) : read[j].kind = "endReturns"
  IN  /\ current = in[at]
      /\ Len(machines) = Len(Begun)
      /\ \A m \in Machines :
           LET M == machines[m]
               matrices == Written(m, {"action", "transition"})
           IN  /\ M.name = read[Begun[m]].name /\ M.parent = in[Begun[m]]
               /\ M.states = Named(m, {"state"})
               /\ M.events = Named(m, {"event", "parentEvent"})
               /\ M.shared = ToSet(Named(m, {"parentEvent"}))
               /\ M.infos = [i \in DOMAIN matrices |->
                     [action |-> matrices[i].name, events |-> matrices[i].events,
                      states |-> matrices[i].states, to |-> matrices[i].to]]
               /\ ToSet(M.subs) = {c \in Machines : in[Begun[c]] = m /\ Of(c, {"end"}) # {}}
               /\ IsInjective(M.subs)
               /\ \A a \in Names : {M.returns[a][i][2] : i \in DOMAIN M.returns[a]} =
                     {read[k].name : k \in {j \in Of(m, {"returned"}) :
                        Ended(j) /\ read[ReturnsBefore(j)].name = a}}

(* "these lines are informational": no description is refused for what an  *)
(* action is declared to return (README.md).  Those of the run with this   *)
(* property break no rule, and there is memory.                            *)
ReturnsInformational == "out of memory" \notin errors
=============================================================================
