----------------------------- MODULE Documents -----------------------------
(***************************************************************************)
(* What the writers of documents (html, reStructuredText, PlantUML and     *)
(* statistics) tell about a machine: the first two take it from the lists  *)
(* and counters made with the array, the diagram from the array itself.    *)
(***************************************************************************)
EXTENDS ActionArray

CONSTANTS EntryFns, ExitFns  \* the states with entry and exit functions

ASSUME DocumentAssumption ==
  /\ EntryFns \subseteq States /\ ExitFns \subseteq States
  /\ \A input \in Inputs : \A d \in ToSet(input) : d.action # NoAction \/ d.to # {}
  /\ "not defined" \notin Actions \union {NoAction}

(* The cell of the state chart in html and rst, found with the positions   *)
(* of event and state in their lists: what it says of action and           *)
(* transition.  (The first takes a cell without a name for an empty one.)  *)
ChartCellByName(i, j) ==
  LET d == array[EventList[i]][StateList[j]]
  IN  IF d = 0 \/ decls[d].action = NoAction THEN [action |-> "not defined", to |-> {}]
      ELSE [action |-> decls[d].action, to |-> decls[d].to]

ChartCell(i, j) ==
  LET d == array[EventList[i]][StateList[j]]
  IN  IF d = 0 THEN [action |-> "not defined", to |-> {}]
      ELSE [action |-> decls[d].action, to |-> decls[d].to]

(* The same cell in reStructuredText has no words for an empty one. *)
RstCell(i, j) ==
  LET d == array[EventList[i]][StateList[j]]
  IN  IF d = 0 THEN [action |-> NoAction, to |-> {}]
      ELSE [action |-> decls[d].action, to |-> decls[d].to]

(* The rows of the tables of states and of events in html, ... *)
StateRow(j) ==
  LET s == StateList[j]
  IN  [events  |-> handled[s],    actions  |-> actionsOf[s],
       from    |-> inbound[s],    to       |-> outbound[s],
       lazy    |-> handled[s] = {},
       noEntry |-> inbound[s] = {} /\ j # 1,
       deadEnd |-> outbound[s] = {}]

EventRow(i) ==
  LET e == EventList[i]
  IN  [states |-> handling[e], actions |-> actionsBy[e], unhandled |-> handling[e] = {}]

(* ... their sections in reStructuredText, which wonder how the first      *)
(* state is entered and say in how many states an event is handled         *)
(* identically, ...                                                        *)
RstStateRow(j) ==
  LET s == StateList[j]
  IN  [events  |-> handled[s],    actions  |-> actionsOf[s],
       from    |-> inbound[s],    to       |-> outbound[s],
       lazy    |-> handled[s] = {},
       noEntry |-> inbound[s] = {},
       deadEnd |-> outbound[s] = {}]

RstEventRow(i) ==
  LET e == EventList[i]
  IN  [states |-> handling[e], actions |-> actionsBy[e], unhandled |-> handling[e] = {},
       identically |-> IF e \in alike THEN Len(StateList) ELSE covered[e]]

(* ... and their lines in the statistics, with the averages of use. *)
StateLine(j) ==
  LET s == StateList[j]
  IN  [handled |-> Cardinality(handled[s]), use |-> EventDensity(s),
       in |-> inbound[s], out |-> outbound[s], actions |-> actionsOf[s]]

EventLine(i) ==
  LET e == EventList[i]
  IN  [single |-> e \in alike, states |-> Cardinality(handling[e]),
       use |-> StateDensity(e), actions |-> actionsBy[e]]

(* The machine's statistics in the three of them.  That of entry functions *)
(* in reStructuredText is the number of states with exit functions.        *)
HtmlStatistics ==
  [events |-> Len(EventList), unhandled |-> counts.zeroHandlers,
   inOneState |-> counts.oneHandler, single |-> alike # {},
   states |-> Len(StateList), entry |-> Cardinality(EntryFns), exit |-> Cardinality(ExitFns),
   lazy |-> counts.zeroEvents, oneEvent |-> counts.oneEvent,
   noWayIn |-> counts.noWayIn, noWayOut |-> counts.noWayOut]

RstStatistics ==
  [events |-> Len(EventList), unhandled |-> counts.zeroHandlers,
   inOneState |-> counts.oneHandler, single |-> alike # {},
   states |-> Len(StateList), entry |-> Cardinality(ExitFns), exit |-> Cardinality(ExitFns),
   lazy |-> counts.zeroEvents, oneEvent |-> counts.oneEvent,
   noWayIn |-> counts.noWayIn, noWayOut |-> counts.noWayOut]

Statistics ==
  [events |-> Len(EventList), unhandled |-> counts.zeroHandlers,
   inOneState |-> counts.oneHandler, single |-> alike # {},
   states |-> Len(StateList), entry |-> Cardinality(EntryFns), exit |-> Cardinality(ExitFns),
   lazy |-> counts.zeroEvents, oneEvent |-> counts.oneEvent,
   noWayIn |-> counts.noWayIn, noWayOut |-> counts.noWayOut]

(* The declarations whose matrices are in the row of an action.  (The      *)
(* first lists only the last one.)                                         *)
ActionRowLast(a) == {d \in {Max(Decls)} : decls[d].action = a}
ActionRow(a)     == {d \in Decls : decls[d].action = a}

(* The arrows of the diagram.  A function is a choice with an arrow to all *)
(* it may return; events without a transition loop back.                   *)
ArrowsOf(j) ==
  UNION {LET d == array[EventList[i]][StateList[j]]
         IN  IF d = 0 THEN {} ELSE {<<EventList[i], t>> : t \in decls[d].to} :
           i \in DOMAIN EventList}
LoopBacks(j) ==
  {EventList[i] : i \in {k \in DOMAIN EventList :
     LET d == array[EventList[k]][StateList[j]] IN d # 0 /\ decls[d].to = {}}}

-----------------------------------------------------------------------------
Written == ~Filling /\ counts # NoCounts

(* The documents agree: a state's row lists the transitions the diagram    *)
(* draws, from and to other states, and the events of its row are those    *)
(* the diagram draws, as arrows or loops.                                  *)
DiagramAgrees == Written =>
  \A j \in DOMAIN StateList :
    LET s == StateList[j] IN
    /\ StateRow(j).to = {a[2] : a \in ArrowsOf(j)} \ {s}
    /\ StateRow(j).from =
         {StateList[k] : k \in {n \in DOMAIN StateList \ {j} :
                                  \E a \in ArrowsOf(n) : a[2] = s}}
    /\ StateRow(j).events = {a[1] : a \in ArrowsOf(j)} \union LoopBacks(j)

(* If an event is said to be handled identically in some states, these are *)
(* all states that handle it, and it is handled by one declaration there.  *)
IdenticallyHandled ==
  \A i \in DOMAIN EventList :
    RstEventRow(i).identically > 0 =>
      /\ Cardinality(RstEventRow(i).states) = RstEventRow(i).identically
      /\ \A s, t \in RstEventRow(i).states : array[EventList[i]][s] = array[EventList[i]][t]

(* The matrices in an action's row are exactly the cells of the chart with *)
(* that action, unless a cell was refused.                                 *)
ActionsAgree ==
  ~error =>
    \A a \in Actions :
      UNION {Matrix(d) : d \in ActionRow(a)} =
        {<<EventList[c[1]], StateList[c[2]]>> : c \in
           {p \in (DOMAIN EventList) \X (DOMAIN StateList) : ChartCell(p[1], p[2]).action = a}}

(* Chart, rows and lines of all documents tell of the same cells. *)
ChartAgrees == Written =>
  /\ \A i \in DOMAIN EventList, j \in DOMAIN StateList :
       LET shown == ChartCell(i, j).action # "not defined" IN
       /\ shown <=> RstCell(i, j) # [action |-> NoAction, to |-> {}]
       /\ EventList[i] \in StateRow(j).events <=> shown
       /\ StateList[j] \in EventRow(i).states <=> shown
       /\ EventLine(i).single => shown /\ ChartCell(i, j) = ChartCell(i, 1)
       /\ shown /\ ChartCell(i, j).action # NoAction =>
            ChartCell(i, j).action \in StateRow(j).actions \intersect EventRow(i).actions
  /\ IdenticallyHandled /\ ActionsAgree

(* The statistics of every document count the rows it marks: states that   *)
(* handle no events or one, have no entry or no way out, and events        *)
(* handled nowhere or in one state; some event is marked as handled alike  *)
(* exactly if the statistics say so; and the averages are 100 exactly if   *)
(* every state handles every event.                                        *)
CountersAgree == Written =>
  /\ counts \in [DOMAIN NoCounts -> Nat]
  /\ \A T \in {HtmlStatistics, RstStatistics, Statistics} :
       LET Marked(Row(_), P(_)) == Cardinality({j \in DOMAIN StateList : P(Row(j))}) IN
       /\ T.lazy = Marked(StateRow, LAMBDA r : r.lazy)
       /\ T.oneEvent = Marked(StateLine, LAMBDA r : r.handled = 1)
       /\ T.noWayIn = Marked(StateRow, LAMBDA r : r.noEntry)
       /\ T.noWayIn \in {Marked(RstStateRow, LAMBDA r : r.noEntry) - n : n \in {0, 1}}
       /\ T.noWayOut = Marked(RstStateRow, LAMBDA r : r.deadEnd)
       /\ T.unhandled = Cardinality({i \in DOMAIN EventList : RstEventRow(i).unhandled})
       /\ T.inOneState = Cardinality({i \in DOMAIN EventList : EventLine(i).states = 1})
       /\ T.single <=> \E i \in DOMAIN EventList : EventLine(i).single
       /\ T.exit = Cardinality(ExitFns)
       /\ \A average \in {counts.average, counts.eventAverage} :
            average = 100 <=> \A j \in DOMAIN StateList : StateRow(j).events = Events

=============================================================================
