# FSMLang in TLA+

FSMLang translates a description of a (hierarchical) finite state machine, a
`.fsm` file, into C: `fsm -tc` writes a two-dimensional action table, `-ts` a
function with a `switch` per state, `-te` a handler per event; other options ask
for html, reStructuredText, PlantUML, statistics or a cross reference of events.
Two kinds of modules stand here.  Those of the *generated programs* are read off
the code of the generators (`src/*.c`), which print the loops, tests and calls
the definitions stand for.  Those of the *translator* model that program itself:
its lists, scanner, parser, the tables it fills, the documents it writes and the
files it opens and closes.  Paths below are relative to the repository's root.

## 1. Inventory

| part | where | state it keeps | operations | what makes it correct |
|---|---|---|---|---|
| generated FSM functions, table | `src/fsm_c.c` | `pfsm->state`, `pfsm->event`, the locals of each call | the FSM function of a machine: loop, action array, call of sub-machines | an event is handled once, by the machine that declares it; the loop ends; the array is indexed in bounds |
| generated FSM functions, switch | `src/fsm_cswitch.c`, `src/fsm_c_switch_common.c` | the same | loop, handler of the single-PAI events, state functions | the same, although one iteration may handle two events |
| generated FSM functions, event table | `src/fsm_c_event_table.c` | the same | loop, handler per event | the same |
| code common to them | `src/fsm_c_common.c` | arrays of sub-machines and of sharers, instances | `run_<machine>`, `findAndRunSubMachine`, `pass_shared_event`, inhibitor, entry and exit managers | calls go down the tree; entry and exit come in pairs; inhibited machines are not run |
| event enumeration | `src/fsm_c_common.c`, `src/fsm_utils.c` | none: one C `enum` for all machines | print events, `noEvent`, `lastEvent`, `numAllEvents` | values are distinct, ranges of machines nest, the finders reach every machine |
| lists | `src/list.c` | head, tail, count; ordinals in the elements | add, add unique, move, copy, iterate, free, find n-th | chain, tail, count and ordinals agree; no element is in two lists |
| parser | `src/parser.y` | `pmachineInfo` and `id_list` (the machine described, the list searched), the pending list of a `returns` declaration | declarations of states, events, actions, transitions, returns, nested machines; namespaces; checks | sharers and sharing machines know each other; names have the owner and type they were declared with; a description is refused exactly for breaking a rule |
| scanner | `src/lexer.l` | start condition, braces, comment buffer, waiting document comment | tokens, native blocks, comments | an identifier gets the comment before it, a block ends with its own brace, across files |
| action array, identifiers | `src/fsm_utils.c`, `src/fsm_priv.h` | the array; lists per state and event; counters | `populate_action_array`, consistency, density, complex events | every cell is what was declared for it, overlaps are refused, lists and counters agree with the array |
| document writers, statistics | `src/fsm_html.c`, `fsm_rst.c`, `fsm_plantuml.c`, `fsm_statistics.c` | none: what they write | charts, tables, arrows, figures | the documents tell of the same cells |
| event cross reference | `src/fsm_c_event_xref.c` | a running number | number the events of all machines | the numbers are those of the enumeration |
| command line, output pipeline | `src/parser.y` (`main`), the `init*`, `write*`, `close*` of every writer | options, `outFileBase`, `good`, the streams of each machine | per file: parse, `initOutput`, `writeMachine`, `closeOutput`; names for `-M` | good inputs have their files, whole; a failed one leaves no top-level file; all files are closed |
| rest | `src/cwalk.*` (vendored), `src/revision.c`, `ancestry.c`, `rindex.c`, `vs*.h` | none | | |

**How they interact.**  `main` opens an input and asks the generator the options
chose to open its output; then the parser pulls tokens from the scanner and fills
a `MACHINE_INFO` per machine, in lists of `list.c`.  The scanner's answer depends
on the parser: it looks a name up in the list the parser has set (`id_list`).  At
the end of each machine its action array is filled; at the end of the top-level
one the parser calls the generator, which writes itself and, through
`createSubMachine` generators, its sub-machines.  Then `main` closes the output,
telling whether all was good, and goes on with the next input; scanner and
`outFileBase` carry over.

The generated C files of one description form one program: the user calls
`run_<machine>(e)`; the FSM function of a machine calls user actions, transition,
entry and exit functions, and the FSM functions of its sub-machines, in two ways:
`findAndRunSubMachine` (for an event numbered in a sub-machine's range) and
`pass_shared_event` (for an event declared as shared).  What an FSM function
returns is the next event of its caller.

**What is hard.**  The generated programs are sequential, but their calls nest:
an action's answer may travel up several loops and down others, a sharing
machine may itself be passing the event on, and each machine's copy of `e`,
`new_e`, `new_s`, `pfsm->event` and `pfsm->state` is of a different age.  The
three generators write this logic three times, with conditions that differ in
the presence of sub-machines, of inhibiting states and of single-PAI events
(events handled alike in every state), and between the top-level machine and
the others.  The event numbers on which these conditions rest come from
enumerators whose values the C compiler counts.

The translator is sequential too.  Hard are its *namespaces* (a name is looked up
in a list that depends on the token before), its *redundant records* (an event's
sharers and a sub-machine's events, an array and the lists beside it, a list's
chain and its count, two sets of writers of which one prints the names of the
files the other makes), and its *failures half way* (a file that cannot be opened
after others were, an error after sub-machines have been written, a comment that
is open at the end of a file).  The regression tests run one
sequence of events per description; `PROJECT.json` lists the hazards, each at
the line where it bites.

## 2. Modules

| module | models | built from |
|---|---|---|
| `Hierarchy` | a description: tree of machines, event numbers, cells; `HierarchyAssumption` says which descriptions there are | |
| `RunToCompletion` | what a hierarchy promises, without calls or loops (abstract) | `Hierarchy` |
| `FsmCalls` | the FSM structures, the calls in progress and the functions all generators share; the properties of the calls; the refinement mapping | `Hierarchy`, `RunToCompletion` (INSTANCE) |
| `TableFsm` | the program of `-tc` when actions return events | `FsmCalls` |
| `SwitchFsm` | the program of `-ts` when actions return events; with `SinglePAI = {}` that of `-te` | `FsmCalls` |
| `FlatFsm` | the programs of all three generators when actions return states or nothing, called by threads when the machine is `reentrant` | |
| `EventEnum` | how the enumeration is printed, what values it gets, and the numbers of the cross reference | `Hierarchy` (INSTANCE: the assumptions it must establish) |
| `ListPromise` | what a list is: a sequence, and its operations (abstract) | |
| `FsmList` | `list.c`: records, elements, pointers, ordinals | `ListPromise` (INSTANCE, refinement) |
| `ActionArray` | `populate_action_array` cell by cell, and the lists and counters it fills | |
| `Documents` | what charts, tables, statistics and diagrams say of a machine | `ActionArray` |
| `ParserContext` | the parser's actions on descriptions, statement by statement | |
| `Lexer` | the scanner's actions on lexemes | |
| `OutputPipeline` | `main`, the parser's outermost rules and the writers on files that may fail | `Lexer` |
| `MCHierarchy`, `MCTableFsm`, `MCSwitchFsm` | the hierarchy of the runs | |
| `MCFlatFsm`, `MCActionArray`, `MCParser`, `MCPipeline` | the inputs of the runs of those modules | |
| `FsmCallsProofs` | lemmas about the stack of calls, and how the shared steps keep the promise of `RunToCompletion`, for every generator | `FsmCalls`, `TLAPS` |
| `TableFsmProofs`, `SwitchFsmProofs` | theorems about the programs of `-tc`, `-ts`, `-te` | `FsmCallsProofs` |
| `GeneratedProofs` | theorems about the event enumeration and the functions without a loop | `EventEnum`, `FlatFsm`, `TLAPS` |
| `FsmListProofs`, `OutputPipelineProofs` | theorems about the modules they are named after | `TLAPS` |
| `ParserProofs` | theorems about the records of the parser | `ParserContext`, `TLAPS` |
| `ActionArrayProofs` | theorems about the action array and the documents | `Documents`, `TLAPS` |

### State and actions against the code

A **frame** of `FsmCalls` is a call of an FSM function in progress; its fields
are the locals of that function (`e`, `new_e`/`retVal`, `new_s`), where it
stands (`pc`), and `pcurrent_sharer` while it is in `pass_shared_event`
(`left`).  Functions a machine calls on its own behalf (state functions, the
transition code, weak actions) are inlined in its frame, as their locals live
and die within it.  `state` and `event` are `pfsm->state` and `pfsm->event`.
`inside` is a history variable: what the user's entry and exit functions were
last told.

A step is the code between two calls.  User functions are data (`Reply`: what an
action may return; `Target`: where the cell's transition, fixed or computed, may
lead) and return at once: README.md:24 forbids them to call the FSM.

| action | code |
|---|---|
| `Run` | `run_<machine>`, `generateRunFunction` |
| `While`, `Leave` (table) | loop head and end of `writeOriginalFSMLoop`, `writeOriginalSubFSMLoop`; body heads in `...LoopInnards` |
| `While`, `Leave`, `Below` (switch) | `writeOriginalSwitchFSMLoopAre`, `...SubFSMLoopAre` |
| `Check` | `checkWhetherEventIsHandledInAllStates`, written by `defineAllStateHandler` |
| `Dispatch` | call of the state function through `statesArray` and its `switch`; `define_event_returning_state_fn` |
| `CallAction` | the call of the cell's action, a user's or one written by `define_weak_action_function` |
| `PassSharedEvent` | one turn of `pass_shared_event`'s loop |
| `FindAndRunSubMachine` | the function of that name, `defineSubMachineFinder` |
| `Move`, `CallExit`, `CallEntry` | transition, comparison with the old state, exit and entry manager, assignment |
| `Return` | the `return` of an FSM function and what the caller does with it |
| `PrintTop`, `PrintSubMachine`, `PrintLastEvent`, `PrintNumAllEvents` | `commonHeaderStart`, `print_sub_machine_events` |
| `Counted` (no action) | the numbers of `fsm_c_event_xref.c`, machine by machine |

In `FlatFsm` there is no loop and no call of another machine, so a call needs no
frame: `call[t]` is where thread `t` stands in the FSM function, with the event
and `s` (or `new_s`).

| action | code |
|---|---|
| `Run`, `StartCall`, `EndCall` | `run_<machine>`; `writeReentrantPrologue` and the assignment of `pfsm->event`; `writeReentrantEpilogue` |
| `CallArray`, `CallNumber`, `CallArrayVoid` | the cell of `-tc`'s action array (`writeActionsReturnStateFSM`, `defineActionArray`; `writeOriginalFSMLoopInnards` where actions return nothing) |
| `CallStateFn` | the state function of `-ts` (`writeActionsReturnStateSwitchFSM`) |
| `CallHandler` | the handler of `-te` (`define_event_table_handler`) called by `writeActionsReturnStateEventTableFSM` |
| `CallForAllStates` | `eventIsNotHandledInAllStates` |
| `CallVoid` | `-ts` and `-te` where actions return nothing |
| `Take`, `Settle`, `CallExit`, `CallEntry` | the test for noTransition; exit and entry functions and the assignment of `pfsm->state` |

**`FsmList`.**  `heap` is the memory: records of lists and elements.  An action is
a call of the function of that name (`AddToList`, `AddUniqueToList`, `MoveList`,
`CopyList`, ...); `Visited` is `iterate_list`, `NthMember` `find_nth_list_member`.
`calloc` may fail; then an element is not added.  Freed memory is used again.

**`ActionArray`, `Documents`.**  The input is a machine's declarations (matrix,
action, transition).  `at` is where the three nested iterations of
`populate_action_array` stand.

| action | code |
|---|---|
| `BeginEvent`, `EndEvent` | `iterate_matrix_states`, before and after its states |
| `AddToActionArray`, `RefuseCell` | `add_to_action_array`, on a free and on an occupied cell |
| `Count` | the counters at the end of the rule `machine` and of `compute_*_average` |

The document writers change nothing, so they are operators: `ChartCell`,
`StateRow`, `EventRow`, `ActionRow` (html; a set, the order of an action's
matrices is layout), `Rst...`, `StateLine`, `EventLine`,
three `...Statistics`, `ArrowsOf` and `LoopBacks` (PlantUML).

**`ParserContext`.**  `text` is a description as a sequence of statements
(`Statements`), in any order: `Fits` is the order the grammar asks for, and what
does not fit is a `SyntaxError`.  A machine's `stage` is how far the grammar is with
it (declarations, sub-machines, actions and returns, ended).
`machines` holds what `MACHINE_INFO` and the identifiers' lists hold, `current`
is `pmachineInfo`, `scope` is `id_list`, `pending` what a `returns` declaration is
of, the list it builds and the kind of token its members are, `errors` what `yyerror` was called for.

| action | code in `src/parser.y` |
|---|---|
| `BeginMachine`, `EndMachine` | `machine_prefix`, `machine_qualifier`, `machine`, with `populate_action_array`'s verdict and `increase_sub_machine_depth` |
| `DeclareState`, `DeclareEvent`, `ReferParentEvent` | `state`, `event_decl_list`, `user_event_data` |
| `ParentNamespace`, `ParentOfTop`, `SubNamespace` | `parent_namespace`, `namespace` |
| `DeclareAction`, `DeclareTransition` | `action_decl_list`, `transition`, `transition_matrix_list`, `matrix`, `event_vector` |
| `BeginReturns`, `Returned`, `EndReturns` | `namespace_event_ref`, `returns_comma_list`, `action_return_decl` |
| `SyntaxError` | no rule fits: bison gives up, `main` calls the parse a failure |

**`Lexer`, `OutputPipeline`.**  `condition`, `braces`, `chars`, `docCmnt` are the
start condition, `brace_cnt`, `charData` and `currDocCmnt`; `InInitial`,
`InComment`, `InDocComment`, `BeforeBlock`, `InBlock` the rules of the five
conditions.  A lexeme that is a word stands for the whole description of a
top-level machine, so `OutputPipeline` knows when one is complete and whether an
error was reported in it (`Faulty`).  `levels` is the chain of generators at work
(a machine, its sub-machine, ...), each with its streams and what is left to
write; `disk` and `handles` are the file system, `printed` what `-M` printed.

| action | code |
|---|---|
| `TakeFile`, `Finish` | the head and the end of `main`'s loop |
| `InitOutput` | `initOutput` of each writer (`initCMachine`, `initHTMLWriter`, ...) and `main`'s answer |
| `Read`, `EndOfFile` | `yyparse` with `yylex`: `Machine`, `NativeBlock`, `SyntaxError` |
| `WritePart`, `BeginSubMachine`, `EndMachine` | `writeMachine`, `write_machine` |
| `CloseOutput` | `closeOutput` (`destroyCMachineData`, ...) and "prepare for next input file" |

Definitions above another one and named after a mistake (`WhileNeverInhibits`,
`PassToAll`, ...) are plausible bugs; each breaks a property in the run that
checks it (`PROJECT.json`, "mutants").

## 3. Runs

| run | question | result |
|---|---|---|
| `table` | types, array bounds, re-entrance, pairing of entry and exit, inhibition, what sub-machines return, for `-tc` | holds |
| `table_promise` | does `-tc` implement `RunToCompletion` (with fairness) and end, without inhibiting states? | holds |
| `table_inhibit` | does it end with them? | **no** (finding) |
| `switch` | promise, end, calls, pairing, for `-ts` with single-PAI events in sub-machines, and for `-te` (machines without them) | holds |
| `flat` | two threads call a reentrant machine, actions return states or nothing, all generators: types, pairing, one call and its own event at work, moves, every call ends | holds |
| `flat_unassigned` | `-te`, an event only some states handle: does it move by its cell? | **no** (finding) |
| `event_enum` | finders that reach, the assumptions of `Hierarchy`, the numbers of the cross reference | holds |
| `list` | integrity of lists; do they implement sequences? | holds |
| `action_array` | cells, complex events, lists, diagram, charts, counters | holds |
| `parser` | sharers, returns, records, vectors, and is what machines hold what is written in them, for descriptions right and wrong | holds |
| `one_state` | is a legal description with an action that returns one state accepted? | **no** (finding) |
| `pipeline` | files, streams, names, crashes; what the scanner gives the parser; does the program end? | holds |

The hierarchy of the runs (`MCHierarchy`) has four machines on three levels,
two of them sharing an event of the top-level machine and one of those sharing
on with its own sub-machine; states that inhibit; machines with and without
entry and exit functions; null cells; actions that answer with noEvent, with an
event of their own machine, of one below and of one above.  It has two states
per machine, one to three events per machine; these are the smallest numbers
with which every branch of the generated code is taken (checked: every action
and disjunct fires).  No counter is bounded: the state spaces are finite because
no action can, through any chain of answers, bring its own event back; this is
also what makes the programs end, and it is an assumption on the user's
description, not on the generated code.

The machine of the `flat` runs has three states and an event of each kind: with
actions (one may decline to move, one transition has two results), with the same
cell in all states, with a cell in one state only, with none.  `flat` runs eight
programs for it (`Programs`), every combination of generator and return type
except those that fail (`flat_unassigned`, section 5): with entry functions, no
single-PAI event in `-ts` where actions return states, and no event handled in some states only in
`-te`.  Two threads are enough for the lock: a third could only wait like the
second.  Deadlock is not checked in `flat`, because the program that calls a
number (`lost`) is at its end; `CallsEnd` would find a lock that is not given back.

`event_enum` enumerates every tree, so it covers every way in which a
`lastEvent` can precede another machine's events: five machines allow a middle
machine with a sub-machine to have an elder and a younger sister, which is where
counting on from `lastEvent` matters.  `LayoutEstablished` is what connects it to
the others: `HierarchyAssumption`'s `TreeShape` and `Layout`, which the
theorems about the generated programs assume, are established by the enumeration
for up to three levels (proved for every description in `GeneratedProofs`).

`list` has two lists and four elements of two values.  Every operation can follow
every other, on either list or from one to the other; four elements are enough to move a
list of two behind a list of two, to add after a move, and to run out of memory in
the middle of a copy.  `MoveList` is guarded by a source that is not empty, as in
all calls of the program (with an empty one the destination would lose its tail).

`action_array` fills a machine of three states and two events from every sequence
of one or two declarations out of 38, and some of three, the third completing an event:
ALL, single names, vectors, a state named twice, plain transitions, functions with
several results and with noTransition.  Two declarations are enough for an
overlap, a third to end a partial event after another declaration came between.
The end of the program is a stutter (`Done`).

`parser` parses every description that is put together from the parts of
`MCParser`: a top-level machine with none, one or two sub-machines, one with a
sub-machine of its own; events of their own and of the parent in either order;
matrices with scalars, vectors and ALL; declarations repeated; returns that look
up, down and sideways; qualifiers; mistakes of each kind the parser reports; and
statements out of order (`mcInputs`).  `ReadAsWritten` reads the text a second time
without a context: it matches the braces and compares, after every statement and
after every error that does not end the parse, what lies between those of a machine
with its records.  Three levels are what it takes to tell a machine's parent from
the top.  The theorems of `ParserProofs` hold of every description.  Deadlock is not checked: a description ends.

`pipeline` runs every writer on two inputs, each with up to two top-level machines
that have two, one and no sub-machines on three levels or an error; with and
without `-o`, with the three kinds of `-M`, with each file of a C machine and of a
sub-machine that cannot be opened, without a style sheet, with inputs that are no
`.fsm` files, and with bad options.  Its scanner reads every text of up to six
lexemes of comments, of native code, and of up to three of all kinds in each of
two files; six lexemes open, fill and close two comments or nest two braces.
`job.length` bounds the lexemes read from a file.  Deadlock is not checked: the
program exits.

**What the violations show.**

* `table_inhibit`: in an inhibiting state the loop `while (e != noEvent)` of
  `-tc` calls `findAndRunSubMachine` only `if (doNotInhibitSubMachines(...))`
  and changes nothing otherwise.  The counterexample is a machine that enters an
  inhibiting state with a sub-machine's event as the action's answer, or is
  handed one while in it: `While` stutters for ever, which is the program
  spinning.  The code of `-ts` and `-te` sets `e` to noEvent in this case.
* `flat_unassigned`: the handler returns `state`, which its `switch` leaves
  unassigned where the event has no cell.  The model lets it be any value.
* `one_state`: for `action returns s1` the rule adds the state to a list that is
  made three lines below, takes the failure for want of memory and calls
  `yyerror`; the description is refused.

**Fairness.**  `FairSpec` adds `WF_vars(Step)`: C code that can take a step takes
it, and user functions return.  Nothing obliges the user to send an event, so
`Run` is not fair.  `Terminates` and the liveness of `RunToCompletion` rest on
it; a loop that does not change the state is a stutter of `Step` and is not
helped by it, which is how the spinning loop is found.  `FlatFsm!FairSpec` is
weakly fair to each thread.  `CallsEnd` is about calls past the prologue, so
the user's lock need not be fair: a thread that never gets it has not begun.
`OutputPipeline!Spec` has `WF_vars(Next)`: fsmlang is one process that runs on;
`Ends` then says that its own loops end, on texts of bounded length.

`KeepsPromise` (refinement): `at` is the innermost frame's machine (`At`),
`pending` its `e`, or `new_e` while it passes a shared event (`Pending`),
`offering[m]` the event and the remaining sharers of the frame of `m` that passes
one (`Offering`).  All other steps are
stutters.  A dropped event counts as a promise kept only if a machine on the way
down was inhibiting, or no machine below declares it.

`FsmList!KeepsPromise` (refinement): `content[l]` is the sequence of members met
along `next` from the head.  Nothing is hidden but the pointers, so every
operation maps to the operation on sequences, a copy that runs out of memory to a
copy of a prefix.

Deadlock is checked in all runs but `flat`, `parser`, `one_state` and `pipeline`,
whose systems end: a program that waits for an event can always
get one, a list can always be made or freed, and `EventEnum` and `ActionArray`
state their end as a stutter.

## 4. Proofs

For every `NM`, tree, numbering, set of states, answers, targets, sharers and
inhibiting states that satisfy `HierarchyAssumption` (and, for `-ts`, every set
of single-PAI events that satisfies `SinglePAIAssumption`):

| theorem | states |
|---|---|
| `TableFsmProofs!TypeCorrect`, `SwitchFsmProofs!TypeCorrect` | `Spec => []TypeOK` |
| `CallsDescendAlways` (both) | calls in progress descend the tree one level at a time, from the top |
| `NeverReentered` (both) | no FSM function is entered while it is running |
| `EntryExitAlwaysPaired` (both) | entry and exit functions come in pairs around each change of state |
| `TableFsmProofs!AlwaysInBounds` | the action array is indexed with the machine's own events |
| `TableFsmProofs!InhibitAlwaysRespected` | a machine in an inhibiting state calls no sub-machine for its event (action property) |
| `TableFsmProofs!AlwaysReturnsOnlyToOthers` | what a sub-machine returns is no event of its own or of a machine below it (action property) |
| `TableFsmProofs!PromiseKept` | `Spec => AbsSafety` under the refinement mapping: each step is one of `RunToCompletion` or a stutter |
| `SwitchFsmProofs!PromiseKept` | the same for `-ts`, for `Orderly` descriptions |
| `SwitchFsmProofs!EventTablePromiseKept` | the same for `-te` (`SinglePAI = {}`), for all |

**Argument.**  `TypeOK` is not inductive: that a cell's new state belongs to the
machine needs `e` to be an event of the machine whenever a frame works on an
action, and that needs the array index to be in bounds, which in turn needs to
know what callers hand down and callees hand back.  The strengthening `IInv`
(`FsmCallsProofs`) conjoins `TypeOK`, `EntryExitPaired` and `StackOK(stack)`:

* each frame is well formed (`FrameOK`): where it is at an action or after it,
  its `e` is the machine's own; the sharers left are sub-machines, with events of
  their own; and `e` and `new_e` are within the machine's *reach* (`Reach`): its
  own events, those below it, those of machines above it, or its noEvent.  In a
  machine without sub-machines that leaves nothing between its last event and the
  next machine's first, which is why its loop needs no upper bound;
* each frame but the first is of a sub-machine of the frame before it, which
  waits for it in `findAndRunSubMachine` or `pass_shared_event`;
* machines grow along the stack, because parents are numbered below children.

`ReturnsRule` puts answers within reach: an action returns an event of its own
machine, of one below or of one above, never of a sister (README.md:426-430).
That the events of machines that are neither above nor below each other lie apart
is not assumed: `Layout` says it of sisters, and `FsmCallsProofs` derives it for
all machines by induction over the tree (a least machine it would fail for,
lemma `Least`).  `FsmCallsProofs` proves what a step may do to the stack (change
the innermost frame, call a sub-machine, return) and, for each shared action,
that it keeps `IInv`; the generators' modules prove it for their own actions, and
the theorems combine the two.  The invariants are then conjuncts or consequences
of `IInv`.

The two *action properties* speak of steps that make the stack longer or shorter.
For each action the lemmas say which it does and under which test
(`GrowsAllowed`: a frame is added by `FindAndRunSubMachine`, which the inhibitor
guards, or at `share`; `ReturnsAbove`: the loop ends only with noEvent, or with an
event outside the range the loop's condition and the finder test).

*The promise.*  What `RunToCompletion` allows a step depends on the cell of the
event and state at hand, while the program has read the cell some steps ago.
`Held` (`FsmCallsProofs`) says that what a call remembers is still what the cell
holds: a call that passes its event is in a state that does; otherwise `new_e` is
an answer of the cell and `new_s` one of its targets.  It is inductive together
with `IInv` because a machine's state changes only in its own innermost call.  The
lemmas about it compute `At`, `Pending` and `Offering` after each of the
three things a step does to the stack; then each action of the code is shown to be
`Handle`, `Offer`, `Ask`, ... of the promise, or a stutter.  This is the safety half
of `KeepsPromise`; it holds of `-tc` also with inhibiting states, whose loop is
wrong only in that it does not end.

For `-ts`, `Orderly` is needed: the code hands what the action of a single-PAI
event returned to the state function, which drops it if it is another single-PAI
event of the machine or, in the top-level machine, an event of a sub-machine
(section 5).  Orderly descriptions have no such action; `Chosen` then says that
what is dispatched has a case.  Without single-PAI events, in `-te`, `Orderly`
holds of every description.

**`GeneratedProofs`**: for any number of machines and events, and trees of up to
three levels (with a fourth the properties fail, section 5):

| theorem | states |
|---|---|
| `AlwaysLayout` | the numbers given out are distinct, and when all is printed `Hierarchy`'s `TreeShape` and `Layout` hold of them |
| `AlwaysFinderReaches` | the finders' tests lead each event to the machine that declares it, and to no other |
| `CrossReferenceAlwaysAgrees` | counting machine by machine gives the same numbers |

The invariant `IEnum` says that the machines are printed in the order they were
declared: after `k` of them, the numbers of `0 .. k-1` follow one another without
a gap but noEvent's (`Numbered`), the path is the top-level machine and at most
one below it, whose sub-machines have been printed since (`AtWork`), and every
other machine's `lastEvent` is the noEvent of the last of its sub-machines
(`AllEnded`).  The recursive functions over machines (`Level`, `Above`, `Counted`)
are dealt with in two steps: a function that satisfies their equation is shown to
exist, so the equation holds of them; and what it implies for every machine holds
because there is no least one it fails for.  `Contiguous` is the fact about trees
the nesting rests on: sub-machines of `c` come right after `c`.

**`ActionArrayProofs`**: for every set of events, states and
actions and every sequence of declarations (`ArrayAssumption`, `DocumentAssumption`):

| theorem | states |
|---|---|
| `AlwaysCellsAsDeclared` | each cell holds a declaration made for it, each declaration all its cells, or the overlap is reported, and exactly then |
| `AlwaysAlikeIffOneCell` | between two events, those marked single-PAI have one declaration in all states |
| `AlwaysListsAgree` | the lists per state, event and action and the transitions are what the array says |
| `DiagramAlwaysAgrees`, `ChartAlwaysAgrees` | the documents of all writers tell of the same cells |
| `AlwaysCountersAgree` | the statistics count the rows the documents mark, and an average is 100 exactly if every state handles every event |

The properties are about the array as a whole, and `populate_action_array` fills it
in three nested iterations; the invariant says, of the cells *before* the place the
iterations are at, that they are filled as declared and that each list and mark
contains exactly what these cells ask for, and of the others that they are empty.
The counters are made from the lists once (`CountersMade`); the documents count the
same sets by positions, in lists whose members are all different.  The averages are
sums of densities, which the library defines by recursion over subsets: that the
recursion has a solution (`SumsDefined`), and what it is where all summands are
percentages (`SumOfPercents`), is proved from a smallest subset for which it would
be otherwise.

For `FlatFsm`, any number of threads and every set of programs
(`FlatAssumption`), and under `Sound`, which excludes two combinations that fail
(`flat_unassigned`, and the third item of section 5), `GeneratedProofs` proves
`TypeCorrect`, `EntryExitAlwaysPaired`, `AlwaysOneAtWork` and the action property
`AlwaysMovesByCell`.  The invariant adds to `FlatTypeOK` and `EntryExitPaired` that
whoever is past the prologue has the lock (`Locked`), that whoever is at the
exit or entry function has a move of the cell in the *present* state (`Bound`),
and that `pfsm->event` is that of the call about to act (`EventReported`).  The
last two hold because nobody else is at work, which is where the lock is needed.

**`OutputPipelineProofs`**: for any machines, described inside one another to any
depth (`TreeAssumption`: a sub-machine's description is part of its machine's, so
the tree is finite and no machine is below itself), any number of inputs, any
options, any files that cannot be opened, and texts of any length:

| theorem | states |
|---|---|
| `AlwaysClosed` | what is written to is open; between two inputs and at the end nothing is, but a page whose style sheet failed |
| `OnlyUnopenedCrashes` | the program breaks down only over a file that could not be opened, of a C generator or of a sub-machine |
| `AlwaysNothingElseLeft` | at the end nothing is on the disk but the files of good inputs, those of the failed one's sub-machines, and that page |
| `AlwaysGoodOutputWhole` | if no two outputs have one name (`NamesDiffer`), at the end every good input has its files and those of all machines below its own, whole |
| `AlwaysPrintsWhatWouldBeMade` | under `-M` no file is made, and what would have been made for good inputs is named |
| `AlwaysScannedAsWritten` | the parser was given what is written: comments reach nobody, a native block goes to the brace that closes it, an identifier has the document comment before it |

Names are assumed to be apart (`NamesApart`): of two levels with one name, closing
the upper one closes the files of the other (section 5).  The invariant has three
ideas.  *Levels are below one another*: the ranks of the sub-machines at work fall
from level to level (`LevelsIn`), so no two of them share a file, and a level's
files are closed by itself only.  *A missing file is found at once*: a level either
has all its streams or has still its first own part to write (`Ready`), where the
null stream ends the program; so what is closed is complete, and no stream of a
C machine is closed twice although the public and the private header of a
sub-machine are one stream (`ClosedFacts`).  *A writer that is not of C starts only
if all its files are open* (`Equipped`), because its initialization reports
failures.  The phases of `main` (`Phases`) say the rest: that a failed input leaves
no level behind, and that a good end of a parse comes after a machine was written,
hence after the missing file would have been noticed.

What is left on the disk takes a second invariant (`KInv`), with two ideas.  *Who owns
a file* (`OnDisk`): every file there is belongs to an input that is over, to a
level at work, or to a sub-machine below a machine the input at work has described;
closing removes what a level owns if it failed, and hands it to its input if not.
*Where a level stands* (`Descent`, `SeenOnly`): its machine is a sub-machine of the
one above it, what is left to do is an end of its parts, and it has seen
sub-machines only if its machine has some, which decides on the header for them.
`Tree` is the least set closed under sub-machines, so that what is below a machine
is reached from level to level without an induction over depth (`Trees`).

The third invariant (`GInv`) is about what is *in* the files, and it has again two
ideas.  *How far a level is* (`Filled`): of the machines its files are about (`About`:
all an input has described, or the one sub-machine), the files hold all, or all but
the last while its own part is still to do (`Done`), or that one's title only
(`Titled`, in reStructuredText); under `-M` their names are printed once there is one.
*What is cared for* (`Cared`): a sub-machine of anything that has been written is made,
at work, or still to do (`LevelMade`), and so is all below it (`TreeMade`), so at the
end, when nothing is at work, all is made.  That a step takes nothing back is one
lemma for all of them: a step writes or removes files of one base only (`Sparing`),
and that base is none of the other levels' and of no input that is over.  The last
part is where `NamesDiffer` is needed, because the files of an input are replaced,
and removed with a failure, by a later one of the same name (section 5); under
`-M` nothing is replaced, so `AlwaysPrintsWhatWouldBeMade` does without it.
`MadeKeeps`, `ClosedMade` and `MadeAtExit` treat the two sets of writers, those that
make files and those that print names, as one (`Made`).

What was scanned has an invariant of its own (`SInv`).  The specification looks at
the text as a whole: it is a chain of units (`Unit`: a comment, native code with its
block, or one lexeme), the first starts at its beginning and each starts where one
has ended (`Starts`), and every lexeme gives the parser what follows from the text
up to it (`TokenAt`, `TokensOf`).  The scanner remembers only its start condition, a
brace count and two buffers.  The invariant says what they stand for: in `INITIAL`
all units have ended and `currDocCmnt` is the comment that waits at the end of the text;
otherwise one unit has not ended, it is of the kind of the start condition, nothing
after its start ends it, and the buffers hold its text so far (`Pending`, `InBraces`).
The lemmas it rests on are about texts: a unit has one end (`EndsOnce`), so nothing
starts inside one (`Chained`, `LastStart`), and what a lexeme gives does not depend on
what comes after it (`TokensContinue`), which makes what was given a history that
only grows.  `pipeline` ran with `SInv` as an invariant before it was proved.

**`FsmListProofs`**: for any finite memory for elements, any number of lists and any
members (`ListAssumption`):

| theorem | states |
|---|---|
| `AlwaysWellFormed` | there is a chain of elements for every list, such that records and elements are as the chains ask for |
| `AlwaysIntegrity` | the walk along `next`, the count, the tail and the ordinals agree; every element in use is in one list |
| `PromiseKept` | `Spec => KeepsPromise`: the refinement of `ListPromise`, all of it (neither side has fairness) |

`Integrity` is stated with what the iterator reaches (`Visited`), and that says
little about the next heap: after a change of one `next`, all walks may differ.  The
inductive invariant (`WellFormed`) therefore names the chains: a sequence of elements
for each list, which records and elements are linked, counted and numbered after
(`Chain`), no two with an element in common (`Apart`), and no element in use outside
all of them (`Owned`).  Each operation is then a change of the sequences: an element
at the end of one, two made one, one made empty; and what the walk reaches in a
well-formed heap is shown once to be the chain.  Without `Owned` and `Apart` the
step of `FreeList` fails: another list might own the element that is freed.

A copy is as many additions as the source has members.  `Copied` is a recursive
function of their number; that it exists, keeps the source as it is and extends the
destination by a prefix of the members is shown for every number up to the length,
by the least one it would fail for (`Induct`).

**`ParserProofs`**: for every description, any names, any number of machines on any
number of levels, right or wrong and in any order (`ParserAssumption` says only
what a statement is, and that noEvent and noTransition are names):

| theorem | states |
|---|---|
| `InvariantParser` | the invariant below |
| `AlwaysSharersMutual` | an event's sharers are exactly the sub-machines that refer to it, in their order and none twice unless it lists the event twice, and both sides have the event |
| `AlwaysReturnsInReach` | what an action is declared to return is known in its machine, the parent or a sub-machine of the top |
| `AlwaysSharedLast` | nothing follows a shared event in a vector |
| `AlwaysTablesAgree` | the lists of actions, functions and targets hold what the matrices name, once each |
| `AlwaysOwnersRight` | what a machine declares is entered as that, and as its own; a parent's event whose name was known is its own and stays what it was |
| `InvariantDeep` | the depth of sub-machines is the number of machines below that have some |
| `AlwaysRecordsRight` | the records are typed, `TablesAgree`, `OwnersRight`, and the depth is as `DepthReported` says |

None of these is inductive, because each depends on the *order* of the statements: a
sub-machine may list an event of its parent because the parent's events come before
its sub-machines, and a vector is checked against all sharers because the
sub-machines come before the actions.  `IParser` therefore says where the parser is.
*Which machines are open* (`Nested`): those around the current one, which is the last
begun of them, all but itself at their sub-machines; the others are complete, and
each machine lists just its complete sub-machines.  *Which list is searched*
(`Focused`): the current machine's, except between a namespace and the name it is
for.  *What is recorded by then* (`Recorded`, for each machine): nothing is done
before the sub-machines are known (`Staged`), names are known as what they were
declared as, or taken by a sub-machine of that name (`Known`, `Listed`), the tables
are those of the matrices (`Tabled`), and vectors end with what is shared
(`Vectors`).  `Sharing`, `Returning` and `RefsThere` are about two machines
at a time.  What an error excuses is claimed while there was none (`Sound`), and no
error is taken back.  Most steps change the record of the current machine only, and
`CurrentKeeps` says once what has to be shown of the new record; the beginning and
the end of a machine and the reference to a parent's event are each on their own.

The depth has an invariant of its own (`IDeep`), because what the code counts is not
what it is used for: `increase_sub_machine_depth` adds one to all machines around when the first
sub-machine of a machine is complete, so it counts the machines below, or the
machine itself, that have sub-machines (`Lower`).  From that follows, by induction
from the last machine to the first, that it is never less than the height of the
tree, and equal to it where only one machine on each level has sub-machines.
`Ancestors` and `Height` are recursive functions over the machines; that they solve
their equations is proved with the existence of a solution for every initial or
final part of the list.

**Only model-checked:** liveness (`Terminates`, `CallsEnd`, `Ends`, and that of
`RunToCompletion`), and that the machines hold what is written (`ReadAsWritten`).
Liveness is out of the prover's reach.  Induction is not, with the least number or
the smallest subset that would be an exception (lemma `Least`, `SumsDefined`).  That
a description is refused only with reason is stated nowhere: section 5 has two that
are not, and one of them is the run `one_state`.

## 5. Not modelled, and where the code does otherwise

Not modelled: event data and its translation in the generated programs; the
compact action array; values a description assigns to events; debug, logging and
profiling code; wording and layout of documents; the legend of diagrams; the text
of the options; `cwalk` (vendored), revision history, `ancestry.c` (names printed
with a separator).  Machines of `FlatFsm` have no sub-machines: the code generated
for them there does not compile.  The parser is not composed with the pipeline: a
description is one word there and a sequence of statements in `ParserContext`.
Memory that runs out is modelled in `FsmList` only; elsewhere the code gives up.

What was seen while modelling and has no run, because the models follow the code
and the runs keep to the inputs for which the properties hold:

*Generated programs.*

* With a single-PAI event in the *top-level* machine, `-ts` hands what its action
  returned to the state function, whose `default` drops an event of a sub-machine
  (`src/fsm_cswitch.c:1289`; a sub-machine tests the range first, line 1329).
* In any machine it drops another single-PAI event of the same machine, which the
  handler of single-PAI events has already passed by (`src/fsm_cswitch.c:1313`; the
  state functions have no case for it, line 1011).
* `lastEvent` is the `noEvent` of the last sub-machine, not that one's `lastEvent`
  (`src/fsm_utils.c:1190`): with a fourth level the finder misses events.
* `eventIsNotHandledInAllStates` assigns what the action returns to `pfsm->state`
  (`src/fsm_cswitch.c:1567`): no exit or entry function, and noTransition is
  stored like a state.
* Without transition functions a null cell of `-tc`'s array holds the enumerator
  noTransition, which the program calls (`src/fsm_c.c:1564`; `CallNumber`).
* `pfsm->event` is stored once an iteration; the second action of one with a
  single-PAI event sees the first event (`src/fsm_c_switch_common.c:433`).

*Tables and documents.*

* The row for entry functions in reStructuredText prints the number of exit
  functions (`src/fsm_rst.c:947`); it also marks a first state that nothing
  leads back to as without a way in.  `CountersAgree` allows for both.
* The "depth of sub-machines" counts the lists of machines below, so two nested
  branches count twice (`src/fsm_utils.c:1424`); `DepthReported` says when it
  is the height.

*Parser.*

* Native blocks for the implementation separated by another qualifier are refused
  as given twice (`src/parser.y:487`).
* A second `event parent::x`, and one of a name the sub-machine has already given
  to an event or a state, are accepted: "Cannot reference parent event twice"
  (`src/parser.y:1525`) is reported when `add_unique_id` returns false, and that
  returns the type of a name it finds (`src/fsm_utils.c:171`).  The event is then
  listed twice and its sub-machine twice among the sharers, or the name stays a
  state that is listed as an event, too; `SharersMutual` and `OwnersRight` say how
  far this goes.  What an event's data then overwrites of a state's (one union) is
  not modelled.
* An event with the name of a sub-machine changes its owner when that is complete
  (`src/parser.y:333`), and its name in what actions return (the last case of
  `ReturnsInReach`, and of `OwnersRight`).
* The last member of a vector, and ALL, are not checked for being shared by a
  sub-machine (`src/parser.y:1162`); `SharedLast` states what is left.  The action
  generated for such a vector looks at its first event only, and that of an action
  declared more than once at its last declaration (`src/fsm_c_common.c:2630`): the
  shared event is not passed on.  In the models of the generated programs every
  shared event is (`Sharers`), so they are about descriptions that avoid this.
* noEvent and noTransition have no place of their own in the action array: named in
  a matrix they take the first event's or state's (`src/fsm_utils.c:368`), which
  `Overlap` does not know.  A machine without states or without events has no array
  ("out of memory", `src/parser.y:291`); what filling it then does is not modelled.
* Under `-M` event data in a sub-machine is not reported (`src/parser.y:268`); the
  parser is modelled without options.
* A sub-machine may refer to its parent's noEvent, which no list of events holds:
  it becomes a sharer of it (`src/parser.y:1512`; the exception in `SharersMutual`).
* The translator of a parent's event is entered in the parent's list of names
  (`src/parser.y:1446`).
* The cross reference decides on external designations with the flag's sense
  turned round (`src/fsm_c_common.c:357`).

*Pipeline and scanner.*

* After an input whose output cannot be opened, `outFileBase` is kept: later
  inputs are written under it, or fail as well, and the exit status is 0
  (`src/parser.y:2690`).  Such inputs are left out of `Taken`.
* The C writers report no file that cannot be opened; the next write is to a null
  stream (`src/fsm_c_common.c:197`).  `CrashOnlyUnopened` bounds it.
* The PlantUML writer reports a transition function without `returns` while it
  writes (`src/fsm_plantuml.c:638`), where the models' `good` changes in the parse
  only; the diagram is then removed, as that of a description with an error is.
* An unknown place for the legend ends the program with status 0
  (`src/parser.y:2482`; `Statuses`).
* A style sheet that cannot be copied leaves an open, partial page and status 0.
* Sub-machines of a description that fails keep their files, as they are closed
  as good (`src/fsm_utils.c:1017`).
* `-Md` and `-Mh` name a header for sub-machines where there are none, and `-Md`
  the public headers of sub-machines, which are never made; `-M` is ignored by the
  cross reference and the statistics; with `-o` the rule's input is misnamed
  (`src/parser.y:2670`).
* A sub-machine named like another input's output takes its files (`NamesApart`),
  and so does a second input of the same name from another directory
  (`src/parser.y:2673`; `NamesDiffer` in the theorem, different inputs in the run).
* Nothing of the scanner is set anew between files, its buffer of 4096 characters
  has no check, and `/**/` opens a document comment.

## 6. Plan

1. *(done)* The generated programs: `Hierarchy`, `EventEnum`, `RunToCompletion`,
   `FsmCalls`, `TableFsm`, `SwitchFsm`, `FlatFsm`; types, calls, pairing, bounds,
   exclusion, moves, inhibition, returns and the safety half of the promise proved.
2. *(done)* The translator: `FsmList`, `ActionArray`, `Documents`,
   `ParserContext`, `Lexer`, `OutputPipeline`, model-checked; the enumeration of
   events, the action array, the documents' agreement with it, what files there are
   at the end and what they hold proved, and that lists are sequences.
3. *(done)* The parser's records, for descriptions in any order: the grammar is
   part of `ParserContext` (`Fits`) instead of an assumption on `Inputs`.
4. A proof that is left: `ReadAsWritten`, by induction over the open machines
   (`Nested` is most of its invariant).
