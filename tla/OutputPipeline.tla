--------------------------- MODULE OutputPipeline ---------------------------
(***************************************************************************)
(* A run of fsmlang: the loop of main over the input files, the scanner    *)
(* and the parser on each of them, and the output generator that opens,    *)
(* writes and closes the files of each machine and of its sub-machines.    *)
(*                                                                         *)
(* The description of a top-level machine is one word of the text here;    *)
(* what the parser does inside a description is ParserContext.  Of what a  *)
(* file holds only the order of its parts is kept.                         *)
(***************************************************************************)
EXTENDS Lexer, FiniteSets

CONSTANTS
  Faulty,         \* the words whose description the parser reports an error in
  SubMachines,    \* machine_list of every machine
  Jobs            \* the command lines, and the file systems they run on

Machines == DOMAIN SubMachines
Slots    == {"c", "h", "pubH", "subMachineH", "eventsH", "html", "plantuml", "rst", "xref"}

(* A job: the writer; the name given with -o, or ""; what -M asks for; the *)
(* inputs; the files that cannot be opened for writing; whether the style  *)
(* sheet can be read; whether the options are in order; the lexemes its    *)
(* files are made of and, a bound, how many there are in a file.           *)
JobAssumption ==
  /\ Words \subseteq Machines /\ Faulty \subseteq Words
  /\ \A j \in Jobs :
       /\ j.writer \in {"c", "html", "plantuml", "rst", "xref", "statistics"}
       /\ j.names \in {"no", "sources", "headers", "recipe"}
       /\ j.inputs \in Seq([base : STRING, kind : {"fsm", "other", "missing"}])
       /\ {j.css, j.options} \subseteq BOOLEAN
       /\ j.lexemes \subseteq Lexemes /\ j.length \in Nat

(* Machines are described inside one another: sub-machines are machines    *)
(* of their own, and none is, at any depth, part of itself.                *)
Nesting(rank) ==
  \A m \in Machines : \A i \in DOMAIN SubMachines[m] :
    rank[SubMachines[m][i]] < rank[m]
TreeAssumption ==
  /\ IsFiniteSet(Machines)
  /\ Machines \intersect {"title", "body"} = {}  \* parts of a file, below
  /\ \A m \in Machines : SubMachines[m] \in Seq(Machines \ Words)
  /\ \E rank \in [Machines -> 0 .. Cardinality(Machines)] : Nesting(rank)

(* The name of every sub-machine is one of a kind among the names files    *)
(* are named after.  (Nothing checks this: a sub-machine named as another  *)
(* file's base takes the place of its files.)                              *)
NamesApart ==
  \A j \in Jobs : \A m \in Machines \ Words :
    m # j.o /\ \A i \in DOMAIN j.inputs : m # j.inputs[i].base
ASSUME PipelineAssumption == JobAssumption /\ TreeAssumption /\ NamesApart

VARIABLES
  job,        \* the job
  phase,      \* where main is
  fnind,      \* the number of the input at work
  good,       \* good
  outFileBase,
  exit,       \* the exit status, once there is one
  expect, blocks, \* what the parser waits for; native blocks before a machine
  levels,     \* the writers at work: of the top-level machine, of its sub-machines
  disk,       \* the parts of every file there is
  handles,    \* the files that are open
  printed,    \* the names printed for -M
  text, from, tokens,   \* history: what was scanned, where the file began, what it gave
  described, skipped    \* history: the descriptions of each input, inputs not written

main    == <<job, fnind, outFileBase, exit>>
parser  == <<expect, blocks>>
files   == <<disk, handles, printed>>
history == <<text, from, tokens, described, skipped>>
vars    == <<main, phase, good, parser, levels, files, history, lexer>>

NoFile  == [base |-> "", slot |-> ""]
NoName  == ""
Input   == job.inputs[fnind]
Level   == levels[Len(levels)]
IsTop   == Len(levels) <= 1
C       == job.writer = "c"
NamesOnly == job.names # "no" /\ job.writer \in {"c", "html", "plantuml", "rst"}

(* the files a writer opens, in their order *)
SlotsOf(w, top) ==
  CASE w = "c" -> IF top THEN <<"c", "h", "pubH", "subMachineH", "eventsH">>
                  ELSE <<"c", "h", "subMachineH", "eventsH">>
    [] w = "statistics" -> << >>
    [] OTHER -> <<w>>
HasEnd(slot) == slot \notin {"c", "rst", "xref"}

Bases == {NoName} \union {j.o : j \in Jobs} \union Machines
           \union UNION {{j.inputs[i].base : i \in DOMAIN j.inputs} : j \in Jobs}
Files == [base : Bases, slot : Slots]

Init ==
  /\ job \in Jobs
  /\ phase = "files" /\ fnind = 1 /\ good = job.options /\ outFileBase = job.o /\ exit = << >>
  /\ expect = "machine" /\ blocks = 0 /\ levels = << >>
  /\ disk = << >> /\ handles = {} /\ printed = {}
  /\ text = << >> /\ from = 0 /\ tokens = << >>
  /\ described = [i \in DOMAIN job.inputs |-> << >>] /\ skipped = {}
  /\ LexerInit

Exit(status) == phase' = "exited" /\ exit' = <<status>>

(* Undefined behaviour (a call of stdio without a stream) ends the program. *)
Crash == phase' = "crashed"

(***************************************************************************)
(* main                                                                    *)
(***************************************************************************)
(* The head of the loop: the name of the input decides on the name of the  *)
(* output, unless there is one.                                            *)
TakeFile ==
  /\ phase = "files" /\ fnind <= Len(job.inputs) /\ good
  /\ IF Input.kind # "fsm" THEN Exit(1) /\ UNCHANGED outFileBase
     ELSE /\ phase' = "init"
          /\ outFileBase' = IF outFileBase = NoName THEN Input.base ELSE outFileBase
          /\ UNCHANGED exit
  /\ UNCHANGED <<job, fnind, good, parser, levels, files, history, lexer>>

(* Of the options that are not in order an unknown place for the legend    *)
(* ends the program with status 0.                                         *)
Statuses == {IF good THEN 0 ELSE 1} \union (IF job.options THEN {} ELSE {0})

Finish ==
  /\ phase = "files" /\ ~(fnind <= Len(job.inputs) /\ good)
  /\ \E status \in Statuses : Exit(status)
  /\ UNCHANGED <<job, fnind, outFileBase, good, parser, levels, files, history, lexer>>

(***************************************************************************)
(* initOutput                                                              *)
(***************************************************************************)
(* The files are opened one after the other; the first that cannot be is   *)
(* the last that is tried.                                                 *)
Opened(base, top) ==
  LET all == SlotsOf(job.writer, top)
      Fails(n) == [base |-> base, slot |-> all[n]] \in job.unwritable
  IN  {all[n] : n \in {k \in DOMAIN all : \A i \in 1..k : ~Fails(i)}}
AllOpened(base, top) == Opened(base, top) = ToSet(SlotsOf(job.writer, top))

(* A sub-machine has one header for its public and its private matters. *)
Streams(base, top) ==
  LET opened == Opened(base, top)
      Stream(s) == IF s \in opened THEN [base |-> base, slot |-> s] ELSE NoFile
  IN  [s \in ToSet(SlotsOf(job.writer, TRUE)) |->
         IF s = "pubH" /\ ~top THEN Stream("h") ELSE Stream(s)]

NewLevel(m, base, top) ==
  [machine |-> m, base |-> base, subSeen |-> FALSE, todo |-> << >>,
   streams |-> IF NamesOnly THEN << >> ELSE Streams(base, top)]

(* Every file gets its preamble, if all of them could be opened. *)
Preambles(base, top) ==
  LET opened == [base : {base}, slot : Opened(base, top)]
  IN  [f \in opened \union DOMAIN disk |->
         IF f \notin opened THEN disk[f] ELSE IF AllOpened(base, top) THEN <<"start">> ELSE << >>]
Open(base, top) ==
  IF NamesOnly THEN UNCHANGED files
  ELSE /\ disk' = Preambles(base, top)
       /\ handles' = handles \union [base : {base}, slot : Opened(base, top)]
       /\ UNCHANGED printed

(* what the initialization of the C writers includes, into which file *)
Included(top) == IF top THEN {"h", "subMachineH", "pubH"} ELSE {"h", "subMachineH"}
InitCrashes(base, top) == C /\ ~NamesOnly /\ ~(Included(top) \subseteq Opened(base, top))

(* A C writer reports no failure to open a file; the others do, and the    *)
(* html writer also when it cannot copy the style sheet into its file.     *)
InitReports(base, top) ==
  /\ ~C /\ ~NamesOnly
  /\ \/ ~AllOpened(base, top)
     \/ job.writer = "html" /\ ~job.css

SkipInputRetrying == phase' = "files" /\ skipped' = skipped \union {fnind} /\ UNCHANGED fnind

SkipInput == phase' = "files" /\ skipped' = skipped \union {fnind} /\ fnind' = fnind + 1

InitOutput ==
  /\ phase = "init"
  /\ Open(outFileBase, TRUE)
  /\ IF InitReports(outFileBase, TRUE)
       THEN SkipInput /\ UNCHANGED <<levels, from>>
       ELSE /\ IF InitCrashes(outFileBase, TRUE) THEN Crash ELSE phase' = "parse"
            /\ levels' = <<NewLevel("", outFileBase, TRUE)>>
            /\ from' = Len(text)
            /\ UNCHANGED <<fnind, skipped>>
  /\ UNCHANGED <<job, outFileBase, exit, good, parser, text, tokens, described, lexer>>

(***************************************************************************)
(* yyparse                                                                 *)
(***************************************************************************)
(* the parts a writer writes for a machine, its sub-machines among them *)
Parts(m) ==
  CASE NamesOnly -> <<"body">> \o SubMachines[m]
    [] job.writer \in {"xref", "statistics"} -> <<"body">>
    [] job.writer = "rst" /\ ~NamesOnly -> <<"title">> \o SubMachines[m] \o <<"body">>
    [] OTHER -> <<"body">> \o SubMachines[m]

WriteMachine(m) ==
  levels' = [levels EXCEPT ![Len(levels)].machine = m, ![Len(levels)].todo = Parts(m)]

(* A machine is written when its description is complete, also when an     *)
(* error was reported in it.                                               *)
Machine(t) ==
  /\ t.lexeme \in Words
  /\ described' = [described EXCEPT ![fnind] = Append(@, t.lexeme)]
  /\ good' = (good /\ t.lexeme \notin Faulty)
  /\ phase' = "write" /\ WriteMachine(t.lexeme)
  /\ expect' = "machine" /\ blocks' = 0

NativeBlock(t) ==
  /\ \/ t.lexeme = "native" /\ expect' = "block" /\ UNCHANGED <<good, blocks>>
     \/ /\ t.lexeme = "block" /\ expect' = "machine"
        /\ blocks' = blocks + 1
        /\ good' = (good /\ blocks = 0)  \* cannot declare two native prologues
  /\ UNCHANGED <<phase, described, levels>>

SyntaxError ==
  /\ good' = FALSE /\ phase' = "close"
  /\ UNCHANGED <<parser, described, levels>>

Read(x) ==
  /\ phase = "parse" /\ Len(text) - from < job.length
  /\ Scan(x)
  /\ text' = Append(text, x) /\ tokens' = tokens \o token'
  /\ IF token' = Nothing THEN UNCHANGED <<good, phase, parser, described, levels>>
     ELSE LET t == token'[1] IN
          \/ Machine(t)
          \/ NativeBlock(t)
          \/ t.lexeme \notin Words \union {"native", "block"} /\ SyntaxError
  /\ UNCHANGED <<main, files, from, skipped>>

(* The end of the file ends the parse; the scanner stays as it is. *)
EndOfFile ==
  /\ phase = "parse"
  /\ IF described[fnind] # << >> /\ expect = "machine" /\ blocks = 0
       THEN phase' = "close" /\ UNCHANGED <<good, parser, described, levels>>
       ELSE SyntaxError
  /\ UNCHANGED <<main, files, text, from, tokens, skipped, lexer>>

(***************************************************************************)
(* writeMachine, write_machines, closeOutput                               *)
(***************************************************************************)
Rest == [levels EXCEPT ![Len(levels)].todo = Tail(@)]
StreamsOf(slots) == {Level.streams[s] : s \in slots \intersect DOMAIN Level.streams}

NamesOfTop(l, top) ==
  IF ~top THEN {} ELSE [base : {l.base}, slot : ToSet(SlotsOf(job.writer, TRUE))]

(* the names of a level's files that -M prints *)
NamesOf(l, top) ==
  LET named(slots) == [base : {l.base}, slot : slots]
      headers == {"h", "subMachineH", "eventsH"}
  IN  CASE ~C -> named({job.writer})
        [] C /\ job.names = "sources" -> named({"c"})
        [] C /\ job.names = "headers" -> named(IF top THEN headers \union {"pubH"} ELSE headers)
        [] C /\ job.names = "recipe"  -> named(headers \union {"c", "pubH"})

Put(fs, part) == [f \in DOMAIN disk |-> IF f \in fs THEN Append(disk[f], part) ELSE disk[f]]

WritePart ==
  /\ phase = "write" /\ Level.todo # << >> /\ Head(Level.todo) \notin Machines
  /\ levels' = Rest
  /\ IF NamesOnly THEN printed' = printed \union NamesOf(Level, IsTop)
                       /\ UNCHANGED <<disk, handles, phase>>
     ELSE LET fs == StreamsOf(Slots) IN
          /\ IF NoFile \in fs THEN Crash ELSE UNCHANGED phase
          /\ disk' = Put(fs \ {NoFile}, IF Head(Level.todo) = "body" THEN Level.machine ELSE "title")
          /\ UNCHANGED <<handles, printed>>
  /\ UNCHANGED <<main, good, parser, history, lexer>>

(* The next sub-machine: what initOutput returns is not looked at. *)
BeginSubMachine ==
  /\ phase = "write" /\ Level.todo # << >> /\ Head(Level.todo) \in Machines
  /\ LET m == Head(Level.todo) IN
     /\ Open(m, FALSE)
     /\ levels' = Append([Rest EXCEPT ![Len(levels)].subSeen = C /\ ~NamesOnly],
                         [NewLevel(m, m, FALSE) EXCEPT !.todo = Parts(m)])
     /\ IF InitCrashes(m, FALSE) THEN Crash ELSE UNCHANGED phase
  /\ UNCHANGED <<main, good, parser, history, lexer>>

(* The streams closed: the header for the sub-machines first if there were *)
(* none; a header that is public and private once.                         *)
SharedHeaderOverlooked == FALSE

SharedHeader == C /\ Level.streams["pubH"] = Level.streams["h"]
DroppedAlways(how) == {s \in {"subMachineH"} : C /\ how}

Dropped(how) == {s \in {"subMachineH"} : C /\ how /\ ~Level.subSeen}
ClosedButLast(how) ==
  SetToSeq({s \in DOMAIN Level.streams \ {"eventsH"} :
              Level.streams[s] # NoFile /\ ~(s = "pubH" /\ SharedHeader)})

Closed(how) ==
  LET rest == {s \in DOMAIN Level.streams \ Dropped(how) :
                 Level.streams[s] # NoFile /\ ~(s = "pubH" /\ SharedHeader)}
  IN  SetToSeq(Dropped(how)) \o SetToSeq(rest)

Ended(how) == IF how THEN {s \in DOMAIN Level.streams : HasEnd(s)} ELSE {}

UnlinkedSourceOnly(how) ==
  [base : {Level.base}, slot : IF how THEN Dropped(how) ELSE {"c"}]

Unlinked(how) ==
  [base : {Level.base}, slot : IF how THEN Dropped(how) ELSE DOMAIN Level.streams]

CloseLevel(how) ==
  IF NamesOnly THEN UNCHANGED files
  ELSE LET closed == [n \in DOMAIN Closed(how) |-> Level.streams[Closed(how)[n]]]
           ended  == Put(StreamsOf(Ended(how)) \ {NoFile}, "end")
       IN  /\ handles' = handles \ ToSet(closed)
           /\ disk' = Restrict(ended, DOMAIN disk \ Unlinked(how))
           /\ UNCHANGED printed

(* Closing writes to a stream that is not there, or closes one twice. *)
CloseCrashes(how) ==
  /\ ~NamesOnly
  /\ \/ NoFile \in StreamsOf(Ended(how))
     \/ ~C /\ NoFile \in StreamsOf(Slots)
     \/ \E m, n \in DOMAIN Closed(how) :
          m # n /\ Level.streams[Closed(how)[m]] = Level.streams[Closed(how)[n]]

(* Sub-machines are always closed as good. *)
EndMachine ==
  /\ phase = "write" /\ Level.todo = << >>
  /\ IF IsTop THEN phase' = "parse" /\ UNCHANGED <<levels, files>>
     ELSE /\ CloseLevel(TRUE)
          /\ IF CloseCrashes(TRUE) THEN Crash /\ UNCHANGED levels
             ELSE levels' = Front(levels) /\ UNCHANGED phase
  /\ UNCHANGED <<main, good, parser, history, lexer>>

(* "prepare for next input file, if any" *)
PrepareKeepingName == UNCHANGED outFileBase

Prepare == outFileBase' = NoName

CloseOutput ==
  /\ phase = "close"
  /\ CloseLevel(good)
  /\ IF CloseCrashes(good) THEN Crash /\ UNCHANGED <<levels, fnind, outFileBase>>
     ELSE phase' = "files" /\ levels' = << >> /\ fnind' = fnind + 1 /\ Prepare
  /\ UNCHANGED <<job, exit, good, parser, history, lexer>>

Next ==
  \/ TakeFile \/ Finish \/ InitOutput
  \/ \E x \in job.lexemes : Read(x)
  \/ EndOfFile \/ WritePart \/ BeginSubMachine \/ EndMachine \/ CloseOutput

Spec == Init /\ [][Next]_vars /\ WF_vars(Next)

-----------------------------------------------------------------------------
(***************************************************************************)
(* Properties                                                              *)
(***************************************************************************)
Exited  == phase = "exited"
Crashed == phase = "crashed"

(* the name the output of an input is due *)
NameOf(i) == IF i = 1 /\ job.o # NoName THEN job.o ELSE job.inputs[i].base

(* the inputs whose parse is over, and the one whose description failed *)
Taken    == {i \in DOMAIN job.inputs : i < fnind /\ i \notin skipped}
Failed   == {i \in Taken : ~good /\ i = fnind - 1}

TypeOK ==
  /\ LexerTypeOK
  /\ phase \in {"files", "init", "parse", "write", "close", "exited", "crashed"}
  /\ good \in BOOLEAN /\ outFileBase \in Bases /\ exit \in {<< >>, <<0>>, <<1>>}
  /\ expect \in {"machine", "block"} /\ blocks \in 0..job.length
  /\ handles \subseteq Files /\ printed \subseteq Files
  /\ \A n \in DOMAIN levels :
       LET l == levels[n] IN
       /\ l.base \in Bases /\ l.todo \in Seq(Machines \union {"title", "body"})
       /\ \A s \in DOMAIN l.streams : l.streams[s] \in handles \union {NoFile}

(* the machine and all below it: the least set with it and, of each of its *)
(* machines, the sub-machines                                              *)
Hereditary(S) == \A x \in S : ToSet(SubMachines[x]) \subseteq S
Tree(m) == {x \in Machines : \A S \in SUBSET Machines : m \in S /\ Hereditary(S) => x \in S}

(* the files of a machine: of a C machine, its header for sub-machines only *)
(* if there are any                                                        *)
FilesOf(base, top, nested) ==
  [base : {base},
   slot : ToSet(SlotsOf(job.writer, top)) \ (IF nested THEN {} ELSE {"subMachineH"})]
MachinesOf(i)  == ToSet(described[i])
HasSubs(ms)    == \E m \in ms : SubMachines[m] # << >>
TopFiles(i)    == FilesOf(NameOf(i), TRUE, HasSubs(MachinesOf(i)))
Within(i)      == UNION {Tree(x) \ {x} : x \in MachinesOf(i)}
SubFiles(i)    ==
  IF job.writer \in {"xref", "statistics"} THEN {}
  ELSE UNION {FilesOf(m, FALSE, HasSubs({m})) : m \in Within(i)}

(* A file has its preamble, the machines it is about in their order, each  *)
(* below its title where there are titles, its end, and nothing else.      *)
Width == IF job.writer = "rst" THEN 2 ELSE 1
Whole(f, ms) ==
  /\ f \in DOMAIN disk
  /\ Len(disk[f]) = 1 + Width * Len(ms) + (IF HasEnd(f.slot) THEN 1 ELSE 0)
  /\ disk[f][1] = "start" /\ \A n \in DOMAIN ms : disk[f][1 + Width * n] = ms[n]
  /\ HasEnd(f.slot) => Last(disk[f]) = "end"

(* When the program ends, with whatever status, every input that was       *)
(* parsed without an error has its files, whole and under its own name,    *)
(* a header for sub-machines among them only if there are sub-machines.    *)
(* parser.y:2640, fsm_c_common.c:1336                                      *)
GoodOutputWhole ==
  Exited /\ job.names = "no" => \A i \in Taken \ Failed :
    /\ \A f \in TopFiles(i) : Whole(f, described[i])
    /\ \A f \in SubFiles(i) : Whole(f, <<f.base>>)

(* "Delete the files if something went wrong somewhere." (fsm_c_common.c,  *)
(* line 1374): nothing is on the disk but the files of the good inputs,    *)
(* what sub-machines of the failed one have written, and the start of a    *)
(* page whose style sheet could not be copied.                             *)
NothingElseLeft ==
  Exited /\ job.names = "no" =>
    \A f \in DOMAIN disk :
      \/ \E i \in Taken \ Failed : f \in TopFiles(i) \union SubFiles(i)
      \/ \E i \in Failed : f \in SubFiles(i)
      \/ f.slot = "html" /\ ~job.css /\ \E i \in skipped : f.base \in {job.o, job.inputs[i].base}

(* What is written to is open, and between two inputs and at the end no    *)
(* file is, that page excepted.                                            *)
AllClosed ==
  /\ TypeOK
  /\ phase \in {"files", "exited"} =>
       \A f \in handles : f.slot = "html" /\ ~job.css /\ skipped # {}

(* The program only breaks down when a C generator, or the generator of a  *)
(* sub-machine, could not open a file: never by closing one file twice,    *)
(* never when all files can be opened.  fsm_c_common.c:197, fsm_utils.c:1015 *)
CrashOnlyUnopened ==
  Crashed => \E f \in job.unwritable : C \/ f.base \in Machines \ Words

(* What -Mh and -Md print names every header, and every file, that would   *)
(* have been made, what -M prints every source; and nothing is made.       *)
(* parser.y:3079                                                           *)
Named(f) ==
  \/ f \in printed
  \/ C /\ job.names = "sources" /\ f.slot # "c"
  \/ C /\ job.names = "headers" /\ f.slot = "c"
PrintsWhatWouldBeMade ==
  Exited /\ NamesOnly =>
    /\ disk = << >>
    /\ \A i \in Taken \ Failed : \A f \in TopFiles(i) \union SubFiles(i) : Named(f)

(* The program ends: the sub-machines under a machine are finitely many    *)
(* and each is written once.                                               *)
Ends == <>(Exited \/ Crashed)

-----------------------------------------------------------------------------
(***************************************************************************)
(* What the scanner should give the parser, from the text as a whole       *)
(***************************************************************************)
(* a comment from i to j: to the first mark that closes it *)
Comment(t, i, j) == i < j /\ t[j] = "close" /\ \A k \in (i + 1)..(j - 1) : t[k] # "close"

(* native code that starts at i: from its first brace, at b, to the one    *)
(* that balances it                                                        *)
FirstBrace(t, i, b) == i < b /\ t[b] = "{" /\ \A k \in (i + 1)..(b - 1) : t[k] # "{"
Count(t, x, b, j)   == Cardinality({k \in b..j : t[k] = x})
Balanced(t, b, j)   == Count(t, "{", b, j) = Count(t, "}", b, j)
Block(t, i, b, j)   ==
  FirstBrace(t, i, b) /\ b < j /\ Balanced(t, b, j) /\ \A k \in b..(j - 1) : ~Balanced(t, b, k)

(* Everything else is a unit of one lexeme. *)
Unit(t, i, j) ==
  CASE t[i] \in {"doc", "open"} -> Comment(t, i, j)
    [] t[i] = "native"          -> \E b \in i..j : Block(t, i, b, j)
    [] OTHER                    -> i = j

(* Units follow one another from the start of the text. *)
Starts(t) ==
  LET start[i \in 1..Len(t)] == i = 1 \/ \E k \in 1..(i - 1) : Unit(t, k, i - 1) /\ start[k]
  IN  {i \in 1..Len(t) : start[i]}

(* what is in the set, if anything is *)
OneOf(S) == IF S = {} THEN Nothing ELSE <<CHOOSE x \in S : TRUE>>

(* The document comment from k to j waits for the identifier at i: no      *)
(* identifier and no other document comment starts in between.             *)
Waits(t, k, j, i) ==
  /\ t[k] = "doc" /\ Comment(t, k, j)
  /\ k \in Starts(t)
  /\ \A w \in Starts(t) : k < w /\ w < i => t[w] \notin Words \union {"doc"}

DocDue(t, i) ==
  OneOf({SubSeq(t, p[1] + 1, p[2] - 1) :
           p \in {q \in (1..(i - 1)) \X (1..(i - 1)) : Waits(t, q[1], q[2], i)}})

(* the block of native code that ends at j *)
BlockEnding(t, j) ==
  OneOf({Token("block", Nothing, SubSeq(t, p[2] + 1, j - 1)) :
           p \in {q \in (1..j) \X (1..j) : /\ t[q[1]] = "native" /\ Block(t, q[1], q[2], j)
                                           /\ q[1] \in Starts(t)}})

TokenAt(t, i) ==
  IF i \notin Starts(t) THEN BlockEnding(t, i)
  ELSE CASE t[i] \in {"doc", "open", "newline"} -> Nothing
         [] t[i] \in Words -> <<Token(t[i], DocDue(t, i), << >>)>>
         [] OTHER -> <<Token(t[i], Nothing, << >>)>>

TokensOf(t) ==
  LET given[n \in 0..Len(t)] == IF n = 0 THEN << >> ELSE given[n - 1] \o TokenAt(t, n)
  IN  given[Len(t)]

(* The inputs are scanned as one text: comments reach nobody, native code  *)
(* goes from a brace to the one that closes it, and an identifier is given *)
(* the document comment written before it, as it was written.              *)
(* lexer.l:54-217, 440-455                                                 *)
ScannedAsWritten == tokens = TokensOf(text)
=============================================================================
