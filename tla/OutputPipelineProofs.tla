------------------------ MODULE OutputPipelineProofs ------------------------
(***************************************************************************)
(* For every set of machines, whatever is on the command line and whatever *)
(* files cannot be opened: what is open is on the way to be closed, only a *)
(* file that could not be opened breaks the program down, and there are at *)
(* the end the files there should be; and the parser is given what is      *)
(* written, whatever that is.                                              *)
(***************************************************************************)
EXTENDS OutputPipeline, FiniteSetTheorems, SequenceTheorems, WellFoundedInduction, TLAPS

Subs   == Machines \ Words
Rank   == CHOOSE rank \in [Machines -> 0 .. Cardinality(Machines)] : Nesting(rank)
Chosen == {job.o} \union {job.inputs[i].base : i \in DOMAIN job.inputs}
Part   == Machines \union {"title", "body"}

(* the files a level has open, and whether it has all it should *)
Held(l)     == {l.streams[s] : s \in DOMAIN l.streams} \ {NoFile}
Complete(l) == \A s \in DOMAIN l.streams : l.streams[s] # NoFile

(* a level that lacks a file is found out before anything else is done *)
Ready(l) == Complete(l) \/ (l.todo # << >> /\ Head(l.todo) \notin Machines)

LevelType == [machine : Machines \union {NoName}, base : Bases, subSeen : BOOLEAN,
              todo : Seq(Part),
              streams : {<< >>} \union [ToSet(SlotsOf(job.writer, TRUE)) -> Files \union {NoFile}]]

(* the n-th level: whose it is, the streams it began with, what it has to do *)
LevelOK(l, top) ==
  /\ IF top THEN l.base \in Chosen ELSE l.base \in Subs /\ l.machine = l.base
  /\ l.streams = IF NamesOnly THEN << >> ELSE Streams(l.base, top)
  /\ \A i \in DOMAIN l.todo : l.todo[i] \in Machines =>
       /\ l.machine \in Machines /\ l.todo[i] \in Subs
       /\ Rank[l.todo[i]] < Rank[l.machine]

LevelsIn(ls) ==
  /\ ls \in Seq(LevelType)
  /\ \A n \in 1 .. Len(ls) : \A l : l = ls[n] => LevelOK(l, n = 1)
  /\ \A i, j \in 2 .. Len(ls) : i < j => Rank[ls[j].base] < Rank[ls[i].base]

(* what a level writes to is open *)
OpenIn(ls, hs) ==
  \A n \in 1 .. Len(ls) : \A s \in DOMAIN ls[n].streams : ls[n].streams[s] \in hs \union {NoFile}

Simple ==
  /\ LexerTypeOK
  /\ phase \in {"files", "init", "parse", "write", "close", "exited", "crashed"}
  /\ good \in BOOLEAN /\ exit \in {<< >>, <<0>>, <<1>>}
  /\ expect \in {"machine", "block"} /\ blocks \in 0..job.length
  /\ handles \subseteq Files /\ printed \subseteq Files
Typed ==
  /\ job \in Jobs /\ fnind \in Nat \ {0}
  /\ outFileBase \in Chosen \union {NoName}
  /\ text \in Seq(Lexemes) /\ from \in 0 .. Len(text)
  /\ described \in [DOMAIN job.inputs -> Seq(Words)]

Phases ==
  /\ phase \in {"init", "parse", "write", "close"} => fnind \in DOMAIN job.inputs
  /\ phase = "init" => outFileBase \in Chosen /\ good
  /\ phase \in {"files", "init", "exited"} => levels = << >>
  /\ phase \in {"parse", "close"} => Len(levels) = 1
  /\ phase = "write" => Len(levels) >= 1 /\ blocks = 0
  /\ good /\ phase \in {"files", "init", "close"} => blocks = 0
  /\ phase = "parse" => blocks <= Len(text) - from
  /\ good /\ phase = "close" => described[fnind] # << >>
  /\ \A i \in DOMAIN job.inputs :
       i > fnind \/ (i = fnind /\ phase \in {"files", "init"}) => described[i] = << >>

(* what a level that is at work has open *)
Equipped ==
  /\ phase = "write" => \A n \in 1 .. Len(levels) : Ready(levels[n])
  /\ phase \in {"parse", "close"} => described[fnind] = << >> \/ Complete(levels[1])
  /\ levels # << >> /\ ~C =>
       Complete(levels[1]) /\ (NamesOnly \/ job.writer # "html" \/ job.css)

Unclosed(f) == f.slot = "html" /\ ~job.css /\ skipped # {}
HandlesKnown ==
  \A f \in handles : Unclosed(f) \/ \E n \in 1 .. Len(levels) : f \in Held(levels[n])

IInv == /\ Simple /\ Typed /\ Phases /\ LevelsIn(levels) /\ OpenIn(levels, handles)
        /\ Equipped /\ HandlesKnown /\ CrashOnlyUnopened

-----------------------------------------------------------------------------
(* The constants.                                                          *)
LEMMA Ranks ==
  /\ Rank \in [Machines -> Nat]
  /\ \A m \in Machines : /\ SubMachines[m] \in Seq(Subs)
                         /\ \A i \in DOMAIN SubMachines[m] : Rank[SubMachines[m][i]] < Rank[m]
  /\ "title" \notin Machines /\ "body" \notin Machines /\ Words \subseteq Machines
<1>1. \E rank \in [Machines -> 0 .. Cardinality(Machines)] : Nesting(rank)
  BY PipelineAssumption DEF TreeAssumption
<1>2. Rank \in [Machines -> 0 .. Cardinality(Machines)] /\ Nesting(Rank)
  BY <1>1 DEF Rank
<1>3. Cardinality(Machines) \in Nat
  BY PipelineAssumption, FS_CardinalityType DEF TreeAssumption
<1>4. Rank \in [Machines -> Nat]
  BY <1>2, <1>3
<1>5. \A m \in Machines : SubMachines[m] \in Seq(Subs)
  BY PipelineAssumption DEF TreeAssumption, Subs
<1>6. "title" \notin Machines /\ "body" \notin Machines /\ Words \subseteq Machines
  BY PipelineAssumption DEF TreeAssumption, JobAssumption
<1> QED BY <1>2, <1>4, <1>5, <1>6 DEF Nesting

LEMMA JobFacts ==
  ASSUME job \in Jobs
  PROVE  /\ job.writer \in {"c", "html", "plantuml", "rst", "xref", "statistics"}
         /\ job.names \in {"no", "sources", "headers", "recipe"}
         /\ job.inputs \in Seq([base : STRING, kind : {"fsm", "other", "missing"}])
         /\ job.options \in BOOLEAN /\ job.lexemes \subseteq Lexemes /\ job.length \in Nat
         /\ Chosen \subseteq Bases /\ Subs \subseteq Bases /\ NoName \in Bases
         /\ Chosen \intersect Subs = {}
<1>1. /\ job.writer \in {"c", "html", "plantuml", "rst", "xref", "statistics"}
      /\ job.names \in {"no", "sources", "headers", "recipe"}
      /\ job.inputs \in Seq([base : STRING, kind : {"fsm", "other", "missing"}])
      /\ job.options \in BOOLEAN /\ job.lexemes \subseteq Lexemes /\ job.length \in Nat
  BY PipelineAssumption DEF JobAssumption
<1>2. Chosen \subseteq Bases /\ Subs \subseteq Bases /\ NoName \in Bases
  BY DEF Chosen, Subs, Bases
<1>3. Chosen \intersect Subs = {}
  BY PipelineAssumption DEF NamesApart, Chosen, Subs
<1> QED BY <1>1, <1>2, <1>3

(* The slots, and what it means that a file is not opened.                 *)
LEMMA Slotted ==
  ASSUME job \in Jobs
  PROVE  /\ ToSet(SlotsOf(job.writer, TRUE)) =
              (IF C THEN {"c", "h", "pubH", "subMachineH", "eventsH"}
               ELSE {job.writer} \ {"statistics"})
         /\ ToSet(SlotsOf(job.writer, FALSE)) = ToSet(SlotsOf(job.writer, TRUE)) \ {"pubH"}
         /\ ToSet(SlotsOf(job.writer, TRUE)) \subseteq Slots
<1>1. job.writer \in {"c", "html", "plantuml", "rst", "xref", "statistics"}
  BY JobFacts
<1>2. CASE C
  <2>1. /\ SlotsOf(job.writer, TRUE) = <<"c", "h", "pubH", "subMachineH", "eventsH">>
        /\ SlotsOf(job.writer, FALSE) = <<"c", "h", "subMachineH", "eventsH">>
    BY <1>2 DEF SlotsOf, C
  <2>2. /\ ToSet(<<"c", "h", "pubH", "subMachineH", "eventsH">>) = {"c", "h", "pubH", "subMachineH", "eventsH"}
        /\ ToSet(<<"c", "h", "subMachineH", "eventsH">>) = {"c", "h", "subMachineH", "eventsH"}
    BY DEF ToSet
  <2> QED BY <1>2, <2>1, <2>2 DEF Slots
<1>3. CASE job.writer = "statistics"
  <2>1. SlotsOf(job.writer, TRUE) = << >> /\ SlotsOf(job.writer, FALSE) = << >> /\ ~C
    BY <1>3 DEF SlotsOf, C
  <2>2. ToSet(<< >>) = {}
    BY DEF ToSet
  <2> QED BY <1>3, <2>1, <2>2
<1>4. CASE job.writer \notin {"c", "statistics"}
  <2>1. SlotsOf(job.writer, TRUE) = <<job.writer>> /\ SlotsOf(job.writer, FALSE) = <<job.writer>> /\ ~C
    BY <1>4 DEF SlotsOf, C
  <2>2. ToSet(<<job.writer>>) = {job.writer}
    BY DEF ToSet
  <2> QED BY <1>1, <1>4, <2>1, <2>2 DEF Slots
<1> QED BY <1>2, <1>3, <1>4 DEF C

LEMMA NotOpened ==
  ASSUME job \in Jobs, NEW base, NEW top \in BOOLEAN
  PROVE  /\ Opened(base, top) \subseteq ToSet(SlotsOf(job.writer, top))
         /\ \A s \in ToSet(SlotsOf(job.writer, top)) : s \notin Opened(base, top) =>
              \E f \in job.unwritable : f.base = base
<1> DEFINE all == SlotsOf(job.writer, top)
           Fails(n) == [base |-> base, slot |-> all[n]] \in job.unwritable
<1>1. Opened(base, top) = {all[n] : n \in {k \in DOMAIN all : \A i \in 1..k : ~Fails(i)}}
  BY DEF Opened
<1>2. ToSet(all) = {all[n] : n \in DOMAIN all}
  BY DEF ToSet
<1>3. \A n : Fails(n) => \E f \in job.unwritable : f.base = base
  OBVIOUS
<1> HIDE DEF all, Fails
<1> QED BY <1>1, <1>2, <1>3 DEF all

(* The streams of a level: one for each slot, to the file of that name if  *)
(* it could be opened.                                                     *)
StreamsNamed(base, top) ==
  LET q == Streams(base, top) IN
  /\ DOMAIN q = ToSet(SlotsOf(job.writer, TRUE))
  /\ \A s \in DOMAIN q : q[s] # NoFile =>
       q[s] = [base |-> base, slot |-> IF s = "pubH" /\ ~top THEN "h" ELSE s]
StreamsOpened(base, top) ==
  LET q == Streams(base, top) IN
  {q[s] : s \in DOMAIN q} \ {NoFile} = [base : {base}, slot : Opened(base, top)]
StreamsMissing(base, top) ==
  LET q == Streams(base, top) IN
  /\ (\E s \in DOMAIN q : q[s] = NoFile) => \E f \in job.unwritable : f.base = base
  /\ AllOpened(base, TRUE) /\ top => \A s \in DOMAIN q : q[s] # NoFile

LEMMA StreamFacts ==
  ASSUME job \in Jobs, NEW base, NEW top \in BOOLEAN
  PROVE  StreamsNamed(base, top) /\ StreamsOpened(base, top) /\ StreamsMissing(base, top)
<1> DEFINE q == Streams(base, top)
<1> DEFINE all == ToSet(SlotsOf(job.writer, TRUE))
           opened == Opened(base, top)
           Stream(s) == IF s \in opened THEN [base |-> base, slot |-> s] ELSE NoFile
<1>1. q = [s \in all |-> IF s = "pubH" /\ ~top THEN Stream("h") ELSE Stream(s)]
  BY DEF Streams
<1>2. /\ opened \subseteq ToSet(SlotsOf(job.writer, top))
      /\ \A s \in ToSet(SlotsOf(job.writer, top)) : s \notin opened =>
           \E f \in job.unwritable : f.base = base
  BY NotOpened
<1>3. /\ ToSet(SlotsOf(job.writer, top)) = IF top THEN all ELSE all \ {"pubH"}
      /\ "" \notin all /\ ("pubH" \in all => "h" \in all)
  BY Slotted, JobFacts DEF Slots
<1>4. \A s : [base |-> base, slot |-> s] = NoFile => s = ""
  BY DEF NoFile
<1>5. AllOpened(base, TRUE) /\ top => opened = all
  BY DEF AllOpened
<1> HIDE DEF all, opened, q
<1>6. DOMAIN q = all
  BY <1>1
<1>7. ASSUME NEW s \in all
      PROVE  LET t == IF s = "pubH" /\ ~top THEN "h" ELSE s IN
             /\ q[s] = Stream(t) /\ t \in ToSet(SlotsOf(job.writer, top))
             /\ q[s] = NoFile <=> t \notin opened
  <2> DEFINE t == IF s = "pubH" /\ ~top THEN "h" ELSE s
  <2>1. q[s] = Stream(t)
    BY <1>1, <1>7
  <2>2. t \in ToSet(SlotsOf(job.writer, top)) /\ t # ""
    BY <1>3, <1>7
  <2> QED BY <1>4, <2>1, <2>2
<1>8. ASSUME NEW t \in opened
      PROVE  t \in all /\ q[t] = Stream(t)
  BY <1>1, <1>2, <1>3, <1>8
<1>9. \A s \in all : q[s] # NoFile =>
        q[s] = [base |-> base, slot |-> IF s = "pubH" /\ ~top THEN "h" ELSE s]
  BY <1>7
<1>10. {q[s] : s \in all} \subseteq [base : {base}, slot : opened] \union {NoFile}
  <2> SUFFICES ASSUME NEW s \in all, q[s] # NoFile
               PROVE  q[s] \in [base : {base}, slot : opened]
    OBVIOUS
  <2>1. PICK t : q[s] = Stream(t) /\ t \in opened
    BY <1>7
  <2> QED BY <2>1
<1>11. [base : {base}, slot : opened] \subseteq {q[s] : s \in all} \ {NoFile}
  <2> SUFFICES ASSUME NEW f \in [base : {base}, slot : opened]
               PROVE  f \in {q[s] : s \in all} /\ f # NoFile
    OBVIOUS
  <2>1. f = [base |-> base, slot |-> f.slot] /\ f.slot \in opened
    OBVIOUS
  <2>2. f.slot \in all /\ q[f.slot] = f
    BY <1>8, <2>1
  <2> QED BY <1>3, <1>4, <2>1, <2>2
<1>12. (\E s \in all : q[s] = NoFile) => \E f \in job.unwritable : f.base = base
  BY <1>2, <1>7
<1>13. AllOpened(base, TRUE) /\ top => \A s \in all : q[s] # NoFile
  BY <1>5, <1>7
<1>14. StreamsNamed(base, top)
  BY <1>6, <1>9 DEF StreamsNamed, all, q
<1>15. StreamsOpened(base, top)
  BY <1>6, <1>10, <1>11 DEF StreamsOpened, opened, q
<1>16. StreamsMissing(base, top)
  BY <1>6, <1>12, <1>13 DEF StreamsMissing, q
<1> QED BY <1>14, <1>15, <1>16

LEMMA CrashedByUnopened ==
  ASSUME job \in Jobs, NEW base, NEW top \in BOOLEAN, InitCrashes(base, top)
  PROVE  C /\ \E f \in job.unwritable : f.base = base
<1>1. C /\ ~(Included(top) \subseteq Opened(base, top))
  BY DEF InitCrashes
<1>2. Included(top) \subseteq ToSet(SlotsOf(job.writer, top))
  BY <1>1, Slotted DEF Included
<1> QED BY <1>1, <1>2, NotOpened

(* What a machine has to write begins with a part of its own. *)
LEMMA PartsFacts ==
  ASSUME job \in Jobs, NEW m \in Machines
  PROVE  /\ Parts(m) \in Seq(Part) /\ Parts(m) # << >> /\ Head(Parts(m)) \notin Machines
         /\ \A i \in DOMAIN Parts(m) : Parts(m)[i] \in Machines =>
              Parts(m)[i] \in Subs /\ Rank[Parts(m)[i]] < Rank[m]
<1> DEFINE subs == SubMachines[m]
<1>1. subs \in Seq(Subs) /\ \A i \in DOMAIN subs : Rank[subs[i]] < Rank[m]
  BY Ranks
<1>2. "title" \notin Machines /\ "body" \notin Machines
  BY Ranks
<1>3. Parts(m) \in {<<"body">>, <<"body">> \o subs, <<"title">> \o subs \o <<"body">>}
  BY DEF Parts
<1>4. subs \in Seq(Part) /\ <<"body">> \in Seq(Part) /\ <<"title">> \in Seq(Part)
  BY <1>1 DEF Part, Subs
<1> HIDE DEF subs
<1>5. CASE Parts(m) = <<"body">>
  BY <1>2, <1>4, <1>5
<1>6. CASE Parts(m) = <<"body">> \o subs
  <2>1. /\ Parts(m) \in Seq(Part) /\ Len(Parts(m)) = 1 + Len(subs) /\ Len(subs) \in Nat
        /\ Parts(m)[1] = "body"
        /\ \A i \in 2 .. Len(Parts(m)) : i - 1 \in DOMAIN subs /\ Parts(m)[i] = subs[i - 1]
    BY <1>4, <1>6
  <2> QED BY <1>1, <1>2, <2>1
<1>7. CASE Parts(m) = <<"title">> \o subs \o <<"body">>
  <2> DEFINE q == <<"title">> \o subs
  <2>1. /\ q \in Seq(Part) /\ Len(q) = 1 + Len(subs) /\ Len(subs) \in Nat /\ q[1] = "title"
        /\ \A i \in 2 .. Len(q) : i - 1 \in DOMAIN subs /\ q[i] = subs[i - 1]
    BY <1>4
  <2> HIDE DEF q
  <2>2. /\ Parts(m) \in Seq(Part) /\ Len(Parts(m)) = Len(q) + 1
        /\ \A i \in 1 .. Len(q) : Parts(m)[i] = q[i]
        /\ Parts(m)[Len(q) + 1] = "body"
    BY <1>4, <1>7, <2>1 DEF q
  <2>3. \A i \in 1 .. Len(Parts(m)) : i = 1 \/ i \in 2 .. Len(q) \/ i = Len(q) + 1
    BY <2>1, <2>2
  <2>4. Parts(m) # << >> /\ Head(Parts(m)) = "title"
    BY <2>1, <2>2
  <2> QED BY <1>1, <1>2, <2>1, <2>2, <2>3, <2>4
<1> QED BY <1>3, <1>5, <1>6, <1>7

(* A set in some order is each of its elements once. *)
LEMMA Listed ==
  ASSUME NEW S, IsFiniteSet(S)
  PROVE  /\ SetToSeq(S) \in Seq(S) /\ ToSet(SetToSeq(S)) = S
         /\ \A i, j \in DOMAIN SetToSeq(S) : SetToSeq(S)[i] = SetToSeq(S)[j] => i = j
<1> DEFINE n == Cardinality(S)
           q == SetToSeq(S)
<1>1. n \in Nat /\ ExistsBijection(1..n, S)
  BY FS_CardinalityType
<1>2. PICK f \in Bijection(1..n, S) : TRUE
  BY <1>1 DEF ExistsBijection
<1>3. f \in [1..n -> S] /\ IsInjective(f)
  BY <1>2 DEF Bijection, Injection
<1>4. q \in [1..n -> S] /\ IsInjective(q)
  BY <1>3 DEF SetToSeq
<1>5. q \in Injection(1..n, S)
  BY <1>4 DEF Injection
<1>6. IsFiniteSet(1..n) /\ Cardinality(1..n) = n
  BY <1>1, FS_Interval
<1> HIDE DEF n, q
<1>7. q \in Surjection(1..n, S)
  BY <1>1, <1>5, <1>6, FS_Injection DEF n
<1>8. \A t \in S : \E i \in 1..n : q[i] = t
  BY <1>7 DEF Surjection
<1>9. q \in Seq(S) /\ DOMAIN q = 1..n
  BY <1>1, <1>4
<1> QED BY <1>4, <1>8, <1>9 DEF IsInjective, ToSet, q

(* One set after another, as long as they have nothing in common. *)
InOrder(S, T) == SetToSeq(S) \o SetToSeq(T)
LEMMA Listing ==
  ASSUME NEW S, NEW T, IsFiniteSet(S), IsFiniteSet(T), S \intersect T = {}
  PROVE  LET q == InOrder(S, T) IN
         /\ \A i \in DOMAIN q : q[i] \in S \union T
         /\ \A s \in S \union T : \E i \in DOMAIN q : q[i] = s
         /\ \A i, j \in DOMAIN q : q[i] = q[j] => i = j
<1> DEFINE u == SetToSeq(S)
           v == SetToSeq(T)
           q == InOrder(S, T)
<1>1. /\ u \in Seq(S) /\ ToSet(u) = S /\ \A i, j \in DOMAIN u : u[i] = u[j] => i = j
      /\ v \in Seq(T) /\ ToSet(v) = T /\ \A i, j \in DOMAIN v : v[i] = v[j] => i = j
  BY Listed
<1>0. q = u \o v
  BY DEF InOrder
<1> HIDE DEF u, v, q
<1>2. /\ Len(u) \in Nat /\ Len(v) \in Nat /\ DOMAIN u = 1 .. Len(u) /\ DOMAIN v = 1 .. Len(v)
      /\ DOMAIN q = 1 .. Len(u) + Len(v)
      /\ \A i \in 1 .. Len(u) : q[i] = u[i]
      /\ \A i \in 1 .. Len(v) : q[Len(u) + i] = v[i] /\ Len(u) + i \in DOMAIN q
      /\ \A i \in DOMAIN q : i \in 1 .. Len(u) \/ (i - Len(u) \in 1 .. Len(v) /\ q[i] = v[i - Len(u)])
  BY <1>0, <1>1
<1>3. (\A i \in 1 .. Len(u) : u[i] \in S) /\ (\A i \in 1 .. Len(v) : v[i] \in T)
  BY <1>1, <1>2
<1>4. \A i \in DOMAIN q :
        \/ i \in 1 .. Len(u) /\ q[i] = u[i] /\ q[i] \in S
        \/ i - Len(u) \in 1 .. Len(v) /\ q[i] = v[i - Len(u)] /\ q[i] \in T
  <2> TAKE i \in DOMAIN q
  <2>1. CASE i \in 1 .. Len(u)
    <3>1. q[i] = u[i] /\ u[i] \in S
      BY <1>2, <1>3, <2>1
    <3> QED BY <2>1, <3>1
  <2>2. CASE i - Len(u) \in 1 .. Len(v) /\ q[i] = v[i - Len(u)]
    BY <1>3, <2>2
  <2> QED BY <1>2, <2>1, <2>2
<1>5. \A s \in S \union T : \E i \in DOMAIN q : q[i] = s
  <2>1. (\A s \in S : \E i \in 1 .. Len(u) : u[i] = s) /\ (\A s \in T : \E i \in 1 .. Len(v) : v[i] = s)
    BY <1>1, <1>2 DEF ToSet
  <2>2. \A i \in 1 .. Len(u) : i \in DOMAIN q
    BY <1>2
  <2>3. ASSUME NEW s \in S PROVE \E i \in DOMAIN q : q[i] = s
    <3>1. PICK i \in 1 .. Len(u) : u[i] = s
      BY <2>1
    <3> QED BY <1>2, <2>2, <3>1
  <2>4. ASSUME NEW s \in T PROVE \E i \in DOMAIN q : q[i] = s
    <3>1. PICK i \in 1 .. Len(v) : v[i] = s
      BY <2>1
    <3>2. Len(u) + i \in DOMAIN q /\ q[Len(u) + i] = s
      BY <1>2, <3>1
    <3> QED BY <3>2
  <2> QED BY <2>3, <2>4
<1>6. ASSUME NEW i \in DOMAIN q, NEW j \in DOMAIN q, q[i] = q[j] PROVE i = j
  <2>1. i \in Int /\ j \in Int
    BY <1>2
  <2>2. CASE q[i] \in S
    <3>1. /\ i \in DOMAIN u /\ q[i] = u[i] /\ j \in DOMAIN u /\ q[j] = u[j]
      BY <1>2, <1>4, <1>6, <2>2
    <3> QED BY <1>1, <1>6, <3>1
  <2>3. CASE q[i] \in T
    <3>1. /\ i - Len(u) \in DOMAIN v /\ q[i] = v[i - Len(u)]
          /\ j - Len(u) \in DOMAIN v /\ q[j] = v[j - Len(u)]
      BY <1>2, <1>4, <1>6, <2>3
    <3>2. i - Len(u) = j - Len(u)
      BY <1>1, <1>6, <3>1
    <3> QED BY <1>2, <2>1, <3>2
  <2> QED BY <1>4, <2>2, <2>3
<1> QED BY <1>4, <1>5, <1>6 DEF q

-----------------------------------------------------------------------------
(* Closing the files of a level.                                           *)
LEMMA ClosedFacts ==
  ASSUME job \in Jobs, NEW base, NEW top \in BOOLEAN, Level.streams = Streams(base, top),
         NEW how \in BOOLEAN
  PROVE  /\ \A i, j \in DOMAIN Closed(how) : i # j =>
              Level.streams[Closed(how)[i]] # Level.streams[Closed(how)[j]]
         /\ \A i \in DOMAIN Closed(how) : LET f == Level.streams[Closed(how)[i]] IN
              f = NoFile \/ f.base = base
         /\ \A f \in Held(Level) : \E i \in DOMAIN Closed(how) : Level.streams[Closed(how)[i]] = f
<1> DEFINE st == Level.streams
           D == Dropped(how)
           R == {s \in DOMAIN st \ D : st[s] # NoFile /\ ~(s = "pubH" /\ SharedHeader)}
           q == Closed(how)
<1>0. st = Streams(base, top)
  OBVIOUS
<1> HIDE DEF st
<1>1. /\ DOMAIN st = ToSet(SlotsOf(job.writer, TRUE))
      /\ \A s \in DOMAIN st : st[s] # NoFile =>
           st[s] = [base |-> base, slot |-> IF s = "pubH" /\ ~top THEN "h" ELSE s]
  <2>1. StreamsNamed(base, top)
    BY StreamFacts
  <2> QED BY <1>0, <2>1 DEF StreamsNamed
<1>2. /\ DOMAIN st = IF C THEN {"c", "h", "pubH", "subMachineH", "eventsH"}
                     ELSE {job.writer} \ {"statistics"}
      /\ ~C => job.writer # "c"
  BY <1>1, Slotted DEF C
<1>3. D \subseteq {"subMachineH"} /\ D \subseteq DOMAIN st /\ D \intersect R = {}
  BY <1>2 DEF Dropped
<1> USE DEF st
<1>4. IsFiniteSet(DOMAIN st)
  <2>1. IsFiniteSet({}) /\ \A S, x : IsFiniteSet(S) => IsFiniteSet(S \union {x})
    BY FS_EmptySet, FS_AddElement
  <2>2. IsFiniteSet(({} \union {"c"}) \union {"h"})
    BY <2>1
  <2>3. IsFiniteSet(((({} \union {"c"}) \union {"h"}) \union {"pubH"}) \union {"subMachineH"})
    BY <2>1, <2>2
  <2>4. IsFiniteSet((((({} \union {"c"}) \union {"h"}) \union {"pubH"}) \union {"subMachineH"}) \union {"eventsH"})
    BY <2>1, <2>3
  <2>5. IsFiniteSet({} \union {job.writer})
    BY <2>1
  <2>6. (((({} \union {"c"}) \union {"h"}) \union {"pubH"}) \union {"subMachineH"}) \union {"eventsH"}
          = {"c", "h", "pubH", "subMachineH", "eventsH"}
    OBVIOUS
  <2>7. DOMAIN st \subseteq {"c", "h", "pubH", "subMachineH", "eventsH"} \/ DOMAIN st \subseteq {} \union {job.writer}
    BY <1>2
  <2> QED BY <2>4, <2>5, <2>6, <2>7, FS_Subset
<1>5. IsFiniteSet(D) /\ IsFiniteSet(R)
  BY <1>3, <1>4, FS_Subset
<1>6. q = InOrder(D, R)
  BY DEF Closed, InOrder
<1> HIDE DEF st, D, R, q
<1>7. /\ \A i \in DOMAIN q : q[i] \in D \union R
      /\ \A s \in D \union R : \E i \in DOMAIN q : q[i] = s
      /\ \A i, j \in DOMAIN q : q[i] = q[j] => i = j
  BY <1>3, <1>5, <1>6, Listing
<1>8. \A s, t \in D \union R : s # t => st[s] # st[t]
  <2> SUFFICES ASSUME NEW s \in D \union R, NEW t \in D \union R, s # t, st[s] = st[t]
               PROVE  FALSE
    OBVIOUS
  <2>1. {s, t} \subseteq DOMAIN st
    BY <1>3 DEF R
  <2>2. s \in R \/ t \in R
    BY <1>3
  <2>3. st[s] # NoFile /\ st[t] # NoFile
    BY <2>2 DEF R
  <2>4. /\ st[s] = [base |-> base, slot |-> IF s = "pubH" /\ ~top THEN "h" ELSE s]
        /\ st[t] = [base |-> base, slot |-> IF t = "pubH" /\ ~top THEN "h" ELSE t]
    BY <1>1, <2>1, <2>3
  <2>5. (IF s = "pubH" /\ ~top THEN "h" ELSE s) = (IF t = "pubH" /\ ~top THEN "h" ELSE t)
    <3> DEFINE a == IF s = "pubH" /\ ~top THEN "h" ELSE s
               b == IF t = "pubH" /\ ~top THEN "h" ELSE t
    <3>1. [base |-> base, slot |-> a] = [base |-> base, slot |-> b]
      BY <2>4
    <3> HIDE DEF a, b
    <3>2. a = b
      BY <3>1
    <3> QED BY <3>2 DEF a, b
  <2>6. (s = "pubH" /\ t = "h") \/ (s = "h" /\ t = "pubH")
    BY <2>5
  <2>7. C /\ st["pubH"] = st["h"]
    BY <1>2, <2>1, <2>6
  <2>8. SharedHeader /\ "pubH" \in R
    BY <1>3, <2>6, <2>7 DEF SharedHeader, st
  <2> QED BY <2>8 DEF R
<1>9. \A s \in D \union R : st[s] = NoFile \/ st[s].base = base
  <2> SUFFICES ASSUME NEW s \in D \union R, st[s] # NoFile PROVE st[s].base = base
    OBVIOUS
  <2>1. s \in DOMAIN st
    BY <1>3 DEF R
  <2>2. st[s] = [base |-> base, slot |-> IF s = "pubH" /\ ~top THEN "h" ELSE s]
    BY <1>1, <2>1
  <2> QED BY <2>2
<1>10. ASSUME NEW f \in Held(Level) PROVE \E s \in D \union R : st[s] = f
  <2>1. PICK s \in DOMAIN st : st[s] = f /\ f # NoFile
    BY DEF Held, st
  <2>2. CASE s = "pubH" /\ SharedHeader
    <3>1. st["h"] = f /\ "h" \in DOMAIN st
      BY <1>2, <2>1, <2>2 DEF SharedHeader, st
    <3> QED BY <2>1, <3>1 DEF R
  <2>3. CASE ~(s = "pubH" /\ SharedHeader)
    BY <2>1, <2>3 DEF R
  <2> QED BY <2>2, <2>3
<1> QED BY <1>7, <1>8, <1>9, <1>10 DEF st, q

(* A level is closed: nothing breaks down, its files are open no longer,   *)
(* and no file of another name is closed with them.                        *)
LEMMA Closes ==
  ASSUME job \in Jobs, NEW how \in BOOLEAN, NEW top \in BOOLEAN, LevelOK(Level, top),
         CloseLevel(how), how \/ ~C => Complete(Level)
  PROVE  /\ ~CloseCrashes(how) /\ printed' = printed /\ handles' \subseteq handles
         /\ \A f \in Held(Level) : f \notin handles'
         /\ \A f \in handles : f # NoFile /\ f.base # Level.base => f \in handles'
<1>1. CASE NamesOnly
  BY <1>1 DEF CloseLevel, CloseCrashes, files, LevelOK, Held
<1>2. CASE ~NamesOnly
  <2> DEFINE st == Level.streams
             q == Closed(how)
             closed == [n \in DOMAIN q |-> st[q[n]]]
  <2>1. st = Streams(Level.base, top)
    BY <1>2 DEF LevelOK
  <2>2. /\ \A i, j \in DOMAIN q : i # j => st[q[i]] # st[q[j]]
        /\ \A i \in DOMAIN q : st[q[i]] = NoFile \/ st[q[i]].base = Level.base
        /\ \A f \in Held(Level) : \E i \in DOMAIN q : st[q[i]] = f
    BY <2>1, ClosedFacts
  <2>3. handles' = handles \ ToSet(closed) /\ printed' = printed
    BY <1>2 DEF CloseLevel
  <2>4. \A f : f \in ToSet(closed) <=> \E i \in DOMAIN q : f = st[q[i]]
    BY DEF ToSet
  <2>5. ~CloseCrashes(how)
    <3>1. NoFile \notin StreamsOf(Ended(how))
      <4>1. CASE how
        BY <4>1 DEF StreamsOf, Complete
      <4>2. CASE ~how
        BY <4>2 DEF StreamsOf, Ended
      <4> QED BY <4>1, <4>2
    <3>2. C \/ NoFile \notin StreamsOf(Slots)
      BY DEF StreamsOf, Complete
    <3> QED BY <2>2, <3>1, <3>2 DEF CloseCrashes
  <2> HIDE DEF closed, q, st
  <2> QED BY <2>2, <2>3, <2>4, <2>5
<1> QED BY <1>1, <1>2

-----------------------------------------------------------------------------
(* The steps.                                                              *)
LEMMA SameJob ==
  ASSUME job' = job
  PROVE  /\ LevelType' = LevelType /\ NamesOnly' = NamesOnly /\ C' = C /\ Chosen' = Chosen
         /\ \A l, t : LevelOK(l, t)' <=> LevelOK(l, t)
<1>1. NamesOnly' = NamesOnly /\ C' = C /\ Chosen' = Chosen
  BY DEF NamesOnly, C, Chosen
<1>2. LevelType' = LevelType
  BY DEF LevelType
<1>3. \A b, t : Streams(b, t)' = Streams(b, t)
  BY DEF Streams, Opened
<1>4. \A l, t : LevelOK(l, t)' <=> LevelOK(l, t)
  BY <1>1, <1>3 DEF LevelOK, Streams, Opened
<1> QED BY <1>1, <1>2, <1>4

LEMMA SameLevels ==
  ASSUME job' = job, NEW t, levels' = t, LevelsIn(t)
  PROVE  LevelsIn(levels)'
BY SameJob DEF LevelsIn

LEMMA ScanTyped ==
  ASSUME LexerTypeOK, NEW x \in Lexemes, Scan(x)
  PROVE  LexerTypeOK'
<1>a. /\ braces \in Nat /\ (braces > 0 <=> condition = "NATIVE_BLCK")
      /\ chars \in Seq(Lexemes) /\ docCmnt \in Seq(Seq(Lexemes)) /\ Len(docCmnt) <= 1
  BY DEF LexerTypeOK
<1>b. braces = 0 \/ (condition = "NATIVE_BLCK" /\ braces > 0)
  <2>1. braces \in Nat /\ (braces > 0 <=> condition = "NATIVE_BLCK")
    BY <1>a
  <2> QED BY <2>1
<1>0. << >> \in Seq(Lexemes) /\ << >> \in Seq(Seq(Lexemes)) /\ Append(chars, x) \in Seq(Lexemes)
      /\ <<chars>> \in Seq(Seq(Lexemes)) /\ Len(<< >>) = 0 /\ Len(<<chars>>) = 1
  BY <1>a
<1>c. ASSUME chars' \in {chars, << >>, Append(chars, x)}, docCmnt' \in {docCmnt, << >>, <<chars>>},
             \/ /\ condition' \in {"INITIAL", "DOCCMNT", "CMNT", "NATIVE"} /\ braces' = 0
             \/ /\ condition' = "NATIVE_BLCK" /\ braces' \in Nat /\ braces' > 0
      PROVE  LexerTypeOK'
  <2>1. chars' \in Seq(Lexemes)
    BY <1>0, <1>a, <1>c
  <2>2. docCmnt' \in Seq(Seq(Lexemes)) /\ Len(docCmnt') <= 1
    <3>1. CASE docCmnt' = docCmnt
      BY <1>a, <3>1
    <3>2. CASE docCmnt' = << >>
      BY <1>0, <3>2
    <3>3. CASE docCmnt' = <<chars>>
      BY <1>0, <3>3
    <3> QED BY <1>c, <3>1, <3>2, <3>3
  <2>3. braces' \in Nat /\ (braces' > 0 <=> condition' = "NATIVE_BLCK")
    BY <1>c
  <2>4. condition' \in {"INITIAL", "DOCCMNT", "CMNT", "NATIVE", "NATIVE_BLCK"}
    BY <1>c
  <2> QED BY <2>1, <2>2, <2>3, <2>4 DEF LexerTypeOK
<1>1. CASE InInitial(x)
  <2>1. /\ condition = "INITIAL" /\ braces' = braces
        /\ condition' \in {"INITIAL", "DOCCMNT", "CMNT", "NATIVE"}
        /\ chars' \in {chars, << >>} /\ docCmnt' \in {docCmnt, << >>}
    BY <1>1 DEF InInitial, OpenDoc, OpenComment, Native, Word, Punctuation, Nothing
  <2> QED BY <1>b, <1>c, <2>1
<1>2. CASE InDocComment(x)
  <2>1. /\ condition = "DOCCMNT" /\ braces' = braces /\ condition' \in {"INITIAL", "DOCCMNT"}
        /\ chars' \in {chars, Append(chars, x)} /\ docCmnt' \in {docCmnt, <<chars>>}
    BY <1>2 DEF InDocComment
  <2> QED BY <1>b, <1>c, <2>1
<1>3. CASE InComment(x)
  <2>1. /\ condition = "CMNT" /\ braces' = braces /\ condition' \in {"INITIAL", "CMNT"}
        /\ chars' \in {chars, Append(chars, x)} /\ docCmnt' = docCmnt
    BY <1>3 DEF InComment
  <2> QED BY <1>b, <1>c, <2>1
<1>4. CASE BeforeBlock(x)
  <2>1. braces = 0 /\ docCmnt' = docCmnt
    BY <1>4, <1>b DEF BeforeBlock
  <2>2. \/ condition' = "NATIVE" /\ braces' = 0 /\ chars' = chars
        \/ condition' = "NATIVE_BLCK" /\ braces' = 1 /\ chars' = << >>
    <3>1. CASE x = "{"
      <4>1. braces' = braces + 1 /\ condition' = "NATIVE_BLCK" /\ chars' = << >>
        BY <1>4, <2>1, <3>1 DEF BeforeBlock
      <4> QED BY <2>1, <4>1
    <3>2. CASE x # "{"
      BY <1>4, <2>1, <3>2 DEF BeforeBlock
    <3> QED BY <3>1, <3>2
  <2> QED BY <1>c, <2>1, <2>2
<1>5. CASE InBlock(x)
  <2>1. condition = "NATIVE_BLCK" /\ braces \in Nat /\ braces > 0 /\ docCmnt' = docCmnt
    BY <1>5, <1>a DEF InBlock
  <2>2. chars' \in {chars, Append(chars, x)}
    BY <1>5 DEF InBlock
  <2>3. /\ x = "}" => braces' = braces - 1
        /\ x # "}" => braces' \in {braces, braces + 1}
    <3>1. "}" # "{"
      OBVIOUS
    <3> QED BY <1>5, <3>1 DEF InBlock
  <2>4. CASE BlockEnds(x)
    <3>1. condition' = "INITIAL" /\ braces' = 0
      <4>1. x = "}"
        BY <2>4 DEF BlockEnds
      <4>2. braces' = braces - 1
        BY <2>3, <4>1
      <4>3. braces = 1
        BY <2>4 DEF BlockEnds
      <4>4. braces' = 0
        BY <4>2, <4>3
      <4> QED BY <1>5, <2>4, <4>4 DEF InBlock
    <3> QED BY <1>c, <2>1, <2>2, <3>1
  <2>5. CASE ~BlockEnds(x)
    <3>1. condition' = "NATIVE_BLCK"
      BY <1>5, <2>1, <2>5 DEF InBlock
    <3>2. braces' \in Nat /\ braces' > 0
      <4>1. CASE x = "}"
        <5>1. braces # 1 /\ braces' = braces - 1
          BY <2>3, <2>5, <4>1 DEF BlockEnds
        <5> QED BY <2>1, <5>1
      <4>2. CASE x # "}"
        <5>1. braces' \in {braces, braces + 1}
          BY <2>3, <4>2
        <5> QED BY <2>1, <5>1
      <4> QED BY <4>1, <4>2
    <3> QED BY <1>c, <2>1, <2>2, <3>1, <3>2
  <2> QED BY <2>4, <2>5
<1> QED BY <1>1, <1>2, <1>3, <1>4, <1>5 DEF Scan

LEMMA KeepsWork ==
  ASSUME IInv, job' = job, levels' = levels, handles' = handles, skipped' = skipped
  PROVE  LevelsIn(levels)' /\ OpenIn(levels, handles)' /\ HandlesKnown'
<1>1. LevelsIn(levels)'
  BY SameLevels DEF IInv
<1>2. OpenIn(levels, handles)'
  BY DEF IInv, OpenIn
<1>3. HandlesKnown'
  BY DEF IInv, HandlesKnown, Unclosed, Held
<1> QED BY <1>1, <1>2, <1>3

LEMMA TakeFileKeeps ==
  ASSUME IInv, TakeFile
  PROVE  IInv'
<1> USE DEF IInv
<1>0. /\ phase = "files" /\ fnind <= Len(job.inputs) /\ good /\ good' = good
      /\ job' = job /\ fnind' = fnind /\ levels' = levels /\ handles' = handles /\ printed' = printed
      /\ expect' = expect /\ blocks' = blocks /\ text' = text /\ from' = from
      /\ described' = described /\ skipped' = skipped
      /\ UNCHANGED lexer
  BY DEF TakeFile, parser, files, history
<1>1. \/ phase' = "exited" /\ exit' = <<1>> /\ outFileBase' = outFileBase
      \/ phase' = "init" /\ exit' = exit
         /\ outFileBase' = IF outFileBase = NoName THEN Input.base ELSE outFileBase
  BY DEF TakeFile, Exit
<1>2. fnind \in DOMAIN job.inputs /\ Input.base \in Chosen /\ Chosen' = Chosen /\ levels = << >>
  <2>1. fnind \in DOMAIN job.inputs
    BY <1>0, JobFacts DEF Typed
  <2> QED BY <1>0, <2>1 DEF Chosen, Input, Phases
<1>3. Simple'
  BY <1>0, <1>1 DEF Simple, LexerTypeOK, lexer
<1>4. Typed'
  BY <1>0, <1>1, <1>2 DEF Typed
<1>5. Phases'
  BY <1>0, <1>1, <1>2 DEF Phases, Typed
<1>6. LevelsIn(levels)' /\ OpenIn(levels, handles)' /\ HandlesKnown'
  BY <1>0, KeepsWork
<1>7. Equipped' /\ CrashOnlyUnopened'
  BY <1>0, <1>1, <1>2 DEF Equipped, CrashOnlyUnopened, Crashed
<1> QED BY <1>3, <1>4, <1>5, <1>6, <1>7

LEMMA FinishKeeps ==
  ASSUME IInv, Finish
  PROVE  IInv'
<1> USE DEF IInv
<1>0. /\ phase = "files" /\ phase' = "exited" /\ exit' \in {<<0>>, <<1>>} /\ good' = good
      /\ job' = job /\ fnind' = fnind /\ levels' = levels /\ handles' = handles /\ printed' = printed
      /\ expect' = expect /\ blocks' = blocks /\ text' = text /\ from' = from
      /\ described' = described /\ skipped' = skipped /\ outFileBase' = outFileBase
      /\ UNCHANGED lexer
  BY DEF Finish, Statuses, Exit, parser, files, history
<1>1. Simple'
  BY <1>0 DEF Simple, LexerTypeOK, lexer
<1>2. Typed'
  BY <1>0 DEF Typed, Chosen
<1>3. Phases'
  BY <1>0 DEF Phases, Typed
<1>4. LevelsIn(levels)' /\ OpenIn(levels, handles)' /\ HandlesKnown'
  BY <1>0, KeepsWork
<1>5. Equipped' /\ CrashOnlyUnopened'
  BY <1>0 DEF Equipped, CrashOnlyUnopened, Crashed, Phases
<1> QED BY <1>1, <1>2, <1>3, <1>4, <1>5

(* A level that begins: its files are open, the others are as they were.   *)
LEMMA Begins ==
  ASSUME job \in Jobs, NEW m \in Machines \union {NoName}, NEW base \in Bases, NEW top \in BOOLEAN
  PROVE  LET l == NewLevel(m, base, top) IN
         /\ l \in LevelType /\ l.machine = m /\ l.base = base /\ l.todo = << >>
         /\ l.streams = IF NamesOnly THEN << >> ELSE Streams(base, top)
         /\ Held(l) \subseteq Files
         /\ Held(l) = IF NamesOnly THEN {} ELSE [base : {base}, slot : Opened(base, top)]
<1> DEFINE l == NewLevel(m, base, top)
<1>1. /\ l = [machine |-> m, base |-> base, subSeen |-> FALSE, todo |-> << >>, streams |-> l.streams]
      /\ l.streams = IF NamesOnly THEN << >> ELSE Streams(base, top)
  BY DEF NewLevel
<1>2. StreamsNamed(base, top) /\ StreamsOpened(base, top)
  BY StreamFacts
<1>3. ToSet(SlotsOf(job.writer, TRUE)) \subseteq Slots /\ ("pubH" # "h") /\ "h" \in Slots
  BY Slotted DEF Slots
<1>4. Streams(base, top) \in [ToSet(SlotsOf(job.writer, TRUE)) -> Files \union {NoFile}]
  <2> DEFINE q == Streams(base, top)
  <2>1. q = [s \in DOMAIN q |-> q[s]] /\ DOMAIN q = ToSet(SlotsOf(job.writer, TRUE))
    BY <1>2 DEF Streams, StreamsNamed
  <2>2. ASSUME NEW s \in DOMAIN q PROVE q[s] \in Files \union {NoFile}
    <3>1. (IF s = "pubH" /\ ~top THEN "h" ELSE s) \in Slots
      BY <1>3, <2>1
    <3>2. q[s] = NoFile \/ q[s] = [base |-> base, slot |-> IF s = "pubH" /\ ~top THEN "h" ELSE s]
      BY <1>2 DEF StreamsNamed
    <3> QED BY <3>1, <3>2 DEF Files
  <2> HIDE DEF q
  <2> QED BY <2>1, <2>2 DEF q
<1> HIDE DEF l
<1>5. l.streams \in {<< >>} \union [ToSet(SlotsOf(job.writer, TRUE)) -> Files \union {NoFile}]
  BY <1>1, <1>4
<1>6. l \in LevelType
  <2> DEFINE st == l.streams
             X  == {<< >>} \union [ToSet(SlotsOf(job.writer, TRUE)) -> Files \union {NoFile}]
  <2>1. l = [machine |-> m, base |-> base, subSeen |-> FALSE, todo |-> << >>, streams |-> st]
    BY <1>1
  <2>2. st \in X /\ << >> \in Seq(Part)
    <3>1. << >> \in Seq(Part)
      OBVIOUS
    <3> QED BY <1>5, <3>1
  <2>3. LevelType = [machine : Machines \union {NoName}, base : Bases, subSeen : BOOLEAN,
                     todo : Seq(Part), streams : X]
    BY DEF LevelType
  <2> HIDE DEF st, X
  <2> QED BY <2>1, <2>2, <2>3
<1>7. Held(l) = IF NamesOnly THEN {} ELSE [base : {base}, slot : Opened(base, top)]
  <2>1. CASE NamesOnly
    <3>1. l.streams = << >> /\ DOMAIN << >> = {}
      BY <1>1, <2>1
    <3> QED BY <2>1, <3>1 DEF Held
  <2>2. CASE ~NamesOnly
    <3>1. l.streams = Streams(base, top)
      BY <1>1, <2>2
    <3> QED BY <1>2, <2>2, <3>1 DEF Held, StreamsOpened
  <2> QED BY <2>1, <2>2
<1>8. Held(l) \subseteq Files
  <2>1. Opened(base, top) \subseteq Slots
    BY NotOpened, Slotted
  <2> QED BY <1>7, <2>1 DEF Files
<1> QED BY <1>1, <1>6, <1>7, <1>8 DEF l

LEMMA Opens ==
  ASSUME job \in Jobs, NEW m \in Machines \union {NoName}, NEW base \in Bases, NEW top \in BOOLEAN,
         Open(base, top)
  PROVE  handles' = handles \union Held(NewLevel(m, base, top)) /\ printed' = printed
<1>1. Held(NewLevel(m, base, top)) = IF NamesOnly THEN {} ELSE [base : {base}, slot : Opened(base, top)]
  BY Begins
<1> QED BY <1>1 DEF Open, files

LEMMA InitOutputKeeps ==
  ASSUME IInv, InitOutput
  PROVE  IInv'
<1> USE DEF IInv
<1> DEFINE l == NewLevel("", outFileBase, TRUE)
<1>0. /\ phase = "init" /\ good' = good /\ exit' = exit /\ outFileBase' = outFileBase
      /\ job' = job /\ expect' = expect /\ blocks' = blocks /\ text' = text
      /\ described' = described /\ UNCHANGED lexer
  BY DEF InitOutput, parser
<1>1. /\ fnind \in DOMAIN job.inputs /\ levels = << >> /\ good /\ blocks = 0
      /\ outFileBase \in Chosen /\ outFileBase \in Bases /\ NoName \in Machines \union {NoName}
  BY <1>0, JobFacts DEF Phases, Typed
<1>z. fnind \in Nat /\ \A i \in DOMAIN job.inputs : i \in Nat
  BY JobFacts DEF Typed
<1>2. /\ l \in LevelType /\ l.machine = "" /\ l.base = outFileBase /\ l.todo = << >>
      /\ l.streams = IF NamesOnly THEN << >> ELSE Streams(outFileBase, TRUE)
      /\ Held(l) \subseteq Files
      /\ Held(l) = IF NamesOnly THEN {} ELSE [base : {outFileBase}, slot : Opened(outFileBase, TRUE)]
  BY <1>1, Begins DEF Typed, NoName
<1>3. handles' = handles \union Held(l) /\ printed' = printed
  <2>1. Open(outFileBase, TRUE)
    BY DEF InitOutput
  <2> QED BY <1>1, <2>1, Opens DEF Typed, NoName
<1> HIDE DEF l
<1>4. handles' \subseteq Files /\ printed' \subseteq Files /\ \A f \in handles : Unclosed(f)
  <2>1. Len(levels) = 0
    BY <1>1
  <2>2. \A f \in handles : Unclosed(f)
    BY <2>1 DEF HandlesKnown
  <2> QED BY <1>2, <1>3, <2>2 DEF Simple
<1>5. CASE InitReports(outFileBase, TRUE)
  <2>1. /\ phase' = "files" /\ skipped' = skipped \union {fnind} /\ fnind' = fnind + 1
        /\ levels' = levels /\ from' = from
    BY <1>5 DEF InitOutput, SkipInput
  <2>2. Simple'
    BY <1>0, <1>4, <2>1 DEF Simple, LexerTypeOK, lexer
  <2>3. Typed'
    BY <1>0, <2>1 DEF Typed, Chosen
  <2>4. Phases'
    BY <1>0, <1>1, <1>z, <2>1 DEF Phases, Typed
  <2>5. LevelsIn(levels)' /\ OpenIn(levels, handles)'
    BY <1>0, <1>1, <2>1, SameLevels DEF OpenIn
  <2>6. HandlesKnown'
    <3>1. job.css' = job.css /\ skipped' # {} /\ ~NamesOnly
      BY <1>0, <1>5, <2>1 DEF InitReports
    <3>2. \A f \in handles : f.slot = "html" /\ ~job.css
      BY <1>4 DEF Unclosed
    <3>3. \A f \in Held(l) : f.slot = "html" /\ ~job.css
      <4>1. /\ ToSet(SlotsOf(job.writer, TRUE)) = {job.writer} \ {"statistics"}
            /\ Opened(outFileBase, TRUE) \subseteq ToSet(SlotsOf(job.writer, TRUE))
        BY <1>5, Slotted, NotOpened DEF InitReports, Typed
      <4>2. \/ Opened(outFileBase, TRUE) # ToSet(SlotsOf(job.writer, TRUE))
            \/ job.writer = "html" /\ ~job.css
        BY <1>5 DEF InitReports, AllOpened
      <4> DEFINE op == Opened(outFileBase, TRUE)
                 all == ToSet(SlotsOf(job.writer, TRUE))
      <4> HIDE DEF op, all
      <4>a. all = {job.writer} \ {"statistics"} /\ op \subseteq all
        BY <4>1 DEF op, all
      <4>b. op # all \/ (job.writer = "html" /\ ~job.css)
        BY <4>2 DEF op, all
      <4>c. \A s \in op : s = job.writer /\ op = all
        BY <4>a
      <4>3. \A s \in Opened(outFileBase, TRUE) : s = "html" /\ ~job.css
        <5>1. \A s \in op : s = "html" /\ ~job.css
          <6>1. ASSUME NEW s \in op PROVE s = job.writer /\ op = all
            BY <4>c
          <6> QED BY <4>b, <6>1
        <5> QED BY <5>1 DEF op
      <4>4. Held(l) = [base : {outFileBase}, slot : Opened(outFileBase, TRUE)]
        BY <1>2, <3>1
      <4>5. \A f \in Held(l) : f.slot \in Opened(outFileBase, TRUE)
        <5>1. \A S : \A f \in [base : {outFileBase}, slot : S] : f.slot \in S
          OBVIOUS
        <5> QED BY <4>4, <5>1
      <4> QED BY <4>3, <4>5
    <3> QED BY <1>0, <1>3, <3>1, <3>2, <3>3 DEF HandlesKnown, Unclosed
  <2>7. Equipped' /\ CrashOnlyUnopened'
    BY <1>1, <2>1 DEF Equipped, CrashOnlyUnopened, Crashed
  <2> QED BY <2>2, <2>3, <2>4, <2>5, <2>6, <2>7
<1>6. CASE ~InitReports(outFileBase, TRUE)
  <2>1. /\ levels' = <<l>> /\ from' = Len(text) /\ fnind' = fnind /\ skipped' = skipped
        /\ \/ phase' = "crashed" /\ InitCrashes(outFileBase, TRUE)
           \/ phase' = "parse"
    BY <1>6 DEF InitOutput, Crash, l
  <2>2. Simple'
    BY <1>0, <1>4, <2>1 DEF Simple, LexerTypeOK, lexer
  <2>3. Typed'
    BY <1>0, <2>1 DEF Typed, Chosen
  <2>4. Phases'
    <3>1. Len(<<l>>) = 1 /\ from' = Len(text') /\ Len(text') - from' = 0
      BY <1>0, <2>1 DEF Typed
    <3>2. \A i \in DOMAIN job.inputs : i > fnind \/ i = fnind => described[i] = << >>
      BY <1>0 DEF Phases
    <3>3. blocks' <= Len(text') - from'
      BY <1>0, <1>1, <3>1
    <3>4. phase' # "write" /\ phase' \notin {"files", "init", "exited", "close"}
      BY <2>1
    <3>5. Len(levels') = 1
      BY <2>1, <3>1
    <3>6. \A i \in DOMAIN job'.inputs : i > fnind' => described'[i] = << >>
      BY <1>0, <2>1, <3>2
    <3> QED BY <1>0, <1>1, <2>1, <3>3, <3>4, <3>5, <3>6 DEF Phases
  <2>5. LevelsIn(levels)'
    <3>1. LevelOK(l, TRUE)
      <4>1. DOMAIN l.todo = {}
        <5>1. l.todo = << >>
          BY <1>2
        <5>2. \A q : q = << >> => DOMAIN q = {}
          OBVIOUS
        <5> QED BY <5>1, <5>2
      <4> QED BY <1>1, <1>2, <4>1 DEF LevelOK
    <3>2. /\ <<l>> \in Seq(LevelType) /\ Len(<<l>>) = 1 /\ <<l>>[1] = l
      <4>1. l \in LevelType
        BY <1>2
      <4> QED BY <4>1
    <3>3. LevelsIn(<<l>>)
      <4> DEFINE q == <<l>>
      <4> HIDE DEF q
      <4>1. q \in Seq(LevelType) /\ Len(q) = 1 /\ q[1] = l
        BY <3>2 DEF q
      <4>2. \A n \in 1 .. Len(q) : \A k : k = q[n] => LevelOK(k, n = 1)
        <5> SUFFICES ASSUME NEW n \in 1 .. Len(q) PROVE LevelOK(q[n], n = 1)
          OBVIOUS
        <5>1. n = 1 /\ (n = 1) = TRUE
          BY <4>1
        <5> QED BY <3>1, <4>1, <5>1
      <4>3. \A i, j \in 2 .. Len(q) : i < j => Rank[q[j].base] < Rank[q[i].base]
        BY <4>1
      <4>4. LevelsIn(q)
        BY <4>1, <4>2, <4>3 DEF LevelsIn
      <4> QED BY <4>4 DEF q
    <3> QED BY <1>0, <2>1, <3>3, SameLevels
  <2>6. OpenIn(levels, handles)'
    <3>1. Len(<<l>>) = 1 /\ <<l>>[1] = l /\ 1 .. 1 = {1}
      OBVIOUS
    <3>2. OpenIn(<<l>>, handles')
      BY <1>3, <3>1 DEF OpenIn, Held
    <3> QED BY <2>1, <3>2 DEF OpenIn
  <2>7. HandlesKnown'
    <3>1. /\ Len(levels') = 1 /\ levels'[1] = l /\ 1 \in 1 .. Len(levels')
          /\ job' = job /\ skipped' = skipped
      BY <1>0, <2>1
    <3>2. \A f \in handles' : Unclosed(f) \/ f \in Held(l)
      BY <1>3, <1>4
    <3> QED BY <3>1, <3>2 DEF HandlesKnown, Unclosed, Held
  <2>8. CrashOnlyUnopened'
    <3>1. ASSUME phase' = "crashed" PROVE C /\ \E f \in job.unwritable : TRUE
      BY <1>1, <2>1, <3>1, CrashedByUnopened DEF Typed
    <3> QED BY <1>0, <3>1 DEF CrashOnlyUnopened, Crashed, C
  <2>9. Equipped'
    <3>1. described'[fnind'] = << >> /\ phase' # "write"
      <4>1. fnind \in DOMAIN job.inputs /\ phase = "init"
        BY <1>0, <1>1
      <4>2. described[fnind] = << >>
        BY <4>1 DEF Phases
      <4> QED BY <1>0, <2>1, <4>2
    <3>2. ASSUME ~C PROVE Complete(l) /\ (NamesOnly \/ job.writer # "html" \/ job.css)
      <4>1. CASE NamesOnly
        <5>1. l.streams = << >>
          BY <1>2, <4>1
        <5>2. \A q : q = << >> => DOMAIN q = {}
          OBVIOUS
        <5> QED BY <4>1, <5>1, <5>2 DEF Complete
      <4>2. CASE ~NamesOnly
        <5>1. AllOpened(outFileBase, TRUE) /\ (job.writer # "html" \/ job.css)
          BY <1>6, <3>2, <4>2 DEF InitReports
        <5>2. StreamsMissing(outFileBase, TRUE)
          BY StreamFacts DEF Typed
        <5> QED BY <1>2, <4>2, <5>1, <5>2 DEF Complete, StreamsMissing
      <4> QED BY <4>1, <4>2
    <3>3. levels'[1] = l
      BY <2>1
    <3> QED BY <1>0, <2>1, <3>1, <3>2, <3>3 DEF Equipped, C, NamesOnly, Complete
  <2> QED BY <2>2, <2>3, <2>4, <2>5, <2>6, <2>7, <2>8, <2>9
<1> QED BY <1>5, <1>6

(* The last level changes in all but its name and its streams.             *)
LEMMA LastChanged ==
  ASSUME NEW ls, LevelsIn(ls), Len(ls) >= 1, NEW k \in LevelType, LevelOK(k, Len(ls) = 1),
         k.base = ls[Len(ls)].base, k.streams = ls[Len(ls)].streams
  PROVE  LET q == [ls EXCEPT ![Len(ls)] = k] IN
         /\ LevelsIn(q) /\ Len(q) = Len(ls)
         /\ \A n \in 1 .. Len(ls) : /\ q[n] = IF n = Len(ls) THEN k ELSE ls[n]
                                    /\ q[n].base = ls[n].base /\ q[n].streams = ls[n].streams
                                    /\ Held(q[n]) = Held(ls[n])
<1> DEFINE q == [ls EXCEPT ![Len(ls)] = k]
<1>1. ls \in Seq(LevelType) /\ Len(ls) \in 1 .. Len(ls)
  BY DEF LevelsIn
<1>2. /\ q \in Seq(LevelType) /\ Len(q) = Len(ls)
      /\ \A n \in 1 .. Len(ls) : q[n] = IF n = Len(ls) THEN k ELSE ls[n]
  BY <1>1
<1> HIDE DEF q
<1>3. \A n \in 1 .. Len(ls) : q[n].base = ls[n].base /\ q[n].streams = ls[n].streams
  BY <1>2
<1>4. \A n \in 1 .. Len(ls) : Held(q[n]) = Held(ls[n])
  BY <1>3 DEF Held
<1>5. \A n \in 1 .. Len(q) : \A l : l = q[n] => LevelOK(l, n = 1)
  <2> SUFFICES ASSUME NEW n \in 1 .. Len(ls) PROVE LevelOK(q[n], n = 1)
    BY <1>2
  <2>1. CASE n = Len(ls)
    <3>1. q[n] = k /\ (n = 1) = (Len(ls) = 1)
      BY <1>2, <2>1
    <3> QED BY <3>1
  <2>2. CASE n # Len(ls)
    <3>1. q[n] = ls[n]
      BY <1>2, <2>2
    <3> QED BY <3>1 DEF LevelsIn
  <2> QED BY <2>1, <2>2
<1>6. \A i, j \in 2 .. Len(q) : i < j => Rank[q[j].base] < Rank[q[i].base]
  <2> SUFFICES ASSUME NEW i \in 2 .. Len(q), NEW j \in 2 .. Len(q), i < j
               PROVE  Rank[q[j].base] < Rank[q[i].base]
    OBVIOUS
  <2>1. q[i].base = ls[i].base /\ q[j].base = ls[j].base /\ {i, j} \subseteq 2 .. Len(ls)
    BY <1>1, <1>2, <1>3
  <2> QED BY <2>1 DEF LevelsIn
<1> QED BY <1>2, <1>3, <1>4, <1>5, <1>6 DEF LevelsIn, q

LEMMA KeepsAllButLast ==
  ASSUME IInv, job' = job, handles' = handles, skipped' = skipped, Len(levels) >= 1,
         NEW k \in LevelType, LevelOK(k, Len(levels) = 1), k.base = Level.base, k.streams = Level.streams,
         levels' = [levels EXCEPT ![Len(levels)] = k]
  PROVE  /\ LevelsIn(levels)' /\ OpenIn(levels, handles)' /\ HandlesKnown'
         /\ Len(levels') = Len(levels)
         /\ \A n \in 1 .. Len(levels) : /\ levels'[n] = IF n = Len(levels) THEN k ELSE levels[n]
                                        /\ levels'[n].streams = levels[n].streams
<1> DEFINE q == [levels EXCEPT ![Len(levels)] = k]
<1>1. LevelsIn(levels) /\ Len(levels) \in Nat
  BY DEF IInv, LevelsIn
<1>3. /\ LevelsIn(q) /\ Len(q) = Len(levels)
      /\ \A n \in 1 .. Len(levels) : /\ q[n] = IF n = Len(levels) THEN k ELSE levels[n]
                                     /\ q[n].base = levels[n].base /\ q[n].streams = levels[n].streams
                                     /\ Held(q[n]) = Held(levels[n])
  BY <1>1, LastChanged DEF Level
<1>4. levels' = q
  OBVIOUS
<1> HIDE DEF q
<1>5. LevelsIn(levels)'
  BY <1>3, <1>4, SameLevels
<1>6. OpenIn(levels, handles)'
  <2> SUFFICES ASSUME NEW n \in 1 .. Len(q), NEW s \in DOMAIN q[n].streams
               PROVE  q[n].streams[s] \in handles' \union {NoFile}
    BY <1>4 DEF OpenIn
  <2>1. n \in 1 .. Len(levels) /\ q[n].streams = levels[n].streams
    BY <1>3
  <2> QED BY <2>1 DEF IInv, OpenIn
<1>7. HandlesKnown'
  <2> SUFFICES ASSUME NEW f \in handles', ~Unclosed(f)'
               PROVE  \E n \in 1 .. Len(q) : f \in Held(q[n])
    BY <1>4 DEF HandlesKnown, Held
  <2>1. f \in handles /\ ~Unclosed(f)
    BY DEF Unclosed
  <2>2. PICK n \in 1 .. Len(levels) : f \in Held(levels[n])
    BY <2>1 DEF IInv, HandlesKnown
  <2> QED BY <1>3, <2>2
<1> QED BY <1>3, <1>4, <1>5, <1>6, <1>7

LEMMA MachineKeeps ==
  ASSUME IInv, phase = "parse", NEW t, Machine(t), UNCHANGED <<main, files, from, skipped>>,
         LexerTypeOK', text' \in Seq(Lexemes), Len(text) <= Len(text')
  PROVE  IInv'
<1> USE DEF IInv
<1> DEFINE m == t.lexeme
           k == [Level EXCEPT !.machine = m, !.todo = Parts(m)]
<1>0. /\ job' = job /\ fnind' = fnind /\ outFileBase' = outFileBase /\ exit' = exit
      /\ handles' = handles /\ printed' = printed /\ skipped' = skipped /\ from' = from
      /\ phase' = "write" /\ expect' = "machine" /\ blocks' = 0
  BY DEF Machine, main, files
<1>1. /\ m \in Words /\ m \in Machines /\ good' \in BOOLEAN
      /\ fnind \in DOMAIN job.inputs /\ Len(levels) = 1 /\ fnind \in Nat
  BY Ranks DEF Machine, Simple, Phases, Typed
<1>2. /\ described' = [described EXCEPT ![fnind] = Append(@, m)]
      /\ levels' = [levels EXCEPT ![Len(levels)].machine = m, ![Len(levels)].todo = Parts(m)]
  BY DEF Machine, WriteMachine
<1>3. /\ Parts(m) \in Seq(Part) /\ Parts(m) # << >> /\ Head(Parts(m)) \notin Machines
      /\ \A i \in DOMAIN Parts(m) : Parts(m)[i] \in Machines =>
              Parts(m)[i] \in Subs /\ Rank[Parts(m)[i]] < Rank[m]
  BY <1>1, PartsFacts DEF Typed
<1>4. levels \in Seq(LevelType) /\ Level \in LevelType /\ Level = levels[1] /\ LevelOK(levels[1], TRUE)
  <2>1. levels \in Seq(LevelType) /\ 1 \in 1 .. Len(levels)
    BY <1>1 DEF LevelsIn
  <2>2. LevelOK(levels[1], 1 = 1)
    BY <2>1 DEF LevelsIn
  <2>3. LevelOK(levels[1], TRUE)
    BY <2>2
  <2>4. levels[1] \in LevelType
    BY <2>1
  <2> QED BY <1>1, <2>1, <2>3, <2>4 DEF Level
<1> HIDE DEF m
<1>5. /\ k \in LevelType /\ k.base = Level.base /\ k.streams = Level.streams
      /\ k.machine = m /\ k.todo = Parts(m)
  BY <1>1, <1>3, <1>4 DEF LevelType
<1>6. levels' = [levels EXCEPT ![Len(levels)] = k]
  BY <1>1, <1>2, <1>4
<1> HIDE DEF k
<1>7. LevelOK(k, Len(levels) = 1)
  <2>1. LevelOK(k, TRUE)
    BY <1>1, <1>3, <1>4, <1>5 DEF LevelOK
  <2>2. (Len(levels) = 1) = TRUE
    BY <1>1
  <2> QED BY <2>1, <2>2
<1>8. /\ LevelsIn(levels)' /\ OpenIn(levels, handles)' /\ HandlesKnown'
      /\ Len(levels') = 1 /\ levels'[1] = k
  <2>1. Len(levels) >= 1 /\ 1 \in 1 .. Len(levels)
    BY <1>1
  <2>2. /\ LevelsIn(levels)' /\ OpenIn(levels, handles)' /\ HandlesKnown'
        /\ Len(levels') = Len(levels)
        /\ \A n \in 1 .. Len(levels) : levels'[n] = IF n = Len(levels) THEN k ELSE levels[n]
    BY <1>0, <1>5, <1>6, <1>7, <2>1, KeepsAllButLast
  <2> QED BY <1>1, <2>1, <2>2
<1>9. Simple'
  BY <1>0, <1>1, JobFacts DEF Simple, Typed
<1>10. Typed'
  <2>1. described' \in [DOMAIN job.inputs -> Seq(Words)]
    BY <1>1, <1>2 DEF Typed
  <2>2. from' \in 0 .. Len(text')
    BY <1>0 DEF Typed
  <2> QED BY <1>0, <2>1, <2>2 DEF Typed, Chosen
<1>11. Phases'
  <2>1. \A i \in DOMAIN job.inputs : i > fnind => described'[i] = << >>
    <3> SUFFICES ASSUME NEW i \in DOMAIN job.inputs, i > fnind PROVE described'[i] = << >>
      OBVIOUS
    <3>1. i # fnind /\ described'[i] = described[i]
      BY <1>1, <1>2 DEF Typed
    <3> QED BY <3>1 DEF Phases
  <2> QED BY <1>0, <1>1, <1>8, <2>1 DEF Phases
<1>12. Equipped' /\ CrashOnlyUnopened'
  <2>1. Ready(k)
    BY <1>3, <1>5 DEF Ready
  <2>2. ~C => Complete(k) /\ (NamesOnly \/ job.writer # "html" \/ job.css)
    <3>a. Len(levels) # 0 /\ Len(<< >>) = 0
      BY <1>1
    <3>1. levels # << >>
      BY <3>a
    <3>2. ~C => Complete(levels[1]) /\ (NamesOnly \/ job.writer # "html" \/ job.css)
      BY <3>1 DEF Equipped
    <3> QED BY <1>4, <1>5, <3>2 DEF Complete
  <2>3. C' = C /\ NamesOnly' = NamesOnly /\ \A n \in 1 .. 1 : n = 1
    BY <1>0, SameJob
  <2>4. \A n \in 1 .. Len(levels') : Ready(levels'[n])
    BY <1>8, <2>1
  <2> QED BY <1>0, <1>8, <2>2, <2>3, <2>4 DEF Equipped, Ready, Complete, CrashOnlyUnopened, Crashed
<1> QED BY <1>8, <1>9, <1>10, <1>11, <1>12

LEMMA ParseKeeps ==
  ASSUME IInv, phase = "parse", UNCHANGED <<main, files, from, skipped, described, levels>>,
         phase' = "parse" \/ (phase' = "close" /\ (good' => blocks' = 0 /\ described[fnind] # << >>)),
         good' \in BOOLEAN, expect' \in {"machine", "block"},
         blocks' \in Nat, blocks' <= job.length, blocks' <= Len(text') - from,
         LexerTypeOK', text' \in Seq(Lexemes), Len(text) <= Len(text')
  PROVE  IInv'
<1> USE DEF IInv
<1>0. /\ job' = job /\ fnind' = fnind /\ outFileBase' = outFileBase /\ exit' = exit
      /\ handles' = handles /\ printed' = printed /\ skipped' = skipped /\ from' = from
      /\ levels' = levels /\ described' = described
  BY DEF main, files
<1>1. LevelsIn(levels)' /\ OpenIn(levels, handles)' /\ HandlesKnown'
  BY <1>0, KeepsWork
<1>2. Simple'
  BY <1>0, JobFacts DEF Simple, Typed
<1>3. Typed'
  BY <1>0 DEF Typed, Chosen
<1>4. Phases'
  BY <1>0 DEF Phases
<1>5. Equipped'
  BY <1>0, SameJob DEF Equipped, Complete
<1>6. CrashOnlyUnopened'
  BY DEF CrashOnlyUnopened, Crashed
<1> QED BY <1>1, <1>2, <1>3, <1>4, <1>5, <1>6

LEMMA ReadKeeps ==
  ASSUME IInv, NEW x \in job.lexemes, Read(x)
  PROVE  IInv'
<1> USE DEF IInv
<1>0. /\ phase = "parse" /\ Len(text) - from < job.length /\ Scan(x) /\ text' = Append(text, x)
      /\ UNCHANGED <<main, files, from, skipped>>
  BY DEF Read
<1>1. /\ x \in Lexemes /\ job.length \in Nat /\ Len(text) \in Nat /\ from \in Nat
      /\ text' \in Seq(Lexemes) /\ Len(text') = Len(text) + 1
  BY <1>0, JobFacts DEF Typed
<1>2. LexerTypeOK'
  BY <1>0, <1>1, ScanTyped DEF Simple
<1>3. /\ good \in BOOLEAN /\ expect \in {"machine", "block"} /\ blocks \in Nat
      /\ blocks <= job.length /\ blocks <= Len(text) - from
  BY <1>0, <1>1 DEF Simple, Phases
<1>4. \/ UNCHANGED <<good, phase, parser, described, levels>>
      \/ Machine(token'[1]) \/ NativeBlock(token'[1]) \/ SyntaxError
  BY DEF Read
<1>5. CASE UNCHANGED <<good, phase, parser, described, levels>>
  BY <1>0, <1>1, <1>2, <1>3, <1>5, ParseKeeps DEF parser
<1>6. CASE Machine(token'[1])
  BY <1>0, <1>1, <1>2, <1>6, MachineKeeps
<1>7. CASE NativeBlock(token'[1])
  <2>1. /\ UNCHANGED <<phase, described, levels>> /\ good' \in BOOLEAN
        /\ expect' \in {"machine", "block"} /\ blocks' \in {blocks, blocks + 1}
    BY <1>3, <1>7 DEF NativeBlock
  <2> QED BY <1>0, <1>1, <1>2, <1>3, <2>1, ParseKeeps
<1>8. CASE SyntaxError
  <2>1. /\ UNCHANGED <<described, levels>> /\ good' = FALSE /\ phase' = "close"
        /\ expect' = expect /\ blocks' = blocks
    BY <1>8 DEF SyntaxError, parser
  <2>2. phase' = "close" /\ (good' => blocks' = 0 /\ described[fnind] # << >>) /\ good' \in BOOLEAN
    BY <2>1
  <2>3. blocks' \in Nat /\ blocks' <= job.length /\ blocks' <= Len(text') - from
    BY <1>1, <1>3, <2>1
  <2> QED BY <1>0, <1>1, <1>2, <1>3, <2>1, <2>2, <2>3, ParseKeeps
<1> QED BY <1>4, <1>5, <1>6, <1>7, <1>8

LEMMA EndOfFileKeeps ==
  ASSUME IInv, EndOfFile
  PROVE  IInv'
<1> USE DEF IInv
<1>1. /\ phase = "parse" /\ UNCHANGED <<main, files, text, from, skipped, lexer>>
      /\ UNCHANGED <<described, levels>> /\ expect' = expect /\ blocks' = blocks /\ phase' = "close"
      /\ \/ good' = FALSE
         \/ good' = good /\ blocks = 0 /\ described[fnind] # << >>
  BY DEF EndOfFile, SyntaxError, parser
<1>2. LexerTypeOK'
  BY <1>1 DEF Simple, LexerTypeOK, lexer
<1>3. good' \in BOOLEAN /\ expect \in {"machine", "block"}
  BY <1>1 DEF Simple
<1>4. job.length \in Nat /\ text \in Seq(Lexemes)
  BY JobFacts DEF Typed
<1>5. /\ blocks \in Nat /\ blocks <= job.length /\ blocks <= Len(text) - from
      /\ Len(text) \in Nat
  BY <1>1, <1>4 DEF Simple, Phases
<1>6. /\ phase' = "close" /\ (good' => blocks' = 0 /\ described[fnind] # << >>)
      /\ text' = text
  BY <1>1
<1> QED BY <1>1, <1>2, <1>3, <1>4, <1>5, <1>6, ParseKeeps

LEMMA WritePartKeeps ==
  ASSUME IInv, WritePart
  PROVE  IInv'
<1> USE DEF IInv
<1> DEFINE k == [Level EXCEPT !.todo = Tail(@)]
           st == Level.streams
<1>0. /\ phase = "write" /\ Level.todo # << >> /\ Head(Level.todo) \notin Machines
      /\ job' = job /\ fnind' = fnind /\ outFileBase' = outFileBase /\ exit' = exit
      /\ handles' = handles /\ skipped' = skipped /\ from' = from /\ text' = text
      /\ good' = good /\ expect' = expect /\ blocks' = blocks /\ described' = described
      /\ levels' = [levels EXCEPT ![Len(levels)].todo = Tail(@)] /\ UNCHANGED lexer
  BY DEF WritePart, main, parser, history, Rest
<1>1. /\ Len(levels) >= 1 /\ Len(levels) \in 1 .. Len(levels) /\ levels \in Seq(LevelType)
      /\ Level \in LevelType /\ Level = levels[Len(levels)] /\ LevelOK(Level, Len(levels) = 1)
  <2>1. Len(levels) >= 1 /\ levels \in Seq(LevelType)
    BY <1>0 DEF Phases, LevelsIn
  <2>2. Len(levels) \in 1 .. Len(levels)
    BY <2>1
  <2>3. LevelOK(levels[Len(levels)], Len(levels) = 1)
    BY <2>2 DEF LevelsIn
  <2>4. levels[Len(levels)] \in LevelType
    BY <2>1, <2>2
  <2> QED BY <2>1, <2>2, <2>3, <2>4 DEF Level
<1>2. Level.todo \in Seq(Part)
  BY <1>1 DEF LevelType
<1>3. /\ Tail(Level.todo) \in Seq(Part)
      /\ \A i \in DOMAIN Tail(Level.todo) : /\ i + 1 \in DOMAIN Level.todo
                                            /\ Tail(Level.todo)[i] = Level.todo[i + 1]
  BY <1>0, <1>2
<1>4. /\ k \in LevelType /\ k.base = Level.base /\ k.streams = st /\ k.machine = Level.machine
      /\ k.todo = Tail(Level.todo) /\ levels' = [levels EXCEPT ![Len(levels)] = k]
  BY <1>0, <1>1, <1>3 DEF LevelType
<1> HIDE DEF k
<1>5. LevelOK(k, Len(levels) = 1)
  BY <1>1, <1>3, <1>4 DEF LevelOK
<1>6. /\ LevelsIn(levels)' /\ OpenIn(levels, handles)' /\ HandlesKnown'
      /\ Len(levels') = Len(levels)
      /\ \A n \in 1 .. Len(levels) : /\ levels'[n] = IF n = Len(levels) THEN k ELSE levels[n]
                                     /\ levels'[n].streams = levels[n].streams
  BY <1>0, <1>1, <1>4, <1>5, KeepsAllButLast
<1>7. st = (IF NamesOnly THEN << >> ELSE Streams(Level.base, Len(levels) = 1))
  BY <1>1 DEF LevelOK
<1>8. \/ phase' = "write" /\ Complete(Level) /\ printed' \in SUBSET Files
      \/ /\ phase' = "crashed" /\ printed' = printed /\ ~NamesOnly
         /\ \E s \in DOMAIN st : st[s] = NoFile
  <2>1. CASE NamesOnly
    <3>1. phase' = "write" /\ printed' = printed \union NamesOf(Level, IsTop)
      BY <1>0, <2>1 DEF WritePart
    <3>2. Complete(Level)
      <4>1. st = << >>
        BY <1>7, <2>1
      <4>2. \A q : q = << >> => DOMAIN q = {}
        OBVIOUS
      <4> QED BY <4>1, <4>2 DEF Complete
    <3>3. NamesOf(Level, IsTop) \subseteq Files
      <4> DEFINE named(slots) == [base : {Level.base}, slot : slots]
      <4>1. Level.base \in Bases
        BY <1>1 DEF LevelType
      <4>2. \A S \in SUBSET Slots : named(S) \subseteq Files
        BY <4>1 DEF Files
      <4>3. \E S \in SUBSET Slots : NamesOf(Level, IsTop) = named(S)
        <5> HIDE DEF named
        <5>1. CASE ~C
          <6>1. NamesOf(Level, IsTop) = named({job.writer}) /\ {job.writer} \in SUBSET Slots
            BY <2>1, <5>1 DEF NamesOf, named, NamesOnly, C, Slots
          <6> QED BY <6>1
        <5>2. CASE C /\ job.names = "sources"
          <6>1. NamesOf(Level, IsTop) = named({"c"}) /\ {"c"} \in SUBSET Slots
            BY <5>2 DEF NamesOf, named, Slots
          <6> QED BY <6>1
        <5>3. CASE C /\ job.names = "headers"
          <6> DEFINE h == {"h", "subMachineH", "eventsH"}
          <6>1. NamesOf(Level, IsTop) = named(IF IsTop THEN h \union {"pubH"} ELSE h)
            BY <5>3 DEF NamesOf, named
          <6>2. (IF IsTop THEN h \union {"pubH"} ELSE h) \in SUBSET Slots
            BY DEF Slots
          <6> QED BY <6>1, <6>2
        <5>4. CASE C /\ job.names = "recipe"
          <6> DEFINE h == {"h", "subMachineH", "eventsH"}
          <6>1. NamesOf(Level, IsTop) = named(h \union {"c", "pubH"})
            BY <5>4 DEF NamesOf, named
          <6>2. h \union {"c", "pubH"} \in SUBSET Slots
            BY DEF Slots
          <6> QED BY <6>1, <6>2
        <5>5. job.names \in {"sources", "headers", "recipe"}
          BY <2>1, JobFacts DEF NamesOnly, Typed
        <5> QED BY <5>1, <5>2, <5>3, <5>4, <5>5
      <4> QED BY <4>2, <4>3
    <3> QED BY <3>1, <3>2, <3>3 DEF Simple
  <2>2. CASE ~NamesOnly
    <3>1. IF NoFile \in StreamsOf(Slots) THEN phase' = "crashed" ELSE phase' = phase
      BY <2>2 DEF WritePart, Crash
    <3>2. printed' = printed
      BY <2>2 DEF WritePart
    <3>3. DOMAIN st \subseteq Slots
      <4>1. StreamsNamed(Level.base, Len(levels) = 1)
        BY StreamFacts DEF Typed
      <4> QED BY <1>7, <2>2, <4>1, Slotted DEF StreamsNamed, Typed
    <3>4. NoFile \in StreamsOf(Slots) <=> \E s \in DOMAIN st : st[s] = NoFile
      BY <3>3 DEF StreamsOf
    <3> QED BY <1>0, <2>2, <3>1, <3>2, <3>4 DEF Simple, Complete
  <2> QED BY <2>1, <2>2
<1>9. Simple'
  BY <1>0, <1>8 DEF Simple, LexerTypeOK, lexer
<1>10. Typed'
  BY <1>0 DEF Typed, Chosen
<1>11. Phases'
  BY <1>0, <1>1, <1>6, <1>8 DEF Phases
<1>12. Equipped'
  <2>1. ASSUME phase' = "write", NEW n \in 1 .. Len(levels) PROVE Ready(levels'[n])
    <3>1. CASE n = Len(levels)
      BY <1>4, <1>6, <1>8, <2>1, <3>1 DEF Ready, Complete
    <3>2. CASE n # Len(levels)
      BY <1>0, <1>6, <3>2 DEF Equipped
    <3> QED BY <3>1, <3>2
  <2>2. ~C => Complete(levels'[1]) /\ (NamesOnly \/ job.writer # "html" \/ job.css)
    <3>a. Len(levels) # 0 /\ Len(<< >>) = 0
      BY <1>1
    <3>1. levels # << >> /\ 1 \in 1 .. Len(levels)
      BY <1>1, <3>a
    <3> QED BY <1>6, <3>1 DEF Equipped, Complete
  <2>3. phase' \notin {"parse", "close"}
    BY <1>8
  <2>4. C' = C /\ NamesOnly' = NamesOnly
    BY <1>0, SameJob
  <2> QED BY <1>0, <1>6, <2>1, <2>2, <2>3, <2>4 DEF Equipped, Ready, Complete
<1>13. CrashOnlyUnopened'
  <2>1. ASSUME phase' = "crashed" PROVE \E f \in job.unwritable : C \/ f.base \in Machines \ Words
    <3>1. ~NamesOnly /\ \E s \in DOMAIN st : st[s] = NoFile
      BY <1>8, <2>1
    <3>2. \E f \in job.unwritable : f.base = Level.base
      <4>1. StreamsMissing(Level.base, Len(levels) = 1)
        BY StreamFacts DEF Typed
      <4> QED BY <1>7, <3>1, <4>1 DEF StreamsMissing
    <3>3. C \/ Len(levels) # 1
      <4>1. CASE Len(levels) = 1
        <5>a. Len(levels) # 0 /\ Len(<< >>) = 0
          BY <4>1
        <5>1. levels # << >> /\ Level = levels[1]
          BY <1>1, <4>1, <5>a
        <5> QED BY <3>1, <5>1 DEF Equipped, Complete
      <4> QED BY <4>1
    <3>4. CASE Len(levels) # 1
      <4>1. Level.base \in Subs
        BY <1>1, <3>4 DEF LevelOK
      <4> QED BY <3>2, <4>1 DEF Subs
    <3> QED BY <3>2, <3>3, <3>4
  <2> QED BY <1>0, <2>1 DEF CrashOnlyUnopened, Crashed, C
<1> QED BY <1>6, <1>9, <1>10, <1>11, <1>12, <1>13

(* What is known of the last level while machines are written.             *)
LEMMA AtWork ==
  ASSUME IInv, phase \in {"write", "close"}
  PROVE  /\ Len(levels) \in Nat /\ Len(levels) >= 1 /\ levels # << >>
         /\ Len(levels) \in 1 .. Len(levels) /\ 1 \in 1 .. Len(levels)
         /\ levels \in Seq(LevelType) /\ Level \in LevelType /\ Level = levels[Len(levels)]
         /\ LevelOK(Level, Len(levels) = 1)
         /\ \A n \in 1 .. Len(levels) : levels[n] \in LevelType /\ LevelOK(levels[n], n = 1)
<1> USE DEF IInv
<1>1. Len(levels) >= 1 /\ levels \in Seq(LevelType)
  BY DEF Phases, LevelsIn
<1>2. Len(levels) \in Nat /\ Len(levels) \in 1 .. Len(levels) /\ 1 \in 1 .. Len(levels)
  BY <1>1
<1>3. \A n \in 1 .. Len(levels) : levels[n] \in LevelType /\ LevelOK(levels[n], n = 1)
  BY <1>1 DEF LevelsIn
<1>4. levels # << >>
  <2>1. Len(levels) # 0 /\ Len(<< >>) = 0
    BY <1>1
  <2> QED BY <2>1
<1> QED BY <1>1, <1>2, <1>3, <1>4 DEF Level

(* Another level is begun above the last.                                  *)
LEMMA Deeper ==
  ASSUME NEW ls, LevelsIn(ls), NEW l \in LevelType, Len(ls) >= 1, LevelOK(l, FALSE),
         \A i \in 2 .. Len(ls) : Rank[l.base] < Rank[ls[i].base]
  PROVE  LET q == Append(ls, l) IN
         /\ LevelsIn(q) /\ Len(q) = Len(ls) + 1
         /\ \A n \in 1 .. Len(q) : q[n] = IF n = Len(q) THEN l ELSE ls[n]
<1> DEFINE q == Append(ls, l)
<1>1. ls \in Seq(LevelType) /\ Len(ls) \in Nat
  BY DEF LevelsIn
<1>2. /\ q \in Seq(LevelType) /\ Len(q) = Len(ls) + 1
      /\ \A n \in 1 .. Len(q) : q[n] = IF n = Len(q) THEN l ELSE ls[n]
  BY <1>1
<1> HIDE DEF q
<1>3. \A n \in 1 .. Len(q) : \A k : k = q[n] => LevelOK(k, n = 1)
  <2> SUFFICES ASSUME NEW n \in 1 .. Len(q) PROVE LevelOK(q[n], n = 1)
    OBVIOUS
  <2>1. CASE n = Len(q)
    <3>1. q[n] = l /\ (n = 1) = FALSE
      BY <1>1, <1>2, <2>1
    <3> QED BY <3>1
  <2>2. CASE n # Len(q)
    <3>1. q[n] = ls[n] /\ n \in 1 .. Len(ls)
      BY <1>1, <1>2, <2>2
    <3> QED BY <3>1 DEF LevelsIn
  <2> QED BY <2>1, <2>2
<1>4. \A i, j \in 2 .. Len(q) : i < j => Rank[q[j].base] < Rank[q[i].base]
  <2> SUFFICES ASSUME NEW i \in 2 .. Len(q), NEW j \in 2 .. Len(q), i < j
               PROVE  Rank[q[j].base] < Rank[q[i].base]
    OBVIOUS
  <2>1. i \in 2 .. Len(ls) /\ q[i] = ls[i]
    BY <1>1, <1>2
  <2>2. CASE j = Len(q)
    <3>1. q[j] = l
      BY <1>1, <1>2, <2>2
    <3> QED BY <2>1, <3>1
  <2>3. CASE j # Len(q)
    <3>1. j \in 2 .. Len(ls) /\ q[j] = ls[j]
      BY <1>1, <1>2, <2>3
    <3> QED BY <2>1, <3>1 DEF LevelsIn
  <2> QED BY <2>2, <2>3
<1> QED BY <1>2, <1>3, <1>4 DEF LevelsIn, q

LEMMA BeginSubMachineKeeps ==
  ASSUME IInv, BeginSubMachine
  PROVE  IInv'
<1> USE DEF IInv
<1> DEFINE m == Head(Level.todo)
           k == [Level EXCEPT !.todo = Tail(@), !.subSeen = C /\ ~NamesOnly]
           ls == [levels EXCEPT ![Len(levels)] = k]
           new == NewLevel(m, m, FALSE)
           l == [new EXCEPT !.todo = Parts(m)]
<1>0. /\ phase = "write" /\ Level.todo # << >> /\ m \in Machines /\ Open(m, FALSE)
      /\ job' = job /\ fnind' = fnind /\ outFileBase' = outFileBase /\ exit' = exit
      /\ skipped' = skipped /\ from' = from /\ text' = text
      /\ good' = good /\ expect' = expect /\ blocks' = blocks /\ described' = described
      /\ UNCHANGED lexer
      /\ \/ phase' = "crashed" /\ InitCrashes(m, FALSE)
         \/ phase' = "write"
  BY DEF BeginSubMachine, main, parser, history, Crash
<1>a. levels' = Append([[levels EXCEPT ![Len(levels)].todo = Tail(@)]
                          EXCEPT ![Len(levels)].subSeen = C /\ ~NamesOnly], l)
  BY DEF BeginSubMachine, Rest
<1>1. /\ Len(levels) \in Nat /\ Len(levels) >= 1 /\ levels # << >>
      /\ Len(levels) \in 1 .. Len(levels) /\ 1 \in 1 .. Len(levels)
      /\ levels \in Seq(LevelType) /\ Level \in LevelType /\ Level = levels[Len(levels)]
      /\ LevelOK(Level, Len(levels) = 1)
  BY <1>0, AtWork
<1>2. Level.todo \in Seq(Part) /\ Len(Level.todo) >= 1 /\ 1 \in DOMAIN Level.todo /\ m = Level.todo[1]
  <2>1. Level.todo \in Seq(Part)
    BY <1>1 DEF LevelType
  <2> QED BY <1>0, <2>1
<1>3. /\ Tail(Level.todo) \in Seq(Part)
      /\ \A i \in DOMAIN Tail(Level.todo) : /\ i + 1 \in DOMAIN Level.todo
                                            /\ Tail(Level.todo)[i] = Level.todo[i + 1]
  BY <1>0, <1>2
<1>4. /\ k \in LevelType /\ k.base = Level.base /\ k.streams = Level.streams
      /\ k.machine = Level.machine /\ k.todo = Tail(Level.todo)
  <2>1. (C /\ ~NamesOnly) \in BOOLEAN
    BY DEF C, NamesOnly
  <2> HIDE DEF m
  <2> QED BY <1>1, <1>3, <2>1 DEF LevelType
<1>5. LevelOK(k, Len(levels) = 1)
  <2> HIDE DEF k
  <2> QED BY <1>1, <1>3, <1>4 DEF LevelOK
<1>6. levels' = Append(ls, l)
  <2> HIDE DEF l
  <2> QED BY <1>a, <1>1
<1>7. m \in Subs /\ Level.machine \in Machines /\ Rank[m] < Rank[Level.machine]
  BY <1>0, <1>1, <1>2 DEF LevelOK
<1>8. Complete(Level)
  <2>1. Ready(levels[Len(levels)])
    BY <1>0, <1>1 DEF Equipped
  <2> QED BY <1>0, <1>1, <2>1 DEF Ready
<1> HIDE DEF m, k
<1>9. /\ LevelsIn(ls) /\ Len(ls) = Len(levels)
      /\ \A n \in 1 .. Len(levels) : /\ ls[n] = IF n = Len(levels) THEN k ELSE levels[n]
                                     /\ ls[n].base = levels[n].base
                                     /\ ls[n].streams = levels[n].streams
                                     /\ Held(ls[n]) = Held(levels[n])
  BY <1>1, <1>4, <1>5, LastChanged
<1> HIDE DEF ls
<1>10. m \in Machines \union {NoName} /\ m \in Bases
  BY <1>0, JobFacts, <1>7 DEF Typed
<1>11. /\ new \in LevelType /\ new.machine = m /\ new.base = m
       /\ new.streams = IF NamesOnly THEN << >> ELSE Streams(m, FALSE)
       /\ Held(new) \subseteq Files
  BY <1>10, Begins DEF Typed
<1>12. handles' = handles \union Held(new) /\ printed' = printed
  BY <1>0, <1>10, Opens DEF Typed
<1> HIDE DEF new
<1>13. /\ Parts(m) \in Seq(Part) /\ Parts(m) # << >> /\ Head(Parts(m)) \notin Machines
       /\ \A i \in DOMAIN Parts(m) : Parts(m)[i] \in Machines =>
               Parts(m)[i] \in Subs /\ Rank[Parts(m)[i]] < Rank[m]
  BY <1>0, PartsFacts DEF Typed
<1>14. /\ l \in LevelType /\ l.machine = m /\ l.base = m /\ l.streams = new.streams
       /\ l.todo = Parts(m) /\ Held(l) = Held(new)
  <2>1. l \in LevelType /\ l.machine = m /\ l.base = m /\ l.streams = new.streams /\ l.todo = Parts(m)
    BY <1>11, <1>13 DEF LevelType
  <2> QED BY <2>1 DEF Held
<1> HIDE DEF l
<1>15. LevelOK(l, FALSE)
  BY <1>0, <1>7, <1>11, <1>13, <1>14 DEF LevelOK
<1>16. \A i \in 2 .. Len(ls) : Rank[l.base] < Rank[ls[i].base]
  <2> SUFFICES ASSUME NEW i \in 2 .. Len(levels) PROVE Rank[m] < Rank[levels[i].base]
    BY <1>1, <1>9, <1>14
  <2>1. (Len(levels) = 1) = FALSE
    BY <1>1
  <2>2. Level.machine = Level.base /\ Level.base \in Subs
    BY <1>1, <2>1 DEF LevelOK
  <2>3. levels[i].base \in Subs
    <3>1. levels[i] \in LevelType /\ LevelOK(levels[i], i = 1) /\ i # 1
      BY <1>0, <1>1, AtWork
    <3> QED BY <3>1 DEF LevelOK
  <2>4. Rank[m] \in Nat /\ Rank[Level.base] \in Nat /\ Rank[levels[i].base] \in Nat
    BY <1>0, <2>2, <2>3, Ranks DEF Subs
  <2>5. i = Len(levels) \/ Rank[Level.base] < Rank[levels[i].base]
    <3>1. ASSUME i # Len(levels) PROVE i < Len(levels) /\ Len(levels) \in 2 .. Len(levels)
      BY <1>1, <3>1
    <3> QED BY <1>1, <3>1 DEF LevelsIn
  <2>6. i = Len(levels) => levels[i].base = Level.base
    BY <1>1
  <2> QED BY <1>7, <2>2, <2>4, <2>5, <2>6
<1>17. /\ LevelsIn(levels') /\ Len(levels') = Len(levels) + 1
       /\ \A n \in 1 .. Len(levels') : levels'[n] = IF n = Len(levels') THEN l ELSE ls[n]
  <2> DEFINE q == Append(ls, l)
  <2>1. LevelsIn(ls) /\ Len(ls) >= 1 /\ l \in LevelType
    BY <1>1, <1>9, <1>14
  <2>2. /\ LevelsIn(q) /\ Len(q) = Len(ls) + 1
        /\ \A n \in 1 .. Len(q) : q[n] = IF n = Len(q) THEN l ELSE ls[n]
    BY <1>15, <1>16, <2>1, Deeper
  <2> HIDE DEF q
  <2>3. levels' = q
    BY <1>6 DEF q
  <2> QED BY <1>9, <2>2, <2>3
<1>18. /\ levels'[Len(levels) + 1] = l /\ Len(levels) + 1 \in 1 .. Len(levels')
       /\ \A n \in 1 .. Len(levels) : /\ n \in 1 .. Len(levels')
                                      /\ levels'[n].streams = levels[n].streams
                                      /\ Held(levels'[n]) = Held(levels[n])
       /\ \A n \in 1 .. Len(levels') : n = Len(levels) + 1 \/ n \in 1 .. Len(levels)
  <2>1. \A n \in 1 .. Len(levels) : n \in 1 .. Len(levels') /\ n # Len(levels')
    BY <1>1, <1>17
  <2>2. \A n \in 1 .. Len(levels) : levels'[n] = ls[n]
    BY <1>17, <2>1
  <2> QED BY <1>1, <1>9, <1>17, <2>1, <2>2
<1>19. LevelsIn(levels)'
  BY <1>0, <1>17, SameLevels
<1>20. OpenIn(levels, handles)'
  <2>1. ASSUME NEW n \in 1 .. Len(levels'), NEW s \in DOMAIN levels'[n].streams
        PROVE  levels'[n].streams[s] \in handles' \union {NoFile}
    <3>1. CASE n \in 1 .. Len(levels)
      BY <1>12, <1>18, <2>1, <3>1 DEF OpenIn
    <3>2. CASE n = Len(levels) + 1
      BY <1>12, <1>14, <1>18, <2>1, <3>2 DEF Held
    <3> QED BY <1>18, <3>1, <3>2
  <2> QED BY <2>1 DEF OpenIn
<1>21. HandlesKnown'
  <2>1. ASSUME NEW f \in handles', ~(f.slot = "html" /\ ~job.css /\ skipped # {})
        PROVE  \E n \in 1 .. Len(levels') : f \in Held(levels'[n])
    <3>1. CASE f \in handles
      <4>1. PICK n \in 1 .. Len(levels) : f \in Held(levels[n])
        BY <2>1, <3>1 DEF HandlesKnown, Unclosed
      <4> QED BY <1>18, <4>1
    <3>2. CASE f \in Held(new)
      BY <1>14, <1>18, <3>2
    <3> QED BY <1>12, <3>1, <3>2
  <2> QED BY <1>0, <2>1 DEF HandlesKnown, Unclosed, Held
<1>22. Simple'
  <2>1. handles' \subseteq Files
    BY <1>11, <1>12 DEF Simple
  <2> QED BY <1>0, <1>12, <2>1 DEF Simple, LexerTypeOK, lexer
<1>23. Typed'
  BY <1>0 DEF Typed, Chosen
<1>24. Phases'
  <2>a. phase' \in {"crashed", "write"}
    BY <1>0
  <2>b. Len(levels') >= 1
    BY <1>1, <1>17
  <2>1. Len(levels') >= 1 /\ phase' \notin {"init", "parse", "close", "files", "exited"}
    BY <2>a, <2>b
  <2>2. blocks' = 0 /\ fnind' \in DOMAIN job'.inputs
    BY <1>0 DEF Phases
  <2>3. \A i \in DOMAIN job.inputs : i > fnind => described[i] = << >>
    BY DEF Phases
  <2> QED BY <1>0, <2>1, <2>2, <2>3 DEF Phases
<1>25. Equipped'
  <2>1. ASSUME phase' = "write", NEW n \in 1 .. Len(levels') PROVE Ready(levels'[n])
    <3>1. CASE n = Len(levels) + 1
      BY <1>13, <1>14, <1>18, <3>1 DEF Ready
    <3>2. CASE n \in 1 .. Len(levels) /\ n # Len(levels)
      <4>1. levels'[n] = levels[n]
        BY <1>1, <1>9, <1>17, <3>2
      <4> QED BY <1>0, <3>2, <4>1 DEF Equipped
    <3>3. CASE n = Len(levels)
      BY <1>1, <1>8, <1>18, <3>3 DEF Ready, Complete
    <3> QED BY <1>18, <3>1, <3>2, <3>3
  <2>2. ~C => Complete(levels'[1]) /\ (NamesOnly \/ job.writer # "html" \/ job.css)
    BY <1>1, <1>18 DEF Equipped, Complete
  <2>3. phase' \notin {"parse", "close"}
    BY <1>0
  <2>4. C' = C /\ NamesOnly' = NamesOnly
    BY <1>0, SameJob
  <2> QED BY <1>0, <2>1, <2>2, <2>3, <2>4 DEF Equipped, Ready, Complete
<1>26. CrashOnlyUnopened'
  <2>1. ASSUME phase' = "crashed" PROVE \E f \in job.unwritable : C
    BY <1>0, <2>1, CrashedByUnopened DEF Typed
  <2> QED BY <1>0, <2>1 DEF CrashOnlyUnopened, Crashed, C
<1> QED BY <1>19, <1>20, <1>21, <1>22, <1>23, <1>24, <1>25, <1>26

LEMMA EndMachineKeeps ==
  ASSUME IInv, EndMachine
  PROVE  IInv'
<1> USE DEF IInv
<1>0. /\ phase = "write" /\ Level.todo = << >>
      /\ job' = job /\ fnind' = fnind /\ outFileBase' = outFileBase /\ exit' = exit
      /\ skipped' = skipped /\ from' = from /\ text' = text
      /\ good' = good /\ expect' = expect /\ blocks' = blocks /\ described' = described
      /\ UNCHANGED lexer
  BY DEF EndMachine, main, parser, history
<1>1. /\ Len(levels) \in Nat /\ Len(levels) >= 1 /\ levels # << >>
      /\ Len(levels) \in 1 .. Len(levels) /\ 1 \in 1 .. Len(levels)
      /\ levels \in Seq(LevelType) /\ Level \in LevelType /\ Level = levels[Len(levels)]
      /\ LevelOK(Level, Len(levels) = 1)
      /\ \A n \in 1 .. Len(levels) : levels[n] \in LevelType /\ LevelOK(levels[n], n = 1)
  BY <1>0, AtWork
<1>2. Complete(Level)
  <2>1. Ready(levels[Len(levels)])
    BY <1>0, <1>1 DEF Equipped
  <2> QED BY <1>0, <1>1, <2>1 DEF Ready
<1>3. blocks = 0 /\ fnind \in DOMAIN job.inputs
      /\ \A i \in DOMAIN job.inputs : i > fnind => described[i] = << >>
  BY <1>0 DEF Phases
<1>4. Typed'
  BY <1>0 DEF Typed, Chosen
<1>5. CASE IsTop
  <2>1. phase' = "parse" /\ levels' = levels /\ handles' = handles /\ printed' = printed
    BY <1>5 DEF EndMachine, files
  <2>2. Len(levels) = 1 /\ Level = levels[1]
    <3>1. Len(levels) \in Nat /\ Len(levels) >= 1 /\ Level = levels[Len(levels)]
      BY <1>1
    <3>2. Len(levels) = 1
      BY <1>5, <3>1 DEF IsTop
    <3> QED BY <3>1, <3>2
  <2>3. LevelsIn(levels)' /\ OpenIn(levels, handles)' /\ HandlesKnown'
    BY <1>0, <2>1, KeepsWork
  <2>4. Simple'
    BY <1>0, <2>1 DEF Simple, LexerTypeOK, lexer
  <2>5. Phases'
    <3>1. blocks' <= Len(text') - from'
      BY <1>0, <1>3 DEF Typed
    <3> QED BY <1>0, <1>3, <2>1, <2>2, <3>1 DEF Phases
  <2>6. Equipped'
    <3>1. C' = C /\ NamesOnly' = NamesOnly
      BY <1>0, SameJob
    <3>2. ~C => Complete(levels[1]) /\ (NamesOnly \/ job.writer # "html" \/ job.css)
      BY <1>1 DEF Equipped
    <3>3. Complete(levels[1])' /\ Complete(levels[1])
      BY <1>2, <2>1, <2>2 DEF Complete
    <3> QED BY <1>0, <2>1, <3>1, <3>2, <3>3 DEF Equipped
  <2>7. CrashOnlyUnopened'
    BY <2>1 DEF CrashOnlyUnopened, Crashed
  <2> QED BY <1>4, <2>3, <2>4, <2>5, <2>6, <2>7
<1>6. CASE ~IsTop
  <2>1. Len(levels) >= 2 /\ (Len(levels) = 1) = FALSE
    BY <1>1, <1>6 DEF IsTop
  <2>2. CloseLevel(TRUE) /\ LevelOK(Level, FALSE)
    BY <1>1, <1>6, <2>1 DEF EndMachine
  <2>3. /\ ~CloseCrashes(TRUE) /\ printed' = printed /\ handles' \subseteq handles
        /\ \A f \in Held(Level) : f \notin handles'
        /\ \A f \in handles : f # NoFile /\ f.base # Level.base => f \in handles'
    BY <1>2, <2>2, Closes DEF Typed
  <2>4. levels' = Front(levels) /\ phase' = "write"
    BY <1>0, <1>6, <2>3 DEF EndMachine
  <2> DEFINE q == Front(levels)
  <2>5. /\ q \in Seq(LevelType) /\ Len(q) = Len(levels) - 1
        /\ \A n \in 1 .. Len(q) : q[n] = levels[n] /\ n \in 1 .. Len(levels)
    BY <1>1, <2>1 DEF Front
  <2> HIDE DEF q
  <2>6. LevelsIn(q)
    <3>1. \A n \in 1 .. Len(q) : \A l : l = q[n] => LevelOK(l, n = 1)
      BY <1>1, <2>5
    <3>2. \A i, j \in 2 .. Len(q) : i < j => Rank[q[j].base] < Rank[q[i].base]
      <4> SUFFICES ASSUME NEW i \in 2 .. Len(q), NEW j \in 2 .. Len(q), i < j
                   PROVE  Rank[q[j].base] < Rank[q[i].base]
        OBVIOUS
      <4>1. /\ i \in 2 .. Len(levels) /\ j \in 2 .. Len(levels)
            /\ q[i] = levels[i] /\ q[j] = levels[j]
        BY <1>1, <2>5
      <4> QED BY <4>1 DEF LevelsIn
    <3> QED BY <2>5, <3>1, <3>2 DEF LevelsIn
  <2>7. \A n \in 1 .. Len(q) : levels[n].base # Level.base
    <3> SUFFICES ASSUME NEW n \in 1 .. Len(q), levels[n].base = Level.base PROVE FALSE
      OBVIOUS
    <3>1. Level.base \in Subs
      BY <2>2 DEF LevelOK
    <3>2. CASE n = 1
      <4>1. LevelOK(levels[n], n = 1) /\ (n = 1) = TRUE
        BY <1>1, <2>5, <3>2
      <4>2. levels[n].base \in Chosen
        BY <4>1 DEF LevelOK
      <4> QED BY <3>1, <4>2, JobFacts DEF Typed
    <3>3. CASE n # 1
      <4>1. n \in 2 .. Len(levels) /\ Len(levels) \in 2 .. Len(levels) /\ n < Len(levels)
        BY <1>1, <2>1, <2>5, <3>3
      <4>2. Rank[levels[Len(levels)].base] < Rank[levels[n].base]
        BY <4>1 DEF LevelsIn
      <4>3. Rank[Level.base] \in Nat
        BY <3>1, Ranks DEF Subs
      <4> QED BY <1>1, <4>2, <4>3
    <3> QED BY <3>2, <3>3
  <2>8. OpenIn(q, handles')
    <3> SUFFICES ASSUME NEW n \in 1 .. Len(q), NEW s \in DOMAIN q[n].streams,
                        q[n].streams[s] # NoFile
                 PROVE  q[n].streams[s] \in handles'
      BY DEF OpenIn
    <3> DEFINE f == levels[n].streams[s]
    <3>1. q[n] = levels[n] /\ n \in 1 .. Len(levels) /\ s \in DOMAIN levels[n].streams
      BY <2>5
    <3>2. f \in handles /\ f # NoFile
      BY <3>1 DEF OpenIn
    <3>3. f.base = levels[n].base
      <4>1. levels[n].streams = IF NamesOnly THEN << >> ELSE Streams(levels[n].base, n = 1)
        BY <1>1, <3>1 DEF LevelOK
      <4>2. DOMAIN << >> = {}
        OBVIOUS
      <4>3. levels[n].streams = Streams(levels[n].base, n = 1)
        BY <3>1, <4>1, <4>2
      <4>4. StreamsNamed(levels[n].base, n = 1)
        BY StreamFacts DEF Typed
      <4>5. f = [base |-> levels[n].base, slot |-> IF s = "pubH" /\ ~(n = 1) THEN "h" ELSE s]
        BY <3>1, <3>2, <4>3, <4>4 DEF StreamsNamed
      <4> HIDE DEF f
      <4> QED BY <4>5
    <3> QED BY <2>3, <2>7, <3>1, <3>2, <3>3
  <2>9. HandlesKnown'
    <3>1. ASSUME NEW f \in handles', ~Unclosed(f) PROVE \E n \in 1 .. Len(q) : f \in Held(q[n])
      <4>1. PICK n \in 1 .. Len(levels) : f \in Held(levels[n])
        BY <2>3, <3>1 DEF HandlesKnown
      <4>2. n # Len(levels)
        BY <1>1, <2>3, <3>1, <4>1
      <4>3. n \in 1 .. Len(q)
        BY <1>1, <2>5, <4>2
      <4> QED BY <2>5, <4>1, <4>3
    <3>2. job' = job /\ skipped' = skipped /\ levels' = q
      BY <1>0, <2>4 DEF q
    <3> QED BY <3>1, <3>2 DEF HandlesKnown, Unclosed, Held
  <2>10. LevelsIn(levels)' /\ OpenIn(levels, handles)'
    <3>1. levels' = q
      BY <2>4 DEF q
    <3>2. OpenIn(levels, handles)'
      BY <2>8, <3>1 DEF OpenIn
    <3> QED BY <1>0, <2>6, <3>1, <3>2, SameLevels
  <2>11. Simple'
    BY <1>0, <2>3, <2>4 DEF Simple, LexerTypeOK, lexer
  <2>12. Len(levels') = Len(levels) - 1 /\ \A n \in 1 .. Len(levels') : levels'[n] = levels[n] /\ n \in 1 .. Len(levels)
    BY <2>4, <2>5 DEF q
  <2>13. Phases'
    <3>1. Len(levels') >= 1
      BY <1>1, <2>1, <2>12
    <3> QED BY <1>0, <1>3, <2>4, <3>1 DEF Phases
  <2>14. Equipped'
    <3>1. C' = C /\ NamesOnly' = NamesOnly
      BY <1>0, SameJob
    <3>2. \A n \in 1 .. Len(levels') : Ready(levels'[n])
      BY <1>0, <2>12 DEF Equipped
    <3>3. ~C => Complete(levels'[1]) /\ (NamesOnly \/ job.writer # "html" \/ job.css)
      <4>1. 1 \in 1 .. Len(levels')
        BY <1>1, <2>1, <2>12
      <4> QED BY <1>1, <2>12, <4>1 DEF Equipped
    <3> QED BY <1>0, <2>4, <3>1, <3>2, <3>3 DEF Equipped, Ready, Complete
  <2>15. CrashOnlyUnopened'
    BY <2>4 DEF CrashOnlyUnopened, Crashed
  <2> QED BY <1>4, <2>9, <2>10, <2>11, <2>13, <2>14, <2>15
<1> QED BY <1>5, <1>6

LEMMA CloseOutputKeeps ==
  ASSUME IInv, CloseOutput
  PROVE  IInv'
<1> USE DEF IInv
<1>0. /\ phase = "close" /\ CloseLevel(good)
      /\ job' = job /\ exit' = exit /\ skipped' = skipped /\ from' = from /\ text' = text
      /\ good' = good /\ expect' = expect /\ blocks' = blocks /\ described' = described
      /\ UNCHANGED lexer
  BY DEF CloseOutput, parser, history
<1>1. Len(levels) \in Nat /\ levels # << >> /\ LevelOK(Level, Len(levels) = 1)
      /\ Level = levels[Len(levels)]
  BY <1>0, AtWork
<1>2. /\ Len(levels) = 1 /\ good \in BOOLEAN /\ fnind \in DOMAIN job.inputs /\ fnind \in Nat
      /\ (good => blocks = 0 /\ described[fnind] # << >>)
      /\ \A i \in DOMAIN job.inputs : i > fnind => described[i] = << >>
  BY <1>0 DEF Phases, Simple, Typed
<1>3. Level = levels[1] /\ (Len(levels) = 1) = TRUE
  BY <1>1, <1>2
<1>4. good \/ ~C => Complete(Level)
  BY <1>0, <1>1, <1>2, <1>3 DEF Equipped
<1>5. /\ ~CloseCrashes(good) /\ printed' = printed /\ handles' \subseteq handles
      /\ \A f \in Held(Level) : f \notin handles'
  <2>1. LevelOK(Level, TRUE)
    BY <1>1, <1>3
  <2> QED BY <1>0, <1>2, <1>4, <2>1, Closes DEF Typed
<1>6. phase' = "files" /\ levels' = << >> /\ fnind' = fnind + 1 /\ outFileBase' = NoName
  BY <1>5 DEF CloseOutput, Prepare
<1>7. Simple'
  BY <1>0, <1>5, <1>6 DEF Simple, LexerTypeOK, lexer
<1>8. Typed'
  BY <1>0, <1>2, <1>6 DEF Typed, Chosen
<1>9. Phases'
  <2>1. \A i \in DOMAIN job.inputs : i \in Nat
    BY JobFacts DEF Typed
  <2>2. \A i \in DOMAIN job.inputs : i > fnind + 1 \/ i = fnind + 1 => described[i] = << >>
    BY <1>2, <2>1
  <2> QED BY <1>0, <1>2, <1>6, <2>2 DEF Phases
<1>10. LevelsIn(levels)' /\ OpenIn(levels, handles)'
  <2>1. Len(<< >>) = 0 /\ << >> \in Seq(LevelType)
    OBVIOUS
  <2>2. LevelsIn(<< >>)
    BY <2>1 DEF LevelsIn
  <2> QED BY <1>0, <1>6, <2>2, SameLevels DEF OpenIn
<1>11. HandlesKnown'
  <2>1. ASSUME NEW f \in handles' PROVE Unclosed(f)
    <3>1. Unclosed(f) \/ \E n \in 1 .. Len(levels) : f \in Held(levels[n])
      BY <1>5, <2>1 DEF HandlesKnown
    <3>2. \A n \in 1 .. Len(levels) : levels[n] = Level
      BY <1>2, <1>3
    <3> QED BY <1>5, <2>1, <3>1, <3>2
  <2> QED BY <1>0, <2>1 DEF HandlesKnown, Unclosed
<1>12. Equipped' /\ CrashOnlyUnopened'
  BY <1>6 DEF Equipped, CrashOnlyUnopened, Crashed
<1> QED BY <1>7, <1>8, <1>9, <1>10, <1>11, <1>12

-----------------------------------------------------------------------------
(* The invariant.                                                          *)
LEMMA InitKeeps == Init => IInv
<1> SUFFICES ASSUME Init PROVE IInv
  OBVIOUS
<1>1. /\ job \in Jobs /\ phase = "files" /\ fnind = 1 /\ good = job.options /\ outFileBase = job.o
      /\ exit = << >> /\ expect = "machine" /\ blocks = 0 /\ levels = << >> /\ handles = {}
      /\ printed = {} /\ text = << >> /\ from = 0 /\ described = [i \in DOMAIN job.inputs |-> << >>]
  BY DEF Init
<1>2. job.options \in BOOLEAN /\ job.length \in Nat
  BY <1>1, JobFacts
<1>3. LexerTypeOK
  BY DEF Init, LexerInit, LexerTypeOK, Nothing
<1>4. Simple
  BY <1>1, <1>2, <1>3 DEF Simple
<1>5. Typed
  <2>1. << >> \in Seq(Lexemes) /\ << >> \in Seq(Words) /\ Len(<< >>) = 0
    OBVIOUS
  <2> QED BY <1>1, <2>1 DEF Typed, Chosen
<1>6. Phases
  BY <1>1 DEF Phases
<1>7. LevelsIn(levels) /\ OpenIn(levels, handles)
  <2>1. Len(<< >>) = 0 /\ << >> \in Seq(LevelType)
    OBVIOUS
  <2> QED BY <1>1, <2>1 DEF LevelsIn, OpenIn
<1>8. Equipped /\ HandlesKnown /\ CrashOnlyUnopened
  BY <1>1 DEF Equipped, HandlesKnown, CrashOnlyUnopened, Crashed
<1> QED BY <1>4, <1>5, <1>6, <1>7, <1>8 DEF IInv

LEMMA StutterKeeps == IInv /\ UNCHANGED vars => IInv'
<1> SUFFICES ASSUME IInv, UNCHANGED vars PROVE IInv'
  OBVIOUS
<1>1. /\ job' = job /\ fnind' = fnind /\ outFileBase' = outFileBase /\ exit' = exit
      /\ phase' = phase /\ good' = good /\ expect' = expect /\ blocks' = blocks
      /\ levels' = levels /\ handles' = handles /\ printed' = printed
      /\ text' = text /\ from' = from /\ described' = described /\ skipped' = skipped
      /\ UNCHANGED lexer
  BY DEF vars, main, parser, files, history
<1>2. LevelsIn(levels)' /\ OpenIn(levels, handles)' /\ HandlesKnown'
  BY <1>1, KeepsWork
<1>3. Simple'
  BY <1>1 DEF IInv, Simple, LexerTypeOK, lexer
<1>4. Typed' /\ Phases'
  BY <1>1 DEF IInv, Typed, Phases, Chosen
<1>5. Equipped' /\ CrashOnlyUnopened'
  BY <1>1 DEF IInv, Equipped, Ready, Complete, C, NamesOnly, CrashOnlyUnopened, Crashed
<1> QED BY <1>2, <1>3, <1>4, <1>5 DEF IInv

LEMMA StepKeeps == IInv /\ [Next]_vars => IInv'
<1> SUFFICES ASSUME IInv, [Next]_vars PROVE IInv'
  OBVIOUS
<1>1. ASSUME TakeFile PROVE IInv'
  BY <1>1, TakeFileKeeps
<1>2. ASSUME Finish PROVE IInv'
  BY <1>2, FinishKeeps
<1>3. ASSUME InitOutput PROVE IInv'
  BY <1>3, InitOutputKeeps
<1>4. ASSUME NEW x \in job.lexemes, Read(x) PROVE IInv'
  BY <1>4, ReadKeeps
<1>5. ASSUME EndOfFile PROVE IInv'
  BY <1>5, EndOfFileKeeps
<1>6. ASSUME WritePart PROVE IInv'
  BY <1>6, WritePartKeeps
<1>7. ASSUME BeginSubMachine PROVE IInv'
  BY <1>7, BeginSubMachineKeeps
<1>8. ASSUME EndMachine PROVE IInv'
  BY <1>8, EndMachineKeeps
<1>9. ASSUME CloseOutput PROVE IInv'
  BY <1>9, CloseOutputKeeps
<1>10. ASSUME UNCHANGED vars PROVE IInv'
  BY <1>10, StutterKeeps
<1> QED BY <1>1, <1>2, <1>3, <1>4, <1>5, <1>6, <1>7, <1>8, <1>9, <1>10 DEF Next

LEMMA Invariant == Spec => []IInv
<1> QED BY InitKeeps, StepKeeps, PTL DEF Spec

(* Every file that is written to is open, the levels are of their type,    *)
(* and between two inputs and at the end no file is open but the page      *)
(* whose style sheet could not be copied (fsm_html.c:1299,                 *)
(* fsm_c_common.c:1336): whatever the description, whatever cannot be      *)
(* opened, wherever the parse fails.                                       *)
THEOREM AlwaysClosed == Spec => []AllClosed
<1>1. IInv => AllClosed
  <2> SUFFICES ASSUME IInv PROVE AllClosed
    OBVIOUS
  <2> USE DEF IInv
  <2>1. TypeOK
    <3>1. outFileBase \in Bases
      BY JobFacts DEF Typed
    <3>2. ASSUME NEW n \in DOMAIN levels
          PROVE  LET l == levels[n] IN
                 /\ l.base \in Bases /\ l.todo \in Seq(Machines \union {"title", "body"})
                 /\ \A s \in DOMAIN l.streams : l.streams[s] \in handles \union {NoFile}
      <4>1. n \in 1 .. Len(levels) /\ levels[n] \in LevelType
        BY <3>2 DEF LevelsIn
      <4> QED BY <4>1 DEF LevelType, Part, OpenIn
    <3> QED BY <3>1, <3>2 DEF TypeOK, Simple
  <2>2. ASSUME phase \in {"files", "exited"}, NEW f \in handles
        PROVE  f.slot = "html" /\ ~job.css /\ skipped # {}
    <3>1. Len(levels) = 0
      <4>1. levels = << >> /\ Len(<< >>) = 0
        BY <2>2 DEF Phases
      <4> QED BY <4>1
    <3> QED BY <2>2, <3>1 DEF HandlesKnown, Unclosed
  <2> QED BY <2>1, <2>2 DEF AllClosed
<1> QED BY <1>1, Invariant, PTL

(* The program breaks down only after a file could not be opened, of a C   *)
(* generator or of a sub-machine: no file is closed twice and none is      *)
(* written to that is not there when all can be opened, for machines of    *)
(* every shape.  fsm_c_common.c:197, 1336                                  *)
THEOREM OnlyUnopenedCrashes == Spec => []CrashOnlyUnopened
<1>1. IInv => CrashOnlyUnopened
  BY DEF IInv
<1> QED BY <1>1, Invariant, PTL

-----------------------------------------------------------------------------
(***************************************************************************)
(* What is on the disk.  The first invariant knows what is open and what   *)
(* may break; the second, under it, where the levels have come from, what  *)
(* the outputs are named, and to whom every file belongs.                  *)
(***************************************************************************)
Working == phase \in {"parse", "write", "close"}

(* the writers that descend into sub-machines *)
Nests == job.writer \notin {"xref", "statistics"}

(* q is what is left of p *)
Remains(q, p) == Len(q) <= Len(p) /\ \A i \in 1 .. Len(q) : q[i] = p[Len(p) - Len(q) + i]

(* the machine at work *)
Now == described[fnind][Len(described[fnind])]

(* the machine of the n-th level, one of the one above, has that to do *)
Descends(n) ==
  /\ levels[n].machine \in Tree(Now)
  /\ Remains(levels[n].todo, Parts(levels[n].machine))
  /\ n > 1 => Nests /\ levels[n].base \in ToSet(SubMachines[levels[n - 1].machine])
Descent ==
  /\ phase \in {"parse", "close"} => levels[1].todo = << >>
  /\ phase = "write" =>
       /\ described[fnind] # << >> /\ levels[1].machine = Now
       /\ \A n \in 1 .. Len(levels) : Descends(n)

(* A level says that it has had a sub-machine only if there is one. *)
SeenOnly ==
  Working =>
    /\ levels[1].subSeen => HasSubs(MachinesOf(fnind))
    /\ \A n \in 2 .. Len(levels) : levels[n].subSeen => SubMachines[levels[n].machine] # << >>

(* A name that is left from an input that was not written will not be      *)
(* written under either.                                                   *)
Left ==
  outFileBase # NoName /\ InitReports(outFileBase, TRUE) /\ \E j \in skipped : outFileBase = NameOf(j)
Naming ==
  /\ skipped \subseteq 1 .. fnind - 1
  /\ phase = "files" => outFileBase = (IF fnind = 1 THEN job.o ELSE NoName) \/ Left
  /\ phase = "init"  => outFileBase = NameOf(fnind) \/ Left
  /\ Working => levels[1].base = NameOf(fnind) /\ ~InitReports(NameOf(fnind), TRUE)
  /\ \A i \in DOMAIN job.inputs : i < fnind /\ i \notin skipped => ~InitReports(NameOf(i), TRUE)

(* whose a file is: of an input that is over, of a page without its style  *)
(* sheet, of a level, or of a sub-machine of the input at work             *)
Over(i) == i \in DOMAIN job.inputs /\ i < fnind /\ i \notin skipped
Bad(i)  == phase \in {"files", "exited"} /\ ~good /\ i = fnind - 1
OfOver(f) ==
  \E i \in DOMAIN job.inputs : Over(i) /\ (f \in SubFiles(i) \/ (~Bad(i) /\ f \in TopFiles(i)))
OfPage(f) ==
  f.slot = "html" /\ ~job.css /\ \E i \in skipped : f.base \in {job.o, job.inputs[i].base}
Own(base, top) == [base : {base}, slot : Opened(base, top)]
OfLevel(f) ==
  \E n \in 1 .. Len(levels) :
    (n = 1 /\ f \in Own(levels[n].base, TRUE)) \/ (n > 1 /\ f \in Own(levels[n].base, FALSE))
OnDisk ==
  IF NamesOnly THEN disk = << >>
  ELSE \A f \in DOMAIN disk :
         OfOver(f) \/ OfPage(f) \/ OfLevel(f) \/ (Working /\ f \in SubFiles(fnind))

KInv == phase # "crashed" => Descent /\ SeenOnly /\ Naming /\ OnDisk

-----------------------------------------------------------------------------
(* A machine's tree: the machine, and the trees of its sub-machines. *)
LEMMA Trees ==
  ASSUME NEW m \in Machines
  PROVE  /\ m \in Tree(m) /\ Tree(m) \subseteq Machines
         /\ \A x \in Tree(m) : ToSet(SubMachines[x]) \subseteq Tree(m)
         /\ Tree(m) \subseteq {m} \union UNION {Tree(s) : s \in ToSet(SubMachines[m])}
         /\ \A s \in ToSet(SubMachines[m]) : s \in Subs /\ Tree(s) \subseteq Tree(m) \ {m}
<1>1. \A x \in Machines : ToSet(SubMachines[x]) \subseteq Machines /\ ToSet(SubMachines[x]) \subseteq Subs
  <2> SUFFICES ASSUME NEW x \in Machines PROVE ToSet(SubMachines[x]) \subseteq Subs
    BY DEF Subs
  <2>1. SubMachines[x] \in Seq(Subs)
    BY Ranks
  <2> QED BY <2>1 DEF ToSet
<1>2. m \in Tree(m) /\ Tree(m) \subseteq Machines
  BY DEF Tree
<1>3. \A n \in Machines : \A x \in Tree(n) : ToSet(SubMachines[x]) \subseteq Tree(n)
  BY <1>1 DEF Tree, Hereditary
<1>4. \A n \in Machines : \A S \in SUBSET Machines : n \in S /\ Hereditary(S) => Tree(n) \subseteq S
  BY DEF Tree
<1>5. \A n \in Machines : n \in Tree(n) /\ Tree(n) \in SUBSET Machines
  BY DEF Tree
<1>6. Tree(m) \subseteq {m} \union UNION {Tree(s) : s \in ToSet(SubMachines[m])}
  <2> DEFINE S == {m} \union UNION {Tree(s) : s \in ToSet(SubMachines[m])}
  <2>1. S \in SUBSET Machines /\ m \in S
    BY <1>1, <1>5
  <2>2. \A x \in S : ToSet(SubMachines[x]) \subseteq S
    <3> SUFFICES ASSUME NEW x \in S PROVE ToSet(SubMachines[x]) \subseteq S
      OBVIOUS
    <3>1. CASE x = m
      BY <1>1, <1>5, <3>1
    <3>2. CASE x # m
      <4>1. PICK s \in ToSet(SubMachines[m]) : x \in Tree(s)
        BY <3>2
      <4>2. s \in Machines
        BY <1>1
      <4>3. ToSet(SubMachines[x]) \subseteq Tree(s)
        BY <1>3, <4>1, <4>2
      <4> QED BY <4>3
    <3> QED BY <3>1, <3>2
  <2> HIDE DEF S
  <2>3. Hereditary(S)
    BY <2>2 DEF Hereditary
  <2>4. Tree(m) \subseteq S
    BY <1>4, <2>1, <2>3
  <2> QED BY <2>4 DEF S
<1>7. ASSUME NEW s \in ToSet(SubMachines[m])
      PROVE  s \in Subs /\ Tree(s) \subseteq Tree(m) \ {m}
  <2>1. s \in Subs /\ s \in Machines
    BY <1>1
  <2>2. Rank[s] < Rank[m]
    <3>1. PICK i \in DOMAIN SubMachines[m] : s = SubMachines[m][i]
      BY DEF ToSet
    <3> QED BY <3>1, Ranks
  <2> DEFINE S == {x \in Machines : Rank[x] <= Rank[s]}
  <2>3. Hereditary(S)
    <3>1. ASSUME NEW x \in S, NEW t \in ToSet(SubMachines[x]) PROVE t \in S
      <4>1. PICK i \in DOMAIN SubMachines[x] : t = SubMachines[x][i]
        BY DEF ToSet
      <4>2. Rank[t] < Rank[x] /\ t \in Machines /\ Rank[t] \in Nat /\ Rank[x] \in Nat /\ Rank[s] \in Nat
        BY <1>1, <2>1, <4>1, Ranks
      <4> QED BY <4>2
    <3> HIDE DEF S
    <3> QED BY <3>1 DEF Hereditary
  <2>4. s \in S /\ S \in SUBSET Machines /\ m \notin S
    BY <2>1, <2>2, Ranks
  <2> HIDE DEF S
  <2>5. m \notin Tree(s)
    BY <1>4, <2>1, <2>3, <2>4
  <2>6. s \in Tree(m)
    BY <1>2, <1>3
  <2>7. Tree(s) \subseteq Tree(m)
    <3>1. Hereditary(Tree(m))
      BY <1>3 DEF Hereditary
    <3>2. Tree(m) \in SUBSET Machines
      BY <1>5
    <3> QED BY <1>4, <2>1, <2>6, <3>1, <3>2
  <2> QED BY <2>1, <2>5, <2>7
<1> QED BY <1>2, <1>3, <1>6, <1>7

(* The files of an input are known from its description. *)
LEMMA FilesKeep ==
  ASSUME job' = job
  PROVE  /\ \A i : NameOf(i)' = NameOf(i)
         /\ \A i : described'[i] = described[i] =>
              SubFiles(i)' = SubFiles(i) /\ TopFiles(i)' = TopFiles(i)
         /\ \A b, t : Own(b, t)' = Own(b, t) /\ (InitReports(b, t)' <=> InitReports(b, t))
         /\ \A m : Parts(m)' = Parts(m)
<1>1. \A i : NameOf(i)' = NameOf(i)
  BY DEF NameOf
<1>2. \A b, t, n : FilesOf(b, t, n)' = FilesOf(b, t, n)
  BY DEF FilesOf
<1>3. \A i : described'[i] = described[i] => MachinesOf(i)' = MachinesOf(i) /\ Within(i)' = Within(i)
  BY DEF MachinesOf, Within
<1>4. ASSUME NEW i, described'[i] = described[i]
      PROVE  SubFiles(i)' = SubFiles(i) /\ TopFiles(i)' = TopFiles(i)
  BY <1>1, <1>2, <1>3, <1>4 DEF SubFiles, TopFiles
<1>5. \A b, t : Own(b, t)' = Own(b, t) /\ (InitReports(b, t)' <=> InitReports(b, t))
  BY DEF Own, Opened, InitReports, AllOpened, C, NamesOnly
<1>6. \A m : Parts(m)' = Parts(m)
  BY DEF Parts, NamesOnly
<1> QED BY <1>1, <1>4, <1>5, <1>6

LEMMA OverKeeps ==
  ASSUME job' = job,
         \A i : Over(i) => Over(i)' /\ described'[i] = described[i] /\ (Bad(i)' => Bad(i)),
         NEW f, OfOver(f)
  PROVE  OfOver(f)'
<1>1. PICK i \in DOMAIN job.inputs : Over(i) /\ (f \in SubFiles(i) \/ (~Bad(i) /\ f \in TopFiles(i)))
  BY DEF OfOver
<1>2. SubFiles(i)' = SubFiles(i) /\ TopFiles(i)' = TopFiles(i)
  BY <1>1, FilesKeep
<1> QED BY <1>1, <1>2 DEF OfOver

LEMMA LevelKeeps ==
  ASSUME job' = job, NEW f, OfLevel(f),
         \A n \in 1 .. Len(levels) : n \in 1 .. Len(levels') /\ levels'[n].base = levels[n].base
  PROVE  OfLevel(f)'
BY FilesKeep DEF OfLevel

(* Nothing on the disk changes hands. *)
LEMMA DiskKeeps ==
  ASSUME OnDisk, job' = job, DOMAIN disk' \subseteq DOMAIN disk, NamesOnly => disk' = disk,
         fnind' = fnind, skipped' = skipped,
         \A n \in 1 .. Len(levels) : n \in 1 .. Len(levels') /\ levels'[n].base = levels[n].base,
         Working => Working' /\ SubFiles(fnind) \subseteq SubFiles(fnind)',
         \A i : Over(i) => described'[i] = described[i] /\ (Bad(i)' => Bad(i))
  PROVE  OnDisk'
<1>1. NamesOnly' = NamesOnly
  BY SameJob
<1>2. CASE NamesOnly
  BY <1>1, <1>2 DEF OnDisk
<1>3. CASE ~NamesOnly
  <2> SUFFICES ASSUME NEW f \in DOMAIN disk'
               PROVE  (OfOver(f) \/ OfPage(f) \/ OfLevel(f) \/ (Working /\ f \in SubFiles(fnind)))'
    BY <1>1, <1>3 DEF OnDisk
  <2>1. OfOver(f) \/ OfPage(f) \/ OfLevel(f) \/ (Working /\ f \in SubFiles(fnind))
    BY <1>3 DEF OnDisk
  <2>2. OfOver(f) => OfOver(f)'
    <3>1. \A i : Over(i) => Over(i)'
      BY DEF Over
    <3> QED BY <3>1, OverKeeps
  <2>3. OfPage(f) => OfPage(f)'
    BY DEF OfPage
  <2>4. OfLevel(f) => OfLevel(f)'
    BY LevelKeeps
  <2> QED BY <2>1, <2>2, <2>3, <2>4
<1> QED BY <1>2, <1>3

LEMMA TakeFileKnows ==
  ASSUME IInv, KInv, TakeFile
  PROVE  KInv'
<1>0. /\ phase = "files" /\ good /\ fnind <= Len(job.inputs)
      /\ job' = job /\ fnind' = fnind /\ good' = good /\ skipped' = skipped
      /\ levels' = levels /\ disk' = disk /\ described' = described
      /\ \/ phase' = "exited"
         \/ phase' = "init" /\ outFileBase' = IF outFileBase = NoName THEN Input.base ELSE outFileBase
  BY DEF TakeFile, Exit, files, history
<1>1. Descent' /\ SeenOnly'
  BY <1>0 DEF Descent, SeenOnly, Working
<1>2. Naming'
  <2>1. Naming
    BY <1>0 DEF KInv
  <2>2. CASE phase' = "exited"
    BY <1>0, <2>1, <2>2, FilesKeep DEF Naming, Working
  <2>3. CASE phase' = "init" /\ outFileBase' = IF outFileBase = NoName THEN Input.base ELSE outFileBase
    <3>1. outFileBase' = NameOf(fnind) \/ (outFileBase' = outFileBase /\ Left)
      <4>1. outFileBase = (IF fnind = 1 THEN job.o ELSE NoName) \/ Left
        BY <1>0, <2>1 DEF Naming
      <4> QED BY <2>3, <4>1 DEF NameOf, Input, Left
    <3>2. outFileBase' = outFileBase /\ Left => Left'
      BY <1>0, FilesKeep DEF Left
    <3> QED BY <1>0, <2>1, <2>3, <3>1, <3>2, FilesKeep DEF Naming, Working
  <2> QED BY <1>0, <2>2, <2>3
<1>3. OnDisk'
  <2>1. \A i : Bad(i)' => Bad(i)
    BY <1>0 DEF Bad
  <2>2. OnDisk /\ ~Working
    BY <1>0 DEF KInv, Working
  <2> QED BY <1>0, <2>1, <2>2, DiskKeeps
<1> QED BY <1>1, <1>2, <1>3 DEF KInv

LEMMA FinishKnows ==
  ASSUME IInv, KInv, Finish
  PROVE  KInv'
<1>0. /\ phase = "files" /\ phase' = "exited"
      /\ job' = job /\ fnind' = fnind /\ good' = good /\ skipped' = skipped
      /\ levels' = levels /\ disk' = disk /\ described' = described
  BY DEF Finish, Statuses, Exit, files, history
<1>1. Descent' /\ SeenOnly'
  BY <1>0 DEF Descent, SeenOnly, Working
<1>2. Naming'
  BY <1>0, FilesKeep DEF KInv, Naming, Working
<1>3. OnDisk'
  <2>1. \A i : Bad(i)' => Bad(i)
    BY <1>0 DEF Bad
  <2>2. OnDisk /\ ~Working
    BY <1>0 DEF KInv, Working
  <2> QED BY <1>0, <2>1, <2>2, DiskKeeps
<1> QED BY <1>1, <1>2, <1>3 DEF KInv

(* As long as the input is at work, its number and the names stay. *)
LEMMA NamesKeep ==
  ASSUME Naming, Working, Working', job' = job, fnind' = fnind, skipped' = skipped,
         levels'[1].base = levels[1].base
  PROVE  Naming'
<1>1. phase' # "files" /\ phase' # "init"
  BY DEF Working
<1> QED BY <1>1, FilesKeep DEF Naming

(* What the parser does without finding a machine, and the end of one. *)
LEMMA ParsesOn ==
  ASSUME IInv, KInv, phase \in {"parse", "write"}, phase' \in {"parse", "close"},
         job' = job, fnind' = fnind, skipped' = skipped, levels' = levels, disk' = disk,
         described' = described, levels[1].todo = << >>
  PROVE  KInv'
<1>1. Working /\ Working' /\ Descent /\ SeenOnly /\ Naming /\ OnDisk
  BY DEF KInv, Working
<1>2. Descent'
  BY DEF Descent
<1>3. SeenOnly'
  BY <1>1 DEF SeenOnly, MachinesOf, HasSubs
<1>4. Naming'
  BY <1>1, NamesKeep
<1>5. OnDisk'
  <2>1. \A i : ~Bad(i)'
    BY DEF Bad
  <2>2. SubFiles(fnind)' = SubFiles(fnind)
    BY FilesKeep
  <2> QED BY <1>1, <2>1, <2>2, DiskKeeps
<1> QED BY <1>2, <1>3, <1>4, <1>5 DEF KInv

(* A machine begins: the level of the input is to write it. *)
LEMMA MachineBegins ==
  ASSUME IInv, phase = "parse", NEW t, Machine(t), UNCHANGED <<main, files, from, skipped>>
  PROVE  /\ job' = job /\ fnind' = fnind /\ skipped' = skipped /\ phase' = "write"
         /\ disk' = disk /\ printed' = printed
         /\ t.lexeme \in Words /\ t.lexeme \in Machines /\ fnind \in DOMAIN job.inputs
         /\ Len(levels) = 1 /\ Len(levels') = 1
         /\ levels'[1].machine = t.lexeme /\ levels'[1].todo = Parts(t.lexeme)
         /\ levels'[1].base = levels[1].base /\ levels'[1].subSeen = levels[1].subSeen
         /\ levels'[1].streams = levels[1].streams
         /\ described[fnind] \in Seq(Words)
         /\ described'[fnind] = Append(described[fnind], t.lexeme)
         /\ \A i : i # fnind => described'[i] = described[i]
         /\ described'[fnind] # << >> /\ Now' = t.lexeme
<1> DEFINE m == t.lexeme
           l == levels[1]
           k == [l EXCEPT !.machine = m, !.todo = Parts(m)]
<1>0. /\ job' = job /\ fnind' = fnind /\ skipped' = skipped /\ disk' = disk /\ phase' = "write"
      /\ printed' = printed
      /\ described' = [described EXCEPT ![fnind] = Append(@, m)]
      /\ levels' = [levels EXCEPT ![Len(levels)].machine = m, ![Len(levels)].todo = Parts(m)]
      /\ m \in Words /\ m \in Machines
  BY Ranks DEF Machine, main, files, WriteMachine
<1>1. Len(levels) = 1 /\ fnind \in DOMAIN job.inputs /\ levels \in Seq(LevelType)
  <2>1. Len(levels) = 1 /\ fnind \in DOMAIN job.inputs
    BY DEF IInv, Phases
  <2>2. levels \in Seq(LevelType)
    BY DEF IInv, LevelsIn
  <2> QED BY <2>1, <2>2
<1> HIDE DEF m
<1>2. l \in LevelType
  <2>1. 1 \in 1 .. Len(levels)
    BY <1>1
  <2> QED BY <1>1, <2>1
<1>3. levels' = [levels EXCEPT ![1] = k]
  BY <1>0, <1>1
<1>4. k.base = l.base /\ k.subSeen = l.subSeen /\ k.streams = l.streams /\ k.machine = m /\ k.todo = Parts(m)
  <2> HIDE DEF l
  <2> QED BY <1>2 DEF LevelType
<1> HIDE DEF k, l
<1>5. Len(levels') = 1 /\ levels'[1] = k
  BY <1>1, <1>3
<1>6. described \in [DOMAIN job.inputs -> Seq(Words)]
  BY DEF IInv, Typed
<1>7. /\ described'[fnind] = Append(described[fnind], m) /\ described[fnind] \in Seq(Words)
      /\ \A i : i # fnind => described'[i] = described[i]
  <2>1. described'[fnind] = Append(described[fnind], m)
    BY <1>0, <1>1, <1>6
  <2>2. \A i : i # fnind => described'[i] = described[i]
    BY <1>0
  <2> QED BY <1>1, <1>6, <2>1, <2>2
<1>8. described'[fnind] # << >> /\ Now' = m
  <2>1. \A q \in Seq(Words) : Append(q, m) # << >> /\ Append(q, m)[Len(Append(q, m))] = m
    BY <1>0
  <2> QED BY <1>0, <1>7, <2>1 DEF Now
<1> QED BY <1>0, <1>1, <1>4, <1>5, <1>7, <1>8 DEF m, l

LEMMA MachineKnows ==
  ASSUME IInv, KInv, phase = "parse", NEW t, Machine(t), UNCHANGED <<main, files, from, skipped>>
  PROVE  KInv'
<1> DEFINE m == t.lexeme
<1>1. Working /\ Working' /\ Descent /\ SeenOnly /\ Naming /\ OnDisk
  BY MachineBegins DEF KInv, Working
<1>2. /\ job' = job /\ fnind' = fnind /\ skipped' = skipped /\ phase' = "write" /\ disk' = disk
      /\ m \in Machines /\ m \in Words /\ Len(levels) = 1 /\ Len(levels') = 1
      /\ levels'[1].machine = m /\ levels'[1].todo = Parts(m)
      /\ levels'[1].base = levels[1].base /\ levels'[1].subSeen = levels[1].subSeen
      /\ \A i : i # fnind => described'[i] = described[i]
      /\ described'[fnind] # << >> /\ Now' = m
      /\ described[fnind] \in Seq(Words) /\ described'[fnind] = Append(described[fnind], m)
  BY MachineBegins
<1> HIDE DEF m
<1>3. MachinesOf(fnind) \subseteq MachinesOf(fnind)'
  <2>1. \A q \in Seq(Words) : ToSet(q) \subseteq ToSet(Append(q, m))
    BY <1>2 DEF ToSet
  <2> QED BY <1>2, <2>1 DEF MachinesOf
<1>4. Descent'
  <2>1. m \in Tree(m)
    BY <1>2, Trees
  <2>2. Remains(Parts(m), Parts(m))
    <3>1. Parts(m) \in Seq(Part)
      BY <1>2, PartsFacts DEF IInv, Typed
    <3> QED BY <3>1 DEF Remains
  <2>3. Remains(levels[1].todo, Parts(levels[1].machine))'
    BY <1>2, <2>2, FilesKeep DEF Remains
  <2>4. Descends(1)'
    BY <1>2, <2>1, <2>3 DEF Descends
  <2> QED BY <1>2, <2>4 DEF Descent
<1>5. SeenOnly'
  BY <1>1, <1>2, <1>3 DEF SeenOnly, HasSubs
<1>6. Naming'
  BY <1>1, <1>2, NamesKeep
<1>7. OnDisk'
  <2>1. \A i : ~Bad(i)'
    BY <1>2 DEF Bad
  <2>2. SubFiles(fnind) \subseteq SubFiles(fnind)'
    <3>1. \A b, top, n : FilesOf(b, top, n)' = FilesOf(b, top, n)
      BY <1>2 DEF FilesOf
    <3>2. Within(fnind) \subseteq Within(fnind)'
      BY <1>2, <1>3 DEF Within
    <3> QED BY <1>2, <3>1, <3>2 DEF SubFiles
  <2>3. \A i : Over(i) => i # fnind
    <3>1. fnind \in Nat
      BY DEF IInv, Typed
    <3> QED BY <3>1 DEF Over
  <2>4. \A n \in 1 .. Len(levels) : n \in 1 .. Len(levels') /\ levels'[n].base = levels[n].base
    BY <1>2
  <2> QED BY <1>1, <1>2, <2>1, <2>2, <2>3, <2>4, DiskKeeps
<1> QED BY <1>4, <1>5, <1>6, <1>7 DEF KInv

LEMMA ReadKnows ==
  ASSUME IInv, KInv, NEW x \in job.lexemes, Read(x)
  PROVE  KInv'
<1>0. /\ phase = "parse" /\ UNCHANGED <<main, files, from, skipped>>
      /\ job' = job /\ fnind' = fnind /\ skipped' = skipped /\ disk' = disk
  BY DEF Read, main, files
<1>1. levels[1].todo = << >>
  BY <1>0 DEF KInv, Descent
<1>2. ASSUME UNCHANGED <<good, phase, parser, described, levels>> PROVE KInv'
  BY <1>0, <1>1, <1>2, ParsesOn
<1>3. ASSUME NEW t, Machine(t) PROVE KInv'
  BY <1>0, <1>3, MachineKnows
<1>4. ASSUME NEW t, NativeBlock(t) PROVE KInv'
  BY <1>0, <1>1, <1>4, ParsesOn DEF NativeBlock
<1>5. ASSUME SyntaxError PROVE KInv'
  BY <1>0, <1>1, <1>5, ParsesOn DEF SyntaxError
<1> QED BY <1>2, <1>3, <1>4, <1>5 DEF Read

LEMMA EndOfFileKnows ==
  ASSUME IInv, KInv, EndOfFile
  PROVE  KInv'
<1>0. /\ phase = "parse" /\ phase' = "close" /\ described' = described /\ levels' = levels
      /\ job' = job /\ fnind' = fnind /\ skipped' = skipped /\ disk' = disk
  BY DEF EndOfFile, SyntaxError, main, files
<1>1. levels[1].todo = << >>
  BY <1>0 DEF KInv, Descent
<1> QED BY <1>0, <1>1, ParsesOn

(* whose a level is, and what it has open *)
SameLevel(n) ==
  /\ levels'[n].machine = levels[n].machine /\ levels'[n].base = levels[n].base
  /\ levels'[n].streams = levels[n].streams

(* The main variables that no writer changes. *)
Undisturbed ==
  /\ job' = job /\ fnind' = fnind /\ outFileBase' = outFileBase
  /\ skipped' = skipped /\ described' = described /\ good' = good

LEMMA PartWritten ==
  ASSUME IInv, WritePart, phase' # "crashed"
  PROVE  LET N == Len(levels) IN
         /\ Undisturbed /\ phase = "write" /\ phase' = "write"
         /\ N \in Nat /\ N >= 1 /\ Len(levels') = N
         /\ \A n \in 1 .. N : SameLevel(n) /\ levels'[n].subSeen = levels[n].subSeen
         /\ \A n \in 1 .. N : n # N => levels'[n].todo = levels[n].todo
         /\ levels[N].todo \in Seq(Part) /\ levels[N].todo # << >>
         /\ Head(levels[N].todo) \notin Machines /\ levels'[N].todo = Tail(levels[N].todo)
         /\ IF NamesOnly THEN disk' = disk /\ printed' = printed \union NamesOf(Level, IsTop)
            ELSE /\ printed' = printed
                 /\ disk' = Put(Held(Level), IF Head(Level.todo) = "body" THEN Level.machine ELSE "title")
<1> DEFINE N == Len(levels)
           l == levels[N]
           k == [l EXCEPT !.todo = Tail(l.todo)]
<1>0. /\ phase = "write" /\ Level.todo # << >> /\ Head(Level.todo) \notin Machines
      /\ Undisturbed /\ levels' = [levels EXCEPT ![Len(levels)].todo = Tail(@)]
  BY DEF WritePart, Rest, main, history, Undisturbed
<1>1. N \in Nat /\ N >= 1 /\ N \in 1 .. N /\ levels \in Seq(LevelType) /\ l \in LevelType /\ Level = l
      /\ LevelOK(Level, N = 1)
  BY <1>0, AtWork
<1>2. levels' = [levels EXCEPT ![N] = k]
  BY <1>0, <1>1
<1>3. k.base = l.base /\ k.subSeen = l.subSeen /\ k.streams = l.streams /\ k.machine = l.machine
      /\ k.todo = Tail(l.todo) /\ l.todo \in Seq(Part)
  <2> HIDE DEF l
  <2> QED BY <1>1 DEF LevelType
<1>4. Len(levels') = N /\ \A n \in 1 .. N : levels'[n] = IF n = N THEN k ELSE levels[n]
  <2> HIDE DEF k
  <2> QED BY <1>1, <1>2
<1> HIDE DEF k
<1>5. \A n \in 1 .. N : SameLevel(n) /\ levels'[n].subSeen = levels[n].subSeen
                        /\ (n # N => levels'[n].todo = levels[n].todo)
  <2> SUFFICES ASSUME NEW n \in 1 .. N
               PROVE  SameLevel(n) /\ levels'[n].subSeen = levels[n].subSeen
                      /\ (n # N => levels'[n].todo = levels[n].todo)
    OBVIOUS
  <2>1. CASE n = N
    BY <1>3, <1>4, <2>1 DEF SameLevel
  <2>2. CASE n # N
    BY <1>4, <2>2 DEF SameLevel
  <2> QED BY <2>1, <2>2
<1>6. levels'[N].todo = Tail(levels[N].todo)
  BY <1>1, <1>3, <1>4
<1>7. CASE NamesOnly
  BY <1>0, <1>1, <1>3, <1>4, <1>5, <1>6, <1>7 DEF WritePart
<1>8. CASE ~NamesOnly
  <2> DEFINE fs == StreamsOf(Slots)
             part == IF Head(Level.todo) = "body" THEN Level.machine ELSE "title"
  <2>1. /\ NoFile \notin fs /\ disk' = Put(fs \ {NoFile}, part)
        /\ printed' = printed /\ phase' = "write"
    BY <1>0, <1>8 DEF WritePart, Crash
  <2>2. fs \ {NoFile} = Held(Level)
    <3>1. Level.streams \in {<< >>} \union [ToSet(SlotsOf(job.writer, TRUE)) -> Files \union {NoFile}]
      BY <1>1 DEF LevelType
    <3>2. DOMAIN Level.streams \subseteq Slots
      <4>1. ToSet(SlotsOf(job.writer, TRUE)) \subseteq Slots
        BY Slotted DEF IInv, Typed
      <4>2. DOMAIN << >> = {}
        OBVIOUS
      <4> QED BY <3>1, <4>1, <4>2
    <3>3. Slots \intersect DOMAIN Level.streams = DOMAIN Level.streams
      BY <3>2
    <3> QED BY <3>3 DEF StreamsOf, Held
  <2> HIDE DEF fs, part
  <2>3. disk' = Put(Held(Level), part)
    BY <2>1, <2>2
  <2> QED BY <1>0, <1>1, <1>3, <1>4, <1>5, <1>6, <1>8, <2>1, <2>3 DEF part
<1> QED BY <1>7, <1>8

(* What is left of a sequence, less its head. *)
LEMMA TailRemains ==
  ASSUME NEW q \in Seq(Part), q # << >>, NEW p, Remains(q, p), Len(p) \in Nat
  PROVE  Remains(Tail(q), p)
<1>1. Len(Tail(q)) = Len(q) - 1 /\ Len(q) \in Nat /\ \A i \in 1 .. Len(q) - 1 : Tail(q)[i] = q[i + 1]
  OBVIOUS
<1>2. \A i \in 1 .. Len(q) - 1 : Tail(q)[i] = p[Len(p) - Len(Tail(q)) + i]
  <2> SUFFICES ASSUME NEW i \in 1 .. Len(q) - 1 PROVE Tail(q)[i] = p[Len(p) - Len(Tail(q)) + i]
    OBVIOUS
  <2>1. i + 1 \in 1 .. Len(q) /\ Len(p) - Len(q) + (i + 1) = Len(p) - Len(Tail(q)) + i
    BY <1>1
  <2> QED BY <1>1, <2>1 DEF Remains
<1> QED BY <1>1, <1>2 DEF Remains

(* The descent, when only the last level has done something. *)
LEMMA DescentKeeps ==
  ASSUME IInv, Descent, Undisturbed, phase = "write", phase' = "write",
         NEW N \in 1 .. Len(levels), N = Len(levels) \/ N = Len(levels) - 1, Len(levels') = N,
         \A n \in 1 .. N : SameLevel(n),
         \A n \in 1 .. N : Remains(levels'[n].todo, Parts(levels[n].machine))
  PROVE  Descent'
<1>1. Len(levels) \in Nat /\ N \in Nat /\ 1 \in 1 .. N
  BY AtWork
<1>2. ASSUME NEW n \in 1 .. N PROVE Descends(n)'
  <2>1. n \in 1 .. Len(levels) /\ (n > 1 => n - 1 \in 1 .. N)
    BY <1>1
  <2>2. Descends(n)
    BY <2>1 DEF Descent
  <2>3. Now' = Now /\ Nests' = Nests /\ \A m : Parts(m)' = Parts(m)
    BY FilesKeep DEF Undisturbed, Now, Nests
  <2>4. Remains(levels[n].todo, Parts(levels[n].machine))'
    BY <1>2, <2>3 DEF Remains, SameLevel
  <2>5. levels'[n].machine = levels[n].machine /\ levels'[n].base = levels[n].base
    BY <1>2 DEF SameLevel
  <2>6. n > 1 => levels'[n - 1].machine = levels[n - 1].machine
    BY <2>1 DEF SameLevel
  <2> QED BY <2>2, <2>3, <2>4, <2>5, <2>6 DEF Descends
<1>3. described'[fnind'] # << >> /\ levels'[1].machine = Now'
  BY <1>1 DEF Descent, Undisturbed, SameLevel, Now
<1> QED BY <1>2, <1>3 DEF Descent

LEMMA WritePartKnows ==
  ASSUME IInv, KInv, WritePart
  PROVE  KInv'
<1> SUFFICES ASSUME phase' # "crashed" PROVE KInv'
  BY DEF KInv
<1> DEFINE N == Len(levels)
<1>1. /\ Undisturbed /\ phase = "write" /\ phase' = "write"
      /\ N \in Nat /\ N >= 1 /\ Len(levels') = N
      /\ \A n \in 1 .. N : SameLevel(n) /\ levels'[n].subSeen = levels[n].subSeen
      /\ \A n \in 1 .. N : n # N => levels'[n].todo = levels[n].todo
      /\ levels[N].todo \in Seq(Part) /\ levels[N].todo # << >>
      /\ levels'[N].todo = Tail(levels[N].todo)
      /\ (NamesOnly => disk' = disk) /\ DOMAIN disk' \subseteq DOMAIN disk
  BY PartWritten DEF Put
<1>2. Working /\ Working' /\ Descent /\ SeenOnly /\ Naming /\ OnDisk
  BY <1>1 DEF KInv, Working
<1> HIDE DEF N
<1>3. Descent'
  <2>1. \A n \in 1 .. N : Remains(levels'[n].todo, Parts(levels[n].machine))
    <3> SUFFICES ASSUME NEW n \in 1 .. N PROVE Remains(levels'[n].todo, Parts(levels[n].machine))
      OBVIOUS
    <3>1. Remains(levels[n].todo, Parts(levels[n].machine)) /\ levels[n].machine \in Tree(Now)
      BY <1>1, <1>2 DEF Descent, Descends, N
    <3>2. Len(Parts(levels[n].machine)) \in Nat
      <4>1. levels[n].machine \in Machines
        BY <3>1 DEF Tree
      <4> QED BY <4>1, PartsFacts DEF IInv, Typed
    <3> QED BY <1>1, <3>1, <3>2, TailRemains
  <2> QED BY <1>1, <1>2, <2>1, DescentKeeps DEF N
<1>4. SeenOnly'
  <2>1. 1 \in 1 .. N
    BY <1>1
  <2>2. MachinesOf(fnind)' = MachinesOf(fnind)
    BY <1>1 DEF MachinesOf, Undisturbed
  <2> QED BY <1>1, <1>2, <2>1, <2>2 DEF SeenOnly, HasSubs, SameLevel, N
<1>5. Naming'
  <2>1. levels'[1].base = levels[1].base
    BY <1>1 DEF SameLevel
  <2> QED BY <1>1, <1>2, <2>1, NamesKeep DEF Undisturbed
<1>6. OnDisk'
  <2>1. \A i : ~Bad(i)'
    BY <1>1 DEF Bad
  <2>2. SubFiles(fnind)' = SubFiles(fnind)
    BY <1>1, FilesKeep DEF Undisturbed
  <2> QED BY <1>1, <1>2, <2>1, <2>2, DiskKeeps DEF Undisturbed, SameLevel, N
<1> QED BY <1>3, <1>4, <1>5, <1>6 DEF KInv

(* The files of a level that can be opened are on the disk, with their     *)
(* preambles if all could be; the others are as they were.                 *)
Opening(base, top) ==
  IF NamesOnly THEN disk' = disk
  ELSE /\ DOMAIN disk' = Own(base, top) \union DOMAIN disk
       /\ \A f \in Own(base, top) : disk'[f] = IF AllOpened(base, top) THEN <<"start">> ELSE << >>
       /\ \A f \in DOMAIN disk : f \notin Own(base, top) => disk'[f] = disk[f]
LEMMA OpensDisk ==
  ASSUME NEW base, NEW top, Open(base, top)
  PROVE  Opening(base, top)
<1>1. CASE NamesOnly
  BY <1>1 DEF Open, files, Opening
<1>2. CASE ~NamesOnly
  <2>1. disk' = Preambles(base, top)
    BY <1>2 DEF Open
  <2> QED BY <1>2, <2>1 DEF Preambles, Own, Opening
<1> QED BY <1>1, <1>2

(* A sub-machine begins: a level of its own, and the files it opens. *)
LEMMA SubMachineBegins ==
  ASSUME IInv, BeginSubMachine, phase' # "crashed"
  PROVE  LET N == Len(levels)
             m == Head(levels[N].todo) IN
         /\ Undisturbed /\ phase = "write" /\ phase' = "write" /\ printed' = printed
         /\ N \in Nat /\ N >= 1 /\ Len(levels') = N + 1
         /\ \A n \in 1 .. N : SameLevel(n)
         /\ \A n \in 1 .. N : n # N => /\ levels'[n].todo = levels[n].todo
                                       /\ levels'[n].subSeen = levels[n].subSeen
         /\ levels[N].todo \in Seq(Part) /\ levels[N].todo # << >> /\ m \in Machines
         /\ levels'[N].todo = Tail(levels[N].todo)
         /\ levels'[N].subSeen = (C /\ ~NamesOnly)
         /\ levels'[N + 1].machine = m /\ levels'[N + 1].base = m
         /\ levels'[N + 1].subSeen = FALSE /\ levels'[N + 1].todo = Parts(m)
         /\ levels'[N + 1].streams = (IF NamesOnly THEN << >> ELSE Streams(m, FALSE))
         /\ Opening(m, FALSE)
<1> DEFINE N == Len(levels)
           l == levels[N]
           m == Head(l.todo)
           k == [l EXCEPT !.todo = Tail(l.todo), !.subSeen = C /\ ~NamesOnly]
           b == [NewLevel(m, m, FALSE) EXCEPT !.todo = Parts(m)]
           bottom == [levels EXCEPT ![Len(levels)].todo = Tail(@)]
<1>0. /\ phase = "write" /\ Level.todo # << >> /\ Head(Level.todo) \in Machines
      /\ Undisturbed /\ phase' = "write" /\ Open(Head(Level.todo), FALSE)
      /\ levels' = Append([bottom EXCEPT ![Len(levels)].subSeen = C /\ ~NamesOnly],
                          [NewLevel(Head(Level.todo), Head(Level.todo), FALSE)
                             EXCEPT !.todo = Parts(Head(Level.todo))])
  BY DEF BeginSubMachine, Rest, main, history, Undisturbed, Crash
<1>1. N \in Nat /\ N >= 1 /\ N \in 1 .. N /\ levels \in Seq(LevelType) /\ l \in LevelType /\ Level = l
  BY <1>0, AtWork
<1>2. [bottom EXCEPT ![Len(levels)].subSeen = C /\ ~NamesOnly] = [levels EXCEPT ![N] = k]
  <2> HIDE DEF l
  <2>1. bottom = [levels EXCEPT ![N] = [l EXCEPT !.todo = Tail(l.todo)]]
    BY <1>1 DEF l
  <2> QED BY <1>1, <2>1 DEF l
<1>3. k.base = l.base /\ k.streams = l.streams /\ k.machine = l.machine
      /\ k.todo = Tail(l.todo) /\ l.todo \in Seq(Part) /\ k.subSeen = (C /\ ~NamesOnly)
  <2> HIDE DEF l
  <2> QED BY <1>1 DEF LevelType
<1>4. /\ b.machine = m /\ b.base = m /\ b.subSeen = FALSE /\ b.todo = Parts(m)
      /\ b.streams = (IF NamesOnly THEN << >> ELSE Streams(m, FALSE))
  <2> HIDE DEF m
  <2> QED BY DEF NewLevel
<1>5. levels' = Append([levels EXCEPT ![N] = k], b)
  BY <1>0, <1>1, <1>2
<1> HIDE DEF k, b
<1>6. /\ Len(levels') = N + 1 /\ levels'[N + 1] = b /\ levels'[N] = k
      /\ \A n \in 1 .. N : n # N => levels'[n] = levels[n]
  <2> DEFINE q == [levels EXCEPT ![N] = k]
  <2>1. Len(q) = N /\ DOMAIN q = 1 .. N /\ \A n \in 1 .. N : q[n] = IF n = N THEN k ELSE levels[n]
    BY <1>1
  <2>2. q \in Seq(LevelType \union {k})
    BY <1>1
  <2>4. N \in Nat /\ \A n \in 1 .. N : n \in Nat
    BY <1>1
  <2> HIDE DEF q, N
  <2>3. Len(Append(q, b)) = N + 1 /\ Append(q, b)[N + 1] = b /\ \A n \in 1 .. N : Append(q, b)[n] = q[n]
    BY <2>1, <2>2, <2>4
  <2> QED BY <1>1, <1>5, <2>1, <2>3 DEF q
<1>7. \A n \in 1 .. N : SameLevel(n)
  BY <1>1, <1>3, <1>6 DEF SameLevel
<1>8. \A n \in 1 .. N : n # N => levels'[n].todo = levels[n].todo /\ levels'[n].subSeen = levels[n].subSeen
  BY <1>6
<1>9. m \in Machines /\ levels[N].todo # << >> /\ Opening(m, FALSE)
  BY <1>0, <1>1, OpensDisk
<1>10. printed' = printed
  BY <1>0 DEF Open, files
<1>11. /\ levels'[N].todo = Tail(levels[N].todo) /\ levels[N].todo \in Seq(Part)
       /\ levels'[N].subSeen = (C /\ ~NamesOnly)
  BY <1>1, <1>3, <1>6
<1>12. /\ levels'[N + 1].machine = m /\ levels'[N + 1].base = m
       /\ levels'[N + 1].subSeen = FALSE /\ levels'[N + 1].todo = Parts(m)
       /\ levels'[N + 1].streams = (IF NamesOnly THEN << >> ELSE Streams(m, FALSE))
  <2>1. levels'[N + 1] = b
    BY <1>6
  <2> HIDE DEF m
  <2> QED BY <1>4, <2>1
<1> QED BY <1>0, <1>1, <1>6, <1>7, <1>8, <1>9, <1>10, <1>11, <1>12

LEMMA BeginSubMachineKnows ==
  ASSUME IInv, KInv, BeginSubMachine
  PROVE  KInv'
<1> SUFFICES ASSUME phase' # "crashed" PROVE KInv'
  BY DEF KInv
<1> PICK N : N = Len(levels)
  OBVIOUS
<1> PICK m : m = Head(levels[N].todo)
  OBVIOUS
<1>1. /\ Undisturbed /\ phase = "write" /\ phase' = "write"
      /\ N \in Nat /\ N >= 1 /\ Len(levels') = N + 1
      /\ \A n \in 1 .. N : SameLevel(n)
      /\ \A n \in 1 .. N : n # N => /\ levels'[n].todo = levels[n].todo
                                    /\ levels'[n].subSeen = levels[n].subSeen
      /\ levels[N].todo \in Seq(Part) /\ levels[N].todo # << >> /\ m \in Machines
      /\ levels'[N].todo = Tail(levels[N].todo)
      /\ levels'[N + 1].machine = m /\ levels'[N + 1].base = m
      /\ levels'[N + 1].subSeen = FALSE /\ levels'[N + 1].todo = Parts(m)
      /\ Opening(m, FALSE)
  BY SubMachineBegins
<1>2. Working /\ Working' /\ Descent /\ SeenOnly /\ Naming /\ OnDisk
  BY <1>1 DEF KInv, Working
<1>3. \A n \in 1 .. N : Descends(n) /\ levels[n].machine \in Machines
  BY <1>1, <1>2 DEF Descent, Descends, Tree
<1>4. m \in ToSet(SubMachines[levels[N].machine]) /\ Nests
  <2> DEFINE x == levels[N].machine
             q == levels[N].todo
             p == Parts(x)
  <2>1. x \in Machines /\ Remains(q, p)
    BY <1>1, <1>3 DEF Descends
  <2>2. p \in Seq(Part) /\ SubMachines[x] \in Seq(Subs) /\ "body" \notin Machines /\ "title" \notin Machines
    BY <2>1, PartsFacts, Ranks DEF IInv, Typed
  <2>3. \E i \in 1 .. Len(p) : m = p[i]
    <3>1. 1 \in 1 .. Len(q) /\ m = q[1] /\ Len(q) \in Nat /\ Len(p) \in Nat
      BY <1>1, <2>2
    <3>2. m = p[Len(p) - Len(q) + 1] /\ Len(q) <= Len(p)
      BY <2>1, <3>1 DEF Remains
    <3>3. Len(p) - Len(q) + 1 \in 1 .. Len(p)
      BY <3>1, <3>2
    <3> QED BY <3>2, <3>3
  <2>4. p \in {<<"body">>, <<"body">> \o SubMachines[x], <<"title">> \o SubMachines[x] \o <<"body">>}
    BY DEF Parts
  <2>5. ~Nests => p = <<"body">>
    BY DEF Parts, Nests, NamesOnly
  <2> HIDE DEF p, q, x
  <2>6. p # <<"body">>
    BY <1>1, <2>2, <2>3
  <2>7. \E i \in DOMAIN SubMachines[x] : m = SubMachines[x][i]
    <3>1. CASE p = <<"body">> \o SubMachines[x]
      BY <1>1, <2>2, <2>3, <3>1
    <3>2. CASE p = <<"title">> \o SubMachines[x] \o <<"body">>
      BY <1>1, <2>2, <2>3, <3>2
    <3> QED BY <2>4, <2>6, <3>1, <3>2
  <2> QED BY <2>5, <2>6, <2>7 DEF ToSet, x
<1>5. Now' = Now /\ Nests' = Nests /\ \A x : Parts(x)' = Parts(x)
  BY <1>1, FilesKeep DEF Undisturbed, Now, Nests
<1>6. Descent'
  <2>1. ASSUME NEW n \in 1 .. N PROVE Descends(n)'
    <3>1. Descends(n) /\ levels[n].machine \in Machines
      BY <1>3
    <3>2. Remains(levels'[n].todo, Parts(levels[n].machine))
      <4>1. Len(Parts(levels[n].machine)) \in Nat
        BY <3>1, PartsFacts DEF IInv, Typed
      <4> QED BY <1>1, <3>1, <4>1, TailRemains DEF Descends
    <3>3. Remains(levels[n].todo, Parts(levels[n].machine))'
      BY <1>1, <1>5, <3>2 DEF Remains, SameLevel
    <3>4. levels'[n].machine = levels[n].machine /\ levels'[n].base = levels[n].base
      BY <1>1 DEF SameLevel
    <3>5. n > 1 => levels'[n - 1].machine = levels[n - 1].machine
      <4>1. n > 1 => n - 1 \in 1 .. N
        BY <1>1
      <4> QED BY <1>1, <4>1 DEF SameLevel
    <3> QED BY <1>5, <3>1, <3>3, <3>4, <3>5 DEF Descends
  <2>2. Descends(N + 1)'
    <3>1. levels[N].machine \in Tree(Now) /\ Now \in Machines
      <4>1. Descends(N) /\ Descends(1)
        BY <1>1, <1>3
      <4>2. levels[1].machine = Now
        BY <1>1, <1>2 DEF Descent
      <4>3. levels[1].machine \in Machines
        BY <1>1, <1>3
      <4> QED BY <4>1, <4>2, <4>3 DEF Descends
    <3>2. m \in Tree(Now)
      BY <1>4, <3>1, Trees
    <3>3. Remains(Parts(m), Parts(m))
      <4>1. Parts(m) \in Seq(Part)
        BY <1>1, PartsFacts DEF IInv, Typed
      <4> QED BY <4>1 DEF Remains
    <3>4. Remains(levels[N + 1].todo, Parts(levels[N + 1].machine))'
      BY <1>1, <1>5, <3>3 DEF Remains
    <3>5. levels'[N].machine = levels[N].machine /\ N + 1 - 1 = N
      BY <1>1 DEF SameLevel
    <3>7. levels'[N + 1].base \in ToSet(SubMachines[levels'[N].machine])
      BY <1>1, <1>4, <3>5
    <3>8. levels'[N + 1].machine \in Tree(Now')
      BY <1>1, <1>5, <3>2
    <3> QED BY <1>1, <1>4, <1>5, <3>4, <3>5, <3>7, <3>8 DEF Descends
  <2>3. \A n \in 1 .. N + 1 : n \in 1 .. N \/ n = N + 1
    BY <1>1
  <2>4. \A n \in 1 .. Len(levels') : Descends(n)'
    BY <1>1, <2>1, <2>2, <2>3
  <2>5. described'[fnind'] # << >> /\ levels'[1].machine = Now'
    <3>1. 1 \in 1 .. N
      BY <1>1
    <3> QED BY <1>1, <1>2, <1>5, <3>1 DEF Descent, Undisturbed, SameLevel
  <2> QED BY <1>1, <2>4, <2>5 DEF Descent
<1>7. SubMachines[levels[N].machine] # << >>
  <2>1. ToSet(SubMachines[levels[N].machine]) # {}
    BY <1>4
  <2>2. ToSet(<< >>) = {}
    BY DEF ToSet
  <2> QED BY <2>1, <2>2
<1>8. SeenOnly'
  <2>1. MachinesOf(fnind)' = MachinesOf(fnind) /\ Now \in MachinesOf(fnind)
    <3>1. described[fnind] # << >> /\ described[fnind] \in Seq(Words)
      BY <1>1, <1>2 DEF Descent, IInv, Typed, Phases
    <3>2. Len(described[fnind]) \in DOMAIN described[fnind]
      BY <3>1
    <3> QED BY <1>1, <3>2 DEF MachinesOf, Undisturbed, Now, ToSet
  <2>2. levels'[1].subSeen => HasSubs(MachinesOf(fnind))
    <3>1. CASE N = 1
      <4>1. levels[N].machine = Now
        BY <1>1, <1>2, <3>1 DEF Descent
      <4> QED BY <1>7, <2>1, <4>1 DEF HasSubs
    <3>2. CASE N # 1
      <4>1. 1 \in 1 .. N
        BY <1>1
      <4> QED BY <1>1, <1>2, <3>2, <4>1 DEF SeenOnly
    <3> QED BY <3>1, <3>2
  <2>3. ASSUME NEW n \in 2 .. N + 1, levels'[n].subSeen
        PROVE  SubMachines[levels'[n].machine] # << >>
    <3>1. CASE n = N
      <4>1. levels'[N].machine = levels[N].machine
        BY <1>1 DEF SameLevel
      <4> QED BY <1>7, <3>1, <4>1
    <3>2. CASE n = N + 1
      BY <1>1, <2>3, <3>2
    <3>3. CASE n # N /\ n # N + 1
      <4>1. n \in 1 .. N /\ n \in 2 .. Len(levels)
        BY <1>1, <3>3
      <4>2. levels'[n].machine = levels[n].machine /\ levels'[n].subSeen = levels[n].subSeen
        BY <1>1, <3>3, <4>1 DEF SameLevel
      <4> QED BY <1>2, <2>3, <4>1, <4>2 DEF SeenOnly
    <3> QED BY <3>1, <3>2, <3>3
  <2> QED BY <1>1, <2>1, <2>2, <2>3 DEF SeenOnly, HasSubs
<1>9. Naming'
  <2>1. levels'[1].base = levels[1].base
    <3>1. 1 \in 1 .. N
      BY <1>1
    <3> QED BY <1>1, <3>1 DEF SameLevel
  <2> QED BY <1>1, <1>2, <2>1, NamesKeep DEF Undisturbed
<1>10. OnDisk'
  <2>1. NamesOnly' = NamesOnly
    BY <1>1, SameJob DEF Undisturbed
  <2>2. CASE NamesOnly
    BY <1>1, <1>2, <2>1, <2>2 DEF OnDisk, Opening
  <2>3. CASE ~NamesOnly
    <3> SUFFICES ASSUME NEW f \in DOMAIN disk'
                 PROVE  (OfOver(f) \/ OfPage(f) \/ OfLevel(f) \/ (Working /\ f \in SubFiles(fnind)))'
      BY <2>1, <2>3 DEF OnDisk
    <3>1. f \in Own(m, FALSE) \/ f \in DOMAIN disk
      BY <1>1, <2>3 DEF Opening
    <3>2. CASE f \in Own(m, FALSE)
      <4>1. N + 1 \in 1 .. Len(levels') /\ N + 1 > 1 /\ levels'[N + 1].base = m
        BY <1>1
      <4>2. Own(m, FALSE)' = Own(m, FALSE)
        BY <1>1, FilesKeep DEF Undisturbed
      <4>3. f \in Own(levels[N + 1].base, FALSE)'
        BY <3>2, <4>1, <4>2
      <4> QED BY <4>1, <4>3 DEF OfLevel
    <3>3. CASE f \in DOMAIN disk
      <4>1. OfOver(f) \/ OfPage(f) \/ OfLevel(f) \/ (Working /\ f \in SubFiles(fnind))
        BY <1>2, <2>3, <3>3 DEF OnDisk
      <4>2. OfOver(f) => OfOver(f)'
        <5>1. \A i : Over(i) => Over(i)' /\ ~Bad(i)'
          BY <1>1 DEF Over, Bad, Undisturbed
        <5> QED BY <1>1, <5>1, OverKeeps DEF Undisturbed
      <4>3. OfPage(f) => OfPage(f)'
        BY <1>1 DEF OfPage, Undisturbed
      <4>4. OfLevel(f) => OfLevel(f)'
        <5>1. \A n \in 1 .. N : n \in 1 .. N + 1 /\ levels'[n].base = levels[n].base
          BY <1>1 DEF SameLevel
        <5>2. \A n \in 1 .. Len(levels) : n \in 1 .. Len(levels') /\ levels'[n].base = levels[n].base
          BY <1>1, <5>1
        <5> QED BY <1>1, <5>2, LevelKeeps DEF Undisturbed
      <4>5. SubFiles(fnind)' = SubFiles(fnind)
        BY <1>1, FilesKeep DEF Undisturbed
      <4> QED BY <1>2, <4>1, <4>2, <4>3, <4>4, <4>5
    <3> QED BY <3>1, <3>2, <3>3
  <2> QED BY <2>2, <2>3
<1> QED BY <1>6, <1>8, <1>9, <1>10 DEF KInv

(* Closing a level removes what is not to stay, and ends the files that    *)
(* have an end.                                                            *)
Closing(how) ==
  IF NamesOnly THEN disk' = disk
  ELSE /\ DOMAIN disk' = DOMAIN disk \ Unlinked(how)
       /\ \A f \in DOMAIN disk' :
            disk'[f] = IF f \in StreamsOf(Ended(how)) \ {NoFile} THEN Append(disk[f], "end") ELSE disk[f]
LEMMA ClosesDisk ==
  ASSUME NEW how, CloseLevel(how)
  PROVE  Closing(how) /\ printed' = printed
<1>1. CASE NamesOnly
  BY <1>1 DEF CloseLevel, files, Closing
<1>2. CASE ~NamesOnly
  <2> DEFINE fs == StreamsOf(Ended(how)) \ {NoFile}
  <2>1. disk' = Restrict(Put(fs, "end"), DOMAIN disk \ Unlinked(how)) /\ printed' = printed
    BY <1>2 DEF CloseLevel
  <2> HIDE DEF fs
  <2>2. disk' = [f \in DOMAIN disk \ Unlinked(how) |-> Put(fs, "end")[f]]
    BY <2>1 DEF Restrict
  <2> QED BY <1>2, <2>1, <2>2 DEF Closing, Put, fs
<1> QED BY <1>1, <1>2

LEMMA TopEnds ==
  ASSUME IInv, EndMachine, phase' # "crashed", IsTop
  PROVE  /\ Undisturbed /\ phase = "write" /\ phase' = "parse" /\ Len(levels) = 1
         /\ levels' = levels /\ disk' = disk /\ printed' = printed /\ levels[1].todo = << >>
         /\ Complete(levels[1])
<1>1. /\ Undisturbed /\ phase = "write" /\ phase' = "parse" /\ Level.todo = << >>
      /\ levels' = levels /\ disk' = disk /\ printed' = printed
  BY DEF EndMachine, files, main, history, Undisturbed
<1>2. Len(levels) \in Nat /\ Len(levels) >= 1 /\ Level = levels[Len(levels)]
  BY <1>1, AtWork
<1>3. Len(levels) = 1
  BY <1>2 DEF IsTop
<1>4. Ready(levels[1])
  BY <1>1, <1>3 DEF IInv, Equipped
<1> QED BY <1>1, <1>2, <1>3, <1>4 DEF Ready

LEMMA SubMachineEnds ==
  ASSUME IInv, EndMachine, phase' # "crashed", ~IsTop
  PROVE  LET N == Len(levels) IN
         /\ Undisturbed /\ phase = "write" /\ phase' = "write" /\ printed' = printed
         /\ N \in Nat /\ N >= 2 /\ Len(levels') = N - 1
         /\ \A n \in 1 .. N - 1 : levels'[n] = levels[n] /\ SameLevel(n)
         /\ levels[N].todo = << >> /\ Level = levels[N] /\ Complete(Level)
         /\ LevelOK(Level, FALSE) /\ Closing(TRUE)
<1> DEFINE N == Len(levels)
<1>0. /\ phase = "write" /\ Level.todo = << >> /\ CloseLevel(TRUE) /\ Undisturbed
      /\ phase' = "write" /\ levels' = Front(levels)
  BY DEF EndMachine, main, history, Undisturbed, Crash
<1>1. N \in Nat /\ N >= 1 /\ N \in 1 .. N /\ levels \in Seq(LevelType) /\ Level = levels[N]
      /\ LevelOK(Level, N = 1)
  BY <1>0, AtWork
<1>2. N >= 2 /\ (N = 1) = FALSE
  BY <1>1 DEF IsTop
<1>3. Len(levels') = N - 1 /\ \A n \in 1 .. N - 1 : levels'[n] = levels[n]
  BY <1>0, <1>1, <1>2 DEF Front
<1>4. Complete(Level)
  <2>1. Ready(levels[N])
    BY <1>0, <1>1 DEF IInv, Equipped
  <2> QED BY <1>0, <1>1, <2>1 DEF Ready
<1>5. LevelOK(Level, FALSE)
  BY <1>1, <1>2
<1>6. \A n \in 1 .. N - 1 : SameLevel(n)
  BY <1>3 DEF SameLevel
<1>7. Closing(TRUE) /\ printed' = printed
  BY <1>0, ClosesDisk
<1> QED BY <1>0, <1>1, <1>2, <1>3, <1>4, <1>5, <1>6, <1>7

(* What stays of a sub-machine's files is its own. *)
LEMMA SubMachineStays ==
  ASSUME IInv, KInv, EndMachine, phase' # "crashed", ~IsTop, ~NamesOnly,
         NEW f \in DOMAIN disk', f \in Own(Level.base, FALSE)
  PROVE  f \in SubFiles(fnind)
<1> DEFINE N == Len(levels)
           m == Level.base
<1>1. /\ phase = "write" /\ N \in Nat /\ N >= 2 /\ Level = levels[N]
      /\ LevelOK(Level, FALSE) /\ Closing(TRUE)
  BY SubMachineEnds
<1>2. Descent /\ SeenOnly /\ Working
  BY <1>1 DEF KInv, Working
<1>3. /\ m \in Subs /\ Level.machine = m
      /\ Level.streams = Streams(m, FALSE) /\ DOMAIN Level.streams = ToSet(SlotsOf(job.writer, TRUE))
  <2>1. m \in Subs /\ Level.machine = m /\ Level.streams = Streams(m, FALSE)
    BY <1>1 DEF LevelOK
  <2>2. StreamsNamed(m, FALSE)
    BY StreamFacts DEF IInv, Typed
  <2> QED BY <2>1, <2>2 DEF StreamsNamed
<1>4. m \in Tree(Now) /\ Nests /\ Now \in MachinesOf(fnind) /\ Now \in Words
  <2>1. N \in 1 .. N /\ N > 1
    BY <1>1
  <2>2. Descends(N) /\ described[fnind] # << >>
    BY <1>1, <1>2, <2>1 DEF Descent
  <2>3. described[fnind] \in Seq(Words)
    BY <1>1 DEF IInv, Typed, Phases
  <2>4. Len(described[fnind]) \in DOMAIN described[fnind] /\ Now \in Words
    BY <2>2, <2>3 DEF Now
  <2>5. Now \in MachinesOf(fnind)
    BY <2>4 DEF MachinesOf, Now, ToSet
  <2> QED BY <1>1, <1>3, <2>1, <2>2, <2>4, <2>5 DEF Descends
<1>5. m \in Within(fnind)
  <2>1. m # Now
    BY <1>3, <1>4 DEF Subs
  <2> QED BY <1>4, <2>1 DEF Within
<1>6. f \in FilesOf(m, FALSE, HasSubs({m}))
  <2>1. f = [base |-> m, slot |-> f.slot] /\ f.slot \in Opened(m, FALSE)
    BY DEF Own
  <2>2. f.slot \in ToSet(SlotsOf(job.writer, FALSE))
    BY <2>1, NotOpened DEF IInv, Typed
  <2>3. f.slot = "subMachineH" => HasSubs({m})
    <3> SUFFICES ASSUME f.slot = "subMachineH" PROVE SubMachines[m] # << >>
      BY DEF HasSubs
    <3>1. C
      BY <2>2, Slotted, JobFacts DEF IInv, Typed, C
    <3>2. f \notin Unlinked(TRUE)
      BY <1>1 DEF Closing
    <3>3. Level.subSeen
      BY <2>1, <3>1, <3>2 DEF Unlinked, Dropped
    <3>4. N \in 2 .. Len(levels)
      BY <1>1
    <3>5. levels[N].subSeen /\ levels[N].machine = m
      BY <1>1, <1>3, <3>3
    <3>6. SubMachines[levels[N].machine] # << >>
      BY <1>2, <3>4, <3>5 DEF SeenOnly
    <3> QED BY <3>5, <3>6
  <2> DEFINE gone == IF HasSubs({m}) THEN {} ELSE {"subMachineH"}
  <2>4. FilesOf(m, FALSE, HasSubs({m})) = [base : {m}, slot : ToSet(SlotsOf(job.writer, FALSE)) \ gone]
    BY DEF FilesOf
  <2>5. f.slot \notin gone
    BY <2>3
  <2> HIDE DEF gone, m
  <2> QED BY <2>1, <2>2, <2>4, <2>5
<1>7. job.writer \notin {"xref", "statistics"}
  BY <1>4 DEF Nests
<1> QED BY <1>5, <1>6, <1>7 DEF SubFiles

LEMMA EndMachineKnows ==
  ASSUME IInv, KInv, EndMachine
  PROVE  KInv'
<1> SUFFICES ASSUME phase' # "crashed" PROVE KInv'
  BY DEF KInv
<1>1. CASE IsTop
  <2>1. /\ Undisturbed /\ phase = "write" /\ phase' = "parse"
        /\ levels' = levels /\ disk' = disk /\ levels[1].todo = << >>
    BY <1>1, TopEnds
  <2> QED BY <2>1, ParsesOn DEF Undisturbed
<1>2. CASE ~IsTop
  <2> PICK N : N = Len(levels)
    OBVIOUS
  <2>1. /\ Undisturbed /\ phase = "write" /\ phase' = "write"
        /\ N \in Nat /\ N >= 2 /\ Len(levels') = N - 1
        /\ \A n \in 1 .. N - 1 : levels'[n] = levels[n] /\ SameLevel(n)
        /\ Level = levels[N] /\ Closing(TRUE)
    BY <1>2, SubMachineEnds
  <2>2. Working /\ Working' /\ Descent /\ SeenOnly /\ Naming /\ OnDisk
    BY <2>1 DEF KInv, Working
  <2>3. 1 \in 1 .. N - 1 /\ \A n \in 1 .. N - 1 : n \in 1 .. N
    BY <2>1
  <2>4. Descent'
    <3>1. \A n \in 1 .. N - 1 : Remains(levels'[n].todo, Parts(levels[n].machine))
      <4> SUFFICES ASSUME NEW n \in 1 .. N - 1 PROVE Remains(levels[n].todo, Parts(levels[n].machine))
        BY <2>1
      <4> QED BY <2>1, <2>2, <2>3 DEF Descent, Descends
    <3>2. N - 1 \in 1 .. Len(levels)
      BY <2>1
    <3> QED BY <2>1, <2>2, <3>1, <3>2, DescentKeeps
  <2>5. SeenOnly'
    <3>1. MachinesOf(fnind)' = MachinesOf(fnind)
      BY <2>1 DEF MachinesOf, Undisturbed
    <3> QED BY <2>1, <2>2, <2>3, <3>1 DEF SeenOnly, HasSubs
  <2>6. Naming'
    BY <2>1, <2>2, <2>3, NamesKeep DEF Undisturbed
  <2>7. OnDisk'
    <3>1. NamesOnly' = NamesOnly
      BY <2>1, SameJob DEF Undisturbed
    <3>2. CASE NamesOnly
      BY <2>1, <2>2, <3>1, <3>2 DEF OnDisk, Closing
    <3>3. CASE ~NamesOnly
      <4> SUFFICES ASSUME NEW f \in DOMAIN disk'
                   PROVE  (OfOver(f) \/ OfPage(f) \/ OfLevel(f) \/ (Working /\ f \in SubFiles(fnind)))'
        BY <3>1, <3>3 DEF OnDisk
      <4>1. f \in DOMAIN disk
        BY <2>1, <3>3 DEF Closing
      <4>2. OfOver(f) \/ OfPage(f) \/ OfLevel(f) \/ (Working /\ f \in SubFiles(fnind))
        BY <2>2, <3>3, <4>1 DEF OnDisk
      <4>3. OfOver(f) => OfOver(f)'
        <5>1. \A i : Over(i) => Over(i)' /\ ~Bad(i)'
          BY <2>1 DEF Over, Bad, Undisturbed
        <5> QED BY <2>1, <5>1, OverKeeps DEF Undisturbed
      <4>4. OfPage(f) => OfPage(f)'
        BY <2>1 DEF OfPage, Undisturbed
      <4>5. SubFiles(fnind)' = SubFiles(fnind)
        BY <2>1, FilesKeep DEF Undisturbed
      <4>6. ASSUME OfLevel(f) PROVE OfLevel(f)' \/ f \in SubFiles(fnind)
        <5>1. PICK n \in 1 .. Len(levels) :
                (n = 1 /\ f \in Own(levels[n].base, TRUE)) \/ (n > 1 /\ f \in Own(levels[n].base, FALSE))
          BY <4>6 DEF OfLevel
        <5>2. CASE n = N
          <6>1. f \in Own(Level.base, FALSE)
            <7>1. n > 1 /\ ~(n = 1) /\ levels[n] = Level
              BY <2>1, <5>2
            <7> QED BY <5>1, <7>1
          <6> QED BY <1>2, <3>3, <6>1, SubMachineStays
        <5>3. CASE n # N
          <6>1. n \in 1 .. Len(levels') /\ levels'[n].base = levels[n].base
            BY <2>1, <5>3
          <6>2. \A b, t : Own(b, t)' = Own(b, t)
            BY <2>1, FilesKeep DEF Undisturbed
          <6> QED BY <5>1, <6>1, <6>2 DEF OfLevel
        <5> QED BY <5>2, <5>3
      <4> QED BY <2>2, <4>2, <4>3, <4>4, <4>5, <4>6
    <3> QED BY <3>2, <3>3
  <2> QED BY <2>4, <2>5, <2>6, <2>7 DEF KInv
<1> QED BY <1>1, <1>2

(* An input is begun, or passed over. *)
LEMMA OutputFails ==
  ASSUME IInv, InitOutput, InitReports(outFileBase, TRUE)
  PROVE  /\ phase = "init" /\ phase' = "files" /\ good /\ good' = good
         /\ job' = job /\ fnind' = fnind + 1 /\ skipped' = skipped \union {fnind}
         /\ outFileBase' = outFileBase /\ described' = described
         /\ levels = << >> /\ levels' = << >> /\ fnind \in Nat /\ fnind >= 1 /\ printed' = printed
         /\ Opening(outFileBase, TRUE) /\ ~NamesOnly /\ ~C
<1>1. /\ phase = "init" /\ phase' = "files" /\ good' = good /\ Open(outFileBase, TRUE)
      /\ job' = job /\ fnind' = fnind + 1 /\ skipped' = skipped \union {fnind}
      /\ outFileBase' = outFileBase /\ described' = described /\ levels' = levels
  BY DEF InitOutput, SkipInput
<1>2. good /\ levels = << >> /\ fnind \in Nat /\ fnind >= 1
  BY <1>1 DEF IInv, Phases, Typed
<1>3. ~NamesOnly /\ ~C
  BY DEF InitReports
<1>4. printed' = printed
  BY <1>1 DEF Open, files
<1> QED BY <1>1, <1>2, <1>3, <1>4, OpensDisk

LEMMA OutputBegins ==
  ASSUME IInv, InitOutput, ~InitReports(outFileBase, TRUE), phase' # "crashed"
  PROVE  /\ phase = "init" /\ phase' = "parse" /\ Undisturbed /\ printed' = printed
         /\ levels = << >> /\ Len(levels') = 1 /\ fnind \in DOMAIN job.inputs /\ fnind \in Nat
         /\ levels'[1].base = outFileBase /\ levels'[1].subSeen = FALSE /\ levels'[1].todo = << >>
         /\ levels'[1].streams = (IF NamesOnly THEN << >> ELSE Streams(outFileBase, TRUE))
         /\ Opening(outFileBase, TRUE) /\ described[fnind] = << >>
<1>1. /\ phase = "init" /\ phase' = "parse" /\ Undisturbed /\ Open(outFileBase, TRUE)
      /\ levels' = <<NewLevel("", outFileBase, TRUE)>>
  BY DEF InitOutput, Crash, Undisturbed
<1>2. levels = << >> /\ fnind \in DOMAIN job.inputs /\ fnind \in Nat /\ described[fnind] = << >>
  BY <1>1 DEF IInv, Phases, Typed
<1>3. Len(levels') = 1 /\ levels'[1] = NewLevel("", outFileBase, TRUE)
  BY <1>1
<1>4. /\ levels'[1].base = outFileBase /\ levels'[1].subSeen = FALSE /\ levels'[1].todo = << >>
      /\ levels'[1].streams = (IF NamesOnly THEN << >> ELSE Streams(outFileBase, TRUE))
  <2> DEFINE l == NewLevel("", outFileBase, TRUE)
  <2>1. /\ l.base = outFileBase /\ l.subSeen = FALSE /\ l.todo = << >>
        /\ l.streams = (IF NamesOnly THEN << >> ELSE Streams(outFileBase, TRUE))
    BY DEF NewLevel
  <2> HIDE DEF l
  <2>2. levels'[1] = l
    BY <1>3 DEF l
  <2> QED BY <2>1, <2>2
<1>5. printed' = printed
  BY <1>1 DEF Open, files
<1> QED BY <1>1, <1>2, <1>3, <1>4, <1>5, OpensDisk

(* What a writer that reports a failure has opened: a page without its     *)
(* style sheet, or nothing.                                                *)
LEMMA ReportedOpen ==
  ASSUME job \in Jobs, NEW base, InitReports(base, TRUE), NEW f \in Own(base, TRUE)
  PROVE  f.slot = "html" /\ ~job.css /\ f.base = base
<1>1. ~C /\ (~AllOpened(base, TRUE) \/ (job.writer = "html" /\ ~job.css))
  BY DEF InitReports
<1>2. ToSet(SlotsOf(job.writer, TRUE)) = {job.writer} \ {"statistics"}
  BY <1>1, Slotted
<1>3. f.base = base /\ f.slot \in Opened(base, TRUE) /\ Opened(base, TRUE) \subseteq ToSet(SlotsOf(job.writer, TRUE))
  BY NotOpened DEF Own
<1>4. AllOpened(base, TRUE)
  BY <1>2, <1>3 DEF AllOpened
<1> QED BY <1>1, <1>2, <1>3, <1>4

LEMMA InitOutputKnows ==
  ASSUME IInv, KInv, InitOutput
  PROVE  KInv'
<1> SUFFICES ASSUME phase' # "crashed" PROVE KInv'
  BY DEF KInv
<1>1. CASE InitReports(outFileBase, TRUE)
  <2>1. /\ phase = "init" /\ phase' = "files" /\ good /\ good' = good
        /\ job' = job /\ fnind' = fnind + 1 /\ skipped' = skipped \union {fnind}
        /\ outFileBase' = outFileBase /\ described' = described
        /\ levels = << >> /\ fnind \in Nat /\ fnind >= 1
        /\ Opening(outFileBase, TRUE) /\ ~NamesOnly
    BY <1>1, OutputFails
  <2>2. Naming /\ OnDisk /\ ~Working /\ ~Working'
    BY <2>1 DEF KInv, Working
  <2>3. Descent' /\ SeenOnly'
    BY <2>1, <2>2 DEF Descent, SeenOnly
  <2>4. \E j \in skipped' : outFileBase = NameOf(j)
    BY <2>1, <2>2 DEF Naming, Left
  <2>5. \A i \in DOMAIN job.inputs : i \in Nat
    BY JobFacts DEF IInv, Typed
  <2>6. Naming'
    <3>1. skipped' \subseteq 1 .. fnind' - 1
      BY <2>1, <2>2 DEF Naming
    <3>2. outFileBase' = NoName \/ Left'
      BY <1>1, <2>1, <2>4, FilesKeep DEF Left
    <3>3. fnind' # 1
      BY <2>1
    <3>4. \A i \in DOMAIN job.inputs : i < fnind' /\ i \notin skipped' => ~InitReports(NameOf(i), TRUE)
      <4> SUFFICES ASSUME NEW i \in DOMAIN job.inputs, i < fnind', i \notin skipped'
                   PROVE  ~InitReports(NameOf(i), TRUE)
        OBVIOUS
      <4>1. i < fnind /\ i \notin skipped
        BY <2>1, <2>5
      <4> QED BY <2>2, <4>1 DEF Naming
    <3>5. \A i \in DOMAIN job'.inputs : i < fnind' /\ i \notin skipped' => ~InitReports(NameOf(i), TRUE)'
      BY <2>1, <3>4, FilesKeep
    <3> QED BY <2>1, <2>2, <3>1, <3>2, <3>3, <3>5 DEF Naming
  <2>7. OnDisk'
    <3>1. ~NamesOnly'
      BY <2>1, SameJob
    <3> SUFFICES ASSUME NEW f \in DOMAIN disk' PROVE OfOver(f)' \/ OfPage(f)'
      BY <3>1 DEF OnDisk
    <3>2. CASE f \in Own(outFileBase, TRUE)
      <4>1. f.slot = "html" /\ ~job.css /\ f.base = outFileBase
        BY <1>1, <3>2, ReportedOpen DEF IInv, Typed
      <4>2. \E i \in skipped' : f.base \in {job.o, job.inputs[i].base}
        BY <2>4, <4>1 DEF NameOf
      <4> QED BY <2>1, <4>1, <4>2 DEF OfPage
    <3>3. CASE f \notin Own(outFileBase, TRUE)
      <4>1. f \in DOMAIN disk
        BY <2>1, <3>3 DEF Opening
      <4>2. OfOver(f) \/ OfPage(f) \/ OfLevel(f)
        BY <2>1, <2>2, <4>1 DEF OnDisk
      <4>3. ~OfLevel(f)
        BY <2>1 DEF OfLevel
      <4>4. OfOver(f) => OfOver(f)'
        <5>1. \A i : Over(i) => Over(i)' /\ ~Bad(i)'
          BY <2>1, <2>5 DEF Over, Bad
        <5> QED BY <2>1, <5>1, OverKeeps
      <4>5. OfPage(f) => OfPage(f)'
        BY <2>1 DEF OfPage
      <4> QED BY <4>2, <4>3, <4>4, <4>5
    <3> QED BY <3>2, <3>3
  <2> QED BY <2>3, <2>6, <2>7 DEF KInv
<1>2. CASE ~InitReports(outFileBase, TRUE)
  <2>1. /\ phase = "init" /\ phase' = "parse" /\ Undisturbed
        /\ levels = << >> /\ Len(levels') = 1
        /\ levels'[1].base = outFileBase /\ levels'[1].subSeen = FALSE /\ levels'[1].todo = << >>
        /\ Opening(outFileBase, TRUE)
    BY <1>2, OutputBegins
  <2>2. Naming /\ OnDisk /\ ~Working /\ Working'
    BY <2>1 DEF KInv, Working
  <2>3. Descent'
    BY <2>1 DEF Descent
  <2>4. SeenOnly'
    BY <2>1 DEF SeenOnly
  <2>5. outFileBase = NameOf(fnind)
    BY <1>2, <2>1, <2>2 DEF Naming, Left
  <2>6. Naming'
    BY <1>2, <2>1, <2>2, <2>5, FilesKeep DEF Naming, Undisturbed
  <2>7. OnDisk'
    <3>1. NamesOnly' = NamesOnly
      BY <2>1, SameJob DEF Undisturbed
    <3>2. CASE NamesOnly
      BY <2>1, <2>2, <3>1, <3>2 DEF OnDisk, Opening
    <3>3. CASE ~NamesOnly
      <4> SUFFICES ASSUME NEW f \in DOMAIN disk' PROVE OfOver(f)' \/ OfPage(f)' \/ OfLevel(f)'
        BY <3>1, <3>3 DEF OnDisk
      <4>1. CASE f \in Own(outFileBase, TRUE)
        <5>1. 1 \in 1 .. Len(levels')
          BY <2>1
        <5>2. f \in Own(levels[1].base, TRUE)'
          BY <2>1, <4>1, FilesKeep DEF Undisturbed
        <5> QED BY <5>1, <5>2 DEF OfLevel
      <4>2. CASE f \notin Own(outFileBase, TRUE)
        <5>1. f \in DOMAIN disk
          BY <2>1, <3>3, <4>2 DEF Opening
        <5>2. OfOver(f) \/ OfPage(f) \/ OfLevel(f)
          BY <2>2, <3>3, <5>1 DEF OnDisk
        <5>3. ~OfLevel(f)
          BY <2>1 DEF OfLevel
        <5>4. OfOver(f) => OfOver(f)'
          <6>1. \A i : Over(i) => Over(i)' /\ ~Bad(i)'
            BY <2>1 DEF Over, Bad, Undisturbed
          <6> QED BY <2>1, <6>1, OverKeeps DEF Undisturbed
        <5>5. OfPage(f) => OfPage(f)'
          BY <2>1 DEF OfPage, Undisturbed
        <5> QED BY <5>2, <5>3, <5>4, <5>5
      <4> QED BY <4>1, <4>2
    <3> QED BY <3>2, <3>3
  <2> QED BY <2>3, <2>4, <2>6, <2>7 DEF KInv
<1> QED BY <1>1, <1>2

LEMMA OutputCloses ==
  ASSUME IInv, CloseOutput, phase' # "crashed"
  PROVE  /\ phase = "close" /\ phase' = "files" /\ good' = good /\ good \in BOOLEAN
         /\ job' = job /\ fnind' = fnind + 1 /\ skipped' = skipped /\ described' = described
         /\ outFileBase' = NoName /\ levels' = << >> /\ printed' = printed
         /\ fnind \in Nat /\ fnind >= 1 /\ fnind \in DOMAIN job.inputs
         /\ Len(levels) = 1 /\ Level = levels[1] /\ LevelOK(Level, TRUE)
         /\ Closing(good) /\ (good => Complete(Level) /\ described[fnind] # << >>)
<1>1. /\ phase = "close" /\ phase' = "files" /\ good' = good
      /\ job' = job /\ fnind' = fnind + 1 /\ skipped' = skipped /\ described' = described
      /\ outFileBase' = NoName /\ levels' = << >> /\ CloseLevel(good)
  BY DEF CloseOutput, Crash, Prepare, history
<1>2. /\ fnind \in Nat /\ fnind >= 1 /\ fnind \in DOMAIN job.inputs /\ Len(levels) = 1
      /\ good \in BOOLEAN /\ (good => described[fnind] # << >>)
  BY <1>1 DEF IInv, Phases, Typed, Simple
<1>3. Level = levels[1] /\ LevelOK(Level, Len(levels) = 1) /\ (Len(levels) = 1) = TRUE
  BY <1>1, <1>2, AtWork
<1>4. LevelOK(Level, TRUE)
  BY <1>3
<1>5. good => Complete(Level)
  BY <1>1, <1>2, <1>3 DEF IInv, Equipped
<1> QED BY <1>1, <1>2, <1>3, <1>4, <1>5, ClosesDisk

(* What stays of an input's own files. *)
LEMMA OutputStays ==
  ASSUME IInv, KInv, CloseOutput, phase' # "crashed", ~NamesOnly,
         NEW f \in DOMAIN disk', f \in Own(Level.base, TRUE)
  PROVE  good /\ f \in TopFiles(fnind)
<1> DEFINE b == Level.base
           nested == HasSubs(MachinesOf(fnind))
           gone == IF nested THEN {} ELSE {"subMachineH"}
<1>1. /\ phase = "close" /\ Level = levels[1] /\ LevelOK(Level, TRUE) /\ Closing(good) /\ good \in BOOLEAN
  BY OutputCloses
<1>2. SeenOnly /\ Naming /\ Working
  BY <1>1 DEF KInv, Working
<1>3. b = NameOf(fnind)
  BY <1>1, <1>2 DEF Naming
<1>4. DOMAIN Level.streams = ToSet(SlotsOf(job.writer, TRUE))
  <2>1. Level.streams = Streams(b, TRUE)
    BY <1>1 DEF LevelOK
  <2>2. StreamsNamed(b, TRUE)
    BY StreamFacts DEF IInv, Typed
  <2> QED BY <2>1, <2>2 DEF StreamsNamed
<1>5. f = [base |-> b, slot |-> f.slot] /\ f.slot \in ToSet(SlotsOf(job.writer, TRUE))
  <2>1. f = [base |-> b, slot |-> f.slot] /\ f.slot \in Opened(b, TRUE)
    BY DEF Own
  <2> QED BY <2>1, NotOpened DEF IInv, Typed
<1>6. f \notin Unlinked(good)
  BY <1>1 DEF Closing
<1>7. good
  <2> SUFFICES ASSUME ~good PROVE FALSE
    OBVIOUS
  <2>1. Unlinked(good) = [base : {b}, slot : DOMAIN Level.streams]
    BY DEF Unlinked
  <2> HIDE DEF b
  <2> QED BY <1>4, <1>5, <1>6, <2>1
<1>8. f.slot = "subMachineH" => nested
  <2> SUFFICES ASSUME f.slot = "subMachineH" PROVE nested
    OBVIOUS
  <2>1. C
    BY <1>5, Slotted, JobFacts DEF IInv, Typed, C
  <2>2. Level.subSeen
    BY <1>5, <1>6, <1>7, <2>1 DEF Unlinked, Dropped
  <2> QED BY <1>1, <1>2, <2>2 DEF SeenOnly
<1>9. TopFiles(fnind) = [base : {b}, slot : ToSet(SlotsOf(job.writer, TRUE)) \ gone]
  BY <1>3 DEF TopFiles, FilesOf
<1>10. f.slot \notin gone
  BY <1>8
<1> HIDE DEF b, gone
<1> QED BY <1>5, <1>7, <1>9, <1>10

LEMMA CloseOutputKnows ==
  ASSUME IInv, KInv, CloseOutput
  PROVE  KInv'
<1> SUFFICES ASSUME phase' # "crashed" PROVE KInv'
  BY DEF KInv
<1>1. /\ phase = "close" /\ phase' = "files" /\ good' = good
      /\ job' = job /\ fnind' = fnind + 1 /\ skipped' = skipped /\ described' = described
      /\ outFileBase' = NoName /\ levels' = << >>
      /\ fnind \in Nat /\ fnind >= 1 /\ fnind \in DOMAIN job.inputs
      /\ Len(levels) = 1 /\ Level = levels[1] /\ Closing(good)
  BY OutputCloses
<1>2. Naming /\ OnDisk /\ Working /\ ~Working'
  BY <1>1 DEF KInv, Working
<1>3. Descent' /\ SeenOnly'
  BY <1>1, <1>2 DEF Descent, SeenOnly
<1>4. \A i \in DOMAIN job.inputs : i \in Nat
  BY JobFacts DEF IInv, Typed
<1>5. fnind \notin skipped
  BY <1>1, <1>2 DEF Naming
<1>6. Naming'
  <2>1. skipped' \subseteq 1 .. fnind' - 1
    BY <1>1, <1>2 DEF Naming
  <2>2. ASSUME NEW i \in DOMAIN job.inputs, i < fnind', i \notin skipped'
        PROVE  ~InitReports(NameOf(i), TRUE)
    <3>1. i < fnind \/ i = fnind
      BY <1>1, <1>4, <2>2
    <3> QED BY <1>1, <1>2, <2>2, <3>1 DEF Naming
  <2>3. \A i \in DOMAIN job'.inputs : i < fnind' /\ i \notin skipped' => ~InitReports(NameOf(i), TRUE)'
    BY <1>1, <2>2, FilesKeep
  <2>4. fnind' # 1
    BY <1>1
  <2> QED BY <1>1, <1>2, <2>1, <2>3, <2>4 DEF Naming
<1>7. OnDisk'
  <2>1. NamesOnly' = NamesOnly
    BY <1>1, SameJob
  <2>2. CASE NamesOnly
    BY <1>1, <1>2, <2>1, <2>2 DEF OnDisk, Closing
  <2>3. CASE ~NamesOnly
    <3> SUFFICES ASSUME NEW f \in DOMAIN disk' PROVE OfOver(f)' \/ OfPage(f)'
      BY <2>1, <2>3 DEF OnDisk
    <3>1. f \in DOMAIN disk
      BY <1>1, <2>3 DEF Closing
    <3>2. OfOver(f) \/ OfPage(f) \/ OfLevel(f) \/ f \in SubFiles(fnind)
      BY <1>2, <2>3, <3>1 DEF OnDisk
    <3>3. OfOver(f) => OfOver(f)'
      <4>1. ASSUME NEW i, Over(i) PROVE Over(i)' /\ ~Bad(i)'
        <5>1. i \in Nat /\ i < fnind
          BY <1>4, <4>1 DEF Over
        <5> QED BY <1>1, <4>1, <5>1 DEF Over, Bad
      <4> QED BY <1>1, <4>1, OverKeeps
    <3>4. OfPage(f) => OfPage(f)'
      BY <1>1 DEF OfPage
    <3>6. ASSUME f \in SubFiles(fnind) \/ (good /\ f \in TopFiles(fnind)) PROVE OfOver(f)'
      <4>1. PICK i : i = fnind
        OBVIOUS
      <4>2. Over(i)' /\ i \in DOMAIN job'.inputs
        BY <1>1, <1>5, <4>1 DEF Over
      <4>3. SubFiles(i)' = SubFiles(i) /\ TopFiles(i)' = TopFiles(i)
        BY <1>1, FilesKeep
      <4>4. good => ~Bad(i)'
        BY <1>1 DEF Bad
      <4> QED BY <3>6, <4>1, <4>2, <4>3, <4>4 DEF OfOver
    <3>7. OfLevel(f) => f \in Own(Level.base, TRUE)
      <4>1. \A n \in 1 .. Len(levels) : n = 1 /\ ~(n > 1)
        BY <1>1
      <4> QED BY <1>1, <4>1 DEF OfLevel
    <3>8. OfLevel(f) => good /\ f \in TopFiles(fnind)
      BY <2>3, <3>7, OutputStays
    <3> QED BY <3>2, <3>3, <3>4, <3>6, <3>8
  <2> QED BY <2>2, <2>3
<1> QED BY <1>3, <1>6, <1>7 DEF KInv

LEMMA InitKnows == Init => KInv
<1> SUFFICES ASSUME Init PROVE KInv
  OBVIOUS
<1>1. phase = "files" /\ fnind = 1 /\ outFileBase = job.o /\ disk = << >> /\ skipped = {} /\ job \in Jobs
  BY DEF Init
<1>2. Descent /\ SeenOnly
  BY <1>1 DEF Descent, SeenOnly, Working
<1>3. Naming
  <2>1. \A i \in DOMAIN job.inputs : ~(i < fnind)
    BY <1>1, JobFacts
  <2> QED BY <1>1, <2>1 DEF Naming, Working
<1>4. OnDisk
  <2>1. DOMAIN disk = {}
    BY <1>1
  <2> QED BY <1>1, <2>1 DEF OnDisk
<1> QED BY <1>2, <1>3, <1>4 DEF KInv

LEMMA StutterKnows == IInv /\ KInv /\ UNCHANGED vars => KInv'
<1> SUFFICES ASSUME IInv, KInv, UNCHANGED vars, phase # "crashed" PROVE KInv'
  BY DEF KInv, vars
<1>1. /\ job' = job /\ fnind' = fnind /\ outFileBase' = outFileBase /\ phase' = phase /\ good' = good
      /\ levels' = levels /\ disk' = disk /\ described' = described /\ skipped' = skipped
  BY DEF vars, main, files, history
<1>2. Descent /\ SeenOnly /\ Naming /\ OnDisk
  BY DEF KInv
<1>3. Now' = Now /\ Nests' = Nests /\ MachinesOf(fnind)' = MachinesOf(fnind) /\ Working' = Working
  BY <1>1 DEF Now, Nests, MachinesOf, Working
<1>4. Descent'
  <2>1. \A n : Descends(n) => Descends(n)'
    BY <1>1, <1>3, FilesKeep DEF Descends, Remains
  <2> QED BY <1>1, <1>2, <1>3, <2>1 DEF Descent
<1>5. SeenOnly'
  BY <1>1, <1>2, <1>3 DEF SeenOnly, HasSubs
<1>6. Naming'
  BY <1>1, <1>2, <1>3, FilesKeep DEF Naming, Left
<1>7. OnDisk'
  <2>1. \A i : Bad(i)' => Bad(i)
    BY <1>1 DEF Bad
  <2>2. SubFiles(fnind)' = SubFiles(fnind)
    BY <1>1, FilesKeep
  <2> QED BY <1>1, <1>2, <1>3, <2>1, <2>2, DiskKeeps
<1> QED BY <1>4, <1>5, <1>6, <1>7 DEF KInv

LEMMA StepKnows == IInv /\ KInv /\ [Next]_vars => KInv'
<1> SUFFICES ASSUME IInv, KInv, [Next]_vars PROVE KInv'
  OBVIOUS
<1>1. ASSUME TakeFile PROVE KInv'
  BY <1>1, TakeFileKnows
<1>2. ASSUME Finish PROVE KInv'
  BY <1>2, FinishKnows
<1>3. ASSUME InitOutput PROVE KInv'
  BY <1>3, InitOutputKnows
<1>4. ASSUME NEW x \in job.lexemes, Read(x) PROVE KInv'
  BY <1>4, ReadKnows
<1>5. ASSUME EndOfFile PROVE KInv'
  BY <1>5, EndOfFileKnows
<1>6. ASSUME WritePart PROVE KInv'
  BY <1>6, WritePartKnows
<1>7. ASSUME BeginSubMachine PROVE KInv'
  BY <1>7, BeginSubMachineKnows
<1>8. ASSUME EndMachine PROVE KInv'
  BY <1>8, EndMachineKnows
<1>9. ASSUME CloseOutput PROVE KInv'
  BY <1>9, CloseOutputKnows
<1>10. ASSUME UNCHANGED vars PROVE KInv'
  BY <1>10, StutterKnows
<1> QED BY <1>1, <1>2, <1>3, <1>4, <1>5, <1>6, <1>7, <1>8, <1>9, <1>10 DEF Next

LEMMA DiskInvariant == Spec => []KInv
<1> QED BY InitKnows, StepKnows, Invariant, PTL DEF Spec

(* When the program ends there is nothing on the disk but the files of the *)
(* good inputs, what sub-machines of the failed one have written, and the  *)
(* start of a page without its style sheet: whatever the inputs describe,  *)
(* whichever of them fail, whatever cannot be opened.  fsm_c_common.c:1374 *)
THEOREM AlwaysNothingElseLeft == Spec => []NothingElseLeft
<1>1. IInv /\ KInv => NothingElseLeft
  <2> SUFFICES ASSUME IInv, KInv, Exited, job.names = "no", NEW f \in DOMAIN disk
               PROVE  \/ \E i \in Taken \ Failed : f \in TopFiles(i) \union SubFiles(i)
                      \/ \E i \in Failed : f \in SubFiles(i)
                      \/ /\ f.slot = "html" /\ ~job.css
                         /\ \E i \in skipped : f.base \in {job.o, job.inputs[i].base}
    BY DEF NothingElseLeft
  <2>1. OnDisk /\ ~Working /\ ~NamesOnly /\ phase = "exited"
    BY DEF KInv, Exited, Working, NamesOnly
  <2>2. ~OfLevel(f)
    <3>1. Len(levels) = 0
      <4>1. levels = << >> /\ Len(<< >>) = 0
        BY <2>1 DEF IInv, Phases
      <4> QED BY <4>1
    <3> QED BY <3>1 DEF OfLevel
  <2>3. CASE OfOver(f)
    <3>1. PICK i \in DOMAIN job.inputs : Over(i) /\ (f \in SubFiles(i) \/ (~Bad(i) /\ f \in TopFiles(i)))
      BY <2>3 DEF OfOver
    <3>2. i \in Taken /\ (i \in Failed <=> Bad(i))
      BY <2>1, <3>1 DEF Over, Bad, Taken, Failed
    <3> QED BY <3>1, <3>2
  <2>4. CASE OfPage(f)
    BY <2>4 DEF OfPage
  <2> QED BY <2>1, <2>2, <2>3, <2>4 DEF OnDisk
<1> QED BY <1>1, Invariant, DiskInvariant, PTL

-----------------------------------------------------------------------------
(***************************************************************************)
(* What has been made.  The third invariant follows the parts into the     *)
(* files: what the files of every level hold, and that all sub-machines of *)
(* what has been written are made, at work or still to do.                 *)
(***************************************************************************)
(* made: written whole or, for -M, named *)
Made(f, ms) == IF NamesOnly THEN Named(f) ELSE Whole(f, ms)

SubMade(t)  == \A f \in FilesOf(t, FALSE, HasSubs({t})) : Made(f, <<t>>)
AtHand(t)   == \E n \in 2 .. Len(levels) : levels[n].base = t
Cared(t)    == AtHand(t) \/ SubMade(t)
TreeMade(s) == \A t \in Tree(s) : Cared(t)
BelowMade(m) == \A s \in ToSet(SubMachines[m]) : TreeMade(s)

(* the names of the outputs differ, or nothing is written *)
NamesDiffer == \A i, j \in DOMAIN job.inputs : NameOf(i) = NameOf(j) => i = j

InputMade(i) ==
  /\ \A f \in TopFiles(i) : Made(f, described[i])
  /\ Nests => \A m \in MachinesOf(i) : BelowMade(m)
InputsMade == \A i \in DOMAIN job.inputs : Over(i) /\ ~Bad(i) => InputMade(i)

(* the machines of the input at work that are written *)
Earlier == {described[fnind][k] : k \in 1 .. Len(described[fnind]) - (IF phase = "write" THEN 1 ELSE 0)}
EarlierMade ==
  /\ Nests => \A m \in Earlier : BelowMade(m)
  /\ C /\ ~NamesOnly /\ HasSubs(Earlier) => levels[1].subSeen

(* the sub-machines of a level's machine *)
LevelMade(n) ==
  \A s \in ToSet(SubMachines[levels[n].machine]) :
    \/ s \in ToSet(levels[n].todo)
    \/ /\ Nests => (n < Len(levels) /\ levels[n + 1].base = s) \/ TreeMade(s)
       /\ C /\ ~NamesOnly => levels[n].subSeen

(* what the n-th level's files are about, of how much of it they have the  *)
(* part, and of how much the title only                                    *)
About(n)  == IF n = 1 THEN described[fnind] ELSE <<levels[n].machine>>
Ahead(n)  == phase = "write" /\ "body" \in ToSet(levels[n].todo)
Done(n)   == Len(About(n)) - (IF Ahead(n) THEN 1 ELSE 0)
Titled(n) == IF Ahead(n) /\ "title" \notin ToSet(levels[n].todo) THEN Width - 1 ELSE 0

Bits == Part \union {"start", "end"}
Holds(q, ms, k, t) ==
  /\ q \in Seq(Bits) /\ Len(q) = 1 + Width * k + t /\ q[1] = "start"
  /\ \A i \in 1 .. k : q[1 + Width * i] = ms[i]
FilesAt(n) == IF n = 1 THEN Own(levels[n].base, TRUE) ELSE Own(levels[n].base, FALSE)
FullAt(n)  == IF n = 1 THEN AllOpened(levels[n].base, TRUE) ELSE AllOpened(levels[n].base, FALSE)
NamesAt(n) == IF n = 1 THEN NamesOf(levels[n], TRUE) ELSE NamesOf(levels[n], FALSE)
Filled(n) ==
  IF NamesOnly THEN Done(n) > 0 => NamesAt(n) \subseteq printed
  ELSE FullAt(n) => \A f \in FilesAt(n) : f \in DOMAIN disk /\ Holds(disk[f], About(n), Done(n), Titled(n))

Progress ==
  /\ InputsMade
  /\ Working => EarlierMade /\ \A n \in 1 .. Len(levels) : Filled(n)
  /\ phase = "write" => \A n \in 1 .. Len(levels) : LevelMade(n)
GInv == phase # "crashed" /\ (NamesOnly \/ NamesDiffer) => Progress

-----------------------------------------------------------------------------
(* What a step spares: the files of every other base, and what is printed. *)
Sparing(b) ==
  /\ printed \subseteq printed'
  /\ ~NamesOnly => \A f \in DOMAIN disk : f.base # b => f \in DOMAIN disk' /\ disk'[f] = disk[f]

(* No sub-machine that is cared for is lost. *)
Caring == \A t \in Subs : Cared(t) => Cared(t)'

LEMMA MadeKeeps ==
  ASSUME job' = job, NEW b, Sparing(b), NEW f, NEW ms, NamesOnly \/ f.base # b, Made(f, ms)
  PROVE  Made(f, ms)'
<1>1. NamesOnly' = NamesOnly /\ C' = C
  BY SameJob
<1>2. CASE NamesOnly
  <2>1. Named(f)
    BY <1>2 DEF Made
  <2>2. Named(f)'
    BY <1>1, <2>1 DEF Named, Sparing
  <2> QED BY <1>1, <1>2, <2>2 DEF Made
<1>3. CASE ~NamesOnly
  <2>1. Whole(f, ms) /\ f.base # b
    BY <1>3 DEF Made
  <2>2. f \in DOMAIN disk /\ f \in DOMAIN disk' /\ disk'[f] = disk[f]
    BY <1>3, <2>1 DEF Whole, Sparing
  <2>3. Whole(f, ms)'
    BY <2>1, <2>2 DEF Whole, Width
  <2> QED BY <1>1, <1>3, <2>3 DEF Made
<1> QED BY <1>2, <1>3

LEMMA SubMadeKeeps ==
  ASSUME job' = job, NEW b, Sparing(b), NEW t, NamesOnly \/ t # b, SubMade(t)
  PROVE  SubMade(t)'
<1>1. FilesOf(t, FALSE, HasSubs({t}))' = FilesOf(t, FALSE, HasSubs({t}))
  BY DEF FilesOf, HasSubs
<1>2. \A f \in FilesOf(t, FALSE, HasSubs({t})) : f.base = t
  BY DEF FilesOf
<1>3. ASSUME NEW f \in FilesOf(t, FALSE, HasSubs({t})) PROVE Made(f, <<t>>)'
  <2>1. Made(f, <<t>>) /\ (NamesOnly \/ f.base # b)
    BY <1>2 DEF SubMade
  <2> QED BY <2>1, MadeKeeps
<1> QED BY <1>1, <1>3 DEF SubMade

LEMMA CaredKeeps ==
  ASSUME job' = job, NEW b, Sparing(b),
         \A t \in Subs : t # b /\ AtHand(t) => AtHand(t)',
         b \in Subs => AtHand(b)' \/ SubMade(b)'
  PROVE  Caring
<1> SUFFICES ASSUME NEW t \in Subs, Cared(t) PROVE Cared(t)'
  BY DEF Caring
<1>1. CASE t = b
  BY <1>1 DEF Cared
<1>2. CASE t # b
  <2>1. SubMade(t) => SubMade(t)'
    BY <1>2, SubMadeKeeps
  <2> QED BY <1>2, <2>1 DEF Cared
<1> QED BY <1>1, <1>2

(* Below a sub-machine there are sub-machines only. *)
LEMMA SubsTree ==
  ASSUME NEW s \in Subs
  PROVE  Tree(s) \subseteq Subs
<1>1. Subs \in SUBSET Machines /\ s \in Subs /\ s \in Machines
  BY DEF Subs
<1>2. Hereditary(Subs)
  <2> SUFFICES ASSUME NEW x \in Subs PROVE ToSet(SubMachines[x]) \subseteq Subs
    BY DEF Hereditary
  <2>1. SubMachines[x] \in Seq(Subs)
    BY Ranks DEF Subs
  <2> QED BY <2>1 DEF ToSet
<1> QED BY <1>1, <1>2 DEF Tree

LEMMA TreesKeep ==
  ASSUME Caring
  PROVE  /\ \A s \in Subs : TreeMade(s) => TreeMade(s)'
         /\ \A m \in Machines : BelowMade(m) => BelowMade(m)'
<1>1. ASSUME NEW s \in Subs, TreeMade(s) PROVE TreeMade(s)'
  BY <1>1, SubsTree DEF TreeMade, Caring
<1>2. ASSUME NEW m \in Machines, BelowMade(m) PROVE BelowMade(m)'
  <2>1. \A s \in ToSet(SubMachines[m]) : s \in Subs
    BY Trees
  <2> QED BY <1>1, <1>2, <2>1 DEF BelowMade
<1> QED BY <1>1, <1>2

LEMMA InputKeeps ==
  ASSUME job' = job, job \in Jobs, NEW b, Sparing(b), Caring, NEW i \in DOMAIN job.inputs,
         described \in [DOMAIN job.inputs -> Seq(Words)],
         described'[i] = described[i], NamesOnly \/ NameOf(i) # b, InputMade(i)
  PROVE  InputMade(i)'
<1>1. TopFiles(i)' = TopFiles(i) /\ MachinesOf(i)' = MachinesOf(i) /\ Nests' = Nests
  BY FilesKeep DEF MachinesOf, Nests
<1>2. \A f \in TopFiles(i) : f.base = NameOf(i)
  BY DEF TopFiles, FilesOf
<1>3. ASSUME NEW f \in TopFiles(i) PROVE Made(f, described[i])'
  <2> PICK ms : ms = described[i]
    OBVIOUS
  <2>1. Made(f, ms) /\ (NamesOnly \/ f.base # b)
    BY <1>2 DEF InputMade
  <2>2. Made(f, ms)'
    BY <2>1, MadeKeeps
  <2> QED BY <2>2
<1>4. \A m \in MachinesOf(i) : m \in Machines
  <2>1. described[i] \in Seq(Words) /\ Words \subseteq Machines
    BY Ranks
  <2> QED BY <2>1 DEF MachinesOf, ToSet
<1>5. Nests => \A m \in MachinesOf(i) : BelowMade(m)'
  BY <1>4, TreesKeep DEF InputMade
<1> QED BY <1>1, <1>3, <1>5 DEF InputMade

(* No two levels have one base. *)
LEMMA BasesApart ==
  ASSUME LevelsIn(levels), job \in Jobs
  PROVE  /\ \A i, j \in 1 .. Len(levels) : i # j => levels[i].base # levels[j].base
         /\ \A i \in 2 .. Len(levels) : levels[i].base \in Subs
<1>1. Len(levels) \in Nat
  BY DEF LevelsIn
<1>2. \A i \in 2 .. Len(levels) : levels[i].base \in Subs
  <2> SUFFICES ASSUME NEW i \in 2 .. Len(levels) PROVE levels[i].base \in Subs
    OBVIOUS
  <2>1. i \in 1 .. Len(levels) /\ i # 1
    BY <1>1
  <2>2. LevelOK(levels[i], i = 1) /\ (i = 1) = FALSE
    BY <2>1 DEF LevelsIn
  <2>3. LevelOK(levels[i], FALSE)
    BY <2>2
  <2> QED BY <2>3 DEF LevelOK
<1>3. 1 \in 1 .. Len(levels) => levels[1].base \in Chosen
  <2> SUFFICES ASSUME 1 \in 1 .. Len(levels) PROVE levels[1].base \in Chosen
    OBVIOUS
  <2>1. LevelOK(levels[1], 1 = 1) /\ (1 = 1) = TRUE
    BY DEF LevelsIn
  <2>2. LevelOK(levels[1], TRUE)
    BY <2>1
  <2> QED BY <2>2 DEF LevelOK
<1>4. \A x \in Subs : Rank[x] \in Nat
  BY Ranks DEF Subs
<1>5. ASSUME NEW i \in 1 .. Len(levels), NEW j \in 1 .. Len(levels), i < j
      PROVE  levels[i].base # levels[j].base
  <2>1. j \in 2 .. Len(levels)
    BY <1>1, <1>5
  <2>2. CASE i = 1
    BY <1>2, <1>3, <2>1, <2>2, JobFacts
  <2>3. CASE i # 1
    <3>1. i \in 2 .. Len(levels)
      BY <1>1, <2>3
    <3>2. Rank[levels[j].base] < Rank[levels[i].base]
      BY <1>5, <2>1, <3>1 DEF LevelsIn
    <3> QED BY <1>2, <1>4, <2>1, <3>1, <3>2
  <2> QED BY <2>2, <2>3
<1>6. \A i, j \in 1 .. Len(levels) : i # j => i < j \/ j < i
  BY <1>1
<1> QED BY <1>2, <1>5, <1>6

-----------------------------------------------------------------------------
(* The parts of a machine: its title first if there are titles, its body   *)
(* last then, else first, and for the rest sub-machines, all of them.      *)
TitledParts == ~NamesOnly /\ job.writer = "rst"
LEMMA PartsShape ==
  ASSUME job \in Jobs, NEW m \in Machines, NEW p, p = Parts(m)
  PROVE  /\ p \in Seq(Part) /\ Len(p) \in Nat /\ Len(p) >= 1
         /\ TitledParts => /\ Len(p) >= 2 /\ p[1] = "title" /\ p[Len(p)] = "body"
                           /\ \A i \in 2 .. Len(p) - 1 : p[i] \in ToSet(SubMachines[m])
         /\ ~TitledParts => p[1] = "body" /\ \A i \in 2 .. Len(p) : p[i] \in ToSet(SubMachines[m])
         /\ Nests => ToSet(SubMachines[m]) \subseteq ToSet(p)
<1> PICK subs : subs = SubMachines[m]
  OBVIOUS
<1>1. subs \in Seq(Part) /\ <<"body">> \in Seq(Part) /\ <<"title">> \in Seq(Part) /\ Len(subs) \in Nat
  <2>1. subs \in Seq(Subs)
    BY Ranks
  <2> QED BY <2>1 DEF Part, Subs
<1>2. \A i \in 1 .. Len(subs) : subs[i] \in ToSet(subs)
  BY <1>1 DEF ToSet
<1>3. \A s \in ToSet(subs) : \E i \in 1 .. Len(subs) : subs[i] = s
  BY <1>1 DEF ToSet
<1>4. CASE TitledParts
  <2>1. p = <<"title">> \o subs \o <<"body">>
    BY <1>4 DEF Parts, TitledParts
  <2> PICK q : q = <<"title">> \o subs
    OBVIOUS
  <2>2. /\ q \in Seq(Part) /\ Len(q) = 1 + Len(subs) /\ q[1] = "title"
        /\ \A i \in 2 .. Len(q) : i - 1 \in 1 .. Len(subs) /\ q[i] = subs[i - 1]
    BY <1>1
  <2>3. /\ p \in Seq(Part) /\ Len(p) = Len(q) + 1 /\ p[Len(q) + 1] = "body"
        /\ \A i \in 1 .. Len(q) : p[i] = q[i]
    BY <1>1, <2>1, <2>2
  <2>4. Len(p) \in Nat /\ Len(p) >= 2 /\ p[1] = "title" /\ p[Len(p)] = "body"
    BY <1>1, <2>2, <2>3
  <2>5. \A i \in 2 .. Len(p) - 1 : p[i] \in ToSet(subs)
    BY <1>1, <1>2, <2>2, <2>3
  <2>6. ASSUME NEW k \in 1 .. Len(subs) PROVE \E i \in 1 .. Len(p) : p[i] = subs[k]
    <3>1. k + 1 \in 2 .. Len(q) /\ k + 1 \in 1 .. Len(q) /\ k + 1 \in 1 .. Len(p) /\ k + 1 - 1 = k
      BY <1>1, <2>2, <2>3
    <3>2. p[k + 1] = q[k + 1] /\ q[k + 1] = subs[k]
      BY <2>2, <2>3, <3>1
    <3> QED BY <3>1, <3>2
  <2>7. ToSet(subs) \subseteq ToSet(p)
    <3> SUFFICES ASSUME NEW s \in ToSet(subs) PROVE \E i \in DOMAIN p : p[i] = s
      BY DEF ToSet
    <3> QED BY <1>3, <2>3, <2>6
  <2> QED BY <1>4, <2>3, <2>4, <2>5, <2>7
<1>5. CASE ~TitledParts /\ Nests
  <2>1. p = <<"body">> \o subs
    BY <1>5 DEF Parts, TitledParts, Nests
  <2>2. /\ p \in Seq(Part) /\ Len(p) = 1 + Len(subs) /\ p[1] = "body"
        /\ \A i \in 2 .. Len(p) : i - 1 \in 1 .. Len(subs) /\ p[i] = subs[i - 1]
    BY <1>1, <2>1
  <2>3. Len(p) \in Nat /\ Len(p) >= 1 /\ \A i \in 2 .. Len(p) : p[i] \in ToSet(subs)
    BY <1>1, <1>2, <2>2
  <2>4. ASSUME NEW k \in 1 .. Len(subs) PROVE \E i \in 1 .. Len(p) : p[i] = subs[k]
    <3>1. k + 1 \in 2 .. Len(p) /\ k + 1 \in 1 .. Len(p) /\ k + 1 - 1 = k
      BY <1>1, <2>2
    <3>2. p[k + 1] = subs[k + 1 - 1]
      BY <2>2, <3>1
    <3> QED BY <3>1, <3>2
  <2>5. ToSet(subs) \subseteq ToSet(p)
    <3> SUFFICES ASSUME NEW s \in ToSet(subs) PROVE \E i \in DOMAIN p : p[i] = s
      BY DEF ToSet
    <3> QED BY <1>3, <2>2, <2>4
  <2> QED BY <1>5, <2>2, <2>3, <2>5
<1>6. CASE ~Nests
  <2>1. p = <<"body">> /\ ~TitledParts
    BY <1>6 DEF Parts, TitledParts, Nests, NamesOnly
  <2>2. p \in Seq(Part) /\ Len(p) = 1 /\ p[1] = "body"
    BY <1>1, <2>1
  <2> QED BY <1>6, <2>1, <2>2
<1> QED BY <1>4, <1>5, <1>6

LEMMA PartsAll ==
  ASSUME job \in Jobs, NEW m \in Machines
  PROVE  /\ "body" \in ToSet(Parts(m)) /\ ("title" \in ToSet(Parts(m)) <=> TitledParts)
         /\ Nests => ToSet(SubMachines[m]) \subseteq ToSet(Parts(m))
<1> PICK p : p = Parts(m)
  OBVIOUS
<1>1. /\ p \in Seq(Part) /\ Len(p) \in Nat /\ Len(p) >= 1
      /\ TitledParts => /\ Len(p) >= 2 /\ p[1] = "title" /\ p[Len(p)] = "body"
                        /\ \A i \in 2 .. Len(p) - 1 : p[i] \in ToSet(SubMachines[m])
      /\ ~TitledParts => p[1] = "body" /\ \A i \in 2 .. Len(p) : p[i] \in ToSet(SubMachines[m])
  BY PartsShape
<1>6. Nests => ToSet(SubMachines[m]) \subseteq ToSet(p)
  BY PartsShape
<1>2. DOMAIN p = 1 .. Len(p) /\ 1 \in DOMAIN p /\ Len(p) \in DOMAIN p
  BY <1>1
<1>3. "body" \in ToSet(p)
  BY <1>1, <1>2 DEF ToSet
<1>4. TitledParts => "title" \in ToSet(p)
  BY <1>1, <1>2 DEF ToSet
<1>5. ASSUME ~TitledParts PROVE "title" \notin ToSet(p)
  <2>1. \A s \in ToSet(SubMachines[m]) : s # "title"
    <3>1. ToSet(SubMachines[m]) \subseteq Machines
      BY Trees DEF Subs
    <3> QED BY <3>1, Ranks
  <2>2. \A i \in 1 .. Len(p) : p[i] # "title"
    <3> SUFFICES ASSUME NEW i \in 1 .. Len(p) PROVE p[i] # "title"
      OBVIOUS
    <3>1. i = 1 \/ i \in 2 .. Len(p)
      BY <1>1
    <3> QED BY <1>1, <1>5, <2>1, <3>1
  <2> QED BY <1>2, <2>2 DEF ToSet
<1> QED BY <1>3, <1>4, <1>5, <1>6

(* What is next of what is left, and what comes after it. *)
LEMMA PartNext ==
  ASSUME job \in Jobs, NEW m \in Machines, NEW q \in Seq(Part), q # << >>, Remains(q, Parts(m))
  PROVE  /\ \A x : x # Head(q) => (x \in ToSet(q) <=> x \in ToSet(Tail(q)))
         /\ Head(q) \in ToSet(q)
         /\ Head(q) \notin Machines => Head(q) \in {"title", "body"}
         /\ Head(q) = "title" => /\ TitledParts /\ "body" \in ToSet(Tail(q))
                                 /\ "title" \notin ToSet(Tail(q))
         /\ Head(q) = "body" => "body" \notin ToSet(Tail(q)) /\ "title" \notin ToSet(q)
<1> PICK p : p = Parts(m)
  OBVIOUS
<1> PICK d : d = Len(p) - Len(q)
  OBVIOUS
<1>1. /\ p \in Seq(Part) /\ Len(p) \in Nat /\ Len(p) >= 1
      /\ TitledParts => /\ Len(p) >= 2 /\ p[1] = "title" /\ p[Len(p)] = "body"
                        /\ \A i \in 2 .. Len(p) - 1 : p[i] \in ToSet(SubMachines[m])
      /\ ~TitledParts => p[1] = "body" /\ \A i \in 2 .. Len(p) : p[i] \in ToSet(SubMachines[m])
  BY PartsShape
<1>2. \A x \in ToSet(SubMachines[m]) : x \in Machines /\ x # "title" /\ x # "body"
  <2>1. ToSet(SubMachines[m]) \subseteq Machines
    BY Trees DEF Subs
  <2> QED BY <2>1, Ranks
<1>3. /\ Len(q) \in Nat /\ Len(q) >= 1 /\ d \in Nat /\ Len(q) = Len(p) - d
      /\ \A i \in 1 .. Len(q) : q[i] = p[d + i] /\ d + i \in 1 .. Len(p)
      /\ Head(q) = q[1] /\ Head(q) \in Part
  <2>1. Len(q) \in Nat /\ Len(q) >= 1 /\ Head(q) = q[1] /\ Head(q) \in Part
    OBVIOUS
  <2>2. Len(q) <= Len(p) /\ \A i \in 1 .. Len(q) : q[i] = p[d + i]
    BY DEF Remains
  <2> QED BY <1>1, <2>1, <2>2
<1>4. /\ Tail(q) \in Seq(Part) /\ Len(Tail(q)) = Len(q) - 1
      /\ \A i \in 1 .. Len(q) - 1 : Tail(q)[i] = q[i + 1]
  OBVIOUS
<1>5. \A x : x \in ToSet(q) <=> \E i \in 1 .. Len(q) : q[i] = x
  BY DEF ToSet
<1>6. \A x : x \in ToSet(Tail(q)) <=> \E i \in 2 .. Len(q) : q[i] = x
  <2> SUFFICES ASSUME NEW x PROVE x \in ToSet(Tail(q)) <=> \E i \in 2 .. Len(q) : q[i] = x
    OBVIOUS
  <2>1. x \in ToSet(Tail(q)) <=> \E i \in 1 .. Len(q) - 1 : Tail(q)[i] = x
    BY <1>3, <1>4 DEF ToSet
  <2>2. \A i \in 2 .. Len(q) : i - 1 \in 1 .. Len(q) - 1 /\ Tail(q)[i - 1] = q[i]
    BY <1>3, <1>4
  <2>3. \A i \in 1 .. Len(q) - 1 : i + 1 \in 2 .. Len(q) /\ Tail(q)[i] = q[i + 1]
    BY <1>3, <1>4
  <2> QED BY <2>1, <2>2, <2>3
<1>7. \A i \in 1 .. Len(q) : i = 1 \/ i \in 2 .. Len(q)
  BY <1>3
<1>8. 1 \in 1 .. Len(q) /\ \A i \in 2 .. Len(q) : i \in 1 .. Len(q)
  BY <1>3
<1>9. \A x : x # Head(q) => (x \in ToSet(q) <=> x \in ToSet(Tail(q)))
  BY <1>3, <1>5, <1>6, <1>7, <1>8
<1>10. Head(q) \in ToSet(q)
  BY <1>3, <1>5, <1>8
<1>11. Head(q) \notin Machines => Head(q) \in {"title", "body"}
  BY <1>3 DEF Part
<1>12. q[1] = p[d + 1] /\ d + 1 \in 1 .. Len(p)
  BY <1>3, <1>8
<1>13. CASE TitledParts
  <2>1. ASSUME NEW i \in 1 .. Len(p) PROVE (p[i] = "title" <=> i = 1) /\ (p[i] = "body" <=> i = Len(p))
    <3>1. i = 1 \/ i = Len(p) \/ i \in 2 .. Len(p) - 1
      BY <1>1
    <3>2. i \in 2 .. Len(p) - 1 => i # 1 /\ i # Len(p) /\ p[i] # "title" /\ p[i] # "body"
      BY <1>1, <1>2, <1>13
    <3>3. 1 # Len(p) /\ p[1] = "title" /\ p[Len(p)] = "body"
      BY <1>1, <1>13
    <3> QED BY <3>1, <3>2, <3>3
  <2>2. ASSUME NEW i \in 1 .. Len(q)
        PROVE  (q[i] = "title" <=> d + i = 1) /\ (q[i] = "body" <=> d + i = Len(p))
    <3>1. q[i] = p[d + i] /\ d + i \in 1 .. Len(p)
      BY <1>3
    <3>2. (p[d + i] = "title" <=> d + i = 1) /\ (p[d + i] = "body" <=> d + i = Len(p))
      BY <2>1, <3>1
    <3> QED BY <3>1, <3>2
  <2>3. ASSUME NEW i \in 2 .. Len(q) PROVE q[i] # "title"
    <3>1. i \in 1 .. Len(q) /\ d + i # 1
      BY <1>3
    <3> QED BY <2>2, <3>1
  <2>4. ASSUME Head(q) = "title" PROVE "body" \in ToSet(Tail(q)) /\ "title" \notin ToSet(Tail(q))
    <3>1. d + 1 = 1
      BY <1>3, <1>8, <2>2, <2>4
    <3>2. Len(q) \in 2 .. Len(q)
      BY <1>1, <1>3, <1>13, <3>1
    <3>4. Len(q) \in 1 .. Len(q) /\ d + Len(q) = Len(p)
      BY <1>1, <1>3
    <3>3. q[Len(q)] = "body"
      BY <2>2, <3>4
    <3> QED BY <1>6, <2>3, <3>2, <3>3
  <2>5. ASSUME Head(q) = "body" PROVE "body" \notin ToSet(Tail(q)) /\ "title" \notin ToSet(q)
    <3>4. d + 1 = Len(p)
      BY <1>3, <1>8, <2>2, <2>5
    <3>1. 1 = Len(q)
      BY <1>1, <1>3, <3>4
    <3>2. ~ \E i \in 2 .. Len(q) : q[i] = "body"
      BY <3>1
    <3>3. ~ \E i \in 1 .. Len(q) : q[i] = "title"
      BY <1>3, <1>7, <2>3, <2>5
    <3> QED BY <1>5, <1>6, <3>2, <3>3
  <2> QED BY <1>9, <1>10, <1>11, <1>13, <2>4, <2>5
<1>14. CASE ~TitledParts
  <2>1. \A i \in 2 .. Len(p) : p[i] # "title" /\ p[i] # "body"
    BY <1>1, <1>2, <1>14
  <2>2. \A i \in 2 .. Len(q) : q[i] # "title" /\ q[i] # "body"
    <3> SUFFICES ASSUME NEW i \in 2 .. Len(q) PROVE q[i] # "title" /\ q[i] # "body"
      OBVIOUS
    <3>1. i \in 1 .. Len(q) /\ i >= 2
      BY <1>8
    <3>2. q[i] = p[d + i] /\ d + i \in 1 .. Len(p) /\ d + i >= 2
      BY <1>3, <3>1
    <3>3. d + i \in 2 .. Len(p)
      BY <1>1, <3>2
    <3> QED BY <2>1, <3>2, <3>3
  <2>3. q[1] # "title"
    <3>1. d + 1 = 1 \/ d + 1 \in 2 .. Len(p)
      BY <1>3, <1>12
    <3>2. p[1] = "body"
      BY <1>1, <1>14
    <3> QED BY <1>12, <2>1, <3>1, <3>2
  <2>4. Head(q) # "title" /\ "title" \notin ToSet(q) /\ "body" \notin ToSet(Tail(q))
    BY <1>3, <1>5, <1>6, <1>7, <2>2, <2>3
  <2> QED BY <1>9, <1>10, <1>11, <2>4
<1> QED BY <1>13, <1>14

(* A file that holds something gets another part. *)
LEMMA Widths ==
  /\ Width \in 1 .. 2 /\ (~NamesOnly => (Width = 2 <=> TitledParts))
BY DEF Width, TitledParts

LEMMA HoldsAhead ==
  ASSUME NEW q, NEW ms, NEW k \in Nat, NEW t \in Nat, Holds(q, ms, k, t), NEW x \in Bits
  PROVE  Holds(Append(q, x), ms, k, t + 1)
<1> PICK w : w = Width
  OBVIOUS
<1>1. /\ q \in Seq(Bits) /\ Len(q) = 1 + w * k + t /\ q[1] = "start"
      /\ \A i \in 1 .. k : q[1 + w * i] = ms[i]
  BY DEF Holds
<1>2. w \in 1 .. 2
  BY Widths
<1>3. w * k \in Nat /\ \A i \in 1 .. k : 1 + w * i \in 1 .. 1 + w * k
  <2>1. CASE w = 1
    BY <2>1
  <2>2. CASE w = 2
    BY <2>2
  <2> QED BY <1>2, <2>1, <2>2
<1>4. /\ Append(q, x) \in Seq(Bits) /\ Len(Append(q, x)) = 1 + w * k + (t + 1)
      /\ \A i \in 1 .. Len(q) : Append(q, x)[i] = q[i]
  BY <1>1, <1>3
<1>5. \A i \in 1 .. 1 + w * k : i \in 1 .. Len(q)
  BY <1>1, <1>3
<1>6. \A i \in 1 .. k : Append(q, x)[1 + w * i] = ms[i]
  BY <1>1, <1>3, <1>4, <1>5
<1>7. 1 \in 1 .. Len(q)
  BY <1>1, <1>3
<1>8. Append(q, x)[1] = "start"
  BY <1>1, <1>4, <1>7
<1> QED BY <1>4, <1>6, <1>8 DEF Holds

LEMMA HoldsMore ==
  ASSUME NEW q, NEW ms, NEW k \in Nat, Holds(q, ms, k, Width - 1), NEW x \in Bits, x = ms[k + 1]
  PROVE  Holds(Append(q, x), ms, k + 1, 0)
<1> PICK w : w = Width
  OBVIOUS
<1>1. w \in 1 .. 2 /\ w - 1 \in Nat /\ w * k \in Nat /\ w * (k + 1) = w * k + w
  <2>1. w \in 1 .. 2
    BY Widths
  <2>2. CASE w = 1
    BY <2>2
  <2>3. CASE w = 2
    BY <2>3
  <2> QED BY <2>1, <2>2, <2>3
<1>2. Holds(Append(q, x), ms, k, (w - 1) + 1)
  BY <1>1, HoldsAhead
<1>3. /\ Append(q, x) \in Seq(Bits) /\ Append(q, x)[1] = "start"
      /\ Len(Append(q, x)) = 1 + w * k + ((w - 1) + 1)
      /\ \A i \in 1 .. k : Append(q, x)[1 + w * i] = ms[i]
  BY <1>2 DEF Holds
<1>4. Len(Append(q, x)) = 1 + w * (k + 1)
  BY <1>1, <1>3
<1>5. Append(q, x)[1 + w * (k + 1)] = x
  <2>1. q \in Seq(Bits)
    BY DEF Holds
  <2>2. Append(q, x)[Len(Append(q, x))] = x
    BY <2>1
  <2> QED BY <1>4, <2>2
<1>6. \A i \in 1 .. k + 1 : Append(q, x)[1 + w * i] = ms[i]
  <2>1. \A i \in 1 .. k + 1 : i \in 1 .. k \/ i = k + 1
    OBVIOUS
  <2> QED BY <1>3, <1>5, <2>1
<1>7. 1 + w * (k + 1) + 0 = 1 + w * (k + 1)
  BY <1>1
<1> QED BY <1>3, <1>4, <1>6, <1>7 DEF Holds

-----------------------------------------------------------------------------
(* A level that has all its streams could open all its files. *)
LEMMA CompleteOpens ==
  ASSUME job \in Jobs, NEW base, NEW top \in BOOLEAN,
         \A s \in DOMAIN Streams(base, top) : Streams(base, top)[s] # NoFile
  PROVE  Opened(base, top) = ToSet(SlotsOf(job.writer, top))
<1> DEFINE q == Streams(base, top)
           opened == Opened(base, top)
           all == ToSet(SlotsOf(job.writer, TRUE))
           Stream(s) == IF s \in opened THEN [base |-> base, slot |-> s] ELSE NoFile
<1>1. q = [s \in all |-> IF s = "pubH" /\ ~top THEN Stream("h") ELSE Stream(s)]
  BY DEF Streams
<1>2. opened \subseteq ToSet(SlotsOf(job.writer, top))
  BY NotOpened
<1>3. /\ ToSet(SlotsOf(job.writer, top)) \subseteq all
      /\ ~top => "pubH" \notin ToSet(SlotsOf(job.writer, top))
  <2>1. ToSet(SlotsOf(job.writer, FALSE)) = all \ {"pubH"}
    BY Slotted
  <2>2. CASE top = TRUE
    BY <2>2
  <2>3. CASE top = FALSE
    BY <2>1, <2>3
  <2> QED BY <2>2, <2>3
<1>4. ASSUME NEW s \in ToSet(SlotsOf(job.writer, top)) PROVE s \in opened
  <2>1. q[s] # NoFile /\ s \in all /\ ~(s = "pubH" /\ ~top)
    BY <1>1, <1>3
  <2>2. q[s] = Stream(s)
    BY <1>1, <2>1
  <2> QED BY <2>1, <2>2
<1> QED BY <1>2, <1>4

(* Those of its files are ended whose kind has an end. *)
LEMMA EndedFiles ==
  ASSUME job \in Jobs, NEW base, NEW top \in BOOLEAN, Level.streams = Streams(base, top),
         NEW f \in Own(base, top)
  PROVE  f \in StreamsOf(Ended(TRUE)) \ {NoFile} <=> HasEnd(f.slot)
<1> DEFINE q == Streams(base, top)
           opened == Opened(base, top)
           all == ToSet(SlotsOf(job.writer, TRUE))
           Stream(s) == IF s \in opened THEN [base |-> base, slot |-> s] ELSE NoFile
<1>1. q = [s \in all |-> IF s = "pubH" /\ ~top THEN Stream("h") ELSE Stream(s)]
  BY DEF Streams
<1>2. f = [base |-> base, slot |-> f.slot] /\ f.slot \in opened
  BY DEF Own
<1>3. f.slot \in all /\ f.slot \in Slots /\ ~(f.slot = "pubH" /\ ~top)
  <2>1. ToSet(SlotsOf(job.writer, FALSE)) = all \ {"pubH"} /\ all \subseteq Slots
    BY Slotted
  <2>2. f.slot \in ToSet(SlotsOf(job.writer, top))
    BY <1>2, NotOpened
  <2>3. CASE top = TRUE
    BY <2>1, <2>2, <2>3
  <2>4. CASE top = FALSE
    BY <2>1, <2>2, <2>4
  <2> QED BY <2>3, <2>4
<1>4. f # NoFile
  <2>1. f.slot # ""
    BY <1>3 DEF Slots
  <2>2. NoFile.slot = ""
    BY DEF NoFile
  <2> QED BY <2>1, <2>2
<1>5. StreamsOf(Ended(TRUE)) = {q[s] : s \in {z \in all : HasEnd(z)}}
  <2>1. DOMAIN Level.streams = all /\ Level.streams = q
    BY <1>1
  <2>2. Ended(TRUE) = {z \in all : HasEnd(z)}
    BY <2>1 DEF Ended
  <2>3. {z \in all : HasEnd(z)} \intersect all = {z \in all : HasEnd(z)}
    OBVIOUS
  <2> HIDE DEF q, all
  <2> QED BY <2>1, <2>2, <2>3 DEF StreamsOf
<1>6. ASSUME HasEnd(f.slot) PROVE f \in StreamsOf(Ended(TRUE))
  <2>1. q[f.slot] = f
    BY <1>1, <1>2, <1>3
  <2> QED BY <1>3, <1>5, <1>6, <2>1
<1>7. ASSUME NEW s \in all, HasEnd(s), q[s] = f PROVE HasEnd(f.slot)
  <2>1. CASE s = "pubH" /\ ~top
    <3>1. f = Stream("h")
      BY <1>1, <1>7, <2>1
    <3>2. f.slot = "h"
      BY <1>4, <3>1
    <3> QED BY <3>2 DEF HasEnd
  <2>2. CASE ~(s = "pubH" /\ ~top)
    <3>1. f = Stream(s)
      BY <1>1, <1>7, <2>2
    <3>2. f.slot = s
      BY <1>4, <3>1
    <3> QED BY <1>7, <3>2
  <2> QED BY <2>1, <2>2
<1> HIDE DEF q, all
<1> QED BY <1>4, <1>5, <1>6, <1>7

LEMMA FilesNamed ==
  ASSUME NEW base, NEW top, NEW ms, NEW f \in FilesOf(base, top, HasSubs(ms))
  PROVE  /\ f = [base |-> base, slot |-> f.slot] /\ f.slot \in ToSet(SlotsOf(job.writer, top))
         /\ f.slot = "subMachineH" => HasSubs(ms)
<1> DEFINE gone == IF HasSubs(ms) THEN {} ELSE {"subMachineH"}
<1>1. FilesOf(base, top, HasSubs(ms)) = [base : {base}, slot : ToSet(SlotsOf(job.writer, top)) \ gone]
  BY DEF FilesOf
<1>2. f.slot \notin gone => (f.slot = "subMachineH" => HasSubs(ms))
  OBVIOUS
<1> HIDE DEF gone
<1> QED BY <1>1, <1>2

(* Once a level is closed as good, its files are whole: its header for     *)
(* sub-machines is kept if it has seen one.                                *)
LEMMA LevelWhole ==
  ASSUME job \in Jobs, job' = job, ~NamesOnly, NEW base, NEW top \in BOOLEAN,
         Level.streams = Streams(base, top), Level.base = base, Complete(Level), Closing(TRUE),
         NEW f, f = [base |-> base, slot |-> f.slot], f.slot \in ToSet(SlotsOf(job.writer, top)),
         C /\ f.slot = "subMachineH" => Level.subSeen,
         NEW ms, ms \in Seq(Machines), f \in DOMAIN disk, Holds(disk[f], ms, Len(ms), 0)
  PROVE  Whole(f, ms)'
<1> PICK w : w = Width
  OBVIOUS
<1> PICK n : n = Len(ms)
  OBVIOUS
<1>2. f \in Own(base, top)
  <2>1. Opened(base, top) = ToSet(SlotsOf(job.writer, top))
    BY CompleteOpens DEF Complete
  <2> QED BY <2>1 DEF Own
<1>3. f \in DOMAIN disk'
  <2>1. Unlinked(TRUE) = [base : {base}, slot : Dropped(TRUE)]
    BY DEF Unlinked
  <2>2. f.slot \notin Dropped(TRUE)
    <3> SUFFICES ASSUME f.slot = "subMachineH", C, ~Level.subSeen PROVE FALSE
      BY DEF Dropped
    <3> QED OBVIOUS
  <2> PICK gone : gone = Dropped(TRUE)
    OBVIOUS
  <2>4. f \notin [base : {base}, slot : gone]
    BY <2>2
  <2>3. f \notin Unlinked(TRUE)
    BY <2>1, <2>4
  <2> QED BY <2>3 DEF Closing
<1>4. disk'[f] = IF HasEnd(f.slot) THEN Append(disk[f], "end") ELSE disk[f]
  <2>1. f \in StreamsOf(Ended(TRUE)) \ {NoFile} <=> HasEnd(f.slot)
    BY <1>2, EndedFiles
  <2>2. disk'[f] = IF f \in StreamsOf(Ended(TRUE)) \ {NoFile} THEN Append(disk[f], "end") ELSE disk[f]
    BY <1>3 DEF Closing
  <2> QED BY <2>1, <2>2
<1>5. n \in Nat /\ DOMAIN ms = 1 .. n /\ w * n \in Nat /\ \A i \in 1 .. n : 1 + w * i \in 1 .. 1 + w * n
  <2>1. n \in Nat /\ w \in 1 .. 2 /\ DOMAIN ms = 1 .. n
    BY Widths
  <2>2. CASE w = 1
    BY <2>1, <2>2
  <2>3. CASE w = 2
    BY <2>1, <2>3
  <2> QED BY <2>1, <2>2, <2>3
<1>6. /\ disk[f] \in Seq(Bits) /\ Len(disk[f]) = 1 + w * n /\ disk[f][1] = "start"
      /\ \A i \in 1 .. n : disk[f][1 + w * i] = ms[i]
  <2>1. /\ disk[f] \in Seq(Bits) /\ Len(disk[f]) = 1 + w * n + 0 /\ disk[f][1] = "start"
        /\ \A i \in 1 .. n : disk[f][1 + w * i] = ms[i]
    BY DEF Holds
  <2> QED BY <1>5, <2>1
<1>7. Width' = w
  BY DEF Width
<1>8. CASE HasEnd(f.slot)
  <2> PICK q : q = Append(disk[f], "end")
    OBVIOUS
  <2>1. "end" \in Bits
    BY DEF Bits
  <2>2. /\ q \in Seq(Bits) /\ Len(q) = 1 + w * n + 1 /\ q[1 + w * n + 1] = "end"
        /\ \A i \in 1 .. 1 + w * n : q[i] = disk[f][i]
    BY <1>5, <1>6, <2>1
  <2>3. q[1] = "start" /\ \A i \in 1 .. n : q[1 + w * i] = ms[i]
    <3>1. 1 \in 1 .. 1 + w * n
      BY <1>5
    <3> QED BY <1>5, <1>6, <2>2, <3>1
  <2>4. Last(q) = "end"
    BY <2>2 DEF Last
  <2>5. disk'[f] = q
    BY <1>4, <1>8
  <2> QED BY <1>3, <1>5, <1>7, <1>8, <2>2, <2>3, <2>4, <2>5 DEF Whole
<1>9. CASE ~HasEnd(f.slot)
  <2>1. disk'[f] = disk[f]
    BY <1>4, <1>9
  <2>2. 1 + w * n + 0 = 1 + w * n
    BY <1>6
  <2> QED BY <1>3, <1>5, <1>6, <1>7, <1>9, <2>1, <2>2 DEF Whole
<1> QED BY <1>8, <1>9

(* What -M prints for a level names its files. *)
LEMMA NamesCover ==
  ASSUME job \in Jobs, NamesOnly, NEW l, NEW top \in BOOLEAN, NamesOf(l, top) \subseteq printed,
         NEW nested, NEW f \in FilesOf(l.base, top, nested)
  PROVE  Named(f)
<1>1. f = [base |-> l.base, slot |-> f.slot] /\ f.slot \in ToSet(SlotsOf(job.writer, top))
  BY DEF FilesOf
<1>2. CASE ~C
  <2>1. f.slot = job.writer
    <3>1. ToSet(SlotsOf(job.writer, TRUE)) = {job.writer} \ {"statistics"}
      BY <1>2, Slotted
    <3>2. ToSet(SlotsOf(job.writer, FALSE)) = ToSet(SlotsOf(job.writer, TRUE)) \ {"pubH"}
      BY Slotted
    <3>3. CASE top = TRUE
      BY <1>1, <3>1, <3>3
    <3>4. CASE top = FALSE
      BY <1>1, <3>1, <3>2, <3>4
    <3> QED BY <3>3, <3>4
  <2>2. NamesOf(l, top) = [base : {l.base}, slot : {job.writer}]
    BY <1>2 DEF NamesOf
  <2> QED BY <1>1, <2>1, <2>2 DEF Named
<1>3. CASE C
  <2>1. f.slot \in {"c", "h", "pubH", "subMachineH", "eventsH"} /\ (~top => f.slot # "pubH")
    <3>1. ToSet(SlotsOf(job.writer, TRUE)) = {"c", "h", "pubH", "subMachineH", "eventsH"}
      BY <1>3, Slotted
    <3>2. ToSet(SlotsOf(job.writer, FALSE)) = ToSet(SlotsOf(job.writer, TRUE)) \ {"pubH"}
      BY Slotted
    <3>3. CASE top = TRUE
      BY <1>1, <3>1, <3>3
    <3>4. CASE top = FALSE
      BY <1>1, <3>1, <3>2, <3>4
    <3> QED BY <3>3, <3>4
  <2>2. job.names \in {"sources", "headers", "recipe"}
    BY JobFacts DEF NamesOnly
  <2>3. CASE job.names = "sources"
    <3>1. NamesOf(l, top) = [base : {l.base}, slot : {"c"}]
      BY <1>3, <2>3 DEF NamesOf
    <3> QED BY <1>1, <1>3, <2>3, <3>1 DEF Named
  <2>4. CASE job.names = "headers"
    <3> DEFINE heads == IF top THEN {"h", "subMachineH", "eventsH"} \union {"pubH"}
                        ELSE {"h", "subMachineH", "eventsH"}
    <3>1. NamesOf(l, top) = [base : {l.base}, slot : heads]
      BY <1>3, <2>4 DEF NamesOf
    <3>2. f.slot # "c" => f.slot \in heads
      BY <2>1
    <3> HIDE DEF heads
    <3> QED BY <1>1, <1>3, <2>4, <3>1, <3>2 DEF Named
  <2>5. CASE job.names = "recipe"
    <3>1. NamesOf(l, top) = [base : {l.base}, slot : {"h", "subMachineH", "eventsH"} \union {"c", "pubH"}]
      BY <1>3, <2>5 DEF NamesOf
    <3> QED BY <1>1, <2>1, <3>1 DEF Named
  <2> QED BY <2>2, <2>3, <2>4, <2>5
<1> QED BY <1>2, <1>3

(* Each step spares what is not of the level it is about. *)
LEMMA OpeningSpares ==
  ASSUME NEW b, NEW top, Opening(b, top), printed' = printed
  PROVE  Sparing(b)
<1>1. \A f \in Own(b, top) : f.base = b
  BY DEF Own
<1> QED BY <1>1 DEF Opening, Sparing

LEMMA HeldOwn ==
  ASSUME job \in Jobs, ~NamesOnly, NEW top \in BOOLEAN, LevelOK(Level, top)
  PROVE  /\ Held(Level) = Own(Level.base, top) /\ \A f \in Held(Level) : f.base = Level.base
         /\ Level.streams = Streams(Level.base, top)
<1>1. Level.streams = Streams(Level.base, top)
  BY DEF LevelOK
<1>2. StreamsOpened(Level.base, top)
  BY StreamFacts
<1>3. Held(Level) = Own(Level.base, top)
  BY <1>1, <1>2 DEF Held, Own, StreamsOpened
<1> QED BY <1>1, <1>3 DEF Own

LEMMA ClosingSpares ==
  ASSUME job \in Jobs, NEW how, NEW top \in BOOLEAN, LevelOK(Level, top),
         Closing(how), printed' = printed
  PROVE  Sparing(Level.base)
<1>1. CASE NamesOnly
  BY <1>1 DEF Sparing
<1>2. CASE ~NamesOnly
  <2> SUFFICES ASSUME NEW f \in DOMAIN disk, f.base # Level.base
               PROVE  f \in DOMAIN disk' /\ disk'[f] = disk[f]
    BY <1>2 DEF Sparing
  <2>1. f \notin Unlinked(how)
    <3>1. \A g \in Unlinked(how) : g.base = Level.base
      BY DEF Unlinked
    <3> QED BY <3>1
  <2>2. f \notin StreamsOf(Ended(how)) \ {NoFile}
    <3>1. StreamsOf(Ended(how)) \ {NoFile} \subseteq Held(Level)
      BY DEF StreamsOf, Held
    <3> QED BY <1>2, <3>1, HeldOwn
  <2> QED BY <1>2, <2>1, <2>2 DEF Closing
<1> QED BY <1>1, <1>2

-----------------------------------------------------------------------------
(* What has been made stays, as long as the input at work does. *)
Kept(i) == \E b : Sparing(b) /\ (NamesOnly \/ NameOf(i) # b)
LEMMA InputsKeep ==
  ASSUME job' = job, job \in Jobs, Caring, InputsMade,
         described \in [DOMAIN job.inputs -> Seq(Words)],
         \A i \in DOMAIN job.inputs : Over(i)' /\ ~Bad(i)' =>
           Over(i) /\ ~Bad(i) /\ described'[i] = described[i] /\ Kept(i)
  PROVE  InputsMade'
<1> SUFFICES ASSUME NEW i \in DOMAIN job.inputs, Over(i)', ~Bad(i)' PROVE InputMade(i)'
  BY DEF InputsMade
<1>1. Over(i) /\ ~Bad(i) /\ described'[i] = described[i] /\ Kept(i)
  OBVIOUS
<1> PICK b : Sparing(b) /\ (NamesOnly \/ NameOf(i) # b)
  BY <1>1 DEF Kept
<1>2. InputMade(i)
  BY <1>1 DEF InputsMade
<1> QED BY <1>1, <1>2, InputKeeps

LEMMA InputsStay ==
  ASSUME IInv, KInv, InputsMade, NamesOnly \/ NamesDiffer, Working, Working',
         job' = job, fnind' = fnind, skipped' = skipped,
         \A i : i # fnind => described'[i] = described[i],
         NEW b, b \in Subs \/ b = levels[1].base, Sparing(b), Caring
  PROVE  InputsMade'
<1>1. job \in Jobs /\ described \in [DOMAIN job.inputs -> Seq(Words)] /\ fnind \in Nat
      /\ fnind \in DOMAIN job.inputs /\ levels[1].base = NameOf(fnind)
  BY DEF IInv, Typed, Phases, KInv, Naming, Working
<1>2. ASSUME NEW i \in DOMAIN job.inputs, Over(i)', ~Bad(i)'
      PROVE  Over(i) /\ ~Bad(i) /\ described'[i] = described[i] /\ (NamesOnly \/ NameOf(i) # b)
  <2>1. Over(i) /\ i < fnind
    BY <1>2 DEF Over
  <2>2. ~Bad(i)
    BY DEF Bad, Working
  <2>3. i # fnind
    BY <1>1, <2>1
  <2>4. CASE b \in Subs
    <3>1. NameOf(i) \in Chosen
      BY DEF NameOf, Chosen
    <3> QED BY <1>1, <2>1, <2>2, <2>3, <2>4, <3>1, JobFacts
  <2>5. CASE b = levels[1].base
    BY <1>1, <2>1, <2>2, <2>3, <2>5 DEF NamesDiffer
  <2> QED BY <2>4, <2>5
<1>3. ASSUME NEW i \in DOMAIN job.inputs, Over(i)', ~Bad(i)'
      PROVE  Over(i) /\ ~Bad(i) /\ described'[i] = described[i] /\ Kept(i)
  BY <1>2, <1>3 DEF Kept
<1> QED BY <1>1, <1>3, InputsKeep

LEMMA EarlierKeeps ==
  ASSUME job' = job, Caring, EarlierMade, Earlier' = Earlier, Earlier \subseteq Machines,
         C /\ ~NamesOnly /\ levels[1].subSeen => levels'[1].subSeen
  PROVE  EarlierMade'
<1>1. NamesOnly' = NamesOnly /\ C' = C /\ Nests' = Nests
  BY SameJob DEF Nests
<1>2. Nests => \A m \in Earlier : BelowMade(m)'
  BY TreesKeep DEF EarlierMade
<1>3. C /\ ~NamesOnly /\ HasSubs(Earlier) => levels'[1].subSeen
  BY DEF EarlierMade
<1>4. HasSubs(Earlier)' <=> HasSubs(Earlier)
  BY DEF HasSubs
<1> QED BY <1>1, <1>2, <1>3, <1>4 DEF EarlierMade

LEMMA EarlierFacts ==
  ASSUME IInv, Working
  PROVE  /\ fnind \in DOMAIN job.inputs /\ described[fnind] \in Seq(Words)
         /\ Earlier \subseteq Machines /\ Earlier \subseteq MachinesOf(fnind)
         /\ phase # "write" => Earlier = MachinesOf(fnind)
<1>1. fnind \in DOMAIN job.inputs /\ described[fnind] \in Seq(Words)
  BY DEF IInv, Typed, Phases, Working
<1> PICK q : q = described[fnind]
  OBVIOUS
<1>2. q \in Seq(Words) /\ Len(q) \in Nat /\ DOMAIN q = 1 .. Len(q)
  BY <1>1
<1>3. MachinesOf(fnind) = {q[k] : k \in 1 .. Len(q)}
  BY <1>2 DEF MachinesOf, ToSet
<1>4. {q[k] : k \in 1 .. Len(q)} \subseteq Machines
  BY <1>2, Ranks
<1>5. CASE phase = "write"
  <2>1. Earlier = {q[k] : k \in 1 .. Len(q) - 1}
    BY <1>5 DEF Earlier
  <2>2. \A k \in 1 .. Len(q) - 1 : k \in 1 .. Len(q)
    BY <1>2
  <2>3. Earlier \subseteq {q[k] : k \in 1 .. Len(q)}
    BY <2>1, <2>2
  <2> QED BY <1>1, <1>3, <1>4, <1>5, <2>3
<1>6. CASE phase # "write"
  <2>1. Earlier = {q[k] : k \in 1 .. Len(q) - 0}
    BY <1>6 DEF Earlier
  <2>2. Len(q) - 0 = Len(q)
    BY <1>2
  <2> QED BY <1>1, <1>3, <1>4, <2>1, <2>2
<1> QED BY <1>5, <1>6

(* The files of a level that are spared. *)
LEMMA SameKind ==
  ASSUME job' = job, NEW n, levels'[n].base = levels[n].base
  PROVE  /\ FilesAt(n)' = FilesAt(n) /\ (FullAt(n)' <=> FullAt(n)) /\ NamesAt(n)' = NamesAt(n)
         /\ NamesOnly' = NamesOnly /\ Width' = Width
<1>1. NamesOnly' = NamesOnly /\ C' = C /\ Width' = Width
  BY SameJob DEF Width
<1>2. FilesAt(n)' = FilesAt(n)
  BY FilesKeep DEF FilesAt
<1>3. FullAt(n)' <=> FullAt(n)
  BY DEF FullAt, AllOpened, Opened
<1>4. NamesAt(n)' = NamesAt(n)
  BY <1>1 DEF NamesAt, NamesOf
<1> QED BY <1>1, <1>2, <1>3, <1>4

LEMMA FilledKeeps ==
  ASSUME job' = job, NEW b, Sparing(b), NEW n, Filled(n),
         levels'[n].base = levels[n].base, NamesOnly \/ levels[n].base # b,
         Done(n)' = Done(n), Titled(n)' = Titled(n),
         \A i \in 1 .. Done(n) : About(n)'[i] = About(n)[i]
  PROVE  Filled(n)'
<1>1. /\ FilesAt(n)' = FilesAt(n) /\ (FullAt(n)' <=> FullAt(n)) /\ NamesAt(n)' = NamesAt(n)
      /\ NamesOnly' = NamesOnly /\ Width' = Width
  BY SameKind
<1>2. CASE NamesOnly
  BY <1>1, <1>2 DEF Filled, Sparing
<1>3. CASE ~NamesOnly
  <2> SUFFICES ASSUME FullAt(n), NEW f \in FilesAt(n)
               PROVE  f \in DOMAIN disk' /\ Holds(disk[f], About(n), Done(n), Titled(n))'
    BY <1>1, <1>3 DEF Filled
  <2>1. f \in DOMAIN disk /\ Holds(disk[f], About(n), Done(n), Titled(n))
    BY <1>3 DEF Filled
  <2>2. f.base = levels[n].base
    BY DEF FilesAt, Own
  <2>3. f \in DOMAIN disk' /\ disk'[f] = disk[f]
    BY <1>3, <2>1, <2>2 DEF Sparing
  <2> QED BY <1>1, <2>1, <2>3 DEF Holds
<1> QED BY <1>2, <1>3

(* A level that has the same ahead is as far as it was. *)
LEMMA AsFar ==
  ASSUME Undisturbed, NEW n, SameLevel(n), phase = "write", phase' = "write",
         "body" \in ToSet(levels'[n].todo) <=> "body" \in ToSet(levels[n].todo),
         "title" \in ToSet(levels'[n].todo) <=> "title" \in ToSet(levels[n].todo)
  PROVE  About(n)' = About(n) /\ Done(n)' = Done(n) /\ Titled(n)' = Titled(n)
<1>1. About(n)' = About(n)
  BY DEF About, Undisturbed, SameLevel
<1>2. Ahead(n)' <=> Ahead(n)
  BY DEF Ahead
<1>3. Width' = Width
  BY DEF Width, Undisturbed
<1>4. Done(n)' = Done(n)
  BY <1>1, <1>2 DEF Done
<1>5. Titled(n)' = Titled(n)
  BY <1>2, <1>3 DEF Titled
<1> QED BY <1>1, <1>4, <1>5

(* Steps that leave the files and the levels as they are. *)
LEMMA NothingSpent ==
  ASSUME job' = job, disk' = disk, printed' = printed, Len(levels') = Len(levels),
         \A n \in 2 .. Len(levels) : levels'[n].base = levels[n].base
  PROVE  (\A b : Sparing(b)) /\ Caring
<1>1. \A b : Sparing(b)
  BY DEF Sparing
<1>2. \A t \in Subs : AtHand(t) => AtHand(t)'
  BY DEF AtHand
<1> PICK b : b \notin Subs
  <2>1. "title" \notin Subs
    BY Ranks DEF Subs
  <2> QED BY <2>1
<1>3. Sparing(b) /\ b \notin Subs
  BY <1>1
<1>4. Caring
  BY <1>2, <1>3, CaredKeeps
<1> QED BY <1>1, <1>4

LEMMA AllKept ==
  ASSUME \A b : Sparing(b)
  PROVE  \A i : Kept(i)
<1> SUFFICES ASSUME NEW i PROVE \E b \in {"title", "body"} : NameOf(i) # b
  BY DEF Kept
<1> QED OBVIOUS

-----------------------------------------------------------------------------
(* What each step does to it. *)
LEMMA Judged ==
  ASSUME job' = job, GInv, phase # "crashed", (NamesOnly \/ NamesDiffer)'
  PROVE  Progress /\ (NamesOnly \/ NamesDiffer)
<1>1. NamesOnly' = NamesOnly /\ (NamesDiffer' <=> NamesDiffer)
  BY SameJob, FilesKeep DEF NamesDiffer
<1> QED BY <1>1 DEF GInv

LEMMA TakeFileMakes ==
  ASSUME IInv, GInv, TakeFile
  PROVE  GInv'
<1> SUFFICES ASSUME (NamesOnly \/ NamesDiffer)' PROVE Progress'
  BY DEF GInv
<1>0. /\ phase = "files" /\ good /\ phase' \in {"exited", "init"}
      /\ job' = job /\ fnind' = fnind /\ good' = good /\ skipped' = skipped
      /\ levels' = levels /\ disk' = disk /\ printed' = printed /\ described' = described
  BY DEF TakeFile, Exit, files, history
<1>1. InputsMade /\ job \in Jobs /\ described \in [DOMAIN job.inputs -> Seq(Words)]
  BY <1>0, Judged DEF Progress, IInv, Typed
<1>2. Caring /\ \A i : Kept(i)
  BY <1>0, NothingSpent, AllKept
<1>3. \A i \in DOMAIN job.inputs : Over(i)' /\ ~Bad(i)' =>
        Over(i) /\ ~Bad(i) /\ described'[i] = described[i] /\ Kept(i)
  BY <1>0, <1>2 DEF Over, Bad
<1>4. InputsMade'
  BY <1>0, <1>1, <1>2, <1>3, InputsKeep
<1> QED BY <1>0, <1>4 DEF Progress, Working

LEMMA FinishMakes ==
  ASSUME IInv, GInv, Finish
  PROVE  GInv'
<1> SUFFICES ASSUME (NamesOnly \/ NamesDiffer)' PROVE Progress'
  BY DEF GInv
<1>0. /\ phase = "files" /\ phase' = "exited"
      /\ job' = job /\ fnind' = fnind /\ good' = good /\ skipped' = skipped
      /\ levels' = levels /\ disk' = disk /\ printed' = printed /\ described' = described
  BY DEF Finish, Statuses, Exit, files, history
<1>1. InputsMade /\ job \in Jobs /\ described \in [DOMAIN job.inputs -> Seq(Words)]
  BY <1>0, Judged DEF Progress, IInv, Typed
<1>2. Caring /\ \A i : Kept(i)
  BY <1>0, NothingSpent, AllKept
<1>3. \A i \in DOMAIN job.inputs : Over(i)' /\ ~Bad(i)' =>
        Over(i) /\ ~Bad(i) /\ described'[i] = described[i] /\ Kept(i)
  BY <1>0, <1>2 DEF Over, Bad
<1>4. InputsMade'
  BY <1>0, <1>1, <1>2, <1>3, InputsKeep
<1> QED BY <1>0, <1>4 DEF Progress, Working

LEMMA StutterMakes == IInv /\ GInv /\ UNCHANGED vars => GInv'
<1> SUFFICES ASSUME IInv, GInv, UNCHANGED vars, phase # "crashed", (NamesOnly \/ NamesDiffer)' PROVE Progress'
  BY DEF GInv, vars
<1>0. /\ phase' = phase /\ job' = job /\ fnind' = fnind /\ good' = good /\ skipped' = skipped
      /\ levels' = levels /\ disk' = disk /\ printed' = printed /\ described' = described
  BY DEF vars, main, files, history
<1>1. Progress /\ job \in Jobs /\ described \in [DOMAIN job.inputs -> Seq(Words)]
  BY <1>0, Judged DEF IInv, Typed
<1>2. Caring /\ (\A b : Sparing(b)) /\ \A i : Kept(i)
  BY <1>0, NothingSpent, AllKept
<1>3. \A i \in DOMAIN job.inputs : Over(i)' /\ ~Bad(i)' =>
        Over(i) /\ ~Bad(i) /\ described'[i] = described[i] /\ Kept(i)
  BY <1>0, <1>2 DEF Over, Bad
<1>4. InputsMade'
  BY <1>0, <1>1, <1>2, <1>3, InputsKeep DEF Progress
<1>5. ASSUME Working
      PROVE  EarlierMade' /\ \A n \in 1 .. Len(levels) : Filled(n)'
  <2>1. Earlier' = Earlier
    BY <1>0 DEF Earlier
  <2>2. EarlierMade /\ \A n \in 1 .. Len(levels) : Filled(n)
    BY <1>1, <1>5 DEF Progress
  <2>3. EarlierMade'
    BY <1>0, <1>2, <1>5, <2>1, <2>2, EarlierKeeps, EarlierFacts
  <2>4. ASSUME NEW n \in 1 .. Len(levels) PROVE Filled(n)'
    <3>1. NamesOnly' = NamesOnly /\ Width' = Width /\ FilesAt(n)' = FilesAt(n)
          /\ (FullAt(n)' <=> FullAt(n)) /\ NamesAt(n)' = NamesAt(n)
      BY <1>0, SameKind
    <3>2. About(n)' = About(n) /\ (Ahead(n)' <=> Ahead(n))
      BY <1>0 DEF About, Ahead
    <3>3. Done(n)' = Done(n) /\ Titled(n)' = Titled(n)
      BY <1>0, <3>1, <3>2 DEF Done, Titled
    <3> QED BY <1>0, <2>2, <3>1, <3>2, <3>3 DEF Filled, Holds
  <2> QED BY <2>3, <2>4
<1>6. ASSUME phase = "write", NEW n \in 1 .. Len(levels) PROVE LevelMade(n)'
  <2>1. LevelMade(n) /\ Nests' = Nests /\ C' = C /\ NamesOnly' = NamesOnly
    BY <1>0, <1>1, <1>6, SameJob DEF Progress, Nests
  <2>2. \A s \in ToSet(SubMachines[levels[n].machine]) : TreeMade(s) => TreeMade(s)'
    <3>1. \A t : Cared(t) => Cared(t)'
      <4>1. \A t : SubMade(t) => SubMade(t)'
        <5> SUFFICES ASSUME NEW t, SubMade(t) PROVE SubMade(t)'
          OBVIOUS
        <5>1. \E b \in {"title", "body"} : t # b
          OBVIOUS
        <5> QED BY <1>0, <1>2, <5>1, SubMadeKeeps
      <4> QED BY <1>0, <4>1 DEF Cared, AtHand
    <3> QED BY <3>1 DEF TreeMade
  <2> QED BY <1>0, <2>1, <2>2 DEF LevelMade
<1> QED BY <1>0, <1>4, <1>5, <1>6 DEF Progress, Working

LEMMA InitMakes == Init => GInv
<1> SUFFICES ASSUME Init PROVE GInv
  OBVIOUS
<1>1. phase = "files" /\ fnind = 1 /\ job \in Jobs
  BY DEF Init
<1>2. \A i \in DOMAIN job.inputs : ~(i < fnind)
  BY <1>1, JobFacts
<1>3. InputsMade
  BY <1>2 DEF InputsMade, Over
<1> QED BY <1>1, <1>3 DEF GInv, Progress, Working

(* The parser goes on, without a machine or after one. *)
LEMMA ParsesFurther ==
  ASSUME IInv, KInv, GInv, phase = "parse", phase' \in {"parse", "close"},
         job' = job, fnind' = fnind, skipped' = skipped, levels' = levels,
         disk' = disk, printed' = printed, described' = described
  PROVE  GInv'
<1> SUFFICES ASSUME (NamesOnly \/ NamesDiffer)' PROVE Progress'
  BY DEF GInv
<1>1. Working /\ Working' /\ Progress /\ (NamesOnly \/ NamesDiffer) /\ Len(levels) = 1
  BY Judged DEF Working, IInv, Phases
<1>2. Caring /\ \A b : Sparing(b)
  BY NothingSpent
<1>3. InputsMade'
  BY <1>1, <1>2, InputsStay DEF Progress
<1>4. Earlier' = Earlier
  BY DEF Earlier
<1>5. EarlierMade'
  BY <1>1, <1>2, <1>4, EarlierKeeps, EarlierFacts DEF Progress
<1>6. Filled(1)'
  <2>1. Filled(1)
    BY <1>1 DEF Progress
  <2>2. NamesOnly' = NamesOnly /\ Width' = Width /\ FilesAt(1)' = FilesAt(1)
        /\ (FullAt(1)' <=> FullAt(1)) /\ NamesAt(1)' = NamesAt(1)
    BY SameKind
  <2>3. About(1)' = About(1) /\ ~Ahead(1) /\ ~Ahead(1)'
    BY DEF About, Ahead
  <2>4. Done(1)' = Done(1) /\ Titled(1)' = Titled(1)
    BY <2>3 DEF Done, Titled
  <2> QED BY <2>1, <2>2, <2>3, <2>4 DEF Filled, Holds
<1>7. \A n \in 1 .. Len(levels') : n = 1
  BY <1>1
<1> QED BY <1>1, <1>3, <1>5, <1>6, <1>7 DEF Progress

LEMMA MachineMakes ==
  ASSUME IInv, KInv, GInv, phase = "parse", NEW t, Machine(t), UNCHANGED <<main, files, from, skipped>>
  PROVE  GInv'
<1> PICK m : m = t.lexeme
  OBVIOUS
<1>0. /\ job' = job /\ fnind' = fnind /\ skipped' = skipped /\ phase' = "write"
      /\ disk' = disk /\ printed' = printed /\ m \in Words /\ m \in Machines
      /\ Len(levels) = 1 /\ Len(levels') = 1
      /\ levels'[1].machine = m /\ levels'[1].todo = Parts(m)
      /\ levels'[1].base = levels[1].base /\ levels'[1].subSeen = levels[1].subSeen
      /\ described[fnind] \in Seq(Words) /\ described'[fnind] = Append(described[fnind], m)
      /\ \A i : i # fnind => described'[i] = described[i]
  BY MachineBegins
<1> SUFFICES ASSUME (NamesOnly \/ NamesDiffer)' PROVE Progress'
  BY DEF GInv
<1>1. Working /\ Working' /\ Progress /\ (NamesOnly \/ NamesDiffer) /\ job \in Jobs
  BY <1>0, Judged DEF Working, IInv, Typed
<1>2. Caring /\ \A b : Sparing(b)
  BY <1>0, NothingSpent
<1>3. InputsMade'
  BY <1>0, <1>1, <1>2, InputsStay DEF Progress
<1> PICK q : q = described[fnind]
  OBVIOUS
<1> PICK r : r = described'[fnind]
  OBVIOUS
<1>4. /\ q \in Seq(Words) /\ Len(q) \in Nat /\ r = Append(q, m) /\ Len(r) = Len(q) + 1
      /\ \A k \in 1 .. Len(q) : r[k] = q[k]
  BY <1>0
<1>5. Earlier' = Earlier
  <2>1. Earlier = {q[k] : k \in 1 .. Len(q) - 0}
    BY DEF Earlier
  <2>2. Earlier' = {r[k] : k \in 1 .. Len(r) - 1}
    BY <1>0 DEF Earlier
  <2>3. Len(r) - 1 = Len(q) /\ Len(q) - 0 = Len(q)
    BY <1>4
  <2> QED BY <1>4, <2>1, <2>2, <2>3
<1>6. EarlierMade'
  BY <1>0, <1>1, <1>2, <1>5, EarlierKeeps, EarlierFacts DEF Progress
<1>7. "body" \in ToSet(Parts(m)) /\ ("title" \in ToSet(Parts(m)) <=> TitledParts)
      /\ (Nests => ToSet(SubMachines[m]) \subseteq ToSet(Parts(m)))
  BY <1>0, <1>1, PartsAll
<1>8. LevelMade(1)'
  <2>1. Nests' = Nests /\ C' = C /\ (C => Nests)
    BY <1>0, SameJob DEF Nests, C
  <2>2. levels'[1].todo = Parts(m) /\ SubMachines[levels'[1].machine] = SubMachines[m]
    BY <1>0
  <2> QED BY <1>7, <2>1, <2>2 DEF LevelMade
<1>9. Filled(1)'
  <2>1. Filled(1)
    BY <1>0, <1>1 DEF Progress
  <2>2. About(1) = q /\ About(1)' = r /\ ~Ahead(1) /\ Ahead(1)'
    BY <1>0, <1>7 DEF About, Ahead
  <2>3. Done(1) = Len(q) - 0 /\ Done(1)' = Len(r) - 1
    BY <2>2 DEF Done
  <2>4. Done(1)' = Done(1) /\ Done(1) = Len(q)
    BY <1>4, <2>3
  <2>5. NamesOnly' = NamesOnly /\ Width' = Width /\ FilesAt(1)' = FilesAt(1)
        /\ (FullAt(1)' <=> FullAt(1)) /\ NamesAt(1)' = NamesAt(1)
    BY <1>0, SameKind
  <2>6. Titled(1) = 0
    BY <2>2 DEF Titled
  <2>7. ~NamesOnly => Titled(1)' = 0
    <3>1. CASE TitledParts
      BY <1>0, <1>7, <3>1 DEF Titled
    <3>2. CASE ~TitledParts /\ ~NamesOnly
      <4>1. Width = 1 /\ Titled(1)' = Width - 1
        BY <1>0, <1>7, <2>2, <2>5, <3>2, Widths DEF Titled
      <4> QED BY <4>1
    <3> QED BY <3>1, <3>2
  <2>8. CASE NamesOnly
    BY <1>0, <2>1, <2>4, <2>5, <2>8 DEF Filled
  <2>9. CASE ~NamesOnly
    BY <1>0, <1>4, <2>1, <2>2, <2>4, <2>5, <2>6, <2>7, <2>9 DEF Filled, Holds
  <2> QED BY <2>8, <2>9
<1>10. \A n \in 1 .. Len(levels') : n = 1
  BY <1>0
<1> QED BY <1>0, <1>3, <1>6, <1>8, <1>9, <1>10 DEF Progress

LEMMA ReadMakes ==
  ASSUME IInv, KInv, GInv, NEW x \in job.lexemes, Read(x)
  PROVE  GInv'
<1>0. /\ phase = "parse" /\ UNCHANGED <<main, files, from, skipped>>
      /\ job' = job /\ fnind' = fnind /\ skipped' = skipped /\ disk' = disk /\ printed' = printed
  BY DEF Read, main, files
<1>2. ASSUME UNCHANGED <<good, phase, parser, described, levels>> PROVE GInv'
  BY <1>0, <1>2, ParsesFurther
<1>3. ASSUME NEW t, Machine(t) PROVE GInv'
  BY <1>0, <1>3, MachineMakes
<1>4. ASSUME NEW t, NativeBlock(t) PROVE GInv'
  BY <1>0, <1>4, ParsesFurther DEF NativeBlock
<1>5. ASSUME SyntaxError PROVE GInv'
  BY <1>0, <1>5, ParsesFurther DEF SyntaxError
<1> QED BY <1>2, <1>3, <1>4, <1>5 DEF Read

LEMMA EndOfFileMakes ==
  ASSUME IInv, KInv, GInv, EndOfFile
  PROVE  GInv'
<1>0. /\ phase = "parse" /\ phase' = "close" /\ described' = described /\ levels' = levels
      /\ job' = job /\ fnind' = fnind /\ skipped' = skipped /\ disk' = disk /\ printed' = printed
  BY DEF EndOfFile, SyntaxError, main, files
<1> QED BY <1>0, ParsesFurther

-----------------------------------------------------------------------------
LEMMA LevelMadeKeeps ==
  ASSUME job' = job, Caring, NEW n, levels[n].machine \in Machines, LevelMade(n),
         levels'[n].machine = levels[n].machine,
         C /\ ~NamesOnly /\ levels[n].subSeen => levels'[n].subSeen,
         \A s \in ToSet(SubMachines[levels[n].machine]) : s \in ToSet(levels[n].todo) =>
           \/ s \in ToSet(levels'[n].todo)
           \/ n < Len(levels') /\ levels'[n + 1].base = s /\ (C /\ ~NamesOnly => levels'[n].subSeen),
         \A s \in ToSet(SubMachines[levels[n].machine]) : Nests /\ n < Len(levels) /\ levels[n + 1].base = s =>
           (n < Len(levels') /\ levels'[n + 1].base = s) \/ TreeMade(s)'
  PROVE  LevelMade(n)'
<1>1. NamesOnly' = NamesOnly /\ C' = C /\ Nests' = Nests
  BY SameJob DEF Nests
<1>2. \A s \in ToSet(SubMachines[levels[n].machine]) : s \in Subs
  BY Trees
<1> SUFFICES ASSUME NEW s \in ToSet(SubMachines[levels[n].machine])
             PROVE  \/ s \in ToSet(levels'[n].todo)
                    \/ /\ Nests => (n < Len(levels') /\ levels'[n + 1].base = s) \/ TreeMade(s)'
                       /\ C /\ ~NamesOnly => levels'[n].subSeen
  BY <1>1 DEF LevelMade
<1>3. CASE s \in ToSet(levels[n].todo)
  BY <1>3
<1>4. CASE s \notin ToSet(levels[n].todo)
  <2>1. /\ Nests => (n < Len(levels) /\ levels[n + 1].base = s) \/ TreeMade(s)
        /\ C /\ ~NamesOnly => levels[n].subSeen
    BY <1>4 DEF LevelMade
  <2>2. TreeMade(s) => TreeMade(s)'
    BY <1>2, TreesKeep
  <2> QED BY <2>1, <2>2
<1> QED BY <1>3, <1>4

(* What the levels at work are about. *)
LEMMA AboutFacts ==
  ASSUME IInv, KInv, phase = "write", NEW n \in 1 .. Len(levels)
  PROVE  /\ levels[n].machine \in Machines /\ levels[n].todo \in Seq(Part)
         /\ Remains(levels[n].todo, Parts(levels[n].machine))
         /\ About(n) \in Seq(Machines) /\ Len(About(n)) \in Nat \ {0}
         /\ About(n)[Len(About(n))] = levels[n].machine
<1>1. Descends(n) /\ Descent /\ levels[n] \in LevelType /\ described[fnind] \in Seq(Words)
  BY AtWork DEF KInv, Descent, IInv, Typed, Phases
<1>2. levels[n].machine \in Machines /\ levels[n].todo \in Seq(Part)
      /\ Remains(levels[n].todo, Parts(levels[n].machine))
  BY <1>1 DEF Descends, Tree, LevelType
<1>3. CASE n = 1
  <2>1. About(n) = described[fnind] /\ levels[n].machine = Now /\ described[fnind] # << >>
    BY <1>1, <1>3 DEF About, Descent
  <2>2. described[fnind] \in Seq(Machines) /\ Len(described[fnind]) \in Nat \ {0}
    <3>1. Words \subseteq Machines
      BY Ranks
    <3> QED BY <1>1, <2>1, <3>1
  <2> QED BY <1>2, <2>1, <2>2 DEF Now
<1>4. CASE n # 1
  <2>1. About(n) = <<levels[n].machine>>
    BY <1>4 DEF About
  <2> QED BY <1>2, <2>1
<1> QED BY <1>3, <1>4

LEMMA PartFilled ==
  ASSUME IInv, KInv, WritePart, phase' # "crashed", NEW N, N = Len(levels), Filled(N)
  PROVE  Filled(N)'
<1> PICK q : q = levels[N].todo
  OBVIOUS
<1> PICK ms : ms = About(N)
  OBVIOUS
<1>1. /\ Undisturbed /\ phase = "write" /\ phase' = "write" /\ N \in 1 .. N /\ N \in Nat
      /\ SameLevel(N) /\ q # << >> /\ Head(q) \notin Machines /\ levels'[N].todo = Tail(q)
      /\ job' = job
  <2>1. LET M == Len(levels) IN
        /\ Undisturbed /\ phase = "write" /\ phase' = "write" /\ M \in Nat /\ M >= 1
        /\ \A n \in 1 .. M : SameLevel(n)
        /\ levels[M].todo # << >>
        /\ Head(levels[M].todo) \notin Machines /\ levels'[M].todo = Tail(levels[M].todo)
    BY PartWritten
  <2> QED BY <2>1 DEF Undisturbed
<1>2. /\ Level = levels[N] /\ LevelOK(Level, N = 1) /\ job \in Jobs
      /\ levels[N].machine \in Machines /\ q \in Seq(Part)
      /\ Remains(q, Parts(levels[N].machine))
      /\ ms \in Seq(Machines) /\ Len(ms) \in Nat \ {0} /\ ms[Len(ms)] = levels[N].machine
  BY <1>1, AtWork, AboutFacts DEF IInv, Typed
<1>3. ms = About(N)'
  BY <1>1 DEF About, Undisturbed, SameLevel
<1>4. /\ FilesAt(N)' = FilesAt(N) /\ (FullAt(N)' <=> FullAt(N)) /\ NamesAt(N)' = NamesAt(N)
      /\ NamesOnly' = NamesOnly /\ Width' = Width
  BY <1>1, SameKind DEF SameLevel
<1>5. CASE NamesOnly
  <2>1. printed' = printed \union NamesOf(Level, IsTop)
    BY <1>5, PartWritten, <1>1
  <2>2. NamesOf(Level, IsTop) = NamesAt(N)
    <3>1. CASE N = 1
      <4>1. IsTop = TRUE
        BY <3>1 DEF IsTop
      <4> QED BY <1>2, <3>1, <4>1 DEF NamesAt
    <3>2. CASE N # 1
      <4>1. IsTop = FALSE
        BY <1>1, <3>2 DEF IsTop
      <4> QED BY <1>2, <3>2, <4>1 DEF NamesAt
    <3> QED BY <3>1, <3>2
  <2> QED BY <1>4, <1>5, <2>1, <2>2 DEF Filled
<1>6. CASE ~NamesOnly
  <2> SUFFICES ASSUME FullAt(N), NEW f \in FilesAt(N)
               PROVE  f \in DOMAIN disk' /\ Holds(disk[f], About(N), Done(N), Titled(N))'
    BY <1>4, <1>6 DEF Filled
  <2> PICK part : part = IF Head(q) = "body" THEN levels[N].machine ELSE "title"
    OBVIOUS
  <2>1. disk' = Put(Held(Level), part)
    <3>1. disk' = Put(Held(Level), IF Head(Level.todo) = "body" THEN Level.machine ELSE "title")
      BY <1>6, PartWritten
    <3> QED BY <1>2, <3>1
  <2>2. f \in Held(Level)
    <3>1. CASE N = 1
      <4>1. LevelOK(Level, TRUE)
        <5>1. (N = 1) = TRUE
          BY <3>1
        <5> QED BY <1>2, <5>1
      <4> QED BY <1>2, <1>6, <3>1, <4>1, HeldOwn DEF FilesAt
    <3>2. CASE N # 1
      <4>1. LevelOK(Level, FALSE)
        <5>1. (N = 1) = FALSE
          BY <3>2
        <5> QED BY <1>2, <5>1
      <4> QED BY <1>2, <1>6, <3>2, <4>1, HeldOwn DEF FilesAt
    <3> QED BY <3>1, <3>2
  <2>3. f \in DOMAIN disk /\ Holds(disk[f], ms, Done(N), Titled(N))
    BY <1>6 DEF Filled
  <2>4. f \in DOMAIN disk' /\ disk'[f] = Append(disk[f], part)
    BY <2>1, <2>2, <2>3 DEF Put
  <2>5. /\ Head(q) \in {"title", "body"}
        /\ \A x : x # Head(q) => (x \in ToSet(q) <=> x \in ToSet(Tail(q)))
        /\ Head(q) \in ToSet(q)
        /\ Head(q) = "title" => /\ TitledParts /\ "body" \in ToSet(Tail(q))
                                /\ "title" \notin ToSet(Tail(q))
        /\ Head(q) = "body" => "body" \notin ToSet(Tail(q)) /\ "title" \notin ToSet(q)
    BY <1>1, <1>2, PartNext
  <2>6. part \in Bits
    BY <1>2 DEF Bits, Part
  <2>7. CASE Head(q) = "title"
    <3>1. Ahead(N) /\ Ahead(N)'
      BY <1>1, <2>5, <2>7 DEF Ahead
    <3>2. Done(N) = Len(ms) - 1 /\ Done(N)' = Done(N)
      BY <1>3, <3>1 DEF Done
    <3>3. Titled(N) = 0 /\ Titled(N)' = Width' - 1
      BY <1>1, <2>5, <2>7, <3>1 DEF Titled
    <3>4. Width = 2
      BY <1>6, <2>5, <2>7, Widths
    <3>5. Titled(N)' = 0 + 1
      BY <1>4, <3>3, <3>4
    <3>6. Done(N) \in Nat
      BY <1>2, <3>2
    <3> PICK k : k = Done(N)
      OBVIOUS
    <3> PICK t : t = 0
      OBVIOUS
    <3>8. Holds(disk[f], ms, k, t) /\ t \in Nat
      BY <2>3, <3>3
    <3>7. Holds(Append(disk[f], part), ms, k, t + 1)
      BY <2>6, <3>6, <3>8, HoldsAhead
    <3> QED BY <1>3, <1>4, <2>4, <3>2, <3>5, <3>7 DEF Holds
  <2>8. CASE Head(q) = "body"
    <3>1. Ahead(N) /\ ~Ahead(N)'
      BY <1>1, <2>5, <2>8 DEF Ahead
    <3>2. Done(N) = Len(ms) - 1 /\ Done(N)' = Len(ms) - 0
      BY <1>3, <3>1 DEF Done
    <3>3. Titled(N) = Width - 1 /\ Titled(N)' = 0
      BY <1>1, <2>5, <2>8, <3>1 DEF Titled
    <3> PICK k : k = Done(N)
      OBVIOUS
    <3>4. k \in Nat /\ k + 1 = Len(ms) /\ Done(N)' = k + 1
      BY <1>2, <3>2
    <3>5. part = ms[k + 1]
      BY <1>2, <2>8, <3>4
    <3>6. Holds(Append(disk[f], part), ms, k + 1, 0)
      BY <2>3, <2>6, <3>3, <3>4, <3>5, HoldsMore
    <3> QED BY <1>3, <1>4, <2>4, <3>3, <3>4, <3>6 DEF Holds
  <2> QED BY <2>5, <2>7, <2>8
<1> QED BY <1>5, <1>6

LEMMA WritePartMakes ==
  ASSUME IInv, KInv, GInv, WritePart
  PROVE  GInv'
<1> SUFFICES ASSUME phase' # "crashed", (NamesOnly \/ NamesDiffer)' PROVE Progress'
  BY DEF GInv
<1> PICK N : N = Len(levels)
  OBVIOUS
<1>1. /\ Undisturbed /\ phase = "write" /\ phase' = "write"
      /\ N \in Nat /\ N >= 1 /\ Len(levels') = N
      /\ \A n \in 1 .. N : SameLevel(n) /\ levels'[n].subSeen = levels[n].subSeen
      /\ \A n \in 1 .. N : n # N => levels'[n].todo = levels[n].todo
      /\ levels[N].todo # << >> /\ Head(levels[N].todo) \notin Machines
      /\ levels'[N].todo = Tail(levels[N].todo)
  BY PartWritten
<1>2. IF NamesOnly THEN disk' = disk /\ printed' = printed \union NamesOf(Level, IsTop)
      ELSE /\ printed' = printed
           /\ disk' = Put(Held(Level), IF Head(Level.todo) = "body" THEN Level.machine ELSE "title")
  BY PartWritten
<1>3. /\ Working /\ Working' /\ Progress /\ (NamesOnly \/ NamesDiffer) /\ job \in Jobs
      /\ job' = job /\ fnind' = fnind /\ skipped' = skipped /\ described' = described
  BY <1>1, Judged DEF Working, IInv, Typed, Undisturbed
<1>4. Level = levels[N] /\ LevelOK(Level, N = 1) /\ N \in 1 .. N /\ 1 \in 1 .. N /\ LevelsIn(levels)
  BY <1>1, AtWork DEF IInv
<1> PICK b : b = Level.base
  OBVIOUS
<1>5. Sparing(b)
  <2>1. CASE NamesOnly
    BY <1>2, <2>1 DEF Sparing
  <2>2. CASE ~NamesOnly
    <3>1. \A f \in Held(Level) : f.base = b
      <4>1. CASE N = 1
        <5>1. (N = 1) = TRUE
          BY <4>1
        <5>2. LevelOK(Level, TRUE)
          BY <1>4, <5>1
        <5> QED BY <1>3, <2>2, <5>2, HeldOwn
      <4>2. CASE N # 1
        <5>1. (N = 1) = FALSE
          BY <4>2
        <5>2. LevelOK(Level, FALSE)
          BY <1>4, <5>1
        <5> QED BY <1>3, <2>2, <5>2, HeldOwn
      <4> QED BY <4>1, <4>2
    <3> QED BY <1>2, <2>2, <3>1 DEF Sparing, Put
  <2> QED BY <2>1, <2>2
<1>6. \A n \in 1 .. N : levels'[n].base = levels[n].base
  BY <1>1 DEF SameLevel
<1>7. \A i, j \in 1 .. N : i # j => levels[i].base # levels[j].base
  BY <1>3, <1>4, BasesApart
<1>8. \A t : AtHand(t) => AtHand(t)'
  BY <1>1, <1>6 DEF AtHand
<1>9. N # 1 => b \in Subs /\ AtHand(b)
  <2>1. N # 1 => N \in 2 .. Len(levels)
    BY <1>1
  <2> QED BY <1>3, <1>4, <2>1, BasesApart DEF AtHand
<1>10. N = 1 => b = levels[1].base /\ b \notin Subs
  <2> SUFFICES ASSUME N = 1 PROVE b = levels[1].base /\ b \notin Subs
    OBVIOUS
  <2>1. (N = 1) = TRUE
    OBVIOUS
  <2>2. LevelOK(Level, TRUE)
    BY <1>4, <2>1
  <2> QED BY <1>3, <1>4, <2>2, JobFacts DEF LevelOK
<1>11. Caring
  BY <1>3, <1>5, <1>8, <1>9, <1>10, CaredKeeps
<1>12. InputsMade'
  BY <1>3, <1>5, <1>9, <1>10, <1>11, InputsStay DEF Progress
<1>13. EarlierMade'
  <2>1. Earlier' = Earlier
    BY <1>1, <1>3 DEF Earlier
  <2> QED BY <1>1, <1>3, <1>4, <1>11, <2>1, EarlierKeeps, EarlierFacts DEF Progress
<1>14. ASSUME NEW n \in 1 .. N PROVE Filled(n)'
  <2>1. Filled(n)
    BY <1>3, <1>14 DEF Progress
  <2>2. CASE n = N
    BY <2>1, <2>2, PartFilled
  <2>3. CASE n # N
    <3>1. levels[n].base # b /\ levels'[n].todo = levels[n].todo /\ SameLevel(n)
      BY <1>1, <1>4, <1>7, <2>3
    <3>2. About(n)' = About(n) /\ Done(n)' = Done(n) /\ Titled(n)' = Titled(n)
      BY <1>1, <3>1, AsFar
    <3> QED BY <1>3, <1>5, <1>6, <2>1, <3>1, <3>2, FilledKeeps
  <2> QED BY <2>2, <2>3
<1>15. ASSUME NEW n \in 1 .. N PROVE LevelMade(n)'
  <2>1. LevelMade(n) /\ levels[n].machine \in Machines /\ SameLevel(n)
    BY <1>1, <1>3, AboutFacts DEF Progress
  <2>2. \A s \in ToSet(SubMachines[levels[n].machine]) :
          s \in ToSet(levels[n].todo) => s \in ToSet(levels'[n].todo)
    <3>1. CASE n = N
      <4>1. levels[N].todo \in Seq(Part) /\ Remains(levels[N].todo, Parts(levels[N].machine))
        BY <1>1, <3>1, AboutFacts
      <4>2. \A x : x # Head(levels[N].todo) =>
              (x \in ToSet(levels[N].todo) <=> x \in ToSet(Tail(levels[N].todo)))
        BY <1>1, <1>3, <2>1, <3>1, <4>1, PartNext
      <4>3. ToSet(SubMachines[levels[n].machine]) \subseteq Machines
        BY <2>1, Trees DEF Subs
      <4> QED BY <1>1, <3>1, <4>2, <4>3
    <3>2. CASE n # N
      BY <1>1, <3>2
    <3> QED BY <3>1, <3>2
  <2>3. n < Len(levels) => n < Len(levels') /\ levels'[n + 1].base = levels[n + 1].base
    <3>1. n < N => n + 1 \in 1 .. N
      BY <1>1
    <3> QED BY <1>1, <1>6, <3>1
  <2> QED BY <1>1, <1>3, <1>11, <2>1, <2>2, <2>3, LevelMadeKeeps DEF SameLevel
<1> QED BY <1>1, <1>12, <1>13, <1>14, <1>15 DEF Progress

-----------------------------------------------------------------------------
(* A sub-machine that is next is none of those at work. *)
LEMMA NextApart ==
  ASSUME IInv, phase = "write", NEW N, N = Len(levels), NEW m, m = Head(levels[N].todo),
         levels[N].todo # << >>, m \in Machines
  PROVE  m \in Subs /\ \A n \in 1 .. N : levels[n].base # m
<1>1. /\ N \in Nat /\ N >= 1 /\ LevelsIn(levels) /\ job \in Jobs
      /\ Level = levels[N] /\ levels[N] \in LevelType
      /\ \A n \in 1 .. N : LevelOK(levels[n], n = 1)
  BY AtWork DEF IInv, Typed
<1>2. levels[N].todo \in Seq(Part) /\ 1 \in DOMAIN levels[N].todo /\ m = levels[N].todo[1]
  <2>1. levels[N].todo \in Seq(Part)
    BY <1>1 DEF LevelType
  <2> QED BY <2>1
<1>3. /\ levels[N].machine \in Machines /\ m \in Subs /\ Rank[m] < Rank[levels[N].machine]
      /\ N # 1 => levels[N].machine = levels[N].base
  <2>1. N \in 1 .. N
    BY <1>1
  <2>2. LevelOK(levels[N], N = 1)
    BY <1>1, <2>1
  <2>3. CASE N = 1
    <3>1. (N = 1) = TRUE
      BY <2>3
    <3>2. LevelOK(levels[N], TRUE)
      BY <2>2, <3>1
    <3> QED BY <1>2, <2>3, <3>2 DEF LevelOK
  <2>4. CASE N # 1
    <3>1. (N = 1) = FALSE
      BY <2>4
    <3>2. LevelOK(levels[N], FALSE)
      BY <2>2, <3>1
    <3> QED BY <1>2, <2>4, <3>2 DEF LevelOK
  <2> QED BY <2>3, <2>4
<1>4. \A x \in Machines : Rank[x] \in Nat
  BY Ranks
<1>5. ASSUME NEW n \in 1 .. N PROVE levels[n].base # m
  <2>1. CASE n = 1
    <3>1. (n = 1) = TRUE
      BY <2>1
    <3>2. LevelOK(levels[n], TRUE)
      BY <1>1, <3>1
    <3> QED BY <1>1, <1>3, <3>2, JobFacts DEF LevelOK
  <2>2. CASE n # 1
    <3>1. n \in 2 .. N /\ N \in 2 .. N /\ n \in 2 .. Len(levels) /\ N \in 2 .. Len(levels)
      BY <1>1, <2>2
    <3>2. levels[n].base \in Machines /\ levels[N].base \in Machines
      BY <1>1, <3>1, BasesApart DEF Subs
    <3>3. n < N => Rank[levels[N].base] < Rank[levels[n].base]
      BY <1>1, <3>1 DEF LevelsIn
    <3>4. levels[N].machine = levels[N].base
      <4>1. N # 1
        BY <3>1
      <4> QED BY <1>3, <4>1
    <3>5. n < N \/ n = N
      BY <1>1
    <3> QED BY <1>3, <1>4, <3>2, <3>3, <3>4, <3>5
  <2> QED BY <2>1, <2>2
<1> QED BY <1>3, <1>5

LEMMA BeginSubMachineMakes ==
  ASSUME IInv, KInv, GInv, BeginSubMachine
  PROVE  GInv'
<1> SUFFICES ASSUME phase' # "crashed", (NamesOnly \/ NamesDiffer)' PROVE Progress'
  BY DEF GInv
<1> PICK N : N = Len(levels)
  OBVIOUS
<1> PICK m : m = Head(levels[N].todo)
  OBVIOUS
<1>1. /\ Undisturbed /\ phase = "write" /\ phase' = "write" /\ printed' = printed
      /\ N \in Nat /\ N >= 1 /\ Len(levels') = N + 1
      /\ \A n \in 1 .. N : SameLevel(n)
      /\ \A n \in 1 .. N : n # N => /\ levels'[n].todo = levels[n].todo
                                    /\ levels'[n].subSeen = levels[n].subSeen
      /\ levels[N].todo \in Seq(Part) /\ levels[N].todo # << >> /\ m \in Machines
      /\ levels'[N].todo = Tail(levels[N].todo)
      /\ levels'[N + 1].machine = m /\ levels'[N + 1].base = m /\ levels'[N + 1].todo = Parts(m)
      /\ Opening(m, FALSE)
  BY SubMachineBegins
<1>2. levels'[N].subSeen = (C /\ ~NamesOnly)
  BY SubMachineBegins
<1>3. /\ Working /\ Working' /\ Progress /\ (NamesOnly \/ NamesDiffer) /\ job \in Jobs
      /\ job' = job /\ fnind' = fnind /\ skipped' = skipped /\ described' = described
      /\ N \in 1 .. N /\ 1 \in 1 .. N
  BY <1>1, Judged DEF Working, IInv, Typed, Undisturbed
<1>4. m \in Subs /\ \A n \in 1 .. N : levels[n].base # m
  BY <1>1, NextApart
<1>5. Sparing(m)
  BY <1>1, OpeningSpares
<1>6. \A n \in 1 .. N : levels'[n].base = levels[n].base
  BY <1>1 DEF SameLevel
<1>7. Caring
  <2>1. \A t : AtHand(t) => AtHand(t)'
    <3> SUFFICES ASSUME NEW t, AtHand(t) PROVE AtHand(t)'
      OBVIOUS
    <3>1. PICK n \in 2 .. N : levels[n].base = t
      BY DEF AtHand
    <3>2. n \in 1 .. N /\ n \in 2 .. N + 1
      BY <1>1
    <3> QED BY <1>1, <1>6, <3>1, <3>2 DEF AtHand
  <2>2. AtHand(m)'
    <3>1. N + 1 \in 2 .. N + 1
      BY <1>1
    <3> QED BY <1>1, <3>1 DEF AtHand
  <2> QED BY <1>3, <1>5, <2>1, <2>2, CaredKeeps
<1>8. InputsMade'
  BY <1>3, <1>4, <1>5, <1>7, InputsStay DEF Progress
<1>9. \A n \in 1 .. N : C /\ ~NamesOnly /\ levels[n].subSeen => levels'[n].subSeen
  <2> SUFFICES ASSUME NEW n \in 1 .. N, C, ~NamesOnly, levels[n].subSeen PROVE levels'[n].subSeen
    OBVIOUS
  <2>1. CASE n = N
    BY <1>2, <2>1
  <2>2. CASE n # N
    BY <1>1, <2>2
  <2> QED BY <2>1, <2>2
<1>10. EarlierMade'
  <2>1. Earlier' = Earlier
    BY <1>1, <1>3 DEF Earlier
  <2>2. EarlierMade
    BY <1>3 DEF Progress
  <2> QED BY <1>3, <1>7, <1>9, <2>1, <2>2, EarlierKeeps, EarlierFacts
<1>11. \A x : x # m => (x \in ToSet(levels[N].todo) <=> x \in ToSet(Tail(levels[N].todo)))
  <2>1. levels[N].machine \in Machines /\ Remains(levels[N].todo, Parts(levels[N].machine))
    BY <1>1, <1>3, AboutFacts
  <2> QED BY <1>1, <1>3, <2>1, PartNext
<1>12. m # "title" /\ m # "body"
  BY <1>1, Ranks
<1>13. ASSUME NEW n \in 1 .. N PROVE Filled(n)'
  <2>1. Filled(n) /\ levels[n].base # m /\ SameLevel(n)
    BY <1>1, <1>3, <1>4 DEF Progress
  <2>2. /\ "body" \in ToSet(levels'[n].todo) <=> "body" \in ToSet(levels[n].todo)
        /\ "title" \in ToSet(levels'[n].todo) <=> "title" \in ToSet(levels[n].todo)
    <3>1. CASE n = N
      BY <1>1, <1>11, <1>12, <3>1
    <3>2. CASE n # N
      BY <1>1, <3>2
    <3> QED BY <3>1, <3>2
  <2>3. About(n)' = About(n) /\ Done(n)' = Done(n) /\ Titled(n)' = Titled(n)
    BY <1>1, <2>1, <2>2, AsFar
  <2> QED BY <1>3, <1>5, <1>6, <2>1, <2>3, FilledKeeps
<1>14. "body" \in ToSet(Parts(m)) /\ ("title" \in ToSet(Parts(m)) <=> TitledParts)
       /\ (Nests => ToSet(SubMachines[m]) \subseteq ToSet(Parts(m)))
  BY <1>1, <1>3, PartsAll
<1> PICK M : M = N + 1
  OBVIOUS
<1>15. M \in Nat /\ M # 1 /\ levels'[M].machine = m /\ levels'[M].base = m /\ levels'[M].todo = Parts(m)
       /\ Len(levels') = M
  BY <1>1
<1>16. Filled(M)'
  <2>1. About(M)' = <<m>>
    BY <1>15 DEF About
  <2>2. Ahead(M)'
    BY <1>1, <1>14, <1>15 DEF Ahead
  <2>3. Done(M)' = Len(<<m>>) - 1
    BY <2>1, <2>2 DEF Done
  <2>4. Done(M)' = 0
    BY <2>3
  <2>5. NamesOnly' = NamesOnly /\ Width' = Width
    BY <1>3, SameJob DEF Width
  <2>6. CASE NamesOnly
    BY <2>4, <2>5, <2>6 DEF Filled
  <2>7. CASE ~NamesOnly
    <3>1. Titled(M)' = 0
      <4>1. CASE TitledParts
        BY <1>14, <1>15, <4>1 DEF Titled
      <4>2. CASE ~TitledParts
        <5>1. Width = 1 /\ Titled(M)' = Width - 1
          BY <1>14, <1>15, <2>2, <2>5, <2>7, <4>2, Widths DEF Titled
        <5> QED BY <5>1
      <4> QED BY <4>1, <4>2
    <3>2. FilesAt(M)' = Own(m, FALSE) /\ (FullAt(M)' <=> AllOpened(m, FALSE))
      <4>1. FilesAt(M)' = Own(m, FALSE)'
        BY <1>15 DEF FilesAt
      <4>2. FullAt(M)' <=> AllOpened(m, FALSE)'
        BY <1>15 DEF FullAt
      <4>3. AllOpened(m, FALSE)' <=> AllOpened(m, FALSE)
        BY <1>3 DEF AllOpened, Opened
      <4> QED BY <1>3, <4>1, <4>2, <4>3, FilesKeep
    <3> SUFFICES ASSUME AllOpened(m, FALSE), NEW f \in Own(m, FALSE)
                 PROVE  f \in DOMAIN disk' /\ Holds(disk[f], About(M), Done(M), Titled(M))'
      BY <2>5, <2>7, <3>2 DEF Filled
    <3>3. f \in DOMAIN disk' /\ disk'[f] = <<"start">>
      BY <1>1, <2>7 DEF Opening
    <3>4. <<"start">> \in Seq(Bits') /\ Len(<<"start">>) = 1 /\ <<"start">>[1] = "start"
      <4>1. "start" \in Bits'
        BY DEF Bits
      <4> QED BY <4>1
    <3>5. 1 + Width * 0 + 0 = 1
      BY Widths
    <3>6. \A i \in 1 .. 0 : FALSE
      OBVIOUS
    <3> QED BY <2>4, <2>5, <3>1, <3>3, <3>4, <3>5, <3>6 DEF Holds
  <2> QED BY <2>6, <2>7
<1>17. ASSUME NEW n \in 1 .. N PROVE LevelMade(n)'
  <2>1. LevelMade(n) /\ levels[n].machine \in Machines /\ SameLevel(n)
    BY <1>1, <1>3, AboutFacts DEF Progress
  <2>2. levels'[n].machine = levels[n].machine /\ n < M
    BY <1>1, <2>1 DEF SameLevel
  <2>3. \A s \in ToSet(SubMachines[levels[n].machine]) : s \in ToSet(levels[n].todo) =>
          \/ s \in ToSet(levels'[n].todo)
          \/ n < Len(levels') /\ levels'[n + 1].base = s /\ (C /\ ~NamesOnly => levels'[n].subSeen)
    <3> SUFFICES ASSUME NEW s \in ToSet(SubMachines[levels[n].machine]), s \in ToSet(levels[n].todo),
                        s \notin ToSet(levels'[n].todo)
                 PROVE  n < Len(levels') /\ levels'[n + 1].base = s /\ (C /\ ~NamesOnly => levels'[n].subSeen)
      OBVIOUS
    <3>1. n = N
      BY <1>1
    <3>2. s = m
      BY <1>1, <1>11, <3>1
    <3>3. n < Len(levels')
      BY <1>15, <2>2
    <3>4. levels'[n + 1].base = s
      BY <1>1, <3>1, <3>2
    <3>5. C /\ ~NamesOnly => levels'[n].subSeen
      BY <1>2, <3>1
    <3> QED BY <3>3, <3>4, <3>5
  <2>4. n < Len(levels) => n < Len(levels') /\ levels'[n + 1].base = levels[n + 1].base
    <3>1. n < N => n + 1 \in 1 .. N
      BY <1>1
    <3> QED BY <1>1, <1>6, <3>1
  <2> QED BY <1>3, <1>7, <1>9, <2>1, <2>2, <2>3, <2>4, LevelMadeKeeps
<1>18. LevelMade(M)'
  <2>1. Nests' = Nests /\ C' = C /\ (C => Nests)
    BY <1>3, SameJob DEF Nests, C
  <2>2. levels'[M].todo = Parts(m) /\ SubMachines[levels'[M].machine] = SubMachines[m]
    BY <1>15
  <2> QED BY <1>14, <2>1, <2>2 DEF LevelMade
<1>19. \A n \in 1 .. Len(levels') : n \in 1 .. N \/ n = M
  BY <1>1
<1> QED BY <1>1, <1>8, <1>10, <1>13, <1>16, <1>17, <1>18, <1>19 DEF Progress

-----------------------------------------------------------------------------
(* A level without parts to write has them all; once it is closed as good, *)
(* its files are made.                                                     *)
LEMMA AllDone ==
  ASSUME NEW n, phase # "write" \/ levels[n].todo = << >>, Len(About(n)) \in Nat
  PROVE  ~Ahead(n) /\ Done(n) = Len(About(n)) /\ Titled(n) = 0
<1>1. ~Ahead(n)
  <2>1. ASSUME levels[n].todo = << >> PROVE "body" \notin ToSet(levels[n].todo)
    BY <2>1 DEF ToSet
  <2> QED BY <2>1 DEF Ahead
<1> QED BY <1>1 DEF Done, Titled

LEMMA ClosedMade ==
  ASSUME job \in Jobs, job' = job, NEW top \in BOOLEAN, LevelOK(Level, top), Complete(Level),
         Closing(TRUE), printed' = printed, NEW ms \in Seq(Machines),
         NEW S, C /\ ~NamesOnly /\ HasSubs(S) => Level.subSeen,
         NamesOnly => NamesOf(Level, top) \subseteq printed,
         ~NamesOnly /\ AllOpened(Level.base, top) =>
           \A f \in Own(Level.base, top) : f \in DOMAIN disk /\ Holds(disk[f], ms, Len(ms), 0)
  PROVE  \A f \in FilesOf(Level.base, top, HasSubs(S)) : Made(f, ms)'
<1> SUFFICES ASSUME NEW f \in FilesOf(Level.base, top, HasSubs(S)) PROVE Made(f, ms)'
  OBVIOUS
<1> PICK base : base = Level.base
  OBVIOUS
<1>1. NamesOnly' = NamesOnly /\ C' = C
  BY SameJob
<1>2. CASE NamesOnly
  <2>1. Named(f)
    BY <1>2, NamesCover
  <2>2. Named(f)'
    BY <1>1, <2>1 DEF Named
  <2> QED BY <1>1, <1>2, <2>2 DEF Made
<1>3. CASE ~NamesOnly
  <2>1. /\ f = [base |-> base, slot |-> f.slot] /\ f.slot \in ToSet(SlotsOf(job.writer, top))
        /\ f.slot = "subMachineH" => HasSubs(S)
    BY FilesNamed
  <2>2. Level.streams = Streams(base, top)
    BY <1>3, HeldOwn
  <2>3. Opened(base, top) = ToSet(SlotsOf(job.writer, top))
    BY <2>2, CompleteOpens DEF Complete
  <2>4. AllOpened(base, top) /\ f \in Own(base, top)
    BY <2>1, <2>3 DEF AllOpened, Own
  <2>5. f \in DOMAIN disk /\ Holds(disk[f], ms, Len(ms), 0)
    BY <1>3, <2>4
  <2>6. C /\ f.slot = "subMachineH" => Level.subSeen
    BY <1>3, <2>1
  <2>7. Whole(f, ms)'
    BY <1>3, <2>1, <2>2, <2>5, <2>6, LevelWhole
  <2> QED BY <1>1, <1>3, <2>7 DEF Made
<1> QED BY <1>2, <1>3

(* The end of a top-level machine. *)
LEMMA TopMakes ==
  ASSUME IInv, KInv, GInv, EndMachine, phase' # "crashed", IsTop
  PROVE  GInv'
<1> SUFFICES ASSUME (NamesOnly \/ NamesDiffer)' PROVE Progress'
  BY DEF GInv
<1>1. /\ Undisturbed /\ phase = "write" /\ phase' = "parse" /\ Len(levels) = 1
      /\ levels' = levels /\ disk' = disk /\ printed' = printed /\ levels[1].todo = << >>
  BY TopEnds
<1>2. /\ Working /\ Working' /\ Progress /\ (NamesOnly \/ NamesDiffer) /\ job \in Jobs
      /\ job' = job /\ fnind' = fnind /\ skipped' = skipped /\ described' = described
      /\ 1 \in 1 .. Len(levels)
  BY <1>1, Judged DEF Working, IInv, Typed, Undisturbed
<1>3. Caring /\ \A b : Sparing(b)
  BY <1>1, <1>2, NothingSpent
<1>4. InputsMade'
  BY <1>1, <1>2, <1>3, InputsStay DEF Progress
<1> PICK q : q = described[fnind]
  OBVIOUS
<1>5. q \in Seq(Words) /\ Len(q) \in Nat /\ Earlier \subseteq Machines
  BY <1>2, EarlierFacts
<1>6. levels[1].machine = Now /\ Now = q[Len(q)] /\ levels[1].machine \in Machines
  BY <1>1, <1>2, AboutFacts DEF KInv, Descent, Now
<1>7. Earlier' \subseteq Earlier \union {Now}
  <2>1. Earlier = {q[k] : k \in 1 .. Len(q) - 1}
    BY <1>1 DEF Earlier
  <2>2. Earlier' = {q[k] : k \in 1 .. Len(q) - 0}
    BY <1>1, <1>2 DEF Earlier
  <2>3. \A k \in 1 .. Len(q) - 0 : k \in 1 .. Len(q) - 1 \/ k = Len(q)
    BY <1>5
  <2> QED BY <1>6, <2>1, <2>2, <2>3
<1>8. \A s \in ToSet(SubMachines[Now]) : (Nests => TreeMade(s)) /\ (C /\ ~NamesOnly => levels[1].subSeen)
  <2> SUFFICES ASSUME NEW s \in ToSet(SubMachines[Now])
               PROVE  (Nests => TreeMade(s)) /\ (C /\ ~NamesOnly => levels[1].subSeen)
    OBVIOUS
  <2>1. LevelMade(1) /\ ~(1 < Len(levels))
    BY <1>1, <1>2 DEF Progress
  <2>2. s \notin ToSet(levels[1].todo)
    BY <1>1 DEF ToSet
  <2> QED BY <1>6, <2>1, <2>2 DEF LevelMade
<1>9. EarlierMade'
  <2>1. NamesOnly' = NamesOnly /\ C' = C /\ Nests' = Nests /\ EarlierMade
    BY <1>2, SameJob DEF Nests, Progress
  <2>2. ASSUME Nests, NEW m \in Earlier' PROVE BelowMade(m)'
    <3>1. BelowMade(m) /\ m \in Machines
      BY <1>5, <1>6, <1>7, <1>8, <2>1, <2>2 DEF EarlierMade, BelowMade
    <3> QED BY <1>3, <3>1, TreesKeep
  <2>3. ASSUME C, ~NamesOnly, HasSubs(Earlier)' PROVE levels[1].subSeen
    <3>1. PICK m \in Earlier \union {Now} : SubMachines[m] # << >>
      BY <1>7, <2>3 DEF HasSubs
    <3>2. CASE m \in Earlier
      BY <2>1, <2>3, <3>1, <3>2 DEF HasSubs, EarlierMade
    <3>3. CASE m = Now
      <4>1. SubMachines[Now] \in Seq(Subs) /\ SubMachines[Now] # << >>
        BY <1>6, <3>1, <3>3, Ranks
      <4>2. 1 \in DOMAIN SubMachines[Now]
        BY <4>1
      <4>3. SubMachines[Now][1] \in ToSet(SubMachines[Now])
        BY <4>2 DEF ToSet
      <4> QED BY <1>8, <2>3, <4>3
    <3> QED BY <3>1, <3>2, <3>3
  <2> QED BY <1>1, <2>1, <2>2, <2>3 DEF EarlierMade
<1>10. ASSUME NEW n, n = 1 PROVE Filled(n)'
  <2>1. Filled(n)
    BY <1>2, <1>10 DEF Progress
  <2>2. PICK b : Sparing(b) /\ levels[n].base # b
    <3>1. \E b \in {"title", "body"} : levels[n].base # b
      OBVIOUS
    <3> QED BY <1>3, <3>1
  <2>3. About(n)' = About(n) /\ ~Ahead(n) /\ ~Ahead(n)'
    <3>1. "body" \notin ToSet(levels[n].todo)
      BY <1>1, <1>10 DEF ToSet
    <3> QED BY <1>1, <1>2, <3>1 DEF About, Ahead
  <2>4. Done(n)' = Done(n) /\ Titled(n)' = Titled(n)
    BY <2>3 DEF Done, Titled
  <2>5. levels'[n].base = levels[n].base /\ \A i \in 1 .. Done(n) : About(n)'[i] = About(n)[i]
    BY <1>1, <2>3
  <2> QED BY <1>2, <2>1, <2>2, <2>4, <2>5, FilledKeeps
<1>11. \A n \in 1 .. Len(levels') : n = 1
  <2>1. Len(levels') = Len(levels)
    BY <1>1
  <2>2. Len(levels') = 1
    BY <1>1, <2>1
  <2> QED BY <2>2
<1>12. phase' # "write"
  BY <1>1
<1> QED BY <1>1, <1>2, <1>4, <1>9, <1>10, <1>11, <1>12 DEF Progress

(* The end of a sub-machine: it is made, and the machines below it. *)
LEMMA SubMakes ==
  ASSUME IInv, KInv, GInv, EndMachine, phase' # "crashed", ~IsTop
  PROVE  GInv'
<1> SUFFICES ASSUME (NamesOnly \/ NamesDiffer)' PROVE Progress'
  BY DEF GInv
<1> PICK N : N = Len(levels)
  OBVIOUS
<1> PICK b : b = Level.base
  OBVIOUS
<1>1. /\ Undisturbed /\ phase = "write" /\ phase' = "write" /\ printed' = printed
      /\ N \in Nat /\ N >= 2 /\ Len(levels') = N - 1
      /\ \A n \in 1 .. N - 1 : levels'[n] = levels[n] /\ SameLevel(n)
      /\ levels[N].todo = << >> /\ Level = levels[N] /\ Complete(Level)
      /\ LevelOK(Level, FALSE) /\ Closing(TRUE)
  BY SubMachineEnds
<1>2. /\ Working /\ Working' /\ Progress /\ (NamesOnly \/ NamesDiffer) /\ job \in Jobs
      /\ job' = job /\ fnind' = fnind /\ skipped' = skipped /\ described' = described
      /\ 1 \in 1 .. N - 1 /\ N \in 1 .. N /\ \A n \in 1 .. N - 1 : n \in 1 .. N /\ n # N
  BY <1>1, Judged DEF Working, IInv, Typed, Undisturbed
<1>3. b \in Subs /\ b \in Machines /\ levels[N].machine = b /\ levels[N].base = b
  BY <1>1 DEF LevelOK, Subs
<1>4. Sparing(b)
  BY <1>1, <1>2, ClosingSpares
<1>5. About(N) = <<b>> /\ Done(N) = 1 /\ Titled(N) = 0
  <2>1. About(N) = <<b>>
    BY <1>1, <1>3 DEF About
  <2>2. Len(<<b>>) = 1
    OBVIOUS
  <2> QED BY <1>1, <2>1, <2>2, AllDone
<1>6. Filled(N) /\ LevelMade(N)
  BY <1>1, <1>2 DEF Progress
<1>7. \A s \in ToSet(SubMachines[b]) : (Nests => TreeMade(s)) /\ (C /\ ~NamesOnly => levels[N].subSeen)
  <2> SUFFICES ASSUME NEW s \in ToSet(SubMachines[b])
               PROVE  (Nests => TreeMade(s)) /\ (C /\ ~NamesOnly => levels[N].subSeen)
    OBVIOUS
  <2>1. s \notin ToSet(levels[N].todo)
    BY <1>1 DEF ToSet
  <2>2. ~(N < Len(levels))
    BY <1>1
  <2> QED BY <1>3, <1>6, <2>1, <2>2 DEF LevelMade
<1>8. SubMade(b)'
  <2>1. C /\ ~NamesOnly /\ HasSubs({b}) => Level.subSeen
    <3> SUFFICES ASSUME C, ~NamesOnly, SubMachines[b] # << >> PROVE Level.subSeen
      BY DEF HasSubs
    <3>1. SubMachines[b] \in Seq(Subs)
      BY <1>3, Ranks
    <3>2. SubMachines[b][1] \in ToSet(SubMachines[b])
      BY <3>1 DEF ToSet
    <3> QED BY <1>1, <1>7, <3>2
  <2>2. ASSUME NamesOnly PROVE NamesOf(Level, FALSE) \subseteq printed
    <3>1. NamesAt(N) = NamesOf(Level, FALSE)
      <4>1. (N = 1) = FALSE
        BY <1>1
      <4> QED BY <1>1, <4>1 DEF NamesAt
    <3>2. NamesAt(N) \subseteq printed
      BY <1>5, <1>6, <2>2 DEF Filled
    <3> QED BY <3>1, <3>2
  <2>3. ASSUME ~NamesOnly, AllOpened(b, FALSE), NEW f \in Own(b, FALSE)
        PROVE  f \in DOMAIN disk /\ Holds(disk[f], <<b>>, Len(<<b>>), 0)
    <3>1. FilesAt(N) = Own(b, FALSE) /\ (FullAt(N) <=> AllOpened(b, FALSE))
      <4>1. (N = 1) = FALSE
        BY <1>1
      <4> QED BY <1>3, <4>1 DEF FilesAt, FullAt
    <3>2. f \in DOMAIN disk /\ Holds(disk[f], <<b>>, 1, 0)
      BY <1>5, <1>6, <2>3, <3>1 DEF Filled
    <3>3. Len(<<b>>) = 1
      OBVIOUS
    <3> QED BY <3>2, <3>3
  <2>4. <<b>> \in Seq(Machines)
    BY <1>3
  <2>5. \A f \in FilesOf(b, FALSE, HasSubs({b})) : Made(f, <<b>>)'
    BY <1>1, <1>2, <2>1, <2>2, <2>3, <2>4, ClosedMade
  <2>6. FilesOf(b, FALSE, HasSubs({b}))' = FilesOf(b, FALSE, HasSubs({b}))
    BY <1>2 DEF FilesOf, HasSubs
  <2> QED BY <2>5, <2>6 DEF SubMade
<1>9. Caring
  <2>1. ASSUME NEW t \in Subs, t # b, AtHand(t) PROVE AtHand(t)'
    <3>1. PICK n \in 2 .. N : levels[n].base = t
      BY <2>1 DEF AtHand
    <3>2. n # N
      BY <1>3, <2>1, <3>1
    <3>3. n \in 2 .. N - 1 /\ n \in 1 .. N - 1
      BY <1>1, <3>2
    <3> QED BY <1>1, <3>1, <3>3 DEF AtHand
  <2> QED BY <1>2, <1>4, <1>8, <2>1, CaredKeeps
<1>10. Nests => TreeMade(b)'
  <2> SUFFICES ASSUME Nests, NEW t \in Tree(b) PROVE Cared(t)'
    BY DEF TreeMade
  <2>1. CASE t = b
    BY <1>8, <2>1 DEF Cared
  <2>2. CASE t # b
    <3>1. PICK s \in ToSet(SubMachines[b]) : t \in Tree(s) /\ s \in Subs
      BY <1>3, <2>2, Trees
    <3>2. TreeMade(s)'
      BY <1>7, <1>9, <3>1, TreesKeep
    <3> QED BY <3>1, <3>2 DEF TreeMade
  <2> QED BY <2>1, <2>2
<1>11. InputsMade'
  BY <1>2, <1>3, <1>4, <1>9, InputsStay DEF Progress
<1>12. EarlierMade'
  <2>1. Earlier' = Earlier
    BY <1>1, <1>2 DEF Earlier
  <2>2. EarlierMade /\ levels'[1].subSeen = levels[1].subSeen
    BY <1>1, <1>2 DEF Progress
  <2> QED BY <1>2, <1>9, <2>1, <2>2, EarlierKeeps, EarlierFacts
<1>13. ASSUME NEW n \in 1 .. N - 1 PROVE Filled(n)'
  <2>1. Filled(n) /\ SameLevel(n) /\ levels'[n] = levels[n]
    BY <1>1, <1>2 DEF Progress
  <2>2. levels[n].base # b
    <3>1. LevelsIn(levels)
      BY DEF IInv
    <3> QED BY <1>1, <1>2, <1>3, <3>1, BasesApart
  <2>3. About(n)' = About(n) /\ Done(n)' = Done(n) /\ Titled(n)' = Titled(n)
    BY <1>1, <2>1, AsFar
  <2> QED BY <1>2, <1>4, <2>1, <2>2, <2>3, FilledKeeps
<1>14. ASSUME NEW n \in 1 .. N - 1 PROVE LevelMade(n)'
  <2>1. LevelMade(n) /\ levels[n].machine \in Machines /\ levels'[n] = levels[n]
    BY <1>1, <1>2, AboutFacts DEF Progress
  <2>2. ASSUME NEW s \in ToSet(SubMachines[levels[n].machine]), Nests, n < N, levels[n + 1].base = s
        PROVE  (n < Len(levels') /\ levels'[n + 1].base = s) \/ TreeMade(s)'
    <3>1. CASE n = N - 1
      <4>1. n + 1 = N
        BY <1>1, <3>1
      <4> QED BY <1>3, <1>10, <2>2, <4>1
    <3>2. CASE n # N - 1
      <4>1. n + 1 \in 1 .. N - 1 /\ n < N - 1
        BY <1>1, <3>2
      <4> QED BY <1>1, <2>2, <4>1
    <3> QED BY <3>1, <3>2
  <2> QED BY <1>2, <1>9, <2>1, <2>2, LevelMadeKeeps
<1> QED BY <1>1, <1>11, <1>12, <1>13, <1>14 DEF Progress

LEMMA EndMachineMakes ==
  ASSUME IInv, KInv, GInv, EndMachine
  PROVE  GInv'
<1>1. CASE phase' = "crashed"
  BY <1>1 DEF GInv
<1>2. CASE phase' # "crashed"
  BY <1>2, TopMakes, SubMakes
<1> QED BY <1>1, <1>2

(* The output of an input is closed: if the input is good, it is made. *)
LEMMA CloseOutputMakes ==
  ASSUME IInv, KInv, GInv, CloseOutput
  PROVE  GInv'
<1> SUFFICES ASSUME phase' # "crashed", (NamesOnly \/ NamesDiffer)' PROVE Progress'
  BY DEF GInv
<1> PICK b : b = Level.base
  OBVIOUS
<1>1. /\ phase = "close" /\ phase' = "files" /\ good' = good /\ good \in BOOLEAN
      /\ job' = job /\ fnind' = fnind + 1 /\ skipped' = skipped /\ described' = described
      /\ levels' = << >> /\ printed' = printed
      /\ fnind \in Nat /\ fnind >= 1 /\ fnind \in DOMAIN job.inputs
      /\ Len(levels) = 1 /\ Level = levels[1] /\ LevelOK(Level, TRUE)
      /\ Closing(good) /\ (good => Complete(Level) /\ described[fnind] # << >>)
  BY OutputCloses
<1>2. /\ Working /\ ~Working' /\ phase' # "write" /\ Progress /\ (NamesOnly \/ NamesDiffer)
      /\ job \in Jobs /\ described \in [DOMAIN job.inputs -> Seq(Words)]
      /\ 1 \in 1 .. Len(levels)
  BY <1>1, Judged DEF Working, IInv, Typed
<1>3. b = NameOf(fnind) /\ b \notin Subs
  <2>1. b = NameOf(fnind)
    BY <1>1, <1>2 DEF KInv, Naming
  <2>2. NameOf(fnind) \in Chosen
    BY <1>1 DEF NameOf, Chosen
  <2> QED BY <1>2, <2>1, <2>2, JobFacts
<1>4. Sparing(b)
  BY <1>1, <1>2, ClosingSpares
<1>5. Caring
  <2>1. \A t : ~AtHand(t)
    <3>1. \A n \in 2 .. Len(levels) : FALSE
      BY <1>1
    <3> QED BY <3>1 DEF AtHand
  <2> QED BY <1>1, <1>3, <1>4, <2>1, CaredKeeps
<1> SUFFICES ASSUME NEW i \in DOMAIN job.inputs, Over(i)', ~Bad(i)' PROVE InputMade(i)'
  <2>1. InputsMade'
    BY <1>1 DEF InputsMade
  <2> QED BY <1>2, <2>1 DEF Progress
<1>6. i \in Nat /\ i < fnind' /\ i \notin skipped
  BY <1>1, <1>2, JobFacts DEF Over
<1>7. CASE i < fnind
  <2>1. Over(i) /\ ~Bad(i)
    BY <1>1, <1>6, <1>7 DEF Over, Bad
  <2>2. InputMade(i)
    BY <1>2, <2>1 DEF Progress, InputsMade
  <2>3. NamesOnly \/ NameOf(i) # b
    BY <1>1, <1>2, <1>3, <1>7 DEF NamesDiffer
  <2> QED BY <1>1, <1>2, <1>4, <1>5, <2>2, <2>3, InputKeeps
<1>8. CASE i = fnind
  <2> PICK ms : ms = described[i]
    OBVIOUS
  <2> PICK S : S = MachinesOf(i)
    OBVIOUS
  <2>1. good = TRUE
    <3>1. i = fnind' - 1
      BY <1>1, <1>8
    <3> QED BY <1>1, <3>1 DEF Bad
  <2>2. /\ ms \in Seq(Words) /\ ms \in Seq(Machines) /\ Len(ms) \in Nat /\ Len(ms) > 0
        /\ Earlier = S /\ S \subseteq Machines
    <3>1. ms \in Seq(Words) /\ Earlier = S /\ S \subseteq Machines
      BY <1>1, <1>2, <1>8, EarlierFacts
    <3>2. ms # << >>
      BY <1>1, <1>8, <2>1
    <3> QED BY <3>1, <3>2, Ranks
  <2>3. EarlierMade /\ Filled(1)
    BY <1>2 DEF Progress
  <2>4. About(1) = ms /\ Done(1) = Len(ms) /\ Titled(1) = 0
    <3>1. About(1) = ms
      BY <1>8 DEF About
    <3> QED BY <1>1, <2>2, <3>1, AllDone
  <2>5. C /\ ~NamesOnly /\ HasSubs(S) => Level.subSeen
    BY <1>1, <2>2, <2>3 DEF EarlierMade
  <2>6. ASSUME NamesOnly PROVE NamesOf(Level, TRUE) \subseteq printed
    <3>1. NamesAt(1) = NamesOf(Level, TRUE)
      BY <1>1 DEF NamesAt
    <3> QED BY <2>2, <2>3, <2>4, <2>6, <3>1 DEF Filled
  <2>7. ASSUME ~NamesOnly, AllOpened(b, TRUE), NEW f \in Own(b, TRUE)
        PROVE  f \in DOMAIN disk /\ Holds(disk[f], ms, Len(ms), 0)
    <3>1. FilesAt(1) = Own(b, TRUE) /\ (FullAt(1) <=> AllOpened(b, TRUE))
      BY <1>1 DEF FilesAt, FullAt
    <3> QED BY <2>3, <2>4, <2>7, <3>1 DEF Filled
  <2>8. \A f \in FilesOf(b, TRUE, HasSubs(S)) : Made(f, ms)'
    BY <1>1, <1>2, <2>1, <2>2, <2>5, <2>6, <2>7, ClosedMade
  <2>9. TopFiles(i)' = FilesOf(b, TRUE, HasSubs(S)) /\ MachinesOf(i)' = S /\ described'[i] = ms
    <3>1. TopFiles(i)' = TopFiles(i)
      BY <1>1, FilesKeep
    <3>2. TopFiles(i) = FilesOf(b, TRUE, HasSubs(S))
      BY <1>3, <1>8 DEF TopFiles
    <3>3. MachinesOf(i)' = S
      BY <1>1 DEF MachinesOf
    <3> QED BY <1>1, <3>1, <3>2, <3>3
  <2>10. Nests' => \A m \in S : BelowMade(m)'
    <3>1. Nests' = Nests
      BY <1>1 DEF Nests
    <3> QED BY <1>5, <2>2, <2>3, <3>1, TreesKeep DEF EarlierMade
  <2> QED BY <2>8, <2>9, <2>10 DEF InputMade
<1>9. i < fnind \/ i = fnind
  BY <1>1, <1>6
<1> QED BY <1>7, <1>8, <1>9

(* The output of an input is opened, or the input is passed over. *)
LEMMA InitOutputMakes ==
  ASSUME IInv, KInv, GInv, InitOutput
  PROVE  GInv'
<1> SUFFICES ASSUME phase' # "crashed", (NamesOnly \/ NamesDiffer)' PROVE Progress'
  BY DEF GInv
<1> PICK b : b = outFileBase
  OBVIOUS
<1>1. /\ phase = "init" /\ job' = job /\ described' = described /\ levels = << >>
      /\ fnind \in Nat /\ Opening(b, TRUE) /\ printed' = printed
  <2>1. CASE InitReports(b, TRUE)
    BY <2>1, OutputFails
  <2>2. CASE ~InitReports(b, TRUE)
    BY <2>2, OutputBegins DEF Undisturbed
  <2> QED BY <2>1, <2>2
<1>2. /\ Progress /\ (NamesOnly \/ NamesDiffer)
      /\ job \in Jobs /\ described \in [DOMAIN job.inputs -> Seq(Words)]
      /\ b \in Chosen /\ b \notin Subs /\ Naming
  <2>1. b \in Chosen /\ job \in Jobs /\ described \in [DOMAIN job.inputs -> Seq(Words)]
    BY <1>1 DEF IInv, Typed, Phases
  <2> QED BY <1>1, <2>1, Judged, JobFacts DEF KInv
<1>3. Sparing(b)
  BY <1>1, OpeningSpares
<1>4. Caring
  <2>1. \A t : ~AtHand(t)
    <3>1. Len(levels) = 0
      <4>1. levels = << >> /\ Len(<< >>) = 0
        BY <1>1
      <4> QED BY <4>1
    <3>2. \A n \in 2 .. Len(levels) : FALSE
      BY <3>1
    <3> QED BY <3>2 DEF AtHand
  <2> QED BY <1>1, <1>2, <1>3, <2>1, CaredKeeps
<1>5. \A i : ~Bad(i)
  BY <1>1 DEF Bad
<1>6. \A i \in DOMAIN job.inputs : i \in Nat
  BY <1>2, JobFacts
<1>7. CASE InitReports(outFileBase, TRUE)
  <2>1. phase' = "files" /\ fnind' = fnind + 1 /\ skipped' = skipped \union {fnind}
    BY <1>7, OutputFails
  <2>2. ASSUME NEW i \in DOMAIN job.inputs, Over(i)'
        PROVE  Over(i) /\ Kept(i)
    <3>1. i < fnind /\ i \notin skipped
      BY <1>1, <1>6, <2>1, <2>2 DEF Over
    <3>2. NameOf(i) # b
      BY <1>2, <1>7, <3>1 DEF Naming
    <3> QED BY <1>3, <3>1, <3>2 DEF Over, Kept
  <2>3. InputsMade'
    BY <1>1, <1>2, <1>4, <1>5, <2>2, InputsKeep DEF Progress
  <2> QED BY <2>1, <2>3 DEF Progress, Working
<1>8. CASE ~InitReports(outFileBase, TRUE)
  <2>1. /\ phase' = "parse" /\ fnind' = fnind /\ skipped' = skipped /\ Len(levels') = 1
        /\ levels'[1].base = b /\ described[fnind] = << >> /\ fnind \in DOMAIN job.inputs
    BY <1>8, OutputBegins DEF Undisturbed
  <2>2. b = NameOf(fnind)
    BY <1>1, <1>2, <1>8 DEF Naming, Left
  <2>3. ASSUME NEW i \in DOMAIN job.inputs, Over(i)'
        PROVE  Over(i) /\ Kept(i)
    <3>1. i < fnind /\ Over(i)
      BY <1>1, <2>1, <2>3 DEF Over
    <3>2. i # fnind
      BY <1>1, <1>6, <3>1
    <3>3. NamesOnly \/ NameOf(i) # b
      BY <1>2, <2>1, <2>2, <3>2 DEF NamesDiffer
    <3> QED BY <1>3, <3>1, <3>3 DEF Kept
  <2>4. InputsMade'
    BY <1>1, <1>2, <1>4, <1>5, <2>3, InputsKeep DEF Progress
  <2>5. EarlierMade'
    <3>1. described'[fnind'] = << >> /\ Len(described'[fnind']) = 0
      <4>1. Len(<< >>) = 0
        OBVIOUS
      <4> QED BY <1>1, <2>1, <4>1
    <3>2. Earlier' = {described'[fnind'][k] : k \in 1 .. Len(described'[fnind']) - 0}
      BY <2>1 DEF Earlier
    <3>3. Earlier' = {}
      BY <3>1, <3>2
    <3> QED BY <3>3 DEF EarlierMade, HasSubs
  <2>6. ASSUME NEW n, n = 1 PROVE Filled(n)'
    <3>1. About(n)' = << >>
      BY <1>1, <2>1, <2>6 DEF About
    <3>2. ~Ahead(n)'
      BY <2>1 DEF Ahead
    <3>3. Done(n)' = Len(<< >>) - 0 /\ Titled(n)' = 0
      BY <3>1, <3>2 DEF Done, Titled
    <3>4. Done(n)' = 0
      BY <3>3
    <3>5. NamesOnly' = NamesOnly /\ Width' = Width
      BY <1>1, SameJob DEF Width
    <3>6. CASE NamesOnly
      BY <3>4, <3>5, <3>6 DEF Filled
    <3>7. CASE ~NamesOnly
      <4>1. FilesAt(n)' = Own(b, TRUE) /\ (FullAt(n)' <=> AllOpened(b, TRUE))
        <5>1. FilesAt(n)' = Own(b, TRUE)'
          BY <2>1, <2>6 DEF FilesAt
        <5>2. FullAt(n)' <=> AllOpened(b, TRUE)'
          BY <2>1, <2>6 DEF FullAt
        <5>3. AllOpened(b, TRUE)' <=> AllOpened(b, TRUE)
          BY <1>1 DEF AllOpened, Opened
        <5> QED BY <1>1, <5>1, <5>2, <5>3, FilesKeep
      <4> SUFFICES ASSUME AllOpened(b, TRUE), NEW f \in Own(b, TRUE)
                   PROVE  f \in DOMAIN disk' /\ Holds(disk[f], About(n), Done(n), Titled(n))'
        BY <3>5, <3>7, <4>1 DEF Filled
      <4>2. f \in DOMAIN disk' /\ disk'[f] = <<"start">>
        BY <1>1, <3>7 DEF Opening
      <4>3. <<"start">> \in Seq(Bits') /\ Len(<<"start">>) = 1 /\ <<"start">>[1] = "start"
        <5>1. "start" \in Bits'
          BY DEF Bits
        <5> QED BY <5>1
      <4>4. 1 + Width * 0 + 0 = 1
        BY Widths
      <4>5. \A i \in 1 .. 0 : FALSE
        OBVIOUS
      <4> QED BY <3>3, <3>4, <3>5, <4>2, <4>3, <4>4, <4>5 DEF Holds
    <3> QED BY <3>6, <3>7
  <2>7. \A n \in 1 .. Len(levels') : n = 1
    BY <2>1
  <2> QED BY <2>1, <2>4, <2>5, <2>6, <2>7 DEF Progress
<1> QED BY <1>7, <1>8

LEMMA StepMakes == IInv /\ KInv /\ GInv /\ [Next]_vars => GInv'
<1> SUFFICES ASSUME IInv, KInv, GInv, [Next]_vars PROVE GInv'
  OBVIOUS
<1>1. ASSUME TakeFile PROVE GInv'
  BY <1>1, TakeFileMakes
<1>2. ASSUME Finish PROVE GInv'
  BY <1>2, FinishMakes
<1>3. ASSUME InitOutput PROVE GInv'
  BY <1>3, InitOutputMakes
<1>4. ASSUME NEW x \in job.lexemes, Read(x) PROVE GInv'
  BY <1>4, ReadMakes
<1>5. ASSUME EndOfFile PROVE GInv'
  BY <1>5, EndOfFileMakes
<1>6. ASSUME WritePart PROVE GInv'
  BY <1>6, WritePartMakes
<1>7. ASSUME BeginSubMachine PROVE GInv'
  BY <1>7, BeginSubMachineMakes
<1>8. ASSUME EndMachine PROVE GInv'
  BY <1>8, EndMachineMakes
<1>9. ASSUME CloseOutput PROVE GInv'
  BY <1>9, CloseOutputMakes
<1>10. ASSUME UNCHANGED vars PROVE GInv'
  BY <1>10, StutterMakes
<1> QED BY <1>1, <1>2, <1>3, <1>4, <1>5, <1>6, <1>7, <1>8, <1>9, <1>10 DEF Next

LEMMA MakesInvariant == Spec => []GInv
<1> QED BY InitMakes, StepMakes, Invariant, DiskInvariant, PTL DEF Spec

(* At the end nothing is at work: what an input is due is made. *)
LEMMA MadeAtExit ==
  ASSUME IInv, KInv, GInv, Exited, NamesOnly \/ NamesDiffer, NEW i \in Taken \ Failed
  PROVE  /\ \A f \in TopFiles(i) : Made(f, described[i])
         /\ \A f \in SubFiles(i) : Made(f, <<f.base>>)
<1>1. phase = "exited" /\ phase # "crashed" /\ levels = << >>
  BY DEF Exited, IInv, Phases
<1>2. i \in DOMAIN job.inputs /\ Over(i) /\ ~Bad(i)
  BY <1>1 DEF Taken, Failed, Over, Bad
<1>3. InputMade(i)
  BY <1>1, <1>2 DEF GInv, Progress, InputsMade
<1>4. \A t : Cared(t) => SubMade(t)
  <2>1. Len(levels) = 0
    <3>1. Len(<< >>) = 0
      OBVIOUS
    <3> QED BY <1>1, <3>1
  <2>2. \A n \in 2 .. Len(levels) : FALSE
    BY <2>1
  <2> QED BY <2>2 DEF Cared, AtHand
<1>5. MachinesOf(i) \subseteq Machines
  <2>1. described[i] \in Seq(Words)
    BY <1>2 DEF IInv, Typed
  <2> QED BY <2>1, Ranks DEF MachinesOf, ToSet
<1>6. ASSUME NEW f \in SubFiles(i) PROVE Made(f, <<f.base>>)
  <2>1. Nests
    BY DEF SubFiles, Nests
  <2>2. PICK t \in Within(i) : f \in FilesOf(t, FALSE, HasSubs({t}))
    BY <2>1 DEF SubFiles, Nests
  <2>3. PICK m \in MachinesOf(i) : t \in Tree(m) /\ t # m
    BY DEF Within
  <2>4. PICK s \in ToSet(SubMachines[m]) : t \in Tree(s)
    BY <1>5, <2>3, Trees
  <2>5. SubMade(t)
    BY <1>3, <1>4, <2>1, <2>4 DEF InputMade, BelowMade, TreeMade
  <2>6. f.base = t
    <3>1. f = [base |-> t, slot |-> f.slot]
      BY <2>2, FilesNamed
    <3> PICK slot : slot = f.slot
      OBVIOUS
    <3>2. f = [base |-> t, slot |-> slot]
      BY <3>1
    <3> QED BY <3>2
  <2> QED BY <2>2, <2>5, <2>6 DEF SubMade
<1> QED BY <1>3, <1>6 DEF InputMade

(* When the program ends, every input without an error has its files, of   *)
(* its machines and of all their sub-machines, whole and its own, whatever *)
(* the other inputs describe and whichever of them fail: if their outputs  *)
(* have names of their own.  fsm_c_common.c:1336, parser.y:2640            *)
THEOREM AlwaysGoodOutputWhole == Spec => [](NamesDiffer => GoodOutputWhole)
<1>1. IInv /\ KInv /\ GInv => (NamesDiffer => GoodOutputWhole)
  <2> SUFFICES ASSUME IInv, KInv, GInv, NamesDiffer, Exited, job.names = "no", NEW i \in Taken \ Failed
               PROVE  /\ \A f \in TopFiles(i) : Whole(f, described[i])
                      /\ \A f \in SubFiles(i) : Whole(f, <<f.base>>)
    BY DEF GoodOutputWhole
  <2>1. ~NamesOnly
    BY DEF NamesOnly
  <2>2. /\ \A f \in TopFiles(i) : Made(f, described[i])
        /\ \A f \in SubFiles(i) : Made(f, <<f.base>>)
    BY MadeAtExit
  <2> QED BY <2>1, <2>2 DEF Made
<1> QED BY <1>1, Invariant, DiskInvariant, MakesInvariant, PTL

(* What -Mh and -Md print names every header, and every file, that would   *)
(* have been made for the good inputs, what -M prints every source, and no *)
(* file is made: whatever the inputs are.  parser.y:3079                   *)
THEOREM AlwaysPrintsWhatWouldBeMade == Spec => []PrintsWhatWouldBeMade
<1>1. IInv /\ KInv /\ GInv => PrintsWhatWouldBeMade
  <2> SUFFICES ASSUME IInv, KInv, GInv, Exited, NamesOnly
               PROVE  /\ disk = << >>
                      /\ \A i \in Taken \ Failed : \A f \in TopFiles(i) \union SubFiles(i) : Named(f)
    BY DEF PrintsWhatWouldBeMade
  <2>1. disk = << >>
    BY DEF KInv, OnDisk, Exited
  <2>2. ASSUME NEW i \in Taken \ Failed, NEW f \in TopFiles(i) \union SubFiles(i) PROVE Named(f)
    <3>1. /\ \A g \in TopFiles(i) : Made(g, described[i])
          /\ \A g \in SubFiles(i) : Made(g, <<g.base>>)
      BY MadeAtExit
    <3> QED BY <3>1 DEF Made
  <2> QED BY <2>1, <2>2
<1> QED BY <1>1, Invariant, DiskInvariant, MakesInvariant, PTL

-----------------------------------------------------------------------------
(* Numbers. *)
LEMMA Least ==
  ASSUME NEW S \in SUBSET Nat, S # {}
  PROVE  \E n \in S : \A k \in S : n <= k
<1> DEFINE R == OpToRel(<, Nat)
<1>1. R = {p \in Nat \X Nat : p[1] < p[2]}
  BY Zenon DEF OpToRel
<1>2. IsWellFoundedOn(R, Nat)
  BY NatLessThanWellFounded, Zenon
<1> HIDE DEF R
<1>3. PICK n \in S : \A k \in S : ~ (<<k, n>> \in R)
  BY <1>2, WFMin, Zenon
<1>4. \A k \in S : <<k, n>> \in Nat \X Nat
  OBVIOUS
<1>5. \A k \in S : ~(k < n)
  BY <1>1, <1>3, <1>4
<1> QED BY <1>5

(* Induction, for a set of numbers. *)
LEMMA Induct ==
  ASSUME NEW S, NEW N \in Nat, 0 \in S,
         \A n \in 1..N : n - 1 \in S => n \in S
  PROVE  \A n \in 0..N : n \in S
<1> SUFFICES ASSUME {n \in 0..N : n \notin S} # {} PROVE FALSE
  OBVIOUS
<1>1. PICK n \in {n \in 0..N : n \notin S} : \A k \in {n1 \in 0..N : n1 \notin S} : n <= k
  <2> DEFINE T == {n \in 0..N : n \notin S}
  <2>1. T \in SUBSET Nat
    OBVIOUS
  <2> HIDE DEF T
  <2>2. \E n \in T : \A k \in T : n <= k
    BY <2>1, Least DEF T
  <2> QED BY <2>2 DEF T
<1>2. n # 0 /\ n \in 1..N /\ n - 1 \in 0..N /\ ~(n <= n - 1)
  BY <1>1
<1> QED BY <1>1, <1>2

(* Induction, when what holds of all smaller numbers is enough. *)
LEMMA Strongly ==
  ASSUME NEW S, NEW N \in Nat, \A n \in 1..N : (\A k \in 1..(n - 1) : k \in S) => n \in S
  PROVE  \A n \in 1..N : n \in S
<1> SUFFICES ASSUME NEW m \in 1..N, m \notin S PROVE FALSE
  OBVIOUS
<1> DEFINE T == {n \in 1..N : n \notin S}
<1>1. T \in SUBSET Nat /\ T # {}
  OBVIOUS
<1> HIDE DEF T
<1>2. PICK n \in T : \A k \in T : n <= k
  BY <1>1, Least
<1>3. n \in 1..N /\ n \notin S /\ \A k \in 1..N : k \notin S => n <= k
  BY <1>2 DEF T
<1>4. \A k \in 1..(n - 1) : k \in 1..N /\ ~(n <= k)
  BY <1>3
<1>5. \A k \in 1..(n - 1) : k \in S
  BY <1>3, <1>4
<1> QED BY <1>3, <1>5

-----------------------------------------------------------------------------
(* The functions by which the text is taken apart are what they are        *)
(* defined to be: each value follows from those before it.                 *)
Start(t, f) == [i \in 1 .. Len(t) |-> i = 1 \/ \E k \in 1 .. (i - 1) : Unit(t, k, i - 1) /\ f[k]]
Started(t)  == CHOOSE f : f = Start(t, f)

Given(t, f) == [n \in 0 .. Len(t) |-> IF n = 0 THEN << >> ELSE f[n - 1] \o TokenAt(t, n)]
GivenOf(t)  == CHOOSE f : f = Given(t, f)

LEMMA TakenApart ==
  ASSUME NEW t
  PROVE  /\ Starts(t) = {i \in 1 .. Len(t) : Started(t)[i]}
         /\ TokensOf(t) = GivenOf(t)[Len(t)]
<1>1. Starts(t) = {i \in 1 .. Len(t) : Started(t)[i]}
  BY Zenon DEF Starts, Started, Start
<1>2. TokensOf(t) = GivenOf(t)[Len(t)]
  BY Zenon DEF TokensOf, GivenOf, Given
<1> QED BY <1>1, <1>2

(* whether the first i lexemes are units, given where units start up to i  *)
Follows(t, S, i) == i = 1 \/ \E k \in 1 .. (i - 1) : Unit(t, k, i - 1) /\ k \in S

Solves(t, S, n)  == S \in SUBSET (1 .. n) /\ \A i \in 1 .. n : i \in S <=> Follows(t, S, i)

LEMMA StartsSolved ==
  ASSUME NEW t \in Seq(Lexemes)
  PROVE  \A i \in 1 .. Len(t) : i \in Starts(t) <=> Follows(t, Starts(t), i)
<1> DEFINE P == {n \in 0 .. Len(t) : \E S : Solves(t, S, n)}
<1>1. Len(t) \in Nat
  OBVIOUS
<1>2. 0 \in P
  <2>1. Solves(t, {}, 0)
    BY DEF Solves
  <2> QED BY <1>1, <2>1
<1>3. ASSUME NEW n \in 1 .. Len(t), n - 1 \in P PROVE n \in P
  <2>1. PICK S : Solves(t, S, n - 1)
    BY <1>3
  <2> DEFINE T == IF Follows(t, S, n) THEN S \union {n} ELSE S
  <2>2. T \in SUBSET (1 .. n) /\ \A i \in 1 .. (n - 1) : i \in T <=> i \in S
    <3>1. S \in SUBSET (1 .. (n - 1)) /\ n \in 1 .. n /\ \A i \in 1 .. (n - 1) : i \in 1 .. n /\ i # n
      BY <1>1, <2>1 DEF Solves
    <3> QED BY <3>1
  <2>3. n \in T <=> Follows(t, S, n)
    <3>1. n \notin S
      BY <1>1, <2>1 DEF Solves
    <3> QED BY <3>1
  <2> HIDE DEF T
  <2>4. \A i \in 1 .. n : Follows(t, T, i) <=> Follows(t, S, i)
    <3>1. \A i \in 1 .. n : \A k \in 1 .. (i - 1) : k \in T <=> k \in S
      BY <1>1, <2>2
    <3> QED BY <3>1 DEF Follows
  <2>5. \A i \in 1 .. n : i \in T <=> Follows(t, T, i)
    <3>1. \A i \in 1 .. n : i = n \/ i \in 1 .. (n - 1)
      BY <1>1
    <3> QED BY <2>1, <2>2, <2>3, <2>4, <3>1 DEF Solves
  <2>6. n \in 0 .. Len(t)
    BY <1>1
  <2>7. Solves(t, T, n)
    BY <2>2, <2>5 DEF Solves
  <2> QED BY <2>6, <2>7
<1> HIDE DEF P
<1>4. Len(t) \in P
  <2>1. \A n \in 0 .. Len(t) : n \in P
    BY <1>1, <1>2, <1>3, Induct
  <2> QED BY <1>1, <2>1
<1>5. PICK S : Solves(t, S, Len(t))
  BY <1>4 DEF P
<1> DEFINE f == [i \in 1 .. Len(t) |-> i \in S]
<1>6. f = Start(t, f)
  <2>0. \A i \in 1 .. Len(t) : \A k \in 1 .. (i - 1) : k \in 1 .. Len(t)
    BY <1>1
  <2>1. \A i \in 1 .. Len(t) : \A k \in 1 .. (i - 1) : f[k] = (k \in S)
    BY <2>0, Zenon
  <2>2. \A i \in 1 .. Len(t) :
          (i \in S) = (i = 1 \/ \E k \in 1 .. (i - 1) : Unit(t, k, i - 1) /\ f[k])
    <3> HIDE DEF f
    <3>1. \A i \in 1 .. Len(t) : i \in S <=> Follows(t, S, i)
      BY <1>5, Zenon DEF Solves
    <3>2. \A i \in 1 .. Len(t) : \A k \in 1 .. (i - 1) : k \in S <=> f[k]
      BY <2>1, Zenon
    <3>3. \A i \in 1 .. Len(t) :
            Follows(t, S, i) <=> (i = 1 \/ \E k \in 1 .. (i - 1) : Unit(t, k, i - 1) /\ f[k])
      BY <3>2, Zenon DEF Follows
    <3>4. \A i \in 1 .. Len(t) :
            i \in S <=> (i = 1 \/ \E k \in 1 .. (i - 1) : Unit(t, k, i - 1) /\ f[k])
      BY <3>1, <3>3, Zenon
    <3> QED BY <3>4
  <2>3. f = [i \in 1 .. Len(t) |-> i = 1 \/ \E k \in 1 .. (i - 1) : Unit(t, k, i - 1) /\ f[k]]
    BY <2>2, Zenon
  <2> QED BY <2>3, Zenon DEF Start
<1> HIDE DEF f
<1>7. Started(t) = Start(t, Started(t))
  BY <1>6, Zenon DEF Started
<1>8. \A i \in 1 .. Len(t) :
        Started(t)[i] <=> (i = 1 \/ \E k \in 1 .. (i - 1) : Unit(t, k, i - 1) /\ Started(t)[k])
  <2> DEFINE g == Started(t)
  <2>1. g = [i \in 1 .. Len(t) |-> i = 1 \/ \E k \in 1 .. (i - 1) : Unit(t, k, i - 1) /\ g[k]]
    BY <1>7, Zenon DEF Start
  <2> HIDE DEF g
  <2>2. \A i \in 1 .. Len(t) :
          g[i] = (i = 1 \/ \E k \in 1 .. (i - 1) : Unit(t, k, i - 1) /\ g[k])
    BY <2>1, Zenon
  <2> QED BY <2>2, Zenon DEF g
<1>9. \A k \in 1 .. Len(t) : k \in Starts(t) <=> Started(t)[k]
  BY TakenApart
<1>10. ASSUME NEW i \in 1 .. Len(t) PROVE i \in Starts(t) <=> Follows(t, Starts(t), i)
  <2>1. \A k \in 1 .. (i - 1) : k \in Starts(t) <=> Started(t)[k]
    BY <1>1, <1>9
  <2>2. i \in Starts(t) <=> (i = 1 \/ \E k \in 1 .. (i - 1) : Unit(t, k, i - 1) /\ Started(t)[k])
    BY <1>8, <1>9, Zenon
  <2> QED BY <2>1, <2>2, Zenon DEF Follows
<1> QED BY <1>10

Gives(t, f, n) == \A i \in 0 .. n : f[i] = IF i = 0 THEN << >> ELSE f[i - 1] \o TokenAt(t, i)

LEMMA TokensSolved ==
  ASSUME NEW t \in Seq(Lexemes)
  PROVE  Gives(t, GivenOf(t), Len(t))
<1> DEFINE P == {n \in 0 .. Len(t) : \E f : Gives(t, f, n)}
<1>1. Len(t) \in Nat
  OBVIOUS
<1>2. 0 \in P
  <2> DEFINE f == [i \in 0 .. 0 |-> << >>]
  <2>1. Gives(t, f, 0)
    <3>1. \A i \in 0 .. 0 : i = 0 /\ f[i] = << >>
      OBVIOUS
    <3> HIDE DEF f
    <3> QED BY <3>1 DEF Gives
  <2> HIDE DEF f
  <2> QED BY <1>1, <2>1
<1>3. ASSUME NEW n \in 1 .. Len(t), n - 1 \in P PROVE n \in P
  <2>1. PICK f : Gives(t, f, n - 1)
    BY <1>3
  <2> DEFINE g == [i \in 0 .. n |-> IF i = n THEN f[n - 1] \o TokenAt(t, n) ELSE f[i]]
  <2>2. /\ n \in 0 .. Len(t) /\ n # 0 /\ n \in 0 .. n
        /\ \A i \in 0 .. n : i = n \/ (i \in 0 .. (n - 1) /\ i # n)
        /\ \A i \in 0 .. n : i # 0 => i - 1 \in 0 .. n /\ i - 1 # n
    BY <1>1
  <2>3. g[n] = f[n - 1] \o TokenAt(t, n) /\ \A i \in 0 .. n : i # n => g[i] = f[i]
    BY <2>2
  <2> HIDE DEF g
  <2>4. ASSUME NEW i \in 0 .. n
        PROVE  g[i] = IF i = 0 THEN << >> ELSE g[i - 1] \o TokenAt(t, i)
    <3>1. i # 0 => g[i - 1] = f[i - 1]
      BY <2>2, <2>3
    <3>2. CASE i = n
      BY <2>2, <2>3, <3>1, <3>2
    <3>3. CASE i # n
      BY <2>1, <2>2, <2>3, <3>1, <3>3 DEF Gives
    <3> QED BY <3>2, <3>3
  <2>5. Gives(t, g, n)
    BY <2>4 DEF Gives
  <2> QED BY <2>2, <2>5
<1> HIDE DEF P
<1>4. Len(t) \in P
  <2>1. \A n \in 0 .. Len(t) : n \in P
    BY <1>1, <1>2, <1>3, Induct
  <2> QED BY <1>1, <2>1
<1>5. PICK f : Gives(t, f, Len(t))
  BY <1>4 DEF P
<1> DEFINE g == [i \in 0 .. Len(t) |-> f[i]]
<1>6. g = Given(t, g)
  <2>1. \A i \in 0 .. Len(t) : i # 0 => i - 1 \in 0 .. Len(t)
    BY <1>1
  <2>2. \A i \in 0 .. Len(t) : g[i] = f[i] /\ (i # 0 => g[i - 1] = f[i - 1])
    BY <2>1
  <2>3. g = [i \in 0 .. Len(t) |-> g[i]]
    OBVIOUS
  <2> HIDE DEF g
  <2>4. \A i \in 0 .. Len(t) : g[i] = IF i = 0 THEN << >> ELSE g[i - 1] \o TokenAt(t, i)
    BY <1>5, <2>2 DEF Gives
  <2> QED BY <2>3, <2>4 DEF Given
<1> HIDE DEF g
<1>7. GivenOf(t) = Given(t, GivenOf(t))
  BY <1>6, Zenon DEF GivenOf
<1> DEFINE h == GivenOf(t)
<1>8. h = Given(t, h)
  BY <1>7
<1> HIDE DEF h
<1>9. Gives(t, h, Len(t))
  BY <1>8, Zenon DEF Given, Gives
<1> QED BY <1>9 DEF h

(* If what a text gives up to its end stays when it is continued, only     *)
(* what the last lexeme gives is added.                                    *)
LEMMA TokensGrow ==
  ASSUME NEW t \in Seq(Lexemes), NEW x \in Lexemes,
         \A i \in 1 .. Len(t) : TokenAt(Append(t, x), i) = TokenAt(t, i)
  PROVE  TokensOf(Append(t, x)) = TokensOf(t) \o TokenAt(Append(t, x), Len(t) + 1)
<1> DEFINE T == Append(t, x)
           f == GivenOf(t)
           g == GivenOf(T)
           P == {n \in 0 .. Len(t) : g[n] = f[n]}
<1>1. Len(t) \in Nat /\ T \in Seq(Lexemes) /\ Len(T) = Len(t) + 1
  OBVIOUS
<1>2. Gives(t, f, Len(t)) /\ Gives(T, g, Len(t) + 1)
  <2>1. Gives(T, g, Len(T))
    BY <1>1, TokensSolved
  <2> QED BY <1>1, <2>1, TokensSolved
<1>3. TokensOf(t) = f[Len(t)] /\ TokensOf(T) = g[Len(t) + 1]
  BY <1>1, TakenApart
<1>4. \A i \in 1 .. Len(t) : TokenAt(T, i) = TokenAt(t, i)
  OBVIOUS
<1> HIDE DEF T, f, g
<1>5. 0 \in P
  <2>1. 0 \in 0 .. Len(t) /\ 0 \in 0 .. Len(t) + 1
    BY <1>1
  <2> QED BY <1>2, <2>1 DEF Gives
<1>6. ASSUME NEW n \in 1 .. Len(t), n - 1 \in P PROVE n \in P
  <2>1. n \in 0 .. Len(t) /\ n \in 0 .. Len(t) + 1 /\ n # 0
    BY <1>1
  <2>2. g[n] = g[n - 1] \o TokenAt(T, n) /\ f[n] = f[n - 1] \o TokenAt(t, n)
    BY <1>2, <2>1 DEF Gives
  <2> QED BY <1>4, <1>6, <2>1, <2>2
<1> HIDE DEF P
<1>7. Len(t) \in P
  <2>1. \A n \in 0 .. Len(t) : n \in P
    BY <1>1, <1>5, <1>6, Induct
  <2> QED BY <1>1, <2>1
<1>8. g[Len(t) + 1] = g[Len(t)] \o TokenAt(T, Len(t) + 1)
  <2>1. PICK n \in 0 .. Len(t) + 1 : n = Len(t) + 1 /\ n # 0 /\ n - 1 = Len(t)
    BY <1>1
  <2>2. g[n] = g[n - 1] \o TokenAt(T, n)
    BY <1>2, <2>1 DEF Gives
  <2> QED BY <2>1, <2>2
<1>9. TokensOf(T) = TokensOf(t) \o TokenAt(T, Len(t) + 1)
  BY <1>3, <1>7, <1>8 DEF P
<1> QED BY <1>9 DEF T

-----------------------------------------------------------------------------
(* What is known of a text stays known when it is continued.               *)
Agree(t, u, n) == \A i \in 1 .. n : u[i] = t[i]

LEMMA Continued ==
  ASSUME NEW t \in Seq(Lexemes), NEW x \in Lexemes
  PROVE  /\ Append(t, x) \in Seq(Lexemes) /\ Len(t) \in Nat /\ Len(Append(t, x)) = Len(t) + 1
         /\ Agree(t, Append(t, x), Len(t)) /\ Append(t, x)[Len(t) + 1] = x
         /\ \A a \in 1 .. Len(t) + 1 : \A b \in 0 .. Len(t) :
              SubSeq(Append(t, x), a, b) = SubSeq(t, a, b)
         /\ \A a \in 1 .. Len(t) + 1 :
              SubSeq(Append(t, x), a, Len(t) + 1) = Append(SubSeq(t, a, Len(t)), x)
<1> DEFINE T == Append(t, x)
<1>1. T \in Seq(Lexemes) /\ Len(t) \in Nat /\ Len(T) = Len(t) + 1
  OBVIOUS
<1>2. Agree(t, T, Len(t)) /\ T[Len(t) + 1] = x
  BY DEF Agree
<1>3. T = t \o <<x>> /\ <<x>> \in Seq(Lexemes)
  OBVIOUS
<1> HIDE DEF T
<1>4. ASSUME NEW a \in 1 .. Len(t) + 1, NEW b \in 0 .. Len(t)
      PROVE  SubSeq(T, a, b) = SubSeq(t, a, b)
  <2>1. CASE b < a
    <3>1. SubSeq(T, a, b) = << >> /\ SubSeq(t, a, b) = << >>
      BY <1>1, <2>1, SubSeqEmpty
    <3> QED BY <3>1
  <2>2. CASE a <= b
    <3>1. a \in 1 .. Len(t) /\ b \in 1 .. Len(t)
      BY <1>1, <2>2
    <3> QED BY <1>3, <3>1, SubSeqOfConcat1
  <2> QED BY <1>1, <2>1, <2>2
<1>5. ASSUME NEW a \in 1 .. Len(t) + 1
      PROVE  SubSeq(T, a, Len(t) + 1) = Append(SubSeq(t, a, Len(t)), x)
  <2>1. a \in 1 .. Len(T) /\ Len(T) \in a .. Len(T) /\ Len(T) - 1 = Len(t)
    BY <1>1
  <2>2. SubSeq(T, a, Len(T)) = SubSeq(T, a, Len(T) - 1) \o <<T[Len(T)]>>
    BY <1>1, <2>1, SubSeqRecursiveSecond
  <2>3. SubSeq(T, a, Len(t)) = SubSeq(t, a, Len(t))
    BY <1>1, <1>4
  <2>4. SubSeq(t, a, Len(t)) \in Seq(Lexemes)
    <3>1. \A i \in a .. Len(t) : t[i] \in Lexemes
      BY <1>1
    <3> QED BY <1>1, <3>1, SubSeqProperties
  <2>5. SubSeq(t, a, Len(t)) \o <<x>> = Append(SubSeq(t, a, Len(t)), x)
    BY <2>4
  <2> QED BY <1>1, <1>2, <2>1, <2>2, <2>3, <2>5
<1> QED BY <1>1, <1>2, <1>4, <1>5 DEF T

LEMMA BlockKept ==
  ASSUME NEW t, NEW u, NEW n \in Nat, Agree(t, u, n)
  PROVE  /\ \A i, j \in 1 .. n : Comment(u, i, j) <=> Comment(t, i, j)
         /\ \A i, b \in 1 .. n : FirstBrace(u, i, b) <=> FirstBrace(t, i, b)
         /\ \A x : \A b, j \in 1 .. n : Count(u, x, b, j) = Count(t, x, b, j)
         /\ \A i, b, j \in 1 .. n : Block(u, i, b, j) <=> Block(t, i, b, j)
<1>1. \A i \in 1 .. n : u[i] = t[i]
  BY DEF Agree
<1>2. \A i, j \in 1 .. n : Comment(u, i, j) <=> Comment(t, i, j)
  <2> TAKE i, j \in 1 .. n
  <2>1. \A k \in (i + 1) .. (j - 1) : u[k] = t[k]
    BY <1>1
  <2> QED BY <1>1, <2>1 DEF Comment
<1>3. \A i, b \in 1 .. n : FirstBrace(u, i, b) <=> FirstBrace(t, i, b)
  <2> TAKE i, b \in 1 .. n
  <2>1. \A k \in (i + 1) .. (b - 1) : u[k] = t[k]
    BY <1>1
  <2> QED BY <1>1, <2>1 DEF FirstBrace
<1>4. \A x : \A b, j \in 1 .. n : Count(u, x, b, j) = Count(t, x, b, j)
  <2> TAKE x
  <2> TAKE b, j \in 1 .. n
  <2>1. \A k \in b .. j : u[k] = t[k]
    BY <1>1
  <2>2. {k \in b .. j : u[k] = x} = {k \in b .. j : t[k] = x}
    BY <2>1
  <2> QED BY <2>2 DEF Count
<1>5. \A i, b, j \in 1 .. n : Block(u, i, b, j) <=> Block(t, i, b, j)
  <2> TAKE i, b, j \in 1 .. n
  <2>1. \A k \in b .. (j - 1) : k \in 1 .. n
    OBVIOUS
  <2>2. Balanced(u, b, j) <=> Balanced(t, b, j)
    BY <1>4 DEF Balanced
  <2>3. \A k \in b .. (j - 1) : Balanced(u, b, k) <=> Balanced(t, b, k)
    BY <1>4, <2>1 DEF Balanced
  <2> QED BY <1>3, <2>2, <2>3 DEF Block
<1> QED BY <1>2, <1>3, <1>4, <1>5

LEMMA UnitKept ==
  ASSUME NEW t, NEW u, NEW n \in Nat, Agree(t, u, n)
  PROVE  \A i, j \in 1 .. n : Unit(u, i, j) <=> Unit(t, i, j)
<1> TAKE i, j \in 1 .. n
<1>1. u[i] = t[i]
  BY DEF Agree
<1>2. Comment(u, i, j) <=> Comment(t, i, j)
  BY BlockKept
<1>3. (\E b \in i .. j : Block(u, i, b, j)) <=> (\E b \in i .. j : Block(t, i, b, j))
  <2>1. \A b \in i .. j : b \in 1 .. n
    OBVIOUS
  <2>2. \A b \in i .. j : Block(u, i, b, j) <=> Block(t, i, b, j)
    BY <2>1, BlockKept
  <2> QED BY <2>2
<1> QED BY <1>1, <1>2, <1>3 DEF Unit

LEMMA StartsKept ==
  ASSUME NEW t \in Seq(Lexemes), NEW x \in Lexemes
  PROVE  /\ Starts(t) \subseteq 1 .. Len(t)
         /\ \A i \in 1 .. Len(t) : i \in Starts(Append(t, x)) <=> i \in Starts(t)
<1> DEFINE T == Append(t, x)
           P == {i \in 1 .. Len(t) : i \in Starts(T) <=> i \in Starts(t)}
<1>1. T \in Seq(Lexemes) /\ Len(t) \in Nat /\ Len(T) = Len(t) + 1 /\ Agree(t, T, Len(t))
  BY Continued
<1> HIDE DEF T
<1>2. \A i \in 1 .. Len(t) : i \in Starts(t) <=> Follows(t, Starts(t), i)
  BY StartsSolved
<1>3. \A i \in 1 .. Len(T) : i \in Starts(T) <=> Follows(T, Starts(T), i)
  BY <1>1, StartsSolved
<1>4. ASSUME NEW n \in 1 .. Len(t), \A k \in 1 .. (n - 1) : k \in P PROVE n \in P
  <2>1. \A k \in 1 .. (n - 1) : k \in 1 .. Len(t) /\ n - 1 \in 1 .. Len(t)
    BY <1>1
  <2>2. \A k \in 1 .. (n - 1) : Unit(T, k, n - 1) <=> Unit(t, k, n - 1)
    BY <1>1, <2>1, UnitKept
  <2>3. \A k \in 1 .. (n - 1) : k \in Starts(T) <=> k \in Starts(t)
    BY <1>4
  <2>4. Follows(T, Starts(T), n) <=> Follows(t, Starts(t), n)
    BY <2>2, <2>3 DEF Follows
  <2>5. n \in 1 .. Len(T)
    BY <1>1
  <2> QED BY <1>2, <1>3, <2>4, <2>5
<1> HIDE DEF P
<1>5. \A n \in 1 .. Len(t) : n \in P
  BY <1>1, <1>4, Strongly
<1>6. Starts(t) \subseteq 1 .. Len(t)
  BY TakenApart
<1> QED BY <1>5, <1>6 DEF P, T

-----------------------------------------------------------------------------
(* A unit has one end, and the next one starts behind it.                  *)
LEMMA EndsOnce ==
  ASSUME NEW t
  PROVE  /\ \A i, j, k \in Nat : Comment(t, i, j) /\ Comment(t, i, k) => j = k
         /\ \A i, b, c \in Nat : FirstBrace(t, i, b) /\ FirstBrace(t, i, c) => b = c
         /\ \A i, b, j, c, k \in Nat : Block(t, i, b, j) /\ Block(t, i, c, k) => b = c /\ j = k
<1>1. \A i, j, k \in Nat : Comment(t, i, j) /\ Comment(t, i, k) => j = k
  <2> SUFFICES ASSUME NEW i \in Nat, NEW j \in Nat, NEW k \in Nat,
                      Comment(t, i, j), Comment(t, i, k), j < k
               PROVE  FALSE
    OBVIOUS
  <2>1. j \in (i + 1) .. (k - 1)
    BY DEF Comment
  <2> QED BY <2>1 DEF Comment
<1>2. \A i, b, c \in Nat : FirstBrace(t, i, b) /\ FirstBrace(t, i, c) => b = c
  <2>1. ASSUME NEW i \in Nat, NEW b \in Nat, NEW c \in Nat,
               FirstBrace(t, i, b), FirstBrace(t, i, c), b < c
        PROVE  FALSE
    <3>1. i < b
      BY <2>1, Zenon DEF FirstBrace
    <3>2. b \in (i + 1) .. (c - 1)
      BY <2>1, <3>1
    <3> QED BY <2>1, <3>2, Zenon DEF FirstBrace
  <2> QED BY <2>1
<1>3. \A i, b, j, k \in Nat : Block(t, i, b, j) /\ Block(t, i, b, k) => j = k
  <2> SUFFICES ASSUME NEW i \in Nat, NEW b \in Nat, NEW j \in Nat, NEW k \in Nat,
                      Block(t, i, b, j), Block(t, i, b, k), j < k
               PROVE  FALSE
    OBVIOUS
  <2>1. j \in b .. (k - 1)
    BY DEF Block
  <2> QED BY <2>1 DEF Block
<1>4. \A i, b, j, c, k \in Nat : Block(t, i, b, j) /\ Block(t, i, c, k) => b = c /\ j = k
  BY <1>2, <1>3 DEF Block
<1> QED BY <1>1, <1>2, <1>4

LEMMA UnitOnce ==
  ASSUME NEW t, NEW i \in Nat, NEW j \in Nat, NEW k \in Nat, Unit(t, i, j), Unit(t, i, k)
  PROVE  j = k /\ i <= j
<1>1. CASE t[i] \in {"doc", "open"}
  BY <1>1, EndsOnce DEF Unit, Comment
<1>2. CASE t[i] = "native"
  <2>1. PICK b \in i .. j : Block(t, i, b, j)
    BY <1>2 DEF Unit
  <2>2. PICK c \in i .. k : Block(t, i, c, k)
    BY <1>2 DEF Unit
  <2>3. b \in Nat /\ c \in Nat /\ i <= j
    OBVIOUS
  <2> QED BY <2>1, <2>2, <2>3, EndsOnce
<1>3. CASE t[i] \notin {"doc", "open", "native"}
  BY <1>3 DEF Unit
<1> QED BY <1>1, <1>2, <1>3

LEMMA Chained ==
  ASSUME NEW t \in Seq(Lexemes)
  PROVE  \A s, k \in Starts(t) : k < s => \E e \in 1 .. (s - 1) : Unit(t, k, e)
<1> DEFINE P == {s \in 1 .. Len(t) : s \in Starts(t) =>
                   \A k \in Starts(t) : k < s => \E e \in 1 .. (s - 1) : Unit(t, k, e)}
<1>1. Len(t) \in Nat /\ Starts(t) \subseteq 1 .. Len(t)
  BY TakenApart
<1>2. ASSUME NEW s \in 1 .. Len(t), \A r \in 1 .. (s - 1) : r \in P PROVE s \in P
  <2> SUFFICES ASSUME s \in Starts(t), NEW k \in Starts(t), k < s
               PROVE  \E e \in 1 .. (s - 1) : Unit(t, k, e)
    OBVIOUS
  <2>0. k \in Nat /\ k >= 1 /\ s \in Nat
    BY <1>1
  <2>1. Follows(t, Starts(t), s)
    BY StartsSolved
  <2>2. PICK p \in 1 .. (s - 1) : Unit(t, p, s - 1) /\ p \in Starts(t)
    BY <2>0, <2>1 DEF Follows
  <2>3. CASE p = k
    <3>1. s - 1 \in 1 .. (s - 1)
      BY <2>0
    <3> QED BY <2>2, <2>3, <3>1
  <2>4. CASE k < p
    <3>1. PICK e \in 1 .. (p - 1) : Unit(t, k, e)
      BY <1>2, <2>2, <2>4
    <3>2. e \in 1 .. (s - 1)
      BY <2>0
    <3> QED BY <3>1, <3>2
  <2>5. CASE p < k
    <3>1. k \in 1 .. (s - 1)
      BY <2>0
    <3>2. PICK e \in 1 .. (k - 1) : Unit(t, p, e)
      BY <1>2, <2>2, <2>5, <3>1
    <3>3. p \in Nat /\ e \in Nat /\ s - 1 \in Nat /\ e # s - 1
      BY <2>0, <3>1
    <3> QED BY <2>2, <3>2, <3>3, UnitOnce
  <2> QED BY <2>0, <2>2, <2>3, <2>4, <2>5
<1> HIDE DEF P
<1>3. \A s \in 1 .. Len(t) : s \in P
  BY <1>1, <1>2, Strongly
<1> QED BY <1>1, <1>3 DEF P

(* Nothing starts in a unit that has not ended before the last lexeme.     *)
LEMMA LastStart ==
  ASSUME NEW t \in Seq(Lexemes), NEW s \in Starts(t), \A e \in 1 .. (Len(t) - 1) : ~Unit(t, s, e)
  PROVE  \A w \in Starts(t) : w <= s
<1> SUFFICES ASSUME NEW w \in Starts(t), s < w PROVE FALSE
  BY TakenApart
<1>1. PICK e \in 1 .. (w - 1) : Unit(t, s, e)
  BY Chained
<1>2. w \in 1 .. Len(t) /\ Len(t) \in Nat
  BY TakenApart
<1>3. e \in 1 .. (Len(t) - 1)
  BY <1>2
<1> QED BY <1>1, <1>3

(* Before the last start everything has ended.                             *)
LEMMA EndedBefore ==
  ASSUME NEW t \in Seq(Lexemes), NEW s \in Starts(t), NEW k \in Starts(t), k < s,
         NEW e \in Nat, Unit(t, k, e)
  PROVE  e < s
<1>1. PICK f \in 1 .. (s - 1) : Unit(t, k, f)
  BY Chained
<1>2. k \in Nat /\ f \in Nat /\ s \in Nat
  <2>1. k \in 1 .. Len(t) /\ s \in 1 .. Len(t)
    BY TakenApart
  <2> QED BY <2>1
<1>3. e = f
  BY <1>1, <1>2, UnitOnce
<1> QED BY <1>2, <1>3

-----------------------------------------------------------------------------
(* Braces.                                                                 *)
LEMMA Counts ==
  ASSUME NEW t, NEW x, NEW b \in Nat, NEW j \in Nat, b <= j + 1
  PROVE  /\ Count(t, x, b, j) \in Nat
         /\ Count(t, x, b, j + 1) = Count(t, x, b, j) + (IF t[j + 1] = x THEN 1 ELSE 0)
         /\ b = j + 1 => Count(t, x, b, j) = 0
<1> DEFINE S == {k \in b .. j : t[k] = x}
           T == {k \in b .. (j + 1) : t[k] = x}
<1>1. IsFiniteSet(S) /\ Cardinality(S) \in Nat
  <2>1. IsFiniteSet(b .. j)
    BY FS_Interval
  <2>2. S \in SUBSET (b .. j)
    OBVIOUS
  <2> HIDE DEF S
  <2>3. IsFiniteSet(S)
    BY <2>1, <2>2, FS_Subset
  <2> QED BY <2>3, FS_CardinalityType
<1>2. T = IF t[j + 1] = x THEN S \union {j + 1} ELSE S
  <2>1. \A k : k \in b .. (j + 1) <=> k \in b .. j \/ k = j + 1
    OBVIOUS
  <2> QED BY <2>1
<1>3. j + 1 \notin S
  OBVIOUS
<1>4. b = j + 1 => S = {}
  OBVIOUS
<1>5. Cardinality({}) = 0
  BY FS_EmptySet
<1>6. Count(t, x, b, j) = Cardinality(S) /\ Count(t, x, b, j + 1) = Cardinality(T)
  BY DEF Count
<1> HIDE DEF S, T
<1>7. Cardinality(S \union {j + 1}) = Cardinality(S) + 1
  BY <1>1, <1>3, FS_AddElement
<1> QED BY <1>1, <1>2, <1>4, <1>5, <1>6, <1>7

(* Where something is first it is there once.                              *)
LEMMA CountFirst ==
  ASSUME NEW t, NEW b \in Nat, b # 0, NEW x
  PROVE  /\ t[b] = x => Count(t, x, b, b) = 1
         /\ t[b] # x => Count(t, x, b, b) = 0
<1>1. PICK j \in Nat : b = j + 1
  <2>1. b - 1 \in Nat /\ b = (b - 1) + 1
    OBVIOUS
  <2> QED BY <2>1
<1>2. Count(t, x, b, j) = 0
  BY <1>1, Counts
<1>3. Count(t, x, b, j + 1) = Count(t, x, b, j) + (IF t[j + 1] = x THEN 1 ELSE 0)
  BY <1>1, Counts
<1> QED BY <1>1, <1>2, <1>3

-----------------------------------------------------------------------------
(* What a lexeme gives does not depend on what comes after it.             *)
LEMMA One ==
  ASSUME NEW x
  PROVE  OneOf({x}) = <<x>> /\ OneOf({}) = Nothing
<1>1. (CHOOSE y \in {x} : TRUE) = x
  OBVIOUS
<1>2. {x} # {}
  OBVIOUS
<1> QED BY <1>1, <1>2 DEF OneOf

DueAt(t, i) == {q \in (1 .. (i - 1)) \X (1 .. (i - 1)) : Waits(t, q[1], q[2], i)}
EndingAt(t, j) ==
  {q \in (1 .. j) \X (1 .. j) : /\ t[q[1]] = "native" /\ Block(t, q[1], q[2], j)
                                /\ q[1] \in Starts(t)}

LEMMA DocDueKept ==
  ASSUME NEW t \in Seq(Lexemes), NEW x \in Lexemes, NEW i \in 1 .. Len(t) + 1
  PROVE  DocDue(Append(t, x), i) = DocDue(t, i)
<1> DEFINE T == Append(t, x)
<1>1. /\ Len(t) \in Nat /\ Agree(t, T, Len(t))
      /\ \A a \in 1 .. Len(t) + 1 : \A b \in 0 .. Len(t) : SubSeq(T, a, b) = SubSeq(t, a, b)
  BY Continued
<1>2. Starts(t) \subseteq 1 .. Len(t) /\ \A k \in 1 .. Len(t) : k \in Starts(T) <=> k \in Starts(t)
  BY StartsKept
<1> HIDE DEF T
<1>3. \A k \in 1 .. (i - 1) : k \in 1 .. Len(t) /\ k - 1 \in 0 .. Len(t) /\ k + 1 \in 1 .. Len(t) + 1
  BY <1>1
<1>4. ASSUME NEW k \in 1 .. (i - 1), NEW j \in 1 .. (i - 1)
      PROVE  Waits(T, k, j, i) <=> Waits(t, k, j, i)
  <2>1. T[k] = t[k] /\ (Comment(T, k, j) <=> Comment(t, k, j)) /\ (k \in Starts(T) <=> k \in Starts(t))
    BY <1>1, <1>2, <1>3, BlockKept DEF Agree
  <2>2. ASSUME NEW w \in Starts(T), k < w, w < i
        PROVE  w \in Starts(t) /\ T[w] = t[w]
    <3>1. w \in 1 .. Len(T)
      BY TakenApart
    <3>2. w \in 1 .. (i - 1)
      BY <2>2, <3>1
    <3> QED BY <1>1, <1>2, <1>3, <3>2 DEF Agree
  <2>3. ASSUME NEW w \in Starts(t), k < w, w < i
        PROVE  w \in Starts(T) /\ T[w] = t[w]
    BY <1>1, <1>2 DEF Agree
  <2>4. (\A w \in Starts(T) : k < w /\ w < i => T[w] \notin Words \union {"doc"})
          <=> (\A w \in Starts(t) : k < w /\ w < i => t[w] \notin Words \union {"doc"})
    BY <2>2, <2>3
  <2> QED BY <2>1, <2>4 DEF Waits
<1>5. DueAt(T, i) = DueAt(t, i)
  BY <1>4 DEF DueAt
<1>6. \A p \in DueAt(t, i) : SubSeq(T, p[1] + 1, p[2] - 1) = SubSeq(t, p[1] + 1, p[2] - 1)
  <2> TAKE p \in DueAt(t, i)
  <2>1. p[1] \in 1 .. (i - 1) /\ p[2] \in 1 .. (i - 1)
    BY DEF DueAt
  <2> QED BY <1>1, <1>3, <2>1
<1>7. {SubSeq(T, p[1] + 1, p[2] - 1) : p \in DueAt(T, i)} =
        {SubSeq(t, p[1] + 1, p[2] - 1) : p \in DueAt(t, i)}
  BY <1>5, <1>6
<1>8. /\ DocDue(T, i) = OneOf({SubSeq(T, p[1] + 1, p[2] - 1) : p \in DueAt(T, i)})
      /\ DocDue(t, i) = OneOf({SubSeq(t, p[1] + 1, p[2] - 1) : p \in DueAt(t, i)})
  BY Zenon DEF DocDue, DueAt
<1>9. DocDue(T, i) = DocDue(t, i)
  BY <1>7, <1>8
<1> QED BY <1>9 DEF T

LEMMA BlockEndingKept ==
  ASSUME NEW t \in Seq(Lexemes), NEW x \in Lexemes, NEW j \in 1 .. Len(t)
  PROVE  BlockEnding(Append(t, x), j) = BlockEnding(t, j)
<1> DEFINE T == Append(t, x)
<1>1. /\ Len(t) \in Nat /\ Agree(t, T, Len(t))
      /\ \A a \in 1 .. Len(t) + 1 : \A b \in 0 .. Len(t) : SubSeq(T, a, b) = SubSeq(t, a, b)
  BY Continued
<1>2. \A k \in 1 .. Len(t) : k \in Starts(T) <=> k \in Starts(t)
  BY StartsKept
<1> HIDE DEF T
<1>3. \A k \in 1 .. j : k \in 1 .. Len(t) /\ k - 1 \in 0 .. Len(t) /\ k + 1 \in 1 .. Len(t) + 1
  BY <1>1
<1>4. ASSUME NEW k \in 1 .. j, NEW b \in 1 .. j
      PROVE  /\ T[k] = t[k] /\ (Block(T, k, b, j) <=> Block(t, k, b, j))
             /\ k \in Starts(T) <=> k \in Starts(t)
  BY <1>1, <1>2, <1>3, BlockKept DEF Agree
<1>5. EndingAt(T, j) = EndingAt(t, j)
  BY <1>4 DEF EndingAt
<1>6. \A p \in EndingAt(t, j) : SubSeq(T, p[2] + 1, j - 1) = SubSeq(t, p[2] + 1, j - 1)
  <2> TAKE p \in EndingAt(t, j)
  <2>1. p[2] \in 1 .. j /\ j - 1 \in 0 .. Len(t)
    BY <1>1 DEF EndingAt
  <2> QED BY <1>1, <1>3, <2>1
<1>7. {Token("block", Nothing, SubSeq(T, p[2] + 1, j - 1)) : p \in EndingAt(T, j)} =
        {Token("block", Nothing, SubSeq(t, p[2] + 1, j - 1)) : p \in EndingAt(t, j)}
  BY <1>5, <1>6
<1>8. /\ BlockEnding(T, j) = OneOf({Token("block", Nothing, SubSeq(T, p[2] + 1, j - 1)) : p \in EndingAt(T, j)})
      /\ BlockEnding(t, j) = OneOf({Token("block", Nothing, SubSeq(t, p[2] + 1, j - 1)) : p \in EndingAt(t, j)})
  BY Zenon DEF BlockEnding, EndingAt
<1>9. BlockEnding(T, j) = BlockEnding(t, j)
  BY <1>7, <1>8
<1> QED BY <1>9 DEF T

LEMMA TokensContinue ==
  ASSUME NEW t \in Seq(Lexemes), NEW x \in Lexemes
  PROVE  TokensOf(Append(t, x)) = TokensOf(t) \o TokenAt(Append(t, x), Len(t) + 1)
<1>1. ASSUME NEW i \in 1 .. Len(t) PROVE TokenAt(Append(t, x), i) = TokenAt(t, i)
  <2> DEFINE T == Append(t, x)
  <2>1. i \in 1 .. Len(t) + 1 /\ T[i] = t[i]
    BY Continued DEF Agree
  <2>2. DocDue(T, i) = DocDue(t, i) /\ BlockEnding(T, i) = BlockEnding(t, i)
    BY <2>1, DocDueKept, BlockEndingKept
  <2>3. i \in Starts(T) <=> i \in Starts(t)
    BY StartsKept
  <2> HIDE DEF T
  <2>4. TokenAt(T, i) = TokenAt(t, i)
    BY <2>1, <2>2, <2>3 DEF TokenAt
  <2> QED BY <2>4 DEF T
<1> QED BY <1>1, TokensGrow

-----------------------------------------------------------------------------
(* The last unit, which has ended or not.                                  *)
AllEnded(t) == t = << >> \/ \E k \in Starts(t) : Unit(t, k, Len(t))
Unended(t, s) == s \in Starts(t) /\ \A e \in 1 .. Len(t) : ~Unit(t, s, e)

LEMMA NextStart ==
  ASSUME NEW t \in Seq(Lexemes), NEW x \in Lexemes
  PROVE  Len(t) + 1 \in Starts(Append(t, x)) <=> AllEnded(t)
<1> DEFINE T == Append(t, x)
           n == Len(t)
<1>1. T \in Seq(Lexemes) /\ n \in Nat /\ Len(T) = n + 1 /\ Agree(t, T, n)
  BY Continued
<1>2. Starts(t) \subseteq 1 .. n /\ \A k \in 1 .. n : k \in Starts(T) <=> k \in Starts(t)
  BY StartsKept
<1>3. t = << >> <=> n + 1 = 1
  OBVIOUS
<1> HIDE DEF T, n
<1>4. n + 1 \in Starts(T) <=> Follows(T, Starts(T), n + 1)
  <2>1. PICK m \in 1 .. Len(T) : m = n + 1
    BY <1>1
  <2> QED BY <1>1, <2>1, StartsSolved
<1>5. \A k \in 1 .. n : Unit(T, k, n) <=> Unit(t, k, n)
  <2>1. \A k \in 1 .. n : n \in 1 .. n
    BY <1>1
  <2> QED BY <1>1, <2>1, UnitKept
<1>6. (\E k \in 1 .. n : Unit(T, k, n) /\ k \in Starts(T)) <=> \E k \in Starts(t) : Unit(t, k, n)
  BY <1>2, <1>5
<1>7. Follows(T, Starts(T), n + 1) <=> (n + 1 = 1 \/ \E k \in 1 .. n : Unit(T, k, n) /\ k \in Starts(T))
  <2>1. (n + 1) - 1 = n
    BY <1>1
  <2> QED BY <2>1 DEF Follows
<1> QED BY <1>3, <1>4, <1>6, <1>7 DEF AllEnded, T, n

(* Before the last unit has ended nothing starts, and what a lexeme gives  *)
(* is the block it ends.                                                   *)
LEMMA InUnit ==
  ASSUME NEW t \in Seq(Lexemes), NEW x \in Lexemes, NEW s, Unended(t, s)
  PROVE  /\ s \in Starts(Append(t, x)) /\ s \in 1 .. Len(t)
         /\ \A e \in 1 .. Len(t) : ~Unit(Append(t, x), s, e)
         /\ TokenAt(Append(t, x), Len(t) + 1) = BlockEnding(Append(t, x), Len(t) + 1)
         /\ DocDue(Append(t, x), s) = DocDue(t, s) /\ Append(t, x)[s] = t[s]
<1> DEFINE T == Append(t, x)
           n == Len(t)
<1>1. T \in Seq(Lexemes) /\ n \in Nat /\ Len(T) = n + 1 /\ Agree(t, T, n)
  BY Continued
<1>2. s \in Starts(t) /\ \A e \in 1 .. n : ~Unit(t, s, e)
  BY DEF Unended
<1>3. Starts(t) \subseteq 1 .. n /\ s \in 1 .. n /\ s \in Starts(T)
  BY <1>2, StartsKept
<1>4. \A e \in 1 .. n : ~Unit(T, s, e)
  BY <1>1, <1>2, <1>3, UnitKept
<1>5. DocDue(T, s) = DocDue(t, s) /\ T[s] = t[s]
  <2>1. s \in 1 .. n + 1
    BY <1>1, <1>3
  <2> QED BY <1>1, <1>3, <2>1, DocDueKept DEF Agree
<1>6. ~AllEnded(t)
  <2> SUFFICES ASSUME AllEnded(t) PROVE FALSE
    OBVIOUS
  <2>1. t # << >>
    BY <1>3
  <2>2. PICK k \in Starts(t) : Unit(t, k, n)
    BY <2>1 DEF AllEnded
  <2>3. k <= s
    <3>1. \A e \in 1 .. (Len(t) - 1) : e \in 1 .. n
      BY <1>1
    <3> QED BY <1>2, <3>1, LastStart
  <2>4. k # s
    <3>1. n \in 1 .. n
      BY <1>3
    <3> QED BY <1>2, <2>2, <3>1
  <2>5. k < s
    BY <1>3, <2>3, <2>4
  <2>6. n < s
    BY <1>1, <1>2, <2>2, <2>5, EndedBefore
  <2> QED BY <1>1, <1>3, <2>6
<1>7. n + 1 \notin Starts(T)
  BY <1>6, NextStart
<1>8. TokenAt(T, n + 1) = BlockEnding(T, n + 1)
  BY <1>7 DEF TokenAt
<1> QED BY <1>3, <1>4, <1>5, <1>8

(* What the last lexeme of a text gives, if it does not start a unit.      *)
LEMMA LastBlock ==
  ASSUME NEW t \in Seq(Lexemes), NEW s \in Starts(t), \A e \in 1 .. (Len(t) - 1) : ~Unit(t, s, e)
  PROVE  /\ (t[s] # "native" \/ \A b \in 1 .. Len(t) : ~Block(t, s, b, Len(t))) =>
              BlockEnding(t, Len(t)) = Nothing
         /\ \A b \in 1 .. Len(t) : t[s] = "native" /\ Block(t, s, b, Len(t)) =>
              BlockEnding(t, Len(t)) = <<Token("block", Nothing, SubSeq(t, b + 1, Len(t) - 1))>>
<1> DEFINE n == Len(t)
           E == EndingAt(t, n)
<1>1. n \in Nat /\ Starts(t) \subseteq 1 .. n
  BY TakenApart
<1>2. ASSUME NEW k \in 1 .. n, NEW b \in 1 .. n,
             t[k] = "native", Block(t, k, b, n), k \in Starts(t)
      PROVE  k = s
  <2>1. k < b
    <3>1. FirstBrace(t, k, b)
      BY <1>2 DEF Block
    <3> QED BY <3>1, Zenon DEF FirstBrace
  <2>2. Unit(t, k, n)
    <3>1. b \in k .. n
      BY <1>1, <2>1
    <3> QED BY <1>2, <3>1 DEF Unit
  <2>3. k <= s
    BY <1>2, LastStart
  <2>4. ~(k < s)
    <3> SUFFICES ASSUME k < s PROVE FALSE
      OBVIOUS
    <3>1. n < s
      BY <1>1, <1>2, <2>2, EndedBefore
    <3> QED BY <1>1, <3>1
  <2> QED BY <1>1, <2>3, <2>4
<1>3. BlockEnding(t, n) = OneOf({Token("block", Nothing, SubSeq(t, p[2] + 1, n - 1)) : p \in E})
  BY Zenon DEF BlockEnding, EndingAt
<1>4. E = {q \in (1 .. n) \X (1 .. n) : /\ t[q[1]] = "native" /\ Block(t, q[1], q[2], n)
                                        /\ q[1] \in Starts(t)}
  BY Zenon DEF EndingAt
<1> HIDE DEF E, n
<1>5. ASSUME t[s] # "native" \/ \A b \in 1 .. n : ~Block(t, s, b, n)
      PROVE  BlockEnding(t, n) = Nothing
  <2>1. E = {}
    BY <1>2, <1>4, <1>5
  <2>2. {Token("block", Nothing, SubSeq(t, p[2] + 1, n - 1)) : p \in E} = {}
    BY <2>1
  <2> QED BY <1>3, <2>2, One
<1>6. ASSUME NEW b \in 1 .. n, t[s] = "native", Block(t, s, b, n)
      PROVE  BlockEnding(t, n) = <<Token("block", Nothing, SubSeq(t, b + 1, n - 1))>>
  <2>1. ASSUME NEW c \in 1 .. n, Block(t, s, c, n) PROVE c = b
    <3>1. s \in Nat /\ n \in Nat /\ b \in Nat /\ c \in Nat
      BY <1>1
    <3>2. FirstBrace(t, s, b) /\ FirstBrace(t, s, c)
      BY <1>6, <2>1, Zenon DEF Block
    <3> QED BY <3>1, <3>2, EndsOnce
  <2>2. \A p \in E : p = <<s, b>>
    BY <1>2, <1>4, <2>1
  <2>3. <<s, b>> \in E
    BY <1>1, <1>4, <1>6
  <2>4. E = {<<s, b>>}
    BY <2>2, <2>3
  <2>5. {Token("block", Nothing, SubSeq(t, p[2] + 1, n - 1)) : p \in E} =
          {Token("block", Nothing, SubSeq(t, b + 1, n - 1))}
    BY <2>4
  <2> QED BY <1>3, <2>5, One
<1> QED BY <1>5, <1>6 DEF n

(* The comment that waits behind the last unit.                            *)
LEMMA DueAfter ==
  ASSUME NEW t \in Seq(Lexemes), NEW s \in Starts(t), Unit(t, s, Len(t))
  PROVE  /\ t[s] \in Words => DocDue(t, Len(t) + 1) = Nothing
         /\ t[s] = "doc" => DocDue(t, Len(t) + 1) = <<SubSeq(t, s + 1, Len(t) - 1)>>
         /\ t[s] \notin Words \union {"doc"} => DocDue(t, Len(t) + 1) = DocDue(t, s)
<1> DEFINE n == Len(t)
<1>1. n \in Nat /\ Starts(t) \subseteq 1 .. n /\ s \in 1 .. n /\ n + 1 \in Nat /\ (n + 1) - 1 = n
  BY TakenApart
<1>2. \A e \in 1 .. (n - 1) : ~Unit(t, s, e)
  <2> SUFFICES ASSUME NEW e \in 1 .. (n - 1), Unit(t, s, e) PROVE FALSE
    OBVIOUS
  <2>1. s \in Nat /\ n \in Nat
    BY <1>1
  <2> HIDE DEF n
  <2>2. e \in Nat /\ e # n
    BY <2>1
  <2>3. Unit(t, s, n)
    BY DEF n
  <2> QED BY <2>1, <2>2, <2>3, UnitOnce
<1>3. \A w \in Starts(t) : w <= s
  BY <1>2, LastStart
<1>4. \A i : DocDue(t, i) = OneOf({SubSeq(t, p[1] + 1, p[2] - 1) : p \in DueAt(t, i)})
  BY Zenon DEF DocDue, DueAt
<1> HIDE DEF n
<1>5. DueAt(t, n + 1) = {q \in (1 .. n) \X (1 .. n) : Waits(t, q[1], q[2], n + 1)}
  BY <1>1 DEF DueAt
<1>6. ASSUME t[s] \in Words \union {"doc"}, NEW p \in DueAt(t, n + 1)
      PROVE  p[1] = s /\ t[s] = "doc" /\ Comment(t, s, p[2])
  <2>1. p[1] \in 1 .. n /\ Waits(t, p[1], p[2], n + 1)
    BY <1>5
  <2>2. /\ t[p[1]] = "doc" /\ Comment(t, p[1], p[2]) /\ p[1] \in Starts(t)
        /\ p[1] < s /\ s < n + 1 => t[s] \notin Words \union {"doc"}
    BY <2>1 DEF Waits
  <2>3. p[1] <= s /\ s < n + 1
    BY <1>1, <1>3, <2>2
  <2>4. p[1] = s
    BY <1>1, <1>6, <2>1, <2>2, <2>3
  <2> QED BY <2>2, <2>4
<1>7. ASSUME t[s] \in Words PROVE DocDue(t, n + 1) = Nothing
  <2>1. t[s] # "doc"
    BY <1>7, WordsAssumption DEF Marks
  <2>2. DueAt(t, n + 1) = {}
    BY <1>6, <1>7, <2>1
  <2>3. {SubSeq(t, p[1] + 1, p[2] - 1) : p \in DueAt(t, n + 1)} = {}
    BY <2>2
  <2> QED BY <1>4, <2>3, One
<1>8. ASSUME t[s] = "doc" PROVE DocDue(t, n + 1) = <<SubSeq(t, s + 1, n - 1)>>
  <2>1. Comment(t, s, n)
    BY <1>8 DEF Unit, n
  <2>2. ASSUME NEW p \in DueAt(t, n + 1) PROVE p = <<s, n>>
    <3>1. p \in (1 .. n) \X (1 .. n) /\ p[1] = s /\ Comment(t, s, p[2])
      BY <1>5, <1>6, <1>8
    <3>2. p[2] = n
      <4>1. p[2] \in Nat /\ s \in Nat
        BY <1>1, <3>1
      <4> QED BY <1>1, <2>1, <3>1, <4>1, EndsOnce
    <3> QED BY <3>1, <3>2
  <2>3. <<s, n>> \in DueAt(t, n + 1)
    <3>1. \A w \in Starts(t) : ~(s < w)
      BY <1>1, <1>3
    <3>2. Waits(t, s, n, n + 1)
      BY <1>8, <2>1, <3>1 DEF Waits
    <3>3. n \in 1 .. n
      BY <1>1
    <3> QED BY <1>1, <1>5, <3>2, <3>3
  <2>4. {SubSeq(t, p[1] + 1, p[2] - 1) : p \in DueAt(t, n + 1)} = {SubSeq(t, s + 1, n - 1)}
    <3>1. \A p \in DueAt(t, n + 1) : p[1] = s /\ p[2] = n
      BY <2>2
    <3>2. \A p \in DueAt(t, n + 1) :
            SubSeq(t, p[1] + 1, p[2] - 1) = SubSeq(t, s + 1, n - 1)
      BY <3>1
    <3> QED BY <2>3, <3>2
  <2> QED BY <1>4, <2>4, One
<1>9. ASSUME t[s] \notin Words \union {"doc"} PROVE DocDue(t, n + 1) = DocDue(t, s)
  <2>1. ASSUME NEW p \in DueAt(t, n + 1) PROVE p \in DueAt(t, s)
    <3>1. p \in (1 .. n) \X (1 .. n) /\ Waits(t, p[1], p[2], n + 1)
      BY <1>5
    <3>2. /\ t[p[1]] = "doc" /\ Comment(t, p[1], p[2]) /\ p[1] \in Starts(t)
          /\ \A w \in Starts(t) : p[1] < w /\ w < n + 1 => t[w] \notin Words \union {"doc"}
      BY <3>1 DEF Waits
    <3>3. p[1] < s
      <4>1. p[1] # s /\ p[1] <= s
        BY <1>3, <1>9, <3>2
      <4> QED BY <1>1, <3>1, <4>1
    <3>4. p[2] < s
      <4>1. Unit(t, p[1], p[2])
        BY <3>2 DEF Unit
      <4>2. p[2] \in Nat
        BY <3>1
      <4> QED BY <3>2, <3>3, <4>1, <4>2, EndedBefore
    <3>5. \A w \in Starts(t) : p[1] < w /\ w < s => t[w] \notin Words \union {"doc"}
      <4>1. \A w \in Starts(t) : w < s => w < n + 1
        BY <1>1
      <4> QED BY <3>2, <4>1
    <3>6. Waits(t, p[1], p[2], s)
      BY <3>2, <3>5 DEF Waits
    <3>7. p \in (1 .. (s - 1)) \X (1 .. (s - 1))
      BY <1>1, <3>1, <3>3, <3>4
    <3> QED BY <3>6, <3>7 DEF DueAt
  <2>2. ASSUME NEW p \in DueAt(t, s) PROVE p \in DueAt(t, n + 1)
    <3>1. p \in (1 .. (s - 1)) \X (1 .. (s - 1)) /\ Waits(t, p[1], p[2], s)
      BY DEF DueAt
    <3>2. /\ t[p[1]] = "doc" /\ Comment(t, p[1], p[2]) /\ p[1] \in Starts(t)
          /\ \A w \in Starts(t) : p[1] < w /\ w < s => t[w] \notin Words \union {"doc"}
      BY <3>1 DEF Waits
    <3>3. \A w \in Starts(t) : w = s \/ w < s
      BY <1>1, <1>3
    <3>4. \A w \in Starts(t) : p[1] < w /\ w < n + 1 => t[w] \notin Words \union {"doc"}
      BY <1>9, <3>2, <3>3
    <3>5. Waits(t, p[1], p[2], n + 1)
      BY <3>2, <3>4 DEF Waits
    <3>6. p \in (1 .. n) \X (1 .. n)
      BY <1>1, <3>1
    <3> QED BY <1>5, <3>5, <3>6
  <2>3. DueAt(t, n + 1) = DueAt(t, s)
    BY <2>1, <2>2
  <2>4. /\ DocDue(t, n + 1) = OneOf({SubSeq(t, p[1] + 1, p[2] - 1) : p \in DueAt(t, n + 1)})
        /\ DocDue(t, s) = OneOf({SubSeq(t, p[1] + 1, p[2] - 1) : p \in DueAt(t, s)})
    BY <1>4
  <2> QED BY <2>3, <2>4
<1> QED BY <1>7, <1>8, <1>9 DEF n

-----------------------------------------------------------------------------
(* The scanner has given what is written up to where it is, and knows of   *)
(* the unit it is in what it needs to end it.                              *)
LeftBrace  == "{"
RightBrace == "}"

InBraces(s, b) ==
  /\ FirstBrace(text, s, b) /\ chars = SubSeq(text, b + 1, Len(text))
  /\ Count(text, LeftBrace, b, Len(text)) = Count(text, RightBrace, b, Len(text)) + braces
  /\ \A k \in b .. Len(text) : ~Balanced(text, b, k)

Pending(s) ==
  /\ Unended(text, s) /\ docCmnt = DocDue(text, s)
  /\ text[s] = CASE condition = "DOCCMNT" -> "doc" [] condition = "CMNT" -> "open" [] OTHER -> "native"
  /\ condition = "DOCCMNT" => chars = SubSeq(text, s + 1, Len(text))
  /\ condition \in {"DOCCMNT", "CMNT"} => \A k \in (s + 1) .. Len(text) : text[k] # "close"
  /\ condition = "NATIVE" => \A k \in (s + 1) .. Len(text) : text[k] # LeftBrace
  /\ condition = "NATIVE_BLCK" => \E b \in (s + 1) .. Len(text) : InBraces(s, b)

SInv ==
  /\ tokens = TokensOf(text)
  /\ condition = "INITIAL" => AllEnded(text) /\ docCmnt = DocDue(text, Len(text) + 1)
  /\ condition # "INITIAL" => \E s \in Starts(text) : Pending(s)

(* a lexeme is read *)
Reads(x) ==
  /\ LexerTypeOK /\ text \in Seq(Lexemes) /\ x \in Lexemes
  /\ text' = Append(text, x) /\ tokens' = tokens \o token'

LEMMA ReadsOn ==
  ASSUME NEW x, Reads(x)
  PROVE  /\ text' \in Seq(Lexemes) /\ x \in Lexemes /\ Len(text) \in Nat /\ Len(text') = Len(text) + 1
         /\ Agree(text, text', Len(text)) /\ text'[Len(text) + 1] = x
         /\ \A a \in 1 .. Len(text) + 1 :
              SubSeq(text', a, Len(text) + 1) = Append(SubSeq(text, a, Len(text)), x)
         /\ \A a \in 1 .. Len(text) + 1 : \A b \in 0 .. Len(text) :
              SubSeq(text', a, b) = SubSeq(text, a, b)
         /\ TokensOf(text') = TokensOf(text) \o TokenAt(text', Len(text) + 1)
<1>1. text \in Seq(Lexemes) /\ x \in Lexemes /\ text' = Append(text, x)
  BY DEF Reads
<1>2. TokensOf(Append(text, x)) = TokensOf(text) \o TokenAt(Append(text, x), Len(text) + 1)
  BY <1>1, TokensContinue
<1> QED BY <1>1, <1>2, Continued

(* A unit begins.                                                          *)
LEMMA InitialScans ==
  ASSUME NEW x, Reads(x), SInv, InInitial(x)
  PROVE  SInv'
<1>0. PICK n : n = Len(text)
  OBVIOUS
<1>1. /\ text' \in Seq(Lexemes) /\ n \in Nat /\ Len(text') = n + 1 /\ text'[n + 1] = x
      /\ TokensOf(text') = TokensOf(text) \o TokenAt(text', n + 1) /\ text' # << >>
  BY <1>0, ReadsOn
<1>2. tokens = TokensOf(text) /\ AllEnded(text) /\ docCmnt = DocDue(text, n + 1)
  BY <1>0 DEF SInv, InInitial
<1>3. n + 1 \in Starts(text')
  BY <1>0, <1>2, NextStart DEF Reads
<1>4. DocDue(text', n + 1) = docCmnt
  <2>1. n + 1 \in 1 .. Len(text) + 1
    BY <1>0, <1>1
  <2> QED BY <1>2, <2>1, DocDueKept DEF Reads
<1>5. tokens' = tokens \o token'
  BY DEF Reads
<1>6. TokenAt(text', n + 1) =
        CASE x \in {"doc", "open", "newline"} -> Nothing
          [] x \in Words -> <<Token(x, docCmnt, << >>)>>
          [] OTHER -> <<Token(x, Nothing, << >>)>>
  BY <1>1, <1>3, <1>4 DEF TokenAt
<1>7. Words \intersect {"doc", "open", "newline", "native"} = {}
  BY WordsAssumption DEF Marks
<1>8. ASSUME token' = TokenAt(text', n + 1) PROVE tokens' = TokensOf(text')
  BY <1>1, <1>2, <1>5, <1>8
<1>9. ASSUME x \in {"doc", "open", "native"} PROVE Unended(text', n + 1)
  <2> SUFFICES ASSUME NEW e \in 1 .. n + 1, Unit(text', n + 1, e) PROVE FALSE
    BY <1>1, <1>3 DEF Unended
  <2>1. n + 1 \in Nat /\ e \in Nat
    BY <1>1
  <2>2. e = n + 1
    <3>1. n + 1 <= e
      BY <2>1, UnitOnce
    <3> QED BY <1>1, <3>1
  <2>3. CASE x \in {"doc", "open"}
    BY <1>1, <2>2, <2>3 DEF Unit, Comment
  <2>4. CASE x = "native"
    <3>1. \E b \in (n + 1) .. e : Block(text', n + 1, b, e)
      BY <1>1, <2>4 DEF Unit
    <3>2. PICK b \in (n + 1) .. e : Block(text', n + 1, b, e)
      BY <3>1
    <3>3. b < e
      BY <3>2, Zenon DEF Block
    <3> QED BY <1>1, <2>2, <3>3
  <2> QED BY <1>9, <2>3, <2>4
<1>10. ASSUME x \notin {"doc", "open", "native"}
       PROVE  /\ Unit(text', n + 1, n + 1) /\ AllEnded(text')
              /\ DocDue(text', n + 2) = IF x \in Words THEN Nothing ELSE docCmnt
  <2>1. Unit(text', n + 1, n + 1)
    BY <1>1, <1>10 DEF Unit
  <2>2. AllEnded(text')
    BY <1>1, <1>3, <2>1 DEF AllEnded
  <2>3. Len(text') + 1 = n + 2
    BY <1>1
  <2>4. /\ x \in Words => DocDue(text', n + 2) = Nothing
        /\ x \notin Words \union {"doc"} => DocDue(text', n + 2) = DocDue(text', n + 1)
    BY <1>1, <1>3, <2>1, <2>3, DueAfter
  <2> QED BY <1>4, <1>10, <2>1, <2>2, <2>4
<1>11. ASSUME condition' = "INITIAL", x \notin {"doc", "open", "native"},
              docCmnt' = IF x \in Words THEN Nothing ELSE docCmnt, token' = TokenAt(text', n + 1)
       PROVE  SInv'
  <2>1. Len(text') + 1 = n + 2
    BY <1>1
  <2> QED BY <1>8, <1>10, <1>11, <2>1 DEF SInv
<1>12. \A k \in (n + 2) .. Len(text') : FALSE
  BY <1>1
<1>13. SubSeq(text', n + 2, n + 1) = << >>
  BY <1>1, SubSeqEmpty
<1>14. CASE x = "doc"
  <2>1. condition' = "DOCCMNT" /\ chars' = << >> /\ token' = Nothing /\ docCmnt' = docCmnt
    BY <1>7, <1>14 DEF InInitial, OpenDoc
  <2>2. TokenAt(text', n + 1) = Nothing
    BY <1>6, <1>7, <1>14
  <2>3. Pending(n + 1)'
    <3>1. (n + 1) + 1 = n + 2
      BY <1>1
    <3> QED BY <1>1, <1>4, <1>9, <1>12, <1>13, <1>14, <2>1, <3>1 DEF Pending
  <2> QED BY <1>3, <1>8, <2>1, <2>2, <2>3 DEF SInv
<1>15. CASE x = "open"
  <2>1. condition' = "CMNT" /\ token' = Nothing /\ docCmnt' = docCmnt
    BY <1>7, <1>15 DEF InInitial, OpenComment
  <2>2. TokenAt(text', n + 1) = Nothing
    BY <1>6, <1>7, <1>15
  <2>3. Pending(n + 1)'
    <3>1. (n + 1) + 1 = n + 2
      BY <1>1
    <3> QED BY <1>1, <1>4, <1>9, <1>12, <1>15, <2>1, <3>1 DEF Pending
  <2> QED BY <1>3, <1>8, <2>1, <2>2, <2>3 DEF SInv
<1>16. CASE x = "native"
  <2>1. condition' = "NATIVE" /\ token' = <<Token("native", Nothing, << >>)>> /\ docCmnt' = docCmnt
    BY <1>7, <1>16 DEF InInitial, Native
  <2>2. TokenAt(text', n + 1) = <<Token("native", Nothing, << >>)>>
    BY <1>6, <1>7, <1>16
  <2>3. Pending(n + 1)'
    <3>1. (n + 1) + 1 = n + 2
      BY <1>1
    <3> QED BY <1>1, <1>4, <1>9, <1>12, <1>16, <2>1, <3>1 DEF Pending
  <2> QED BY <1>3, <1>8, <2>1, <2>2, <2>3 DEF SInv
<1>17. CASE x \in Words
  <2>1. x \notin {"doc", "open", "native", "newline"}
    BY <1>7, <1>17
  <2>2. Word(x) /\ condition = "INITIAL"
    BY <1>17, <2>1 DEF InInitial
  <2>3. condition' = "INITIAL" /\ token' = <<Token(x, docCmnt, << >>)>> /\ docCmnt' = Nothing
    BY <2>2 DEF Word
  <2>4. TokenAt(text', n + 1) = <<Token(x, docCmnt, << >>)>>
    BY <1>6, <1>17, <2>1
  <2> QED BY <1>11, <1>17, <2>1, <2>3, <2>4
<1>18. CASE x \notin {"doc", "open", "native"} \union Words
  <2>1. condition = "INITIAL" /\ Punctuation(x)
    BY <1>18 DEF InInitial
  <2>2. condition' = "INITIAL" /\ docCmnt' = docCmnt
        /\ token' = IF x = "newline" THEN Nothing ELSE <<Token(x, Nothing, << >>)>>
    BY <2>1 DEF Punctuation
  <2>3. TokenAt(text', n + 1) = IF x = "newline" THEN Nothing ELSE <<Token(x, Nothing, << >>)>>
    BY <1>6, <1>18
  <2> QED BY <1>11, <1>18, <2>2, <2>3
<1> QED BY <1>14, <1>15, <1>16, <1>17, <1>18

(* A unit goes on, or ends.                                                *)
LEMMA UnitScans ==
  ASSUME NEW x, Reads(x), tokens = TokensOf(text), NEW s, Pending(s),
         NEW n, n = Len(text)
  PROVE  /\ s \in Starts(text') /\ s \in 1 .. n /\ n \in Nat /\ Len(text') = n + 1
         /\ DocDue(text', s) = docCmnt /\ text'[s] = text[s]
         /\ text'[n + 1] = x /\ \A k \in 1 .. n : text'[k] = text[k]
         /\ TokensOf(text') = tokens \o BlockEnding(text', n + 1)
         /\ Unit(text', s, n + 1) => AllEnded(text')
         /\ ~Unit(text', s, n + 1) => Unended(text', s)
         /\ (text[s] # "native" \/ \A b \in 1 .. n + 1 : ~Block(text', s, b, n + 1)) =>
              BlockEnding(text', n + 1) = Nothing
         /\ \A b \in 1 .. n + 1 : text[s] = "native" /\ Block(text', s, b, n + 1) =>
              BlockEnding(text', n + 1) = <<Token("block", Nothing, SubSeq(text', b + 1, n))>>
<1>1. /\ text' \in Seq(Lexemes) /\ n \in Nat /\ Len(text') = n + 1 /\ text'[n + 1] = x
      /\ TokensOf(text') = tokens \o TokenAt(text', n + 1) /\ text' # << >>
      /\ \A k \in 1 .. n : text'[k] = text[k]
  BY ReadsOn DEF Agree
<1>2. Unended(text, s) /\ docCmnt = DocDue(text, s)
  BY DEF Pending
<1>3. /\ s \in Starts(text') /\ s \in 1 .. n
      /\ \A e \in 1 .. n : ~Unit(text', s, e)
      /\ TokenAt(text', n + 1) = BlockEnding(text', n + 1)
      /\ DocDue(text', s) = DocDue(text, s) /\ text'[s] = text[s]
  BY <1>2, InUnit DEF Reads
<1>4. Unit(text', s, n + 1) => AllEnded(text')
  BY <1>1, <1>3 DEF AllEnded
<1>5. ASSUME ~Unit(text', s, n + 1) PROVE Unended(text', s)
  <2>1. \A e \in 1 .. n + 1 : e = n + 1 \/ e \in 1 .. n
    BY <1>1
  <2> QED BY <1>1, <1>3, <1>5, <2>1 DEF Unended
<1>6. \A e \in 1 .. (Len(text') - 1) : ~Unit(text', s, e)
  <2>1. Len(text') - 1 = n
    BY <1>1
  <2> QED BY <1>3, <2>1
<1>7. /\ (text[s] # "native" \/ \A b \in 1 .. n + 1 : ~Block(text', s, b, n + 1)) =>
           BlockEnding(text', n + 1) = Nothing
      /\ \A b \in 1 .. n + 1 : text[s] = "native" /\ Block(text', s, b, n + 1) =>
           BlockEnding(text', n + 1) = <<Token("block", Nothing, SubSeq(text', b + 1, n))>>
  <2>1. Len(text') = n + 1 /\ Len(text') - 1 = n /\ text'[s] = text[s]
    BY <1>1, <1>3
  <2> QED BY <1>1, <1>3, <1>6, <2>1, LastBlock
<1> QED BY <1>1, <1>2, <1>3, <1>4, <1>5, <1>7

(* what the end of a unit leaves                                           *)
LEMMA UnitEnds ==
  ASSUME NEW x, Reads(x), tokens = TokensOf(text), NEW s, Pending(s), condition' = "INITIAL",
         Unit(text', s, Len(text')), token' = BlockEnding(text', Len(text')),
         docCmnt' = IF text[s] = "doc" THEN <<SubSeq(text', s + 1, Len(text))>> ELSE docCmnt
  PROVE  SInv'
<1> PICK n : n = Len(text)
  OBVIOUS
<1>1. /\ s \in Starts(text') /\ s \in 1 .. n /\ n \in Nat /\ Len(text') = n + 1
      /\ DocDue(text', s) = docCmnt /\ text'[s] = text[s]
      /\ TokensOf(text') = tokens \o BlockEnding(text', n + 1) /\ AllEnded(text')
  BY UnitScans
<1>2. text' \in Seq(Lexemes)
  BY ReadsOn
<1>3. tokens' = TokensOf(text')
  BY <1>1 DEF Reads
<1>4. text[s] \in {"doc", "open", "native"}
  BY DEF Pending
<1>5. text[s] \notin Words
  BY <1>4, WordsAssumption DEF Marks
<1>6. /\ text'[s] = "doc" => DocDue(text', Len(text') + 1) = <<SubSeq(text', s + 1, Len(text') - 1)>>
      /\ text'[s] \notin Words \union {"doc"} => DocDue(text', Len(text') + 1) = DocDue(text', s)
  BY <1>1, <1>2, DueAfter
<1>7. Len(text') - 1 = Len(text)
  BY <1>1
<1>8. docCmnt' = DocDue(text', Len(text') + 1)
  BY <1>1, <1>5, <1>6, <1>7
<1> QED BY <1>1, <1>3, <1>8 DEF SInv

LEMMA CommentScans ==
  ASSUME NEW x, Reads(x), SInv, InDocComment(x) \/ InComment(x)
  PROVE  SInv'
<1> PICK n : n = Len(text)
  OBVIOUS
<1>1. condition \in {"DOCCMNT", "CMNT"} /\ tokens = TokensOf(text) /\ token' = Nothing
  BY DEF SInv, InDocComment, InComment
<1>2. PICK s : Pending(s)
  BY <1>1 DEF SInv
<1>3. /\ text[s] = IF condition = "DOCCMNT" THEN "doc" ELSE "open"
      /\ condition = "DOCCMNT" => chars = SubSeq(text, s + 1, n)
      /\ \A k \in (s + 1) .. n : text[k] # "close"
  BY <1>1, <1>2 DEF Pending
<1>4. /\ s \in Starts(text') /\ s \in 1 .. n /\ n \in Nat /\ Len(text') = n + 1
      /\ DocDue(text', s) = docCmnt /\ text'[s] = text[s]
      /\ text'[n + 1] = x /\ \A k \in 1 .. n : text'[k] = text[k]
      /\ TokensOf(text') = tokens \o BlockEnding(text', n + 1)
      /\ ~Unit(text', s, n + 1) => Unended(text', s)
      /\ BlockEnding(text', n + 1) = Nothing
  BY <1>1, <1>2, <1>3, UnitScans
<1>5. Unit(text', s, n + 1) <=> x = "close"
  <2>1. \A k \in (s + 1) .. n : k \in 1 .. n
    BY <1>4
  <2>2. \A k \in (s + 1) .. n : text'[k] # "close"
    BY <1>3, <1>4, <2>1
  <2>3. (n + 1) - 1 = n /\ s < n + 1
    BY <1>4
  <2>4. Comment(text', s, n + 1) <=> x = "close"
    BY <1>4, <2>2, <2>3 DEF Comment
  <2> QED BY <1>3, <1>4, <2>4 DEF Unit
<1>6. /\ s + 1 \in 1 .. n + 1 /\ n \in 0 .. n
  BY <1>4
<1>7. /\ SubSeq(text', s + 1, n) = SubSeq(text, s + 1, n)
      /\ SubSeq(text', s + 1, n + 1) = Append(SubSeq(text, s + 1, n), x)
  BY <1>6, ReadsOn
<1>8. CASE x = "close"
  <2>1. condition' = "INITIAL" /\ docCmnt' = IF condition = "DOCCMNT" THEN <<chars>> ELSE docCmnt
    BY <1>8 DEF InDocComment, InComment
  <2>2. docCmnt' = IF text[s] = "doc" THEN <<SubSeq(text', s + 1, n)>> ELSE docCmnt
    BY <1>3, <1>7, <2>1
  <2> QED BY <1>1, <1>2, <1>4, <1>5, <1>8, <2>1, <2>2, UnitEnds
<1>9. CASE x # "close"
  <2>1. condition' = condition /\ docCmnt' = docCmnt
        /\ (condition = "DOCCMNT" => chars' = Append(chars, x))
    BY <1>9 DEF InDocComment, InComment
  <2>2. \A k \in (s + 1) .. Len(text') : text'[k] # "close"
    <3>0. s \in Int /\ n \in Int /\ Len(text') = n + 1
      BY <1>4
    <3>1. \A k \in (s + 1) .. Len(text') : k = n + 1 \/ k \in (s + 1) .. n
      BY <3>0
    <3>2. \A k \in (s + 1) .. n : k \in 1 .. n
      BY <1>4
    <3> QED BY <1>3, <1>4, <1>9, <3>1, <3>2
  <2>3. Unended(text', s)
    BY <1>4, <1>5, <1>9
  <2>4. condition = "DOCCMNT" => chars' = SubSeq(text', s + 1, Len(text'))
    BY <1>3, <1>4, <1>7, <2>1
  <2>5. Pending(s)'
    BY <1>1, <1>3, <1>4, <2>1, <2>2, <2>3, <2>4 DEF Pending
  <2>6. tokens' = TokensOf(text')
    BY <1>1, <1>4 DEF Reads
  <2> QED BY <1>1, <1>4, <2>1, <2>5, <2>6 DEF SInv
<1> QED BY <1>8, <1>9

LEMMA Braces ==
  /\ LeftBrace # RightBrace
  /\ \A t, i, b : FirstBrace(t, i, b) <=>
       i < b /\ t[b] = LeftBrace /\ \A k \in (i + 1) .. (b - 1) : t[k] # LeftBrace
  /\ \A t, b, j : Balanced(t, b, j) <=> Count(t, LeftBrace, b, j) = Count(t, RightBrace, b, j)
<1>1. LeftBrace # RightBrace
  BY Zenon DEF LeftBrace, RightBrace
<1>2. \A t, i, b : FirstBrace(t, i, b) <=>
        i < b /\ t[b] = LeftBrace /\ \A k \in (i + 1) .. (b - 1) : t[k] # LeftBrace
  BY Zenon DEF FirstBrace, LeftBrace
<1>3. \A t, b, j : Balanced(t, b, j) <=> Count(t, LeftBrace, b, j) = Count(t, RightBrace, b, j)
  BY Zenon DEF Balanced, LeftBrace, RightBrace
<1> QED BY <1>1, <1>2, <1>3

LEMMA NativeScans ==
  ASSUME NEW x, Reads(x), SInv, BeforeBlock(x)
  PROVE  SInv'
<1> PICK n : n = Len(text)
  OBVIOUS
<1>1. condition = "NATIVE" /\ tokens = TokensOf(text) /\ token' = Nothing /\ docCmnt' = docCmnt
  BY Zenon DEF SInv, BeforeBlock
<1>2. braces = 0
  BY <1>1 DEF Reads, LexerTypeOK
<1>3. PICK s : Pending(s)
  BY <1>1 DEF SInv
<1>4. text[s] = "native" /\ \A k \in (s + 1) .. n : text[k] # LeftBrace
  BY <1>1, <1>3 DEF Pending
<1>5. /\ s \in Starts(text') /\ s \in 1 .. n /\ n \in Nat /\ Len(text') = n + 1
      /\ DocDue(text', s) = docCmnt /\ text'[s] = text[s]
      /\ text'[n + 1] = x /\ \A k \in 1 .. n : text'[k] = text[k]
      /\ TokensOf(text') = tokens \o BlockEnding(text', n + 1)
      /\ ~Unit(text', s, n + 1) => Unended(text', s)
      /\ (\A b \in 1 .. n + 1 : ~Block(text', s, b, n + 1)) => BlockEnding(text', n + 1) = Nothing
  BY <1>1, <1>3, UnitScans
<1>6. \A k \in (s + 1) .. n : text'[k] # LeftBrace
  <2>1. \A k \in (s + 1) .. n : k \in 1 .. n
    BY <1>5
  <2> QED BY <1>4, <1>5, <2>1
<1>7. \A b \in 1 .. n + 1 : ~Block(text', s, b, n + 1)
  <2> SUFFICES ASSUME NEW b \in 1 .. n + 1, Block(text', s, b, n + 1) PROVE FALSE
    OBVIOUS
  <2>1. FirstBrace(text', s, b) /\ b < n + 1
    BY DEF Block
  <2>2. s < b /\ text'[b] = LeftBrace
    BY <2>1, Braces
  <2>3. b \in (s + 1) .. n
    BY <1>5, <2>1, <2>2
  <2> QED BY <1>6, <2>2, <2>3
<1>8. Unended(text', s) /\ TokensOf(text') = tokens \o Nothing
  <2>1. ~Unit(text', s, n + 1)
    <3>1. \A b \in s .. n + 1 : b \in 1 .. n + 1
      BY <1>5
    <3> QED BY <1>4, <1>5, <1>7, <3>1 DEF Unit
  <2> QED BY <1>5, <1>7, <2>1
<1>9. tokens' = TokensOf(text')
  BY <1>1, <1>8 DEF Reads
<1>10. CASE x # LeftBrace
  <2>1. condition' = condition
    BY <1>10, Zenon DEF BeforeBlock, LeftBrace
  <2>2. \A k \in (s + 1) .. Len(text') : text'[k] # LeftBrace
    <3>1. s \in Int /\ n \in Int /\ Len(text') = n + 1
      BY <1>5
    <3>2. \A k \in (s + 1) .. Len(text') : k = n + 1 \/ k \in (s + 1) .. n
      BY <3>1
    <3> QED BY <1>5, <1>6, <1>10, <3>2
  <2>3. Pending(s)'
    BY <1>1, <1>4, <1>5, <1>8, <2>1, <2>2 DEF Pending
  <2> QED BY <1>1, <1>5, <1>9, <2>1, <2>3 DEF SInv
<1>11. CASE x = LeftBrace
  <2>1. braces' = braces + 1 /\ condition' = "NATIVE_BLCK" /\ chars' = << >>
    BY <1>2, <1>11, Zenon DEF BeforeBlock, LeftBrace
  <2>2. FirstBrace(text', s, n + 1)
    <3>1. s < n + 1 /\ (n + 1) - 1 = n
      BY <1>5
    <3> QED BY <1>5, <1>6, <1>11, <3>1, Braces
  <2>3. Count(text', LeftBrace, n + 1, n + 1) = 1 /\ Count(text', RightBrace, n + 1, n + 1) = 0
    <3>1. n + 1 \in Nat /\ n + 1 # 0 /\ text'[n + 1] = LeftBrace
      BY <1>5, <1>11
    <3> QED BY <3>1, CountFirst, Braces
  <2>4. \A k \in (n + 1) .. (n + 1) : ~Balanced(text', n + 1, k)
    <3>1. \A k \in (n + 1) .. (n + 1) : k = n + 1
      BY <1>5
    <3>2. ~Balanced(text', n + 1, n + 1)
      BY <2>3, Braces
    <3> QED BY <3>1, <3>2
  <2>5. SubSeq(text', (n + 1) + 1, n + 1) = << >>
    BY <1>5, SubSeqEmpty
  <2> PICK m : m = n + 1
    OBVIOUS
  <2>6. InBraces(s, m)'
    BY <1>2, <1>5, <2>1, <2>2, <2>3, <2>4, <2>5 DEF InBraces
  <2>7. m \in (s + 1) .. Len(text')
    BY <1>5
  <2>8. Pending(s)'
    BY <1>1, <1>4, <1>5, <1>8, <2>1, <2>6, <2>7 DEF Pending
  <2> QED BY <1>5, <1>9, <2>1, <2>8 DEF SInv
<1> QED BY <1>10, <1>11

LEMMA BlockScans ==
  ASSUME NEW x, Reads(x), SInv, InBlock(x)
  PROVE  SInv'
<1> PICK n : n = Len(text)
  OBVIOUS
<1>1. condition = "NATIVE_BLCK" /\ tokens = TokensOf(text) /\ docCmnt' = docCmnt
  BY Zenon DEF SInv, InBlock
<1>2. braces \in Nat /\ braces > 0
  BY <1>1 DEF Reads, LexerTypeOK
<1>3. PICK s : Pending(s)
  BY <1>1 DEF SInv
<1>4. text[s] = "native" /\ \E b \in (s + 1) .. n : InBraces(s, b)
  BY <1>1, <1>3 DEF Pending
<1>5. PICK b \in (s + 1) .. n : InBraces(s, b)
  BY <1>4
<1>6. /\ s \in Starts(text') /\ s \in 1 .. n /\ n \in Nat /\ Len(text') = n + 1
      /\ DocDue(text', s) = docCmnt /\ text'[s] = text[s]
      /\ text'[n + 1] = x /\ \A k \in 1 .. n : text'[k] = text[k]
      /\ TokensOf(text') = tokens \o BlockEnding(text', n + 1)
      /\ ~Unit(text', s, n + 1) => Unended(text', s)
      /\ (\A c \in 1 .. n + 1 : ~Block(text', s, c, n + 1)) => BlockEnding(text', n + 1) = Nothing
      /\ \A c \in 1 .. n + 1 : Block(text', s, c, n + 1) =>
           BlockEnding(text', n + 1) = <<Token("block", Nothing, SubSeq(text', c + 1, n))>>
  BY <1>1, <1>3, <1>4, UnitScans
<1>7. b \in 1 .. n /\ b \in Nat /\ b <= n /\ s < b
  BY <1>5, <1>6
<1>8. /\ FirstBrace(text, s, b) /\ chars = SubSeq(text, b + 1, n)
      /\ Count(text, LeftBrace, b, n) = Count(text, RightBrace, b, n) + braces
      /\ \A k \in b .. n : ~Balanced(text, b, k)
  BY <1>5 DEF InBraces
<1>9. Agree(text, text', n)
  BY <1>6 DEF Agree
<1>10. /\ FirstBrace(text', s, b)
       /\ \A y : Count(text', y, b, n) = Count(text, y, b, n)
       /\ \A k \in b .. n : ~Balanced(text', b, k)
  <2>1. FirstBrace(text', s, b)
    BY <1>6, <1>7, <1>8, <1>9, BlockKept
  <2>2. \A y : \A k \in b .. n : Count(text', y, b, k) = Count(text, y, b, k)
    <3>1. \A k \in b .. n : k \in 1 .. n
      BY <1>6, <1>7
    <3> QED BY <1>6, <1>7, <1>9, <3>1, BlockKept
  <2>3. n \in b .. n
    BY <1>6, <1>7
  <2> QED BY <1>8, <2>1, <2>2, <2>3, Braces
<1>11. /\ SubSeq(text', b + 1, n) = chars
       /\ SubSeq(text', b + 1, n + 1) = Append(chars, x)
  <2>1. b + 1 \in 1 .. n + 1 /\ n \in 0 .. n
    BY <1>6, <1>7
  <2> QED BY <1>8, <2>1, ReadsOn
<1>12. /\ Count(text', LeftBrace, b, n + 1) = Count(text', RightBrace, b, n + 1) + braces'
       /\ Count(text', RightBrace, b, n + 1) \in Nat /\ braces' \in Nat
       /\ braces' = 0 <=> (x = RightBrace /\ braces = 1)
  <2> DEFINE l == Count(text', LeftBrace, b, n)
             r == Count(text', RightBrace, b, n)
  <2>1. b <= n + 1
    BY <1>6, <1>7
  <2>2. /\ l \in Nat /\ r \in Nat /\ l = r + braces
    BY <1>6, <1>7, <1>8, <1>10, <2>1, Counts
  <2>3. /\ Count(text', LeftBrace, b, n + 1) = l + (IF x = LeftBrace THEN 1 ELSE 0)
        /\ Count(text', RightBrace, b, n + 1) = r + (IF x = RightBrace THEN 1 ELSE 0)
    <3>1. n \in Nat /\ b \in Nat
      BY <1>6, <1>7
    <3>2. \A y : Count(text', y, b, n + 1) = Count(text', y, b, n) + (IF text'[n + 1] = y THEN 1 ELSE 0)
      <4> TAKE y
      <4> QED BY <2>1, <3>1, Counts
    <3> QED BY <1>6, <3>2
  <2>4. /\ x = LeftBrace => braces' = braces + 1
        /\ x = RightBrace => braces' = braces - 1
        /\ x # LeftBrace /\ x # RightBrace => braces' = braces
    <3>1. x = LeftBrace => braces' = braces + 1
      BY Braces, Zenon DEF InBlock, LeftBrace, RightBrace
    <3>2. x = RightBrace => braces' = braces - 1
      BY Braces, Zenon DEF InBlock, LeftBrace, RightBrace
    <3>3. x # LeftBrace /\ x # RightBrace => braces' = braces
      BY Zenon DEF InBlock, LeftBrace, RightBrace
    <3> QED BY <3>1, <3>2, <3>3
  <2> HIDE DEF l, r
  <2>5. LeftBrace # RightBrace
    BY Braces
  <2>6. CASE x = LeftBrace
    BY <1>2, <2>2, <2>3, <2>4, <2>5, <2>6
  <2>7. CASE x = RightBrace
    BY <1>2, <2>2, <2>3, <2>4, <2>5, <2>7
  <2>8. CASE x # LeftBrace /\ x # RightBrace
    BY <1>2, <2>2, <2>3, <2>4, <2>8
  <2> QED BY <2>6, <2>7, <2>8
<1>13. BlockEnds(x) <=> braces' = 0
  BY <1>12, Zenon DEF BlockEnds, RightBrace
<1>14. Balanced(text', b, n + 1) <=> braces' = 0
  BY <1>12, Braces
<1>15. Block(text', s, b, n + 1) <=> braces' = 0
  <2>1. b < n + 1 /\ (n + 1) - 1 = n
    BY <1>6, <1>7
  <2> QED BY <1>10, <1>14, <2>1 DEF Block
<1>16. CASE braces' = 0
  <2>1. condition' = "INITIAL" /\ token' = <<Token("block", Nothing, chars)>>
    BY <1>13, <1>16, Zenon DEF InBlock
  <2>2. b \in 1 .. n + 1 /\ b \in s .. n + 1
    BY <1>6, <1>7
  <2>3. Unit(text', s, n + 1)
    BY <1>4, <1>6, <1>15, <1>16, <2>2 DEF Unit
  <2>4. token' = BlockEnding(text', n + 1)
    BY <1>6, <1>11, <1>15, <1>16, <2>1, <2>2
  <2> QED BY <1>1, <1>3, <1>4, <1>6, <2>1, <2>3, <2>4, UnitEnds
<1>17. CASE braces' # 0
  <2>1. condition' = condition /\ token' = Nothing /\ chars' = IF x = LeftBrace /\ braces = 0 THEN chars ELSE Append(chars, x)
    BY <1>13, <1>17, Zenon DEF InBlock, LeftBrace
  <2>2. chars' = Append(chars, x)
    BY <1>2, <2>1
  <2>3. \A c \in 1 .. n + 1 : ~Block(text', s, c, n + 1)
    <3> SUFFICES ASSUME NEW c \in 1 .. n + 1, Block(text', s, c, n + 1) PROVE FALSE
      OBVIOUS
    <3>1. FirstBrace(text', s, c)
      BY DEF Block
    <3>2. c = b
      <4>1. c \in Nat /\ b \in Nat /\ s \in Nat
        BY <1>6, <1>7
      <4> QED BY <1>10, <3>1, <4>1, EndsOnce
    <3> QED BY <1>15, <1>17, <3>2
  <2>4. Unended(text', s) /\ TokensOf(text') = tokens \o Nothing
    <3>1. \A c \in s .. n + 1 : c \in 1 .. n + 1
      BY <1>6
    <3>2. ~Unit(text', s, n + 1)
      BY <1>4, <1>6, <2>3, <3>1 DEF Unit
    <3> QED BY <1>6, <2>3, <3>2
  <2>5. \A k \in b .. n + 1 : ~Balanced(text', b, k)
    <3>0. n \in Int /\ b \in Int
      BY <1>6, <1>7
    <3>1. \A k \in b .. n + 1 : k = n + 1 \/ k \in b .. n
      BY <3>0
    <3> QED BY <1>10, <1>14, <1>17, <3>1
  <2>6. InBraces(s, b)'
    BY <1>6, <1>10, <1>11, <1>12, <2>2, <2>5 DEF InBraces
  <2>7. b \in (s + 1) .. Len(text')
    BY <1>5, <1>6
  <2>8. Pending(s)'
    BY <1>1, <1>4, <1>6, <2>1, <2>4, <2>6, <2>7 DEF Pending
  <2>9. tokens' = TokensOf(text')
    BY <2>1, <2>4 DEF Reads
  <2> QED BY <1>1, <1>6, <2>1, <2>8, <2>9 DEF SInv
<1> QED BY <1>16, <1>17

LEMMA ScanStarts == Init => SInv
<1> SUFFICES ASSUME Init PROVE SInv
  OBVIOUS
<1>1. text = << >> /\ tokens = << >> /\ condition = "INITIAL" /\ docCmnt = Nothing
  BY DEF Init, LexerInit
<1>2. text \in Seq(Lexemes) /\ Len(text) = 0
  BY <1>1
<1>3. TokensOf(text) = << >>
  <2>1. TokensOf(text) = GivenOf(text)[0]
    BY <1>2, TakenApart
  <2>2. Gives(text, GivenOf(text), 0)
    BY <1>2, TokensSolved
  <2>3. 0 \in 0 .. 0
    OBVIOUS
  <2> QED BY <2>1, <2>2, <2>3 DEF Gives
<1>4. DocDue(text, 1) = Nothing
  <2>1. DueAt(text, 1) = {}
    <3>1. \A k \in 1 .. (1 - 1) : FALSE
      OBVIOUS
    <3> QED BY <3>1 DEF DueAt
  <2>2. {SubSeq(text, p[1] + 1, p[2] - 1) : p \in DueAt(text, 1)} = {}
    BY <2>1
  <2>3. DocDue(text, 1) = OneOf({SubSeq(text, p[1] + 1, p[2] - 1) : p \in DueAt(text, 1)})
    BY Zenon DEF DocDue, DueAt
  <2> QED BY <2>2, <2>3, One
<1>5. Len(text) + 1 = 1
  BY <1>2
<1> QED BY <1>1, <1>3, <1>4, <1>5 DEF SInv, AllEnded

LEMMA NothingScanned ==
  ASSUME SInv, UNCHANGED <<text, tokens, lexer>>
  PROVE  SInv'
<1>1. /\ text' = text /\ tokens' = tokens /\ condition' = condition /\ braces' = braces
      /\ chars' = chars /\ docCmnt' = docCmnt
  BY DEF lexer
<1>2. \A s, b : InBraces(s, b)' <=> InBraces(s, b)
  BY <1>1 DEF InBraces
<1>3. \A s : Pending(s)' <=> Pending(s)
  BY <1>1, <1>2 DEF Pending
<1> QED BY <1>1, <1>3 DEF SInv

LEMMA LexemeScanned ==
  ASSUME NEW x, Reads(x), SInv, Scan(x)
  PROVE  SInv'
BY InitialScans, CommentScans, NativeScans, BlockScans DEF Scan

LEMMA ScanInvariant == Spec => []SInv
<1>1. ASSUME IInv, SInv, [Next]_vars PROVE SInv'
  <2>1. ASSUME NEW x \in job.lexemes, Read(x) PROVE SInv'
    <3>1. text \in Seq(Lexemes) /\ LexerTypeOK /\ x \in Lexemes
      BY <1>1, JobFacts DEF IInv, Simple, Typed
    <3>2. Scan(x) /\ text' = Append(text, x) /\ tokens' = tokens \o token'
      BY <2>1 DEF Read
    <3> QED BY <1>1, <3>1, <3>2, LexemeScanned DEF Reads
  <2>2. ASSUME TakeFile \/ Finish \/ InitOutput \/ EndOfFile PROVE SInv'
    BY <1>1, <2>2, NothingScanned DEF TakeFile, Finish, InitOutput, EndOfFile, history
  <2>3. ASSUME WritePart \/ BeginSubMachine \/ EndMachine \/ CloseOutput \/ UNCHANGED vars PROVE SInv'
    BY <1>1, <2>3, NothingScanned
       DEF WritePart, BeginSubMachine, EndMachine, CloseOutput, history, vars
  <2> QED BY <1>1, <2>1, <2>2, <2>3 DEF Next
<1> QED BY <1>1, ScanStarts, Invariant, PTL DEF Spec

(* Whatever is written in the inputs, comments reach nobody, native code   *)
(* goes from a brace to the one that closes it, and an identifier is given *)
(* the document comment that was written before it, as it was written.     *)
(* lexer.l:54-217, 440-455                                                 *)
THEOREM AlwaysScannedAsWritten == Spec => []ScannedAsWritten
<1>1. SInv => ScannedAsWritten
  BY DEF SInv, ScannedAsWritten
<1> QED BY <1>1, ScanInvariant, PTL
=============================================================================
