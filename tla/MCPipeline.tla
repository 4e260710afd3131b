----------------------------- MODULE MCPipeline -----------------------------
(***************************************************************************)
(* Command lines for OutputPipeline: every writer on one and on two        *)
(* inputs, with files that cannot be opened, the options -o and -M, and    *)
(* the scanner on every short text.                                        *)
(***************************************************************************)
EXTENDS OutputPipeline

(* top has two sub-machines, the first with one of its own; plain has none *)
mcSubMachines ==
  [m \in {"top", "plain", "wrong", "sub", "leaf", "other"} |->
     CASE m = "top"   -> <<"sub", "other">>
       [] m = "wrong" -> <<"other">>
       [] m = "sub"   -> <<"leaf">>
       [] OTHER       -> << >>]

Fsm(b) == [base |-> b, kind |-> "fsm"]
One    == <<Fsm("a")>>
Two    == <<Fsm("a"), Fsm("b")>>

Job(w, inputs) ==
  [writer |-> w, o |-> "", names |-> "no", inputs |-> inputs, unwritable |-> {},
   css |-> TRUE, options |-> TRUE, lexemes |-> Words, length |-> 2]
File(b, s) == [base |-> b, slot |-> s]

(* all writers, good and failing descriptions, one or two machines a file *)
mcPlain ==
  {Job(w, Two) : w \in {"c", "html", "plantuml", "rst", "xref", "statistics"}}
    \union {[Job(w, Two) EXCEPT !.o = "named"] : w \in {"c", "html", "xref"}}
    \union {[Job(w, Two) EXCEPT !.names = n] : w \in {"c", "rst"},
                                             n \in {"sources", "headers", "recipe"}}

(* something is wrong with the inputs, the options or the disk *)
mcWrong ==
  {[Job("c", <<[base |-> "a", kind |-> k], Fsm("b")>>) EXCEPT !.options = ok] :
      k \in {"fsm", "other", "missing"}, ok \in BOOLEAN}
    \union {[Job("html", Two) EXCEPT !.css = FALSE, !.o = o] : o \in {"", "named"}}
    \union {[Job("c", Two) EXCEPT !.unwritable = {File(b, s)}] :
               b \in {"b", "sub", "other"}, s \in {"c", "h", "pubH", "subMachineH", "eventsH"}}
    \union {[Job(w, Two) EXCEPT !.unwritable = {File(b, w)}] :
               w \in {"html", "plantuml", "rst", "xref"}, b \in {"a", "b", "sub"}}

(* every text up to a bound: of comments, of native code, and of all in two files *)
Text(lexemes, inputs, n) ==
  [Job("statistics", inputs) EXCEPT !.lexemes = lexemes \union {"newline", "plain"}, !.length = n]
mcTexts == {Text({"doc", "open", "close"}, One, 6), Text({"native", "{", "}"}, One, 6),
            Text(Marks, Two, 3)}

mcJobs == mcPlain \union mcWrong \union mcTexts
=============================================================================
