------------------------------- MODULE Lexer -------------------------------
(***************************************************************************)
(* The scanner (lexer.l), one lexeme at a time: its start conditions, the  *)
(* buffer in which comments and native blocks are put together, and the    *)
(* document comment that waits for the next identifier.  None of these is  *)
(* set anew when the next file is opened.                                  *)
(*                                                                         *)
(* A lexeme is one of the marks below or a word; lexemes are written apart *)
(* (a comment without a blank in it is scanned as the opening of a         *)
(* document comment).                                                      *)
(***************************************************************************)
EXTENDS SequencesExt

CONSTANT Words  \* the identifiers

(* slash-star-star, slash-star, star-slash, the end of a line, the keyword *)
(* native, and braces.                                                     *)
Marks   == {"doc", "open", "close", "newline", "native", "{", "}"}
Lexemes == Marks \union Words

ASSUME WordsAssumption == Words \intersect Marks = {}

VARIABLES
  condition,  \* the start condition
  braces,     \* brace_cnt
  chars,      \* charData, up to charOffset
  docCmnt,    \* currDocCmnt: none or one comment
  token       \* what the last lexeme gave the parser: none or one token

lexer == <<condition, braces, chars, docCmnt, token>>

(* A token is its lexeme with the document comment it was given and the    *)
(* text of a native block.                                                 *)
Token(x, d, text) == [lexeme |-> x, doc |-> d, text |-> text]
Nothing == << >>

LexerInit ==
  /\ condition = "INITIAL" /\ braces = 0 /\ chars = << >>
  /\ docCmnt = Nothing /\ token = Nothing

(***************************************************************************)
(* INITIAL                                                                 *)
(***************************************************************************)
OpenDocKeepingChars ==
  /\ condition' = "DOCCMNT" /\ token' = Nothing
  /\ UNCHANGED <<braces, chars, docCmnt>>

OpenDoc ==
  /\ condition' = "DOCCMNT" /\ chars' = << >> /\ token' = Nothing
  /\ UNCHANGED <<braces, docCmnt>>

OpenComment ==
  /\ condition' = "CMNT" /\ token' = Nothing
  /\ UNCHANGED <<braces, chars, docCmnt>>

Native ==
  /\ condition' = "NATIVE" /\ token' = <<Token("native", Nothing, << >>)>>
  /\ UNCHANGED <<braces, chars, docCmnt>>

(* An identifier takes the waiting document comment with it. *)
Word(x) ==
  /\ token' = <<Token(x, docCmnt, << >>)>> /\ docCmnt' = Nothing
  /\ UNCHANGED <<condition, braces, chars>>

Punctuation(x) ==
  /\ token' = IF x = "newline" THEN Nothing ELSE <<Token(x, Nothing, << >>)>>
  /\ UNCHANGED <<condition, braces, chars, docCmnt>>

InInitial(x) ==
  /\ condition = "INITIAL"
  /\ CASE x = "doc"      -> OpenDoc
       [] x = "open"     -> OpenComment
       [] x = "native"   -> Native
       [] x \in Words    -> Word(x)
       [] OTHER          -> Punctuation(x)

(***************************************************************************)
(* Comments.  The ends of the lines of a plain comment are added to the    *)
(* buffer, too.                                                            *)
(***************************************************************************)
InDocComment(x) ==
  /\ condition = "DOCCMNT" /\ token' = Nothing
  /\ IF x = "close"
       THEN condition' = "INITIAL" /\ docCmnt' = <<chars>> /\ UNCHANGED chars
       ELSE chars' = Append(chars, x) /\ UNCHANGED <<condition, docCmnt>>
  /\ UNCHANGED braces

InComment(x) ==
  /\ condition = "CMNT" /\ token' = Nothing
  /\ condition' = IF x = "close" THEN "INITIAL" ELSE "CMNT"
  /\ chars' = IF x = "newline" THEN Append(chars, x) ELSE chars
  /\ UNCHANGED <<braces, docCmnt>>

(***************************************************************************)
(* Native code, from the first brace to the one that closes it             *)
(***************************************************************************)
BeforeBlock(x) ==
  /\ condition = "NATIVE" /\ token' = Nothing
  /\ IF x # "{" THEN UNCHANGED <<condition, braces, chars>>
     ELSE /\ braces' = braces + 1
          /\ IF braces = 0 THEN condition' = "NATIVE_BLCK" /\ chars' = << >>
             ELSE chars' = Append(chars, x) /\ UNCHANGED condition
  /\ UNCHANGED docCmnt

BlockEndsAtFirst(x) == x = "}"

BlockEnds(x) == x = "}" /\ braces = 1

InBlock(x) ==
  /\ condition = "NATIVE_BLCK"
  /\ braces' = CASE x = "{" -> braces + 1 [] x = "}" -> braces - 1 [] OTHER -> braces
  /\ IF BlockEnds(x)
       THEN /\ condition' = "INITIAL" /\ token' = <<Token("block", Nothing, chars)>>
            /\ UNCHANGED chars
       ELSE /\ chars' = IF x = "{" /\ braces = 0 THEN chars ELSE Append(chars, x)
            /\ token' = Nothing /\ UNCHANGED condition
  /\ UNCHANGED docCmnt

Scan(x) ==
  InInitial(x) \/ InDocComment(x) \/ InComment(x) \/ BeforeBlock(x) \/ InBlock(x)

LexerTypeOK ==
  /\ condition \in {"INITIAL", "DOCCMNT", "CMNT", "NATIVE", "NATIVE_BLCK"}
  /\ braces \in Nat /\ (braces > 0 <=> condition = "NATIVE_BLCK")
  /\ chars \in Seq(Lexemes)
  /\ docCmnt \in Seq(Seq(Lexemes)) /\ Len(docCmnt) <= 1
=============================================================================
