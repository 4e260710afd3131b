----------------------------- MODULE MCFlatFsm -----------------------------
(***************************************************************************)
(* Programs for machines of three states: "go" has actions, one of which   *)
(* may decline to move, and transitions; "reset" is handled alike in every *)
(* state, "skip" is handled in one state only, and "stray" in none.        *)
(***************************************************************************)
EXTENDS FlatFsm

mcStates == {"idle", "busy", "done"}
mcEvents == {"go", "reset", "skip", "stray"}

Cells(f(_, _)) == [e \in mcEvents |-> [s \in mcStates |-> f(e, s)]]

anAnswer(e, s) ==
  CASE e = "go" /\ s = "idle" -> {"busy", "noTransition"}
    [] e = "go" /\ s = "busy" -> {"busy", "done"}
    [] e = "reset"             -> {"idle"}
    [] OTHER                   -> {}

(* the transition out of "done" is a function with two results *)
aTarget(e, s) ==
  CASE e = "go" /\ s = "busy"   -> {"done"}
    [] e = "go" /\ s = "done"   -> {"idle", "busy"}
    [] e = "skip" /\ s = "idle" -> {"done"}
    [] OTHER                    -> {}

(* the same without the partial row; with plain transitions only           *)
aFullTarget(e, s)  == IF e = "skip" THEN {} ELSE aTarget(e, s)
aPlainTarget(e, s) == IF e = "go" /\ s = "done" THEN {"idle"} ELSE aTarget(e, s)

(* where actions return nothing, "reset" is a transition *)
aVoidTarget(e, s) == IF e = "reset" THEN {"idle"} ELSE aTarget(e, s)

mcWith(g, r, target, pai, tfns, fns) ==
  [gen |-> g, returns |-> r, answer |-> Cells(anAnswer), target |-> target,
   pai |-> pai, tfns |-> tfns, fns |-> fns]

(* programs with entry and exit functions; in that of -te an event has     *)
(* cells everywhere or nowhere, in that of -ts no cell is for all states   *)
mcStatesPrograms ==
  {mcWith("table", "states", Cells(aTarget), {"reset"}, TRUE, TRUE),
   mcWith("switch", "states", Cells(aTarget), {}, TRUE, TRUE),
   mcWith("eventTable", "states", Cells(aFullTarget), {"reset"}, TRUE, TRUE)}
mcVoidPrograms ==
  {mcWith(g, "void", Cells(aVoidTarget), {"reset"}, TRUE, TRUE) :
     g \in {"table", "switch", "eventTable"}}

(* a program of -ts with a cell for all states but without entry or exit   *)
(* functions, and one of -tc without transition functions                  *)
mcPlainPrograms ==
  {mcWith("switch", "states", Cells(aTarget), {"reset"}, TRUE, FALSE)}
mcNumberPrograms ==
  {mcWith("table", "states", Cells(aPlainTarget), {"reset"}, FALSE, TRUE)}

mcPrograms ==
  mcStatesPrograms \union mcVoidPrograms \union mcPlainPrograms \union mcNumberPrograms

(* a program whose run finds a property violated *)
mcPartialPrograms ==
  {mcWith("eventTable", "states", Cells(aTarget), {"reset"}, TRUE, TRUE)}
=============================================================================
