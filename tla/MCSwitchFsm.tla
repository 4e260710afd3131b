---------------------------- MODULE MCSwitchFsm ----------------------------
(* SwitchFsm on the hierarchy of MCHierarchy. *)
EXTENDS SwitchFsm, MCHierarchy

(* events a description may handle alike in every state; machine 1's 5     *)
(* goes on with its own 6 or machine 2's 8                                 *)
mcSubPAI   == {5, 10}
=============================================================================
