---------------------------- MODULE MCTableFsm ----------------------------
(* TableFsm on the hierarchy of MCHierarchy. *)
EXTENDS TableFsm, MCHierarchy
=============================================================================
