------------------------------- MODULE People -------------------------------
(***************************************************************************)
(* The table of persons (pombola/core/models.py), which the merges and the *)
(* synchronisation of PersonRecords and the signals of Tasks have in       *)
(* common.                                                                 *)
(***************************************************************************)
CONSTANTS
    Person,         \* people who may have a row, and their slugs
    None            \* NULL

VARIABLE people     \* those who have one
=============================================================================
