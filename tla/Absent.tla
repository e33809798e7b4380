------------------------------- MODULE Absent -------------------------------
(***************************************************************************)
(* The missing value of the services: a field that is null or undefined, a *)
(* row that is not there.                                                  *)
(***************************************************************************)
CONSTANT ABSENT
=============================================================================
