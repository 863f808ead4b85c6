---------------------------- MODULE MCSequential ----------------------------
(* The requests of MCRepository, one at a time. *)
EXTENDS Sequential, MCRepository
=============================================================================
