----------------------------- MODULE MCMappedIO -----------------------------
(* A guest that only clears Cause, like exceptions.s, for TLC. *)
EXTENDS MappedIO

ClearOnly == {{}}
=============================================================================
