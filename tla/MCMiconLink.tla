---------------------------- MODULE MCMiconLink ----------------------------
(* Instance of MiconLink for TLC. *)
EXTENDS MiconLink
=============================================================================
