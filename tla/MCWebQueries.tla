---------------------------- MODULE MCWebQueries ----------------------------
(* WebQueries for TLC; its constants are given in the configuration. *)
EXTENDS WebQueries
=============================================================================
