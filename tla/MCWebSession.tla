---------------------------- MODULE MCWebSession ----------------------------
(* WebSession with an admin and a user the admin may view as, for TLC.      *)
EXTENDS WebSession

CONSTANTS admin, user
Pairs == {<<admin, user>>}
=============================================================================
