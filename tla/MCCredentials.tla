---------------------------- MODULE MCCredentials ---------------------------
(* Instances of Credentials for TLC.                                          *)
EXTENDS Credentials, TLC

Apps == Permutations(App)
=============================================================================
