-------------------------- MODULE MCCommandSession --------------------------
(***************************************************************************)
(* CommandSession with one session of each kind: a command, a persistent   *)
(* shell and a pane of the user.  One of each is enough for a kill, a      *)
(* write or a take-over to meet a session at every point of its life; the  *)
(* proofs of CommandSessionProofs hold for any number of them.             *)
(***************************************************************************)
EXTENDS CommandSession

============================================================================
