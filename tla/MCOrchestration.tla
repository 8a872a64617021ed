-------------------------- MODULE MCOrchestration --------------------------
(***************************************************************************)
(* A small instance of Orchestration for TLC.                              *)
(***************************************************************************)
EXTENDS Orchestration

\* A good result, an error, a stale result and one with unknown effects.
MixedReports == {{}, {"error"}, {"stale"}, {"unknown"}}

\* Tasks 1 and 2 share a provider, 2 and 3 an environment.
Providers == <<"p", "p", "q">>
Workspaces == <<"w", "w", "w">>
Environments == <<"e1", "e2", "e2">>

============================================================================
