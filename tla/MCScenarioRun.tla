---------------------------- MODULE MCScenarioRun ----------------------------
(* Three requests: one with every hook, one with RETRY and ASSERT only, one   *)
(* with none, so that jumps go both ways and some requests have nothing that  *)
(* looks at the context between the loop and the send.                        *)
EXTENDS ScenarioRun

MCHooks == <<HookNames, {"retry", "assert"}, {}>>
=============================================================================
