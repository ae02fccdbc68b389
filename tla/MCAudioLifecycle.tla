-------------------------- MODULE MCAudioLifecycle --------------------------
(* Values for TLC's runs of AudioLifecycle.                                *)
EXTENDS AudioLifecycle

\* The automations the repository's own lifecycle test installs: a new start
\* from on_idle, a cancellation from on_start.
RestartOnIdle == {<<"on_idle", "start">>, <<"on_start", "stop">>}
=============================================================================
