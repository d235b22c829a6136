-------------------------- MODULE MCSessionManager --------------------------
(***************************************************************************)
(* SessionManager with an input that saves a session, the assistant        *)
(* message.  Labels, branch summaries and compactions save none, so the    *)
(* sessions without an assistant message are still there.                  *)
(***************************************************************************)
EXTENDS SessionManager

MCInputs == {<<"assistant", 1>>}
=============================================================================
