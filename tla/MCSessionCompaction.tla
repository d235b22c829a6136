------------------------ MODULE MCSessionCompaction ------------------------
(***************************************************************************)
(* Conversations of a user, an agent that calls tools, shell commands and  *)
(* metadata; a tool result is larger than other messages.                  *)
(***************************************************************************)
EXTENDS SessionCompaction

MCInputs ==
  {<<"user", 1>>, <<"assistant", 1>>, <<"toolResult", 2>>, <<"bash", 1>>, <<"meta", 0>>}
=============================================================================
