------------------------ MODULE MCCodeAssistCredentials ------------------------
(* The gateway, a validation by a command, and two more sign-ins. *)
EXTENDS CodeAssistCredentials
CONSTANTS gateway, command
=============================================================================
