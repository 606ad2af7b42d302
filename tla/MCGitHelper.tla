---------------------------- MODULE MCGitHelper ----------------------------
(* GitHelper on two tokens and a timeout of one second.                    *)
EXTENDS GitHelper
=============================================================================
