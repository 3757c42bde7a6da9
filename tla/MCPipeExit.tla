----------------------------- MODULE MCPipeExit ------------------------------
(* An instance of PipeExit for TLC.                                          *)
EXTENDS PipeExit

CONSTANTS scanner, main

\* An empty line and the beginning of another; a line that is too long; nothing.
MCChunks == {<<"nl", "x">>, <<"x", "x">>, <<>>}
==============================================================================
