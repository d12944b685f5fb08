--------------------------- MODULE MCLlamaClient ---------------------------
(* Small instances of LlamaClient for TLC: one tool-advertising completion *)
(* and one plain one, and a stream, over a queue of depth two or three.    *)
EXTENDS LlamaClient, TLC

CONSTANTS plain, tool, stream

MCCalls == {plain, tool, stream}
MCStreamCalls == {stream}
MCToolCalls == {tool}
=============================================================================
