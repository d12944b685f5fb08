----------------------------- MODULE MCTurnApi -----------------------------
(* A request that waits and one that streams, on sessions of one principal. *)
EXTENDS TurnApi

CONSTANTS r1, r2, s1, s2

MCMessages == Requests \X {"user", "assistant"}
=============================================================================
