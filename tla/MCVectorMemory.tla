--------------------------- MODULE MCVectorMemory ---------------------------
(* Two documents, a search and an erasure over two replicas.               *)
EXTENDS VectorMemory

CONSTANTS d1, d2, q1, e1, r1, r2

MCAt == [c \in Calls |-> IF c \in {d2, q1} THEN r2 ELSE r1]
=============================================================================
