------------------------------ MODULE Chunker ------------------------------
(***************************************************************************)
(* RecursiveChunker (bat/services/rag/chunking.py): a text is broken at    *)
(* ever finer separators until its pieces fit, and the pieces are packed   *)
(* into chunks that overlap.  A text is a sequence of symbols, and a piece *)
(* names the positions of the symbols it consists of.  A symbol has length *)
(* one, the two characters of a sentence end included.                     *)
(***************************************************************************)
EXTENDS Naturals, FiniteSets, SequencesExt

CONSTANTS Size,      \* chunk_size
          Overlap,   \* chunk_overlap
          MaxLen     \* the bound on the length of a text

ASSUME ChunkerAssumption ==
    /\ Size \in Nat \ {0} /\ Overlap \in 0 .. Size - 1
    /\ MaxLen \in Nat

VARIABLES text,     \* the normalized text
          phase,    \* "given", "packing" or "split"
          pieces,   \* what _merge has yet to pack
          current,  \* the pieces of the chunk in progress
          chunks    \* the chunks so far

chunkerVars == <<text, phase, pieces, current, chunks>>

White == {"paragraph", "space"}
Symbols == {"letter", "paragraph", "stop", "space"}

(* normalize: white space never runs on, nor does a text begin or end in it. *)
Normal(t) == \A i \in DOMAIN t :
                t[i] \in White => i > 1 /\ i < Len(t) /\ t[i - 1] # t[i]

ChunkerInit ==
        /\ text \in {t \in SeqOf(Symbols, MaxLen) : Normal(t)}
        /\ phase = "given"
        /\ pieces = <<>> /\ current = <<>> /\ chunks = <<>>

-----------------------------------------------------------------------------
(* _atomize.                                                               *)

Invented == 0      \* a separator put back where the text has none

Kind(p) == IF p = Invented THEN "stop" ELSE text[p]

(* The parts between the separators; the `head` that white space is not    *)
(* follows each part again, the last one too.                              *)
Parts(piece, head) ==
    LET inside(i) == i \in DOMAIN piece /\ Kind(piece[i]) # head
        first(i) == inside(i) /\ ~inside(i - 1)
        last(i) == Min({j \in i .. Len(piece) : ~inside(j + 1)})
        part(i) == SubSeq(piece, i, last(i))
        candidate(i) ==
            IF head \in White THEN part(i)
            ELSE Append(part(i), IF last(i) < Len(piece) THEN piece[last(i) + 1] ELSE Invented)
    IN FlattenSeq([i \in DOMAIN piece |-> IF first(i) THEN <<candidate(i)>> ELSE <<>>])

Fitting(piece) == Len(piece) <= Size

Refined(ps, head) ==
    FlattenSeq([i \in DOMAIN ps |-> IF Fitting(ps[i]) THEN <<ps[i]>> ELSE Parts(ps[i], head)])

(* By the character, when no separator is left.                            *)
Slice(piece, k) == SubSeq(piece, (k - 1) * Size + 1, Min({k * Size, Len(piece)}))

CutEven(piece) ==      \* mutant: the rest of the last slice is forgotten
    IF Fitting(piece) THEN <<piece>> ELSE [k \in 1 .. Len(piece) \div Size |-> Slice(piece, k)]

Cut(piece) == [k \in 1 .. (Len(piece) + Size - 1) \div Size |-> Slice(piece, k)]

Atomized ==
    LET whole == [i \in DOMAIN text |-> i]
        refined == Refined(Refined(Refined(<<whole>>, "paragraph"), "stop"), "space")
    IN FlattenSeq([i \in DOMAIN refined |-> Cut(refined[i])])

-----------------------------------------------------------------------------
(* split and _merge.                                                       *)

Strip(c) ==
    LET solid == {i \in DOMAIN c : Kind(c[i]) \notin White}
    IN IF solid = {} THEN <<>> ELSE SubSeq(c, Min(solid), Max(solid))

Joined(ps) == FlattenSeq(ps)

Emit(ps) == LET c == Strip(Joined(ps)) IN IF c = <<>> THEN chunks ELSE Append(chunks, c)

Short ==
    /\ phase = "given"
    /\ Len(text) <= Size
    /\ chunks' = IF text = <<>> THEN <<>> ELSE <<[i \in DOMAIN text |-> i]>>
    /\ phase' = "split"
    /\ UNCHANGED <<text, pieces, current>>

Long ==
    /\ phase = "given"
    /\ Len(text) > Size
    /\ pieces' = Atomized
    /\ phase' = "packing"
    /\ UNCHANGED <<text, current, chunks>>

Packed ==
    /\ pieces # <<>>
    /\ current = <<>> \/ Len(Joined(current)) + Len(Head(pieces)) <= Size
    /\ current' = Append(current, Head(pieces))
    /\ pieces' = Tail(pieces)
    /\ UNCHANGED <<text, phase, chunks>>

(* The last pieces that together fit the overlap.                          *)
WholeTail ==
    LET from(k) == SubSeq(current, k, Len(current))
        fits == {k \in 1 .. Len(current) + 1 : Len(Joined(from(k))) <= Overlap}
    IN from(Min(fits))

TailOf(piece) == SubSeq(piece, Len(piece) - Overlap + 1, Len(piece))

CarryWhole(next) ==      \* mutant: only whole pieces are carried over
    IF Len(Joined(WholeTail)) + Len(next) > Size THEN <<>> ELSE WholeTail

Carry(next) ==
    LET carry == IF WholeTail = <<>> /\ Overlap > 0 THEN <<TailOf(Last(current))>> ELSE WholeTail
    IN IF Len(Joined(carry)) + Len(next) > Size THEN <<>> ELSE carry

Full ==
    /\ pieces # <<>>
    /\ current # <<>> /\ Len(Joined(current)) + Len(Head(pieces)) > Size
    /\ chunks' = Emit(current)
    /\ current' = Append(Carry(Head(pieces)), Head(pieces))
    /\ pieces' = Tail(pieces)
    /\ UNCHANGED <<text, phase>>

Finished ==
    /\ phase = "packing" /\ pieces = <<>>
    /\ chunks' = Emit(current)
    /\ phase' = "split"
    /\ UNCHANGED <<text, pieces, current>>

ChunkerNext == Short \/ Long \/ Packed \/ Full \/ Finished

ChunkerSpec == ChunkerInit /\ [][ChunkerNext]_chunkerVars

-----------------------------------------------------------------------------
(* The size bound is the hard guarantee, however long the words are.       *)
SizeBound == \A i \in DOMAIN chunks : Len(chunks[i]) \in 1 .. Size

(* Neighbours share context as far as the size allows: a chunk begins with *)
(* the end of the one before, unless its first piece leaves no room for an *)
(* overlap, or nothing but white space that was stripped is between them.  *)
NeighboursShare ==
    LET whole == Joined(Atomized)
        overlapped(c, d) == \E n \in DOMAIN c : IsPrefix(SubSeq(c, n, Len(c)), d)
        roomless(d) == \E piece \in ToSet(Atomized) :
                          /\ Len(piece) + Overlap > Size
                          /\ Strip(piece) # <<>> /\ IsPrefix(Strip(piece), d)
        apart(c, d) == \E j, l \in DOMAIN whole :
                          /\ whole[j] = Last(c) /\ whole[l] = Head(d) /\ j + 1 < l
                          /\ \A k \in j + 1 .. l - 1 : Kind(whole[k]) \in White
    IN /\ SizeBound
       /\ phase = "split" /\ Overlap > 0 =>
             \A i \in 1 .. Len(chunks) - 1 :
                LET c == chunks[i]
                    d == chunks[i + 1]
                IN overlapped(c, d) \/ roomless(d) \/ apart(c, d)

Letters == {p \in DOMAIN text : text[p] = "letter"}

(* Chunking leaves no word out: the chunks hold every letter, each chunk a *)
(* stretch of them without a gap, in the order of the text.                *)
NoLetterLost ==
    LET held(i) == Letters \cap ToSet(chunks[i])
    IN phase = "split" =>
          /\ Letters = UNION {held(i) : i \in DOMAIN chunks}
          /\ \A i \in DOMAIN chunks : \A j, k \in DOMAIN chunks[i] :
                LET p == chunks[i][j]
                    q == chunks[i][k]
                IN j < k /\ {p, q} \subseteq Letters =>
                      p < q /\ {r \in Letters : p < r /\ r < q} \subseteq held(i)

(* Chunks respect boundaries: letters that stand together in a chunk stand *)
(* together in the text, so no two words are run into one.                 *)
WordsApart ==
    LET letter(p) == Kind(p) = "letter"
    IN \A i \in DOMAIN chunks : \A j \in 2 .. Len(chunks[i]) :
          letter(chunks[i][j - 1]) /\ letter(chunks[i][j]) =>
              chunks[i][j] = chunks[i][j - 1] + 1
=============================================================================
