------------------------------ MODULE Chunker -------------------------------
(***************************************************************************)
(* chunk_page cuts a page into overlapping windows of whole words. It      *)
(* counts a window's tokens by offsets of one tokenization of the page,    *)
(* where the original chunker, kept as reference, tokenizes every candidate*)
(* window again. Both loops run here on the same page, one after the other.*)
(*                                                                         *)
(* A page is a sequence of characters: letters "a" and "b"; "&", which the *)
(* tokenizer expands to two tokens with the same span; the blank " "; and  *)
(* two characters that the tokenizer erases, joining what they separate:   *)
(* "|", which Python counts as whitespace (U+000B), and "~", which \S+     *)
(* keeps (U+0002, U+200B, private use). Positions are offsets and spans    *)
(* half-open, as in the code.                                              *)
(***************************************************************************)
EXTENDS Integers, SequencesExt, FiniteSetsExt

CONSTANTS MaxPage,     \* bound on a page's length
          Caps         \* values of chunk_tokens

ChunkerAssumption == MaxPage \in Nat /\ Caps \subseteq Nat \ {0}

Characters == {"a", "b", "&", " ", "|", "~"}
IsSpace(c) == c \in {" ", "|"}
Erased(c) == c \in {"|", "~"}
Loops == {"fast", "reference"}

VARIABLES page, cap, budget,   \* text, chunk_tokens and chunk_overlap
          ordered,             \* the tokenizer gives the page's tokens in order
          loop                 \* each chunker: units, first, chunks, progress, rounds

chunkerVars == <<page, cap, budget, ordered, loop>>

-----------------------------------------------------------------------------

(* The tokenizer, in the manner of WordPiece: "bb" is one token where a word *)
(* begins, every other letter has tokens of its own, and erased characters  *)
(* are passed over. Encode gives a text's tokens, each with its span and,   *)
(* of those with equal spans, its number; Spans gives their spans.          *)
Before(text, i) == {j \in 1..(i - 1) : ~Erased(text[j])}
After(text, i) == {j \in (i + 1)..Len(text) : ~Erased(text[j])}
Begins(text, i) == Before(text, i) = {} \/ text[Max(Before(text, i))] = " "
Pairs(text, i) ==
    /\ text[i] = "b" /\ Begins(text, i)
    /\ After(text, i) # {} /\ text[Min(After(text, i))] = "b"
TokenStarts(text) ==
    {i \in DOMAIN text : /\ ~IsSpace(text[i]) /\ ~Erased(text[i])
                         /\ Before(text, i) # {} => ~Pairs(text, Max(Before(text, i)))}
TokenEnd(text, i) == IF Pairs(text, i) THEN Min(After(text, i)) ELSE i
Spans(text) == {<<i - 1, TokenEnd(text, i)>> : i \in TokenStarts(text)}
Numbered(text) == {t \in TokenStarts(text) \X {1, 2} : text[t[1]] = "&" \/ t[2] = 1}
Encode(text) == {<<t[1] - 1, TokenEnd(text, t[1]), t[2]>> : t \in Numbered(text)}

InOrder(spans) ==
    [k \in 1..Cardinality(spans) |->
        CHOOSE t \in spans : Cardinality({u \in spans : u[1] <= t[1]}) = k]

Slice(start, end) == SubSeq(page, start + 1, end)
Isolated(start, end) == Cardinality(Encode(Slice(start, end)))

-----------------------------------------------------------------------------

\* Mutant: every page is counted by offsets.
MutantRequiresReference == FALSE

\* _requires_reference: characters the tokenizer would erase.
RequiresReference == \E i \in DOMAIN page : Erased(page[i])

\* The two reasons for chunk_page to hand the page to the reference.
Guarded == RequiresReference \/ ~ordered

\* Mutant: cuts inside words are counted by the page's offsets too.
MutantInsideWord(start, end) == FALSE

\* A cut inside a word still needs isolated tokenization.
InsideWord(start, end) ==
    \/ start > 0 /\ ~IsSpace(page[start])
    \/ end < Len(page) /\ ~IsSpace(page[end + 1])

\* _PageTokens.count: ends up to end, less starts before start, both by binary
\* search, which in lists out of order may miss every token.
OffsetCount(start, end) ==
    IF InsideWord(start, end) THEN Isolated(start, end)
    ELSE IF ~ordered THEN 0
    ELSE Cardinality({t \in Encode(page) : t[2] <= end})
         - Cardinality({t \in Encode(page) : t[1] < start})

Count(m, start, end) ==
    IF m = "fast" /\ ~Guarded THEN OffsetCount(start, end) ELSE Isolated(start, end)

\* The matches of \S+.
Words ==
    {w \in (0..Len(page)) \X (0..Len(page)) :
        /\ w[1] < w[2]
        /\ \A i \in (w[1] + 1)..w[2] : ~IsSpace(page[i])
        /\ w[1] = 0 \/ IsSpace(page[w[1]])
        /\ w[2] = Len(page) \/ IsSpace(page[w[2] + 1])}

\* _split_word: between a word's tokens, each piece as long as it fits. A piece
\* from token c goes up to Reach(w, c); Cuts are the values first takes, each
\* the token after the reach of the one before. Tokens with equal spans go
\* together: with the first of them in a piece, the next one adds no text. They
\* are cut apart only where one of them alone is over the cap, and fails.
WordTokens(w) == InOrder(Spans(Slice(w[1], w[2])))
Piece(w, i, j) == <<w[1] + WordTokens(w)[i][1], w[1] + WordTokens(w)[j][2]>>
Reach(w, i) ==
    Max({j \in i..Len(WordTokens(w)) :
            \A k \in (i + 1)..j : Isolated(Piece(w, i, k)[1], Piece(w, i, k)[2]) <= cap})
Followed(next, n) ==
    LET cut[k \in 0..n] == IF k = 0 THEN 1 ELSE next[cut[k - 1]]
    IN  {cut[k] : k \in 0..n} \cap (1..n)
Cuts(w) ==
    LET n == Len(WordTokens(w))
    IN  Followed([c \in 1..(n + 1) |-> IF c > n THEN c ELSE Reach(w, c) + 1], n)
SplitWord(w) == {Piece(w, c, Reach(w, c)) : c \in Cuts(w)}

\* _units: whole words, except that a word over the cap is split.
Units(m) ==
    LET Whole(w) == w[2] - w[1] <= cap \/ Count(m, w[1], w[2]) <= cap
    IN  InOrder(UNION {IF Whole(w) THEN {w} ELSE SplitWord(w) : w \in Words})

ChunkerInit ==
    /\ page \in UNION {[1..n -> Characters] : n \in 0..MaxPage}
    /\ cap \in Caps
    /\ budget \in 0..(cap - 1)      \* Settings.valid_overlap
    /\ ordered \in BOOLEAN
    /\ loop = [m \in Loops |-> [units |-> <<>>, first |-> 0, chunks |-> <<>>,
                                pc |-> "units", rounds |-> 0]]

Turn(m, step) ==
    /\ loop[m].pc = step
    /\ m = "reference" => loop["fast"].pc \in {"done", "too small"}
    /\ UNCHANGED <<page, cap, budget, ordered>>

\* Before its loop a chunker computes the page's units.
Prepare(m) ==
    LET units == Units(m)
    IN  /\ Turn(m, "units")
        /\ loop' = [loop EXCEPT ![m].units = units,
                                ![m].pc = IF units = <<>> THEN "done" ELSE "run"]
PrepareReference == Prepare("reference")

\* _grow_window: how many units after first fit, up to the first that does not.
GrowWindow(m, units, first) ==
    Max({last \in first..Len(units) :
            \A k \in (first + 1)..last : Count(m, units[first + 1][1], units[k][2]) <= cap})

\* Mutant: the whole window may be repeated.
MutantOverlapStart(m, units, first, last) ==
    Min({next \in first..last :
            \A k \in next..(last - 1) : Count(m, units[k + 1][1], units[last][2]) <= budget})

\* _overlap_start: as many units of the window's end as fit the budget.
OverlapStart(m, units, first, last) ==
    Min({next \in (first + 1)..last :
            \A k \in next..(last - 1) : Count(m, units[k + 1][1], units[last][2]) <= budget})

\* A window within the overlap repeats text only and is dropped.
Extends(chunks, end) == chunks = <<>> \/ end > chunks[Len(chunks)].end

\* One round of a chunker's loop.
Round(m, r) ==
    LET last == GrowWindow(m, r.units, r.first)
        chunk == [start |-> r.units[r.first + 1][1], end |-> r.units[last][2],
                  tokens |-> Count(m, r.units[r.first + 1][1], r.units[last][2])]
    IN  IF last = r.first THEN [r EXCEPT !.pc = "too small"]
        ELSE [units  |-> r.units,
              chunks |-> IF Extends(r.chunks, chunk.end) THEN Append(r.chunks, chunk)
                         ELSE r.chunks,
              first  |-> IF last = Len(r.units) THEN r.first
                         ELSE OverlapStart(m, r.units, r.first, last),
              pc     |-> IF last = Len(r.units) THEN "done" ELSE "run",
              rounds |-> r.rounds + 1]
Window(m) == Turn(m, "run") /\ loop' = [loop EXCEPT ![m] = Round(m, loop[m])]

Chunked ==
    /\ \A m \in Loops : loop[m].pc \in {"done", "too small"}
    /\ UNCHANGED chunkerVars

ChunkPage == Window("fast")
ReferenceChunkPage == Window("reference")

ChunkerNext == Prepare("fast") \/ PrepareReference \/ ChunkPage \/ ReferenceChunkPage \/ Chunked

ChunkerSpec == ChunkerInit /\ [][ChunkerNext]_chunkerVars

-----------------------------------------------------------------------------

\* A character that the tokenizer erases, in a word over the cap.
LostAtCut(i) ==
    Erased(page[i]) /\ \E w \in Words : w[1] < i /\ i <= w[2] /\ Isolated(w[1], w[2]) > cap

(* No text is lost or stored twice for nothing: the windows advance, so a   *)
(* page takes at most one round per unit and ends; each chunk reaches       *)
(* further than the one before; and every character outside whitespace is   *)
(* in a chunk, unless the tokenizer erases it and its word had to be cut.   *)
(* The page fails only for a short word, or a piece of a word, with more    *)
(* tokens than the cap (structure.py, chunk_page, _split_word,              *)
(* _overlap_start).                                                         *)
ChunksCoverPage ==
    \A m \in Loops :
        LET chunks == loop[m].chunks
            units == Range(loop[m].units)
        IN  /\ loop[m].rounds <= Len(loop[m].units)
            /\ \A i \in 1..(Len(chunks) - 1) :
                   chunks[i].start < chunks[i + 1].start /\ chunks[i].end < chunks[i + 1].end
            /\ loop[m].pc = "done" =>
                   \A i \in DOMAIN page : ~IsSpace(page[i]) =>
                       LostAtCut(i) \/ \E c \in Range(chunks) : c.start < i /\ i <= c.end
            /\ loop[m].pc = "too small" =>
                   \E u \in units : u[2] - u[1] <= cap /\ Isolated(u[1], u[2]) > cap

(* What the embedding model will see of a chunk is what was counted, and    *)
(* within the limits: its own tokenization has token_count tokens, at most  *)
(* the cap, and repeats at most the overlap budget of its predecessor.      *)
ChunksWithinLimits ==
    \A m \in Loops :
        LET chunks == loop[m].chunks
        IN  /\ \A c \in Range(chunks) :
                   c.tokens = Isolated(c.start, c.end) /\ c.tokens <= cap
            /\ \A i \in 1..(Len(chunks) - 1) :
                   chunks[i + 1].start < chunks[i].end =>
                       Isolated(chunks[i + 1].start, chunks[i].end) <= budget

(* Counting by offsets changes nothing: the two chunkers agree on every     *)
(* page, on its chunks and on whether it fails (structure.py,               *)
(* _PageTokens.count and _requires_reference).                              *)
MatchesReference ==
    (\A m \in Loops : loop[m].pc \in {"done", "too small"}) =>
        /\ loop["fast"].pc = loop["reference"].pc
        /\ loop["fast"].chunks = loop["reference"].chunks

=============================================================================
