------------------------------ MODULE Indexing ------------------------------
(***************************************************************************)
(* One attempt of DocumentProcessor.process: download the original block   *)
(* by block and verify it against the event, extract its pages, analyze    *)
(* them one after the other, embed the chunks and store the result. The    *)
(* object store, the model providers and the database may fail or answer   *)
(* something else than expected.                                           *)
(*                                                                         *)
(* A file is the sequence of its bytes, the first of which is its          *)
(* signature, and its digest is that sequence. A text is a sequence of     *)
(* characters: each is a mention of an entity, or ".".                     *)
(***************************************************************************)
EXTENDS Integers, Sequences, FiniteSetsExt

CONSTANTS Originals,     \* files that may have been uploaded
          Objects,       \* bytes that the store may hold under the event's key
          Layers,        \* text layers of a PDF page
          Scans,         \* texts that OCR may read from a rendered page
          MaxPages,      \* bound on the pages of a PDF
          OcrMinChars,   \* ocr_min_chars
          NerMaxChars,   \* ner_max_chars
          Column,        \* dimension of the embedding column
          Dimensions     \* dimensions that embedders may have

MediaType(signature) == IF signature = "P" THEN "pdf" ELSE IF signature = "I" THEN "image"
                        ELSE "unsupported"

IndexingAssumption ==
    /\ Originals \subseteq Objects /\ Objects \cup Layers \cup Scans \subseteq Seq(STRING)
    /\ \A bytes \in Originals : bytes # <<>> /\ MediaType(bytes[1]) # "unsupported"
    /\ {MaxPages, OcrMinChars, NerMaxChars} \subseteq Nat /\ Column \in Dimensions

Spellings == {"A", "a", "B"}
\* NFKC, case folding and blanks; the label is part of what a character is.
Normal(c) == IF c = "a" THEN "A" ELSE c

VARIABLES object,   \* what the store holds: bytes, or <<"missing">>
          event,    \* the event's digest, that is the uploaded bytes, and media type
          status,   \* documents.status
          job,      \* the attempt: its step and what it has computed
          stored    \* the document's rows: none, or the result of the attempt

indexingVars == <<object, event, status, job, stored>>

Missing == <<"missing">>
NoRows == [digest |-> <<>>]

IndexingInit ==
    /\ object \in Objects \cup {Missing}
    /\ event \in [bytes: Originals, media: {"pdf", "image"}]
    /\ status = "registered"
    /\ job = [step |-> "mark", bytes |-> <<>>, pages |-> <<>>, languages |-> <<>>,
              remaining |-> NerMaxChars, mentions |-> {}, chunks |-> <<>>, vectors |-> <<>>]
    /\ stored = NoRows

At(step) == job.step = step
Goto(step) == job' = [job EXCEPT !.step = step]
Keep == UNCHANGED <<object, event, status, stored>>

\* mark_status and everything below may raise; the consumer handles it.
Fail == ~At("done") /\ ~At("failed") /\ Goto("failed") /\ Keep

Mark ==
    /\ At("mark")
    /\ status' = "processing"
    /\ Goto("download")
    /\ UNCHANGED <<object, event, stored>>

\* One read of download, of n bytes or fewer; more than the event's size is
\* rejected before it is written.
Read(n) ==
    LET have == Len(job.bytes)
        size == IF have + n < Len(object) THEN have + n ELSE Len(object)
    IN  /\ At("download") /\ object # Missing /\ have < Len(object)
        /\ job' = IF size > Len(event.bytes) THEN [job EXCEPT !.step = "failed"]
                  ELSE [job EXCEPT !.bytes = SubSeq(object, 1, size)]
        /\ Keep

\* size and digest; equal digests are equal bytes.
Intact(bytes) == bytes = event.bytes

\* The end of the object: compare size and digest, then the media type.
Verify ==
    /\ At("download") /\ object # Missing /\ job.bytes = object
    /\ Goto(IF Intact(job.bytes) /\ MediaType(job.bytes[1]) = event.media THEN "extract" ELSE "failed")
    /\ Keep

-----------------------------------------------------------------------------

(* _pdf_page: a text layer that is long enough, or what OCR reads.          *)
PageTexts(layer) == IF Len(layer) >= OcrMinChars THEN {layer} ELSE Scans

\* extract: every page of a PDF, the first frame of an image.
Extract(pages) ==
    /\ At("extract")
    /\ job' = [job EXCEPT !.pages = pages, !.step = "analyze"]
    /\ Keep

PdfPages == UNION {PageTexts(layer) : layer \in Layers}
Extracted ==
    IF MediaType(job.bytes[1]) = "pdf" THEN UNION {[1..n -> PdfPages] : n \in 0..MaxPages}
    ELSE [1..1 -> Scans]

Taken(text, n) == SubSeq(text, 1, IF Len(text) < n THEN Len(text) ELSE n)

\* Mutant: every page has the whole budget.
MutantRemaining(remaining, text) == remaining

\* The characters that named entity recognition may still read.
Remaining(remaining, text) == remaining - Len(Taken(text, remaining))

StartOrd(chunks) == Len(chunks)

\* analyze, one page: the guessed language or "und" below the confidence, the
\* entities of the text within the budget, and chunks of the whole text.
AnalyzePage(language) ==
    LET page == Len(job.languages) + 1
        text == job.pages[page]
        read == Taken(text, job.remaining)
    IN  /\ At("analyze") /\ Len(job.languages) < Len(job.pages)
        /\ \E k \in 0..Len(text) :
               /\ k = 0 <=> text = <<>>
               /\ job' = [job EXCEPT
                      !.languages = Append(@, language),
                      !.remaining = Remaining(@, text),
                      !.mentions = @ \cup {[text |-> read[i], page |-> page, start |-> i] :
                                               i \in {i \in DOMAIN read : read[i] \in Spellings}},
                      !.chunks = @ \o [i \in 1..k |-> [page |-> page, ord |-> StartOrd(@) + i - 1]]]
        /\ Keep

Analyzed ==
    /\ At("analyze") /\ Len(job.languages) = Len(job.pages)
    /\ Goto("embed")
    /\ Keep

\* Embedder.embed_passages: its dimension, and vectors that are finite and not
\* zero, or something embed_document rejects.
Embed(dimension, valid) ==
    /\ At("embed")
    /\ job' = IF valid \/ job.chunks = <<>>
              THEN [job EXCEPT !.vectors = [i \in DOMAIN job.chunks |-> dimension],
                               !.step = "store"]
              ELSE [job EXCEPT !.step = "failed"]
    /\ Keep

-----------------------------------------------------------------------------

Earlier(m, n) == m.page < n.page \/ (m.page = n.page /\ m.start <= n.start)

First(same) == CHOOSE m \in same : \A n \in same : Earlier(m, n)

\* deduplicate: one entity per normalized spelling, where it is first found.
Deduplicate(mentions) ==
    {[first |-> First(same), count |-> Cardinality(same)] :
        same \in {{m \in mentions : Normal(m.text) = key} :
                     key \in {Normal(m.text) : m \in mentions}}}

\* Document.language: that of more than half of the characters.
Language(pages, languages) ==
    LET lengths == [i \in DOMAIN pages |-> Len(pages[i])]
        Votes(code) == SumFunctionOnSet(lengths, {i \in DOMAIN pages : languages[i] = code})
        total == SumFunction(lengths)
        winners == {code \in {"en", "hr"} : 2 * Votes(code) > total}
    IN  IF winners = {} THEN "und" ELSE CHOOSE code \in winners : TRUE

\* prepare_document, upsert_document and _replace in one transaction, which
\* fails when a vector does not fit the column.
Store ==
    /\ At("store")
    /\ \A i \in DOMAIN job.vectors : job.vectors[i] = Column
    /\ stored' = [digest |-> job.bytes, media |-> MediaType(job.bytes[1]), pages |-> job.pages,
                  language |-> Language(job.pages, job.languages), chunks |-> job.chunks,
                  entities |-> Deduplicate(job.mentions)]
    /\ status' = "processed"
    /\ Goto("mark processed")
    /\ UNCHANGED <<object, event>>

MarkProcessed ==
    /\ At("mark processed")
    /\ status' = "processed"
    /\ Goto("done")
    /\ UNCHANGED <<object, event, stored>>

Ended == (At("done") \/ At("failed")) /\ UNCHANGED indexingVars

IndexingNext ==
    \/ Mark \/ Fail \/ Verify \/ Analyzed \/ Store \/ MarkProcessed \/ Ended
    \/ \E n \in 1..2 : Read(n)
    \/ At("extract") /\ \E pages \in Extracted : Extract(pages)
    \/ \E language \in {"en", "hr", "und"} : AnalyzePage(language)
    \/ \E dimension \in Dimensions, valid \in BOOLEAN : Embed(dimension, valid)

IndexingSpec == IndexingInit /\ [][IndexingNext]_indexingVars

-----------------------------------------------------------------------------

CharactersBefore(pages, p) == SumFunctionOnSet([q \in 1..(p - 1) |-> Len(pages[q])], 1..(p - 1))

\* The places of the document's first n characters: page and offset.
Places(pages, n) ==
    UNION {{p} \X {i \in 1..Len(pages[p]) : CharactersBefore(pages, p) + i <= n} :
               p \in 1..Len(pages)}

\* Every mention within the first ner_max_chars counts once, under one entity
\* per name that points to its first occurrence.
EntitiesOfPrefix(rows) ==
    LET places == Places(rows.pages, NerMaxChars)
        Named(key) == {pl \in places : rows.pages[pl[1]][pl[2]] \in Spellings
                                       /\ Normal(rows.pages[pl[1]][pl[2]]) = key}
        keys == {key \in {"A", "B"} : Named(key) # {}}
    IN  /\ Cardinality(rows.entities) = Cardinality(keys)
        /\ \A key \in keys : \E e \in rows.entities :
               /\ Normal(e.first.text) = key /\ e.count = Cardinality(Named(key))
               /\ \A pl \in Named(key) : e.first.page < pl[1]
                                         \/ (e.first.page = pl[1] /\ e.first.start <= pl[2])

\* Ordinals count from 0 without a gap across pages, pages ascend, and every
\* page with text has a chunk, beyond the entity budget too.
ChunksInOrder(rows) ==
    /\ \A i \in DOMAIN rows.chunks : rows.chunks[i].ord = i - 1
    /\ \A i \in 1..(Len(rows.chunks) - 1) : rows.chunks[i].page <= rows.chunks[i + 1].page
    /\ \A p \in DOMAIN rows.pages :
           rows.pages[p] # <<>> => \E i \in DOMAIN rows.chunks : rows.chunks[i].page = p

(* Nothing is stored, and no document called processed, unless its rows are *)
(* those of the very bytes that were uploaded, and of the media type they   *)
(* were announced as, whatever the object store delivers (processing.py,    *)
(* download; pipeline.py, index). The rows are the document's: its chunks   *)
(* in order, and the entities of its beginning, wherever pages break it     *)
(* (structure.py, analyze and deduplicate).                                 *)
StoredIsTheDocument ==
    /\ status = "processed" => stored # NoRows
    /\ stored # NoRows =>
           /\ stored.digest = event.bytes /\ stored.media = event.media
           /\ EntitiesOfPrefix(stored) /\ ChunksInOrder(stored)

=============================================================================
