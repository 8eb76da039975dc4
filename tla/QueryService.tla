---------------------------- MODULE QueryService ----------------------------
(***************************************************************************)
(* Answering a question while workers replace documents. A question reads  *)
(* names, two rankings and the documents of its hits statement by          *)
(* statement in one repeatable-read transaction, fuses the rankings, has   *)
(* an answer generated after the transaction, and checks it before it is   *)
(* shown. A worker replaces a document's row, chunks and entities          *)
(* statement by statement in a transaction that may roll back.             *)
(*                                                                         *)
(* A text is the set of its content words, an answer the empty sequence    *)
(* (blank) or the sequence of one text. Scores are integers: reciprocal    *)
(* ranks as multiples of a common unit fraction.                           *)
(***************************************************************************)
EXTENDS Integers, Sequences, FiniteSets, Functions

CONSTANTS Docs,        \* document ids, naturals in their order
          Owner,       \* document -> tenant
          Words,       \* content words
          Corpus,      \* document -> versions: [chunks, entities]; registered is version 0
          Questions,   \* sets of content words
          Answers,     \* texts a hosted model may answer with
          RrfK,        \* rrf_k
          TopKMax,     \* query_top_k_max
          Denominator, \* a common denominator of the reciprocal ranks
          Threshold    \* abstain_threshold, in percent

Versions ==
    [chunks: Seq([sentences: Seq(SUBSET Words), distance: Nat]), entities: SUBSET Words]

QueryAssumption ==
    /\ Docs \subseteq Nat /\ IsFiniteSet(Docs) /\ DOMAIN Owner = Docs /\ DOMAIN Corpus = Docs
    /\ IsFiniteSet(Words) /\ Questions \cup Answers \subseteq SUBSET Words
    /\ \A d \in Docs : Corpus[d] \in Seq(Versions)
    /\ {RrfK, TopKMax, Denominator} \subseteq Nat \ {0} /\ Threshold \in 0..100
    /\ \A i \in 1..TopKMax : Denominator % (RrfK + i) = 0

Askers == {Owner[d] : d \in Docs}
None == [row |-> 0, chunks |-> 0, entities |-> 0]
Blank == <<>>

VARIABLES db,     \* committed rows: document -> the versions of its rows
          tx,     \* each document's replacing transaction: step and rows
          ask     \* the question being answered

queryVars == <<db, tx, ask>>

Idle == [step |-> "idle", tenant |-> "", question |-> {}, topK |-> 1,
         filter |-> [any |-> TRUE, ids |-> {}], snapshot |-> <<>>, near |-> <<>>,
         rankings |-> <<>>, hits |-> <<>>, documents |-> <<>>, reply |-> <<>>]

QueryInit ==
    /\ db = [d \in Docs |-> None]
    /\ tx = [d \in Docs |-> [step |-> "idle", rows |-> None]]
    /\ ask = Idle

-----------------------------------------------------------------------------

(* upsert_document: the conflict update locks the row until the end.        *)
Upsert(d) ==
    /\ tx[d].step = "idle"
    /\ db[d].row < Len(Corpus[d])
    /\ tx' = [tx EXCEPT ![d] = [step |-> "chunks", rows |-> [db[d] EXCEPT !.row = @ + 1]]]
    /\ UNCHANGED <<db, ask>>

\* _replace deletes and inserts the chunks, then the entities.
Replace(d) ==
    \/ /\ tx[d].step = "chunks"
       /\ tx' = [tx EXCEPT ![d] = [step |-> "entities",
                                   rows |-> [@.rows EXCEPT !.chunks = tx[d].rows.row]]]
       /\ UNCHANGED <<db, ask>>
    \/ /\ tx[d].step = "entities"
       /\ tx' = [tx EXCEPT ![d] = [step |-> "commit",
                                   rows |-> [@.rows EXCEPT !.entities = tx[d].rows.row]]]
       /\ UNCHANGED <<db, ask>>

Commit(d) ==
    /\ tx[d].step = "commit"
    /\ db' = [db EXCEPT ![d] = tx[d].rows]
    /\ tx' = [tx EXCEPT ![d] = [step |-> "idle", rows |-> None]]
    /\ UNCHANGED ask

Rollback(d) ==
    /\ tx[d].step # "idle"
    /\ tx' = [tx EXCEPT ![d] = [step |-> "idle", rows |-> None]]
    /\ UNCHANGED <<db, ask>>

-----------------------------------------------------------------------------

At(step) == ask.step = step
Reply(r) == ask' = [ask EXCEPT !.step = "answered", !.reply = r]
Error(status) == [status |-> status, answer |-> Blank, abstained |-> FALSE, sources |-> <<>>,
                  entities |-> {}, provider |-> "none", supported |-> FALSE]

\* query: a depth over the service's limit is refused, and so is a question
\* the embedder would have to truncate.
Ask(t, q, k, f) ==
    /\ At("idle")
    /\ ask' = [Idle EXCEPT !.step = IF k > TopKMax THEN "answered" ELSE "embed",
                           !.tenant = t, !.question = q, !.topK = k, !.filter = f,
                           !.reply = IF k > TopKMax THEN Error(422) ELSE <<>>]
    /\ UNCHANGED <<db, tx>>

Embed ==
    /\ At("embed")
    /\ Reply(Error(400)) \/ ask' = [ask EXCEPT !.step = "open"]
    /\ UNCHANGED <<db, tx>>

\* snapshot: the first statement of the transaction fixes what it sees.
Open ==
    /\ At("open")
    /\ ask' = [ask EXCEPT !.snapshot = db, !.step = "names"]
    /\ UNCHANGED <<db, tx>>

\* Mutant: read committed; every statement sees the latest commits.
MutantVisible == db

Visible == ask.snapshot

Mine == {d \in Docs : Owner[d] = ask.tenant}

\* named_scope: names the question resembles narrow an unfiltered search.
Names(named) ==
    /\ At("names")
    /\ named \subseteq Mine
    /\ ask' = [ask EXCEPT !.step = "nearest",
                          !.filter = IF @.any /\ named # {} THEN [any |-> FALSE, ids |-> named]
                                     ELSE @]
    /\ UNCHANGED <<db, tx>>

Chunk(h) == Corpus[h.doc][h.version].chunks[h.ord]
Text(h) == UNION Range(Chunk(h).sentences)

\* _read: the tenant's chunks within the filter.
InScope ==
    UNION {{[doc |-> d, ord |-> o, version |-> Visible[d].chunks] :
               o \in DOMAIN Corpus[d][Visible[d].chunks].chunks} :
           d \in {d \in Mine : Visible[d].chunks > 0 /\ (ask.filter.any \/ d \in ask.filter.ids)}}

\* Order by a rank, then by document and ordinal, and cut at k.
Precedes(u, v) ==
    \/ u[1] < v[1]
    \/ u[1] = v[1] /\ (u[2] < v[2] \/ (u[2] = v[2] /\ u[3] < v[3]))

Ordered(rank, k) ==
    LET S == DOMAIN rank
        Place(h) == Cardinality({g \in S :
                        Precedes(<<rank[g], g.doc, g.ord>>, <<rank[h], h.doc, h.ord>>)}) + 1
        n == IF Cardinality(S) < k THEN Cardinality(S) ELSE k
    IN  [i \in 1..n |-> CHOOSE h \in S : Place(h) = i]

Nearest ==
    /\ At("nearest")
    /\ ask' = [ask EXCEPT !.near = Ordered([h \in InScope |-> Chunk(h).distance], TopKMax),
                          !.step = "lexical"]
    /\ UNCHANGED <<db, tx>>

\* search_text with lexical_query: any content word matches.
Matches(h) == Cardinality(Text(h) \cap ask.question)
Lexical ==
    LET found == Ordered([h \in {g \in InScope : Matches(g) > 0} |-> -Matches(h)], TopKMax)
    IN  /\ At("lexical")
        /\ ask' = [ask EXCEPT !.rankings = <<ask.near, found>>, !.near = <<>>, !.step = "fuse"]
        /\ UNCHANGED <<db, tx>>

Reciprocal(ranking, h) ==
    IF h \in Range(ranking)
    THEN Denominator \div (RrfK + CHOOSE i \in DOMAIN ranking : ranking[i] = h) ELSE 0

\* Mutant: a later ranking replaces the score of an earlier one.
MutantScore(h) ==
    IF h \in Range(ask.rankings[2]) THEN Reciprocal(ask.rankings[2], h)
    ELSE Reciprocal(ask.rankings[1], h)

\* fuse: the sum over the rankings.
Score(h) == Reciprocal(ask.rankings[1], h) + Reciprocal(ask.rankings[2], h)

\* retrieve: the fused hits, cut to what the question wants.
Fuse ==
    LET found == Range(ask.rankings[1]) \cup Range(ask.rankings[2])
        depth == IF ask.topK < TopKMax THEN ask.topK ELSE TopKMax
    IN  /\ At("fuse")
        /\ ask' = [ask EXCEPT !.hits = Ordered([h \in found |-> -Score(h)], depth),
                              !.step = "documents"]
        /\ UNCHANGED <<db, tx>>

\* get_document for every document with a hit; then the transaction ends.
Documents ==
    /\ At("documents")
    /\ ask' = [ask EXCEPT !.documents = [d \in {h.doc : h \in Range(ask.hits)} |->
                                            Visible[d].entities],
                          !.step = "generate"]
    /\ UNCHANGED <<db, tx>>

\* The embedder, a read or the usage ledger fails: 503.
Unavailable ==
    /\ ask.step \in {"embed", "open", "names", "nearest", "lexical", "documents", "generate"}
    /\ Reply(Error(503))
    /\ UNCHANGED <<db, tx>>

-----------------------------------------------------------------------------

Overlap(text, evidence) ==
    <<Cardinality(text \cap evidence), IF text = {} THEN 1 ELSE Cardinality(text)>>

\* ExtractiveGenerator: the two adjacent sentences of the first passage that
\* share most with the question, the first of equals.
Extractive(q, hits) ==
    LET sentences == Chunk(hits[1]).sentences
        n == Len(sentences)
        Window(i) == sentences[i] \cup (IF i < n THEN sentences[i + 1] ELSE {})
        Common(i) == Overlap(q, Window(i))[1]
        best == CHOOSE i \in 1..n : \A j \in 1..n :
                    Common(i) > Common(j) \/ (Common(i) = Common(j) /\ i <= j)
        share == Overlap(q, Window(best))
    IN  IF hits = <<>> \/ n = 0 THEN [answer |-> Blank, supported |-> FALSE, cited |-> <<>>]
        ELSE [answer |-> <<Window(best)>>, supported |-> 10 * share[1] >= 3 * share[2],
              cited |-> <<0>>]

\* What a hosted model may send for n passages.
Outputs(n) ==
    [answer: {Blank} \cup {<<a>> : a \in Answers}, supported: BOOLEAN,
     cited: {<<>>} \cup [1..1 -> (-1)..n] \cup [1..2 -> (-1)..n]]

ValidCitations(output, n) ==
    /\ output.answer # Blank /\ output.cited # <<>>
    /\ Range(output.cited) \subseteq 0..(n - 1)

\* parse_response: anything inconsistent is a failure of the provider.
Parses(output, n) ==
    IF output.supported THEN ValidCitations(output, n)
    ELSE output.answer = Blank /\ output.cited = <<>>

\* The indexes without repetitions, in order.
Unique(cited) ==
    IF Len(cited) = 2 /\ cited[1] = cited[2] THEN <<cited[1]>> ELSE cited

\* How much of the answer the cited passages contain.
Grounding(answer, passages) == Overlap(answer, passages)

\* confidence, as a fraction.
Confidence(output, hits, passages) ==
    LET top == Score(hits[1])
        margin == IF Len(hits) > 1 THEN top - Score(hits[Len(hits)]) ELSE 0
        grounding == Grounding(output.answer[1], passages)
    IN  <<(7 * top + 3 * margin) * grounding[1], 10 * top * grounding[2]>>

\* Mutant: only the confidence decides.
MutantAbstains(supported, hosted, low) == ~hosted /\ low

\* should_abstain: lack of support always, weak grounding for extracts only.
Abstains(supported, hosted, low) == ~supported \/ (~hosted /\ low)

\* cited_entities: those of the documents that occur in a cited passage.
CitedEntities(cited) ==
    UNION {Text(h) \cap Corpus[h.doc][ask.documents[h.doc]].entities :
           h \in {h \in Range(cited) : ask.documents[h.doc] > 0}}

\* assess_generation and _response; an abstention keeps the retrieved evidence
\* for inspection.
Respond(output, hosted) ==
    LET hits == ask.hits
        indexes == Unique(output.cited)
        supported == output.supported /\ ValidCitations(output, Len(hits))
        cited == IF ValidCitations(output, Len(hits))
                 THEN [i \in DOMAIN indexes |-> hits[indexes[i] + 1]] ELSE <<>>
        value == IF supported
                 THEN Confidence(output, hits, UNION {Text(h) : h \in Range(cited)}) ELSE <<0, 1>>
        low == value[1] = 0 \/ 100 * value[1] < Threshold * value[2]
        abstained == Abstains(supported, hosted, low)
    IN  Reply([status |-> 200, answer |-> IF abstained THEN Blank ELSE output.answer,
               abstained |-> abstained, sources |-> IF abstained THEN hits ELSE cited,
               entities |-> IF abstained THEN {} ELSE CitedEntities(cited),
               provider |-> IF hosted THEN "openai" ELSE "extractive",
               supported |-> output.supported])

\* FallbackGenerator.generate: a hosted answer that parses, or the extract.
Generate ==
    /\ At("generate")
    /\ \/ /\ ask.hits # <<>>
          /\ \E output \in Outputs(Len(ask.hits)) :
                 Parses(output, Len(ask.hits)) /\ Respond(output, TRUE)
       \/ Respond(Extractive(ask.question, ask.hits), FALSE)
    /\ UNCHANGED <<db, tx>>

\* The thread turns to the next question.
Return ==
    /\ At("answered")
    /\ ask' = Idle
    /\ UNCHANGED <<db, tx>>

Filters == [any: {TRUE}, ids: {{}}] \cup [any: {FALSE}, ids: SUBSET Docs]

QueryNext ==
    \/ \E d \in Docs : Upsert(d) \/ Replace(d) \/ Commit(d) \/ Rollback(d)
    \/ \E t \in Askers, q \in Questions, k \in 1..(TopKMax + 1), f \in Filters : Ask(t, q, k, f)
    \/ Embed \/ Open \/ (\E named \in SUBSET Docs : Names(named))
    \/ Nearest \/ Lexical \/ Fuse \/ Documents \/ Unavailable \/ Generate \/ Return

QuerySpec == QueryInit /\ [][QueryNext]_queryVars

-----------------------------------------------------------------------------

Answered == At("answered") /\ ask.reply.status = 200

(* An answer is of one moment: its passages, its entities and the documents *)
(* they belong to have the version the document had when the question       *)
(* opened its snapshot, however many replacements commit between its reads  *)
(* (service.py, query; repository.py, snapshot and _replace).               *)
OneSnapshot ==
    \A h \in Range(ask.hits) :
        /\ h.version = ask.snapshot[h.doc].row
        /\ h.doc \in DOMAIN ask.documents => ask.documents[h.doc] = h.version

(* A shown answer rests on its sources: these are the tenant's passages     *)
(* within the requested documents that it cites, at least one, and an       *)
(* abstention claims neither answer nor entities. An extract that the       *)
(* fallback calls supported quotes its one source and is shown: its         *)
(* confidence is at least 0.7, above the default threshold (ranking.py,     *)
(* assess_generation and confidence; extractive.py; service.py, _response). *)
AnswersAreGrounded ==
    Answered =>
        LET r == ask.reply
        IN  /\ \A h \in Range(r.sources) :
                   /\ Owner[h.doc] = ask.tenant
                   /\ ~ask.filter.any => h.doc \in ask.filter.ids
            /\ IF r.abstained THEN r.answer = Blank /\ r.entities = {}
               ELSE /\ r.answer # Blank /\ r.supported /\ r.sources # <<>>
                    /\ r.entities \subseteq UNION {Text(h) : h \in Range(r.sources)}
            /\ r.provider = "extractive" /\ r.supported /\ Threshold <= 70 =>
                   /\ ~r.abstained
                   /\ Len(r.sources) = 1 /\ r.answer[1] \subseteq Text(r.sources[1])

AtLeast(ranking, g, h) ==
    h \in Range(ranking) =>
        \E i, j \in DOMAIN ranking : ranking[i] = g /\ ranking[j] = h /\ i <= j

(* Fusion respects both searches: a passage that neither search puts below  *)
(* another one comes before it, and none that it beats is kept in its place *)
(* (ranking.py, fuse; retrieval.py, retrieve).                              *)
FusionIsFair ==
    ask.step \in {"documents", "generate"} =>
        LET found == Range(ask.rankings[1]) \cup Range(ask.rankings[2])
        IN  \A g, h \in found :
                /\ g # h /\ h \in Range(ask.hits)
                /\ AtLeast(ask.rankings[1], g, h) /\ AtLeast(ask.rankings[2], g, h)
                => \E i, j \in DOMAIN ask.hits : ask.hits[i] = g /\ ask.hits[j] = h /\ i < j

=============================================================================
