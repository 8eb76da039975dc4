---------------------------- MODULE MCDocuments -----------------------------
(***************************************************************************)
(* What happens to the bytes and the text of a document, on small          *)
(* instances: reading an upload, chunking a page, indexing a file. The     *)
(* parts share no state: the initial state picks the one to run, and one   *)
(* run explores all three.                                                 *)
(***************************************************************************)
EXTENDS Chunker, UploadBody, Indexing, TLC

VARIABLE part

ASSUME ChunkerAssumption /\ UploadAssumption /\ IndexingAssumption

-----------------------------------------------------------------------------

(* A PDF and an image, which the store may deliver cut short, extended or   *)
(* altered, and pages whose texts name an entity in two spellings.          *)
MCOriginals == {<<"P", "x">>, <<"I", "x">>}
MCObjects == MCOriginals \cup {<<>>, <<"P">>, <<"P", "y">>, <<"P", "x", "x">>}
MCLayers == {<<>>, <<"A">>} \cup [1..2 -> {"A", "a", "."}]
MCScans == {<<>>, <<"B", "a">>}

-----------------------------------------------------------------------------

vars == <<part, chunkerVars, uploadVars, indexingVars>>

\* A part that is not running rests in one of its initial states.
Init ==
    /\ part \in {"chunking", "uploading", "indexing"}
    /\ ChunkerInit
    /\ \/ part = "chunking" /\ (ordered \/ Len(page) < MaxPage)
       \/ page = <<>> /\ cap = 1 /\ ordered
    /\ UploadInit /\ (part = "uploading" \/ ~(client.tenant \/ client.multipart \/ client.signed))
    /\ IndexingInit /\ (part = "indexing" \/ (object = <<>> /\ event.bytes = <<"P", "x">>
                                              /\ event.media = "pdf"))

Next ==
    /\ UNCHANGED part
    /\ \/ part = "chunking" /\ ChunkerNext /\ UNCHANGED <<uploadVars, indexingVars>>
       \/ part = "uploading" /\ UploadNext /\ UNCHANGED <<chunkerVars, indexingVars>>
       \/ part = "indexing" /\ IndexingNext /\ UNCHANGED <<chunkerVars, uploadVars>>

Spec == Init /\ [][Next]_vars

=============================================================================
