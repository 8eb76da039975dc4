----------------------------- MODULE UploadBody -----------------------------
(***************************************************************************)
(* POST /ingest up to the registration of the upload. The client's bytes   *)
(* come in blocks that align with nothing; the multipart parser turns each *)
(* block into callbacks, which collect headers and hash, sniff and spool   *)
(* the file, or raise.                                                     *)
(*                                                                         *)
(* The file's i-th byte is the number i; a digest is the sequence of the   *)
(* bytes hashed. Every other byte of the body is framing.                  *)
(***************************************************************************)
EXTENDS Integers, Sequences, FiniteSets

CONSTANTS MaxBytes,        \* max_upload_bytes
          Framing,         \* the allowance for boundaries and headers
          MaxHeaders, MaxHeaderBytes,
          Sniffed,         \* bytes kept for signature sniffing
          SignatureBytes,  \* length of the signatures
          MaxItems         \* bound: callbacks that one block causes

UploadAssumption ==
    /\ {MaxBytes, Framing, MaxHeaders, MaxHeaderBytes, Sniffed, MaxItems} \subseteq Nat
    /\ SignatureBytes \in 1..Sniffed

VARIABLES client,   \* what was sent, and the block that is on its way; fields
                    \* and length: headers sent, bytes of the one being sent;
                    \* flawed: it sent what read must refuse (history)
          total,    \* bytes that read has seen
          pending,  \* callbacks of the current block still to come
          upload,   \* the UploadBody
          state     \* "new", "reading", "read", or the response's status

uploadVars == <<client, total, pending, upload, state>>

UploadInit ==
    /\ client \in [tenant: BOOLEAN, multipart: BOOLEAN, signed: BOOLEAN, at: {"start"},
                   block: {<<>>}, sent: {0}, framing: {0}, parts: {0}, disposition: {"none"},
                   fields: {0}, length: {0}, flawed: {FALSE}]
    /\ total = 0 /\ pending = <<>>
    /\ upload = [size |-> 0, digest |-> <<>>, prefix |-> <<>>, target |-> <<>>,
                 disposition |-> "none", headers |-> 0, held |-> 0, parts |-> 0,
                 complete |-> FALSE]
    /\ state = "new"

Respond(status) == state' = status /\ UNCHANGED <<client, total, pending, upload>>

\* ingest and the start of read: the tenant, then the content type.
Start ==
    /\ state = "new"
    /\ Respond(IF client.tenant /\ client.multipart THEN "reading" ELSE "400")

-----------------------------------------------------------------------------

(* The parser's grammar: from where, with which callback, to where. A body  *)
(* may be only a closing boundary. What follows the closing boundary is     *)
(* skipped, so nothing there is an error.                                   *)
Moves ==
    {<<"start", "none", "start">>, <<"start", "part_begin", "headers">>,
     <<"start", "end", "end">>,
     <<"headers", "header_field", "field">>, <<"field", "header_field", "field">>,
     <<"field", "header_value", "value">>, <<"value", "header_value", "value">>,
     <<"value", "header_end", "headers">>, <<"headers", "headers_finished", "data">>,
     <<"data", "part_data", "data">>, <<"data", "part_begin", "headers">>,
     <<"data", "end", "end">>, <<"end", "none", "end">>}
    \cup {<<at, "error", "error">> : at \in {"start", "headers", "field", "value", "data"}}

Headers == {"other", "field", "file"}   \* the two content-dispositions, by name and filename

\* An item that is to be refused: not multipart, a second part, a header too
\* long or too many, or a part that is not the file field.
Flawed(call, n) ==
    \/ call = "error"
    \/ call = "part_begin" /\ client.parts # 0
    \/ call \in {"header_field", "header_value"} /\ client.length + n > MaxHeaderBytes
    \/ call = "header_end" /\ client.fields = MaxHeaders
    \/ call = "headers_finished" /\ client.disposition # "file"

\* The client sends something that will cause one callback, or an error of
\* the parser; n is its length.
Send(move, n, header) ==
    LET file == move[2] = "part_data"
        item == [call |-> move[2], header |-> header, size |-> n,
                 bytes |-> IF file THEN [i \in 1..n |-> client.sent + i] ELSE <<>>]
    IN  /\ state = "reading" /\ pending = <<>>
        /\ Len(client.block) < MaxItems
        /\ move[1] = client.at
        /\ n = 1 \/ move[2] \in {"part_data", "header_field", "header_value"}
        /\ header = "other" \/ move[2] = "header_end"
        /\ client.sent <= MaxBytes /\ client.framing <= Framing
        /\ client' = [client EXCEPT
               !.at = move[3], !.block = Append(@, item),
               !.sent = IF file THEN @ + n ELSE @,
               !.framing = IF file THEN @ ELSE @ + n,
               !.parts = IF move[2] = "part_begin" THEN @ + 1 ELSE @,
               !.disposition = IF header # "other" THEN header ELSE @,
               !.fields = IF move[2] = "header_end" THEN @ + 1 ELSE @,
               !.length = IF move[2] \in {"header_field", "header_value"} THEN @ + n
                          ELSE IF move[2] = "header_end" THEN 0 ELSE @,
               !.flawed = @ \/ Flawed(move[2], n)]
        /\ UNCHANGED <<total, pending, upload, state>>

TooLarge(bytes) == bytes > MaxBytes + Framing

\* A block arrives. It is counted before the parser sees it.
Receive ==
    /\ state = "reading" /\ pending = <<>> /\ client.block # <<>>
    /\ total' = client.sent + client.framing
    /\ client' = [client EXCEPT !.block = <<>>]
    /\ IF TooLarge(total') THEN state' = "413" /\ UNCHANGED pending
       ELSE pending' = client.block /\ UNCHANGED state
    /\ UNCHANGED upload

-----------------------------------------------------------------------------

Calls(call) == state = "reading" /\ pending # <<>> /\ Head(pending).call = call

\* The callback raises, or returns with these fields.
Raise(status) == Respond(status)
Return(fields) ==
    /\ upload' = fields
    /\ pending' = Tail(pending)
    /\ UNCHANGED <<client, total, state>>

PartBegin ==
    /\ Calls("part_begin")
    /\ IF upload.parts # 0 THEN Raise("400") ELSE Return([upload EXCEPT !.parts = 1])

\* header_field and header_value: a fragment of the current header.
HeaderFragment ==
    /\ Calls("header_field") \/ Calls("header_value")
    /\ IF upload.held + Head(pending).size > MaxHeaderBytes THEN Raise("400")
       ELSE Return([upload EXCEPT !.held = @ + Head(pending).size])

\* A repeated header replaces the earlier one.
HeaderEnd ==
    /\ Calls("header_end")
    /\ IF upload.headers = MaxHeaders THEN Raise("400")
       ELSE Return([upload EXCEPT !.headers = @ + 1, !.held = 0,
                        !.disposition = IF Head(pending).header = "other" THEN @
                                        ELSE Head(pending).header])

HeadersFinished ==
    /\ Calls("headers_finished")
    /\ IF upload.disposition # "file" THEN Raise("400") ELSE Return(upload)

\* The first bytes of the file, however it is fragmented.
Prefix(prefix, block) ==
    LET bytes == prefix \o block
    IN  SubSeq(bytes, 1, IF Len(bytes) < Sniffed THEN Len(bytes) ELSE Sniffed)

FileTooLarge(size) == size > MaxBytes

\* part_data: count, then hash, sniff and spool.
PartData ==
    LET block == Head(pending).bytes
    IN  /\ Calls("part_data")
        /\ IF FileTooLarge(upload.size + Len(block)) THEN Raise("413")
           ELSE Return([upload EXCEPT !.size = @ + Len(block), !.prefix = Prefix(@, block),
                                      !.digest = @ \o block, !.target = @ \o block])

Finish == Calls("end") /\ Return([upload EXCEPT !.complete = TRUE])

\* What precedes the first and follows the last boundary is skipped.
Skip == Calls("none") /\ Return(upload)

\* MultipartParseError.
ParseError == Calls("error") /\ Raise("400")

-----------------------------------------------------------------------------

\* Mutant: the end of the stream is taken for the end of the body.
MutantWhole == upload.parts = 1

Whole == upload.complete /\ upload.parts = 1

\* The stream ends; it proves nothing about the closing boundary.
EndOfStream ==
    /\ state = "reading" /\ pending = <<>> /\ client.block = <<>>
    /\ Respond(IF Whole THEN "read" ELSE "400")

\* The client goes away; nobody hears the 503.
Disconnect ==
    /\ state = "reading" /\ pending = <<>>
    /\ Respond("503")

\* media_type: the content's signature decides.
Supported(prefix) ==
    client.signed /\ Len(prefix) >= SignatureBytes
    /\ \A i \in 1..SignatureBytes : prefix[i] = i

\* register, whose storage steps may fail, and the response.
Register ==
    /\ state = "read"
    /\ IF Supported(upload.prefix) THEN Respond("202") \/ Respond("503") ELSE Respond("415")

Answered == state \in {"202", "400", "413", "415", "503"} /\ UNCHANGED uploadVars

UploadNext ==
    \/ Start
    \/ \E move \in Moves, n \in 1..2, header \in Headers : Send(move, n, header)
    \/ Receive \/ PartBegin \/ HeaderFragment \/ HeaderEnd \/ HeadersFinished \/ PartData
    \/ Finish \/ Skip \/ ParseError \/ EndOfStream \/ Disconnect \/ Register \/ Answered

UploadSpec == UploadInit /\ [][UploadNext]_uploadVars

-----------------------------------------------------------------------------

(* The answer fits the upload, however blocks and callbacks cut it. What    *)
(* goes on to registration is the whole body of a client that sent one file *)
(* part up to its closing boundary: the bytes spooled and hashed are the    *)
(* file's, all of them. 400 is for clients whose request or body is flawed, *)
(* or ended before its closing boundary or without a part; 413 for those    *)
(* that sent more file bytes than allowed, or framing beyond its allowance; *)
(* 415 for files without a known signature, even when one comes byte by     *)
(* byte. What is kept meanwhile is bounded (upload.py, read and part_data;  *)
(* media_type).                                                             *)
AnswerFitsUpload ==
    /\ Len(upload.target) <= MaxBytes /\ upload.held <= MaxHeaderBytes
    /\ state \in {"read", "202"} =>
           /\ upload.target = [i \in 1..client.sent |-> i]
           /\ upload.digest = upload.target /\ upload.size = client.sent
           /\ client.at = "end" /\ client.parts = 1 /\ client.disposition = "file"
           /\ ~client.flawed
    /\ state = "400" =>
           \/ ~client.tenant \/ ~client.multipart \/ client.flawed
           \/ pending = <<>> /\ (client.at # "end" \/ client.parts # 1)
    /\ state = "413" => client.sent > MaxBytes \/ client.framing > Framing
    /\ state = "415" => ~client.signed \/ client.sent < SignatureBytes

=============================================================================
