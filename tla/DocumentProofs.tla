---------------------------- MODULE DocumentProofs ----------------------------
(***************************************************************************)
(* What an upload and an attempt to index it guarantee for all limits,     *)
(* files and ways to cut a body into blocks and blocks into callbacks.     *)
(***************************************************************************)
EXTENDS UploadBody, Indexing, CountingTheorems, SequenceTheorems, TLAPS

-----------------------------------------------------------------------------
(* The upload. The client is ahead of the parser by the callbacks that are  *)
(* queued: those of the block being parsed, or of the next one.             *)

Queue == IF pending = <<>> THEN client.block ELSE pending

GrammarStates == {"start", "headers", "field", "value", "data", "end", "error"}

Items ==
    [call: {"none", "part_begin", "header_field", "header_value", "header_end",
            "headers_finished", "part_data", "end", "error"},
     header: Headers, size: Nat, bytes: Seq(Nat)]

Clients ==
    [tenant: BOOLEAN, multipart: BOOLEAN, signed: BOOLEAN, at: GrammarStates,
     block: Seq(Items), sent: Nat, framing: Nat, parts: Nat,
     disposition: Headers \cup {"none"}, fields: Nat, length: Nat, flawed: BOOLEAN]

Uploads ==
    [size: Nat, digest: Seq(Nat), prefix: Seq(Nat), target: Seq(Nat),
     disposition: Headers \cup {"none"}, headers: Nat, held: Nat, parts: {0, 1},
     complete: BOOLEAN]

UploadType ==
    /\ client.block \in Seq(Items) /\ pending \in Seq(Items)
    /\ pending = <<>> \/ client.block = <<>>
    /\ client \in Clients
    /\ total \in Nat
    /\ upload \in Uploads
    /\ state \in {"new", "reading", "read", "202", "400", "413", "415", "503"}

Least(m, n) == IF m < n THEN m ELSE n
FirstBytes(n) == [i \in 1..n |-> i]

(* What was taken from the callbacks so far is the beginning of the file.   *)
TakenSoFar ==
    /\ upload.size <= MaxBytes /\ upload.size <= client.sent
    /\ upload.held <= MaxHeaderBytes
    /\ upload.target = FirstBytes(upload.size) /\ upload.digest = upload.target
    /\ upload.prefix = FirstBytes(Least(upload.size, Sniffed))

(* Between two callbacks the client was, or the parser is, at a stage of    *)
(* the body; an item takes it from one stage to the next.                   *)
Stages == [at: GrammarStates, sent: Nat, parts: Nat, disposition: Headers \cup {"none"},
           fields: Nat, length: Nat, flawed: BOOLEAN]

Fragments == {"header_field", "header_value"}

Refused(item, from) ==
    \/ item.call = "error"
    \/ item.call = "part_begin" /\ from.parts # 0
    \/ item.call \in Fragments /\ from.length + item.size > MaxHeaderBytes
    \/ item.call = "header_end" /\ from.fields = MaxHeaders
    \/ item.call = "headers_finished" /\ from.disposition # "file"

Leads(item, from, to) ==
    /\ <<from.at, item.call, to.at>> \in Moves
    /\ item.header # "other" => item.call = "header_end"
    /\ item.bytes # <<>> => item.call = "part_data"
    /\ to.sent = from.sent + Len(item.bytes)
    /\ \A i \in 1..Len(item.bytes) : item.bytes[i] = from.sent + i
    /\ to.parts = IF item.call = "part_begin" THEN from.parts + 1 ELSE from.parts
    /\ to.disposition = IF item.header # "other" THEN item.header ELSE from.disposition
    /\ to.fields = IF item.call = "header_end" THEN from.fields + 1 ELSE from.fields
    /\ to.length = IF item.call \in Fragments THEN from.length + item.size
                   ELSE IF item.call = "header_end" THEN 0 ELSE from.length
    /\ to.flawed <=> from.flawed \/ Refused(item, from)

ParserIsAt(stage) ==
    /\ stage.sent = upload.size /\ stage.parts = upload.parts
    /\ stage.disposition = upload.disposition
    /\ stage.fields = upload.headers /\ stage.length = upload.held
    /\ ~stage.flawed
    /\ stage.at = "start" => upload.parts = 0
    /\ upload.parts = 0 => stage.at \in {"start", "end"}
    /\ (stage.at = "end") = upload.complete
    /\ stage.at = "data" \/ (stage.at = "end" /\ upload.parts # 0) =>
           upload.disposition = "file"

ClientIsAt(stage) ==
    /\ stage.at = client.at /\ stage.sent = client.sent
    /\ stage.parts = client.parts /\ stage.disposition = client.disposition
    /\ stage.fields = client.fields /\ stage.length = client.length
    /\ stage.flawed <=> client.flawed

Connects(trace, queue) ==
    /\ trace \in [0..Len(queue) -> Stages]
    /\ ParserIsAt(trace[0]) /\ ClientIsAt(trace[Len(queue)])
    /\ \A i \in 1..Len(queue) :
           /\ Leads(queue[i], trace[i - 1], trace[i])
           /\ trace[i].sent <= client.sent /\ (trace[i].flawed => client.flawed)

QueueConnects ==
    state \in {"new", "reading"} => \E trace : Connects(trace, Queue)

UploadInv ==
    /\ UploadType
    /\ TakenSoFar
    /\ QueueConnects
    /\ AnswerFitsUpload

-----------------------------------------------------------------------------

(* Concatenation, for sequences of numbers. *)
LEMMA NatConcat ==
    ASSUME NEW s \in Seq(Nat), NEW t \in Seq(Nat)
    PROVE  /\ s \o t \in Seq(Nat)
           /\ Len(s \o t) = Len(s) + Len(t)
           /\ \A i \in 1..(Len(s) + Len(t)) :
                  (s \o t)[i] = IF i <= Len(s) THEN s[i] ELSE t[i - Len(s)]
BY ConcatProperties

Follows(s, m, n, block) ==
    /\ s \in Seq(Nat) /\ Len(s) = m + n
    /\ \A i \in 1..(m + n) : s[i] = IF i <= m THEN i ELSE block[i - m]

(* The numbers from 1 in order, followed by a block. *)
LEMMA FirstBytesConcat ==
    ASSUME NEW m \in Nat, NEW n \in Nat, NEW block \in Seq(Nat), Len(block) = n
    PROVE  Follows(FirstBytes(m) \o block, m, n, block)
<1> DEFINE s == FirstBytes(m)
<1>1. s \in Seq(Nat) /\ Len(s) = m /\ \A i \in 1..m : s[i] = i
  BY SeqDef DEF FirstBytes
<1> HIDE DEF s
<1>2. /\ s \o block \in Seq(Nat) /\ Len(s \o block) = Len(s) + Len(block)
      /\ \A i \in 1..(Len(s) + Len(block)) :
             (s \o block)[i] = IF i <= Len(s) THEN s[i] ELSE block[i - Len(s)]
  BY <1>1, NatConcat
<1>3. Len(s) + Len(block) = m + n
  BY <1>1
<1>4. /\ s \o block \in Seq(Nat) /\ Len(s \o block) = m + n
      /\ \A i \in 1..(m + n) : (s \o block)[i] = IF i <= m THEN i ELSE block[i - m]
  BY <1>1, <1>2, <1>3
<1> QED  BY <1>4 DEF s, Follows

(* A block that continues the file leaves its beginning in one piece. *)
LEMMA FirstBytesAppend ==
    ASSUME NEW m \in Nat, NEW n \in Nat, NEW block \in Seq(Nat), Len(block) = n,
           \A i \in 1..n : block[i] = m + i
    PROVE  FirstBytes(m) \o block = FirstBytes(m + n)
<1> DEFINE s == FirstBytes(m) \o block
           t == FirstBytes(m + n)
<1>1. m + n \in Nat
  OBVIOUS
<1>2. t \in Seq(Nat) /\ Len(t) = m + n /\ \A i \in 1..(m + n) : t[i] = i
  BY <1>1, SeqDef DEF FirstBytes
<1>3. Follows(s, m, n, block)
  BY FirstBytesConcat
<1> HIDE DEF s, t
<1>4. \A i \in 1..(m + n) : s[i] = t[i]
  BY <1>2, <1>3 DEF Follows
<1>5. s = t
  BY <1>2, <1>3, <1>4, SeqEqual DEF Follows
<1> QED  BY <1>5 DEF s, t

(* What sniffing keeps is the beginning of what was spooled. *)
LEMMA PrefixOfFirstBytes ==
    ASSUME NEW m \in Nat, NEW n \in Nat, NEW block \in Seq(Nat), Len(block) = n,
           \A i \in 1..n : block[i] = m + i, Sniffed \in Nat
    PROVE  Prefix(FirstBytes(Least(m, Sniffed)), block) = FirstBytes(Least(m + n, Sniffed))
<1> DEFINE p == Least(m, Sniffed)
           l == Least(m + n, Sniffed)
           bytes == FirstBytes(p) \o block
           t == FirstBytes(l)
<1>1. p \in Nat /\ l \in Nat /\ l <= p + n
  BY DEF Least
<1>2. Follows(bytes, p, n, block)
  <2> HIDE DEF p
  <2> QED  BY <1>1, FirstBytesConcat
<1>3. t \in Seq(Nat) /\ Len(t) = l /\ \A i \in 1..l : t[i] = i
  <2> HIDE DEF l
  <2> QED  BY <1>1, SeqDef DEF FirstBytes
<1>4. Prefix(FirstBytes(p), block) = SubSeq(bytes, 1, l)
  <2>1. (IF Len(bytes) < Sniffed THEN Len(bytes) ELSE Sniffed) = l
    <3> HIDE DEF bytes
    <3> QED  BY <1>2 DEF Least, Follows
  <2> QED  BY <2>1 DEF Prefix
<1>5. p < l => p = m
  BY DEF Least
<1> HIDE DEF p, l, bytes, t
<1>6. \A i \in 1..l : bytes[i] = t[i]
  <2> TAKE i \in 1..l
  <2>1. i \in 1..(p + n)
    BY <1>1
  <2>2. CASE i <= p
    BY <2>1, <2>2, <1>2, <1>3 DEF Follows
  <2>3. CASE i > p
    <3>1. p = m /\ i - p \in 1..n
      BY <2>1, <2>3, <1>1, <1>5
    <3> QED  BY <2>1, <2>3, <3>1, <1>2, <1>3 DEF Follows
  <2> QED  BY <2>2, <2>3, <1>1
<1>7. \A i \in 1..l : bytes[i] \in Nat
  BY <1>6, <1>3
<1>8. /\ SubSeq(bytes, 1, l) \in Seq(Nat)
      /\ Len(SubSeq(bytes, 1, l)) = IF 1 <= l THEN l - 1 + 1 ELSE 0
      /\ \A i \in 1..(l - 1 + 1) : SubSeq(bytes, 1, l)[i] = bytes[1 + i - 1]
  <2>1. 1 \in Int /\ l \in Int
    BY <1>1
  <2> QED  BY <2>1, <1>7, SubSeqProperties
<1>9. /\ Len(SubSeq(bytes, 1, l)) = l
      /\ \A i \in 1..l : SubSeq(bytes, 1, l)[i] = t[i]
  BY <1>1, <1>6, <1>8
<1>10. SubSeq(bytes, 1, l) = t
  BY <1>3, <1>8, <1>9, SeqEqual
<1> QED  BY <1>4, <1>10 DEF p, l, t, bytes

-----------------------------------------------------------------------------

(* The specification starts with nothing sent and nothing parsed. *)
LEMMA UploadStarts ==
    ASSUME UploadAssumption, UploadInit
    PROVE  UploadInv
<1> USE DEF UploadAssumption
<1>1. /\ client.block = <<>> /\ client.sent = 0 /\ client.framing = 0 /\ client.parts = 0
      /\ client.at = "start" /\ client.disposition = "none" /\ pending = <<>>
      /\ client.fields = 0 /\ client.length = 0 /\ client.flawed = FALSE /\ upload.headers = 0
      /\ upload.size = 0 /\ upload.held = 0 /\ upload.digest = <<>> /\ upload.prefix = <<>>
      /\ upload.target = <<>> /\ upload.parts = 0 /\ upload.disposition = "none"
      /\ upload.complete = FALSE /\ state = "new"
  BY DEF UploadInit
<1>2. UploadType
  <2>1. <<>> \in Seq(Items) /\ <<>> \in Seq(Nat)
    OBVIOUS
  <2>2. client \in Clients
    <3>1. {"start"} \subseteq GrammarStates /\ {<<>>} \subseteq Seq(Items)
          /\ {0} \subseteq Nat /\ {"none"} \subseteq Headers \cup {"none"}
          /\ {FALSE} \subseteq BOOLEAN
      BY <2>1 DEF GrammarStates
    <3> HIDE DEF UploadAssumption
    <3> QED  BY <3>1, Zenon DEF UploadInit, Clients
  <2>3. upload \in Uploads
    BY <2>1 DEF UploadInit, Headers, Uploads
  <2> QED  BY <1>1, <2>1, <2>2, <2>3 DEF UploadInit, UploadType
<1>3. Len(<<>>) = 0 /\ FirstBytes(0) = <<>> /\ Least(0, Sniffed) = 0
  BY DEF FirstBytes, Least
<1>4. TakenSoFar
  BY <1>1, <1>3 DEF TakenSoFar
<1>5. QueueConnects
  <2> DEFINE stage == [at |-> "start", sent |-> 0, parts |-> 0, disposition |-> "none",
                       fields |-> 0, length |-> 0, flawed |-> FALSE]
             trace == [i \in 0..0 |-> stage]
  <2>1. stage \in Stages
    BY DEF Stages, GrammarStates
  <2>2. ParserIsAt(stage) /\ ClientIsAt(stage)
    BY <1>1 DEF ParserIsAt, ClientIsAt
  <2>3. Queue = <<>>
    BY <1>1 DEF Queue
  <2>4. Connects(trace, <<>>)
    BY <1>3, <2>1, <2>2 DEF Connects
  <2> HIDE DEF trace
  <2> QED  BY <2>3, <2>4 DEF QueueConnects
<1>6. AnswerFitsUpload
  BY <1>1, <1>3 DEF AnswerFitsUpload
<1> QED  BY <1>2, <1>4, <1>5, <1>6 DEF UploadInv

(* What was spooled is as long as it was counted. *)
LEMMA TargetLength ==
    ASSUME UploadAssumption, UploadType, TakenSoFar
    PROVE  Len(upload.target) = upload.size
<1>1. upload.size \in Nat
  BY DEF UploadType, Uploads
<1>2. \A n \in Nat : Len(FirstBytes(n)) = n
  BY SeqDef DEF FirstBytes
<1> QED  BY <1>1, <1>2 DEF TakenSoFar

(* An answer, or the end of read, that fits the upload. *)
LEMMA Responded ==
    ASSUME UploadInv, NEW code \in {"read", "202", "400", "413", "415", "503"},
           Respond(code), AnswerFitsUpload'
    PROVE  UploadInv'
<1>1. state' = code /\ client' = client /\ total' = total /\ pending' = pending
      /\ upload' = upload
  BY DEF Respond
<1>2. UploadType' /\ TakenSoFar'
  BY <1>1 DEF UploadInv, UploadType, TakenSoFar
<1>3. QueueConnects'
  BY <1>1 DEF QueueConnects
<1> QED  BY <1>2, <1>3 DEF UploadInv

(* 400 needs a reason; 503 says nothing of the upload. *)
Reason ==
    \/ ~client.tenant \/ ~client.multipart \/ client.flawed
    \/ pending = <<>> /\ (client.at # "end" \/ client.parts # 1)

LEMMA Raised ==
    ASSUME UploadAssumption, UploadInv, NEW code \in {"400", "503"}, Respond(code),
           code = "400" => Reason
    PROVE  UploadInv'
<1>1. AnswerFitsUpload'
  <2>1. Len(upload.target) = upload.size
    BY TargetLength DEF UploadInv
  <2> QED  BY <2>1 DEF AnswerFitsUpload, Respond, Reason, UploadInv, TakenSoFar
<1> QED  BY <1>1, Responded

(* A callback that returns takes the parser to the next stage. *)
LEMMA Returned ==
    ASSUME UploadAssumption, UploadInv, state = "reading", pending # <<>>,
           NEW fields, Return(fields), NEW trace, Connects(trace, pending),
           UploadType', TakenSoFar', ParserIsAt(trace[1])'
    PROVE  UploadInv'
<1>1. /\ upload' = fields /\ pending' = Tail(pending)
      /\ client' = client /\ total' = total /\ state' = state
  BY DEF Return
<1>2. /\ pending \in Seq(Items) /\ pending' \in Seq(Items) /\ Len(pending) \in Nat \ {0}
      /\ Len(pending') = Len(pending) - 1
      /\ \A i \in 1..Len(pending') : pending'[i] = pending[i + 1]
  <2>1. pending \in Seq(Items)
    BY DEF UploadInv, UploadType
  <2> QED  BY <1>1, <2>1, HeadTailProperties, EmptySeq
<1>3. Queue' = pending'
  BY <1>1, <1>2 DEF Queue, UploadInv, UploadType
<1>4. PICK n, last : n \in Nat /\ n = Len(pending') /\ last = trace[Len(pending)]
  BY <1>2
<1>5. QueueConnects'
  <2> DEFINE rest == [i \in 0..n |-> trace[i + 1]]
  <2>1. rest \in [0..n -> Stages]
    BY <1>2, <1>4 DEF Connects
  <2>2. rest[0] = trace[1] /\ rest[n] = last
    BY <1>2, <1>4
  <2>3. ClientIsAt(last)'
    BY <1>1, <1>4 DEF Connects, ClientIsAt
  <2>4. ASSUME NEW i \in 1..n
        PROVE  /\ Leads(pending'[i], rest[i - 1], rest[i])
               /\ rest[i].sent <= client'.sent /\ (rest[i].flawed => client'.flawed)
    <3>1. i + 1 \in 1..Len(pending) /\ (i + 1) - 1 = i
      BY <1>2, <1>4
    <3>2. rest[i - 1] = trace[(i + 1) - 1] /\ rest[i] = trace[i + 1]
          /\ pending'[i] = pending[i + 1]
      BY <1>2, <1>4, <3>1
    <3> HIDE DEF rest
    <3> QED  BY <1>1, <3>1, <3>2 DEF Connects
  <2> HIDE DEF rest
  <2>5. Connects(rest, pending)'
    BY <1>4, <2>1, <2>2, <2>3, <2>4 DEF Connects
  <2> QED  BY <1>3, <2>5 DEF QueueConnects
<1>6. AnswerFitsUpload'
  <2>1. Len(upload'.target) = upload'.size
    <3>1. upload'.size \in Nat /\ upload'.target = FirstBytes(upload'.size)
      BY DEF UploadType, Uploads, TakenSoFar
    <3> QED  BY <3>1, SeqDef DEF FirstBytes
  <2> QED  BY <1>1, <2>1 DEF AnswerFitsUpload, TakenSoFar
<1> QED  BY <1>5, <1>6 DEF UploadInv

(* A callback finds the parser where the client was when it sent the item. *)
LEMMA CallbackFits ==
    ASSUME UploadAssumption, UploadInv, state = "reading", pending # <<>>
    PROVE  \E trace :
              /\ Connects(trace, pending)
              /\ ParserIsAt(trace[0]) /\ trace[0] \in Stages /\ trace[1] \in Stages
              /\ Head(pending) \in Items /\ Leads(Head(pending), trace[0], trace[1])
              /\ trace[1].sent <= client.sent /\ (trace[1].flawed => client.flawed)
<1>1. PICK trace : Connects(trace, pending)
  BY DEF UploadInv, QueueConnects, Queue
<1>2. /\ pending \in Seq(Items) /\ Len(pending) \in Nat \ {0}
      /\ Head(pending) = pending[1] /\ Head(pending) \in Items
  <2>1. pending \in Seq(Items)
    BY DEF UploadInv, UploadType
  <2> QED  BY <2>1, HeadTailProperties, EmptySeq
<1>3. 0 \in 0..Len(pending) /\ 1 \in 0..Len(pending) /\ 1 \in 1..Len(pending) /\ 1 - 1 = 0
  BY <1>2
<1> QED  BY <1>1, <1>2, <1>3 DEF Connects

(* The client sends another item of its block. *)
LEMMA SendKeeps ==
    ASSUME UploadAssumption, UploadInv,
           NEW move \in Moves, NEW n \in 1..2, NEW header \in Headers, Send(move, n, header)
    PROVE  UploadInv'
<1> DEFINE file == move[2] = "part_data"
           bytes == IF file THEN [i \in 1..n |-> client.sent + i] ELSE <<>>
           item == [call |-> move[2], header |-> header, size |-> n, bytes |-> bytes]
<1>1. /\ state = "reading" /\ pending = <<>>
      /\ move[1] = client.at
      /\ header = "other" \/ move[2] = "header_end"
      /\ client' = [client EXCEPT
             !.at = move[3], !.block = Append(@, item),
             !.sent = IF file THEN @ + n ELSE @,
             !.framing = IF file THEN @ ELSE @ + n,
             !.parts = IF move[2] = "part_begin" THEN @ + 1 ELSE @,
             !.disposition = IF header # "other" THEN header ELSE @,
             !.fields = IF move[2] = "header_end" THEN @ + 1 ELSE @,
             !.length = IF move[2] \in {"header_field", "header_value"} THEN @ + n
                        ELSE IF move[2] = "header_end" THEN 0 ELSE @,
             !.flawed = @ \/ Flawed(move[2], n)]
      /\ total' = total /\ pending' = pending /\ upload' = upload /\ state' = state
  BY DEF Send
<1>2. /\ client.block \in Seq(Items) /\ client.sent \in Nat /\ client.framing \in Nat
      /\ client.parts \in Nat /\ client.at \in GrammarStates
      /\ client.disposition \in Headers \cup {"none"}
      /\ client.fields \in Nat /\ client.length \in Nat /\ client.flawed \in BOOLEAN
  BY DEF UploadInv, UploadType, Clients
<1>3. bytes \in Seq(Nat) /\ (file => Len(bytes) = n) /\ (~file => bytes = <<>> /\ Len(bytes) = 0)
      /\ (file => \A i \in 1..n : bytes[i] = client.sent + i)
  <2>1. n \in Nat /\ \A i \in 1..n : client.sent + i \in Nat
    BY <1>2
  <2>2. [i \in 1..n |-> client.sent + i] \in Seq(Nat)
        /\ Len([i \in 1..n |-> client.sent + i]) = n
    BY <2>1, SeqDef
  <2> QED  BY <2>2
<1>4. /\ move[2] \in {"none", "part_begin", "header_field", "header_value", "header_end",
                       "headers_finished", "part_data", "end", "error"}
      /\ move[3] \in GrammarStates
      /\ move = <<move[1], move[2], move[3]>>
  BY DEF Moves, GrammarStates
<1>5. item \in Items
  BY <1>3, <1>4 DEF Items
<1> HIDE DEF bytes, item
<1>6. /\ client'.at = move[3] /\ client'.block = Append(client.block, item)
      /\ client'.sent = client.sent + Len(bytes)
      /\ client'.framing \in Nat
      /\ client'.parts = IF move[2] = "part_begin" THEN client.parts + 1 ELSE client.parts
      /\ client'.disposition = IF header # "other" THEN header ELSE client.disposition
      /\ client'.tenant = client.tenant /\ client'.multipart = client.multipart
      /\ client'.signed = client.signed
      /\ client'.fields = IF move[2] = "header_end" THEN client.fields + 1 ELSE client.fields
      /\ client'.length = IF move[2] \in Fragments THEN client.length + n
                          ELSE IF move[2] = "header_end" THEN 0 ELSE client.length
      /\ client'.flawed = (client.flawed \/ Flawed(move[2], n))
  <2>1. /\ client'.at = move[3] /\ client'.block = Append(client.block, item)
        /\ client'.sent = IF file THEN client.sent + n ELSE client.sent
        /\ client'.framing = IF file THEN client.framing ELSE client.framing + n
        /\ client'.parts = IF move[2] = "part_begin" THEN client.parts + 1 ELSE client.parts
        /\ client'.disposition = IF header # "other" THEN header ELSE client.disposition
        /\ client'.tenant = client.tenant /\ client'.multipart = client.multipart
        /\ client'.signed = client.signed
        /\ client'.fields = IF move[2] = "header_end" THEN client.fields + 1 ELSE client.fields
        /\ client'.length = IF move[2] \in Fragments THEN client.length + n
                            ELSE IF move[2] = "header_end" THEN 0 ELSE client.length
        /\ client'.flawed = (client.flawed \/ Flawed(move[2], n))
    <3>1. PICK flaw : flaw = Flawed(move[2], n)
      OBVIOUS
    <3> HIDE DEF file
    <3> QED  BY <1>1, <3>1 DEF UploadInv, UploadType, Clients, Fragments
  <2>2. n \in Nat
    OBVIOUS
  <2> HIDE DEF file
  <2>3. client'.sent = client.sent + Len(bytes)
    BY <2>1, <2>2, <1>2, <1>3
  <2> QED  BY <2>1, <2>2, <2>3, <1>2
<1>7. /\ client'.block \in Seq(Items) /\ Len(client'.block) = Len(client.block) + 1
      /\ client'.block # <<>>
      /\ \A i \in 1..Len(client.block) : client'.block[i] = client.block[i]
      /\ client'.block[Len(client.block) + 1] = item
      /\ Len(client.block) \in Nat
  <2>1. /\ Append(client.block, item) \in Seq(Items) /\ Append(client.block, item) # <<>>
        /\ Len(Append(client.block, item)) = Len(client.block) + 1
        /\ \A i \in 1..Len(client.block) : Append(client.block, item)[i] = client.block[i]
        /\ Append(client.block, item)[Len(client.block) + 1] = item
    BY <1>2, <1>5, AppendProperties
  <2>2. client'.block = Append(client.block, item) /\ Len(client.block) \in Nat
    BY <1>2, <1>6
  <2> QED  BY <2>1, <2>2
<1>8. client'.sent \in Nat /\ client'.sent >= client.sent /\ client'.parts \in Nat
      /\ client'.disposition \in Headers \cup {"none"}
      /\ client'.fields \in Nat /\ client'.length \in Nat /\ client'.flawed \in BOOLEAN
  <2>1. n \in Nat
    OBVIOUS
  <2>2. client'.flawed \in BOOLEAN
    BY <1>2, <1>6 DEF Flawed
  <2>3. Len(bytes) \in Nat
    BY <1>3
  <2>4. client'.sent \in Nat /\ client'.sent >= client.sent
    <3>1. client'.sent = client.sent + Len(bytes)
      BY <1>6
    <3> QED  BY <3>1, <2>3, <1>2
  <2>5. client'.parts \in Nat /\ client'.disposition \in Headers \cup {"none"}
        /\ client'.fields \in Nat
    <3>1. /\ client'.parts \in {client.parts, client.parts + 1}
          /\ client'.fields \in {client.fields, client.fields + 1}
          /\ client'.disposition \in {header, client.disposition}
      BY <1>6
    <3> QED  BY <3>1, <1>2
  <2>6. client'.length \in Nat
    <3>1. client'.length \in {client.length, client.length + n, 0}
      BY <1>6
    <3> QED  BY <3>1, <2>1, <1>2
  <2> QED  BY <2>2, <2>4, <2>5, <2>6
<1>9. UploadType'
  <2>1. client' \in Clients
    <3>1. client'.at \in GrammarStates
      BY <1>4, <1>6
    <3>2. client' = [tenant |-> client'.tenant, multipart |-> client'.multipart,
                     signed |-> client'.signed, at |-> client'.at, block |-> client'.block,
                     sent |-> client'.sent, framing |-> client'.framing,
                     parts |-> client'.parts, disposition |-> client'.disposition,
                     fields |-> client'.fields, length |-> client'.length,
                     flawed |-> client'.flawed]
      BY <1>1 DEF UploadInv, UploadType, Clients
    <3>3. client'.tenant \in BOOLEAN /\ client'.multipart \in BOOLEAN /\ client'.signed \in BOOLEAN
      BY <1>6 DEF UploadInv, UploadType, Clients
    <3> QED  BY <3>1, <3>2, <3>3, <1>6, <1>7, <1>8 DEF Clients
  <2> QED  BY <2>1, <1>1, <1>7 DEF UploadInv, UploadType
<1>10. TakenSoFar'
  BY <1>1, <1>2, <1>8 DEF UploadInv, UploadType, Uploads, TakenSoFar
<1>11. QueueConnects'
  <2>1. PICK trace : Connects(trace, client.block)
    BY <1>1 DEF UploadInv, QueueConnects, Queue
  <2> DEFINE m == Len(client.block) + 1
             last == [at |-> move[3], sent |-> client'.sent, parts |-> client'.parts,
                      disposition |-> client'.disposition, fields |-> client'.fields,
                      length |-> client'.length, flawed |-> client'.flawed]
  <2>2. PICK k, stage : k = m /\ stage = last
    OBVIOUS
  <2> DEFINE longer == [i \in 0..k |-> IF i < k THEN trace[i] ELSE stage]
  <2>3. stage \in Stages /\ ClientIsAt(stage)'
    BY <2>2, <1>4, <1>6, <1>8 DEF Stages, ClientIsAt
  <2>4. Leads(item, trace[k - 1], stage)
    <3>1. ClientIsAt(trace[k - 1])
      BY <2>1, <2>2, <1>7 DEF Connects
    <3>2. item.call = move[2] /\ item.header = header /\ item.bytes = bytes /\ item.size = n
      BY DEF item
    <3>3. <<client.at, item.call, move[3]>> \in Moves
      BY <3>2, <1>1, <1>4
    <3>4. Flawed(move[2], n) <=> Refused(item, trace[k - 1])
      BY <3>1, <3>2 DEF Flawed, Refused, ClientIsAt, Fragments
    <3>5. stage.flawed <=> trace[k - 1].flawed \/ Refused(item, trace[k - 1])
      BY <3>1, <3>4, <1>2, <1>6, <2>2 DEF ClientIsAt
    <3> QED  BY <3>1, <3>2, <3>3, <3>5, <1>1, <1>3, <1>6, <2>2 DEF Leads, ClientIsAt
  <2>5. k \in Nat /\ k = Len(client'.block) /\ k - 1 = Len(client.block) /\ 0 < k
    BY <2>2, <1>7
  <2>6. longer \in [0..k -> Stages] /\ longer[0] = trace[0] /\ longer[k] = stage
    BY <2>1, <2>3, <2>5 DEF Connects
  <2>7. ASSUME NEW i \in 1..k
        PROVE  /\ Leads(client'.block[i], longer[i - 1], longer[i])
               /\ longer[i].sent <= client'.sent /\ (longer[i].flawed => client'.flawed)
    <3>1. CASE i < k
      <4>1. i \in 1..Len(client.block) /\ longer[i - 1] = trace[i - 1] /\ longer[i] = trace[i]
        BY <3>1, <2>5
      <4>2. /\ Leads(client.block[i], trace[i - 1], trace[i])
            /\ trace[i].sent <= client.sent /\ (trace[i].flawed => client'.flawed)
        BY <4>1, <2>1, <1>6 DEF Connects
      <4>3. trace[i].sent \in Nat
        <5>1. i \in 0..Len(client.block)
          BY <4>1, <1>7
        <5> QED  BY <5>1, <2>1 DEF Connects, Stages
      <4>4. client'.block[i] = client.block[i]
        BY <4>1, <1>7
      <4>5. trace[i].sent <= client'.sent
        BY <4>2, <4>3, <1>2, <1>8
      <4> HIDE DEF longer
      <4> QED  BY <4>1, <4>2, <4>4, <4>5
    <3>2. CASE i = k
      <4>1. longer[i - 1] = trace[k - 1] /\ longer[i] = stage
        BY <3>2, <2>5
      <4>2. client'.block[i] = item /\ stage.sent = client'.sent /\ stage.flawed = client'.flawed
        BY <3>2, <2>2, <1>7
      <4> HIDE DEF longer
      <4> QED  BY <4>1, <4>2, <2>4, <1>8
    <3> QED  BY <3>1, <3>2, <2>5
  <2> HIDE DEF longer, last, m
  <2>8. ParserIsAt(trace[0])'
    BY <2>1, <1>1 DEF Connects, ParserIsAt
  <2>9. Connects(longer, client.block)'
    BY <2>3, <2>5, <2>6, <2>7, <2>8, <1>1 DEF Connects, ParserIsAt
  <2> QED  BY <2>9, <1>1 DEF QueueConnects, Queue
<1>12. AnswerFitsUpload'
  BY <1>1 DEF UploadInv, AnswerFitsUpload
<1> QED  BY <1>9, <1>10, <1>11, <1>12 DEF UploadInv

(* A callback that counts a fragment, a header or a part, or nothing. *)
LEMMA FramingKeeps ==
    ASSUME UploadAssumption, UploadInv, state = "reading", pending # <<>>,
           PartBegin \/ HeaderFragment \/ HeaderEnd \/ HeadersFinished \/ Finish \/ Skip
    PROVE  UploadInv'
<1>1. PICK trace :
          /\ Connects(trace, pending)
          /\ ParserIsAt(trace[0]) /\ trace[0] \in Stages /\ trace[1] \in Stages
          /\ Head(pending) \in Items /\ Leads(Head(pending), trace[0], trace[1])
          /\ trace[1].sent <= client.sent /\ (trace[1].flawed => client.flawed)
  BY CallbackFits
<1>2. PICK item, from, to : item = Head(pending) /\ from = trace[0] /\ to = trace[1]
  OBVIOUS
<1>3. /\ ParserIsAt(from) /\ Leads(item, from, to) /\ item \in Items
      /\ from \in Stages /\ to \in Stages /\ (to.flawed => client.flawed)
  BY <1>1, <1>2
<1>4. UploadType /\ TakenSoFar
  BY DEF UploadInv
<1>5. /\ item.call # "part_data" => to.sent = upload.size
      /\ to.parts = IF item.call = "part_begin" THEN upload.parts + 1 ELSE upload.parts
      /\ to.disposition = IF item.header # "other" THEN item.header ELSE upload.disposition
      /\ item.header # "other" => item.call = "header_end"
      /\ item.header \in Headers /\ item.size \in Nat
      /\ from.at = "start" => upload.parts = 0
      /\ upload.parts = 0 => from.at \in {"start", "end"}
      /\ (from.at = "end") = upload.complete
      /\ from.at = "data" \/ (from.at = "end" /\ upload.parts # 0) => upload.disposition = "file"
      /\ <<from.at, item.call, to.at>> \in Moves
      /\ to.fields = IF item.call = "header_end" THEN upload.headers + 1 ELSE upload.headers
      /\ to.length = IF item.call \in Fragments THEN upload.held + item.size
                     ELSE IF item.call = "header_end" THEN 0 ELSE upload.held
      /\ to.flawed <=> Refused(item, from)
      /\ from.parts = upload.parts /\ from.length = upload.held
      /\ from.fields = upload.headers /\ from.disposition = upload.disposition
  <2>1. item.call # "part_data" => Len(item.bytes) = 0
    BY <1>3 DEF Leads
  <2>2. upload.size \in Nat /\ from.sent = upload.size
    BY <1>3, <1>4 DEF ParserIsAt, UploadType, Uploads
  <2>3. to.sent = from.sent + Len(item.bytes)
    BY <1>3 DEF Leads
  <2>4. item.call # "part_data" => to.sent = upload.size
    BY <2>1, <2>2, <2>3
  <2> QED  BY <1>3, <2>4 DEF ParserIsAt, Leads, Items
<1>6. ASSUME NEW fields, Return(fields), fields \in Uploads,
             fields.size = upload.size, fields.digest = upload.digest,
             fields.prefix = upload.prefix, fields.target = upload.target,
             fields.held <= MaxHeaderBytes, item.call # "part_data",
             fields.parts = to.parts, fields.disposition = to.disposition,
             fields.headers = to.fields, fields.held = to.length, ~to.flawed,
             to.at = "start" => fields.parts = 0,
             fields.parts = 0 => to.at \in {"start", "end"},
             (to.at = "end") = fields.complete,
             to.at = "data" \/ (to.at = "end" /\ fields.parts # 0) => fields.disposition = "file"
      PROVE  UploadInv'
  <2>1. /\ upload' = fields /\ pending' = Tail(pending)
        /\ client' = client /\ total' = total /\ state' = state
    BY <1>6 DEF Return
  <2>2. UploadType'
    <3>1. Tail(pending) \in Seq(Items)
      BY <1>4, HeadTailProperties DEF UploadType
    <3>2. client.block = <<>>
      BY <1>4 DEF UploadType
    <3> QED  BY <2>1, <3>1, <3>2, <1>4, <1>6 DEF UploadType
  <2>3. TakenSoFar'
    BY <2>1, <1>4, <1>6 DEF TakenSoFar
  <2>4. ParserIsAt(to)'
    BY <2>1, <1>5, <1>6 DEF ParserIsAt
  <2>5. ParserIsAt(trace[1])'
    BY <2>4, <1>2
  <2> QED  BY <1>1, <1>6, <2>2, <2>3, <2>5, Returned
<1>14. Refused(item, from) => Reason
  BY <1>3, <1>5 DEF Reason
<1>7. upload \in Uploads /\ upload.held <= MaxHeaderBytes /\ MaxHeaderBytes \in Nat
  BY <1>4 DEF UploadType, TakenSoFar, UploadAssumption
<1>8. CASE PartBegin
  <2>1. item.call = "part_begin"
    BY <1>2, <1>8 DEF PartBegin, Calls
  <2>2. CASE upload.parts # 0
    <3>1. Reason
      BY <1>5, <1>14, <2>1, <2>2 DEF Refused
    <3> QED  BY <1>8, <2>2, <3>1, Raised DEF PartBegin, Raise
  <2>3. CASE upload.parts = 0
    <3> DEFINE fields == [upload EXCEPT !.parts = 1]
    <3>1. Return(fields)
      BY <1>8, <2>3 DEF PartBegin
    <3>2. from.at = "start" /\ to.at = "headers" /\ to.parts = 1
      BY <1>5, <2>1, <2>3 DEF Moves
    <3>3. /\ fields \in Uploads /\ fields.size = upload.size /\ fields.digest = upload.digest
          /\ fields.prefix = upload.prefix /\ fields.target = upload.target
          /\ fields.held = upload.held /\ fields.parts = 1 /\ fields.headers = upload.headers
          /\ fields.disposition = upload.disposition /\ fields.complete = upload.complete
      BY <1>7 DEF Uploads
    <3>4. ~to.flawed /\ item.call \notin Fragments
      BY <1>5, <2>1, <2>3 DEF Refused, Fragments
    <3> HIDE DEF fields
    <3> QED  BY <1>5, <1>6, <1>7, <2>1, <3>1, <3>2, <3>3, <3>4
  <2> QED  BY <2>2, <2>3
<1>9. CASE HeaderFragment
  <2>1. item.call \in {"header_field", "header_value"}
    BY <1>2, <1>9 DEF HeaderFragment, Calls
  <2>2. CASE upload.held + item.size > MaxHeaderBytes
    <3>1. Reason
      BY <1>5, <1>14, <2>1, <2>2 DEF Refused, Fragments
    <3> QED  BY <1>2, <1>9, <2>2, <3>1, Raised DEF HeaderFragment, Raise
  <2>3. CASE ~(upload.held + item.size > MaxHeaderBytes)
    <3> DEFINE fields == [upload EXCEPT !.held = @ + item.size]
    <3>1. Return(fields)
      BY <1>2, <1>9, <2>3 DEF HeaderFragment
    <3>2. from.at \in {"headers", "field", "value"} /\ to.at \in {"field", "value"}
      BY <1>5, <2>1 DEF Moves
    <3>3. upload.held \in Nat /\ upload.held + item.size \in Nat
      BY <1>5, <1>7 DEF Uploads
    <3>4. /\ fields \in Uploads /\ fields.size = upload.size /\ fields.digest = upload.digest
          /\ fields.prefix = upload.prefix /\ fields.target = upload.target
          /\ fields.held = upload.held + item.size /\ fields.parts = upload.parts
          /\ fields.headers = upload.headers
          /\ fields.disposition = upload.disposition /\ fields.complete = upload.complete
      BY <1>7, <3>3 DEF Uploads
    <3>5. ~to.flawed /\ item.call \in Fragments
      BY <1>5, <2>1, <2>3 DEF Refused, Fragments
    <3>6. upload.parts # 0
      BY <1>5, <3>2
    <3> HIDE DEF fields
    <3> QED  BY <1>5, <1>6, <1>7, <2>1, <2>3, <3>1, <3>2, <3>3, <3>4, <3>5, <3>6
  <2> QED  BY <2>2, <2>3
<1>10. CASE HeaderEnd
  <2>1. item.call = "header_end"
    BY <1>2, <1>10 DEF HeaderEnd, Calls
  <2>2. CASE upload.headers = MaxHeaders
    <3>1. Reason
      BY <1>5, <1>14, <2>1, <2>2 DEF Refused
    <3> QED  BY <1>10, <2>2, <3>1, Raised DEF HeaderEnd, Raise
  <2>3. CASE upload.headers # MaxHeaders
    <3> DEFINE disposition ==
                   IF item.header = "other" THEN upload.disposition ELSE item.header
               fields == [upload EXCEPT !.headers = @ + 1, !.held = 0,
                              !.disposition = disposition]
    <3>1. Return(fields)
      BY <1>2, <1>10, <2>3 DEF HeaderEnd
    <3>2. from.at = "value" /\ to.at = "headers"
      BY <1>5, <2>1 DEF Moves
    <3>3. /\ fields \in Uploads /\ fields.size = upload.size /\ fields.digest = upload.digest
          /\ fields.prefix = upload.prefix /\ fields.target = upload.target
          /\ fields.held = 0 /\ fields.parts = upload.parts
          /\ fields.headers = upload.headers + 1
          /\ fields.disposition = disposition /\ fields.complete = upload.complete
      <4>1. upload.headers + 1 \in Nat /\ disposition \in Headers \cup {"none"}
        BY <1>5, <1>7 DEF Uploads
      <4> HIDE DEF disposition
      <4> PICK new : new = fields
        OBVIOUS
      <4>2. /\ new.size = upload.size /\ new.digest = upload.digest
            /\ new.prefix = upload.prefix /\ new.target = upload.target
            /\ new.held = 0 /\ new.parts = upload.parts
            /\ new.headers = upload.headers + 1
            /\ new.disposition = disposition /\ new.complete = upload.complete
        BY <1>7 DEF Uploads
      <4>3. new = [size |-> new.size, digest |-> new.digest, prefix |-> new.prefix,
                   target |-> new.target, disposition |-> new.disposition,
                   headers |-> new.headers, held |-> new.held, parts |-> new.parts,
                   complete |-> new.complete]
        BY <1>7 DEF Uploads
      <4>4. /\ new.size \in Nat /\ new.digest \in Seq(Nat) /\ new.prefix \in Seq(Nat)
            /\ new.target \in Seq(Nat) /\ new.disposition \in Headers \cup {"none"}
            /\ new.headers \in Nat /\ new.held \in Nat /\ new.parts \in {0, 1}
            /\ new.complete \in BOOLEAN
        BY <1>7, <4>1, <4>2 DEF Uploads
      <4>5. new \in Uploads
        BY <4>3, <4>4 DEF Uploads
      <4> QED  BY <4>2, <4>5
    <3>4. to.disposition = disposition
      BY <1>5
    <3>5. ~to.flawed /\ item.call \notin Fragments
      BY <1>5, <2>1, <2>3 DEF Refused, Fragments
    <3>6. upload.parts # 0
      BY <1>5, <3>2
    <3>7. 0 <= MaxHeaderBytes
      BY <1>7
    <3> HIDE DEF fields, disposition
    <3> QED  BY <1>5, <1>6, <2>1, <3>1, <3>2, <3>3, <3>4, <3>5, <3>6, <3>7
  <2> QED  BY <2>2, <2>3
<1>11. CASE HeadersFinished
  <2>1. item.call = "headers_finished"
    BY <1>2, <1>11 DEF HeadersFinished, Calls
  <2>2. CASE upload.disposition # "file"
    <3>1. Reason
      BY <1>5, <1>14, <2>1, <2>2 DEF Refused
    <3> QED  BY <1>11, <2>2, <3>1, Raised DEF HeadersFinished, Raise
  <2>3. CASE upload.disposition = "file"
    <3>1. Return(upload)
      BY <1>11, <2>3 DEF HeadersFinished
    <3>2. from.at = "headers" /\ to.at = "data"
      BY <1>5, <2>1 DEF Moves
    <3>3. ~to.flawed /\ item.call \notin Fragments
      BY <1>5, <2>1, <2>3 DEF Refused, Fragments
    <3> QED  BY <1>5, <1>6, <1>7, <2>1, <2>3, <3>1, <3>2, <3>3
  <2> QED  BY <2>2, <2>3
<1>12. CASE Finish
  <2>1. item.call = "end"
    BY <1>2, <1>12 DEF Finish, Calls
  <2> DEFINE fields == [upload EXCEPT !.complete = TRUE]
  <2>2. Return(fields)
    BY <1>12 DEF Finish
  <2>3. from.at \in {"start", "data"} /\ to.at = "end"
    BY <1>5, <2>1 DEF Moves
  <2>4. /\ fields \in Uploads /\ fields.size = upload.size /\ fields.digest = upload.digest
        /\ fields.prefix = upload.prefix /\ fields.target = upload.target
        /\ fields.held = upload.held /\ fields.parts = upload.parts
        /\ fields.headers = upload.headers
        /\ fields.disposition = upload.disposition /\ fields.complete = TRUE
    BY <1>7 DEF Uploads
  <2>5. ~to.flawed /\ item.call \notin Fragments
    BY <1>5, <2>1 DEF Refused, Fragments
  <2> HIDE DEF fields
  <2> QED  BY <1>5, <1>6, <1>7, <2>1, <2>2, <2>3, <2>4, <2>5
<1>13. CASE Skip
  <2>1. item.call = "none"
    BY <1>2, <1>13 DEF Skip, Calls
  <2>2. Return(upload)
    BY <1>13 DEF Skip
  <2>3. from.at = to.at
    BY <1>5, <2>1 DEF Moves
  <2>4. ~to.flawed /\ item.call \notin Fragments
    BY <1>5, <2>1 DEF Refused, Fragments
  <2> QED  BY <1>5, <1>6, <1>7, <2>1, <2>2, <2>3, <2>4
<1> QED  BY <1>8, <1>9, <1>10, <1>11, <1>12, <1>13

(* What the parser cannot parse is flawed. *)
LEMMA ParseErrorKeeps ==
    ASSUME UploadAssumption, UploadInv, ParseError
    PROVE  UploadInv'
<1>1. state = "reading" /\ pending # <<>> /\ Head(pending).call = "error" /\ Respond("400")
  BY DEF ParseError, Calls, Raise
<1>2. PICK trace : /\ Leads(Head(pending), trace[0], trace[1])
                   /\ trace[1].flawed => client.flawed
  BY <1>1, CallbackFits
<1>3. Reason
  BY <1>1, <1>2 DEF Leads, Refused, Reason
<1> QED  BY <1>1, <1>3, Raised

(* A block of the file is counted, hashed and spooled, or it is too much.   *)
LEMMA PartDataKeeps ==
    ASSUME UploadAssumption, UploadInv, PartData
    PROVE  UploadInv'
<1>1. state = "reading" /\ pending # <<>> /\ Head(pending).call = "part_data"
  BY DEF PartData, Calls
<1>2. PICK trace :
          /\ Connects(trace, pending)
          /\ ParserIsAt(trace[0]) /\ trace[0] \in Stages /\ trace[1] \in Stages
          /\ Head(pending) \in Items /\ Leads(Head(pending), trace[0], trace[1])
          /\ trace[1].sent <= client.sent
  BY <1>1, CallbackFits
<1>3. PICK item, from, to, block, n :
          /\ item = Head(pending) /\ from = trace[0] /\ to = trace[1]
          /\ block = item.bytes /\ n = Len(block)
  OBVIOUS
<1>4. UploadType /\ TakenSoFar /\ upload \in Uploads /\ MaxBytes \in Nat /\ Sniffed \in Nat
      /\ client \in Clients
  BY DEF UploadInv, UploadType, UploadAssumption
<1>5. /\ upload.size \in Nat /\ block \in Seq(Nat) /\ n \in Nat /\ Len(block) = n
      /\ to.sent = upload.size + n /\ to.sent <= client.sent /\ client.sent \in Nat
      /\ \A i \in 1..n : block[i] = upload.size + i
      /\ to.parts = upload.parts /\ to.disposition = upload.disposition
      /\ from.at = "data" /\ to.at = "data"
      /\ upload.parts # 0 /\ upload.complete = FALSE /\ upload.disposition = "file"
      /\ to.fields = upload.headers /\ to.length = upload.held /\ ~to.flawed
  <2>1. item.call = "part_data" /\ ParserIsAt(from) /\ Leads(item, from, to) /\ item \in Items
        /\ to.sent <= client.sent
    BY <1>1, <1>2, <1>3
  <2>2. from.at = "data" /\ to.at = "data"
    BY <2>1 DEF Leads, Moves
  <2>3. from.sent = upload.size /\ from.parts = upload.parts
        /\ from.disposition = upload.disposition
        /\ upload.parts # 0 /\ upload.complete = FALSE /\ upload.disposition = "file"
        /\ from.fields = upload.headers /\ from.length = upload.held /\ ~from.flawed
    BY <2>1, <2>2, <1>4 DEF ParserIsAt, Uploads
  <2>4. block \in Seq(Nat) /\ n \in Nat /\ Len(block) = n /\ upload.size \in Nat /\ client.sent \in Nat
    BY <2>1, <1>3, <1>4 DEF Items, Uploads, Clients
  <2>5. /\ item.header = "other" /\ to.parts = from.parts /\ to.disposition = from.disposition
        /\ to.sent = from.sent + n
        /\ \A i \in 1..n : block[i] = from.sent + i
        /\ to.fields = from.fields /\ to.length = from.length
        /\ to.flawed <=> from.flawed
    BY <2>1, <1>3 DEF Leads, Refused, Fragments
  <2> QED  BY <2>1, <2>2, <2>3, <2>4, <2>5
<1>6. CASE FileTooLarge(upload.size + n)
  <2>1. Respond("413")
    BY <1>3, <1>6 DEF PartData, Raise
  <2>2. client.sent > MaxBytes
    BY <1>4, <1>5, <1>6 DEF FileTooLarge
  <2>3. Len(upload.target) = upload.size
    BY <1>4, TargetLength
  <2>4. AnswerFitsUpload'
    BY <2>1, <2>2, <2>3, <1>4 DEF AnswerFitsUpload, Respond, TakenSoFar
  <2> QED  BY <2>1, <2>4, Responded
<1>7. CASE ~FileTooLarge(upload.size + n)
  <2>1. PICK new : new = [upload EXCEPT !.size = @ + n, !.prefix = Prefix(@, block),
                              !.digest = @ \o block, !.target = @ \o block]
    OBVIOUS
  <2>2. Return(new)
    BY <1>3, <1>7, <2>1 DEF PartData
  <2>3. upload' = new /\ pending' = Tail(pending)
        /\ client' = client /\ total' = total /\ state' = state
    BY <2>2 DEF Return
  <2>4. PICK prefix : prefix = Prefix(upload.prefix, block)
    OBVIOUS
  <2>5. PICK target : target = upload.target \o block
    OBVIOUS
  <2>6. upload.digest \o block = target
    BY <2>5, <1>4 DEF TakenSoFar
  <2>7. new = [upload EXCEPT !.size = @ + n, !.prefix = prefix, !.digest = target,
                   !.target = target]
    BY <2>1, <2>4, <2>5, <2>6, Zenon
  <2>8. /\ new.size = upload.size + n /\ new.prefix = prefix /\ new.digest = target
        /\ new.target = target /\ new.disposition = upload.disposition
        /\ new.headers = upload.headers /\ new.held = upload.held
        /\ new.parts = upload.parts /\ new.complete = upload.complete
        /\ new = [size |-> new.size, digest |-> new.digest, prefix |-> new.prefix,
                   target |-> new.target, disposition |-> new.disposition,
                   headers |-> new.headers, held |-> new.held, parts |-> new.parts,
                   complete |-> new.complete]
    BY <2>7, <1>4 DEF Uploads
  <2>9. target = FirstBytes(upload.size + n)
    BY <2>5, <1>4, <1>5, FirstBytesAppend DEF TakenSoFar
  <2>10. prefix = FirstBytes(Least(upload.size + n, Sniffed))
    BY <2>4, <1>4, <1>5, PrefixOfFirstBytes DEF TakenSoFar
  <2>11. target \in Seq(Nat) /\ prefix \in Seq(Nat) /\ upload.size + n \in Nat
    <3>1. \A k \in Nat : FirstBytes(k) \in Seq(Nat)
      BY SeqDef DEF FirstBytes
    <3>2. upload.size + n \in Nat /\ Least(upload.size + n, Sniffed) \in Nat
      BY <1>4, <1>5 DEF Least
    <3> QED  BY <3>1, <3>2, <2>9, <2>10
  <2>12. new \in Uploads
    <3>1. /\ new.size \in Nat /\ new.digest \in Seq(Nat) /\ new.prefix \in Seq(Nat)
          /\ new.target \in Seq(Nat) /\ new.disposition \in Headers \cup {"none"}
          /\ new.headers \in Nat /\ new.held \in Nat /\ new.parts \in {0, 1}
          /\ new.complete \in BOOLEAN
      BY <1>4, <2>8, <2>11 DEF Uploads
    <3> QED  BY <2>8, <3>1 DEF Uploads
  <2>13. UploadType'
    <3>1. Tail(pending) \in Seq(Items) /\ client.block = <<>>
      BY <1>1, <1>4, HeadTailProperties DEF UploadType
    <3> QED  BY <2>3, <2>12, <3>1, <1>4 DEF UploadType
  <2>14. TakenSoFar'
    <3>1. upload.size + n <= MaxBytes
      BY <1>4, <1>5, <1>7 DEF FileTooLarge
    <3> QED  BY <2>3, <2>8, <2>9, <2>10, <3>1, <1>4, <1>5 DEF TakenSoFar
  <2>15. ParserIsAt(to)'
    BY <2>3, <2>8, <1>5 DEF ParserIsAt
  <2>16. ParserIsAt(trace[1])'
    BY <2>15, <1>3
  <2> QED  BY <1>1, <1>2, <2>2, <2>13, <2>14, <2>16, Returned
<1> QED  BY <1>6, <1>7

(* A block arrives, and has too many bytes or is handed to the parser.      *)
LEMMA ReceiveKeeps ==
    ASSUME UploadAssumption, UploadInv, Receive
    PROVE  UploadInv'
<1>1. /\ state = "reading" /\ pending = <<>> /\ client.block # <<>>
      /\ total' = client.sent + client.framing
      /\ client' = [client EXCEPT !.block = <<>>]
      /\ upload' = upload
  BY DEF Receive
<1>2. /\ UploadType /\ TakenSoFar /\ client \in Clients
      /\ client.sent \in Nat /\ client.framing \in Nat
  BY DEF UploadInv, UploadType, Clients
<1>3. client' \in Clients /\ client'.sent = client.sent /\ client'.framing = client.framing
      /\ client'.at = client.at /\ client'.parts = client.parts
      /\ client'.disposition = client.disposition /\ client'.block = <<>>
      /\ client'.signed = client.signed /\ client'.fields = client.fields
      /\ client'.length = client.length /\ client'.flawed = client.flawed
  <2>1. <<>> \in Seq(Items)
    OBVIOUS
  <2> QED  BY <2>1, <1>1, <1>2 DEF Clients
<1>4. TakenSoFar' /\ Len(upload'.target) = upload'.size
  BY <1>1, <1>2, <1>3, TargetLength DEF TakenSoFar
<1>5. CASE TooLarge(total')
  <2>1. state' = "413" /\ pending' = pending
    BY <1>5 DEF Receive
  <2>2. UploadType'
    BY <2>1, <1>1, <1>2, <1>3 DEF UploadType
  <2>3. client.sent > MaxBytes \/ client.framing > Framing
    BY <1>1, <1>2, <1>5 DEF TooLarge, UploadAssumption
  <2>4. QueueConnects' /\ AnswerFitsUpload'
    BY <2>1, <2>3, <1>3, <1>4 DEF QueueConnects, AnswerFitsUpload, TakenSoFar
  <2> QED  BY <2>2, <2>4, <1>4 DEF UploadInv
<1>6. CASE ~TooLarge(total')
  <2>1. state' = state /\ pending' = client.block
    BY <1>6 DEF Receive
  <2>2. UploadType'
    BY <2>1, <1>1, <1>2, <1>3 DEF UploadType
  <2>3. Queue' = client.block
    BY <2>1, <1>1 DEF Queue
  <2>4. PICK trace : Connects(trace, client.block)
    BY <1>1 DEF UploadInv, QueueConnects, Queue
  <2>5. PICK last : last = trace[Len(client.block)]
    OBVIOUS
  <2>6. ParserIsAt(trace[0])' /\ ClientIsAt(last)'
    BY <2>4, <2>5, <1>1, <1>3 DEF Connects, ParserIsAt, ClientIsAt
  <2>7. Connects(trace, pending)'
    BY <2>1, <2>4, <2>5, <2>6, <1>3 DEF Connects
  <2>8. QueueConnects'
    BY <2>1, <2>3, <2>7 DEF QueueConnects
  <2>9. AnswerFitsUpload'
    BY <2>1, <1>1, <1>4 DEF AnswerFitsUpload, TakenSoFar
  <2> QED  BY <2>2, <2>8, <2>9, <1>4 DEF UploadInv
<1> QED  BY <1>5, <1>6

(* Only a body that ends with its closing boundary, after one part, is read. *)
LEMMA EndOfStreamKeeps ==
    ASSUME UploadAssumption, UploadInv, EndOfStream
    PROVE  UploadInv'
<1>1. state = "reading" /\ pending = <<>> /\ client.block = <<>>
  BY DEF EndOfStream
<1>2. PICK stage : ParserIsAt(stage) /\ ClientIsAt(stage)
  <2>1. PICK trace : Connects(trace, <<>>)
    BY <1>1 DEF UploadInv, QueueConnects, Queue
  <2>2. Len(<<>>) = 0
    OBVIOUS
  <2> QED  BY <2>1, <2>2 DEF Connects
<1>3. /\ client.parts = upload.parts /\ (client.at = "end") = upload.complete
      /\ client.sent = upload.size /\ ~client.flawed
      /\ client.at = "end" /\ client.parts # 0 => client.disposition = "file"
  BY <1>2 DEF ParserIsAt, ClientIsAt
<1>4. CASE ~Whole
  <2>1. Reason
    <3>1. upload.complete \in BOOLEAN
      BY DEF UploadInv, UploadType, Uploads
    <3> QED  BY <3>1, <1>1, <1>3, <1>4 DEF Reason, Whole
  <2> QED  BY <2>1, <1>4, Raised DEF EndOfStream
<1>5. CASE Whole
  <2>1. Respond("read")
    BY <1>5 DEF EndOfStream
  <2>2. /\ client.at = "end" /\ client.sent = upload.size /\ client.parts = 1
        /\ client.disposition = "file" /\ ~client.flawed
    <3>1. upload.complete = TRUE /\ upload.parts = 1
      BY <1>5 DEF Whole, UploadInv, UploadType, Uploads
    <3>2. client.at = "end"
      BY <3>1, <1>3
    <3> QED  BY <3>1, <3>2, <1>3
  <2>3. Len(upload.target) = upload.size
    BY TargetLength DEF UploadInv
  <2>4. upload.target = [i \in 1..client.sent |-> i]
    BY <2>2 DEF UploadInv, TakenSoFar, FirstBytes
  <2>5. AnswerFitsUpload'
    BY <2>1, <2>2, <2>3, <2>4 DEF AnswerFitsUpload, Respond, UploadInv, TakenSoFar
  <2> QED  BY <2>1, <2>5, Responded
<1> QED  BY <1>4, <1>5

(* What was sniffed tells whether the file begins with a signature.         *)
LEMMA RegisterKeeps ==
    ASSUME UploadAssumption, UploadInv, Register
    PROVE  UploadInv'
<1>1. state = "read" /\ UploadType /\ TakenSoFar /\ AnswerFitsUpload
  BY DEF Register, UploadInv
<1>2. ASSUME NEW code \in {"202", "503"}, Respond(code)
      PROVE  UploadInv'
  <2>1. AnswerFitsUpload'
    BY <1>1, <1>2 DEF AnswerFitsUpload, Respond
  <2> QED  BY <1>2, <2>1, Responded
<1>3. CASE Supported(upload.prefix)
  BY <1>2, <1>3 DEF Register
<1>4. CASE ~Supported(upload.prefix)
  <2>1. Respond("415")
    BY <1>4 DEF Register
  <2>2. ~client.signed \/ client.sent < SignatureBytes
    <3> DEFINE l == Least(client.sent, Sniffed)
    <3>1. client.sent \in Nat /\ Sniffed \in Nat /\ SignatureBytes \in 1..Sniffed
      BY <1>1 DEF UploadType, Clients, UploadAssumption
    <3>2. client.sent = upload.size
      BY <1>1 DEF AnswerFitsUpload
    <3>3. upload.prefix = FirstBytes(l)
      BY <3>2, <1>1 DEF TakenSoFar
    <3>4. l \in Nat /\ (client.sent >= SignatureBytes => l >= SignatureBytes)
      BY <3>1 DEF Least
    <3> HIDE DEF l
    <3>5. Len(upload.prefix) = l /\ \A i \in 1..l : upload.prefix[i] = i
      BY <3>3, <3>4, SeqDef DEF FirstBytes
    <3> QED  BY <1>4, <3>1, <3>4, <3>5 DEF Supported
  <2>3. AnswerFitsUpload'
    BY <1>1, <2>1, <2>2 DEF AnswerFitsUpload, Respond
  <2> QED  BY <2>1, <2>3, Responded
<1> QED  BY <1>3, <1>4

(* Nothing but the state of the handler changes when it starts. *)
LEMMA StartKeeps ==
    ASSUME UploadAssumption, UploadInv, Start
    PROVE  UploadInv'
<1>1. CASE client.tenant /\ client.multipart
  <2>1. /\ state = "new" /\ state' = "reading" /\ client' = client /\ total' = total
        /\ pending' = pending /\ upload' = upload
    BY <1>1 DEF Start, Respond
  <2>2. UploadType' /\ TakenSoFar'
    BY <2>1 DEF UploadInv, UploadType, TakenSoFar
  <2>3. PICK trace : Connects(trace, Queue)
    BY <2>1 DEF UploadInv, QueueConnects
  <2>4. PICK queue, last : queue = Queue /\ last = trace[Len(queue)]
    OBVIOUS
  <2>5. Queue' = queue
    BY <2>1, <2>4 DEF Queue
  <2>6. ParserIsAt(trace[0])' /\ ClientIsAt(last)'
    BY <2>1, <2>3, <2>4 DEF Connects, ParserIsAt, ClientIsAt
  <2>7. Connects(trace, queue)'
    BY <2>1, <2>3, <2>4, <2>6 DEF Connects
  <2>8. QueueConnects'
    BY <2>1, <2>5, <2>7 DEF QueueConnects
  <2>9. AnswerFitsUpload'
    BY <2>1 DEF UploadInv, AnswerFitsUpload
  <2> QED  BY <2>2, <2>8, <2>9 DEF UploadInv
<1>2. CASE ~(client.tenant /\ client.multipart)
  BY <1>2, Raised DEF Start, Reason
<1> QED  BY <1>1, <1>2

LEMMA UploadRests ==
    ASSUME UploadInv, UNCHANGED uploadVars
    PROVE  UploadInv'
<1>1. /\ client' = client /\ total' = total /\ pending' = pending /\ upload' = upload
      /\ state' = state
  BY DEF uploadVars
<1>2. UploadType' /\ TakenSoFar' /\ AnswerFitsUpload'
  BY <1>1 DEF UploadInv, UploadType, TakenSoFar, AnswerFitsUpload
<1>3. QueueConnects'
  <2> SUFFICES ASSUME state \in {"new", "reading"}
               PROVE  \E trace : Connects(trace, Queue)'
    BY <1>1 DEF QueueConnects
  <2>1. PICK trace : Connects(trace, Queue)
    BY DEF UploadInv, QueueConnects
  <2>2. Connects(trace, Queue)'
    BY <1>1, <2>1 DEF Connects, ParserIsAt, ClientIsAt, Queue
  <2> QED  BY <2>2
<1> QED  BY <1>2, <1>3 DEF UploadInv

-----------------------------------------------------------------------------

(* The upload's inductive invariant: the file as spooled is the beginning   *)
(* of the file as sent, and the callbacks still queued connect the two.     *)
THEOREM UploadInvariant ==
    ASSUME UploadAssumption
    PROVE  UploadSpec => []UploadInv
<1>1. UploadInit => UploadInv
  BY UploadStarts
<1>2. UploadInv /\ [UploadNext]_uploadVars => UploadInv'
  <2> SUFFICES ASSUME UploadInv, [UploadNext]_uploadVars
               PROVE  UploadInv'
    OBVIOUS
  <2>1. CASE UNCHANGED uploadVars
    BY <2>1, UploadRests
  <2>2. CASE Start
    BY <2>2, StartKeeps
  <2>3. ASSUME NEW move \in Moves, NEW n \in 1..2, NEW header \in Headers,
               Send(move, n, header)
        PROVE  UploadInv'
    BY <2>3, SendKeeps
  <2>4. CASE Receive
    BY <2>4, ReceiveKeeps
  <2>5. CASE PartBegin \/ HeaderFragment \/ HeaderEnd \/ HeadersFinished \/ Finish \/ Skip
    <3>1. state = "reading" /\ pending # <<>>
      BY <2>5 DEF PartBegin, HeaderFragment, HeaderEnd, HeadersFinished, Finish, Skip, Calls
    <3> QED  BY <2>5, <3>1, FramingKeeps
  <2>6. CASE PartData
    BY <2>6, PartDataKeeps
  <2>7. CASE ParseError \/ Disconnect
    BY <2>7, ParseErrorKeeps, Raised DEF Disconnect
  <2>8. CASE EndOfStream
    BY <2>8, EndOfStreamKeeps
  <2>9. CASE Register
    BY <2>9, RegisterKeeps
  <2>10. CASE Answered
    BY <2>10, UploadRests DEF Answered
  <2> QED  BY <2>1, <2>2, <2>3, <2>4, <2>5, <2>6, <2>7, <2>8, <2>9, <2>10 DEF UploadNext
<1> QED  BY <1>1, <1>2, PTL DEF UploadSpec

(* The answer fits the upload, however the client cuts it into blocks and   *)
(* the parser cuts blocks into callbacks (upload.py, read and part_data;    *)
(* media_type), for all limits.                                             *)
THEOREM UploadSafety ==
    ASSUME UploadAssumption
    PROVE  UploadSpec => []AnswerFitsUpload
<1>1. UploadInv => AnswerFitsUpload
  BY DEF UploadInv
<1> QED  BY <1>1, UploadInvariant, PTL

-----------------------------------------------------------------------------
(* Indexing. What one attempt has computed after some of the pages is what  *)
(* these pages determine.                                                   *)

IndexingSteps ==
    {"mark", "download", "extract", "analyze", "embed", "store", "mark processed", "done", "failed"}

Texts == Seq(STRING)
Mentions == [text: STRING, page: Nat, start: Nat]
ChunkRows == [page: Nat, ord: Nat]

Jobs ==
    [step: IndexingSteps, bytes: Seq(STRING), pages: Seq(Texts),
     languages: Seq({"en", "hr", "und"}), remaining: Nat, mentions: SUBSET Mentions,
     chunks: Seq(ChunkRows), vectors: Seq(Dimensions)]

IndexingType ==
    /\ object \in Seq(STRING) \cup {Missing}
    /\ event.bytes \in Originals
    /\ status \in {"registered", "processing", "processed"}
    /\ job \in Jobs

(* The entity budget after the first n pages. *)
BudgetLeft(pages, n) ==
    LET used == CharactersBefore(pages, n + 1)
    IN  IF used < NerMaxChars THEN NerMaxChars - used ELSE 0

(* The places of names on the first n pages, within the budget. *)
NamedPlaces(pages, n) ==
    {pl \in Places(pages, NerMaxChars) : pl[1] <= n /\ pages[pl[1]][pl[2]] \in Spellings}

MentionAt(pages, pl) == [text |-> pages[pl[1]][pl[2]], page |-> pl[1], start |-> pl[2]]

ChunksOf(chunks, pages, n) ==
    /\ \A i \in 1..Len(chunks) : chunks[i].ord = i - 1 /\ chunks[i].page <= n
    /\ \A i \in 1..(Len(chunks) - 1) : chunks[i].page <= chunks[i + 1].page
    /\ \A p \in 1..n : pages[p] # <<>> => \E i \in 1..Len(chunks) : chunks[i].page = p

(* The pages that the attempt has analyzed: those with a language. *)
AnalyzedPages(attempt) ==
    LET n == Len(attempt.languages)
    IN  /\ n <= Len(attempt.pages)
        /\ attempt.remaining = BudgetLeft(attempt.pages, n)
        /\ attempt.mentions =
               {MentionAt(attempt.pages, pl) : pl \in NamedPlaces(attempt.pages, n)}
        /\ ChunksOf(attempt.chunks, attempt.pages, n)

JobIsOnTrack ==
    /\ job.step \in {"mark", "download", "extract"} =>
           /\ job.languages = <<>> /\ job.remaining = NerMaxChars
           /\ job.mentions = {} /\ job.chunks = <<>>
    /\ job.step \in {"extract", "analyze", "embed", "store"} =>
           job.bytes = event.bytes /\ MediaType(job.bytes[1]) = event.media
    /\ job.step \in {"analyze", "embed", "store"} => AnalyzedPages(job)
    /\ job.step \in {"embed", "store"} => Len(job.languages) = Len(job.pages)
    /\ job.step = "mark processed" => stored # NoRows

IndexingInv ==
    /\ IndexingType
    /\ JobIsOnTrack
    /\ StoredIsTheDocument

-----------------------------------------------------------------------------

(* The characters before the first page are none, and the next page adds its *)
(* own.                                                                      *)
LEMMA CharactersGrow ==
    ASSUME NEW pages \in Seq(Texts), NEW n \in 0..Len(pages)
    PROVE  /\ CharactersBefore(pages, n + 1) \in Nat
           /\ n = 0 => CharactersBefore(pages, n + 1) = 0
           /\ n # Len(pages) => CharactersBefore(pages, (n + 1) + 1) =
                                   CharactersBefore(pages, n + 1) + Len(pages[n + 1])
<1> DEFINE Lens(m) == [q \in 1..m |-> Len(pages[q])]
<1>1. \A q \in 1..Len(pages) : Len(pages[q]) \in Nat
  BY ElementOfSeq DEF Texts
<1>2. ASSUME NEW m \in 0..Len(pages)
      PROVE  /\ CharactersBefore(pages, m + 1) = SumFunctionOnSet(Lens(m), 1..m)
             /\ IsFiniteSet(1..m) /\ \A q \in 1..m : Lens(m)[q] \in Nat /\ Lens(m)[q] = Len(pages[q])
  <2>1. (m + 1) - 1 = m
    OBVIOUS
  <2> QED  BY <1>1, <2>1, FS_Interval DEF CharactersBefore
<1> HIDE DEF Lens
<1>3. CharactersBefore(pages, n + 1) \in Nat
  BY <1>2, SumNatural
<1>4. ASSUME n = 0 PROVE CharactersBefore(pages, n + 1) = 0
  <2>1. 1..n = {}
    BY <1>4
  <2> QED  BY <1>2, <2>1, SumStep
<1>5. ASSUME n # Len(pages)
      PROVE  CharactersBefore(pages, (n + 1) + 1) =
                 CharactersBefore(pages, n + 1) + Len(pages[n + 1])
  <2>1. n + 1 \in 0..Len(pages) /\ n + 1 \notin 1..n /\ (1..n) \cup {n + 1} = 1..(n + 1)
        /\ n + 1 \in 1..(n + 1)
    BY <1>5
  <2>2. /\ \A q \in 1..n : Lens(n + 1)[q] = Lens(n)[q] /\ Lens(n)[q] \in Int
        /\ Lens(n + 1)[n + 1] = Len(pages[n + 1]) /\ Lens(n + 1)[n + 1] \in Int
    <3>1. \A q \in 1..n : q \in 1..(n + 1)
      OBVIOUS
    <3> QED  BY <1>2, <2>1, <3>1
  <2>3. SumFunctionOnSet(Lens(n + 1), (1..n) \cup {n + 1}) =
            SumFunctionOnSet(Lens(n), 1..n) + Lens(n + 1)[n + 1]
    <3>1. PICK S, e, F, G : S = 1..n /\ e = n + 1 /\ F = Lens(n) /\ G = Lens(n + 1)
      OBVIOUS
    <3>2. /\ IsFiniteSet(S) /\ e \notin S /\ G[e] \in Int
          /\ \A q \in S : G[q] = F[q] /\ F[q] \in Int
      BY <3>1, <1>2, <2>1, <2>2
    <3>3. SumFunctionOnSet(G, S \cup {e}) = SumFunctionOnSet(F, S) + G[e]
      BY <3>2, SumGrows
    <3> QED  BY <3>1, <3>3
  <2> QED  BY <1>2, <2>1, <2>2, <2>3
<1> QED  BY <1>3, <1>4, <1>5

LEMMA PlacesAre ==
    ASSUME NEW pages, NEW n, NEW pl
    PROVE  pl \in Places(pages, n) <=>
             \E p \in 1..Len(pages) : \E i \in 1..Len(pages[p]) :
                 pl = <<p, i>> /\ CharactersBefore(pages, p) + i <= n
BY DEF Places

(* The beginning of a text is itself a text. *)
LEMMA TakenIsPrefix ==
    ASSUME NEW text \in Texts, NEW n \in Nat
    PROVE  /\ Taken(text, n) \in Texts /\ Len(Taken(text, n)) = Least(Len(text), n)
           /\ DOMAIN Taken(text, n) = 1..Least(Len(text), n)
           /\ \A i \in 1..Least(Len(text), n) : Taken(text, n)[i] = text[i]
<1> DEFINE k == Least(Len(text), n)
<1>1. Len(text) \in Nat /\ k \in Nat /\ k <= Len(text)
  BY DEF Least, Texts
<1>2. Taken(text, n) = SubSeq(text, 1, k)
  BY DEF Taken, Least
<1> HIDE DEF k
<1>3. \A i \in 1..k : text[i] \in STRING
  BY <1>1, ElementOfSeq DEF Texts
<1>4. /\ SubSeq(text, 1, k) \in Seq(STRING)
      /\ Len(SubSeq(text, 1, k)) = IF 1 <= k THEN k - 1 + 1 ELSE 0
      /\ \A i \in 1..(k - 1 + 1) : SubSeq(text, 1, k)[i] = text[1 + i - 1]
  <2>1. 1 \in Int /\ k \in Int
    BY <1>1
  <2> QED  BY <2>1, <1>3, SubSeqProperties
<1>5. Len(SubSeq(text, 1, k)) = k /\ \A i \in 1..k : SubSeq(text, 1, k)[i] = text[i]
  BY <1>1, <1>4
<1>6. DOMAIN SubSeq(text, 1, k) = 1..k
  BY <1>4, <1>5, LenProperties
<1> QED  BY <1>2, <1>4, <1>5, <1>6 DEF k, Texts

PlacesFound(page, read) == {<<page, i>> : i \in {i \in DOMAIN read : read[i] \in Spellings}}

(* Reading the next page within the budget finds its named places. *)
LEMMA NamedPlacesGrow ==
    ASSUME NEW pages \in Seq(Texts), NEW n \in 0..Len(pages), n # Len(pages),
           NerMaxChars \in Nat, NEW taken, taken = Taken(pages[n + 1], BudgetLeft(pages, n))
    PROVE  /\ NamedPlaces(pages, n + 1) =
                  NamedPlaces(pages, n) \cup PlacesFound(n + 1, taken)
           /\ BudgetLeft(pages, n + 1) = BudgetLeft(pages, n) - Len(taken)
           /\ \A i \in DOMAIN taken : i \in 1..Len(pages[n + 1]) /\ taken[i] = pages[n + 1][i]
<1> DEFINE page == n + 1
           text == pages[page]
           before == CharactersBefore(pages, page)
           left == BudgetLeft(pages, n)
<1>1. page \in 1..Len(pages) /\ text \in Texts /\ Len(text) \in Nat
  BY ElementOfSeq DEF Texts
<1>2. before \in Nat /\ CharactersBefore(pages, page + 1) = before + Len(text)
  BY CharactersGrow
<1>3. left \in Nat /\ left = IF before < NerMaxChars THEN NerMaxChars - before ELSE 0
  BY <1>2 DEF BudgetLeft
<1>4. /\ Len(taken) = Least(Len(text), left) /\ DOMAIN taken = 1..Least(Len(text), left)
      /\ \A i \in DOMAIN taken : taken[i] = text[i]
  <2>1. PICK t, l : t = text /\ l = left
    OBVIOUS
  <2>2. t \in Texts /\ l \in Nat
    BY <2>1, <1>1, <1>3
  <2>3. /\ Len(Taken(t, l)) = Least(Len(t), l) /\ DOMAIN Taken(t, l) = 1..Least(Len(t), l)
        /\ \A i \in 1..Least(Len(t), l) : Taken(t, l)[i] = t[i]
    BY <2>2, TakenIsPrefix
  <2>4. taken = Taken(t, l)
    BY <2>1
  <2> QED  BY <2>1, <2>3, <2>4
<1>5. BudgetLeft(pages, page) = left - Len(taken)
  <2>1. BudgetLeft(pages, page) = IF before + Len(text) < NerMaxChars
                                  THEN NerMaxChars - (before + Len(text)) ELSE 0
    BY <1>2 DEF BudgetLeft
  <2>2. PICK b, l, k : b = before /\ l = left /\ k = Len(text)
    OBVIOUS
  <2>3. /\ b \in Nat /\ l \in Nat /\ k \in Nat
        /\ l = IF b < NerMaxChars THEN NerMaxChars - b ELSE 0
        /\ BudgetLeft(pages, page) = IF b + k < NerMaxChars THEN NerMaxChars - (b + k) ELSE 0
        /\ Len(taken) = IF k < l THEN k ELSE l
    BY <2>1, <2>2, <1>1, <1>2, <1>3, <1>4 DEF Least
  <2>4. BudgetLeft(pages, page) = l - Len(taken)
    BY <2>3
  <2> QED  BY <2>2, <2>4
<1>6. \A i \in 1..Len(text) : i \in DOMAIN taken <=> before + i <= NerMaxChars
  <2> HIDE DEF text, left, before
  <2> QED  BY <1>1, <1>2, <1>3, <1>4 DEF Least
<1>7. \A i \in DOMAIN taken : i \in 1..Len(text)
  <2> HIDE DEF text, left, before
  <2> QED  BY <1>1, <1>3, <1>4 DEF Least
<1>8. ASSUME NEW pl
      PROVE  pl \in NamedPlaces(pages, page) <=>
               \/ pl \in NamedPlaces(pages, n)
               \/ \E i \in DOMAIN taken : taken[i] \in Spellings /\ pl = <<page, i>>
  <2>1. ASSUME pl \in NamedPlaces(pages, page), pl \notin NamedPlaces(pages, n)
        PROVE  \E i \in DOMAIN taken : taken[i] \in Spellings /\ pl = <<page, i>>
    <3>. PICK p \in 1..Len(pages) : \E i \in 1..Len(pages[p]) :
              pl = <<p, i>> /\ CharactersBefore(pages, p) + i <= NerMaxChars
      BY <2>1, PlacesAre DEF NamedPlaces
    <3>1. PICK i \in 1..Len(pages[p]) :
              pl = <<p, i>> /\ CharactersBefore(pages, p) + i <= NerMaxChars
      OBVIOUS
    <3>2. p = page /\ pages[p][i] \in Spellings
      <4>1. p <= page /\ pages[p][i] \in Spellings /\ ~(p <= n)
        BY <2>1, <3>1 DEF NamedPlaces
      <4> QED  BY <4>1
    <3>3. i \in DOMAIN taken
      BY <3>1, <3>2, <1>6
    <3> QED  BY <3>1, <3>2, <3>3, <1>4
  <2>2. ASSUME pl \in NamedPlaces(pages, n)
        PROVE  pl \in NamedPlaces(pages, page)
    <3>1. PICK p \in 1..Len(pages) : \E i \in 1..Len(pages[p]) : pl = <<p, i>>
      BY <2>2, PlacesAre DEF NamedPlaces
    <3>2. p <= n
      BY <2>2, <3>1 DEF NamedPlaces
    <3>3. p <= page
      BY <3>2
    <3> QED  BY <2>2, <3>1, <3>3 DEF NamedPlaces
  <2>3. ASSUME NEW i \in DOMAIN taken, taken[i] \in Spellings, pl = <<page, i>>
        PROVE  pl \in NamedPlaces(pages, page)
    <3>1. i \in 1..Len(pages[page]) /\ CharactersBefore(pages, page) + i <= NerMaxChars
          /\ pages[page][i] \in Spellings
      BY <2>3, <1>4, <1>6, <1>7
    <3>2. pl \in Places(pages, NerMaxChars)
      BY <2>3, <3>1, <1>1, PlacesAre
    <3> QED  BY <2>3, <3>1, <3>2, <1>1 DEF NamedPlaces
  <2> QED  BY <2>1, <2>2, <2>3
<1>9. NamedPlaces(pages, page) =
          NamedPlaces(pages, n) \cup PlacesFound(page, taken)
  <2> HIDE DEF page
  <2> QED  BY <1>8 DEF PlacesFound
<1> QED  BY <1>4, <1>5, <1>7, <1>9

(* One of the mentions of a name comes first in the document. *)
LEMMA FirstExists ==
    ASSUME NEW same, same \subseteq Mentions, same # {}
    PROVE  First(same) \in same /\ \A n \in same : Earlier(First(same), n)
<1>1. \A m \in same : m.page \in Nat /\ m.start \in Nat
  BY DEF Mentions
<1>2. PICK page \in {m.page : m \in same} : \A k \in {m.page : m \in same} : page <= k
  <2>1. {m.page : m \in same} \subseteq Nat /\ {m.page : m \in same} # {}
    BY <1>1
  <2> QED  BY <2>1, LeastNatural
<1> DEFINE there == {m \in same : m.page = page}
<1>3. PICK start \in {m.start : m \in there} : \A k \in {m.start : m \in there} : start <= k
  <2>1. {m.start : m \in there} \subseteq Nat /\ {m.start : m \in there} # {}
    BY <1>1, <1>2
  <2> QED  BY <2>1, LeastNatural
<1>4. PICK m \in same : m.page = page /\ m.start = start
  BY <1>3
<1>5. ASSUME NEW n \in same
      PROVE  Earlier(m, n)
  <2>1. m.page \in Nat /\ n.page \in Nat /\ m.page <= n.page
    BY <1>1, <1>2, <1>4
  <2>2. n.page = page => m.start <= n.start
    BY <1>3, <1>4
  <2> QED  BY <2>1, <2>2, <1>4 DEF Earlier
<1> QED  BY <1>5 DEF First

(* The places within the budget are finitely many pairs. *)
LEMMA PlacesFinite ==
    ASSUME NEW pages \in Seq(Texts), NerMaxChars \in Nat
    PROVE  /\ IsFiniteSet(Places(pages, NerMaxChars))
           /\ \A pl \in Places(pages, NerMaxChars) :
                  /\ pl = <<pl[1], pl[2]>> /\ pl[1] \in 1..Len(pages) /\ pl[2] \in Nat
                  /\ pages[pl[1]][pl[2]] \in STRING
<1>1. ASSUME NEW pl \in Places(pages, NerMaxChars)
      PROVE  /\ pl \in (1..Len(pages)) \X (1..NerMaxChars)
             /\ pages[pl[1]][pl[2]] \in STRING
  <2>. PICK p \in 1..Len(pages) : \E i \in 1..Len(pages[p]) :
           pl = <<p, i>> /\ CharactersBefore(pages, p) + i <= NerMaxChars
    BY PlacesAre
  <2>. PICK i \in 1..Len(pages[p]) : pl = <<p, i>> /\ CharactersBefore(pages, p) + i <= NerMaxChars
    OBVIOUS
  <2>1. pages[p] \in Seq(STRING)
    BY ElementOfSeq DEF Texts
  <2>2. CharactersBefore(pages, p) \in Nat
    <3>1. (p - 1) \in 0..Len(pages) /\ (p - 1) + 1 = p
      OBVIOUS
    <3> QED  BY <3>1, CharactersGrow
  <2>3. i \in 1..NerMaxChars
    BY <2>2
  <2>4. pages[p][i] \in STRING
    BY <2>1, ElementOfSeq
  <2> QED  BY <2>3, <2>4
<1>2. IsFiniteSet((1..Len(pages)) \X (1..NerMaxChars))
  <2>1. IsFiniteSet(1..Len(pages)) /\ IsFiniteSet(1..NerMaxChars)
    BY FS_Interval
  <2> QED  BY <2>1, FS_Product
<1>3. Places(pages, NerMaxChars) \subseteq (1..Len(pages)) \X (1..NerMaxChars)
  BY <1>1
<1>4. IsFiniteSet(Places(pages, NerMaxChars))
  BY <1>2, <1>3, FS_Subset
<1> QED  BY <1>1, <1>4

(* The places of one name, and the names there are. *)
PlacesOf(pages, key) ==
    {pl \in Places(pages, NerMaxChars) : pages[pl[1]][pl[2]] \in Spellings
                                         /\ Normal(pages[pl[1]][pl[2]]) = key}
KeysOf(pages) == {key \in {"A", "B"} : PlacesOf(pages, key) # {}}

EntityOf(mentions, key) ==
    LET same == {m \in mentions : Normal(m.text) = key}
    IN  [first |-> First(same), count |-> Cardinality(same)]

AllMentions(pages) == {MentionAt(pages, pl) : pl \in NamedPlaces(pages, Len(pages))}

(* The mentions of a name are its places, and the first is an entity's. *)
LEMMA EntityFits ==
    ASSUME NEW pages \in Seq(Texts), NerMaxChars \in Nat, NEW key \in KeysOf(pages)
    PROVE  /\ Normal(EntityOf(AllMentions(pages), key).first.text) = key
           /\ EntityOf(AllMentions(pages), key).count = Cardinality(PlacesOf(pages, key))
           /\ \A pl \in PlacesOf(pages, key) :
                  \/ EntityOf(AllMentions(pages), key).first.page < pl[1]
                  \/ /\ EntityOf(AllMentions(pages), key).first.page = pl[1]
                     /\ EntityOf(AllMentions(pages), key).first.start <= pl[2]
<1> DEFINE same == {m \in AllMentions(pages) : Normal(m.text) = key}
<1>1. PICK S, f : S = PlacesOf(pages, key) /\ f = [pl \in S |-> MentionAt(pages, pl)]
  OBVIOUS
<1>2. /\ IsFiniteSet(S) /\ S # {}
      /\ \A pl \in S : /\ pl = <<pl[1], pl[2]>> /\ pl[1] \in 1..Len(pages) /\ pl[2] \in Nat
                       /\ pages[pl[1]][pl[2]] \in STRING
  <2>1. S \subseteq Places(pages, NerMaxChars) /\ S # {}
    BY <1>1 DEF PlacesOf, KeysOf
  <2> QED  BY <2>1, PlacesFinite, FS_Subset
<1>3. \A pl : pl \in S <=> /\ pl \in NamedPlaces(pages, Len(pages))
                           /\ Normal(pages[pl[1]][pl[2]]) = key
  <2>1. \A pl \in Places(pages, NerMaxChars) : pl[1] <= Len(pages)
    BY PlacesFinite
  <2> QED  BY <2>1, <1>1 DEF PlacesOf, NamedPlaces
<1>4. \A m : m \in same <=> \E pl \in S : m = f[pl]
  <2>1. \A pl \in S : f[pl] = MentionAt(pages, pl)
    BY <1>1
  <2>2. \A pl : MentionAt(pages, pl).text = pages[pl[1]][pl[2]]
    BY DEF MentionAt
  <2> QED  BY <2>1, <2>2, <1>3 DEF AllMentions
<1>5. \A pl \in S : f[pl].page = pl[1] /\ f[pl].start = pl[2] /\ f[pl] \in Mentions
  BY <1>1, <1>2 DEF MentionAt, Mentions
<1>6. Cardinality(same) = Cardinality(S)
  <2>1. PICK T : T = same
    OBVIOUS
  <2>2. f \in [S -> T] /\ \A t \in T : \E s \in S : f[s] = t
    BY <1>1, <1>4, <2>1
  <2>3. \A r, s \in S : f[r] = f[s] => r = s
    BY <1>2, <1>5
  <2>4. Cardinality(T) = Cardinality(S)
    BY <1>2, <2>2, <2>3, SameCount
  <2> QED  BY <2>1, <2>4
<1>7. First(same) \in same /\ \A n \in same : Earlier(First(same), n)
  <2>1. same \subseteq Mentions /\ same # {}
    BY <1>2, <1>4, <1>5
  <2> HIDE DEF same
  <2> QED  BY <2>1, FirstExists
<1>8. PICK e : e = EntityOf(AllMentions(pages), key)
  OBVIOUS
<1>9. e.first = First(same) /\ e.count = Cardinality(same)
  BY <1>8 DEF EntityOf
<1>10. Normal(e.first.text) = key
  BY <1>7, <1>9
<1>11. ASSUME NEW pl \in S
       PROVE  e.first.page < pl[1] \/ (e.first.page = pl[1] /\ e.first.start <= pl[2])
  <2>1. f[pl] \in same
    BY <1>4
  <2>2. Earlier(e.first, f[pl])
    BY <1>7, <1>9, <2>1
  <2> QED  BY <2>2, <1>5 DEF Earlier
<1> QED  BY <1>1, <1>6, <1>8, <1>9, <1>10, <1>11

(* There is one entity per key that a mention has. *)
LEMMA DeduplicateByKey ==
    ASSUME NEW mentions, NEW e
    PROVE  e \in Deduplicate(mentions) <=>
               \E m \in mentions : e = EntityOf(mentions, Normal(m.text))
<1> DEFINE Alike(key) == {m \in mentions : Normal(m.text) = key}
           Entity(same) == [first |-> First(same), count |-> Cardinality(same)]
           Keys == {Normal(m.text) : m \in mentions}
           Groups == {Alike(key) : key \in Keys}
<1>1. Deduplicate(mentions) = {Entity(same) : same \in Groups}
  BY DEF Deduplicate
<1>2. \A key : EntityOf(mentions, key) = Entity(Alike(key))
  BY DEF EntityOf
<1> HIDE DEF Entity, Alike
<1>3. e \in Deduplicate(mentions) <=> \E key \in Keys : e = Entity(Alike(key))
  BY <1>1
<1> QED  BY <1>2, <1>3

(* Deduplicating the mentions of a document's pages yields its entities. *)
LEMMA EntitiesFollow ==
    ASSUME NEW rows, rows.pages \in Seq(Texts), NerMaxChars \in Nat,
           rows.entities = Deduplicate(AllMentions(rows.pages))
    PROVE  EntitiesOfPrefix(rows)
<1>1. PICK pages, K, f : /\ pages = rows.pages /\ K = KeysOf(pages)
                         /\ f = [key \in K |-> EntityOf(AllMentions(pages), key)]
  OBVIOUS
<1>2. pages \in Seq(Texts)
  BY <1>1
<1>3. \A key : key \in K <=> \E m \in AllMentions(pages) : Normal(m.text) = key
  <2>1. \A pl : MentionAt(pages, pl).text = pages[pl[1]][pl[2]]
    BY DEF MentionAt
  <2>2. \A pl : pl \in NamedPlaces(pages, Len(pages)) <=>
                  /\ pl \in Places(pages, NerMaxChars)
                  /\ pages[pl[1]][pl[2]] \in Spellings
    <3>1. \A pl \in Places(pages, NerMaxChars) : pl[1] <= Len(pages)
      BY <1>2, PlacesFinite
    <3> QED  BY <3>1 DEF NamedPlaces
  <2>3. \A pl \in NamedPlaces(pages, Len(pages)) : Normal(pages[pl[1]][pl[2]]) \in {"A", "B"}
    BY <2>2 DEF Normal, Spellings
  <2> QED  BY <1>1, <2>1, <2>2, <2>3 DEF KeysOf, PlacesOf, AllMentions
<1>4. \A e : e \in rows.entities <=> \E key \in K : e = f[key]
  <2>1. \A e : e \in rows.entities <=>
                  \E m \in AllMentions(pages) : e = EntityOf(AllMentions(pages), Normal(m.text))
    BY <1>1, DeduplicateByKey
  <2> QED  BY <1>1, <1>3, <2>1
<1>5. \A key \in K : /\ Normal(f[key].first.text) = key
                     /\ f[key].count = Cardinality(PlacesOf(pages, key))
                     /\ \A pl \in PlacesOf(pages, key) :
                            f[key].first.page < pl[1]
                            \/ (f[key].first.page = pl[1] /\ f[key].first.start <= pl[2])
  BY <1>1, <1>2, EntityFits
<1>6. Cardinality(rows.entities) = Cardinality(K)
  <2>1. IsFiniteSet(K)
    <3>1. K \subseteq {"A", "B"}
      BY <1>1 DEF KeysOf
    <3>2. IsFiniteSet({"A", "B"})
      <4>1. IsFiniteSet({} \cup {"A"})
        BY FS_EmptySet, FS_AddElement
      <4>2. IsFiniteSet(({} \cup {"A"}) \cup {"B"})
        BY <4>1, FS_AddElement
      <4>3. ({} \cup {"A"}) \cup {"B"} = {"A", "B"}
        OBVIOUS
      <4> QED  BY <4>2, <4>3
    <3> QED  BY <3>1, <3>2, FS_Subset
  <2>2. PICK T : T = rows.entities
    OBVIOUS
  <2>3. f \in [K -> T] /\ \A t \in T : \E s \in K : f[s] = t
    BY <1>1, <1>4, <2>2
  <2>4. \A r, s \in K : f[r] = f[s] => r = s
    BY <1>5
  <2>5. Cardinality(T) = Cardinality(K)
    BY <2>1, <2>3, <2>4, SameCount
  <2> QED  BY <2>2, <2>5
<1>7. \A key \in K : \E e \in rows.entities :
          /\ Normal(e.first.text) = key /\ e.count = Cardinality(PlacesOf(pages, key))
          /\ \A pl \in PlacesOf(pages, key) :
                 e.first.page < pl[1] \/ (e.first.page = pl[1] /\ e.first.start <= pl[2])
  BY <1>4, <1>5
<1>8. /\ Cardinality(rows.entities) = Cardinality(KeysOf(rows.pages))
      /\ \A key \in KeysOf(rows.pages) : \E e \in rows.entities :
             /\ Normal(e.first.text) = key /\ e.count = Cardinality(PlacesOf(rows.pages, key))
             /\ \A pl \in PlacesOf(rows.pages, key) :
                    e.first.page < pl[1] \/ (e.first.page = pl[1] /\ e.first.start <= pl[2])
  BY <1>1, <1>6, <1>7
<1> QED  BY <1>8, Zenon DEF EntitiesOfPrefix, KeysOf, PlacesOf

(* The chunks of one more page follow, numbered on from the last. *)
LEMMA ChunksGrow ==
    ASSUME NEW chunks \in Seq(ChunkRows), NEW pages \in Seq(Texts),
           NEW n \in 0..Len(pages), n # Len(pages), ChunksOf(chunks, pages, n),
           NEW k \in Nat, k = 0 <=> pages[n + 1] = <<>>,
           NEW block, block = [i \in 1..k |-> [page |-> n + 1, ord |-> StartOrd(chunks) + i - 1]]
    PROVE  chunks \o block \in Seq(ChunkRows) /\ ChunksOf(chunks \o block, pages, n + 1)
<1> DEFINE m == Len(chunks)
           all == chunks \o block
<1>1. m \in Nat /\ \A i \in 1..m : chunks[i] \in ChunkRows
  BY ElementOfSeq
<1>2. \A i \in 1..k : /\ block[i] \in ChunkRows /\ block[i].page = n + 1
                      /\ block[i].ord = m + i - 1
  <2>1. \A i \in 1..k : m + i - 1 \in Nat
    BY <1>1
  <2> HIDE DEF m
  <2>2. StartOrd(chunks) = m
    BY DEF StartOrd, m
  <2> QED  BY <2>1, <2>2 DEF ChunkRows
<1>3. block \in Seq(ChunkRows) /\ Len(block) = k
  <2>1. block \in [1..k -> ChunkRows]
    BY <1>2
  <2> QED  BY <2>1
<1>4. /\ all \in Seq(ChunkRows) /\ Len(all) = m + k
      /\ \A i \in 1..m : all[i] = chunks[i]
      /\ \A i \in 1..k : all[m + i] = block[i]
  <2>1. /\ all \in Seq(ChunkRows) /\ Len(all) = Len(chunks) + Len(block)
        /\ \A i \in 1..(Len(chunks) + Len(block)) :
               all[i] = IF i <= Len(chunks) THEN chunks[i] ELSE block[i - Len(chunks)]
    BY <1>3, ConcatProperties
  <2> HIDE DEF all, m
  <2>2. /\ all \in Seq(ChunkRows) /\ Len(all) = m + k
        /\ \A i \in 1..(m + k) : all[i] = IF i <= m THEN chunks[i] ELSE block[i - m]
    BY <2>1, <1>3 DEF m
  <2>3. ASSUME NEW i \in 1..m PROVE all[i] = chunks[i]
    <3>1. i \in 1..(m + k) /\ i <= m
      BY <1>1
    <3> QED  BY <2>2, <3>1
  <2>4. ASSUME NEW i \in 1..k PROVE all[m + i] = block[i]
    <3>1. m + i \in 1..(m + k) /\ ~(m + i <= m) /\ (m + i) - m = i
      BY <1>1
    <3> QED  BY <2>2, <3>1
  <2> QED  BY <2>2, <2>3, <2>4
<1> HIDE DEF all, m
<1>5. \A i \in 1..m : all[i].ord = i - 1 /\ all[i].page <= n /\ all[i].page \in Nat
  BY <1>1, <1>4 DEF ChunksOf, ChunkRows, m
<1>6. \A i \in 1..(m + k) : i \in 1..m \/ \E j \in 1..k : i = m + j
  <2>1. \A i \in 1..(m + k) : i \notin 1..m => i - m \in 1..k /\ i = m + (i - m)
    BY <1>1
  <2> QED  BY <2>1
<1>7. \A i \in 1..k : all[m + i].ord = (m + i) - 1 /\ all[m + i].page = n + 1
  <2> SUFFICES ASSUME NEW i \in 1..k
               PROVE  all[m + i].ord = (m + i) - 1 /\ all[m + i].page = n + 1
    OBVIOUS
  <2>1. all[m + i] = block[i] /\ block[i].page = n + 1 /\ block[i].ord = m + i - 1
    BY <1>2, <1>4
  <2>2. m + i - 1 = (m + i) - 1
    BY <1>1
  <2> QED  BY <2>1, <2>2
<1>8. \A i \in 1..(m + k) : all[i].ord = i - 1 /\ all[i].page <= n + 1 /\ all[i].page \in Nat
  BY <1>5, <1>6, <1>7
<1>9. \A i \in 1..((m + k) - 1) : all[i].page <= all[i + 1].page
  <2> SUFFICES ASSUME NEW i \in 1..((m + k) - 1)
               PROVE  all[i].page <= all[i + 1].page
    OBVIOUS
  <2>1. i \in 1..(m + k) /\ i + 1 \in 1..(m + k)
    BY <1>1
  <2>2. CASE i + 1 \in 1..m
    <3>1. i \in 1..(m - 1) /\ i \in 1..m
      BY <1>1, <2>2
    <3>2. chunks[i].page <= chunks[i + 1].page
      BY <3>1 DEF ChunksOf, m
    <3> QED  BY <3>1, <3>2, <2>2, <1>4
  <2>3. CASE i + 1 \notin 1..m
    <3>1. all[i + 1].page = n + 1
      BY <2>1, <2>3, <1>6, <1>7
    <3> QED  BY <2>1, <3>1, <1>8
  <2> QED  BY <2>2, <2>3
<1>10. \A p \in 1..(n + 1) : pages[p] # <<>> => \E i \in 1..(m + k) : all[i].page = p
  <2> SUFFICES ASSUME NEW p \in 1..(n + 1), pages[p] # <<>>
               PROVE  \E i \in 1..(m + k) : all[i].page = p
    OBVIOUS
  <2>1. CASE p \in 1..n
    <3>1. PICK i \in 1..m : chunks[i].page = p
      BY <2>1 DEF ChunksOf, m
    <3>2. i \in 1..(m + k)
      BY <1>1
    <3> QED  BY <3>1, <3>2, <1>4
  <2>2. CASE p = n + 1
    <3>1. 1 \in 1..k /\ m + 1 \in 1..(m + k)
      BY <2>2, <1>1
    <3> QED  BY <3>1, <2>2, <1>7
  <2> QED  BY <2>1, <2>2
<1> QED  BY <1>4, <1>8, <1>9, <1>10 DEF ChunksOf, all

-----------------------------------------------------------------------------

LEMMA IndexingStarts ==
    ASSUME IndexingAssumption, IndexingInit
    PROVE  IndexingInv
<1>1. object \in Seq(STRING) \cup {Missing}
  BY DEF IndexingInit, IndexingAssumption
<1>2. event.bytes \in Originals
  BY DEF IndexingInit
<1>3. job \in Jobs
  <2>1. <<>> \in Seq(STRING) /\ <<>> \in Seq(Texts) /\ <<>> \in Seq({"en", "hr", "und"})
        /\ <<>> \in Seq(ChunkRows) /\ <<>> \in Seq(Dimensions)
    OBVIOUS
  <2>2. NerMaxChars \in Nat /\ {} \in SUBSET Mentions /\ "mark" \in IndexingSteps
    BY DEF IndexingAssumption, IndexingSteps
  <2> QED  BY <2>1, <2>2 DEF IndexingInit, Jobs
<1>4. JobIsOnTrack
  BY DEF IndexingInit, JobIsOnTrack
<1>5. status = "registered" /\ stored = NoRows
  BY DEF IndexingInit
<1> QED  BY <1>1, <1>2, <1>3, <1>4, <1>5 DEF IndexingInv, IndexingType, StoredIsTheDocument

(* A step that only moves on changes nothing of what was computed. *)
LEMMA GoesOn ==
    ASSUME NEW old \in Jobs, NEW step \in IndexingSteps, NEW new, new = [old EXCEPT !.step = step]
    PROVE  /\ new \in Jobs /\ new.step = step
           /\ new.bytes = old.bytes /\ new.pages = old.pages /\ new.languages = old.languages
           /\ new.remaining = old.remaining /\ new.mentions = old.mentions
           /\ new.chunks = old.chunks /\ new.vectors = old.vectors
           /\ AnalyzedPages(new) <=> AnalyzedPages(old)
<1>1. /\ new \in Jobs /\ new.step = step
      /\ new.bytes = old.bytes /\ new.pages = old.pages /\ new.languages = old.languages
      /\ new.remaining = old.remaining /\ new.mentions = old.mentions
      /\ new.chunks = old.chunks /\ new.vectors = old.vectors
  BY DEF Jobs
<1> QED  BY <1>1 DEF AnalyzedPages

(* What is stored stays what it is for this event. *)
LEMMA StoredStays ==
    ASSUME StoredIsTheDocument, UNCHANGED <<event, stored>>,
           status' = "processed" => status = "processed" \/ stored # NoRows
    PROVE  StoredIsTheDocument'
BY DEF StoredIsTheDocument

(* mark_status, the end of a step, and failure. *)
LEMMA MoveKeeps ==
    ASSUME IndexingInv, Mark \/ Fail \/ Verify \/ Analyzed \/ MarkProcessed
    PROVE  IndexingInv'
<1>1. job \in Jobs /\ object \in Seq(STRING) \cup {Missing} /\ event.bytes \in Originals
      /\ status \in {"registered", "processing", "processed"}
  BY DEF IndexingInv, IndexingType
<1>2. PICK step \in IndexingSteps :
          /\ job' = [job EXCEPT !.step = step] /\ object' = object /\ event' = event
          /\ stored' = stored
          /\ \/ job.step = "mark" /\ step = "download" /\ status' = "processing"
             \/ step = "failed" /\ status' = status
             \/ /\ job.step = "download" /\ step = "extract" /\ status' = status
                /\ Intact(job.bytes) /\ MediaType(job.bytes[1]) = event.media
             \/ /\ job.step = "analyze" /\ step = "embed" /\ status' = status
                /\ Len(job.languages) = Len(job.pages)
             \/ job.step = "mark processed" /\ step = "done" /\ status' = "processed"
  <2>1. {"download", "failed", "extract", "embed", "done"} \subseteq IndexingSteps
    BY DEF IndexingSteps
  <2>2. CASE Mark
    BY <2>1, <2>2 DEF Mark, Goto, At
  <2>3. CASE Fail
    BY <2>1, <2>3 DEF Fail, Goto, Keep
  <2>4. CASE Verify
    BY <2>1, <2>4 DEF Verify, Goto, At, Keep
  <2>5. CASE Analyzed
    BY <2>1, <2>5 DEF Analyzed, Goto, At, Keep
  <2>6. CASE MarkProcessed
    BY <2>1, <2>6 DEF MarkProcessed, Goto, At
  <2> QED  BY <2>2, <2>3, <2>4, <2>5, <2>6
<1>3. PICK new : new = job'
  OBVIOUS
<1>4. /\ new \in Jobs /\ new.step = step
      /\ new.bytes = job.bytes /\ new.pages = job.pages /\ new.languages = job.languages
      /\ new.remaining = job.remaining /\ new.mentions = job.mentions
      /\ new.chunks = job.chunks
      /\ AnalyzedPages(new) <=> AnalyzedPages(job)
  <2>1. PICK old : old = job
    OBVIOUS
  <2>2. old \in Jobs /\ new = [old EXCEPT !.step = step]
    BY <1>1, <1>2, <1>3, <2>1
  <2> QED  BY <2>1, <2>2, GoesOn
<1>5. JobIsOnTrack /\ StoredIsTheDocument
  BY DEF IndexingInv
<1>6. /\ new.step \in {"mark", "download", "extract"} =>
             /\ new.languages = <<>> /\ new.remaining = NerMaxChars
             /\ new.mentions = {} /\ new.chunks = <<>>
      /\ new.step \in {"extract", "analyze", "embed", "store"} =>
             new.bytes = event.bytes /\ MediaType(new.bytes[1]) = event.media
      /\ new.step \in {"analyze", "embed", "store"} => AnalyzedPages(new)
      /\ new.step \in {"embed", "store"} => Len(new.languages) = Len(new.pages)
      /\ new.step # "mark processed"
  BY <1>2, <1>4, <1>5 DEF JobIsOnTrack, Intact
<1>7. JobIsOnTrack'
  BY <1>2, <1>3, <1>6 DEF JobIsOnTrack, AnalyzedPages
<1>8. status' = "processed" => status = "processed" \/ stored # NoRows
  BY <1>2, <1>5 DEF JobIsOnTrack
<1>9. StoredIsTheDocument'
  BY <1>2, <1>5, <1>8, StoredStays
<1>10. IndexingType'
  BY <1>1, <1>2, <1>3, <1>4 DEF IndexingType
<1> QED  BY <1>7, <1>9, <1>10 DEF IndexingInv

(* download, one block. *)
LEMMA ReadKeeps ==
    ASSUME IndexingInv, NEW n \in 1..2, Read(n)
    PROVE  IndexingInv'
<1>1. /\ job \in Jobs /\ object \in Seq(STRING) /\ event.bytes \in Originals
      /\ status \in {"registered", "processing", "processed"}
  BY DEF IndexingInv, IndexingType, Read
<1>2. JobIsOnTrack /\ StoredIsTheDocument
  BY DEF IndexingInv
<1>3. /\ object' = object /\ event' = event /\ status' = status /\ stored' = stored
      /\ job.step = "download"
  BY DEF Read, Keep, At
<1>4. PICK size \in Nat : /\ size <= Len(object)
                          /\ \/ job' = [job EXCEPT !.step = "failed"]
                             \/ job' = [job EXCEPT !.bytes = SubSeq(object, 1, size)]
  <2>1. Len(job.bytes) \in Nat /\ Len(object) \in Nat
    BY <1>1 DEF Jobs
  <2>2. PICK have, size : /\ have = Len(job.bytes)
                          /\ size = IF have + n < Len(object) THEN have + n ELSE Len(object)
    OBVIOUS
  <2>3. size \in Nat /\ size <= Len(object)
    BY <2>1, <2>2
  <2>4. job' = IF size > Len(event.bytes) THEN [job EXCEPT !.step = "failed"]
               ELSE [job EXCEPT !.bytes = SubSeq(object, 1, size)]
    BY <2>2, Zenon DEF Read
  <2> QED  BY <2>3, <2>4
<1>5. PICK new : new = job'
  OBVIOUS
<1>6. /\ new \in Jobs /\ new.step \in {"download", "failed"}
      /\ new.languages = job.languages /\ new.remaining = job.remaining
      /\ new.mentions = job.mentions /\ new.chunks = job.chunks
  <2>1. CASE job' = [job EXCEPT !.step = "failed"]
    <3>1. "failed" \in IndexingSteps
      BY DEF IndexingSteps
    <3> QED  BY <1>1, <1>5, <2>1, <3>1, GoesOn
  <2>2. CASE job' = [job EXCEPT !.bytes = SubSeq(object, 1, size)]
    <3>1. SubSeq(object, 1, size) \in Seq(STRING)
      <4>1. \A i \in 1..size : object[i] \in STRING
        BY <1>1, <1>4, ElementOfSeq
      <4> QED  BY <1>1, <4>1, SubSeqProperties
    <3>2. PICK bytes \in Seq(STRING) : bytes = SubSeq(object, 1, size)
      BY <3>1
    <3>3. new = [job EXCEPT !.bytes = bytes]
      BY <1>5, <2>2, <3>2
    <3> QED  BY <1>1, <1>3, <3>3 DEF Jobs
  <2> QED  BY <1>4, <2>1, <2>2
<1>7. /\ new.step \in {"mark", "download", "extract"} =>
             /\ new.languages = <<>> /\ new.remaining = NerMaxChars
             /\ new.mentions = {} /\ new.chunks = <<>>
      /\ new.step \notin {"extract", "analyze", "embed", "store", "mark processed"}
  BY <1>2, <1>3, <1>6 DEF JobIsOnTrack
<1>8. JobIsOnTrack'
  BY <1>3, <1>5, <1>7 DEF JobIsOnTrack
<1>9. StoredIsTheDocument'
  BY <1>2, <1>3, StoredStays
<1> QED  BY <1>1, <1>3, <1>5, <1>6, <1>8, <1>9 DEF IndexingInv, IndexingType

(* extract: no page has been analyzed. *)
LEMMA ExtractKeeps ==
    ASSUME IndexingAssumption, IndexingInv, At("extract"), NEW pages \in Extracted, Extract(pages)
    PROVE  IndexingInv'
<1>1. /\ job \in Jobs /\ object \in Seq(STRING) \cup {Missing} /\ event.bytes \in Originals
      /\ status \in {"registered", "processing", "processed"}
  BY DEF IndexingInv, IndexingType
<1>2. JobIsOnTrack /\ StoredIsTheDocument
  BY DEF IndexingInv
<1>3. /\ object' = object /\ event' = event /\ status' = status /\ stored' = stored
      /\ job.step = "extract" /\ job' = [job EXCEPT !.pages = pages, !.step = "analyze"]
  BY DEF Extract, Keep, At
<1>4. pages \in Seq(Texts)
  <2>1. Layers \subseteq Texts /\ Scans \subseteq Texts /\ MaxPages \in Nat
    BY DEF IndexingAssumption, Texts
  <2>2. PdfPages \subseteq Texts
    BY <2>1 DEF PdfPages, PageTexts
  <2>3. \E n \in Nat : pages \in [1..n -> Texts]
    <3>1. CASE pages \in UNION {[1..n -> PdfPages] : n \in 0..MaxPages}
      <4>1. PICK n \in 0..MaxPages : pages \in [1..n -> PdfPages]
        BY <3>1
      <4>2. n \in Nat /\ pages \in [1..n -> Texts]
        BY <2>1, <2>2, <4>1
      <4> QED  BY <4>2
    <3>2. CASE pages \in [1..1 -> Scans]
      <4>1. 1 \in Nat /\ pages \in [1..1 -> Texts]
        BY <2>1, <3>2
      <4> QED  BY <4>1
    <3> QED  BY <3>1, <3>2, Zenon DEF Extracted
  <2> QED  BY <2>3
<1>5. PICK new : new = job'
  OBVIOUS
<1>6. /\ new.step = "analyze" /\ new.bytes = job.bytes /\ new.pages = pages
      /\ new.languages = job.languages /\ new.remaining = job.remaining
      /\ new.mentions = job.mentions /\ new.chunks = job.chunks /\ new \in Jobs
  <2>1. "analyze" \in IndexingSteps
    BY DEF IndexingSteps
  <2> QED  BY <1>1, <1>3, <1>4, <1>5, <2>1 DEF Jobs
<1>7. /\ new.languages = <<>> /\ new.remaining = NerMaxChars /\ new.mentions = {}
      /\ new.chunks = <<>> /\ new.bytes = event.bytes /\ MediaType(new.bytes[1]) = event.media
  BY <1>2, <1>3, <1>6 DEF JobIsOnTrack
<1>8. AnalyzedPages(new)
  <2>1. Len(new.languages) = 0 /\ Len(pages) \in Nat /\ NerMaxChars \in Nat
    BY <1>4, <1>7 DEF IndexingAssumption
  <2>2. BudgetLeft(pages, 0) = NerMaxChars
    <3>1. CharactersBefore(pages, 0 + 1) = 0
      BY <1>4, <2>1, CharactersGrow
    <3> QED  BY <2>1, <3>1 DEF BudgetLeft
  <2>3. NamedPlaces(pages, 0) = {}
    <3>1. \A pl \in Places(pages, NerMaxChars) : ~(pl[1] <= 0)
      BY <1>4, <2>1, PlacesFinite
    <3> QED  BY <3>1 DEF NamedPlaces
  <2>4. ChunksOf(<<>>, pages, 0)
    BY DEF ChunksOf
  <2> QED  BY <1>6, <1>7, <2>1, <2>2, <2>3, <2>4 DEF AnalyzedPages
<1>9. JobIsOnTrack'
  BY <1>3, <1>5, <1>6, <1>7, <1>8 DEF JobIsOnTrack, AnalyzedPages
<1>10. StoredIsTheDocument'
  BY <1>2, <1>3, StoredStays
<1> QED  BY <1>1, <1>3, <1>5, <1>6, <1>9, <1>10 DEF IndexingInv, IndexingType

(* analyze, one page more: see NamedPlacesGrow and ChunksGrow. *)
LEMMA AnalyzeKeeps ==
    ASSUME IndexingAssumption, IndexingInv, NEW language \in {"en", "hr", "und"},
           AnalyzePage(language)
    PROVE  IndexingInv'
<1>1. /\ job \in Jobs /\ object \in Seq(STRING) \cup {Missing} /\ event.bytes \in Originals
      /\ status \in {"registered", "processing", "processed"}
  BY DEF IndexingInv, IndexingType
<1>2. JobIsOnTrack /\ StoredIsTheDocument
  BY DEF IndexingInv
<1> DEFINE pages == job.pages
           n == Len(job.languages)
           text == pages[n + 1]
           read == Taken(text, job.remaining)
<1>4. PICK k, block, found :
          /\ k \in 0..Len(text)
          /\ k = 0 <=> text = <<>>
          /\ block = [i \in 1..k |-> [page |-> n + 1, ord |-> StartOrd(job.chunks) + i - 1]]
          /\ found = {[text |-> read[i], page |-> n + 1, start |-> i] :
                          i \in {i \in DOMAIN read : read[i] \in Spellings}}
          /\ job' = [job EXCEPT !.languages = Append(job.languages, language),
                                !.remaining = job.remaining - Len(read),
                                !.mentions = job.mentions \cup found,
                                !.chunks = job.chunks \o block]
  <2>1. \E k \in 0..Len(text) :
            /\ k = 0 <=> text = <<>>
            /\ job' = [job EXCEPT
                   !.languages = Append(job.languages, language),
                   !.remaining = job.remaining - Len(read),
                   !.mentions = job.mentions \cup
                                    {[text |-> read[i], page |-> n + 1, start |-> i] :
                                         i \in {i \in DOMAIN read : read[i] \in Spellings}},
                   !.chunks = job.chunks \o [i \in 1..k |->
                                  [page |-> n + 1, ord |-> StartOrd(job.chunks) + i - 1]]]
    BY Zenon DEF AnalyzePage, Remaining
  <2> QED  BY <2>1, Zenon
<1>3. /\ pages = job.pages /\ n = Len(job.languages)
      /\ text = pages[n + 1] /\ read = Taken(text, job.remaining)
  OBVIOUS
<1>5. /\ object' = object /\ event' = event /\ status' = status /\ stored' = stored
      /\ job.step = "analyze" /\ n < Len(pages)
  BY DEF AnalyzePage, Keep, At
<1> HIDE DEF pages, n, text, read
<1>6. /\ job.bytes = event.bytes /\ MediaType(job.bytes[1]) = event.media
      /\ AnalyzedPages(job)
  BY <1>2, <1>5 DEF JobIsOnTrack
<1>7. /\ pages \in Seq(Texts) /\ n \in Nat /\ Len(pages) \in Nat /\ job.chunks \in Seq(ChunkRows)
      /\ job.languages \in Seq({"en", "hr", "und"}) /\ job.mentions \subseteq Mentions
      /\ NerMaxChars \in Nat
  BY <1>1, <1>3 DEF Jobs, IndexingAssumption
<1>8. n \in 0..Len(pages) /\ n # Len(pages) /\ n + 1 \in 1..Len(pages) /\ text \in Texts
  <2>1. n \in 0..Len(pages) /\ n # Len(pages) /\ n + 1 \in 1..Len(pages)
    BY <1>5, <1>7
  <2> QED  BY <2>1, <1>3, <1>7, ElementOfSeq
<1>9. /\ job.remaining = BudgetLeft(pages, n)
      /\ job.mentions = {MentionAt(pages, pl) : pl \in NamedPlaces(pages, n)}
      /\ ChunksOf(job.chunks, pages, n)
  BY <1>3, <1>6 DEF AnalyzedPages
<1>10. /\ NamedPlaces(pages, n + 1) =
             NamedPlaces(pages, n) \cup PlacesFound(n + 1, read)
       /\ BudgetLeft(pages, n + 1) = job.remaining - Len(read)
       /\ \A i \in DOMAIN read : i \in 1..Len(text) /\ read[i] = text[i]
  <2>1. PICK all, m, taken : all = pages /\ m = n /\ taken = read
    OBVIOUS
  <2>2. /\ all \in Seq(Texts) /\ m \in 0..Len(all) /\ m # Len(all) /\ NerMaxChars \in Nat
        /\ taken = Taken(all[m + 1], BudgetLeft(all, m))
    BY <1>3, <1>7, <1>8, <1>9, <2>1
  <2>3. /\ NamedPlaces(all, m + 1) = NamedPlaces(all, m) \cup PlacesFound(m + 1, taken)
        /\ BudgetLeft(all, m + 1) = BudgetLeft(all, m) - Len(taken)
        /\ \A i \in DOMAIN taken : i \in 1..Len(all[m + 1]) /\ taken[i] = all[m + 1][i]
    BY <2>2, NamedPlacesGrow, ZenonT(30)
  <2>4. NamedPlaces(pages, n + 1) = NamedPlaces(pages, n) \cup PlacesFound(n + 1, read)
    BY <2>1, <2>3, Zenon
  <2>5. BudgetLeft(pages, n + 1) = job.remaining - Len(read)
    BY <1>9, <2>1, <2>3, Zenon
  <2>6. \A i \in DOMAIN read : i \in 1..Len(text) /\ read[i] = text[i]
    BY <1>3, <2>1, <2>3, Zenon
  <2> QED  BY <2>4, <2>5, <2>6, Zenon
<1>11. BudgetLeft(pages, n + 1) \in Nat
  <2>1. n + 1 \in 0..Len(pages)
    BY <1>8
  <2>2. CharactersBefore(pages, (n + 1) + 1) \in Nat
    BY <1>7, <2>1, CharactersGrow
  <2> QED  BY <1>7, <2>2 DEF BudgetLeft
<1>12. job.mentions \cup found = {MentionAt(pages, pl) : pl \in NamedPlaces(pages, n + 1)}
  <2>1. \A i \in DOMAIN read :
            MentionAt(pages, <<n + 1, i>>) = [text |-> read[i], page |-> n + 1, start |-> i]
    BY <1>3, <1>10 DEF MentionAt
  <2>2. ASSUME NEW m
        PROVE  m \in found <=> \E i \in DOMAIN read : read[i] \in Spellings
                                                      /\ m = MentionAt(pages, <<n + 1, i>>)
    BY <1>4, <2>1
  <2>3. ASSUME NEW pl
        PROVE  pl \in NamedPlaces(pages, n + 1) <=>
                   \/ pl \in NamedPlaces(pages, n)
                   \/ \E i \in DOMAIN read : read[i] \in Spellings /\ pl = <<n + 1, i>>
    BY <1>10 DEF PlacesFound
  <2>4. ASSUME NEW m
        PROVE  m \in job.mentions \cup found <=>
                   \E pl \in NamedPlaces(pages, n + 1) : m = MentionAt(pages, pl)
    BY <1>9, <2>2, <2>3
  <2> QED  BY <2>4
<1>13. found \subseteq Mentions
  <2>1. \A i \in DOMAIN read : read[i] \in STRING /\ i \in Nat /\ n + 1 \in Nat
    <3>1. \A i \in 1..Len(text) : text[i] \in STRING /\ i \in Nat
      BY <1>8, ElementOfSeq DEF Texts
    <3> QED  BY <1>7, <1>10, <3>1
  <2> QED  BY <1>4, <2>1 DEF Mentions
<1>14. job.chunks \o block \in Seq(ChunkRows) /\ ChunksOf(job.chunks \o block, pages, n + 1)
  <2>1. PICK chunks : chunks = job.chunks
    OBVIOUS
  <2>2. k \in Nat /\ (k = 0 <=> pages[n + 1] = <<>>)
        /\ block = [i \in 1..k |-> [page |-> n + 1, ord |-> StartOrd(chunks) + i - 1]]
    BY <1>3, <1>4, <2>1
  <2>3. chunks \in Seq(ChunkRows) /\ ChunksOf(chunks, pages, n)
    BY <1>7, <1>9, <2>1
  <2>4. chunks \o block \in Seq(ChunkRows) /\ ChunksOf(chunks \o block, pages, n + 1)
    BY <1>7, <1>8, <2>2, <2>3, ChunksGrow
  <2> QED  BY <2>1, <2>4
<1>15. PICK new : new = job'
  OBVIOUS
<1>16. /\ new.step = "analyze" /\ new.bytes = job.bytes /\ new.pages = pages
       /\ new.languages = Append(job.languages, language)
       /\ new.remaining = job.remaining - Len(read)
       /\ new.mentions = job.mentions \cup found
       /\ new.chunks = job.chunks \o block /\ new.vectors = job.vectors
       /\ new = [step |-> new.step, bytes |-> new.bytes, pages |-> new.pages,
                 languages |-> new.languages, remaining |-> new.remaining,
                 mentions |-> new.mentions, chunks |-> new.chunks, vectors |-> new.vectors]
  BY <1>1, <1>3, <1>4, <1>5, <1>15 DEF Jobs
<1>17. new \in Jobs
  <2>1. new.step \in IndexingSteps /\ new.bytes \in Seq(STRING) /\ new.pages \in Seq(Texts)
        /\ new.vectors \in Seq(Dimensions)
    BY <1>1, <1>7, <1>16 DEF Jobs, IndexingSteps
  <2>2. new.languages \in Seq({"en", "hr", "und"}) /\ new.remaining \in Nat
    BY <1>7, <1>10, <1>11, <1>16
  <2>3. new.mentions \in SUBSET Mentions
    BY <1>7, <1>13, <1>16
  <2>4. new.chunks \in Seq(ChunkRows)
    BY <1>14, <1>16
  <2> QED  BY <1>16, <2>1, <2>2, <2>3, <2>4 DEF Jobs
<1>18. AnalyzedPages(new)
  <2>1. Len(new.languages) = n + 1 /\ n + 1 <= Len(pages)
    BY <1>3, <1>7, <1>8, <1>16
  <2> QED  BY <1>10, <1>12, <1>14, <1>16, <2>1 DEF AnalyzedPages
<1>19. JobIsOnTrack'
  BY <1>5, <1>6, <1>15, <1>16, <1>18 DEF JobIsOnTrack, AnalyzedPages
<1>20. StoredIsTheDocument'
  BY <1>2, <1>5, StoredStays
<1> QED  BY <1>1, <1>5, <1>15, <1>17, <1>19, <1>20 DEF IndexingInv, IndexingType

(* embed_passages: vectors of one dimension, or a rejection. *)
LEMMA EmbedKeeps ==
    ASSUME IndexingInv, NEW dimension \in Dimensions, NEW valid \in BOOLEAN, Embed(dimension, valid)
    PROVE  IndexingInv'
<1>1. /\ job \in Jobs /\ object \in Seq(STRING) \cup {Missing} /\ event.bytes \in Originals
      /\ status \in {"registered", "processing", "processed"}
  BY DEF IndexingInv, IndexingType
<1>2. JobIsOnTrack /\ StoredIsTheDocument
  BY DEF IndexingInv
<1>3. /\ object' = object /\ event' = event /\ status' = status /\ stored' = stored
      /\ job.step = "embed"
  BY DEF Embed, Keep, At
<1>4. PICK vectors : vectors = [i \in DOMAIN job.chunks |-> dimension]
  OBVIOUS
<1>5. vectors \in Seq(Dimensions)
  <2>1. job.chunks \in Seq(ChunkRows)
    BY <1>1 DEF Jobs
  <2>2. Len(job.chunks) \in Nat /\ DOMAIN job.chunks = 1..Len(job.chunks)
    BY <2>1
  <2>3. vectors \in [1..Len(job.chunks) -> Dimensions]
    BY <1>4, <2>2
  <2> QED  BY <2>2, <2>3
<1>6. \/ job' = [job EXCEPT !.vectors = vectors, !.step = "store"]
      \/ job' = [job EXCEPT !.step = "failed"]
  BY <1>4 DEF Embed
<1>7. PICK new : new = job'
  OBVIOUS
<1>8. /\ new \in Jobs /\ new.step \in {"store", "failed"} /\ new.bytes = job.bytes
      /\ new.pages = job.pages /\ new.languages = job.languages
      /\ AnalyzedPages(new) <=> AnalyzedPages(job)
  <2>1. CASE job' = [job EXCEPT !.step = "failed"]
    <3>1. PICK old : old = job
      OBVIOUS
    <3>2. "failed" \in IndexingSteps /\ old \in Jobs /\ new = [old EXCEPT !.step = "failed"]
      BY <1>1, <1>7, <2>1, <3>1 DEF IndexingSteps
    <3> QED  BY <3>1, <3>2, GoesOn
  <2>2. CASE job' = [job EXCEPT !.vectors = vectors, !.step = "store"]
    <3>1. "store" \in IndexingSteps
      BY DEF IndexingSteps
    <3>2. /\ new \in Jobs /\ new.step = "store" /\ new.bytes = job.bytes
          /\ new.pages = job.pages /\ new.languages = job.languages
          /\ new.remaining = job.remaining /\ new.mentions = job.mentions
          /\ new.chunks = job.chunks
      BY <1>1, <1>5, <1>7, <2>2, <3>1 DEF Jobs
    <3> QED  BY <3>2 DEF AnalyzedPages
  <2> QED  BY <1>6, <2>1, <2>2
<1>9. JobIsOnTrack'
  <2>1. /\ job.bytes = event.bytes /\ MediaType(job.bytes[1]) = event.media
        /\ AnalyzedPages(job) /\ Len(job.languages) = Len(job.pages)
    BY <1>2, <1>3 DEF JobIsOnTrack
  <2> QED  BY <1>3, <1>7, <1>8, <2>1 DEF JobIsOnTrack, AnalyzedPages
<1>10. StoredIsTheDocument'
  BY <1>2, <1>3, StoredStays
<1> QED  BY <1>1, <1>3, <1>7, <1>8, <1>9, <1>10 DEF IndexingInv, IndexingType

(* prepare_document and the transaction: all pages have been analyzed. *)
LEMMA StoreKeeps ==
    ASSUME IndexingAssumption, IndexingInv, Store
    PROVE  IndexingInv'
<1>1. /\ job \in Jobs /\ object \in Seq(STRING) \cup {Missing} /\ event.bytes \in Originals
      /\ status \in {"registered", "processing", "processed"}
  BY DEF IndexingInv, IndexingType
<1>2. /\ object' = object /\ event' = event /\ status' = "processed"
      /\ job.step = "store" /\ job' = [job EXCEPT !.step = "mark processed"]
  BY DEF Store, Goto, At
<1>3. PICK rows : /\ rows = stored' /\ rows.digest = job.bytes
                  /\ rows.media = MediaType(job.bytes[1]) /\ rows.pages = job.pages
                  /\ rows.chunks = job.chunks /\ rows.entities = Deduplicate(job.mentions)
  <2>1. PICK language, entities : entities = Deduplicate(job.mentions) /\
            stored' = [digest |-> job.bytes, media |-> MediaType(job.bytes[1]),
                       pages |-> job.pages, language |-> language, chunks |-> job.chunks,
                       entities |-> entities]
    BY Zenon DEF Store
  <2> QED  BY <2>1
<1>4. /\ job.bytes = event.bytes /\ MediaType(job.bytes[1]) = event.media
      /\ AnalyzedPages(job) /\ Len(job.languages) = Len(job.pages)
  BY <1>2 DEF IndexingInv, JobIsOnTrack
<1>5. rows.pages \in Seq(Texts) /\ rows.chunks \in Seq(ChunkRows) /\ NerMaxChars \in Nat
  BY <1>1, <1>3 DEF Jobs, IndexingAssumption
<1>6. EntitiesOfPrefix(rows)
  <2>1. job.mentions = AllMentions(rows.pages)
    BY <1>3, <1>4 DEF AnalyzedPages, AllMentions
  <2> QED  BY <1>3, <1>5, <2>1, EntitiesFollow
<1>7. ChunksInOrder(rows)
  <2>1. ChunksOf(rows.chunks, rows.pages, Len(rows.pages))
    BY <1>3, <1>4 DEF AnalyzedPages
  <2>2. DOMAIN rows.chunks = 1..Len(rows.chunks) /\ DOMAIN rows.pages = 1..Len(rows.pages)
    BY <1>5
  <2> QED  BY <2>1, <2>2 DEF ChunksOf, ChunksInOrder
<1>8. rows # NoRows
  <2>1. event.bytes # <<>>
    BY <1>1 DEF IndexingAssumption
  <2> QED  BY <1>3, <1>4, <2>1 DEF NoRows
<1>9. StoredIsTheDocument'
  <2>1. rows.digest = event.bytes /\ rows.media = event.media
    BY <1>3, <1>4
  <2>2. EntitiesOfPrefix(rows)' /\ ChunksInOrder(rows)'
    BY <1>6, <1>7 DEF EntitiesOfPrefix, ChunksInOrder
  <2> QED  BY <1>2, <1>3, <1>6, <1>7, <1>8, <2>1 DEF StoredIsTheDocument
<1>10. PICK new : new = job'
  OBVIOUS
<1>11. new \in Jobs /\ new.step = "mark processed"
  <2>1. PICK old : old = job
    OBVIOUS
  <2>2. "mark processed" \in IndexingSteps /\ old \in Jobs
        /\ new = [old EXCEPT !.step = "mark processed"]
    BY <1>1, <1>2, <1>10, <2>1 DEF IndexingSteps
  <2> QED  BY <2>2, GoesOn
<1>12. JobIsOnTrack'
  BY <1>3, <1>8, <1>10, <1>11 DEF JobIsOnTrack
<1> QED  BY <1>1, <1>2, <1>9, <1>10, <1>11, <1>12 DEF IndexingInv, IndexingType

LEMMA IndexingRests ==
    ASSUME IndexingInv, UNCHANGED indexingVars
    PROVE  IndexingInv'
<1>1. /\ object' = object /\ event' = event /\ status' = status /\ stored' = stored /\ job' = job
  BY DEF indexingVars
<1>2. JobIsOnTrack'
  BY <1>1 DEF IndexingInv, JobIsOnTrack, AnalyzedPages
<1>3. StoredIsTheDocument'
  BY <1>1, StoredStays DEF IndexingInv
<1>4. IndexingType'
  BY <1>1 DEF IndexingInv, IndexingType
<1> QED  BY <1>2, <1>3, <1>4 DEF IndexingInv

-----------------------------------------------------------------------------

(* The attempt's inductive invariant: what it has computed is what the pages *)
(* analyzed so far determine, and its bytes are the event's.                 *)
THEOREM IndexingInvariant ==
    ASSUME IndexingAssumption
    PROVE  IndexingSpec => []IndexingInv
<1>1. IndexingInit => IndexingInv
  BY IndexingStarts
<1>2. IndexingInv /\ [IndexingNext]_indexingVars => IndexingInv'
  <2> SUFFICES ASSUME IndexingInv, [IndexingNext]_indexingVars
               PROVE  IndexingInv'
    OBVIOUS
  <2>1. CASE UNCHANGED indexingVars
    BY <2>1, IndexingRests
  <2>2. CASE Mark \/ Fail \/ Verify \/ Analyzed \/ MarkProcessed
    BY <2>2, MoveKeeps
  <2>3. CASE Store
    BY <2>3, StoreKeeps
  <2>4. CASE Ended
    BY <2>4, IndexingRests DEF Ended
  <2>5. ASSUME NEW n \in 1..2, Read(n)
        PROVE  IndexingInv'
    BY <2>5, ReadKeeps
  <2>6. ASSUME At("extract"), NEW pages \in Extracted, Extract(pages)
        PROVE  IndexingInv'
    BY <2>6, ExtractKeeps
  <2>7. ASSUME NEW language \in {"en", "hr", "und"}, AnalyzePage(language)
        PROVE  IndexingInv'
    BY <2>7, AnalyzeKeeps
  <2>8. ASSUME NEW dimension \in Dimensions, NEW valid \in BOOLEAN, Embed(dimension, valid)
        PROVE  IndexingInv'
    BY <2>8, EmbedKeeps
  <2> QED  BY <2>1, <2>2, <2>3, <2>4, <2>5, <2>6, <2>7, <2>8 DEF IndexingNext
<1> QED  BY <1>1, <1>2, PTL DEF IndexingSpec

(* Rows are stored only for the very bytes that were uploaded, as the media  *)
(* type they were announced as, and they are the document's: the chunks in   *)
(* order and the entities of its beginning (processing.py, download;         *)
(* structure.py, analyze and deduplicate; pipeline.py, index), for all files, *)
(* layers and budgets.                                                       *)
THEOREM StoredSafety ==
    ASSUME IndexingAssumption
    PROVE  IndexingSpec => []StoredIsTheDocument
<1>1. IndexingInv => StoredIsTheDocument
  BY DEF IndexingInv
<1> QED  BY <1>1, IndexingInvariant, PTL

=============================================================================
