---------------------------- MODULE OutboxProofs ----------------------------
(***************************************************************************)
(* For any tenants, documents, upload requests and relays, and any batch:  *)
(* Outbox registers a document once, after its original is stored, and     *)
(* relays that skip locked rows publish its event once per commit.         *)
(***************************************************************************)
EXTENDS Outbox, TLAPS

(* The two parts of TypeOK. *)
RequestType ==
    /\ upload \in [Requests -> Docs \cup {None}]
    /\ at \in [Requests -> Calls]
    /\ answer \in [Requests -> Requests \cup {None}]
    /\ objects \in SUBSET Docs
    /\ row \in [Docs -> Requests \cup {None}]
    /\ outbox \in SUBSET Requests

RelayType ==
    /\ published \in SUBSET Requests
    /\ locked \in [Relays -> SUBSET Requests]
    /\ sent \in [Relays -> SUBSET Requests]
    /\ stream \in SUBSET Requests
    /\ copies \in [Requests -> Nat]

(* A request has a document from its first call on, and none before it.      *)
DocumentsReceived ==
    \A r \in Requests :
        /\ at[r] = "receive" => upload[r] = None
        /\ at[r] \in {"find", "put", "register", "respond"} => upload[r] \in Docs

(* A request registers only what it has stored, and answers only for a       *)
(* document that somebody registered.                                        *)
StoredBeforeRegistered ==
    \A r \in Requests :
        /\ at[r] = "register" => upload[r] \in objects
        /\ at[r] = "respond" => row[upload[r]] # None

(* The rows and the outbox name each other: one transaction writes both.     *)
RowsAndEvents ==
    /\ \A r \in outbox : upload[r] \in Docs /\ row[upload[r]] = r
    /\ \A d \in Docs : row[d] # None => row[d] \in outbox /\ upload[row[d]] = d

(* Answers carry the id of the row.                                          *)
AnswersNameRows ==
    \A r \in Requests :
        answer[r] # None => upload[r] \in Docs /\ row[upload[r]] = answer[r]

RegisterInv ==
    /\ RequestType
    /\ DocumentsReceived
    /\ StoredBeforeRegistered
    /\ EventHasObject
    /\ RowsAndEvents
    /\ AnswersNameRows

(* Row locks exclude each other, and only unpublished rows are locked.       *)
LocksExclude ==
    /\ \A p, q \in Relays : p # q => locked[p] \cap locked[q] = {}
    /\ \A p \in Relays : locked[p] \cap published = {}

(* What a transaction has marked it has locked, and added to the stream; the *)
(* mark of a published event is never ahead of the stream.                   *)
SentIsInStream ==
    /\ \A p \in Relays : sent[p] \subseteq locked[p] /\ sent[p] \subseteq stream
    /\ published \subseteq stream

Marked(r) == r \in published \/ \E p \in Relays : r \in sent[p]

(* Every entry but those of rolled back transactions is accounted for by a   *)
(* mark, committed or not, and each mark by one entry.                       *)
CopiesAreMarks ==
    \A r \in Requests : copies[r] = IF Marked(r) THEN 1 ELSE 0

RelayInv ==
    /\ RelayType
    /\ LocksExclude
    /\ SentIsInStream
    /\ CopiesAreMarks

-----------------------------------------------------------------------------

(* What a request does, as opposed to a relay. *)
RequestStep(r) ==
    \/ \E d \in Docs : Receive(r, d)
    \/ Refuse(r) \/ Find(r) \/ Put(r) \/ Register(r) \/ Respond(r) \/ FailRequest(r)

(* The calls of a request leave the relays alone.                            *)
LEMMA RequestLeavesRelays ==
    ASSUME NEW r \in Requests, RequestStep(r)
    PROVE  UNCHANGED relayVars
BY DEF RequestStep, Receive, Refuse, Find, Put, Register, Respond, FailRequest

(* The relays leave the requests, the rows and the outbox alone.             *)
LEMMA RelayLeavesRequests ==
    ASSUME NEW p \in Relays, Relay(p) \/ Abort(p)
    PROVE  UNCHANGED <<requestVars, storeVars>>
BY DEF Relay, Lock, Send, Commit, Abort, Release

(* Every disjunct of Next, for a case analysis. *)
LEMMA NextCases ==
    ASSUME Next
    PROVE  \/ \E r \in Requests : RequestStep(r)
           \/ \E p \in Relays, t \in Tenants : Lock(p, t)
           \/ \E p \in Relays : Send(p)
           \/ \E p \in Relays : Commit(p)
           \/ \E p \in Relays : Abort(p)
BY DEF Next, Request, Relay, RequestStep

-----------------------------------------------------------------------------
(* Registration. *)

(* The inductive invariant of the requests: what each call may rely on. *)
THEOREM RegisterInvariant == Spec => []RegisterInv
<1>1. Init => RegisterInv
  <2> SUFFICES ASSUME Init PROVE RegisterInv
    OBVIOUS
  <2>0. RequestType
    BY DEF Init, RequestType, Calls
  <2>1. DocumentsReceived /\ StoredBeforeRegistered /\ EventHasObject
    BY DEF Init, DocumentsReceived, StoredBeforeRegistered, EventHasObject
  <2>2. RowsAndEvents /\ AnswersNameRows
    BY DEF Init, RowsAndEvents, AnswersNameRows
  <2> QED  BY <2>0, <2>1, <2>2 DEF RegisterInv
<1>2. RegisterInv /\ [Next]_vars => RegisterInv'
  <2> SUFFICES ASSUME RegisterInv, [Next]_vars PROVE RegisterInv'
    OBVIOUS
  <2> USE OutboxAssumption
      DEF RegisterInv, RequestType, Calls, DocumentsReceived, StoredBeforeRegistered, EventHasObject,
          RowsAndEvents, AnswersNameRows
  <2>1. ASSUME UNCHANGED <<requestVars, storeVars>> PROVE RegisterInv'
    BY <2>1 DEF requestVars, storeVars
  <2>2. ASSUME NEW r \in Requests, NEW d \in Docs, Receive(r, d) PROVE RegisterInv'
    BY <2>2 DEF Receive, Continue, storeVars
  <2>3. ASSUME NEW r \in Requests, Refuse(r) \/ FailRequest(r) PROVE RegisterInv'
    BY <2>3 DEF Refuse, FailRequest, Continue, storeVars
  <2>4. ASSUME NEW r \in Requests, Find(r) PROVE RegisterInv'
    BY <2>4 DEF Find, Continue, storeVars
  <2>5. ASSUME NEW r \in Requests, Put(r) PROVE RegisterInv'
    BY <2>5 DEF Put, Continue
  <2>6. ASSUME NEW r \in Requests, Register(r) PROVE RegisterInv'
    BY <2>6 DEF Register, Continue
  <2>7. ASSUME NEW r \in Requests, Respond(r) PROVE RegisterInv'
    BY <2>7 DEF Respond, Continue, storeVars
  <2>8. ASSUME NEW p \in Relays, Relay(p) \/ Abort(p) PROVE RegisterInv'
    BY <2>1, <2>8, RelayLeavesRequests
  <2>9. CASE UNCHANGED vars
    BY <2>1, <2>9 DEF vars
  <2> QED  BY <2>2, <2>3, <2>4, <2>5, <2>6, <2>7, <2>8, <2>9 DEF Next, Request
<1> QED  BY <1>1, <1>2, PTL DEF Spec

(* The original is stored before the row that promises it is visible.        *)
THEOREM ObjectSafety == Spec => []EventHasObject
<1>1. RegisterInv => EventHasObject
  BY DEF RegisterInv
<1> QED  BY <1>1, RegisterInvariant, PTL

(* Racing uploads of one document leave one row and one event with one id,   *)
(* which every client was answered with.                                     *)
THEOREM EventSafety == Spec => []OneEventPerDocument
<1>1. RegisterInv => OneEventPerDocument
  BY OutboxAssumption
     DEF RegisterInv, RequestType, RowsAndEvents, AnswersNameRows, OneEventPerDocument
<1> QED  BY <1>1, RegisterInvariant, PTL

-----------------------------------------------------------------------------
(* Relays. *)

(* The inductive invariant of the relays' transactions. *)
THEOREM RelayInvariant == Spec => []RelayInv
<1>1. Init => RelayInv
  <2> SUFFICES ASSUME Init PROVE RelayInv
    OBVIOUS
  <2>1. RelayType
    BY DEF Init, RelayType
  <2>2. LocksExclude /\ SentIsInStream /\ CopiesAreMarks
    BY DEF Init, LocksExclude, SentIsInStream, CopiesAreMarks, Marked
  <2> QED  BY <2>1, <2>2 DEF RelayInv
<1>2. RegisterInv /\ RelayInv /\ [Next]_vars => RelayInv'
  <2> SUFFICES ASSUME RegisterInv, RelayInv, [Next]_vars PROVE RelayInv'
    OBVIOUS
  <2> USE OutboxAssumption DEF RelayInv
  <2>1. ASSUME UNCHANGED relayVars
        PROVE  RelayInv'
    BY <2>1 DEF relayVars, RelayType, LocksExclude, SentIsInStream, CopiesAreMarks, Marked
  <2>2. CASE UNCHANGED vars
    BY <2>1, <2>2 DEF vars
  <2>3. ASSUME NEW r \in Requests, RequestStep(r) PROVE RelayInv'
    BY <2>1, <2>3, RequestLeavesRelays
  <2>4. ASSUME NEW p \in Relays, NEW t \in Tenants, Lock(p, t) PROVE RelayInv'
    <3>1. PICK S \in SUBSET Eligible(t) : locked' = [locked EXCEPT ![p] = S]
      BY <2>4 DEF Lock
    <3>2. S \subseteq Requests /\ S \cap published = {}
      BY DEF Eligible, RegisterInv, RequestType
    <3>3. \A q \in Relays : S \cap locked[q] = {}
      BY DEF Eligible, Held
    <3>4. locked[p] = {} /\ UNCHANGED <<requestVars, storeVars, published, sent, stream, copies>>
      BY <2>4 DEF Lock
    <3>5. RelayType'
      BY <3>1, <3>2, <3>4 DEF RelayType
    <3>6. LocksExclude'
      BY <3>1, <3>2, <3>3, <3>4 DEF RelayType, LocksExclude
    <3>7. SentIsInStream' /\ CopiesAreMarks'
      BY <3>1, <3>4 DEF RelayType, SentIsInStream, CopiesAreMarks, Marked
    <3> QED  BY <3>5, <3>6, <3>7
  <2>5. ASSUME NEW p \in Relays, Send(p) PROVE RelayInv'
    <3>1. PICK r \in locked[p] \ sent[p] : /\ stream' = stream \cup {r}
                                          /\ copies' = [copies EXCEPT ![r] = @ + 1]
                                          /\ sent' = [sent EXCEPT ![p] = @ \cup {r}]
      BY <2>5 DEF Send
    <3>2. UNCHANGED <<requestVars, storeVars, published, locked>>
      BY <2>5 DEF Send
    <3>3. r \in Requests
      BY DEF RelayType
    <3>4. ~Marked(r)
      BY DEF Marked, LocksExclude, SentIsInStream
    <3>5. RelayType'
      BY <3>1, <3>2, <3>3 DEF RelayType
    <3>6. LocksExclude' /\ SentIsInStream'
      BY <3>1, <3>2 DEF RelayType, LocksExclude, SentIsInStream
    <3>7. \A x \in Requests : Marked(x)' <=> Marked(x) \/ x = r
      BY <3>1, <3>2 DEF RelayType, Marked
    <3>8. CopiesAreMarks'
      BY <3>1, <3>3, <3>4, <3>7 DEF RelayType, CopiesAreMarks
    <3> QED  BY <3>5, <3>6, <3>8
  <2>6. ASSUME NEW p \in Relays, Commit(p) PROVE RelayInv'
    <3>1. /\ sent[p] = locked[p]
          /\ published' = published \cup sent[p]
          /\ locked' = [locked EXCEPT ![p] = {}]
          /\ sent' = [sent EXCEPT ![p] = {}]
          /\ UNCHANGED <<requestVars, storeVars, stream, copies>>
      BY <2>6 DEF Commit, Release
    <3>2. RelayType'
      BY <3>1 DEF RelayType
    <3>3. LocksExclude' /\ SentIsInStream'
      BY <3>1 DEF RelayType, LocksExclude, SentIsInStream
    <3>4. \A x \in Requests : Marked(x)' <=> Marked(x)
      BY <3>1 DEF RelayType, Marked
    <3>5. CopiesAreMarks'
      BY <3>1, <3>4 DEF CopiesAreMarks
    <3> QED  BY <3>2, <3>3, <3>5
  <2>7. ASSUME NEW p \in Relays, Abort(p) PROVE RelayInv'
    <3>1. /\ copies' = [r \in Requests |-> IF r \in sent[p] THEN copies[r] - 1 ELSE copies[r]]
          /\ locked' = [locked EXCEPT ![p] = {}]
          /\ sent' = [sent EXCEPT ![p] = {}]
          /\ UNCHANGED <<requestVars, storeVars, stream, published>>
      BY <2>7 DEF Abort, Release
    <3>2. \A x \in Requests : Marked(x)' <=> Marked(x) /\ x \notin sent[p]
      BY <3>1 DEF RelayType, Marked, LocksExclude, SentIsInStream
    <3>3. \A x \in sent[p] : Marked(x)
      BY DEF Marked
    <3>4. CopiesAreMarks' /\ copies' \in [Requests -> Nat]
      BY <3>1, <3>2, <3>3 DEF RelayType, CopiesAreMarks
    <3>5. RelayType'
      BY <3>1, <3>4 DEF RelayType
    <3>6. LocksExclude' /\ SentIsInStream'
      BY <3>1 DEF RelayType, LocksExclude, SentIsInStream
    <3> QED  BY <3>4, <3>5, <3>6
  <2> QED  BY <2>2, <2>3, <2>4, <2>5, <2>6, <2>7, NextCases
<1> QED  BY <1>1, <1>2, RegisterInvariant, PTL DEF Spec

(* Every variable keeps its type, the counts of stream entries included:     *)
(* no rollback takes back an entry that was not counted.                     *)
THEOREM TypeCorrect == Spec => []TypeOK
<1>1. RegisterInv /\ RelayInv => TypeOK
  BY DEF RegisterInv, RelayInv, RequestType, RelayType, TypeOK
<1> QED  BY <1>1, RegisterInvariant, RelayInvariant, PTL

(* No crash of a relay loses an event it marked, and no two relays publish   *)
(* one row, for any number of relays and any batch.                          *)
THEOREM PublishSafety == Spec => []PublishedOnce
<1>1. RelayInv => PublishedOnce
  BY DEF RelayInv, SentIsInStream, CopiesAreMarks, PublishedOnce
<1> QED  BY <1>1, RelayInvariant, PTL

=============================================================================
