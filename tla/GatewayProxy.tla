---------------------------- MODULE GatewayProxy ----------------------------
(***************************************************************************)
(* Requests passing through the gateway: admission, the streamed exchange  *)
(* with an upstream service over a shared HTTP client, and the response    *)
(* through the two error policies. Every await may be the one at which the *)
(* client leaves, the upstream fails, the deadline passes or something     *)
(* unexpected is raised. Sizes are counted in blocks.                      *)
(***************************************************************************)
EXTENDS Integers

CONSTANTS Exchanges,      \* requests in flight
          Users,          \* verified identities
          MaxUpload,      \* max_upload_bytes
          MaxReply,       \* max_upstream_response_bytes, for a 2xx
          MaxErrorReply,  \* the fixed limit for any other status
          FailOpen,       \* rate_limit_fail_open
          MaxBlock        \* bound: the largest chunk received at once

ProxyAssumption ==
    /\ {MaxUpload, MaxReply, MaxErrorReply, MaxBlock} \subseteq Nat
    /\ FailOpen \in BOOLEAN

Blocks == 1..MaxBlock
Nobody == "nobody"
Ok == "2xx"

VARIABLES req,   \* each request: its progress and what each side has seen
          jar    \* whose session cookie the shared client last stored

proxyVars == <<req, jar>>

\* offered, ended: the client's body; received, complete: what the upstream
\* got of it; status, produced, buffer: the reply, and what is read of it;
\* by: who is answering; inner, outer: the policies' started flags; starts:
\* responses the server took; lost: it refused a message, its client gone.
Fresh(u) ==
    [user |-> u, pc |-> "route", offered |-> 0, ended |-> FALSE, received |-> 0,
     complete |-> FALSE, cookie |-> Nobody, status |-> "none", produced |-> 0, buffer |-> 0,
     answer |-> "none", by |-> "route", inner |-> FALSE, outer |-> FALSE, starts |-> 0, lost |-> FALSE]

ProxyInit ==
    /\ \E u \in [Exchanges -> Users] : req = [r \in Exchanges |-> Fresh(u[r])]
    /\ jar = Nobody

At(r, step) == req[r].pc = step

Answer(r, a) ==
    /\ req' = [req EXCEPT ![r].answer = a, ![r].pc = "respond"]
    /\ UNCHANGED jar

-----------------------------------------------------------------------------

\* A route of the app, or its 404, 405 or 422.
Route(r) ==
    /\ At(r, "route")
    /\ \/ Answer(r, "4xx")
       \/ req' = [req EXCEPT ![r].pc = "auth"] /\ UNCHANGED jar

\* proxy up to the quota: an invalid token, a tenant that is not provisioned,
\* or an identity.
Authenticate(r) ==
    /\ At(r, "auth")
    /\ \/ Answer(r, "401") \/ Answer(r, "403")
       \/ req' = [req EXCEPT ![r].pc = "quota"] /\ UNCHANGED jar

\* quota, for the limiter's decision or its absence.
Quota(r) ==
    /\ At(r, "quota")
    /\ \/ Answer(r, "429")
       \/ ~FailOpen /\ Answer(r, "503")
       \/ req' = [req EXCEPT ![r].pc = "dispatch"] /\ UNCHANGED jar

\* stream removes the cookies the shared client would add.
Cookies == Nobody

\* check_length, then the exchange starts with the allowed headers.
Dispatch(r) ==
    /\ At(r, "dispatch")
    /\ \/ Answer(r, "400")     \* ambiguous content-length
       \/ Answer(r, "413")     \* declared length over the limit
       \/ /\ req' = [req EXCEPT ![r].pc = "send", ![r].cookie = Cookies]
          /\ UNCHANGED jar

\* Mutant: a body over the limit ends there.
MutantForward(r, n) ==
    LET total == req[r].offered + n
    IN  /\ At(r, "send")
        /\ IF total > MaxUpload
           THEN req' = [req EXCEPT ![r].offered = total, ![r].complete = TRUE, ![r].pc = "await"]
           ELSE req' = [req EXCEPT ![r].offered = total, ![r].received = total]
        /\ UNCHANGED jar

\* limited_body: the next chunk is forwarded or exceeds the limit.
Forward(r, n) ==
    LET total == req[r].offered + n
    IN  /\ At(r, "send")
        /\ IF total > MaxUpload
           THEN req' = [req EXCEPT ![r].offered = total, ![r].answer = "413", ![r].pc = "respond"]
           ELSE req' = [req EXCEPT ![r].offered = total, ![r].received = total]
        /\ UNCHANGED jar

\* The client's last message: the chunked request ends.
EndOfBody(r) ==
    /\ At(r, "send")
    /\ req' = [req EXCEPT ![r].ended = TRUE, ![r].complete = TRUE, ![r].pc = "await"]
    /\ UNCHANGED jar

\* The client leaves within its body: ClientDisconnect.
Leave(r) ==
    /\ At(r, "send")
    /\ Answer(r, "400")

\* The upstream stops reading; the HTTP client goes on to its reply.
StopReading(r) ==
    /\ At(r, "send")
    /\ req' = [req EXCEPT ![r].pc = "await"]
    /\ UNCHANGED jar

\* The reply's status and headers; the client stores a cookie it sets.
ReplyHead(r, status, sets) ==
    /\ At(r, "await")
    /\ req' = [req EXCEPT ![r].status = status, ![r].pc = "read"]
    /\ jar' = IF sets THEN req[r].user ELSE jar

ReplyLimit(r) == IF req[r].status = Ok THEN MaxReply ELSE MaxErrorReply

\* Mutant: reading stops at the limit.
MutantRead(r, n) ==
    LET total == req[r].buffer + n
    IN  /\ At(r, "read")
        /\ IF total > ReplyLimit(r)
           THEN req' = [req EXCEPT ![r].produced = @ + n, ![r].answer = req[r].status,
                                   ![r].pc = "respond"]
           ELSE req' = [req EXCEPT ![r].produced = @ + n, ![r].buffer = total]
        /\ UNCHANGED jar

\* bounded_read: a reply over its limit becomes an empty 502.
Read(r, n) ==
    LET total == req[r].buffer + n
    IN  /\ At(r, "read")
        /\ IF total > ReplyLimit(r)
           THEN req' = [req EXCEPT ![r].produced = @ + n, ![r].buffer = 0,
                                   ![r].answer = "502", ![r].pc = "respond"]
           ELSE req' = [req EXCEPT ![r].produced = @ + n, ![r].buffer = total]
        /\ UNCHANGED jar

\* upstream_response: successes pass, client errors pass when they have the
\* public form, anything else becomes a gateway error.
ReplyEnds(r, public) ==
    /\ At(r, "read")
    /\ Answer(r, CASE req[r].status = Ok -> Ok
                   [] req[r].status = "4xx" /\ public -> "4xx"
                   [] req[r].status = "504" -> "504"
                   [] OTHER -> "502")

\* asyncio.timeout bounds the whole exchange.
Expire(r) ==
    /\ req[r].pc \in {"send", "await", "read"}
    /\ Answer(r, "504")

\* httpx.HTTPError: the connection or the reply is broken.
Break(r) ==
    /\ req[r].pc \in {"send", "await", "read"}
    /\ Answer(r, "502")

-----------------------------------------------------------------------------

\* Anything else is raised before a response exists.
Unexpected(r) ==
    /\ req[r].pc \in {"route", "auth", "quota", "dispatch", "send", "await", "read"}
    /\ req' = [req EXCEPT ![r].pc = "raised"]
    /\ UNCHANGED jar

\* Where what a sender raises goes: the route's to ErrorPolicy, ErrorPolicy's
\* own to ResponsePolicy, ResponsePolicy's own to the server.
Above(r) == CASE req[r].by = "route" -> "raised"
              [] req[r].by = "inner" -> "reraised"
              [] req[r].by = "outer" -> "aborted"

\* response.start sets the flag of each policy it passes before the message
\* moves on. Between the two policies CORS may raise, and the server raises
\* when the client is gone.
SendStart(r, outcome) ==
    /\ At(r, "respond")
    /\ outcome = "cors" => req[r].by # "outer"
    /\ LET call == req[r]
           passed == [call EXCEPT !.inner = call.inner \/ call.by = "route",
                                  !.outer = call.outer \/ outcome # "cors"]
       IN  req' = [req EXCEPT ![r] =
               IF outcome = "sent" THEN [passed EXCEPT !.starts = call.starts + 1, !.pc = "body"]
               ELSE [passed EXCEPT !.lost = call.lost \/ outcome = "gone", !.pc = Above(r)]]
    /\ UNCHANGED jar

\* The one body message of a response.
SendBody(r, sent) ==
    /\ At(r, "body")
    /\ req' = IF sent THEN [req EXCEPT ![r].pc = "done"]
              ELSE [req EXCEPT ![r].lost = TRUE, ![r].pc = Above(r)]
    /\ UNCHANGED jar

\* Mutant: the inner policy always answers.
MutantErrorPolicy(r) ==
    /\ At(r, "raised")
    /\ req' = [req EXCEPT ![r].answer = "500", ![r].by = "inner", ![r].pc = "respond"]
    /\ UNCHANGED jar

\* ErrorPolicy: a sanitized 500, unless its response has started.
ErrorPolicy(r) ==
    /\ At(r, "raised")
    /\ req' = IF req[r].inner THEN [req EXCEPT ![r].pc = "reraised"]
              ELSE [req EXCEPT ![r].answer = "500", ![r].by = "inner", ![r].pc = "respond"]
    /\ UNCHANGED jar

\* ResponsePolicy does the same around CORS; what it raises again aborts the
\* connection.
ResponsePolicy(r) ==
    /\ At(r, "reraised")
    /\ req' = IF req[r].outer THEN [req EXCEPT ![r].pc = "aborted"]
              ELSE [req EXCEPT ![r].answer = "500", ![r].by = "outer", ![r].pc = "respond"]
    /\ UNCHANGED jar

\* A finished request is replaced by the next one on its connection.
Accept(r, u) ==
    /\ req[r].pc \in {"done", "aborted"}
    /\ req' = [req EXCEPT ![r] = Fresh(u)]
    /\ UNCHANGED jar

Exchange(r) ==
    \/ Dispatch(r) \/ EndOfBody(r) \/ Leave(r) \/ StopReading(r)
    \/ \E n \in Blocks : Forward(r, n) \/ Read(r, n)
    \/ \E status \in {Ok, "4xx", "504", "5xx"}, sets \in BOOLEAN : ReplyHead(r, status, sets)
    \/ \E public \in BOOLEAN : ReplyEnds(r, public)
    \/ Expire(r) \/ Break(r)

Respond(r) ==
    \/ \E outcome \in {"sent", "cors", "gone"} : SendStart(r, outcome)
    \/ \E sent \in BOOLEAN : SendBody(r, sent)
    \/ ErrorPolicy(r) \/ ResponsePolicy(r)

ProxyNext ==
    \E r \in Exchanges : \/ Route(r) \/ Authenticate(r) \/ Quota(r) \/ Exchange(r)
                         \/ Unexpected(r) \/ Respond(r)
                         \/ \E u \in Users : Accept(r, u)

ProxySpec == ProxyInit /\ [][ProxyNext]_proxyVars

-----------------------------------------------------------------------------

(* What the upstream gets is the client's own request: it takes one for     *)
(* complete only when it has every block of a body the client finished and  *)
(* the limit allows, so a client that leaves, an oversized body or an       *)
(* expired exchange cannot register a truncated document, and the HTTP      *)
(* client shared by all identities adds no cookie of another one            *)
(* (proxy.py, limited_body and forward; http.py, stream).                   *)
UpstreamGetsTheRequest ==
    \A r \in Exchanges :
        /\ req[r].cookie \in {Nobody, req[r].user}
        /\ req[r].complete =>
               req[r].ended /\ req[r].received = req[r].offered /\ req[r].offered <= MaxUpload

(* A client that reads success has the upstream's own complete success: no  *)
(* reply that was cut at the limit or broken off passes for one, and no     *)
(* more is ever held than the limit of its class (http.py, exchange).       *)
SuccessIsComplete ==
    \A r \in Exchanges :
        /\ req[r].buffer <= ReplyLimit(r)
        /\ req[r].answer = Ok => req[r].status = Ok /\ req[r].buffer = req[r].produced

(* Whatever is raised, and wherever, the server is handed one response and  *)
(* not a second; only a request whose client is gone ends without a whole   *)
(* one (middleware.py, ErrorPolicy and ResponsePolicy).                     *)
OneResponse ==
    \A r \in Exchanges :
        /\ req[r].starts <= 1
        /\ req[r].pc = "done" => req[r].starts = 1
        /\ req[r].pc = "aborted" => req[r].lost

=============================================================================
