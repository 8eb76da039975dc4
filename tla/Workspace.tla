----------------------------- MODULE Workspace ------------------------------
(***************************************************************************)
(* The browser workspace: one page whose handlers start requests and       *)
(* resume when these are answered, in any order and however late. Signing  *)
(* out, or a 401 for any request, clears the list of documents and the     *)
(* answer; a generation counter tells answers of an earlier session.       *)
(***************************************************************************)
EXTENDS Integers, FiniteSets

CONSTANTS Slots,        \* bound: handlers that wait at the same time
          Logins,       \* access tokens a user may enter
          MaxSessions   \* bound on sign-outs

WorkspaceAssumption == MaxSessions \in Nat

VARIABLES token, generation, offset,
          connected,    \* the panel shown: sign-in, or the workspace
          polls,        \* intervals alive, and whether poll holds one of them
          shown,        \* part of the page -> the token it was fetched with:
                        \* documents and answer as listed; library: the options
                        \* of "Search in", the counters and the usage
          waiting,      \* slot -> the handler waiting there
          entered       \* tokens entered since the last sign-out

workspaceVars == <<token, generation, offset, connected, polls, shown, waiting, entered>>

NoToken == "none"
Free == [kind |-> "free", token |-> NoToken, session |-> 0, legs |-> {}, button |-> "none"]
Blank == [documents |-> {}, answer |-> {}, library |-> {}]

WorkspaceInit ==
    /\ token = NoToken /\ generation = 0 /\ offset = 0
    /\ connected = FALSE
    /\ polls = [alive |-> 0, held |-> FALSE]
    /\ shown = Blank
    /\ waiting = [s \in Slots |-> Free]
    /\ entered = {}

\* disconnect: clearInterval reaches the interval that poll holds; the options
\* of "Search in", the counters and the usage stay.
SignedOut ==
    /\ generation < MaxSessions
    /\ token' = NoToken /\ generation' = generation + 1
    /\ connected' = FALSE
    /\ polls' = [alive |-> polls.alive - (IF polls.held THEN 1 ELSE 0), held |-> FALSE]
    /\ entered' = {}
    /\ UNCHANGED offset

Disconnected == SignedOut /\ shown' = [shown EXCEPT !.documents = {}, !.answer = {}]

-----------------------------------------------------------------------------

\* api: requests carry the token of the moment. refresh sends two. Asking
\* disables its button until it is done.
Handler(kind, t) ==
    [kind |-> kind, token |-> t, session |-> generation,
     legs |-> IF kind \in {"connect", "refresh"} THEN {"documents", "usage"} ELSE {kind},
     button |-> IF kind = "query" THEN kind ELSE "none"]

Start(s, kind) ==
    /\ waiting[s] = Free
    /\ waiting' = [waiting EXCEPT ![s] = Handler(kind, token)]

\* The form stays enabled while it waits, so it may be submitted again.
Submit(s, login) ==
    /\ ~connected
    /\ waiting[s] = Free
    /\ token' = login /\ offset' = 0
    /\ entered' = entered \cup {login}
    /\ waiting' = [waiting EXCEPT ![s] = Handler("connect", login)]
    /\ UNCHANGED <<generation, connected, polls, shown>>

\* The buttons of the workspace. Choosing another file enables the upload's
\* again while an upload waits.
Click(s, kind) ==
    /\ connected
    /\ \A other \in Slots : waiting[other].button # kind
    /\ Start(s, kind)
    /\ UNCHANGED <<token, generation, offset, connected, polls, shown, entered>>

Turn(s, page) ==
    /\ connected
    /\ Start(s, "refresh")
    /\ offset' = page
    /\ UNCHANGED <<token, generation, connected, polls, shown, entered>>

Poll(s) ==
    /\ polls.alive > 0 /\ token # NoToken
    /\ Start(s, "refresh")
    /\ UNCHANGED <<token, generation, offset, connected, polls, shown, entered>>

SignOut == connected /\ Disconnected /\ UNCHANGED waiting

-----------------------------------------------------------------------------

\* Mutant: whoever is signed in may see the answer.
MutantCurrent(call) == token # NoToken

\* The guards after the awaits.
Current(call) == call.session = generation /\ token # NoToken

\* What refresh leaves on the page.
Painted(call) ==
    IF Current(call) THEN [shown EXCEPT !.documents = {call.token}, !.library = {call.token}]
    ELSE shown

\* The handler continues after its last answer; asking and uploading go on to
\* a refresh of their own.
Resume(s) ==
    LET call == waiting[s]
        again == [waiting EXCEPT ![s] = [Handler("refresh", token) EXCEPT !.button = call.button]]
        done == [waiting EXCEPT ![s] = Free]
    IN  \/ /\ call.kind = "refresh"
           /\ shown' = Painted(call) /\ waiting' = done
           /\ UNCHANGED <<offset, connected, polls>>
        \/ /\ call.kind = "connect"
           /\ shown' = Painted(call) /\ waiting' = done
           /\ connected' = (connected \/ token # NoToken)
           /\ polls' = IF token = NoToken THEN polls
                       ELSE [alive |-> polls.alive + 1, held |-> TRUE]
           /\ UNCHANGED offset
        \/ /\ call.kind = "query"
           /\ shown' = IF Current(call) THEN [shown EXCEPT !.answer = {call.token}] ELSE shown
           /\ waiting' = IF Current(call) THEN again ELSE done
           /\ UNCHANGED <<offset, connected, polls>>
        \/ /\ call.kind = "upload"
           /\ offset' = IF call.session = generation THEN 0 ELSE offset
           /\ waiting' = IF call.session = generation THEN again ELSE done
           /\ UNCHANGED <<shown, connected, polls>>

\* A request succeeds; the gateway accepts only a token.
Succeed(s, leg) ==
    /\ leg \in waiting[s].legs /\ waiting[s].token # NoToken
    /\ IF waiting[s].legs = {leg} /\ waiting[s].kind # "rejected" THEN Resume(s)
       ELSE /\ waiting' = IF waiting[s].legs = {leg} THEN [waiting EXCEPT ![s] = Free]
                          ELSE [waiting EXCEPT ![s].legs = @ \ {leg}]
            /\ UNCHANGED <<offset, connected, polls, shown>>
    /\ UNCHANGED <<token, generation, entered>>

\* The handler rejects at once; its other request is still under way.
Rejected(s, leg) ==
    LET call == waiting[s]
    IN  waiting' = [waiting EXCEPT ![s] =
            IF call.legs = {leg} THEN Free
            ELSE [call EXCEPT !.kind = "rejected", !.legs = call.legs \ {leg}, !.button = "none"]]

\* Another status, a broken connection or the timeout: only a failed connect
\* changes more than the notice.
LegFails(s, leg) ==
    /\ leg \in waiting[s].legs
    /\ Rejected(s, leg)
    /\ token' = IF waiting[s].kind = "connect" THEN NoToken ELSE token
    /\ UNCHANGED <<generation, offset, connected, polls, shown, entered>>

\* 401, for a request of this session or of an earlier one.
SessionExpires(s, leg) ==
    /\ leg \in waiting[s].legs
    /\ Rejected(s, leg)
    /\ Disconnected

WorkspaceNext == \E s \in Slots :
    \/ \E login \in Logins : Submit(s, login)
    \/ \E kind \in {"refresh", "query", "upload"} : Click(s, kind)
    \/ \E page \in 0..1 : Turn(s, page)
    \/ Poll(s) \/ SignOut
    \/ \E leg \in waiting[s].legs : Succeed(s, leg) \/ LegFails(s, leg) \/ SessionExpires(s, leg)

WorkspaceSpec == WorkspaceInit /\ [][WorkspaceNext]_workspaceVars

-----------------------------------------------------------------------------

(* Signing out takes the documents and the answer off the page and nothing  *)
(* brings them back: what is listed was fetched with a token entered since  *)
(* the last sign-out; before one is entered there is none (app.js,          *)
(* disconnect and the guards after its awaits).                             *)
DocumentsEndWithSession == shown.documents \cup shown.answer \subseteq entered

(* "Clear page-held credentials/content": the workspace never shows anyone  *)
(* what an earlier user's token fetched. disconnect leaves the options of   *)
(* "Search in" (names and ids of documents), the counters and the usage; a  *)
(* late connect of the earlier session shows the panel again, under the     *)
(* next user's token (app.js, disconnect and the submit of auth-form).      *)
NothingOutlivesSignOut ==
    connected => shown.documents \cup shown.answer \cup shown.library \subseteq entered

=============================================================================
