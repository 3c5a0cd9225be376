-------------------------- MODULE AuthorizationCodes --------------------------
(***************************************************************************)
(* The authorization code flow: a request is opened by GET /authorize,     *)
(* approved by a login (POST /authorize) that turns it into a code, and    *)
(* the code is exchanged at POST /token for a token family.                *)
(*                                                                         *)
(* Sources: OAuthService.begin_authorization, issue_authorization_code and *)
(* exchange_code, PrincipalService.authenticate (app/services/             *)
(* auth_service.py) over get_request, consume_request, create_code,        *)
(* consume_code and cleanup of the control repository.  Every repository   *)
(* call is a transaction of one statement, so each is one action and other *)
(* handlers run between any two of them.                                   *)
(***************************************************************************)
EXTENDS Naturals, FiniteSets

CONSTANTS
    Handler,    \* concurrent HTTP handlers
    Request,    \* ids of mcp_control.authorization_requests
    Code,       \* ids of mcp_control.authorization_codes
    NoRequest, NoCode

ASSUME NonMembers == NoRequest \notin Request /\ NoCode \notin Code

VARIABLES
    request,    \* state of each request's row
    code,       \* state of each code's row
    stale,      \* requests and codes whose expires_at has passed
    source,     \* the request whose client, redirect URI and challenge a code has
    active,     \* the service principal's status is 'active'
    pc, req, cod, proof,
    sent,       \* codes that reached a client in a redirect
    families    \* how many token families each code was exchanged for

rows    == <<request, code, stale, source>>
local   == <<pc, req, cod, proof>>
vars    == <<rows, active, local, sent, families>>

RowStates == {"none", "open", "consumed", "deleted"}
PCs == {"idle", "getRequest", "consumeRequest", "createCode", "redirect",
        "consumeCode", "issue"}

TypeOK ==
    /\ request \in [Request -> RowStates]
    /\ code \in [Code -> RowStates]
    /\ stale \subseteq Request \cup Code
    /\ source \in [Code -> Request \cup {NoRequest}]
    /\ active \in BOOLEAN
    /\ pc \in [Handler -> PCs]
    /\ req \in [Handler -> Request \cup {NoRequest}]
    /\ cod \in [Handler -> Code \cup {NoCode}]
    /\ proof \in [Handler -> BOOLEAN]
    /\ sent \subseteq Code
    /\ families \in [Code -> Nat]

Init ==
    /\ request = [r \in Request |-> "none"]
    /\ code = [c \in Code |-> "none"]
    /\ stale = {}
    /\ source = [c \in Code |-> NoRequest]
    /\ active = TRUE
    /\ pc = [h \in Handler |-> "idle"]
    /\ req = [h \in Handler |-> NoRequest]
    /\ cod = [h \in Handler |-> NoCode]
    /\ proof = [h \in Handler |-> FALSE]
    /\ sent = {}
    /\ families = [c \in Code |-> 0]

FreshCode == CHOOSE c \in Code : code[c] = "none"

\* The response or the exception that ends handler h.
Finish(h) ==
    /\ pc' = [pc EXCEPT ![h] = "idle"]
    /\ req' = [req EXCEPT ![h] = NoRequest]
    /\ cod' = [cod EXCEPT ![h] = NoCode]
    /\ proof' = [proof EXCEPT ![h] = FALSE]

\* It ends having written nothing in this step.
Reject(h) == Finish(h) /\ UNCHANGED <<rows, active, sent, families>>

Goto(h, step) ==
    /\ pc' = [pc EXCEPT ![h] = step]
    /\ UNCHANGED <<req, cod, proof>>

-----------------------------------------------------------------------------
(* GET and POST /mcp/oauth/authorize.                                       *)

\* create_request, for a request whose client, redirect URI, resource, scope
\* and challenge passed; one that does not leaves nothing behind.
BeginAuthorization(r) ==
    /\ request[r] = "none"
    /\ request' = [request EXCEPT ![r] = "open"]
    /\ UNCHANGED <<code, stale, source, active, local, sent, families>>

\* authenticate succeeds: right login and password, and get_active_principal.
\* The form carries the id of a request that was opened at some time.
Authenticate(h, r) ==
    /\ pc[h] = "idle"
    /\ request[r] # "none"
    /\ active
    /\ pc' = [pc EXCEPT ![h] = "getRequest"]
    /\ req' = [req EXCEPT ![h] = r]
    /\ UNCHANGED <<rows, active, cod, proof, sent, families>>

Approvable(r) == request[r] = "open" /\ r \notin stale

\* issue_authorization_code reads the request and tests its copy ...
GetRequest(h) ==
    /\ pc[h] = "getRequest"
    /\ \/ Approvable(req[h]) /\ Goto(h, "consumeRequest")
          /\ UNCHANGED <<rows, active, sent, families>>
       \/ ~Approvable(req[h]) /\ Reject(h)

\* Fault: the UPDATE relies on what get_request returned.
ConsumeRequestBlindly(h) ==
    /\ pc[h] = "consumeRequest"
    /\ request' = [request EXCEPT ![req[h]] = "consumed"]
    /\ Goto(h, "createCode")
    /\ UNCHANGED <<code, stale, source, active, sent, families>>

\* ... and later consumes it, by an UPDATE that tests the row again ...
ConsumeRequest(h) ==
    /\ pc[h] = "consumeRequest"
    /\ Approvable(req[h])
    /\ request' = [request EXCEPT ![req[h]] = "consumed"]
    /\ Goto(h, "createCode")
    /\ UNCHANGED <<code, stale, source, active, sent, families>>

\* ... or finds that another login was faster, or the time over.
ConsumeRequestLost(h) ==
    /\ pc[h] = "consumeRequest"
    /\ ~Approvable(req[h])
    /\ Reject(h)

CreateCode(h) ==
    /\ pc[h] = "createCode"
    /\ \E c \in Code : code[c] = "none"
    /\ code' = [code EXCEPT ![FreshCode] = "open"]
    /\ source' = [source EXCEPT ![FreshCode] = req[h]]
    /\ cod' = [cod EXCEPT ![h] = FreshCode]
    /\ pc' = [pc EXCEPT ![h] = "redirect"]
    /\ UNCHANGED <<request, stale, active, req, proof, sent, families>>

\* The browser follows the redirect; the client has the code.
Redirect(h) ==
    /\ pc[h] = "redirect"
    /\ sent' = sent \cup {cod[h]}
    /\ Finish(h)
    /\ UNCHANGED <<rows, active, families>>

-----------------------------------------------------------------------------
(* POST /mcp/oauth/token, grant_type=authorization_code: exchange_code.     *)

\* get_active_principal and _require_client pass.  "ok" says whether redirect
\* URI, resource and PKCE verifier are those of the code's request.
Exchange(h, c, ok) ==
    /\ pc[h] = "idle"
    /\ c \in sent
    /\ active
    /\ pc' = [pc EXCEPT ![h] = "consumeCode"]
    /\ cod' = [cod EXCEPT ![h] = c]
    /\ proof' = [proof EXCEPT ![h] = ok]
    /\ UNCHANGED <<rows, active, req, sent, families>>

\* Fault: a code that was consumed is taken again.
ConsumableTwice(c) == code[c] \in {"open", "consumed"} /\ c \notin stale

Consumable(c) == code[c] = "open" /\ c \notin stale

\* The code is consumed before redirect URI, resource and verifier are looked
\* at: a wrong one costs the client its code.
ConsumeCode(h) ==
    /\ pc[h] = "consumeCode"
    /\ Consumable(cod[h])
    /\ code' = [code EXCEPT ![cod[h]] = "consumed"]
    /\ \/ proof[h] /\ Goto(h, "issue")
       \/ ~proof[h] /\ Finish(h)
    /\ UNCHANGED <<request, stale, source, active, sent, families>>

\* The UPDATE finds no row: consumed, expired, or of another client.
ConsumeCodeLost(h) ==
    /\ pc[h] = "consumeCode"
    /\ Reject(h)

\* Fault: the call is repeated when the answer to the COMMIT is lost.
IssueNewFamilyAgain(h) ==
    /\ pc[h] = "issue"
    /\ families' = [families EXCEPT ![cod[h]] = @ + 1]
    /\ \/ families[cod[h]] > 0 /\ Finish(h)
       \/ families[cod[h]] = 0 /\ UNCHANGED local
    /\ UNCHANGED <<rows, active, sent>>

\* _issue_new_family, whose own steps are module TokenFamilies.
IssueNewFamily(h) ==
    /\ pc[h] = "issue"
    /\ families' = [families EXCEPT ![cod[h]] = @ + 1]
    /\ Finish(h)
    /\ UNCHANGED <<rows, active, sent>>

-----------------------------------------------------------------------------
(* Time, maintenance, the operator, failures.                               *)

Expire(x) ==
    /\ x \notin stale
    /\ \/ x \in Request /\ request[x] # "none"
       \/ x \in Code /\ code[x] # "none"
    /\ stale' = stale \cup {x}
    /\ UNCHANGED <<request, code, source, active, local, sent, families>>

Drop(state, ids) ==
    [x \in ids |-> IF x \in stale /\ state[x] # "none" THEN "deleted" ELSE state[x]]

\* The first two DELETEs of cleanup, in one transaction.
Cleanup ==
    /\ request' = Drop(request, Request)
    /\ code' = Drop(code, Code)
    /\ UNCHANGED <<stale, source, active, local, sent, families>>

\* Nothing in the program changes the status; whoever runs it may, in SQL.
SetStatus ==
    /\ active' = ~active
    /\ UNCHANGED <<rows, local, sent, families>>

\* The handler ends before its next step, with what it wrote committed.
Crash(h) == pc[h] # "idle" /\ Reject(h)

-----------------------------------------------------------------------------

Authorize(h) ==
    \/ \E r \in Request : Authenticate(h, r)
    \/ GetRequest(h) \/ ConsumeRequest(h) \/ ConsumeRequestLost(h)
    \/ CreateCode(h) \/ Redirect(h)

TokenEndpoint(h) ==
    \/ \E c \in Code, ok \in BOOLEAN : Exchange(h, c, ok)
    \/ ConsumeCode(h) \/ ConsumeCodeLost(h) \/ IssueNewFamily(h)

Next ==
    \/ \E r \in Request : BeginAuthorization(r)
    \/ \E h \in Handler : Authorize(h) \/ TokenEndpoint(h) \/ Crash(h)
    \/ \E x \in Request \cup Code : Expire(x)
    \/ Cleanup
    \/ SetStatus

Spec == Init /\ [][Next]_vars

-----------------------------------------------------------------------------
(* Properties.                                                              *)

\* A login approves one exchange: whatever logins are submitted for a request
\* and however its codes are presented, one family comes of it at most.
OneFamilyPerRequest ==
    \A c, d \in Code :
        families[c] > 0 /\ families[d] > 0 /\ source[c] = source[d]
            => c = d /\ families[c] = 1

\* What is still under way for request r: the request itself, a login that has
\* consumed it, a code to be exchanged, an exchange that has consumed that.
UnderWay(r) ==
    \/ request[r] \in {"none", "open"}
    \/ \E h \in Handler : pc[h] = "createCode" /\ req[h] = r
    \/ \E c \in Code : source[c] = r /\ code[c] = "open"
    \/ \E h \in Handler : pc[h] = "issue" /\ source[cod[h]] = r

\* A request that was used up, by a family or by a failure on the way (a crash
\* after the request was consumed, a wrong verifier that burnt the code), is
\* used up for good: only a new request leads to tokens.
UsedUpForGood ==
    [][\A r \in Request :
          ~UnderWay(r) =>
              /\ ~UnderWay(r)'
              /\ \A c \in Code : source[c] = r => families'[c] = families[c]]_vars

-----------------------------------------------------------------------------
(* The flow implements CodeGrant.                                           *)

Granted(r) == \E c \in Code : source[c] = r /\ families[c] > 0

\* The families that request r has led to.
FamiliesOf(r) == UNION {{c} \X (1 .. families[c]) : c \in {d \in Code : source[d] = r}}

Stage ==
    [r \in Request |->
        IF request[r] \in {"none", "open"} THEN "open"
        ELSE IF Granted(r) THEN "granted"
        ELSE IF UnderWay(r) THEN "approved" ELSE "lost"]

Issued == [r \in Request |-> Cardinality(FamiliesOf(r))]

Flow == INSTANCE CodeGrant WITH stage <- Stage, issued <- Issued

\* Two statements of different transactions, with a code between them that
\* travels through a browser, come to what one atomic grant would do: every step
\* of every handler approves one open request, issues its one family, ends it
\* for good or leaves all requests as they are (consume_request, consume_code).
ImplementsCodeGrant == Flow!Spec
=============================================================================
