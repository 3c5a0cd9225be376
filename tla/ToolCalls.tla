------------------------------- MODULE ToolCalls -------------------------------
(***************************************************************************)
(* A tool call from the first byte of its request to its answer: the body  *)
(* limit, the verifier of its access token, the tool's read of a source    *)
(* database, and the row it leaves in the audit log, on two connection     *)
(* pools that all calls share.                                             *)
(*                                                                         *)
(* Sources: BodyLimitMiddleware, AccessTokenVerifier.verify_token          *)
(* (app/presentation/mcp/token_verifier.py), _run and the tools of         *)
(* app/presentation/mcp/server.py, AuditService.operation                  *)
(* (app/services/audit_service.py), get_token, get_active_principal and    *)
(* append_audit (control_repository.py), PostgresPool.transaction          *)
(* (app/infrastructure/postgres/pool.py).                                  *)
(*                                                                         *)
(* A transaction is two steps: a connection is taken from the pool, and    *)
(* the statements run and give it back.  What a tool reads is not looked   *)
(* at here, only how many transactions it takes and how it ends.           *)
(***************************************************************************)
EXTENDS BodyLimit, FiniteSets

CONSTANTS
    Token,          \* access tokens
    ControlMax,     \* connections of the control pool
    SourceMax,      \* connections of the pool of the source
    NoToken

ASSUME Pools == /\ ControlMax \in Nat \ {0} /\ SourceMax \in Nat \ {0}
                /\ IsFiniteSet(Call) /\ NoToken \notin Token

VARIABLES
    token,      \* state of each token's row
    active,     \* the service principal's status is 'active'
    control,    \* idle connections of the control pool
    source,     \* idle connections of the source's pool
    pc,
    tok,        \* the token the request carries
    outcome,    \* how the body of audit_service.operation was left
    row,        \* status of the call's row in audit_log
    unsure,     \* calls whose insert raised: logged, and otherwise ignored
    answer,     \* what the client got
    tokenGood,  \* the call's token was good at some time since it arrived
    ownerGood   \* the principal was active at some time since it arrived

pools == <<control, source>>
audit == <<outcome, row, unsure>>
seenGood == <<tokenGood, ownerGood>>
vars == <<bodyVars, token, active, pools, pc, tok, audit, answer, seenGood>>

\* In a ...Tx step the call has a connection, before it the call waits for one.
OnControl == {"tokenTx", "principalTx", "auditTx"}
OnSource == {"catalogTx", "queryTx"}
Before == [tokenTx |-> "token", principalTx |-> "principal", auditTx |-> "audit",
           catalogTx |-> "catalog", queryTx |-> "query"]
Operating == {"catalog", "catalogTx", "query", "queryTx"}
PCs == {"new", "body", "token", "principal", "read", "audit", "done"}
           \cup Operating \cup OnControl

TypeOK ==
    /\ BodyTypeOK
    /\ token \in [Token -> {"none", "live", "dead"}]
    /\ active \in BOOLEAN
    /\ control \in 0..ControlMax /\ source \in 0..SourceMax
    /\ pc \in [Call -> PCs]
    /\ tok \in [Call -> Token \cup {NoToken}]
    /\ outcome \in [Call -> {"none", "ok", "failed", "cancelled"}]
    /\ row \in [Call -> {"none", "success", "failed"}]
    /\ unsure \subseteq Call
    /\ answer \in [Call -> {"none", "result", "error", "unauthorized", "too large", "gone"}]
    /\ tokenGood \subseteq Call /\ ownerGood \subseteq Call

Init ==
    /\ BodyInit
    /\ token = [t \in Token |-> "none"]
    /\ active \in BOOLEAN
    /\ control = ControlMax /\ source = SourceMax
    /\ pc = [c \in Call |-> "new"]
    /\ tok = [c \in Call |-> NoToken]
    /\ outcome = [c \in Call |-> "none"]
    /\ row = [c \in Call |-> "none"]
    /\ unsure = {}
    /\ answer = [c \in Call |-> "none"]
    /\ tokenGood = {} /\ ownerGood = {}

Goto(c, step) == pc' = [pc EXCEPT ![c] = step]

\* The connection call c has, if any, goes back to its pool.
GiveBack(c) ==
    /\ control' = control + IF pc[c] \in OnControl THEN 1 ELSE 0
    /\ source' = source + IF pc[c] \in OnSource THEN 1 ELSE 0

\* An HTTP answer without the tool.
Refuse(c, a) ==
    /\ Goto(c, "done")
    /\ answer' = [answer EXCEPT ![c] = a]
    /\ Forget(c)

-----------------------------------------------------------------------------
(* The request arrives.                                                     *)

\* The client has been given token t at some time.
Arrive(c, t) ==
    /\ pc[c] = "new"
    /\ token[t] # "none"
    /\ tok' = [tok EXCEPT ![c] = t]
    /\ tokenGood' = IF token[t] = "live" THEN tokenGood \cup {c} ELSE tokenGood
    /\ ownerGood' = IF active THEN ownerGood \cup {c} ELSE ownerGood
    /\ Goto(c, "body")
    /\ UNCHANGED <<bodyVars, token, active, pools, audit, answer>>

\* A message that fits; with the last one the application is called.
Receive(c) ==
    /\ pc[c] = "body"
    /\ \E m \in Message : Send(c, m) /\ Keep(c, m) /\ Goto(c, IF m.more THEN "body" ELSE "token")
    /\ UNCHANGED <<token, active, pools, tok, audit, answer, seenGood>>

\* payload_too_large, while the client may still be sending.
TooLarge(c) ==
    /\ pc[c] = "body"
    /\ \E m \in Message : ~Fits(c, m)
    /\ Refuse(c, "too large")
    /\ UNCHANGED <<token, active, pools, tok, audit, seenGood>>

\* http.disconnect
Disconnect(c) ==
    /\ pc[c] = "body"
    /\ Refuse(c, "gone")
    /\ UNCHANGED <<token, active, pools, tok, audit, seenGood>>

-----------------------------------------------------------------------------
(* Transactions.                                                            *)

\* A connection of the control pool, for one of the calls that wait for it.
TakeControl(c, step) ==
    /\ pc[c] = Before[step]
    /\ control > 0
    /\ control' = control - 1
    /\ Goto(c, step)
    /\ UNCHANGED <<bodyVars, token, active, source, tok, audit, answer, seenGood>>

TakeSource(c, step) ==
    /\ pc[c] = Before[step]
    /\ source > 0
    /\ source' = source - 1
    /\ Goto(c, step)
    /\ UNCHANGED <<bodyVars, token, active, control, tok, audit, answer, seenGood>>

\* A wait ends in PoolTimeout only while the pool has no idle connection.
ControlTimeout == control = 0

-----------------------------------------------------------------------------
(* verify_token.                                                            *)

\* get_token, and the test of the record it returned.
GetToken(c) ==
    /\ pc[c] = "tokenTx"
    /\ token[tok[c]] = "live"
    /\ GiveBack(c)
    /\ Goto(c, "principal")
    /\ UNCHANGED <<bodyVars, token, active, tok, audit, answer, seenGood>>

\* Fault: the principal is not asked for.
GetPrincipalAnyway(c) ==
    /\ pc[c] = "principalTx"
    /\ GiveBack(c)
    /\ Goto(c, "read")
    /\ UNCHANGED <<bodyVars, token, active, tok, audit, answer, seenGood>>

\* get_active_principal, a transaction of its own: the token is not looked at
\* again.
GetPrincipal(c) ==
    /\ pc[c] = "principalTx"
    /\ active
    /\ GiveBack(c)
    /\ Goto(c, "read")
    /\ UNCHANGED <<bodyVars, token, active, tok, audit, answer, seenGood>>

\* None: a bad token or no active principal, and likewise any failure of the
\* store or the pool.
Unauthorized(c) ==
    /\ \/ pc[c] \in {"tokenTx", "principalTx"}
       \/ pc[c] \in {"token", "principal"} /\ ControlTimeout
    /\ GiveBack(c)
    /\ Refuse(c, "unauthorized")
    /\ UNCHANGED <<token, active, tok, audit, seenGood>>

\* The transport reads the body it authorized, and calls the tool with it.
ReadBody(c) ==
    /\ pc[c] = "read"
    /\ ~BodyRead(c)
    /\ Replay(c)
    /\ UNCHANGED <<token, active, pools, pc, tok, audit, answer, seenGood>>

CallTool(c) ==
    /\ pc[c] = "read"
    /\ BodyRead(c)
    /\ Forget(c)
    /\ Goto(c, "catalog")
    /\ UNCHANGED <<token, active, pools, tok, audit, answer, seenGood>>

-----------------------------------------------------------------------------
(* _run: the tool inside audit_service.operation.                           *)

\* The body of the audit context is left, normally or by an exception.
Leave(c, how) ==
    /\ GiveBack(c)
    /\ outcome' = [outcome EXCEPT ![c] = how]
    /\ Goto(c, "audit")
    /\ UNCHANGED <<bodyVars, token, active, tok, row, unsure, answer, seenGood>>

\* The snapshot of the catalog is fresh, or load_catalog has read it.
Resolved(c) ==
    /\ pc[c] \in {"catalog", "catalogTx"}
    /\ GiveBack(c)
    /\ Goto(c, "query")
    /\ UNCHANGED <<bodyVars, token, active, tok, audit, answer, seenGood>>

\* The tool returns: with what its query read, or without one (list_sources,
\* list_entities and get_entity_fields).
ToolReturns(c) ==
    /\ pc[c] \in {"catalog", "query", "queryTx"}
    /\ Leave(c, "ok")

\* response_too_large_narrow_fields_or_filters: the tool has returned, but its
\* response is refused while the call is still audited.
ResponseTooLarge(c) ==
    /\ pc[c] \in {"query", "queryTx"}
    /\ Leave(c, "failed")

\* CatalogError and QueryValidationError, before or after the catalog is read;
\* a wait for a connection, or a statement, that is given up; internal_error.
ToolFails(c) ==
    /\ pc[c] \in Operating
    /\ Leave(c, "failed")

\* Fault: a cancelled call keeps its connection.
CancelLeaking(c) ==
    /\ pc[c] \in Operating
    /\ outcome' = [outcome EXCEPT ![c] = "cancelled"]
    /\ Goto(c, "audit")
    /\ UNCHANGED <<bodyVars, token, active, pools, tok, row, unsure, answer, seenGood>>

\* The call is cancelled while the tool runs.  CancelledError is no Exception:
\* "success" stays TRUE, and "finally" goes on to the insert.
Cancel(c) ==
    /\ pc[c] \in Operating
    /\ Leave(c, "cancelled")

-----------------------------------------------------------------------------
(* append_audit, and the answer.                                            *)

\* Fault: an exception does not reset "success".
StatusUnreset(c) == "success"

Status(c) == IF outcome[c] = "failed" THEN "failed" ELSE "success"

\* What _run returns or raises.
Reply(c) == CASE outcome[c] = "ok"        -> "result"
              [] outcome[c] = "failed"    -> "error"
              [] outcome[c] = "cancelled" -> "gone"

\* The context manager ends, and with it the call.
End(c) ==
    /\ GiveBack(c)
    /\ Goto(c, "done")
    /\ UNCHANGED <<bodyVars, token, active, tok, outcome, seenGood>>

AppendAudit(c) ==
    /\ pc[c] = "auditTx"
    /\ row' = [row EXCEPT ![c] = Status(c)]
    /\ answer' = [answer EXCEPT ![c] = Reply(c)]
    /\ End(c)
    /\ UNCHANGED unsure

\* The insert raises an Exception (of which a connection lost at COMMIT leaves
\* open whether the row is there), which is logged.
AuditFails(c) ==
    /\ \/ pc[c] = "audit" /\ ControlTimeout /\ UNCHANGED row
       \/ pc[c] = "auditTx" /\ row' \in {row, [row EXCEPT ![c] = Status(c)]}
    /\ unsure' = unsure \cup {c}
    /\ answer' = [answer EXCEPT ![c] = Reply(c)]
    /\ End(c)

\* It is cancelled itself, and rolled back.
CancelAudit(c) ==
    /\ pc[c] \in {"audit", "auditTx"}
    /\ answer' = [answer EXCEPT ![c] = "gone"]
    /\ End(c)
    /\ UNCHANGED <<row, unsure>>

-----------------------------------------------------------------------------
(* Meanwhile.                                                               *)

\* exchange_code or refresh creates the token: refresh without a look at the
\* principal.
Mint(t) ==
    /\ token[t] = "none"
    /\ token' = [token EXCEPT ![t] = "live"]
    /\ UNCHANGED <<bodyVars, active, pools, pc, tok, audit, answer, seenGood>>

\* The token expires or is revoked, for good.
Kill(t) ==
    /\ token[t] = "live"
    /\ token' = [token EXCEPT ![t] = "dead"]
    /\ UNCHANGED <<bodyVars, active, pools, pc, tok, audit, answer, seenGood>>

\* Whoever runs the server disables its principal, or enables it again.
SetStatus ==
    /\ active' = ~active
    /\ ownerGood' = IF active' THEN {c \in Call : pc[c] # "new"} ELSE ownerGood
    /\ UNCHANGED <<bodyVars, token, pools, pc, tok, audit, answer, tokenGood>>

\* What a call does by itself once its body is complete.
Step(c) ==
    \/ \E step \in OnControl : TakeControl(c, step)
    \/ \E step \in OnSource : TakeSource(c, step)
    \/ GetToken(c) \/ GetPrincipal(c) \/ Unauthorized(c)
    \/ ReadBody(c) \/ CallTool(c)
    \/ Resolved(c) \/ ToolReturns(c) \/ ResponseTooLarge(c) \/ ToolFails(c)
    \/ AppendAudit(c) \/ AuditFails(c)

Next ==
    \/ \E c \in Call :
          \/ \E t \in Token : Arrive(c, t)
          \/ Receive(c) \/ TooLarge(c) \/ Disconnect(c)
          \/ Step(c)
          \/ Cancel(c) \/ CancelAudit(c)
    \/ \E t \in Token : Mint(t) \/ Kill(t)
    \/ SetStatus

Spec == Init /\ [][Next]_vars

\* The event loop runs every call that is ready; a statement or a wait for a
\* connection ends by its timeout if nothing else ends it.
FairSpec == Spec /\ \A c \in Call : WF_vars(Step(c))

-----------------------------------------------------------------------------
(* Properties.                                                              *)

\* Whatever ends a transaction, its connection is idle again: a path that kept
\* one would starve the tools or, on the control pool, the verifier.
ConnectionsReturned ==
    /\ control + Cardinality({c \in Call : pc[c] \in OnControl}) = ControlMax
    /\ source + Cardinality({c \in Call : pc[c] \in OnSource}) = SourceMax

\* A tool runs for nobody whose token was dead, or whose principal was
\* disabled, all the time since the request arrived.  (It may run on after
\* either changes: the verifier looks once at each, and refresh never looks at
\* the principal.)
AuthorizedSinceArrival ==
    \A c \in Call : pc[c] \in {"read", "audit", "auditTx"} \cup Operating =>
        c \in tokenGood \cap ownerGood

\* The audit log and the client agree: an answer of the tool has a row, unless
\* the insert failed; a call that was told of an error is not in it as a
\* success, nor one that got its result as a failure.
AuditAgrees ==
    \A c \in Call :
        /\ answer[c] \in {"result", "error"} => row[c] # "none" \/ c \in unsure
        /\ answer[c] = "result" => row[c] # "failed"
        /\ answer[c] = "error" => row[c] # "success"

\* The application gets the body the client sent, message by message and within
\* the limit, and nothing before it is complete.
BodyIntact ==
    \A c \in Call :
        /\ IsPrefix(seen[c], sent[c])
        /\ seen[c] # <<>> => ~Last(sent[c]).more /\ Size(sent[c]) <= MaxBytes
        /\ BodyRead(c) => seen[c] = sent[c]

\* A request whose body has come is answered.
CallsAreAnswered == \A c \in Call : pc[c] = "token" ~> pc[c] = "done"
=============================================================================
