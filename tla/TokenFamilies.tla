---------------------------- MODULE TokenFamilies ----------------------------
(***************************************************************************)
(* The OAuth token store: refresh-token families, their rotation and their *)
(* revocation, run by concurrent HTTP handlers over PostgreSQL.            *)
(*                                                                         *)
(* Sources: OAuthService._issue_new_family, refresh and revoke (app/       *)
(* services/auth_service.py) over PostgresControlStore.create_family,      *)
(* create_token, get_token, rotate_refresh_token, revoke_token,            *)
(* revoke_family and cleanup (app/infrastructure/postgres/                 *)
(* control_repository.py).                                                 *)
(*                                                                         *)
(* Granularity.  A repository call is one READ COMMITTED transaction.      *)
(* Writes of an open transaction are invisible to the others until it      *)
(* commits, so they are applied by its commit action; what the others can  *)
(* feel before that is its row locks, which are explicit.  A transaction   *)
(* of one statement is one action.                                         *)
(***************************************************************************)
EXTENDS Naturals, FiniteSets

CONSTANTS
    Proc,       \* concurrent HTTP handlers (POST /token and POST /revoke)
    Token,      \* row ids of mcp_control.oauth_tokens (uuid4, never reused)
    Family,     \* row ids of mcp_control.token_families
    NoProc, NoToken, NoFamily

ASSUME NonMembers == /\ NoProc \notin Proc
                     /\ NoToken \notin Token
                     /\ NoFamily \notin Family

VARIABLES
    \* mcp_control.oauth_tokens
    rows,       \* ids of the rows that exist
    kind,       \* token_type of every id ever inserted, "none" before that
    owner,      \* token_family_id
    succ,       \* replaced_by_token_id (consumed_at is set by the same UPDATE)
    revoked,    \* ids whose revoked_at is set
    expired,    \* ids whose expires_at has passed
    \* mcp_control.token_families
    families,   \* ids of the rows that exist
    dead,       \* ids whose revoked_at is set
    \* row locks of the open transactions
    tokLock, famLock,
    \* the handlers
    pc, arg, fam, todo, reply,
    \* the clients
    delivered   \* tokens that reached a client in a response

tables == <<rows, kind, owner, succ, revoked, expired, families, dead>>
locks  == <<tokLock, famLock>>
local  == <<pc, arg, fam, todo, reply>>
vars   == <<tables, locks, local, delivered>>

PCs == {"idle", "issueAccess", "issueRefresh", "rotate", "rotFamily",
        "rotCommit", "mintAccess", "respond",
        "revFamily", "revScan", "revTokens"}

TypeOK ==
    /\ rows \subseteq Token
    /\ kind \in [Token -> {"none", "access", "refresh"}]
    /\ owner \in [Token -> Family \cup {NoFamily}]
    /\ succ \in [Token -> Token \cup {NoToken}]
    /\ revoked \subseteq Token
    /\ expired \subseteq Token
    /\ families \subseteq Family
    /\ dead \subseteq Family
    /\ tokLock \in [Token -> Proc \cup {NoProc}]
    /\ famLock \in [Family -> Proc \cup {NoProc}]
    /\ pc \in [Proc -> PCs]
    /\ arg \in [Proc -> Token \cup {NoToken}]
    /\ fam \in [Proc -> Family \cup {NoFamily}]
    /\ todo \in [Proc -> SUBSET Token]
    /\ reply \in [Proc -> SUBSET Token]
    /\ delivered \subseteq Token

Init ==
    /\ rows = {} /\ revoked = {} /\ expired = {} /\ families = {} /\ dead = {}
    /\ kind = [t \in Token |-> "none"]
    /\ owner = [t \in Token |-> NoFamily]
    /\ succ = [t \in Token |-> NoToken]
    /\ tokLock = [t \in Token |-> NoProc]
    /\ famLock = [f \in Family |-> NoProc]
    /\ pc = [p \in Proc |-> "idle"]
    /\ arg = [p \in Proc |-> NoToken]
    /\ fam = [p \in Proc |-> NoFamily]
    /\ todo = [p \in Proc |-> {}]
    /\ reply = [p \in Proc |-> {}]
    /\ delivered = {}

-----------------------------------------------------------------------------
(* Rows.                                                                    *)

\* A consumed refresh token: consumed_at and replaced_by_token_id are set.
Consumed(t) == succ[t] # NoToken

\* uuid4 ids are interchangeable, so which unused one is drawn is immaterial.
Unused == {t \in Token : kind[t] = "none"}
FreshToken == CHOOSE t \in Token : kind[t] = "none"
FreshFamily == CHOOSE f \in Family : f \notin families

InsertToken(t, k, f) ==
    /\ rows' = rows \cup {t}
    /\ kind' = [kind EXCEPT ![t] = k]
    /\ owner' = [owner EXCEPT ![t] = f]

\* OAuthToken.is_active and the verifier's own tests on the row: what
\* AccessTokenVerifier.verify_token lets through.
Accepted(t) ==
    /\ t \in rows
    /\ kind[t] = "access"
    /\ t \notin revoked /\ t \notin expired /\ ~Consumed(t)

\* A refresh row that rotate_refresh_token would still accept but for expiry.
Live(t) ==
    /\ t \in rows
    /\ kind[t] = "refresh"
    /\ t \notin revoked /\ ~Consumed(t)

\* The handler ends, by a response or an exception; its locals are gone.
Finish(p) ==
    /\ pc' = [pc EXCEPT ![p] = "idle"]
    /\ arg' = [arg EXCEPT ![p] = NoToken]
    /\ fam' = [fam EXCEPT ![p] = NoFamily]
    /\ todo' = [todo EXCEPT ![p] = {}]
    /\ reply' = [reply EXCEPT ![p] = {}]

\* End of p's transaction: its row locks are released.
Unlock(p) ==
    /\ tokLock' = [t \in Token |-> IF tokLock[t] = p THEN NoProc ELSE tokLock[t]]
    /\ famLock' = [f \in Family |-> IF famLock[f] = p THEN NoProc ELSE famLock[f]]

-----------------------------------------------------------------------------
(* POST /token, grant_type=authorization_code: _issue_new_family, three     *)
(* transactions in a row.  The code it was given for is consumed before     *)
(* (module AuthorizationCodes).                                             *)

IssueFamily(p) ==
    /\ pc[p] = "idle"
    /\ families # Family
    /\ families' = families \cup {FreshFamily}
    /\ fam' = [fam EXCEPT ![p] = FreshFamily]
    /\ pc' = [pc EXCEPT ![p] = "issueAccess"]
    /\ UNCHANGED <<rows, kind, owner, succ, revoked, expired, dead, locks,
                   arg, todo, reply, delivered>>

\* create_token(access); a grant without offline_access stops there.
IssueAccess(p) ==
    /\ pc[p] = "issueAccess"
    /\ Unused # {}
    /\ InsertToken(FreshToken, "access", fam[p])
    /\ reply' = [reply EXCEPT ![p] = @ \cup {FreshToken}]
    /\ \E next \in {"issueRefresh", "respond"} : pc' = [pc EXCEPT ![p] = next]
    /\ UNCHANGED <<succ, revoked, expired, families, dead, locks,
                   arg, fam, todo, delivered>>

IssueRefresh(p) ==
    /\ pc[p] = "issueRefresh"
    /\ Unused # {}
    /\ InsertToken(FreshToken, "refresh", fam[p])
    /\ reply' = [reply EXCEPT ![p] = @ \cup {FreshToken}]
    /\ pc' = [pc EXCEPT ![p] = "respond"]
    /\ UNCHANGED <<succ, revoked, expired, families, dead, locks,
                   arg, fam, todo, delivered>>

\* The response reaches the client.  (A response that does not is Crash.)
Respond(p) ==
    /\ pc[p] = "respond"
    /\ delivered' = delivered \cup reply[p]
    /\ Finish(p)
    /\ UNCHANGED <<tables, locks>>

-----------------------------------------------------------------------------
(* POST /token, grant_type=refresh_token: refresh.                          *)

\* A string the client sends that get_token finds, as a row of that kind.
Found(t, k) == t \in delivered /\ t \in rows /\ kind[t] = k

\* get_token and the tests on the row it returned; a consumed row is a reuse.
Refresh(p, t) ==
    /\ pc[p] = "idle"
    /\ Found(t, "refresh") /\ t \notin expired /\ t \notin revoked
    /\ pc' = [pc EXCEPT ![p] = IF Consumed(t) THEN "revFamily" ELSE "rotate"]
    /\ arg' = [arg EXCEPT ![p] = t]
    /\ fam' = [fam EXCEPT ![p] = owner[t]]
    /\ UNCHANGED <<tables, locks, todo, reply, delivered>>

\* invalid_grant before anything was written: not a refresh token the store
\* knows (any string may be sent), or one that is expired or revoked.
RefreshRejected(p, t) ==
    /\ pc[p] = "idle"
    /\ ~Found(t, "refresh") \/ t \in expired \/ t \in revoked
    /\ UNCHANGED vars

\* Fault: consumption is not tested again under the lock.
RotatableTwice(t) == t \in rows /\ t \notin revoked

\* Fault: revocation is not tested again under the lock.
RotatableRevoked(t) == t \in rows /\ ~Consumed(t)

\* The tests rotate_refresh_token repeats on the row it has locked.  The one on
\* expires_at compares it with a clock read before the lock was asked for, so
\* it says nothing about a row that expires during the wait.
Rotatable(t) == t \in rows /\ ~Consumed(t) /\ t \notin revoked

\* Fault: a plain SELECT instead of SELECT ... FOR UPDATE.
RotateLockUnlocked(p) ==
    /\ pc[p] = "rotate"
    /\ Rotatable(arg[p])
    /\ pc' = [pc EXCEPT ![p] = "rotFamily"]
    /\ UNCHANGED <<tables, locks, arg, fam, todo, reply, delivered>>

\* SELECT ... FOR UPDATE waits for the row and then sees its last version.
RotateLock(p) ==
    /\ pc[p] = "rotate"
    /\ tokLock[arg[p]] = NoProc
    /\ Rotatable(arg[p])
    /\ tokLock' = [tokLock EXCEPT ![arg[p]] = p]
    /\ pc' = [pc EXCEPT ![p] = "rotFamily"]
    /\ UNCHANGED <<tables, famLock, arg, fam, todo, reply, delivered>>

\* It returns False, for those tests or because the row expired between
\* get_token and that clock reading: refresh takes either for a reuse.
RotateRefused(p) ==
    /\ pc[p] = "rotate"
    /\ tokLock[arg[p]] = NoProc
    /\ ~Rotatable(arg[p]) \/ arg[p] \in expired
    /\ pc' = [pc EXCEPT ![p] = "revFamily"]
    /\ UNCHANGED <<tables, locks, arg, fam, todo, reply, delivered>>

\* Fault: the family's row is not updated, hence not locked, by a rotation.
RotateFamilyUnlocked(p) ==
    /\ pc[p] = "rotFamily"
    /\ pc' = [pc EXCEPT ![p] = "rotCommit"]
    /\ UNCHANGED <<tables, locks, arg, fam, todo, reply, delivered>>

\* INSERT of the successor and UPDATE of the locked row, seen by nobody yet,
\* then UPDATE token_families SET last_rotated_at, which waits for the family.
RotateFamily(p) ==
    /\ pc[p] = "rotFamily"
    /\ famLock[fam[p]] = NoProc
    /\ famLock' = [famLock EXCEPT ![fam[p]] = p]
    /\ pc' = [pc EXCEPT ![p] = "rotCommit"]
    /\ UNCHANGED <<tables, tokLock, arg, fam, todo, reply, delivered>>

RotateCommit(p) ==
    /\ pc[p] = "rotCommit"
    /\ Unused # {}
    /\ InsertToken(FreshToken, "refresh", fam[p])
    /\ succ' = [succ EXCEPT ![arg[p]] = FreshToken]
    /\ reply' = [reply EXCEPT ![p] = @ \cup {FreshToken}]
    /\ Unlock(p)
    /\ pc' = [pc EXCEPT ![p] = "mintAccess"]
    /\ UNCHANGED <<revoked, expired, families, dead, arg, fam, todo, delivered>>

\* create_token(access): a transaction of its own, after the rotation's.  Its
\* foreign key to the family takes KEY SHARE, which no UPDATE here blocks.
MintAccess(p) ==
    /\ pc[p] = "mintAccess"
    /\ Unused # {}
    /\ InsertToken(FreshToken, "access", fam[p])
    /\ reply' = [reply EXCEPT ![p] = @ \cup {FreshToken}]
    /\ pc' = [pc EXCEPT ![p] = "respond"]
    /\ UNCHANGED <<succ, revoked, expired, families, dead, locks,
                   arg, fam, todo, delivered>>

-----------------------------------------------------------------------------
(* revoke_family, and POST /revoke.                                         *)

\* revoke of a refresh token: get_token, then revoke_family whatever its state.
RevokeRefresh(p, t) ==
    /\ pc[p] = "idle"
    /\ Found(t, "refresh")
    /\ pc' = [pc EXCEPT ![p] = "revFamily"]
    /\ arg' = [arg EXCEPT ![p] = t]
    /\ fam' = [fam EXCEPT ![p] = owner[t]]
    /\ UNCHANGED <<tables, locks, todo, reply, delivered>>

\* revoke of an access token: revoke_token is one statement on its row.
RevokeAccess(t) ==
    /\ Found(t, "access")
    /\ tokLock[t] = NoProc
    /\ revoked' = revoked \cup {t}
    /\ UNCHANGED <<rows, kind, owner, succ, expired, families, dead, locks,
                   local, delivered>>

\* UPDATE token_families SET revoked_at waits for the family's row.
RevLockFamily(p) ==
    /\ pc[p] = "revFamily"
    /\ famLock[fam[p]] = NoProc
    /\ famLock' = [famLock EXCEPT ![fam[p]] = p]
    /\ pc' = [pc EXCEPT ![p] = "revScan"]
    /\ UNCHANGED <<tables, tokLock, arg, fam, todo, reply, delivered>>

\* UPDATE oauth_tokens WHERE token_family_id: the rows of the statement's own
\* snapshot; one that commits after it is not visited.
RevScan(p) ==
    /\ pc[p] = "revScan"
    /\ todo' = [todo EXCEPT ![p] = {t \in rows : owner[t] = fam[p]}]
    /\ pc' = [pc EXCEPT ![p] = "revTokens"]
    /\ UNCHANGED <<tables, locks, arg, fam, reply, delivered>>

\* The statement locks its rows one after another, in no order it promises,
\* waiting for each; a row deleted meanwhile is skipped.
RevLockToken(p, t) ==
    /\ pc[p] = "revTokens"
    /\ t \in todo[p]
    /\ tokLock[t] = NoProc
    /\ todo' = [todo EXCEPT ![p] = @ \ {t}]
    /\ tokLock' = IF t \in rows THEN [tokLock EXCEPT ![t] = p] ELSE tokLock
    /\ UNCHANGED <<tables, famLock, pc, arg, fam, reply, delivered>>

RevCommit(p) ==
    /\ pc[p] = "revTokens"
    /\ todo[p] = {}
    /\ dead' = dead \cup {fam[p]}
    /\ revoked' = revoked \cup {t \in Token : tokLock[t] = p}
    /\ Unlock(p)
    /\ Finish(p)
    /\ UNCHANGED <<rows, kind, owner, succ, expired, families, delivered>>

-----------------------------------------------------------------------------
(* Failures, time and maintenance.                                          *)

\* Fault: no lock_timeout is set for revoke_family's transaction nor for the
\* part of a rotation that follows the first lock.
WaitingForEver(p) == pc[p] = "rotate" /\ tokLock[arg[p]] # NoProc

\* p waits for a row that another transaction holds.
Waiting(p) ==
    \/ pc[p] = "rotate" /\ tokLock[arg[p]] # NoProc
    \/ pc[p] \in {"rotFamily", "revFamily"} /\ famLock[fam[p]] # NoProc
    \/ pc[p] = "revTokens" /\ \E t \in todo[p] : tokLock[t] # NoProc

\* The transaction rolls back and the handler ends in an error: 500 from
\* /token; /revoke swallows it and answers {} with 200.
Abort(p) == Finish(p) /\ Unlock(p) /\ UNCHANGED <<tables, delivered>>

\* PostgreSQL aborts a statement that waits longer than lock_timeout.
LockTimeout(p) == Waiting(p) /\ Abort(p)

\* Any other failure: the process stops, the connection or the pool fails,
\* the response is lost.
Crash(p) == pc[p] # "idle" /\ Abort(p)

\* The lifetimes are settings, read at start-up, so the tokens of one family
\* expire in no fixed order.
Expire(t) ==
    /\ kind[t] # "none" /\ t \notin expired
    /\ expired' = expired \cup {t}
    /\ UNCHANGED <<rows, kind, owner, succ, revoked, families, dead, locks,
                   local, delivered>>

\* DELETE of the expired rows, as one transaction: it waits for their locks,
\* and fails while a row that stays refers to one that goes.
Cleanup ==
    /\ rows \cap expired # {}
    /\ \A t \in rows \cap expired : tokLock[t] = NoProc
    /\ \A t \in rows \ expired : succ[t] \notin rows \cap expired
    /\ rows' = rows \ expired
    /\ UNCHANGED <<kind, owner, succ, revoked, expired, families, dead, locks,
                   local, delivered>>

-----------------------------------------------------------------------------

Issue(p) == IssueFamily(p) \/ IssueAccess(p) \/ IssueRefresh(p) \/ Respond(p)

Rotate(p) ==
    \/ RotateLock(p) \/ RotateRefused(p) \/ RotateFamily(p) \/ RotateCommit(p)
    \/ MintAccess(p)

RevokeFamily(p) ==
    \/ RevLockFamily(p) \/ RevScan(p) \/ RevCommit(p)
    \/ \E t \in Token : RevLockToken(p, t)

Request(p) ==
    \E t \in Token :
        Refresh(p, t) \/ RefreshRejected(p, t) \/ RevokeRefresh(p, t)

Next ==
    \/ \E p \in Proc : \/ Issue(p) \/ Request(p) \/ Rotate(p) \/ RevokeFamily(p)
                       \/ LockTimeout(p) \/ Crash(p)
    \/ \E t \in Token : RevokeAccess(t) \/ Expire(t)
    \/ Cleanup

Spec == Init /\ [][Next]_vars

\* A handler that runs keeps running: it takes its next step, or, where it
\* waits for a row, gets the row or the timeout.
Progress(p) ==
    \/ pc[p] # "idle" /\ (Issue(p) \/ Rotate(p) \/ RevokeFamily(p))
    \/ LockTimeout(p)

FairSpec == Spec /\ \A p \in Proc : WF_vars(Progress(p))

-----------------------------------------------------------------------------
(* Properties.                                                              *)

\* A committed revoke_family leaves no refresh token of the family alive, and
\* none appears later, although a rotation may have been under way and its
\* successor row may not have been in the snapshot of revoke_family's UPDATE.
RevokedFamilyIsDead ==
    \A t \in rows : kind[t] = "refresh" /\ owner[t] \in dead => t \in revoked

\* Rotation is linear: however many handlers present the same refresh token,
\* a family has at most one refresh row that has not been exchanged.
OneLiveRefresh ==
    \A s, t \in rows :
        /\ kind[s] = "refresh" /\ kind[t] = "refresh" /\ owner[s] = owner[t]
        /\ ~Consumed(s) /\ ~Consumed(t)
        => s = t

\* A refresh token is exchanged once: replaced_by_token_id, once written, is
\* not written again by a handler that read the row before it was consumed.
ExchangedOnce ==
    [][\A t \in Token : Consumed(t) => succ'[t] = succ[t]]_succ

\* Every handler ends: rotation locks a token and then its family,
\* revoke_family the family and then its tokens, so two of them can block each
\* other, and lock_timeout is what gets them out.  (With no id left in Token,
\* the model's bound, a handler that needs one stops.)
HandlersEnd ==
    \A p \in Proc : pc[p] # "idle" ~> (pc[p] = "idle" \/ Unused = {})

\* The refresh tokens a family ever had, and the one of them that is good.
Chain == [f \in Family |-> {t \in Token : kind[t] = "refresh" /\ owner[t] = f}]
Holder == [f \in Family |->
              IF \E t \in Token : Live(t) /\ owner[t] = f
              THEN CHOOSE t \in Token : Live(t) /\ owner[t] = f
              ELSE NoToken]

\* The store implements the chain of tokens that a client may rely on: every
\* step of the handlers is a grant, an exchange, the end of families, or
\* nothing to see.  In particular a family without a good token never gets one.
Grants == INSTANCE RefreshGrant WITH chain <- Chain, holder <- Holder

ImplementsGrants == Grants!Spec

\* What token_verifier.py says it enforces ("expiry, revocation"), read for a
\* token whose family carries revoked_at: it is not accepted any more.
RevocationEnforced == \A t \in Token : Accepted(t) => owner[t] \notin dead
=============================================================================
