----------------------------- MODULE TokenRetention -----------------------------
(***************************************************************************)
(* Expiry and deletion of refresh tokens, on a clock: the chain of one     *)
(* family, in which each row but the last refers to its successor by the   *)
(* foreign key replaced_by_token_id, under the periodic cleanup and under  *)
(* restarts that may change the lifetime of the tokens.  Module            *)
(* Maintenance runs the cleanup inside the server.                         *)
(*                                                                         *)
(* Sources: OAuthService.refresh and _issue_new_family (expires_at),       *)
(* rotate_refresh_token and cleanup of the control repository,             *)
(* MaintenanceService.run_once, migrations/001_mcp_control.sql             *)
(* (oauth_tokens), Settings.mcp_refresh_token_ttl_days.                    *)
(***************************************************************************)
EXTENDS Naturals, FiniteSets

CONSTANTS
    Lifetimes,  \* the lifetimes that are ever configured, in ticks
    MaxTime,    \* bound on the clock
    MaxChain    \* bound on the length of the chain

ASSUME Bounds == /\ Lifetimes \subseteq Nat \ {0} /\ Lifetimes # {}
                 /\ MaxTime \in Nat /\ MaxChain \in Nat

VARIABLES
    now,
    lifetime,   \* refresh_ttl of the running process
    last,       \* number of the newest token; i was replaced by i + 1
    expires,    \* expires_at of tokens 1..last
    rows,       \* those that have not been deleted
    lastRun,    \* how the last cleanup that reached the store ended
    shortened   \* some restart made the lifetime shorter

retentionVars == <<now, lifetime, last, expires, rows, lastRun, shortened>>

Chain == 1..MaxChain

RetentionTypeOK ==
    /\ now \in Nat /\ lifetime \in Lifetimes
    /\ last \in 0..MaxChain
    /\ expires \in [Chain -> Nat]
    /\ rows \subseteq 1..last
    /\ lastRun \in {"none", "done", "failed"}
    /\ shortened \in BOOLEAN

RetentionInit ==
    /\ now = 0
    /\ lifetime \in Lifetimes
    /\ last = 0
    /\ expires = [i \in Chain |-> 0]
    /\ rows = {}
    /\ lastRun = "none"
    /\ shortened = FALSE

Expired(i) == expires[i] < now

\* Fault: the successor is given a shorter lifetime.
InsertShorter ==
    /\ last < MaxChain /\ now + lifetime < MaxTime
    /\ last > 0 => last \in rows /\ expires[last] > now
    /\ last' = last + 1
    /\ rows' = rows \cup {last + 1}
    /\ expires' = [expires EXCEPT
                      ![last + 1] = now + IF last = 0 THEN lifetime ELSE lifetime - 1]
    /\ UNCHANGED <<now, lifetime, lastRun, shortened>>

\* A token is inserted: the first of the family, or, while the newest is good,
\* the one that replaces it.  Only tokens that expire within MaxTime are looked
\* at.
Insert ==
    /\ last < MaxChain /\ now + lifetime < MaxTime
    /\ last > 0 => last \in rows /\ expires[last] > now
    /\ last' = last + 1
    /\ rows' = rows \cup {last + 1}
    /\ expires' = [expires EXCEPT ![last + 1] = now + lifetime]
    /\ UNCHANGED <<now, lifetime, lastRun, shortened>>

Tick ==
    /\ now < MaxTime
    /\ now' = now + 1
    /\ UNCHANGED <<lifetime, last, expires, rows, lastRun, shortened>>

\* The server starts again with the lifetime its settings now say.
Reconfigure ==
    /\ lifetime' \in Lifetimes
    /\ shortened' = (shortened \/ lifetime' < lifetime)
    /\ UNCHANGED <<now, last, expires, rows, lastRun>>

\* The DELETE would take a row that a row which stays refers to.
Blocked == \E i \in rows : ~Expired(i) /\ i + 1 \in rows /\ Expired(i + 1)

\* cleanup is one transaction: DELETE FROM oauth_tokens WHERE expires_at < now,
\* or, if that violates the foreign key, nothing at all, its deletes from the
\* other tables included; _run logs the failure and goes on.
Cleanup ==
    /\ rows' = IF Blocked THEN rows ELSE {i \in rows : ~Expired(i)}
    /\ lastRun' = IF Blocked THEN "failed" ELSE "done"
    /\ UNCHANGED <<now, lifetime, last, expires, shortened>>

RetentionNext == Insert \/ Tick \/ Reconfigure \/ Cleanup

RetentionSpec == RetentionInit /\ [][RetentionNext]_retentionVars

-----------------------------------------------------------------------------
(* Properties.                                                              *)

\* Maintenance "periodically removes expired ... tokens": no run of it fails
\* on the tokens' own foreign key.
CleanupSucceeds == lastRun # "failed"

\* It takes a lifetime that a restart made shorter for a cleanup to fail: under
\* one lifetime, or one that only grows, a token expires no later than the one
\* that replaced it.
OnlyShorteningBlocks == ~shortened => lastRun # "failed"
=============================================================================
