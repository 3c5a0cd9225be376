---------------------------- MODULE AttemptThrottle ----------------------------
(***************************************************************************)
(* The throttle of logins and client registrations: how many failures one  *)
(* address gets in a sliding window, when its requests overlap.            *)
(*                                                                         *)
(* Sources: SecurityService.assert_allowed and record (app/services/       *)
(* security_service.py), record_attempt, count_failures_since and the      *)
(* fourth DELETE of cleanup (control_repository.py), as POST /authorize    *)
(* and POST /register call them (app/presentation/mcp/oauth_routes.py).    *)
(* One address and one action: the rows of others are not counted.         *)
(***************************************************************************)
EXTENDS Naturals, FiniteSets

CONSTANTS
    Attempt,    \* concurrent requests of the address: logins, say
    Limit,      \* login_max_failures or register_max_failures
    Window,     \* window_minutes, in ticks of the clock
    Retention,  \* age at which cleanup deletes an attempt (24 hours)
    MaxTime,    \* bound on the clock
    MaxErrors   \* bound on failing store calls

ASSUME Limits ==
    /\ IsFiniteSet(Attempt)
    /\ Limit \in Nat \ {0} /\ Window \in Nat \ {0} /\ MaxTime \in Nat
    /\ MaxErrors \in Nat
    /\ Retention \in Nat /\ Retention >= Window     \* settings cap the window at 24 h

Time == 0..MaxTime

VARIABLES
    now,
    failed,     \* failed[t]: rows with success = false and created_at = t
    stage,
    since,      \* assert_allowed's lower bound on created_at
    guesses,    \* guesses[t]: failed tries whose answer came at time t
    errors      \* store calls that raised

throttleVars == <<now, failed, stage, since, guesses, errors>>

ThrottleTypeOK ==
    /\ now \in Time
    /\ failed \in [Time -> Nat]
    /\ stage \in [Attempt -> {"idle", "count", "try", "recordFailure"}]
    /\ since \in [Attempt -> Time]
    /\ guesses \in [Time -> Nat]
    /\ errors \in 0..MaxErrors

ThrottleInit ==
    /\ now = 0
    /\ failed = [t \in Time |-> 0]
    /\ stage = [a \in Attempt |-> "idle"]
    /\ since = [a \in Attempt |-> 0]
    /\ guesses = [t \in Time |-> 0]
    /\ errors = 0

\* Below(f)[t] is the sum of f over the ticks before t ...
Below(f) ==
    LET below[t \in 0..(MaxTime + 1)] == IF t = 0 THEN 0 ELSE below[t - 1] + f[t - 1]
    IN  below

\* ... and Total its sum over the ticks of an interval.
Total(f, from, to) ==
    Below(f)[1 + IF to < MaxTime THEN to ELSE MaxTime] - Below(f)[from]

\* The bound of an interval that reaches n ticks back; the clock starts at 0.
Back(n) == IF now < n THEN 0 ELSE now - n

Move(a, step) == stage' = [stage EXCEPT ![a] = step]

-----------------------------------------------------------------------------

\* assert_allowed takes the time ...
Begin(a) ==
    /\ stage[a] = "idle"
    /\ since' = [since EXCEPT ![a] = Back(Window)]
    /\ Move(a, "count")
    /\ UNCHANGED <<now, failed, guesses, errors>>

\* Fault: one failure more than the limit.
CountOneMore(a) ==
    /\ stage[a] = "count"
    /\ LET failures == Total(failed, since[a], MaxTime)
       IN  Move(a, IF failures > Limit THEN "idle" ELSE "try")
    /\ UNCHANGED <<now, failed, since, guesses, errors>>

\* ... and count_failures_since the rows from there on: 429, or go ahead.
Count(a) ==
    /\ stage[a] = "count"
    /\ LET failures == Total(failed, since[a], MaxTime)
       IN  Move(a, IF failures >= Limit THEN "idle" ELSE "try")
    /\ UNCHANGED <<now, failed, since, guesses, errors>>

\* The store does not answer: the request is let through.
CountError(a) ==
    /\ stage[a] = "count"
    /\ errors < MaxErrors
    /\ errors' = errors + 1
    /\ Move(a, "try")
    /\ UNCHANGED <<now, failed, since, guesses>>

\* authenticate or register_client: what record(True) writes is not counted.
TrySucceeds(a) ==
    /\ stage[a] = "try"
    /\ Move(a, "idle")
    /\ UNCHANGED <<now, failed, since, guesses, errors>>

TryFails(a) ==
    /\ stage[a] = "try"
    /\ guesses' = [guesses EXCEPT ![now] = @ + 1]
    /\ Move(a, "recordFailure")
    /\ UNCHANGED <<now, failed, since, errors>>

\* record(False); created_at is the database's now().
RecordFailure(a) ==
    /\ stage[a] = "recordFailure"
    /\ failed' = [failed EXCEPT ![now] = @ + 1]
    /\ Move(a, "idle")
    /\ UNCHANGED <<now, since, guesses, errors>>

\* record swallows the exception, or the process stops before it.
RecordError(a) ==
    /\ stage[a] = "recordFailure"
    /\ errors < MaxErrors
    /\ errors' = errors + 1
    /\ Move(a, "idle")
    /\ UNCHANGED <<now, failed, since, guesses>>

Tick ==
    /\ now < MaxTime
    /\ now' = now + 1
    /\ UNCHANGED <<failed, stage, since, guesses, errors>>

\* DELETE FROM auth_attempts WHERE created_at < attempts_before.
DeleteAttempts ==
    /\ failed' = [t \in Time |-> IF t < Back(Retention) THEN 0 ELSE failed[t]]
    /\ UNCHANGED <<now, stage, since, guesses, errors>>

ThrottleNext ==
    \/ \E a \in Attempt :
          \/ Begin(a) \/ Count(a) \/ CountError(a) \/ TrySucceeds(a)
          \/ TryFails(a) \/ RecordFailure(a) \/ RecordError(a)
    \/ Tick
    \/ DeleteAttempts

ThrottleSpec == ThrottleInit /\ [][ThrottleNext]_throttleVars

-----------------------------------------------------------------------------
(* Properties.                                                              *)

\* However requests overlap, a stretch of time as long as the window sees at
\* most the limit of wrong guesses, plus one for each other request that can
\* run at once, plus one for each store call that failed: the check and the
\* record of a request are apart, but no guess is forgotten for good.
GuessesPerWindow ==
    \A t \in Time :
        Total(guesses, t, t + Window) <= Limit + Cardinality(Attempt) - 1 + errors
=============================================================================
