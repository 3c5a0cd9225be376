------------------------------ MODULE CodeGrant ------------------------------
(***************************************************************************)
(* What the authorization code flow promises, without codes, handlers or   *)
(* statements: a request is approved once, and then turned into one token  *)
(* family or into none.  AuthorizationCodes implements it.                 *)
(***************************************************************************)
EXTENDS Naturals

CONSTANT Request

VARIABLES
    stage,      \* how far each request has come
    issued      \* the number of token families it has led to

vars == <<stage, issued>>

Init ==
    /\ stage = [r \in Request |-> "open"]
    /\ issued = [r \in Request |-> 0]

\* A login is accepted for the request.
Approve(r) ==
    /\ stage[r] = "open"
    /\ stage' = [stage EXCEPT ![r] = "approved"]
    /\ UNCHANGED issued

\* The client gets its tokens.
Issue(r) ==
    /\ stage[r] = "approved"
    /\ stage' = [stage EXCEPT ![r] = "granted"]
    /\ issued' = [issued EXCEPT ![r] = @ + 1]

\* Requests come to nothing: time passes, a proof is wrong, a handler dies.
Lose(rs) ==
    /\ \A r \in rs : stage[r] \in {"open", "approved"}
    /\ stage' = [r \in Request |-> IF r \in rs THEN "lost" ELSE stage[r]]
    /\ UNCHANGED issued

Next ==
    \/ \E r \in Request : Approve(r) \/ Issue(r)
    \/ \E rs \in SUBSET Request : rs # {} /\ Lose(rs)

Spec == Init /\ [][Next]_vars
=============================================================================
