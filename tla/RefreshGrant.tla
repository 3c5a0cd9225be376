----------------------------- MODULE RefreshGrant -----------------------------
(***************************************************************************)
(* What the token store promises about refresh tokens, without handlers,   *)
(* transactions or locks: a family is a chain of tokens of which at most   *)
(* the last is good, and a family that has ended stays ended.              *)
(* TokenFamilies implements it.                                            *)
(***************************************************************************)
CONSTANTS Token, Family, NoToken

VARIABLES
    chain,      \* the refresh tokens each family ever had
    holder      \* the one that is good, NoToken if none is

vars == <<chain, holder>>

Ids == UNION {chain[f] : f \in Family}

Init ==
    /\ chain = [f \in Family |-> {}]
    /\ holder = [f \in Family |-> NoToken]

\* The authorization code flow grants a family its first refresh token.
Grant(f, t) ==
    /\ chain[f] = {}
    /\ t \notin Ids
    /\ chain' = [chain EXCEPT ![f] = {t}]
    /\ holder' = [holder EXCEPT ![f] = t]

\* A refresh trades the good token for a new one, in one step.
Exchange(f, t) ==
    /\ holder[f] # NoToken
    /\ t \notin Ids
    /\ chain' = [chain EXCEPT ![f] = @ \cup {t}]
    /\ holder' = [holder EXCEPT ![f] = t]

\* Revocation, or the removal of tokens that expired, ends families for good.
End(fs) ==
    /\ \A f \in fs : holder[f] # NoToken
    /\ holder' = [f \in Family |-> IF f \in fs THEN NoToken ELSE holder[f]]
    /\ UNCHANGED chain

Next ==
    \/ \E f \in Family, t \in Token : Grant(f, t) \/ Exchange(f, t)
    \/ \E fs \in SUBSET Family : fs # {} /\ End(fs)

Spec == Init /\ [][Next]_vars
=============================================================================
