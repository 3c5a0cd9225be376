------------------------- MODULE TokenFamiliesProofs -------------------------
(***************************************************************************)
(* Proofs about TokenFamilies, for every set of handlers, tokens and       *)
(* families: types, and the two safety invariants of refresh-token         *)
(* rotation.                                                               *)
(***************************************************************************)
EXTENDS TokenFamilies, TLAPS

-----------------------------------------------------------------------------
(* The inductive invariant.                                                 *)

Rotating == {"rotFamily", "rotCommit"}
Revoking == {"revFamily", "revScan", "revTokens"}
Issuing  == {"issueAccess", "issueRefresh"}

\* Only ids that were inserted have anything to their name.
Inserted ==
    /\ \A t \in Token : kind[t] = "none" => t \notin rows /\ succ[t] = NoToken
    /\ \A t \in Token : kind[t] # "none" => owner[t] \in families
    /\ dead \subseteq families

\* Who holds a row lock is at the step of its transaction that holds it.
LockHolders ==
    /\ \A p \in Proc, t \in Token :
         tokLock[t] = p => \/ pc[p] \in Rotating /\ t = arg[p]
                           \/ pc[p] = "revTokens"
    /\ \A p \in Proc : pc[p] \in Rotating => tokLock[arg[p]] = p
    /\ \A p \in Proc, f \in Family :
         famLock[f] = p => /\ f = fam[p]
                           /\ pc[p] \in {"rotCommit", "revScan", "revTokens"}
    /\ \A p \in Proc :
         pc[p] \in {"rotCommit", "revScan", "revTokens"} => famLock[fam[p]] = p

\* A handler that rotates or revokes works for a refresh token of its family.
HandlerArgs ==
    \A p \in Proc :
        pc[p] \in Rotating \cup Revoking \cup {"rotate", "mintAccess"} =>
            /\ arg[p] \in Token
            /\ kind[arg[p]] = "refresh"
            /\ fam[p] = owner[arg[p]]

\* The row a rotation has locked stays as the rotation found it.
RotationHolds ==
    \A p \in Proc : pc[p] \in Rotating => Live(arg[p])

\* A family that is being issued has no refresh token and one issuer.
IssuingAlone ==
    /\ \A p \in Proc : pc[p] \in Issuing =>
         /\ fam[p] \in families /\ fam[p] \notin dead
         /\ \A t \in Token : ~(kind[t] = "refresh" /\ owner[t] = fam[p])
    /\ \A p, q \in Proc :
         pc[p] \in Issuing /\ pc[q] \in Issuing /\ fam[p] = fam[q] => p = q

\* revoke_family's UPDATE has each refresh row of the family before it or in
\* its hands: no rotation can commit one past its snapshot.
RevocationCovers ==
    \A p \in Proc : pc[p] = "revTokens" =>
        \A t \in rows : kind[t] = "refresh" /\ owner[t] = fam[p]
                           => t \in todo[p] \/ tokLock[t] = p

IInv ==
    /\ TypeOK /\ Inserted /\ LockHolders /\ HandlerArgs /\ RotationHolds
    /\ IssuingAlone /\ RevocationCovers /\ RevokedFamilyIsDead /\ OneLiveRefresh

-----------------------------------------------------------------------------
(* Fresh ids.                                                               *)

\* A row that is inserted gets an id no row ever had.
LEMMA FreshTokenIsUnused ==
    ASSUME Unused # {}
    PROVE  FreshToken \in Token /\ kind[FreshToken] = "none"
BY DEF Unused, FreshToken

\* A family that is inserted gets an id no family has.
LEMMA FreshFamilyIsNew ==
    ASSUME families # Family, families \subseteq Family
    PROVE  FreshFamily \in Family /\ FreshFamily \notin families
BY DEF FreshFamily

-----------------------------------------------------------------------------

\* A family that has just been created has its issuer and no token.
LEMMA IssueFamilyStep ==
    ASSUME IInv, NEW p \in Proc, IssueFamily(p)
    PROVE  IInv'
<1>1. TypeOK'
  BY FreshFamilyIsNew DEF IInv, IssueFamily, TypeOK, locks, PCs
<1>2. Inserted'
  BY DEF IInv, IssueFamily, Inserted
<1>3. LockHolders'
  BY DEF IInv, IssueFamily, LockHolders, locks, Rotating
<1>4. HandlerArgs'
  BY DEF IInv, IssueFamily, HandlerArgs, Rotating, Revoking
<1>5. RotationHolds'
  BY DEF IInv, IssueFamily, RotationHolds, Rotating, Live, Consumed
<1>6. IssuingAlone'
  BY FreshFamilyIsNew DEF IInv, IssueFamily, IssuingAlone, TypeOK, Inserted
<1>7. RevocationCovers'
  BY DEF IInv, IssueFamily, RevocationCovers, locks
<1>8. RevokedFamilyIsDead' /\ OneLiveRefresh'
  BY DEF IInv, IssueFamily, RevokedFamilyIsDead, OneLiveRefresh, Consumed
<1> QED BY <1>1, <1>2, <1>3, <1>4, <1>5, <1>6, <1>7, <1>8 DEF IInv

\* The access token of a new grant is no refresh token.
LEMMA IssueAccessStep ==
    ASSUME IInv, NEW p \in Proc, IssueAccess(p)
    PROVE  IInv'
<1>1. TypeOK'
  BY FreshTokenIsUnused
     DEF IInv, IssueAccess, TypeOK, InsertToken, locks, PCs
<1>2. Inserted'
  BY DEF IInv, IssueAccess, Inserted, InsertToken, TypeOK, IssuingAlone,
         Issuing
<1>3. LockHolders'
  BY DEF IInv, IssueAccess, LockHolders, locks, Rotating
<1>4. HandlerArgs'
  BY FreshTokenIsUnused
     DEF IInv, IssueAccess, HandlerArgs, InsertToken, Rotating, Revoking
<1>5. RotationHolds'
  BY FreshTokenIsUnused
     DEF IInv, IssueAccess, RotationHolds, InsertToken, Rotating, Live,
         Consumed
<1>6. IssuingAlone'
  BY FreshTokenIsUnused
     DEF IInv, IssueAccess, IssuingAlone, InsertToken, Issuing
<1>7. RevocationCovers'
  BY FreshTokenIsUnused
     DEF IInv, IssueAccess, RevocationCovers, InsertToken, locks
<1>8. RevokedFamilyIsDead'
  BY FreshTokenIsUnused
     DEF IInv, IssueAccess, RevokedFamilyIsDead, InsertToken
<1>9. OneLiveRefresh'
  BY FreshTokenIsUnused
     DEF IInv, IssueAccess, OneLiveRefresh, InsertToken, Consumed
<1> QED BY <1>1, <1>2, <1>3, <1>4, <1>5, <1>6, <1>7, <1>8, <1>9 DEF IInv

\* The first refresh token of a family is its only one: it has one issuer.
LEMMA IssueRefreshStep ==
    ASSUME IInv, NEW p \in Proc, IssueRefresh(p)
    PROVE  IInv'
<1>1. TypeOK'
  BY FreshTokenIsUnused
     DEF IInv, IssueRefresh, TypeOK, InsertToken, locks, PCs
<1>2. Inserted'
  BY DEF IInv, IssueRefresh, Inserted, InsertToken, TypeOK, IssuingAlone,
         Issuing
<1>3. LockHolders'
  BY DEF IInv, IssueRefresh, LockHolders, locks, Rotating
<1>4. HandlerArgs'
  BY FreshTokenIsUnused
     DEF IInv, IssueRefresh, HandlerArgs, InsertToken, Rotating, Revoking
<1>5. RotationHolds'
  BY DEF IInv, IssueRefresh, RotationHolds, InsertToken, Rotating, Live,
         Consumed
<1>6. IssuingAlone'
  BY DEF IInv, IssueRefresh, IssuingAlone, InsertToken, Issuing, TypeOK
<1>7. RevocationCovers'
  BY FreshTokenIsUnused
     DEF IInv, IssueRefresh, RevocationCovers, InsertToken, locks, TypeOK,
         HandlerArgs, IssuingAlone, Revoking, Issuing
<1>8. RevokedFamilyIsDead'
  BY FreshTokenIsUnused
     DEF IInv, IssueRefresh, RevokedFamilyIsDead, InsertToken, TypeOK,
         IssuingAlone, Issuing
<1>9. OneLiveRefresh'
  BY FreshTokenIsUnused
     DEF IInv, IssueRefresh, OneLiveRefresh, InsertToken, Consumed, TypeOK,
         IssuingAlone, Issuing
<1> QED BY <1>1, <1>2, <1>3, <1>4, <1>5, <1>6, <1>7, <1>8, <1>9 DEF IInv

\* The handler ends; it held no lock.
LEMMA RespondStep ==
    ASSUME IInv, NEW p \in Proc, Respond(p)
    PROVE  IInv'
<1>1. TypeOK'
  BY DEF IInv, Respond, TypeOK, Finish, tables, locks, PCs
<1>2. LockHolders'
  BY DEF IInv, Respond, LockHolders, Finish, locks, Rotating
<1>3. HandlerArgs'
  BY DEF IInv, Respond, HandlerArgs, Finish, tables, Rotating, Revoking
<1>4. RotationHolds'
  BY DEF IInv, Respond, RotationHolds, Finish, tables, Rotating, Live,
         Consumed
<1>5. IssuingAlone'
  BY DEF IInv, Respond, IssuingAlone, Finish, tables, Issuing
<1>6. RevocationCovers'
  BY DEF IInv, Respond, RevocationCovers, Finish, tables, locks
<1>7. Inserted' /\ RevokedFamilyIsDead' /\ OneLiveRefresh'
  BY DEF IInv, Respond, Inserted, RevokedFamilyIsDead, OneLiveRefresh, tables,
         Consumed
<1> QED BY <1>1, <1>2, <1>3, <1>4, <1>5, <1>6, <1>7 DEF IInv

\* The handler takes up a token of the store, and its family.
LEMMA RefreshStep ==
    ASSUME IInv, NEW p \in Proc, NEW t \in Token, Refresh(p, t)
    PROVE  IInv'
<1>1. TypeOK'
  BY DEF IInv, Refresh, TypeOK, tables, locks, PCs
<1>2. LockHolders'
  BY DEF IInv, Refresh, LockHolders, locks, Rotating
<1>3. HandlerArgs'
  BY DEF IInv, Refresh, HandlerArgs, Found, tables, TypeOK
<1>4. RotationHolds'
  BY DEF IInv, Refresh, RotationHolds, Consumed, tables, Rotating, Live
<1>5. IssuingAlone'
  BY DEF IInv, Refresh, IssuingAlone, tables, Issuing
<1>6. RevocationCovers'
  BY DEF IInv, Refresh, RevocationCovers, tables, locks
<1>7. Inserted' /\ RevokedFamilyIsDead' /\ OneLiveRefresh'
  BY DEF IInv, Refresh, Inserted, RevokedFamilyIsDead, OneLiveRefresh,
         Consumed, tables
<1> QED BY <1>1, <1>2, <1>3, <1>4, <1>5, <1>6, <1>7 DEF IInv

\* The row it locks is one that nobody held and that is still good.
LEMMA RotateLockStep ==
    ASSUME IInv, NEW p \in Proc, RotateLock(p)
    PROVE  IInv'
<1>1. TypeOK'
  BY DEF IInv, RotateLock, TypeOK, tables, PCs
<1>2. LockHolders'
  BY NonMembers
     DEF IInv, RotateLock, LockHolders, Rotatable, Rotating, TypeOK
<1>3. HandlerArgs'
  BY DEF IInv, RotateLock, HandlerArgs, tables
<1>4. RotationHolds'
  BY DEF IInv, RotateLock, RotationHolds, Rotatable, Consumed, tables, Live,
         HandlerArgs
<1>5. IssuingAlone'
  BY DEF IInv, RotateLock, IssuingAlone, tables, Issuing
<1>6. RevocationCovers'
  BY NonMembers DEF IInv, RotateLock, RevocationCovers, tables
<1>7. Inserted' /\ RevokedFamilyIsDead' /\ OneLiveRefresh'
  BY DEF IInv, RotateLock, Inserted, RevokedFamilyIsDead, OneLiveRefresh,
         Consumed, tables
<1> QED BY <1>1, <1>2, <1>3, <1>4, <1>5, <1>6, <1>7 DEF IInv

\* The handler goes on to revoke the family of its token.
LEMMA RotateRefusedStep ==
    ASSUME IInv, NEW p \in Proc, RotateRefused(p)
    PROVE  IInv'
<1>1. TypeOK'
  BY DEF IInv, RotateRefused, TypeOK, tables, locks, PCs
<1>2. LockHolders'
  BY DEF IInv, RotateRefused, LockHolders, locks, Rotating
<1>3. HandlerArgs'
  BY DEF IInv, RotateRefused, HandlerArgs, tables
<1>4. RotationHolds'
  BY DEF IInv, RotateRefused, RotationHolds, Consumed, tables, Rotating, Live
<1>5. IssuingAlone'
  BY DEF IInv, RotateRefused, IssuingAlone, tables, Issuing
<1>6. RevocationCovers'
  BY DEF IInv, RotateRefused, RevocationCovers, tables, locks
<1>7. Inserted' /\ RevokedFamilyIsDead' /\ OneLiveRefresh'
  BY DEF IInv, RotateRefused, Inserted, RevokedFamilyIsDead, OneLiveRefresh,
         Consumed, tables
<1> QED BY <1>1, <1>2, <1>3, <1>4, <1>5, <1>6, <1>7 DEF IInv

\* The rotation holds its token, hence no revocation has got that far.
LEMMA RotateFamilyStep ==
    ASSUME IInv, NEW p \in Proc, RotateFamily(p)
    PROVE  IInv'
<1>1. TypeOK'
  BY DEF IInv, RotateFamily, TypeOK, tables, PCs
<1>2. LockHolders'
  BY NonMembers
     DEF IInv, RotateFamily, LockHolders, Rotating, TypeOK, Inserted,
         HandlerArgs
<1>3. HandlerArgs'
  BY DEF IInv, RotateFamily, HandlerArgs, tables, Rotating
<1>4. RotationHolds'
  BY DEF IInv, RotateFamily, RotationHolds, tables, Rotating, Live, Consumed
<1>5. IssuingAlone'
  BY DEF IInv, RotateFamily, IssuingAlone, tables, Issuing
<1>6. RevocationCovers'
  BY DEF IInv, RotateFamily, RevocationCovers, tables
<1>7. Inserted' /\ RevokedFamilyIsDead' /\ OneLiveRefresh'
  BY DEF IInv, RotateFamily, Inserted, RevokedFamilyIsDead, OneLiveRefresh,
         tables, Consumed
<1> QED BY <1>1, <1>2, <1>3, <1>4, <1>5, <1>6, <1>7 DEF IInv

\* The successor replaces the one good token of the family, and the lock
\* on the family says that no revocation of it is between scan and commit.
LEMMA RotateCommitStep ==
    ASSUME IInv, NEW p \in Proc, RotateCommit(p)
    PROVE  IInv'
<1>1. TypeOK'
  BY FreshTokenIsUnused
     DEF IInv, RotateCommit, TypeOK, InsertToken, Unlock, PCs
<1>2. Inserted'
  BY DEF IInv, RotateCommit, Inserted, InsertToken, TypeOK, HandlerArgs,
         Rotating
<1>3. LockHolders'
  BY NonMembers
     DEF IInv, RotateCommit, LockHolders, Unlock, Rotating, TypeOK, Inserted,
         HandlerArgs, Revoking
<1>4. HandlerArgs'
  BY FreshTokenIsUnused
     DEF IInv, RotateCommit, HandlerArgs, InsertToken, Rotating
<1>5. RotationHolds'
  BY DEF IInv, RotateCommit, RotationHolds, InsertToken, Rotating, Live,
         Consumed, TypeOK, LockHolders
<1>6. IssuingAlone'
  BY DEF IInv, RotateCommit, IssuingAlone, InsertToken, Issuing, TypeOK,
         HandlerArgs, Rotating
<1>7. RevocationCovers'
  BY FreshTokenIsUnused
     DEF IInv, RotateCommit, RevocationCovers, InsertToken, Unlock, TypeOK,
         LockHolders
<1>8. RevokedFamilyIsDead'
  BY FreshTokenIsUnused
     DEF IInv, RotateCommit, RevokedFamilyIsDead, InsertToken, TypeOK,
         HandlerArgs, RotationHolds, Live, Rotating
<1>9. OneLiveRefresh'
  BY NonMembers, FreshTokenIsUnused
     DEF IInv, RotateCommit, OneLiveRefresh, InsertToken, Consumed, TypeOK,
         HandlerArgs, RotationHolds, Live, Rotating
<1> QED BY <1>1, <1>2, <1>3, <1>4, <1>5, <1>6, <1>7, <1>8, <1>9 DEF IInv

\* The access token that goes with the successor is no refresh token.
LEMMA MintAccessStep ==
    ASSUME IInv, NEW p \in Proc, MintAccess(p)
    PROVE  IInv'
<1>1. TypeOK'
  BY FreshTokenIsUnused
     DEF IInv, MintAccess, TypeOK, InsertToken, locks, PCs
<1>2. Inserted'
  BY DEF IInv, MintAccess, Inserted, InsertToken, TypeOK, HandlerArgs
<1>3. LockHolders'
  BY DEF IInv, MintAccess, LockHolders, locks, Rotating
<1>4. HandlerArgs'
  BY FreshTokenIsUnused DEF IInv, MintAccess, HandlerArgs, InsertToken
<1>5. RotationHolds'
  BY FreshTokenIsUnused
     DEF IInv, MintAccess, RotationHolds, InsertToken, Rotating, Live,
         Consumed
<1>6. IssuingAlone'
  BY FreshTokenIsUnused
     DEF IInv, MintAccess, IssuingAlone, InsertToken, Issuing
<1>7. RevocationCovers'
  BY FreshTokenIsUnused
     DEF IInv, MintAccess, RevocationCovers, InsertToken, locks
<1>8. RevokedFamilyIsDead'
  BY FreshTokenIsUnused
     DEF IInv, MintAccess, RevokedFamilyIsDead, InsertToken
<1>9. OneLiveRefresh'
  BY FreshTokenIsUnused
     DEF IInv, MintAccess, OneLiveRefresh, InsertToken, Consumed
<1> QED BY <1>1, <1>2, <1>3, <1>4, <1>5, <1>6, <1>7, <1>8, <1>9 DEF IInv

\* The handler takes up a token of the store, and its family.
LEMMA RevokeRefreshStep ==
    ASSUME IInv, NEW p \in Proc, NEW t \in Token, RevokeRefresh(p, t)
    PROVE  IInv'
<1>1. TypeOK'
  BY DEF IInv, RevokeRefresh, TypeOK, tables, locks, PCs
<1>2. LockHolders'
  BY DEF IInv, RevokeRefresh, LockHolders, locks, Rotating
<1>3. HandlerArgs'
  BY DEF IInv, RevokeRefresh, HandlerArgs, Found, tables, TypeOK
<1>4. RotationHolds'
  BY DEF IInv, RevokeRefresh, RotationHolds, tables, Rotating, Live, Consumed
<1>5. IssuingAlone'
  BY DEF IInv, RevokeRefresh, IssuingAlone, tables, Issuing
<1>6. RevocationCovers'
  BY DEF IInv, RevokeRefresh, RevocationCovers, tables, locks
<1>7. Inserted' /\ RevokedFamilyIsDead' /\ OneLiveRefresh'
  BY DEF IInv, RevokeRefresh, Inserted, RevokedFamilyIsDead, OneLiveRefresh,
         tables, Consumed
<1> QED BY <1>1, <1>2, <1>3, <1>4, <1>5, <1>6, <1>7 DEF IInv

\* The row it revokes is not locked, so no rotation counts on it.
LEMMA RevokeAccessStep ==
    ASSUME IInv, NEW t \in Token, RevokeAccess(t)
    PROVE  IInv'
<1>1. TypeOK'
  BY DEF IInv, RevokeAccess, TypeOK, locks, local
<1>2. RotationHolds'
  BY DEF IInv, RevokeAccess, RotationHolds, Found, local, Live, Consumed
<1>3. RevokedFamilyIsDead'
  BY DEF IInv, RevokeAccess, RevokedFamilyIsDead
<1>4. Inserted' /\ LockHolders' /\ HandlerArgs' /\ IssuingAlone' /\
      RevocationCovers' /\ OneLiveRefresh'
  BY DEF IInv, RevokeAccess, Inserted, LockHolders, HandlerArgs, IssuingAlone,
         RevocationCovers, OneLiveRefresh, locks, local, Consumed
<1> QED BY <1>1, <1>2, <1>3, <1>4 DEF IInv

\* Nobody else holds the family.
LEMMA RevLockFamilyStep ==
    ASSUME IInv, NEW p \in Proc, RevLockFamily(p)
    PROVE  IInv'
<1>1. TypeOK'
  BY DEF IInv, RevLockFamily, TypeOK, tables, PCs
<1>2. LockHolders'
  BY NonMembers
     DEF IInv, RevLockFamily, LockHolders, Rotating, TypeOK, Inserted,
         HandlerArgs, Revoking
<1>3. HandlerArgs'
  BY DEF IInv, RevLockFamily, HandlerArgs, tables, Revoking
<1>4. RotationHolds'
  BY DEF IInv, RevLockFamily, RotationHolds, tables, Rotating, Live, Consumed
<1>5. IssuingAlone'
  BY DEF IInv, RevLockFamily, IssuingAlone, tables, Issuing
<1>6. RevocationCovers'
  BY DEF IInv, RevLockFamily, RevocationCovers, tables
<1>7. Inserted' /\ RevokedFamilyIsDead' /\ OneLiveRefresh'
  BY DEF IInv, RevLockFamily, Inserted, RevokedFamilyIsDead, OneLiveRefresh,
         tables, Consumed
<1> QED BY <1>1, <1>2, <1>3, <1>4, <1>5, <1>6, <1>7 DEF IInv

\* The scan sees every row of the family: the lock keeps rotations out.
LEMMA RevScanStep ==
    ASSUME IInv, NEW p \in Proc, RevScan(p)
    PROVE  IInv'
<1>1. TypeOK'
  BY DEF IInv, RevScan, TypeOK, tables, locks, PCs
<1>2. LockHolders'
  BY DEF IInv, RevScan, LockHolders, locks, Rotating
<1>3. HandlerArgs'
  BY DEF IInv, RevScan, HandlerArgs, tables, Revoking
<1>4. RotationHolds'
  BY DEF IInv, RevScan, RotationHolds, tables, Rotating, Live, Consumed
<1>5. IssuingAlone'
  BY DEF IInv, RevScan, IssuingAlone, tables, Issuing
<1>6. RevocationCovers'
  BY DEF IInv, RevScan, RevocationCovers, tables, locks, TypeOK
<1>7. Inserted' /\ RevokedFamilyIsDead' /\ OneLiveRefresh'
  BY DEF IInv, RevScan, Inserted, RevokedFamilyIsDead, OneLiveRefresh, tables,
         Consumed
<1> QED BY <1>1, <1>2, <1>3, <1>4, <1>5, <1>6, <1>7 DEF IInv

\* A row leaves the scan by being locked.
LEMMA RevLockTokenStep ==
    ASSUME IInv, NEW p \in Proc, NEW t \in Token, RevLockToken(p, t)
    PROVE  IInv'
<1>1. TypeOK'
  BY DEF IInv, RevLockToken, TypeOK, tables
<1>2. LockHolders'
  BY NonMembers DEF IInv, RevLockToken, LockHolders
<1>3. RevocationCovers'
  BY NonMembers DEF IInv, RevLockToken, RevocationCovers, tables, TypeOK
<1>4. Inserted' /\ HandlerArgs' /\ RotationHolds' /\ IssuingAlone' /\
      RevokedFamilyIsDead' /\ OneLiveRefresh'
  BY DEF IInv, RevLockToken, Inserted, HandlerArgs, RotationHolds,
         IssuingAlone, RevokedFamilyIsDead, OneLiveRefresh, tables, Live,
         Consumed
<1> QED BY <1>1, <1>2, <1>3, <1>4 DEF IInv

\* Every refresh row of the family is locked, so the update reaches it.
LEMMA RevCommitStep ==
    ASSUME IInv, NEW p \in Proc, RevCommit(p)
    PROVE  IInv'
<1>1. TypeOK'
  BY DEF IInv, RevCommit, TypeOK, Finish, Unlock, PCs, Inserted, HandlerArgs,
         Revoking
<1>2. Inserted'
  BY DEF IInv, RevCommit, Inserted, HandlerArgs, Revoking
<1>3. LockHolders'
  BY NonMembers
     DEF IInv, RevCommit, LockHolders, Finish, Unlock, Rotating, TypeOK,
         Inserted, HandlerArgs, Revoking
<1>4. HandlerArgs'
  BY DEF IInv, RevCommit, HandlerArgs, Finish, Rotating, Revoking, TypeOK
<1>5. RotationHolds'
  BY DEF IInv, RevCommit, RotationHolds, Finish, Rotating, Live, Consumed,
         LockHolders
<1>6. IssuingAlone'
  BY DEF IInv, RevCommit, IssuingAlone, Finish, Issuing, HandlerArgs, Revoking
<1>7. RevocationCovers'
  BY DEF IInv, RevCommit, RevocationCovers, Finish, Unlock, TypeOK
<1>8. RevokedFamilyIsDead'
  BY DEF IInv, RevCommit, RevokedFamilyIsDead, TypeOK, RevocationCovers
<1>9. OneLiveRefresh'
  BY DEF IInv, RevCommit, OneLiveRefresh, Consumed
<1> QED BY <1>1, <1>2, <1>3, <1>4, <1>5, <1>6, <1>7, <1>8, <1>9 DEF IInv

\* A rollback only gives locks and locals back.
LEMMA AbortStep ==
    ASSUME IInv, NEW p \in Proc, Abort(p)
    PROVE  IInv'
<1>1. TypeOK'
  BY DEF IInv, Abort, TypeOK, Finish, Unlock, tables, PCs
<1>2. LockHolders'
  BY NonMembers
     DEF IInv, Abort, LockHolders, Finish, Unlock, Rotating, TypeOK, Inserted,
         HandlerArgs, Revoking
<1>3. HandlerArgs'
  BY DEF IInv, Abort, HandlerArgs, Finish, tables, Rotating, Revoking, TypeOK
<1>4. RotationHolds'
  BY DEF IInv, Abort, RotationHolds, Finish, tables, Rotating, Live, Consumed,
         TypeOK
<1>5. IssuingAlone'
  BY DEF IInv, Abort, IssuingAlone, Finish, tables, Issuing, TypeOK
<1>6. RevocationCovers'
  BY DEF IInv, Abort, RevocationCovers, Finish, Unlock, tables, TypeOK
<1>7. Inserted' /\ RevokedFamilyIsDead' /\ OneLiveRefresh'
  BY DEF IInv, Abort, Inserted, RevokedFamilyIsDead, OneLiveRefresh, tables,
         Consumed
<1> QED BY <1>1, <1>2, <1>3, <1>4, <1>5, <1>6, <1>7 DEF IInv

\* Expiry says nothing of what is good or revoked.
LEMMA ExpireStep ==
    ASSUME IInv, NEW t \in Token, Expire(t)
    PROVE  IInv'
<1>1. TypeOK'
  BY DEF IInv, Expire, TypeOK, locks, local
<1>2. Inserted' /\ LockHolders' /\ HandlerArgs' /\ RotationHolds' /\
      IssuingAlone' /\ RevocationCovers' /\ RevokedFamilyIsDead' /\
      OneLiveRefresh'
  BY DEF IInv, Expire, Inserted, LockHolders, HandlerArgs, RotationHolds,
         IssuingAlone, RevocationCovers, RevokedFamilyIsDead, OneLiveRefresh,
         locks, local, Live, Consumed
<1> QED BY <1>1, <1>2 DEF IInv

\* Rows that go take no promise with them.
LEMMA CleanupStep ==
    ASSUME IInv, Cleanup
    PROVE  IInv'
<1>1. TypeOK'
  BY DEF IInv, Cleanup, TypeOK, locks, local
<1>2. Inserted'
  BY DEF IInv, Cleanup, Inserted
<1>3. RotationHolds'
  BY NonMembers
     DEF IInv, Cleanup, RotationHolds, local, Live, Consumed, LockHolders
<1>4. RevocationCovers'
  BY DEF IInv, Cleanup, RevocationCovers, locks, local
<1>5. RevokedFamilyIsDead'
  BY DEF IInv, Cleanup, RevokedFamilyIsDead
<1>6. OneLiveRefresh'
  BY DEF IInv, Cleanup, OneLiveRefresh, Consumed
<1>7. LockHolders' /\ HandlerArgs' /\ IssuingAlone'
  BY DEF IInv, Cleanup, LockHolders, HandlerArgs, IssuingAlone, locks, local
<1> QED BY <1>1, <1>2, <1>3, <1>4, <1>5, <1>6, <1>7 DEF IInv

-----------------------------------------------------------------------------
(* The three facts of the inductive invariant.                              *)

\* The empty store with idle handlers satisfies it.
LEMMA InitIInv ==
    ASSUME Init
    PROVE  IInv
<1>1. TypeOK
  BY DEF Init, TypeOK, PCs
<1>2. Inserted /\ LockHolders /\ HandlerArgs /\ RotationHolds
  BY NonMembers DEF Init, Inserted, LockHolders, HandlerArgs, RotationHolds,
                    Rotating, Revoking
<1>3. IssuingAlone /\ RevocationCovers
  BY DEF Init, IssuingAlone, RevocationCovers, Issuing
<1>4. RevokedFamilyIsDead /\ OneLiveRefresh
  BY DEF Init, RevokedFamilyIsDead, OneLiveRefresh
<1> QED BY <1>1, <1>2, <1>3, <1>4 DEF IInv

\* A step that changes nothing keeps it.
LEMMA StutterStep ==
    ASSUME IInv, UNCHANGED vars
    PROVE  IInv'
<1>1. TypeOK'
  BY DEF IInv, TypeOK, vars, tables, locks, local
<1>2. Inserted' /\ LockHolders'
  BY DEF IInv, Inserted, LockHolders, vars, tables, locks, local
<1>3. HandlerArgs' /\ RotationHolds'
  BY DEF IInv, HandlerArgs, RotationHolds, Live, Consumed, vars, tables, local
<1>4. IssuingAlone' /\ RevocationCovers'
  BY DEF IInv, IssuingAlone, RevocationCovers, vars, tables, locks, local
<1>5. RevokedFamilyIsDead' /\ OneLiveRefresh'
  BY DEF IInv, RevokedFamilyIsDead, OneLiveRefresh, Consumed, vars, tables
<1> QED BY <1>1, <1>2, <1>3, <1>4, <1>5 DEF IInv

\* Every step keeps it.
LEMMA NextStep ==
    ASSUME IInv, [Next]_vars
    PROVE  IInv'
<1>1. CASE UNCHANGED vars
  BY <1>1, StutterStep
<1>2. ASSUME NEW p \in Proc, Issue(p)
      PROVE  IInv'
  BY <1>2, IssueFamilyStep, IssueAccessStep, IssueRefreshStep, RespondStep
     DEF Issue
<1>3. ASSUME NEW p \in Proc, Request(p)
      PROVE  IInv'
  <2>1. PICK t \in Token : Refresh(p, t) \/ RefreshRejected(p, t) \/ RevokeRefresh(p, t)
    BY <1>3 DEF Request
  <2>2. CASE RefreshRejected(p, t)
    BY <2>2, StutterStep DEF RefreshRejected
  <2> QED BY <2>1, <2>2, RefreshStep, RevokeRefreshStep
<1>4. ASSUME NEW p \in Proc, Rotate(p)
      PROVE  IInv'
  BY <1>4, RotateLockStep, RotateRefusedStep, RotateFamilyStep, RotateCommitStep,
     MintAccessStep DEF Rotate
<1>5. ASSUME NEW p \in Proc, RevokeFamily(p)
      PROVE  IInv'
  BY <1>5, RevLockFamilyStep, RevScanStep, RevCommitStep, RevLockTokenStep
     DEF RevokeFamily
<1>6. ASSUME NEW p \in Proc, LockTimeout(p) \/ Crash(p)
      PROVE  IInv'
  BY <1>6, AbortStep DEF LockTimeout, Crash
<1>7. ASSUME NEW t \in Token, RevokeAccess(t) \/ Expire(t)
      PROVE  IInv'
  BY <1>7, RevokeAccessStep, ExpireStep
<1>8. CASE Cleanup
  BY <1>8, CleanupStep
<1> QED BY <1>1, <1>2, <1>3, <1>4, <1>5, <1>6, <1>7, <1>8 DEF Next

-----------------------------------------------------------------------------
(* Theorems.                                                                *)

\* The inductive invariant is one.
THEOREM Invariance == Spec => []IInv
<1>1. Init => IInv
  BY InitIInv
<1>2. IInv /\ [Next]_vars => IInv'
  BY NextStep
<1> QED BY <1>1, <1>2, PTL DEF Spec

\* Types: the store and the handlers keep their shape.
THEOREM TypeCorrect == Spec => []TypeOK
<1>1. IInv => TypeOK
  BY DEF IInv
<1> QED BY <1>1, Invariance, PTL

\* For any number of handlers, tokens and families: once revoke_family has
\* committed, no refresh token of the family is left or appears.
THEOREM RevocationHolds == Spec => []RevokedFamilyIsDead
<1>1. IInv => RevokedFamilyIsDead
  BY DEF IInv
<1> QED BY <1>1, Invariance, PTL

\* For any number of handlers that present it: a refresh token has at most one
\* successor that is good, and a family one good token.
THEOREM RotationIsLinear == Spec => []OneLiveRefresh
<1>1. IInv => OneLiveRefresh
  BY DEF IInv
<1> QED BY <1>1, Invariance, PTL

\* Only RotateCommit writes replaced_by_token_id, to a row it has locked since
\* it found it unconsumed.
LEMMA ExchangeStep ==
    ASSUME IInv, [Next]_vars, NEW t \in Token, Consumed(t)
    PROVE  succ'[t] = succ[t]
<1>1. CASE UNCHANGED succ
  BY <1>1
<1>2. ASSUME NEW p \in Proc, RotateCommit(p)
      PROVE  succ'[t] = succ[t]
  <2>1. ~Consumed(arg[p]) /\ pc[p] = "rotCommit"
    BY <1>2 DEF IInv, RotateCommit, RotationHolds, Rotating, Live
  <2>2. t # arg[p]
    BY <2>1
  <2> QED BY <1>2, <2>2 DEF RotateCommit, IInv, TypeOK
<1>3. UNCHANGED succ \/ \E p \in Proc : RotateCommit(p)
  BY DEF Next, vars, tables, Issue, Request, Rotate, RevokeFamily, LockTimeout, Crash,
         Abort, IssueFamily, IssueAccess, IssueRefresh, Respond, Refresh,
         RefreshRejected, RevokeRefresh, RotateLock, RotateRefused, RotateFamily,
         MintAccess, RevLockFamily, RevScan, RevLockToken, RevCommit, RevokeAccess,
         Expire, Cleanup
<1> QED BY <1>1, <1>2, <1>3

\* A refresh token is exchanged once, for any number of handlers.
THEOREM ExchangeHappensOnce == Spec => ExchangedOnce
<1>1. IInv /\ [Next]_vars
        => [\A t \in Token : Consumed(t) => succ'[t] = succ[t]]_succ
  BY ExchangeStep
<1> QED BY <1>1, Invariance, PTL DEF Spec, ExchangedOnce

-----------------------------------------------------------------------------
(* The store implements RefreshGrant: what each step is of it.              *)

\* Only a row that was inserted has been locked or revoked.
NamedOnly == \A t \in Token : kind[t] = "none" => t \notin revoked /\ tokLock[t] = NoProc

LEMMA NamedOnlyStep ==
    ASSUME IInv, NamedOnly, [Next]_vars
    PROVE  NamedOnly'
<1>1. TypeOK /\ Inserted /\ HandlerArgs
  BY DEF IInv
<1>2. CASE UNCHANGED <<kind, revoked, tokLock>>
  BY <1>2 DEF NamedOnly
<1>3. ASSUME NEW p \in Proc, IssueAccess(p) \/ IssueRefresh(p) \/ MintAccess(p)
      PROVE  NamedOnly'
  <2>1. UNCHANGED <<revoked, tokLock>> /\ \E k \in {"access", "refresh"} :
            kind' = [kind EXCEPT ![FreshToken] = k]
    BY <1>3 DEF IssueAccess, IssueRefresh, MintAccess, InsertToken, locks
  <2> QED BY <1>1, <2>1 DEF NamedOnly, TypeOK
<1>4. ASSUME NEW p \in Proc, RotateCommit(p)
      PROVE  NamedOnly'
  <2>1. UNCHANGED revoked /\ kind' = [kind EXCEPT ![FreshToken] = "refresh"]
    BY <1>4 DEF RotateCommit, InsertToken
  <2>2. \A t \in Token : tokLock'[t] = tokLock[t] \/ tokLock'[t] = NoProc
    BY <1>4 DEF RotateCommit, Unlock
  <2> QED BY <1>1, <2>1, <2>2 DEF NamedOnly, TypeOK
<1>5. ASSUME NEW p \in Proc, RotateLock(p)
      PROVE  NamedOnly'
  <2>1. UNCHANGED <<kind, revoked>> /\ tokLock' = [tokLock EXCEPT ![arg[p]] = p]
        /\ pc[p] = "rotate"
    BY <1>5 DEF RotateLock, tables
  <2>2. kind[arg[p]] = "refresh"
    BY <1>1, <2>1 DEF HandlerArgs
  <2> QED BY <1>1, <2>1, <2>2 DEF NamedOnly, TypeOK
<1>6. ASSUME NEW p \in Proc, NEW t \in Token, RevLockToken(p, t)
      PROVE  NamedOnly'
  <2>1. UNCHANGED <<kind, revoked>>
        /\ tokLock' = IF t \in rows THEN [tokLock EXCEPT ![t] = p] ELSE tokLock
    BY <1>6 DEF RevLockToken, tables
  <2>2. t \in rows => kind[t] # "none"
    BY <1>1 DEF Inserted
  <2> QED BY <1>1, <2>1, <2>2 DEF NamedOnly, TypeOK
<1>7. ASSUME NEW p \in Proc, RevCommit(p)
      PROVE  NamedOnly'
  <2>1. UNCHANGED kind /\ revoked' = revoked \cup {t \in Token : tokLock[t] = p}
    BY <1>7 DEF RevCommit
  <2>2. \A t \in Token : tokLock'[t] = tokLock[t] \/ tokLock'[t] = NoProc
    BY <1>7 DEF RevCommit, Unlock
  <2> QED BY <2>1, <2>2, NonMembers DEF NamedOnly
<1>8. ASSUME NEW p \in Proc, Abort(p)
      PROVE  NamedOnly'
  <2>1. UNCHANGED <<kind, revoked>>
        /\ \A t \in Token : tokLock'[t] = tokLock[t] \/ tokLock'[t] = NoProc
    BY <1>8 DEF Abort, Unlock, tables
  <2> QED BY <2>1 DEF NamedOnly
<1>9. ASSUME NEW t \in Token, RevokeAccess(t)
      PROVE  NamedOnly'
  BY <1>9 DEF RevokeAccess, Found, locks, NamedOnly
<1>10. \/ UNCHANGED <<kind, revoked, tokLock>>
       \/ \E p \in Proc :
            \/ IssueAccess(p) \/ IssueRefresh(p) \/ MintAccess(p) \/ RotateCommit(p)
            \/ RotateLock(p) \/ RevCommit(p) \/ Abort(p)
            \/ \E t \in Token : RevLockToken(p, t)
       \/ \E t \in Token : RevokeAccess(t)
  BY DEF Next, vars, tables, locks, Issue, Request, Rotate, RevokeFamily, LockTimeout,
         Crash, IssueFamily, Respond, Refresh, RefreshRejected, RevokeRefresh,
         RotateRefused, RotateFamily, RevLockFamily, RevScan, Expire, Cleanup
<1> QED BY <1>2, <1>3, <1>4, <1>5, <1>6, <1>7, <1>8, <1>9, <1>10

\* A family's good token is the one that the mapping chooses.
LEMMA HolderIsGood ==
    ASSUME OneLiveRefresh, NEW f \in Family
    PROVE  /\ \A t \in Token : Live(t) /\ owner[t] = f => Holder[f] = t
           /\ (\A t \in Token : ~(Live(t) /\ owner[t] = f)) => Holder[f] = NoToken
<1>1. \A s, t \in Token : Live(s) /\ owner[s] = f /\ Live(t) /\ owner[t] = f => s = t
  BY DEF OneLiveRefresh, Live
<1> DEFINE Good(t) == Live(t) /\ owner[t] = f
<1>2. Holder[f] = IF \E t \in Token : Good(t) THEN CHOOSE t \in Token : Good(t) ELSE NoToken
  BY DEF Holder
<1> HIDE DEF Good
<1>3. ASSUME NEW t \in Token, Good(t) PROVE Holder[f] = t
  <2>1. Holder[f] \in Token /\ Good(Holder[f])
    BY <1>2, <1>3
  <2> QED BY <1>1, <1>3, <2>1 DEF Good
<1> QED BY <1>2, <1>3 DEF Good

\* The same of the next state.
LEMMA HolderIsGoodNext ==
    ASSUME OneLiveRefresh', NEW f \in Family
    PROVE  /\ \A t \in Token : Live(t)' /\ owner'[t] = f => Holder'[f] = t
           /\ (\A t \in Token : ~(Live(t)' /\ owner'[t] = f)) => Holder'[f] = NoToken
<1> DEFINE goods == {t \in Token : Live(t)' /\ owner'[t] = f}
<1>1. \A s, t \in goods : s = t
  BY DEF OneLiveRefresh, Live
<1>2. /\ goods # {} => Holder'[f] \in goods
      /\ goods = {} => Holder'[f] = NoToken
  BY DEF Holder, Live, Consumed
<1>3. ASSUME NEW t \in Token, Live(t)', owner'[t] = f PROVE Holder'[f] = t
  <2>1. t \in goods
    BY <1>3
  <2> HIDE DEF goods
  <2> QED BY <1>1, <1>2, <2>1
<1>4. ASSUME \A t \in Token : ~(Live(t)' /\ owner'[t] = f) PROVE Holder'[f] = NoToken
  <2>1. goods = {}
    BY <1>4
  <2> QED BY <1>2, <2>1
<1> QED BY <1>3, <1>4

\* A step that makes no token good ends families, or none.
LEMMA EndOrNothing ==
    ASSUME IInv, IInv', UNCHANGED Chain,
           \A t \in Token : Live(t)' => Live(t) /\ owner'[t] = owner[t]
    PROVE  [Grants!Next]_(Grants!vars)
<1> DEFINE fs == {f \in Family : Holder[f] # NoToken /\ Holder'[f] = NoToken}
<1>1. OneLiveRefresh /\ OneLiveRefresh'
  BY DEF IInv
<1>2. \A f \in Family : Holder'[f] = Holder[f] \/ Holder'[f] = NoToken
  <2> SUFFICES ASSUME NEW f \in Family
               PROVE  Holder'[f] = Holder[f] \/ Holder'[f] = NoToken
    OBVIOUS
  <2>1. ASSUME NEW t \in Token, Live(t)', owner'[t] = f
        PROVE  Holder'[f] = Holder[f]
    <3>1. Holder'[f] = t
      BY <1>1, <2>1, HolderIsGoodNext
    <3>2. Live(t) /\ owner[t] = f
      BY <2>1
    <3>3. Holder[f] = t
      BY <1>1, <3>2, HolderIsGood
    <3> QED BY <3>1, <3>3
  <2> QED BY <1>1, <2>1, HolderIsGoodNext
<1>3. Holder' = [f \in Family |-> IF f \in fs THEN NoToken ELSE Holder[f]]
  <2>1. Holder' = [f \in Family |-> Holder'[f]]
    BY DEF Holder
  <2> QED BY <1>2, <2>1
<1>4. CASE fs = {}
  <2>1. Holder = [f \in Family |-> Holder[f]]
    BY DEF Holder
  <2>2. Holder' = Holder
    BY <1>3, <1>4, <2>1
  <2> QED BY <2>2 DEF Grants!vars
<1>5. CASE fs # {}
  <2>1. Grants!End(fs)
    BY <1>3 DEF Grants!End
  <2>2. fs \in SUBSET Family
    OBVIOUS
  <2> HIDE DEF fs
  <2> QED BY <1>5, <2>1, <2>2 DEF Grants!Next
<1> QED BY <1>4, <1>5

\* An insertion of a refresh token that nobody ever had.
LEMMA ChainGrows ==
    ASSUME TypeOK, NEW f \in Family, NEW t \in Token, kind[t] = "none",
           InsertToken(t, "refresh", f)
    PROVE  /\ t \notin Grants!Ids
           /\ Chain' = [Chain EXCEPT ![f] = Chain[f] \cup {t}]
           /\ \A s \in Token : s # t => kind'[s] = kind[s] /\ owner'[s] = owner[s]
           /\ kind'[t] = "refresh" /\ owner'[t] = f /\ rows' = rows \cup {t}
<1>1. /\ \A s \in Token : s # t => kind'[s] = kind[s] /\ owner'[s] = owner[s]
      /\ kind'[t] = "refresh" /\ owner'[t] = f /\ rows' = rows \cup {t}
  BY DEF InsertToken, TypeOK
<1>2. t \notin Grants!Ids
  BY DEF Grants!Ids, Chain
<1>3. \A g \in Family : Chain'[g] = IF g = f THEN Chain[f] \cup {t} ELSE Chain[g]
  BY <1>1 DEF Chain
<1>4. Chain' = [g \in Family |-> Chain'[g]] /\ Chain = [g \in Family |-> Chain[g]]
  BY DEF Chain
<1>5. Chain' = [g \in Family |-> IF g = f THEN Chain[f] \cup {t} ELSE Chain[g]]
  BY <1>3, <1>4
<1>6. [Chain EXCEPT ![f] = Chain[f] \cup {t}]
         = [g \in Family |-> IF g = f THEN Chain[f] \cup {t} ELSE Chain[g]]
  BY <1>4
<1> QED BY <1>1, <1>2, <1>5, <1>6

\* It is the family's good token then, and the other families keep theirs.
LEMMA HolderMoves ==
    ASSUME OneLiveRefresh, OneLiveRefresh', NEW f \in Family, NEW t \in Token,
           Live(t)', owner'[t] = f,
           \A g \in Family, s \in Token :
              g # f => (Live(s)' /\ owner'[s] = g <=> Live(s) /\ owner[s] = g)
    PROVE  Holder' = [Holder EXCEPT ![f] = t]
<1>1. Holder'[f] = t
  BY HolderIsGoodNext
<1>2. ASSUME NEW g \in Family, g # f PROVE Holder'[g] = Holder[g]
  <2>1. CASE \E s \in Token : Live(s) /\ owner[s] = g
    <3>1. PICK s \in Token : Live(s) /\ owner[s] = g
      BY <2>1
    <3>2. Live(s)' /\ owner'[s] = g
      BY <1>2, <3>1
    <3>3. Holder[g] = s
      BY <3>1, HolderIsGood
    <3>4. Holder'[g] = s
      BY <3>2, HolderIsGoodNext
    <3> QED BY <3>3, <3>4
  <2>2. CASE \A s \in Token : ~(Live(s) /\ owner[s] = g)
    <3>1. \A s \in Token : ~(Live(s)' /\ owner'[s] = g)
      BY <1>2, <2>2
    <3>2. Holder[g] = NoToken
      BY <2>2, HolderIsGood
    <3>3. Holder'[g] = NoToken
      BY <3>1, HolderIsGoodNext
    <3> QED BY <3>2, <3>3
  <2> QED BY <2>1, <2>2
<1>3. Holder' = [g \in Family |-> Holder'[g]] /\ Holder = [g \in Family |-> Holder[g]]
  BY DEF Holder
<1> QED BY <1>1, <1>2, <1>3

\* The first refresh token of a family is a grant.
LEMMA GrantStep ==
    ASSUME IInv, IInv', NamedOnly, NEW p \in Proc, IssueRefresh(p)
    PROVE  \E f \in Family, t \in Token : Grants!Grant(f, t)
<1>0. fam[p] \in Family /\ FreshToken \in Token /\ kind[FreshToken] = "none"
  BY FreshTokenIsUnused DEF IssueRefresh, IInv, TypeOK, IssuingAlone, Issuing
<1> PICK f \in Family, t \in Token : f = fam[p] /\ t = FreshToken
  BY <1>0
<1>1. /\ pc[p] = "issueRefresh" /\ InsertToken(t, "refresh", f) /\ UNCHANGED <<succ, revoked>>
      /\ kind[t] = "none"
  BY <1>0 DEF IssueRefresh
<1>2. Chain[f] = {}
  BY <1>1 DEF IInv, IssuingAlone, Issuing, Chain
<1>3. TypeOK /\ OneLiveRefresh /\ OneLiveRefresh'
      /\ t \notin rows /\ succ[t] = NoToken /\ t \notin revoked'
  <2>1. TypeOK /\ OneLiveRefresh /\ OneLiveRefresh' /\ t \notin rows /\ succ[t] = NoToken
    BY <1>1 DEF IInv, Inserted
  <2>2. t \notin revoked
    BY <1>1 DEF NamedOnly
  <2> QED BY <1>1, <2>1, <2>2
<1>4. /\ t \notin Grants!Ids
      /\ Chain' = [Chain EXCEPT ![f] = Chain[f] \cup {t}]
      /\ \A s \in Token : s # t => kind'[s] = kind[s] /\ owner'[s] = owner[s]
      /\ kind'[t] = "refresh" /\ owner'[t] = f /\ rows' = rows \cup {t}
  BY <1>1, <1>2, <1>3, ChainGrows
<1>5. Live(t)'
  BY <1>1, <1>3, <1>4 DEF Live, Consumed
<1>6. \A s \in Token : s # t => (Live(s)' <=> Live(s)) /\ owner'[s] = owner[s]
  BY <1>1, <1>4 DEF Live, Consumed
<1>7. ~Live(t)
  BY <1>1 DEF Live
<1>8. Holder' = [Holder EXCEPT ![f] = t]
  BY <1>1, <1>2, <1>3, <1>4, <1>5, <1>6, <1>7, HolderMoves
<1>9. Chain' = [Chain EXCEPT ![f] = {t}]
  BY <1>2, <1>4
<1> QED BY <1>1, <1>2, <1>4, <1>8, <1>9 DEF Grants!Grant

\* A rotation is an exchange: the good token it has locked is replaced.
LEMMA ExchangeIsOne ==
    ASSUME IInv, IInv', NamedOnly, NEW p \in Proc, RotateCommit(p)
    PROVE  \E f \in Family, t \in Token : Grants!Exchange(f, t)
<1>0. fam[p] \in Family /\ FreshToken \in Token /\ kind[FreshToken] = "none"
      /\ arg[p] \in Token
  <2>1. pc[p] = "rotCommit"
    BY DEF RotateCommit
  <2>2. arg[p] \in Token /\ kind[arg[p]] = "refresh" /\ fam[p] = owner[arg[p]]
    BY <2>1 DEF IInv, HandlerArgs, Rotating
  <2>3. fam[p] \in Family
    BY <2>2 DEF IInv, Inserted, TypeOK
  <2> QED BY <2>2, <2>3, FreshTokenIsUnused DEF RotateCommit
<1> PICK f \in Family, t \in Token, a \in Token :
       f = fam[p] /\ t = FreshToken /\ a = arg[p]
  BY <1>0
<1>1. /\ pc[p] = "rotCommit" /\ InsertToken(t, "refresh", f) /\ UNCHANGED revoked
      /\ succ' = [succ EXCEPT ![a] = t] /\ kind[t] = "none"
  BY <1>0 DEF RotateCommit
<1>2. Live(a) /\ owner[a] = f /\ a # t /\ kind[a] = "refresh"
  BY <1>1 DEF IInv, HandlerArgs, RotationHolds, Rotating
<1>3. TypeOK /\ OneLiveRefresh /\ OneLiveRefresh'
      /\ t \notin rows /\ succ[t] = NoToken /\ t \notin revoked'
  BY <1>1 DEF IInv, Inserted, NamedOnly
<1>4. /\ t \notin Grants!Ids
      /\ Chain' = [Chain EXCEPT ![f] = Chain[f] \cup {t}]
      /\ \A s \in Token : s # t => kind'[s] = kind[s] /\ owner'[s] = owner[s]
      /\ kind'[t] = "refresh" /\ owner'[t] = f /\ rows' = rows \cup {t}
  BY <1>1, <1>2, <1>3, ChainGrows
<1>5. \A s \in Token : succ'[s] = IF s = a THEN t ELSE succ[s]
  BY <1>1, <1>2, <1>3 DEF TypeOK
<1>6. Live(t)'
  BY <1>1, <1>2, <1>3, <1>4, <1>5 DEF Live, Consumed
<1>7. \A s \in Token : s # t /\ s # a => (Live(s)' <=> Live(s)) /\ owner'[s] = owner[s]
  BY <1>1, <1>4, <1>5 DEF Live, Consumed
<1>8. ~Live(t) /\ owner'[a] = f
  BY <1>1, <1>2, <1>4 DEF Live
<1>9. Holder' = [Holder EXCEPT ![f] = t]
  BY <1>1, <1>2, <1>3, <1>4, <1>6, <1>7, <1>8, HolderMoves
<1>10. Holder[f] # NoToken
  <2>1. Holder[f] = a
    BY <1>2, <1>3, HolderIsGood
  <2> QED BY <1>2, <2>1, NonMembers
<1> QED BY <1>1, <1>2, <1>4, <1>9, <1>10 DEF Grants!Exchange

\* Every other step leaves the refresh tokens alone, or makes some of them bad.
LEMMA OtherStep ==
    ASSUME IInv, [Next]_vars,
           \A p \in Proc : ~IssueRefresh(p) /\ ~RotateCommit(p)
    PROVE  UNCHANGED Chain /\ \A t \in Token : Live(t)' => Live(t) /\ owner'[t] = owner[t]
<1>1. TypeOK
  BY DEF IInv
<1>2. ASSUME NEW p \in Proc, IssueAccess(p) \/ MintAccess(p)
      PROVE  UNCHANGED Chain /\ \A t \in Token : Live(t)' => Live(t) /\ owner'[t] = owner[t]
  <2>1. InsertToken(FreshToken, "access", fam[p]) /\ UNCHANGED <<succ, revoked>>
        /\ FreshToken \in Token /\ kind[FreshToken] = "none"
    BY <1>2, FreshTokenIsUnused DEF IssueAccess, MintAccess
  <2>2. /\ \A s \in Token : s # FreshToken => kind'[s] = kind[s] /\ owner'[s] = owner[s]
        /\ kind'[FreshToken] = "access" /\ rows' = rows \cup {FreshToken}
    BY <1>1, <2>1 DEF InsertToken, TypeOK
  <2>3. \A f \in Family, t \in Token :
           kind'[t] = "refresh" /\ owner'[t] = f <=> kind[t] = "refresh" /\ owner[t] = f
    BY <2>1, <2>2
  <2>4. UNCHANGED Chain
    BY <2>3 DEF Chain
  <2> QED BY <2>1, <2>2, <2>4 DEF Live, Consumed
<1>3. CASE UNCHANGED <<kind, owner, succ>> /\ rows' \subseteq rows /\ revoked \subseteq revoked'
  BY <1>3 DEF Chain, Live, Consumed
<1>4. \/ \E p \in Proc : IssueAccess(p) \/ MintAccess(p)
      \/ UNCHANGED <<kind, owner, succ>> /\ rows' \subseteq rows /\ revoked \subseteq revoked'
  BY DEF Next, vars, tables, Issue, Request, Rotate, RevokeFamily, LockTimeout, Crash,
         Abort, IssueFamily, Respond, Refresh, RefreshRejected, RevokeRefresh, RotateLock,
         RotateRefused, RotateFamily, RevLockFamily, RevScan, RevLockToken, RevCommit,
         RevokeAccess, Expire, Cleanup
<1> QED BY <1>2, <1>3, <1>4

LEMMA GrantsStep ==
    ASSUME IInv, IInv', NamedOnly, [Next]_vars
    PROVE  [Grants!Next]_(Grants!vars)
<1>1. ASSUME NEW p \in Proc, IssueRefresh(p) PROVE [Grants!Next]_(Grants!vars)
  BY <1>1, GrantStep DEF Grants!Next
<1>2. ASSUME NEW p \in Proc, RotateCommit(p) PROVE [Grants!Next]_(Grants!vars)
  BY <1>2, ExchangeIsOne DEF Grants!Next
<1> QED BY <1>1, <1>2, OtherStep, EndOrNothing

LEMMA GrantsInit == Init => Grants!Init /\ NamedOnly
BY DEF Init, Grants!Init, Chain, Holder, Live, NamedOnly

\* The store implements the chain of tokens of RefreshGrant, for any handlers,
\* tokens and families: grants, exchanges and ends are all a client can see.
THEOREM StoreImplementsGrants == Spec => ImplementsGrants
<1>1. IInv /\ NamedOnly /\ [Next]_vars => NamedOnly'
  BY NamedOnlyStep
<1>2. IInv /\ IInv' /\ NamedOnly /\ [Next]_vars => [Grants!Next]_(Grants!vars)
  BY GrantsStep
<1> QED BY <1>1, <1>2, GrantsInit, Invariance, PTL DEF Spec, ImplementsGrants, Grants!Spec
=============================================================================
