------------------------- MODULE AuthorizationProofs -------------------------
(***************************************************************************)
(* Proofs about authorization, for any sets of handlers, requests, codes   *)
(* and attempts: first AuthorizationCodes - one login yields one token     *)
(* family at most, and what was used up stays used up -, then              *)
(* AttemptThrottle, the bound on the wrong guesses in front of a login.    *)
(*                                                                         *)
(* The codes: the argument follows the right to a family as it is handed   *)
(* on, from the open request to the one handler that consumed it, to the   *)
(* one code it created, to the one handler that consumed that, and to the  *)
(* family.  OriginInv says that the first half of this chain does not      *)
(* fork, and IssueInv the second.                                          *)
(*                                                                         *)
(* The throttle: a request that is let through has counted as far back as  *)
(* the windows that are not over, so what such a window has seen is below  *)
(* the limit, but for what is not recorded: the requests about to record   *)
(* (GuessesKnown) and those that were let through and have not guessed     *)
(* (RoomForTries).  Each request is one of them at most.                   *)
(***************************************************************************)
EXTENDS AuthorizationCodes, AttemptThrottle, FiniteSetTheorems, WellFoundedInduction, TLAPS


\* A code that is yet to be created is nowhere.
FreshInv ==
    \A c \in Code : code[c] = "none" =>
        /\ source[c] = NoRequest /\ families[c] = 0 /\ c \notin sent
        /\ \A h \in Handler : cod[h] # c

\* A request that was consumed has one handler that is about to create its
\* code, or one code.
OriginInv ==
    /\ \A c \in Code : code[c] # "none" =>
          source[c] \in Request /\ request[source[c]] \notin {"none", "open"}
    /\ \A c, d \in Code : code[c] # "none" /\ code[d] # "none" /\ source[c] = source[d] => c = d
    /\ \A h \in Handler : pc[h] \in {"getRequest", "consumeRequest", "createCode"} => req[h] \in Request
    /\ \A h \in Handler : pc[h] = "createCode" =>
          /\ request[req[h]] \notin {"none", "open"}
          /\ \A c \in Code : source[c] # req[h]
          /\ \A g \in Handler : pc[g] = "createCode" /\ req[g] = req[h] => g = h

\* A code that was consumed has one handler that is about to issue its family,
\* or one family, or none.
IssueInv ==
    /\ \A h \in Handler : pc[h] \in {"redirect", "consumeCode", "issue"} => cod[h] \in Code
    /\ \A c \in Code : families[c] \in {0, 1}
    /\ \A c \in Code : code[c] = "open" => families[c] = 0
    /\ \A h \in Handler : pc[h] = "issue" =>
          /\ code[cod[h]] \in {"consumed", "deleted"}
          /\ families[cod[h]] = 0
          /\ \A g \in Handler : pc[g] = "issue" /\ cod[g] = cod[h] => g = h

IInv == TypeOK /\ FreshInv /\ OriginInv /\ IssueInv

-----------------------------------------------------------------------------
(* Steps that several actions share.                                        *)

\* A handler that ends leaves no trace in what the others are doing.
LEMMA FinishKeeps ==
    ASSUME IInv, NEW h \in Handler, Finish(h)
    PROVE  /\ pc' \in [Handler -> PCs] /\ req' \in [Handler -> Request \cup {NoRequest}]
           /\ cod' \in [Handler -> Code \cup {NoCode}] /\ proof' \in [Handler -> BOOLEAN]
           /\ pc'[h] = "idle" /\ cod'[h] = NoCode
           /\ \A g \in Handler : g # h => pc'[g] = pc[g] /\ req'[g] = req[g] /\ cod'[g] = cod[g]
BY DEF IInv, TypeOK, Finish, PCs

LEMMA RejectStep ==
    ASSUME IInv, NEW h \in Handler, Reject(h)
    PROVE  IInv'
<1>1. /\ pc' \in [Handler -> PCs] /\ req' \in [Handler -> Request \cup {NoRequest}]
      /\ cod' \in [Handler -> Code \cup {NoCode}] /\ proof' \in [Handler -> BOOLEAN]
      /\ pc'[h] = "idle" /\ cod'[h] = NoCode
      /\ \A g \in Handler : g # h => pc'[g] = pc[g] /\ req'[g] = req[g] /\ cod'[g] = cod[g]
      /\ UNCHANGED <<request, code, stale, source, active, sent, families>>
  BY FinishKeeps DEF Reject, rows
<1>2. TypeOK'
  BY <1>1 DEF IInv, TypeOK
<1>3. FreshInv'
  BY <1>1, NonMembers DEF IInv, FreshInv
<1>4. OriginInv'
  BY <1>1 DEF IInv, OriginInv
<1>5. IssueInv'
  BY <1>1 DEF IInv, IssueInv
<1> QED BY <1>2, <1>3, <1>4, <1>5 DEF IInv

LEMMA BeginStep ==
    ASSUME IInv, NEW r \in Request, BeginAuthorization(r)
    PROVE  IInv'
<1>1. /\ request[r] = "none" /\ request' = [request EXCEPT ![r] = "open"]
      /\ UNCHANGED <<code, stale, source, active, pc, req, cod, proof, sent, families>>
  BY DEF BeginAuthorization, local
<1>2. TypeOK'
  BY <1>1 DEF IInv, TypeOK, RowStates
<1>3. FreshInv' /\ IssueInv'
  BY <1>1 DEF IInv, FreshInv, IssueInv
<1>4. OriginInv'
  BY <1>1 DEF IInv, TypeOK, OriginInv
<1> QED BY <1>2, <1>3, <1>4 DEF IInv

LEMMA AuthenticateStep ==
    ASSUME IInv, NEW h \in Handler, NEW r \in Request, Authenticate(h, r)
    PROVE  IInv'
<1>1. /\ pc' = [pc EXCEPT ![h] = "getRequest"] /\ req' = [req EXCEPT ![h] = r]
      /\ UNCHANGED <<request, code, stale, source, active, cod, proof, sent, families>>
  BY DEF Authenticate, rows
<1>2. TypeOK'
  BY <1>1 DEF IInv, TypeOK, PCs
<1>3. \A g \in Handler : /\ pc'[g] = IF g = h THEN "getRequest" ELSE pc[g]
                         /\ req'[g] = IF g = h THEN r ELSE req[g]
  BY <1>1 DEF IInv, TypeOK
<1>4. FreshInv'
  BY <1>1 DEF IInv, FreshInv
<1>5. OriginInv'
  BY <1>1, <1>3 DEF IInv, OriginInv
<1>6. IssueInv'
  BY <1>1, <1>3 DEF IInv, IssueInv
<1> QED BY <1>2, <1>4, <1>5, <1>6 DEF IInv

LEMMA GetRequestStep ==
    ASSUME IInv, NEW h \in Handler, GetRequest(h)
    PROVE  IInv'
<1>1. CASE Reject(h)
  BY <1>1, RejectStep
<1>2. CASE /\ pc[h] = "getRequest" /\ Goto(h, "consumeRequest")
           /\ UNCHANGED <<rows, active, sent, families>>
  <2>1. /\ pc' = [pc EXCEPT ![h] = "consumeRequest"]
        /\ UNCHANGED <<request, code, stale, source, active, req, cod, proof, sent, families>>
    BY <1>2 DEF Goto, rows
  <2>2. TypeOK'
    BY <2>1 DEF IInv, TypeOK, PCs
  <2>3. \A g \in Handler : pc'[g] = IF g = h THEN "consumeRequest" ELSE pc[g]
    BY <2>1 DEF IInv, TypeOK
  <2>4. FreshInv'
    BY <2>1 DEF IInv, FreshInv
  <2>5. OriginInv'
    BY <1>2, <2>1, <2>3 DEF IInv, OriginInv
  <2>6. IssueInv'
    BY <2>1, <2>3 DEF IInv, IssueInv
  <2> QED BY <2>2, <2>4, <2>5, <2>6 DEF IInv
<1> QED BY <1>1, <1>2 DEF GetRequest

\* The UPDATE makes this handler the only one that creates a code for it: the
\* request was open, so nobody has consumed it before.
LEMMA ConsumeRequestStep ==
    ASSUME IInv, NEW h \in Handler, ConsumeRequest(h)
    PROVE  IInv'
<1>1. /\ pc[h] = "consumeRequest" /\ request[req[h]] = "open"
      /\ request' = [request EXCEPT ![req[h]] = "consumed"]
      /\ pc' = [pc EXCEPT ![h] = "createCode"]
      /\ UNCHANGED <<code, stale, source, active, req, cod, proof, sent, families>>
  BY DEF ConsumeRequest, Approvable, Goto
<1>2. req[h] \in Request
  BY <1>1 DEF IInv, OriginInv
<1>3. TypeOK'
  BY <1>1, <1>2 DEF IInv, TypeOK, PCs, RowStates
<1>4. /\ \A g \in Handler : pc'[g] = IF g = h THEN "createCode" ELSE pc[g]
      /\ \A r \in Request : request'[r] = IF r = req[h] THEN "consumed" ELSE request[r]
  BY <1>1, <1>2 DEF IInv, TypeOK
<1>5. FreshInv'
  BY <1>1 DEF IInv, FreshInv
<1>6. \A c \in Code : source[c] # req[h]
  BY <1>1, <1>2, NonMembers DEF IInv, FreshInv, OriginInv
<1>7. OriginInv'
  BY <1>1, <1>2, <1>4, <1>6 DEF IInv, OriginInv
<1>8. IssueInv'
  BY <1>1, <1>4 DEF IInv, IssueInv
<1> QED BY <1>3, <1>5, <1>7, <1>8 DEF IInv

LEMMA CreateCodeStep ==
    ASSUME IInv, NEW h \in Handler, CreateCode(h)
    PROVE  IInv'
<1> DEFINE f == FreshCode
<1>1. f \in Code /\ code[f] = "none"
  BY DEF CreateCode, FreshCode
<1>2. /\ pc[h] = "createCode"
      /\ code' = [code EXCEPT ![f] = "open"]
      /\ source' = [source EXCEPT ![f] = req[h]]
      /\ cod' = [cod EXCEPT ![h] = f]
      /\ pc' = [pc EXCEPT ![h] = "redirect"]
      /\ UNCHANGED <<request, stale, active, req, proof, sent, families>>
  BY DEF CreateCode
<1> HIDE DEF f
<1>3. req[h] \in Request
  BY <1>2 DEF IInv, OriginInv
<1>4. TypeOK'
  BY <1>1, <1>2, <1>3 DEF IInv, TypeOK, PCs, RowStates
<1>5. /\ \A g \in Handler : /\ pc'[g] = IF g = h THEN "redirect" ELSE pc[g]
                            /\ cod'[g] = IF g = h THEN f ELSE cod[g]
      /\ \A c \in Code : /\ code'[c] = IF c = f THEN "open" ELSE code[c]
                         /\ source'[c] = IF c = f THEN req[h] ELSE source[c]
  BY <1>1, <1>2 DEF IInv, TypeOK
<1>6. FreshInv'
  BY <1>1, <1>2, <1>5 DEF IInv, FreshInv
<1>7. OriginInv'
  BY <1>1, <1>2, <1>3, <1>5 DEF IInv, OriginInv
<1>8. IssueInv'
  BY <1>1, <1>2, <1>5 DEF IInv, IssueInv, FreshInv
<1> QED BY <1>4, <1>6, <1>7, <1>8 DEF IInv

LEMMA RedirectStep ==
    ASSUME IInv, NEW h \in Handler, Redirect(h)
    PROVE  IInv'
<1>1. /\ pc[h] = "redirect" /\ sent' = sent \cup {cod[h]}
      /\ UNCHANGED <<request, code, stale, source, active, families>>
  BY DEF Redirect, rows
<1>2. /\ pc' \in [Handler -> PCs] /\ req' \in [Handler -> Request \cup {NoRequest}]
      /\ cod' \in [Handler -> Code \cup {NoCode}] /\ proof' \in [Handler -> BOOLEAN]
      /\ pc'[h] = "idle" /\ cod'[h] = NoCode
      /\ \A g \in Handler : g # h => pc'[g] = pc[g] /\ req'[g] = req[g] /\ cod'[g] = cod[g]
  BY FinishKeeps DEF Redirect
<1>3. cod[h] \in Code
  BY <1>1 DEF IInv, IssueInv
<1>4. TypeOK'
  BY <1>1, <1>2, <1>3 DEF IInv, TypeOK
<1>5. FreshInv'
  BY <1>1, <1>2, NonMembers DEF IInv, FreshInv
<1>6. OriginInv'
  BY <1>1, <1>2 DEF IInv, OriginInv
<1>7. IssueInv'
  BY <1>1, <1>2 DEF IInv, IssueInv
<1> QED BY <1>4, <1>5, <1>6, <1>7 DEF IInv

LEMMA ExchangeStep ==
    ASSUME IInv, NEW h \in Handler, NEW c \in Code, NEW ok \in BOOLEAN, Exchange(h, c, ok)
    PROVE  IInv'
<1>1. /\ c \in sent /\ pc' = [pc EXCEPT ![h] = "consumeCode"] /\ cod' = [cod EXCEPT ![h] = c]
      /\ proof' = [proof EXCEPT ![h] = ok]
      /\ UNCHANGED <<request, code, stale, source, active, req, sent, families>>
  BY DEF Exchange, rows
<1>2. TypeOK'
  BY <1>1 DEF IInv, TypeOK, PCs
<1>3. \A g \in Handler : /\ pc'[g] = IF g = h THEN "consumeCode" ELSE pc[g]
                         /\ cod'[g] = IF g = h THEN c ELSE cod[g]
  BY <1>1 DEF IInv, TypeOK
<1>4. FreshInv'
  BY <1>1, <1>3 DEF IInv, FreshInv
<1>5. OriginInv'
  BY <1>1, <1>3 DEF IInv, OriginInv
<1>6. IssueInv'
  BY <1>1, <1>3 DEF IInv, IssueInv
<1> QED BY <1>2, <1>4, <1>5, <1>6 DEF IInv

\* The UPDATE makes this handler the only one that issues a family for the
\* code: it was open, so nobody has consumed it before.
LEMMA ConsumeCodeStep ==
    ASSUME IInv, NEW h \in Handler, ConsumeCode(h)
    PROVE  IInv'
<1>1. /\ pc[h] = "consumeCode" /\ code[cod[h]] = "open"
      /\ code' = [code EXCEPT ![cod[h]] = "consumed"]
      /\ UNCHANGED <<request, stale, source, active, sent, families>>
  BY DEF ConsumeCode, Consumable
<1>2. cod[h] \in Code
  BY <1>1 DEF IInv, IssueInv
<1>3. \A c \in Code : code'[c] = IF c = cod[h] THEN "consumed" ELSE code[c]
  BY <1>1, <1>2 DEF IInv, TypeOK
<1>4. /\ pc' \in [Handler -> PCs] /\ req' \in [Handler -> Request \cup {NoRequest}]
      /\ cod' \in [Handler -> Code \cup {NoCode}] /\ proof' \in [Handler -> BOOLEAN]
      /\ \/ pc'[h] = "idle" /\ cod'[h] = NoCode
         \/ pc'[h] = "issue" /\ cod'[h] = cod[h]
      /\ \A g \in Handler : g # h => pc'[g] = pc[g] /\ req'[g] = req[g] /\ cod'[g] = cod[g]
  <2>1. CASE Finish(h)
    <3>1. /\ pc' \in [Handler -> PCs] /\ req' \in [Handler -> Request \cup {NoRequest}]
          /\ cod' \in [Handler -> Code \cup {NoCode}] /\ proof' \in [Handler -> BOOLEAN]
          /\ pc'[h] = "idle" /\ cod'[h] = NoCode
          /\ \A g \in Handler : g # h => pc'[g] = pc[g] /\ req'[g] = req[g] /\ cod'[g] = cod[g]
      BY <2>1, FinishKeeps
    <3> QED BY <3>1, Zenon
  <2>2. CASE Goto(h, "issue")
    <3>1. pc' = [pc EXCEPT ![h] = "issue"] /\ UNCHANGED <<req, cod, proof>>
      BY <2>2 DEF Goto
    <3>2. pc \in [Handler -> PCs] /\ UNCHANGED proof /\ proof \in [Handler -> BOOLEAN]
          /\ req \in [Handler -> Request \cup {NoRequest}] /\ cod \in [Handler -> Code \cup {NoCode}]
      BY <3>1 DEF IInv, TypeOK
    <3>3. pc' \in [Handler -> PCs] /\ pc'[h] = "issue" /\ \A g \in Handler : g # h => pc'[g] = pc[g]
      BY <3>1, <3>2 DEF PCs
    <3> QED BY <3>1, <3>2, <3>3
  <2> QED BY <2>1, <2>2 DEF ConsumeCode
<1>5. TypeOK'
  <2>1. code' \in [Code -> RowStates]
    BY <1>1 DEF IInv, TypeOK, RowStates
  <2> QED BY <1>1, <1>4, <2>1 DEF IInv, TypeOK
<1>6. FreshInv'
  BY <1>1, <1>3, <1>4, NonMembers DEF IInv, FreshInv
<1>7. OriginInv'
  BY <1>1, <1>3, <1>4 DEF IInv, OriginInv
<1>8. IssueInv'
  BY <1>1, <1>2, <1>3, <1>4 DEF IInv, IssueInv
<1> QED BY <1>5, <1>6, <1>7, <1>8 DEF IInv

LEMMA IssueStep ==
    ASSUME IInv, NEW h \in Handler, IssueNewFamily(h)
    PROVE  IInv'
<1>1. /\ pc[h] = "issue" /\ families' = [families EXCEPT ![cod[h]] = @ + 1]
      /\ UNCHANGED <<request, code, stale, source, active, sent>>
  BY DEF IssueNewFamily, rows
<1>2. cod[h] \in Code /\ families[cod[h]] = 0 /\ code[cod[h]] \in {"consumed", "deleted"}
  BY <1>1 DEF IInv, IssueInv
<1>3. families' \in [Code -> Nat]
      /\ \A c \in Code : families'[c] = IF c = cod[h] THEN 1 ELSE families[c]
  BY <1>1, <1>2 DEF IInv, TypeOK
<1>4. /\ pc' \in [Handler -> PCs] /\ req' \in [Handler -> Request \cup {NoRequest}]
      /\ cod' \in [Handler -> Code \cup {NoCode}] /\ proof' \in [Handler -> BOOLEAN]
      /\ pc'[h] = "idle" /\ cod'[h] = NoCode
      /\ \A g \in Handler : g # h => pc'[g] = pc[g] /\ req'[g] = req[g] /\ cod'[g] = cod[g]
  BY FinishKeeps DEF IssueNewFamily
<1>5. TypeOK'
  BY <1>1, <1>3, <1>4 DEF IInv, TypeOK
<1>6. FreshInv'
  BY <1>1, <1>2, <1>3, <1>4, NonMembers DEF IInv, FreshInv
<1>7. OriginInv'
  BY <1>1, <1>4 DEF IInv, OriginInv
<1>8. IssueInv'
  BY <1>1, <1>2, <1>3, <1>4 DEF IInv, IssueInv
<1> QED BY <1>5, <1>6, <1>7, <1>8 DEF IInv

\* Time, cleanup, the operator and stuttering open nothing again.
LEMMA OtherStep ==
    ASSUME IInv,
           \/ \E x \in Request \cup Code : Expire(x)
           \/ Cleanup \/ SetStatus \/ UNCHANGED vars
    PROVE  IInv'
<1>1. UNCHANGED <<source, pc, req, cod, proof, sent, families>>
  BY DEF Expire, Cleanup, SetStatus, vars, rows, local
<1>2. /\ \A r \in Request : request'[r] = request[r] \/ (request[r] # "none" /\ request'[r] = "deleted")
      /\ \A c \in Code : code'[c] = code[c] \/ (code[c] # "none" /\ code'[c] = "deleted")
      /\ request' \in [Request -> RowStates] /\ code' \in [Code -> RowStates]
  <2>1. CASE Cleanup
    BY <2>1 DEF Cleanup, Drop, IInv, TypeOK, RowStates
  <2>2. CASE UNCHANGED <<request, code>>
    BY <2>2 DEF IInv, TypeOK
  <2> QED BY <2>1, <2>2 DEF Expire, SetStatus, vars, rows
<1>3. stale' \subseteq Request \cup Code /\ active' \in BOOLEAN
  BY DEF Expire, Cleanup, SetStatus, vars, rows, IInv, TypeOK
<1>4. TypeOK'
  BY <1>1, <1>2, <1>3 DEF IInv, TypeOK
<1>5. FreshInv'
  BY <1>1, <1>2 DEF IInv, FreshInv
<1>6. OriginInv'
  BY <1>1, <1>2 DEF IInv, OriginInv
<1>7. IssueInv'
  BY <1>1, <1>2 DEF IInv, IssueInv
<1> QED BY <1>4, <1>5, <1>6, <1>7 DEF IInv

-----------------------------------------------------------------------------
(* Theorems.                                                                *)

LEMMA InitIInv == Init => IInv
<1> SUFFICES ASSUME Init PROVE IInv
  OBVIOUS
<1>1. TypeOK
  BY DEF Init, TypeOK, RowStates, PCs
<1>2. FreshInv
  BY NonMembers DEF Init, FreshInv
<1>3. OriginInv /\ IssueInv
  BY DEF Init, OriginInv, IssueInv
<1> QED BY <1>1, <1>2, <1>3 DEF IInv

\* The invariant holds in every state.
THEOREM Invariance == Spec => []IInv
<1>1. ASSUME IInv, [Next]_vars PROVE IInv'
  <2>1. CASE \E r \in Request : BeginAuthorization(r)
    BY <1>1, <2>1, BeginStep
  <2>2. ASSUME NEW h \in Handler, Authorize(h) PROVE IInv'
    BY <1>1, <2>2, AuthenticateStep, GetRequestStep, ConsumeRequestStep, CreateCodeStep,
       RedirectStep, RejectStep DEF Authorize, ConsumeRequestLost
  <2>3. ASSUME NEW h \in Handler, TokenEndpoint(h) PROVE IInv'
    BY <1>1, <2>3, ExchangeStep, ConsumeCodeStep, IssueStep, RejectStep
       DEF TokenEndpoint, ConsumeCodeLost
  <2>4. ASSUME NEW h \in Handler, Crash(h) PROVE IInv'
    BY <1>1, <2>4, RejectStep DEF Crash
  <2>5. CASE (\E x \in Request \cup Code : Expire(x)) \/ Cleanup \/ SetStatus \/ UNCHANGED vars
    BY <1>1, <2>5, OtherStep
  <2> QED BY <1>1, <2>1, <2>2, <2>3, <2>4, <2>5 DEF Next
<1> QED BY InitIInv, <1>1, PTL DEF Spec

\* The rows and the handlers keep their types.
THEOREM TypeCorrect == Spec => []TypeOK
<1>1. IInv => TypeOK
  BY DEF IInv
<1> QED BY <1>1, Invariance, PTL

\* However many logins are submitted for a request, and however often its code
\* is presented, one token family comes of it at most (consume_request and
\* consume_code).
THEOREM OneLoginOneFamily == Spec => []OneFamilyPerRequest
<1>1. IInv => OneFamilyPerRequest
  <2> SUFFICES ASSUME IInv, NEW c \in Code, NEW d \in Code,
                      families[c] > 0, families[d] > 0, source[c] = source[d]
               PROVE  c = d /\ families[c] = 1
    BY DEF OneFamilyPerRequest
  <2>1. families[c] # 0 /\ families[d] # 0
    BY DEF IInv, TypeOK
  <2>2. code[c] # "none" /\ code[d] # "none"
    BY <2>1 DEF IInv, FreshInv
  <2> QED BY <2>1, <2>2 DEF IInv, OriginInv, IssueInv
<1> QED BY <1>1, Invariance, PTL

\* What is still under way for a request, as a step may change it.
LEMMA UsedUpStep ==
    ASSUME IInv, [Next]_vars, NEW r \in Request, ~UnderWay(r)
    PROVE  ~UnderWay(r)' /\ \A c \in Code : source[c] = r => families'[c] = families[c]
<1> USE NonMembers DEF UnderWay
<1>1. ASSUME NEW h \in Handler, Reject(h)
      PROVE  ~UnderWay(r)' /\ \A c \in Code : source[c] = r => families'[c] = families[c]
  BY <1>1, FinishKeeps DEF Reject, rows
<1>2. CASE \E q \in Request : BeginAuthorization(q)
  BY <1>2 DEF BeginAuthorization, local
<1>3. ASSUME NEW h \in Handler, \E q \in Request : Authenticate(h, q)
      PROVE  ~UnderWay(r)' /\ \A c \in Code : source[c] = r => families'[c] = families[c]
  BY <1>3 DEF Authenticate, rows, IInv, TypeOK
<1>4. ASSUME NEW h \in Handler, GetRequest(h)
      PROVE  ~UnderWay(r)' /\ \A c \in Code : source[c] = r => families'[c] = families[c]
  BY <1>1, <1>4 DEF GetRequest, Goto, rows, IInv, TypeOK
<1>5. ASSUME NEW h \in Handler, ConsumeRequest(h)
      PROVE  ~UnderWay(r)' /\ \A c \in Code : source[c] = r => families'[c] = families[c]
  <2>1. req[h] \in Request /\ req[h] # r
    BY <1>5 DEF ConsumeRequest, Approvable, IInv, OriginInv
  <2> QED BY <1>5, <2>1 DEF ConsumeRequest, Goto, IInv, TypeOK
<1>6. ASSUME NEW h \in Handler, CreateCode(h)
      PROVE  ~UnderWay(r)' /\ \A c \in Code : source[c] = r => families'[c] = families[c]
  <2> DEFINE f == FreshCode
  <2>1. f \in Code /\ code[f] = "none"
    BY <1>6 DEF CreateCode, FreshCode
  <2>2. /\ pc[h] = "createCode" /\ req[h] # r
        /\ code' = [code EXCEPT ![f] = "open"]
        /\ source' = [source EXCEPT ![f] = req[h]]
        /\ cod' = [cod EXCEPT ![h] = f]
        /\ pc' = [pc EXCEPT ![h] = "redirect"]
        /\ UNCHANGED <<request, req, families>>
    BY <1>6 DEF CreateCode
  <2> HIDE DEF f
  <2>3. /\ \A g \in Handler : /\ pc'[g] = IF g = h THEN "redirect" ELSE pc[g]
                              /\ cod'[g] = IF g = h THEN f ELSE cod[g]
        /\ \A c \in Code : /\ code'[c] = IF c = f THEN "open" ELSE code[c]
                           /\ source'[c] = IF c = f THEN req[h] ELSE source[c]
    BY <2>1, <2>2 DEF IInv, TypeOK
  <2>4. \A g \in Handler : pc[g] = "issue" => cod[g] \in Code /\ cod[g] # f
    BY <2>1 DEF IInv, FreshInv, IssueInv
  <2> QED BY <2>1, <2>2, <2>3, <2>4
<1>7. ASSUME NEW h \in Handler, Redirect(h)
      PROVE  ~UnderWay(r)' /\ \A c \in Code : source[c] = r => families'[c] = families[c]
  BY <1>7, FinishKeeps DEF Redirect, rows
<1>8. ASSUME NEW h \in Handler, \E c \in Code, ok \in BOOLEAN : Exchange(h, c, ok)
      PROVE  ~UnderWay(r)' /\ \A c \in Code : source[c] = r => families'[c] = families[c]
  BY <1>8 DEF Exchange, rows, IInv, TypeOK
<1>9. ASSUME NEW h \in Handler, ConsumeCode(h)
      PROVE  ~UnderWay(r)' /\ \A c \in Code : source[c] = r => families'[c] = families[c]
  <2>1. /\ pc[h] = "consumeCode" /\ code[cod[h]] = "open" /\ cod[h] \in Code
        /\ code' = [code EXCEPT ![cod[h]] = "consumed"]
        /\ UNCHANGED <<request, source, families>>
    BY <1>9 DEF ConsumeCode, Consumable, IInv, IssueInv
  <2>2. source[cod[h]] # r
    BY <2>1
  <2>3. \A c \in Code : code'[c] = IF c = cod[h] THEN "consumed" ELSE code[c]
    BY <2>1 DEF IInv, TypeOK
  <2>4. CASE Finish(h)
    BY <2>1, <2>3, <2>4, FinishKeeps
  <2>5. CASE Goto(h, "issue")
    <3>1. UNCHANGED <<req, cod>> /\ \A g \in Handler : pc'[g] = IF g = h THEN "issue" ELSE pc[g]
      BY <2>5 DEF Goto, IInv, TypeOK
    <3> QED BY <2>1, <2>2, <2>3, <3>1
  <2> QED BY <1>9, <2>4, <2>5 DEF ConsumeCode
<1>10. ASSUME NEW h \in Handler, IssueNewFamily(h)
       PROVE  ~UnderWay(r)' /\ \A c \in Code : source[c] = r => families'[c] = families[c]
  <2>1. /\ pc[h] = "issue" /\ families' = [families EXCEPT ![cod[h]] = @ + 1]
        /\ UNCHANGED <<request, code, source>>
    BY <1>10 DEF IssueNewFamily, rows
  <2>2. \A c \in Code : source[c] = r => families'[c] = families[c]
    BY <2>1 DEF IInv, TypeOK
  <2> QED BY <1>10, <2>1, <2>2, FinishKeeps DEF IssueNewFamily
<1>11. CASE (\E x \in Request \cup Code : Expire(x)) \/ Cleanup \/ SetStatus \/ UNCHANGED vars
  <2>1. UNCHANGED <<source, pc, req, cod, families>>
    BY <1>11 DEF Expire, Cleanup, SetStatus, vars, rows, local
  <2>2. /\ request'[r] = request[r] \/ request'[r] = "deleted"
        /\ \A c \in Code : code'[c] = code[c] \/ code'[c] = "deleted"
    BY <1>11 DEF Expire, Cleanup, Drop, SetStatus, vars, rows
  <2> QED BY <2>1, <2>2
<1> QED BY <1>1, <1>2, <1>3, <1>4, <1>5, <1>6, <1>7, <1>8, <1>9, <1>10, <1>11
        DEF Next, Authorize, TokenEndpoint, ConsumeRequestLost, ConsumeCodeLost, Crash

\* A request that was used up leads to no family any more, whatever failed on
\* the way (issue_authorization_code and exchange_code consume first).
THEOREM UsedUpStaysSo == Spec => UsedUpForGood
<1>1. ASSUME IInv, [Next]_vars
      PROVE  [\A r \in Request :
                ~UnderWay(r) =>
                    /\ ~UnderWay(r)'
                    /\ \A c \in Code : source[c] = r => families'[c] = families[c]]_vars
  BY <1>1, UsedUpStep
<1> QED BY <1>1, Invariance, PTL DEF Spec, UsedUpForGood

-----------------------------------------------------------------------------
(* The flow implements CodeGrant: what each step is of it.                  *)

Opened(r) == request[r] \in {"none", "open"}

\* How far a request has come, by its own row and by what is under way: the
\* code of a family is the only code of its request.
StageKnown ==
    \A r \in Request :
        /\ Stage[r] = IF Opened(r) THEN "open"
                      ELSE IF Granted(r) THEN "granted"
                      ELSE IF UnderWay(r) THEN "approved" ELSE "lost"
        /\ Issued[r] = IF Granted(r) THEN 1 ELSE 0
        /\ Granted(r) => ~UnderWay(r)

LEMMA StageIsKnown == IInv => StageKnown
<1> SUFFICES ASSUME IInv, NEW r \in Request
             PROVE  /\ Issued[r] = IF Granted(r) THEN 1 ELSE 0
                    /\ Granted(r) => ~UnderWay(r)
  BY DEF StageKnown, Stage, Opened
<1>1. Issued[r] = Cardinality(FamiliesOf(r))
  BY DEF Issued
<1>2. CASE ~Granted(r)
  <2>1. \A c \in Code : source[c] = r => 1 .. families[c] = {}
    BY <1>2 DEF Granted, IInv, TypeOK
  <2>2. FamiliesOf(r) = {}
    BY <2>1 DEF FamiliesOf
  <2> QED BY <1>1, <1>2, <2>2, FS_EmptySet
<1>3. CASE Granted(r)
  <2>1. PICK c \in Code : source[c] = r /\ families[c] > 0
    BY <1>3 DEF Granted
  <2>2. families[c] = 1 /\ code[c] \notin {"none", "open"}
    BY <2>1 DEF IInv, TypeOK, FreshInv, IssueInv
  <2>3. \A d \in Code : source[d] = r => d = c
    BY <2>1, <2>2, NonMembers DEF IInv, FreshInv, OriginInv
  <2>4. FamiliesOf(r) = {c} \X (1 .. 1)
    BY <2>1, <2>2, <2>3 DEF FamiliesOf
  <2>5. FamiliesOf(r) = {<<c, 1>>}
    BY <2>4
  <2>6. Cardinality(FamiliesOf(r)) = 1
    BY <2>5, FS_Singleton
  <2>7. ~UnderWay(r)
    BY <2>1, <2>2, <2>3 DEF UnderWay, IInv, OriginInv, IssueInv
  <2> QED BY <1>1, <1>3, <2>6, <2>7
<1> QED BY <1>2, <1>3

\* Whatever grants nothing and opens nothing again loses requests, or nothing.
LEMMA LoseOrNothing ==
    ASSUME StageKnown, StageKnown',
           \A r \in Request : Granted(r)' = Granted(r),
           \A r \in Request : UnderWay(r)' => UnderWay(r) /\ Opened(r)' = Opened(r)
    PROVE  [Flow!Next]_(Flow!vars)
<1> DEFINE rs == {r \in Request : Stage'[r] # Stage[r]}
<1>1. \A r \in Request : Opened(r) => UnderWay(r)
  BY DEF Opened, UnderWay
<1>2. \A r \in Request : Opened(r)' => UnderWay(r)'
  BY DEF Opened, UnderWay
<1>3. \A r \in Request :
         Stage'[r] = Stage[r] \/ (Stage[r] \in {"open", "approved"} /\ Stage'[r] = "lost")
  BY <1>1, <1>2 DEF StageKnown
<1>4. \A r \in Request : Issued'[r] = Issued[r]
  BY DEF StageKnown
<1>5. UNCHANGED Issued
  BY <1>4 DEF Issued
<1>6. Stage' = [r \in Request |-> IF r \in rs THEN "lost" ELSE Stage[r]]
  BY <1>3 DEF Stage
<1>7. CASE rs = {}
  <2>1. \A r \in Request : Stage'[r] = Stage[r]
    BY <1>7
  <2>2. UNCHANGED Stage
    BY <2>1 DEF Stage
  <2> QED BY <1>5, <2>2 DEF Flow!vars
<1>8. CASE rs # {}
  <2>1. Flow!Lose(rs)
    BY <1>3, <1>5, <1>6 DEF Flow!Lose
  <2> QED BY <1>8, <2>1 DEF Flow!Next
<1> QED BY <1>7, <1>8

\* The UPDATE of consume_request approves the one request that it changes.
LEMMA ApproveStep ==
    ASSUME IInv, StageKnown, StageKnown', NEW h \in Handler, ConsumeRequest(h)
    PROVE  [Flow!Next]_(Flow!vars)
<1>1. PICK r \in Request : r = req[h]
  BY DEF ConsumeRequest, IInv, OriginInv
<1>2. /\ pc[h] = "consumeRequest" /\ request[r] = "open"
      /\ request' = [request EXCEPT ![r] = "consumed"]
      /\ pc' = [pc EXCEPT ![h] = "createCode"]
      /\ UNCHANGED <<code, source, req, cod, families>>
  BY <1>1 DEF ConsumeRequest, Approvable, Goto
<1>3. /\ \A g \in Handler : pc'[g] = IF g = h THEN "createCode" ELSE pc[g]
      /\ \A q \in Request : request'[q] = IF q = r THEN "consumed" ELSE request[q]
  BY <1>2 DEF IInv, TypeOK
<1>4. UnderWay(r)' /\ ~Opened(r)' /\ Opened(r)
  BY <1>1, <1>2, <1>3 DEF UnderWay, Opened
<1>5. \A q \in Request : q # r => UnderWay(q)' = UnderWay(q) /\ Opened(q)' = Opened(q)
  BY <1>1, <1>2, <1>3 DEF UnderWay, Opened
<1>6. \A q \in Request : Granted(q)' = Granted(q)
  BY <1>2 DEF Granted
<1>7. Stage[r] = "open" /\ Stage'[r] = "approved"
  BY <1>4 DEF StageKnown
<1>8. \A q \in Request : q # r => Stage'[q] = Stage[q]
  BY <1>5, <1>6 DEF StageKnown
<1>9. \A q \in Request : Issued'[q] = Issued[q]
  BY <1>6 DEF StageKnown
<1>10. UNCHANGED Issued
  BY <1>9 DEF Issued
<1>11. Stage' = [Stage EXCEPT ![r] = "approved"]
  BY <1>7, <1>8 DEF Stage
<1> QED BY <1>7, <1>10, <1>11 DEF Flow!Next, Flow!Approve

\* The handler that consumed the code issues the one family.
LEMMA IssueGrants ==
    ASSUME IInv, StageKnown, StageKnown', NEW h \in Handler, IssueNewFamily(h)
    PROVE  [Flow!Next]_(Flow!vars)
<1>1. /\ pc[h] = "issue" /\ families' = [families EXCEPT ![cod[h]] = @ + 1]
      /\ UNCHANGED <<request, code, source>>
  BY DEF IssueNewFamily, rows
<1>2. cod[h] \in Code /\ families[cod[h]] = 0 /\ code[cod[h]] # "none"
  BY <1>1 DEF IInv, IssueInv
<1>3. PICK r \in Request : r = source[cod[h]] /\ ~Opened(r) /\ UnderWay(r)
  BY <1>1, <1>2 DEF IInv, OriginInv, Opened, UnderWay
<1>4. \A c \in Code : families'[c] = IF c = cod[h] THEN 1 ELSE families[c]
  BY <1>1, <1>2 DEF IInv, TypeOK
<1>5. pc'[h] = "idle" /\ \A g \in Handler : g # h => pc'[g] = pc[g] /\ req'[g] = req[g] /\ cod'[g] = cod[g]
  BY FinishKeeps DEF IssueNewFamily
<1>6. Granted(r)' /\ \A q \in Request : q # r => Granted(q)' = Granted(q)
  BY <1>1, <1>2, <1>3, <1>4 DEF Granted
<1>7. \A q \in Request : Opened(q)' = Opened(q)
  BY <1>1 DEF Opened
<1>8. \A q \in Request : q # r => UnderWay(q)' = UnderWay(q)
  BY <1>1, <1>3, <1>5 DEF UnderWay
<1>9. Stage[r] = "approved" /\ Stage'[r] = "granted" /\ Issued[r] = 0 /\ Issued'[r] = 1
  BY <1>3, <1>6, <1>7 DEF StageKnown
<1>10. \A q \in Request : q # r => Stage'[q] = Stage[q] /\ Issued'[q] = Issued[q]
  BY <1>6, <1>7, <1>8 DEF StageKnown
<1>11. Stage' = [Stage EXCEPT ![r] = "granted"]
  BY <1>3, <1>9, <1>10 DEF Stage
<1>12. Issued' = [Issued EXCEPT ![r] = @ + 1]
  BY <1>3, <1>9, <1>10 DEF Issued
<1> QED BY <1>3, <1>9, <1>11, <1>12 DEF Flow!Next, Flow!Issue

\* No other step opens a request again or changes what was granted.
LEMMA OtherStepsGrantNothing ==
    ASSUME IInv, IInv', [Next]_vars,
           ~(\E h \in Handler : ConsumeRequest(h) \/ IssueNewFamily(h))
    PROVE  /\ \A r \in Request : Granted(r)' = Granted(r)
           /\ \A r \in Request : UnderWay(r)' => Opened(r)' = Opened(r)
<1>1. UNCHANGED families
  BY DEF Next, Authorize, TokenEndpoint, BeginAuthorization, Authenticate, GetRequest,
         ConsumeRequestLost, CreateCode, Redirect, Exchange, ConsumeCode, ConsumeCodeLost,
         Crash, Reject, Expire, Cleanup, SetStatus, vars
<1>2. \A r \in Request : \/ request'[r] = request[r]
                         \/ request[r] = "none" /\ request'[r] = "open"
                         \/ request'[r] = "deleted"
  <2>1. CASE Cleanup
    BY <2>1 DEF Cleanup, Drop
  <2>2. CASE \E r \in Request : BeginAuthorization(r)
    BY <2>2 DEF BeginAuthorization, IInv, TypeOK
  <2>3. CASE UNCHANGED request
    BY <2>3
  <2> QED BY <2>1, <2>2, <2>3
          DEF Next, Authorize, TokenEndpoint, Authenticate, GetRequest,
              ConsumeRequestLost, CreateCode, Redirect, Exchange, ConsumeCode,
              ConsumeCodeLost, Crash, Reject, Expire, SetStatus, vars, rows
<1>3. \A r \in Request : Granted(r)' = Granted(r)
  <2>1. CASE UNCHANGED source
    BY <1>1, <2>1 DEF Granted
  <2>2. ASSUME NEW h \in Handler, CreateCode(h)
        PROVE  \A r \in Request : Granted(r)' = Granted(r)
    <3> DEFINE f == FreshCode
    <3>1. f \in Code /\ code[f] = "none" /\ source' = [source EXCEPT ![f] = req[h]]
      BY <2>2 DEF CreateCode, FreshCode
    <3> HIDE DEF f
    <3>2. families[f] = 0 /\ \A c \in Code : c # f => source'[c] = source[c]
      BY <3>1 DEF IInv, TypeOK, FreshInv
    <3> QED BY <1>1, <3>1, <3>2 DEF Granted
  <2> QED BY <2>1, <2>2
          DEF Next, Authorize, TokenEndpoint, BeginAuthorization, Authenticate, GetRequest,
              ConsumeRequestLost, Redirect, Exchange, ConsumeCode, ConsumeCodeLost, Crash,
              Reject, Expire, Cleanup, SetStatus, vars, rows
<1>4. \A r \in Request : UnderWay(r)' => Opened(r)' = Opened(r)
  <2> SUFFICES ASSUME NEW r \in Request, request'[r] = "deleted", Opened(r), UnderWay(r)'
               PROVE  FALSE
    BY <1>2 DEF Opened
  <2>1. \A h \in Handler : pc[h] = "createCode" => req[h] # r
    BY DEF Opened, IInv, OriginInv
  <2>2. \A c \in Code : source[c] # r
    BY NonMembers DEF Opened, IInv, FreshInv, OriginInv
  <2>3. UNCHANGED <<source, pc, req, cod>>
    <3>1. UNCHANGED request => FALSE
      BY DEF Opened
    <3>2. ~(\E q \in Request : BeginAuthorization(q))
      BY DEF BeginAuthorization, Opened, IInv, TypeOK
    <3>3. Cleanup
      BY <3>1, <3>2
         DEF Next, Authorize, TokenEndpoint, Authenticate, GetRequest,
             ConsumeRequestLost, CreateCode, Redirect, Exchange, ConsumeCode,
             ConsumeCodeLost, Crash, Reject, Expire, SetStatus, vars, rows
    <3> QED BY <3>3 DEF Cleanup, local
  <2>4. \A h \in Handler : pc[h] = "issue" => cod[h] \in Code
    BY DEF IInv, IssueInv
  <2> QED BY <2>1, <2>2, <2>3, <2>4 DEF UnderWay
<1> QED BY <1>3, <1>4

LEMMA FlowStep ==
    ASSUME IInv, IInv', StageKnown, StageKnown', [Next]_vars
    PROVE  [Flow!Next]_(Flow!vars)
<1>1. CASE \E h \in Handler : ConsumeRequest(h) \/ IssueNewFamily(h)
  BY <1>1, ApproveStep, IssueGrants
<1>2. CASE ~(\E h \in Handler : ConsumeRequest(h) \/ IssueNewFamily(h))
  <2>1. /\ \A r \in Request : Granted(r)' = Granted(r)
        /\ \A r \in Request : UnderWay(r)' => Opened(r)' = Opened(r)
    BY <1>2, OtherStepsGrantNothing
  <2>2. \A r \in Request : UnderWay(r)' => UnderWay(r)
    BY UsedUpStep
  <2> QED BY <2>1, <2>2, LoseOrNothing
<1> QED BY <1>1, <1>2

LEMMA FlowInit == Init => Flow!Init
<1> SUFFICES ASSUME Init PROVE Flow!Init
  OBVIOUS
<1>1. \A r \in Request : FamiliesOf(r) = {}
  BY NonMembers DEF Init, FamiliesOf
<1>2. Issued = [r \in Request |-> 0]
  BY <1>1, FS_EmptySet DEF Issued
<1>3. Stage = [r \in Request |-> "open"]
  BY DEF Init, Stage
<1> QED BY <1>2, <1>3 DEF Flow!Init

\* Any number of logins and exchanges, with any handler dying at any step, do
\* to each request what the atomic grant does (consume_request, create_code,
\* consume_code and cleanup are separate transactions).
THEOREM CodesImplementGrant == Spec => ImplementsCodeGrant
<1>1. IInv /\ IInv' /\ StageKnown /\ StageKnown' /\ [Next]_vars => [Flow!Next]_(Flow!vars)
  BY FlowStep
<1> QED BY <1>1, FlowInit, StageIsKnown, Invariance, PTL DEF Spec, ImplementsCodeGrant, Flow!Spec

-----------------------------------------------------------------------------
(* The throttle.                                                            *)

Trying == {a \in Attempt : stage[a] = "try"}
Recording == {a \in Attempt : stage[a] = "recordFailure"}

\* Nothing has happened in the future yet.
NothingAhead == \A t \in Time : t > now => guesses[t] = 0

\* The bound that a request counts from is no later than a window ago, however
\* long ago it was taken.
CountsFarEnough == \A a \in Attempt : stage[a] = "count" => since[a] <= Back(Window)

\* As far back as cleanup leaves rows: a guess is recorded, or about to be, or
\* a store call failed.
GuessesKnown ==
    \A t \in Time : t >= Back(Retention) =>
        Total(guesses, t, MaxTime)
            <= Total(failed, t, MaxTime) + Cardinality(Recording) + errors

\* The bound holds even if each request that was let through guesses wrong
\* now, for each window that is not over.
RoomForTries ==
    \A t \in Time :
        Total(guesses, t, t + Window)
            + (IF now <= t + Window THEN Cardinality(Trying) ELSE 0)
          <= Limit + Cardinality(Attempt) - 1 + errors

ThrottleInv ==
    /\ ThrottleTypeOK /\ NothingAhead /\ CountsFarEnough
    /\ GuessesKnown /\ RoomForTries

-----------------------------------------------------------------------------
(* Sums over time.                                                          *)

\* A set of ticks that is not empty has a least.
LEMMA LeastIndex ==
    ASSUME NEW T \in SUBSET Nat, T # {}
    PROVE  \E i \in T : \A j \in T : i <= j
<1> DEFINE R == {ss \in Nat \X Nat : ss[1] < ss[2]}
<1>1. IsWellFoundedOn(R, Nat)
  BY NatLessThanWellFounded, Zenon DEF OpToRel
<1>2. PICK i \in T : \A j \in T : ~(<<j, i>> \in R)
  <2> HIDE DEF R
  <2> QED BY <1>1, WFMin
<1>3. \A j \in T : ~(j < i)
  BY <1>2
<1> QED BY <1>3

\* The sums exist up to any tick: each is the last one and the next number.
LEMMA SumsExist ==
    ASSUME NEW f \in [Time -> Nat], NEW n \in 0..(MaxTime + 1)
    PROVE  \E g \in [0..n -> Nat] : g[0] = 0 /\ \A t \in 1..n : g[t] = g[t - 1] + f[t - 1]
<1> DEFINE Sums(k) == \E g \in [0..k -> Nat] :
                          g[0] = 0 /\ \A t \in 1..k : g[t] = g[t - 1] + f[t - 1]
           T == {k \in 0..(MaxTime + 1) : ~Sums(k)}
<1>1. SUFFICES ASSUME T # {} PROVE FALSE
  BY <1>1
<1>2. PICK k \in T : \A j \in T : k <= j
  <2>1. T \in SUBSET Nat
    BY Limits
  <2> HIDE DEF T
  <2> QED BY <1>1, <2>1, LeastIndex
<1>3. k \in 0..(MaxTime + 1) /\ ~Sums(k)
  BY <1>2
<1>4. CASE k = 0
  <2>1. [t \in 0..0 |-> 0] \in [0..0 -> Nat] /\ [t \in 0..0 |-> 0][0] = 0
    OBVIOUS
  <2>2. \A t \in 1..0 : [u \in 0..0 |-> 0][t] = [u \in 0..0 |-> 0][t - 1] + f[t - 1]
    OBVIOUS
  <2> QED BY <1>3, <1>4, <2>1, <2>2
<1>5. CASE k # 0
  <2>1. k - 1 \in 0..(MaxTime + 1) /\ ~(k <= k - 1) /\ k - 1 \in Time
    BY <1>3, <1>5, Limits DEF Time
  <2>2. Sums(k - 1)
    BY <1>2, <2>1
  <2>3. PICK g \in [0..(k - 1) -> Nat] :
            g[0] = 0 /\ \A t \in 1..(k - 1) : g[t] = g[t - 1] + f[t - 1]
    BY <2>2
  <2> DEFINE h == [t \in 0..k |-> IF t = k THEN g[k - 1] + f[k - 1] ELSE g[t]]
  <2>4. h \in [0..k -> Nat] /\ h[0] = 0
    BY <1>3, <1>5, <2>1, <2>3, Limits
  <2>5. ASSUME NEW t \in 1..k PROVE h[t] = h[t - 1] + f[t - 1]
    <3>1. t - 1 \in 0..k /\ t \in 0..k /\ t - 1 # k
      BY <1>3, Limits
    <3>2. h[t - 1] = g[t - 1]
      BY <3>1
    <3>3. CASE t = k
      BY <3>1, <3>2, <3>3
    <3>4. CASE t # k
      <4>1. t \in 1..(k - 1) /\ h[t] = g[t]
        BY <1>3, <3>1, <3>4, Limits
      <4> QED BY <2>3, <3>2, <4>1
    <3> QED BY <3>3, <3>4
  <2> HIDE DEF h
  <2> QED BY <1>3, <2>4, <2>5
<1> QED BY <1>4, <1>5

\* Below is what its recursive definition says, and its sums are numbers.
LEMMA BelowIs ==
    ASSUME NEW f \in [Time -> Nat]
    PROVE  /\ Below(f) \in [0..(MaxTime + 1) -> Nat]
           /\ Below(f)[0] = 0
           /\ \A t \in 1..(MaxTime + 1) : Below(f)[t] = Below(f)[t - 1] + f[t - 1]
<1> DEFINE D == 0..(MaxTime + 1)
           Rec(h) == h = [t \in D |-> IF t = 0 THEN 0 ELSE h[t - 1] + f[t - 1]]
<1>1. MaxTime + 1 \in 0..(MaxTime + 1)
  BY Limits
<1>2. PICK g \in [D -> Nat] : /\ g[0] = 0
                              /\ \A t \in 1..(MaxTime + 1) : g[t] = g[t - 1] + f[t - 1]
  BY <1>1, SumsExist
<1>3. \E h : Rec(h)
  <2>1. \A t \in D : g[t] = IF t = 0 THEN 0 ELSE g[t - 1] + f[t - 1]
    BY <1>2, Limits
  <2>2. Rec(g)
    BY <1>2, <2>1
  <2> QED BY <2>2
<1>4. Below(f) = CHOOSE h : Rec(h)
  BY DEF Below
<1>5. Rec(Below(f))
  <2> HIDE DEF Rec
  <2> QED BY <1>3, <1>4
<1> DEFINE b == Below(f)
<1>6. /\ b = [t \in D |-> b[t]]
      /\ b[0] = 0 /\ \A t \in 1..(MaxTime + 1) : b[t] = b[t - 1] + f[t - 1]
  <2> HIDE DEF b
  <2>1. b = [t \in D |-> IF t = 0 THEN 0 ELSE b[t - 1] + f[t - 1]]
    BY <1>5 DEF b
  <2>2. 0 \in D /\ \A t \in 1..(MaxTime + 1) : t \in D /\ t # 0
    BY Limits
  <2>3. b = [t \in D |-> b[t]]
    BY <2>1
  <2> QED BY <2>1, <2>2, <2>3
<1> DEFINE T == {t \in D : b[t] # g[t]}
<1>7. T = {}
  <2>1. SUFFICES ASSUME T # {} PROVE FALSE
    BY <2>1
  <2>2. PICK t \in T : \A j \in T : t <= j
    <3>1. T \in SUBSET Nat
      BY Limits
    <3> HIDE DEF T
    <3> QED BY <2>1, <3>1, LeastIndex
  <2>3. t \in D /\ b[t] # g[t]
    BY <2>2
  <2>4. t # 0
    BY <1>2, <1>6, <2>3
  <2>5. t \in 1..(MaxTime + 1) /\ t - 1 \in D /\ ~(t <= t - 1)
    BY <2>3, <2>4, Limits
  <2>6. b[t - 1] = g[t - 1]
    BY <2>2, <2>5
  <2> QED BY <1>2, <1>6, <2>3, <2>5, <2>6
<1>8. \A t \in D : b[t] \in Nat
  BY <1>2, <1>7
<1> HIDE DEF b
<1>9. b \in [D -> Nat]
  BY <1>6, <1>8
<1> QED BY <1>6, <1>9 DEF b

\* Induction over an interval, on the set of the ticks for which a fact holds.
LEMMA TickInduction ==
    ASSUME NEW m \in Nat, NEW n \in Nat, NEW T \in SUBSET (m..n), m \in T,
           \A t \in T : t < n => t + 1 \in T
    PROVE  \A t \in m..n : t \in T
<1> DEFINE C == (m..n) \ T
<1>1. SUFFICES ASSUME C # {} PROVE FALSE
  BY <1>1
<1>2. PICK k \in C : \A j \in C : k <= j
  <2>1. C \in SUBSET Nat
    OBVIOUS
  <2> HIDE DEF C
  <2> QED BY <1>1, <2>1, LeastIndex
<1>3. k - 1 \in m..n /\ k - 1 < n /\ ~(k <= k - 1) /\ (k - 1) + 1 = k
  BY <1>2
<1>4. k - 1 \in T
  BY <1>2, <1>3
<1> QED BY <1>2, <1>3, <1>4

\* Sums do not fall.
LEMMA BelowGrows ==
    ASSUME NEW f \in [Time -> Nat], NEW s \in 0..(MaxTime + 1), NEW t \in s..(MaxTime + 1)
    PROVE  Below(f)[s] <= Below(f)[t]
<1> DEFINE b == Below(f)
           T == {u \in s..(MaxTime + 1) : b[s] <= b[u]}
<1>1. /\ b \in [0..(MaxTime + 1) -> Nat]
      /\ \A u \in 1..(MaxTime + 1) : b[u] = b[u - 1] + f[u - 1]
  BY BelowIs
<1> HIDE DEF b
<1>2. s \in Nat /\ MaxTime + 1 \in Nat /\ s \in T
  BY <1>1, Limits
<1>3. ASSUME NEW u \in T, u < MaxTime + 1 PROVE u + 1 \in T
  <2>1. u \in Time /\ u + 1 \in 1..(MaxTime + 1) /\ (u + 1) - 1 = u
    BY <1>3, Limits DEF Time
  <2>2. b[u + 1] = b[u] + f[u] /\ f[u] \in Nat /\ b[u] \in Nat /\ b[s] \in Nat
    BY <1>1, <2>1, Limits
  <2> QED BY <2>1, <2>2
<1>4. \A u \in s..(MaxTime + 1) : u \in T
  <2>1. T \in SUBSET (s..(MaxTime + 1))
    OBVIOUS
  <2> HIDE DEF T
  <2> QED BY <1>2, <1>3, <2>1, TickInduction
<1> QED BY <1>4 DEF b

\* Two numberings that agree on an interval have the same sum over it.
LEMMA BelowSame ==
    ASSUME NEW f \in [Time -> Nat], NEW g \in [Time -> Nat], NEW s \in 0..(MaxTime + 1),
           NEW e \in s..(MaxTime + 1), \A t \in Time : s <= t /\ t < e => f[t] = g[t]
    PROVE  Below(f)[e] - Below(f)[s] = Below(g)[e] - Below(g)[s]
<1> DEFINE b == Below(f)
           c == Below(g)
           T == {u \in s..e : b[u] - b[s] = c[u] - c[s]}
<1>1. /\ b \in [0..(MaxTime + 1) -> Nat] /\ c \in [0..(MaxTime + 1) -> Nat]
      /\ \A u \in 1..(MaxTime + 1) : b[u] = b[u - 1] + f[u - 1]
      /\ \A u \in 1..(MaxTime + 1) : c[u] = c[u - 1] + g[u - 1]
  BY BelowIs
<1> HIDE DEF b, c
<1>2. s \in Nat /\ e \in Nat /\ s \in T
  BY <1>1, Limits
<1>3. ASSUME NEW u \in T, u < e PROVE u + 1 \in T
  <2>1. /\ u \in Time /\ s <= u /\ u \in 0..(MaxTime + 1)
        /\ u + 1 \in 1..(MaxTime + 1) /\ (u + 1) - 1 = u /\ u + 1 \in s..e
    BY <1>3, Limits DEF Time
  <2>2. /\ b[u + 1] = b[u] + f[u] /\ c[u + 1] = c[u] + g[u]
        /\ b[u] \in Nat /\ b[s] \in Nat /\ c[u] \in Nat /\ c[s] \in Nat
    BY <1>1, <2>1, Limits
  <2>3. f[u] = g[u] /\ f[u] \in Nat
    BY <1>3, <2>1
  <2>4. b[u] - b[s] = c[u] - c[s]
    OBVIOUS
  <2>5. b[u + 1] - b[s] = c[u + 1] - c[s]
    BY <2>2, <2>3, <2>4
  <2> QED BY <2>1, <2>5
<1>4. \A u \in s..e : u \in T
  <2>1. T \in SUBSET (s..e)
    OBVIOUS
  <2> HIDE DEF T
  <2> QED BY <1>2, <1>3, <2>1, TickInduction
<1> QED BY <1>4 DEF b, c

\* One more at a tick is one more in every sum past it.
LEMMA BelowPlusOne ==
    ASSUME NEW f \in [Time -> Nat], NEW x \in Time, NEW t \in 0..(MaxTime + 1)
    PROVE  Below([f EXCEPT ![x] = @ + 1])[t] = Below(f)[t] + IF x < t THEN 1 ELSE 0
<1> DEFINE g == [f EXCEPT ![x] = @ + 1]
           b == Below(f)
           c == Below(g)
           More(u) == IF x < u THEN 1 ELSE 0
           T == {u \in 0..(MaxTime + 1) : c[u] = b[u] + More(u)}
<1>1. /\ g \in [Time -> Nat] /\ x \in Nat
      /\ \A u \in Time : g[u] = IF u = x THEN f[u] + 1 ELSE f[u]
  BY DEF Time
<1> HIDE DEF g
<1>2. /\ b \in [0..(MaxTime + 1) -> Nat] /\ c \in [0..(MaxTime + 1) -> Nat]
      /\ b[0] = 0 /\ c[0] = 0
      /\ \A u \in 1..(MaxTime + 1) : b[u] = b[u - 1] + f[u - 1]
      /\ \A u \in 1..(MaxTime + 1) : c[u] = c[u - 1] + g[u - 1]
  BY <1>1, BelowIs
<1> HIDE DEF b, c
<1>3. MaxTime + 1 \in Nat /\ 0 \in Nat /\ 0 \in T
  BY <1>1, <1>2, Limits
<1>4. ASSUME NEW u \in T, u < MaxTime + 1 PROVE u + 1 \in T
  <2>1. /\ u \in Time /\ u \in Nat /\ u \in 0..(MaxTime + 1) /\ u + 1 \in 0..(MaxTime + 1)
        /\ u + 1 \in 1..(MaxTime + 1) /\ (u + 1) - 1 = u
    BY <1>4, Limits DEF Time
  <2>2. /\ b[u + 1] = b[u] + f[u] /\ c[u + 1] = c[u] + g[u]
        /\ b[u] \in Nat /\ c[u] \in Nat /\ f[u] \in Nat
    BY <1>2, <2>1
  <2>3. g[u] = f[u] + IF u = x THEN 1 ELSE 0
    BY <1>1, <2>1, <2>2
  <2>4. c[u] = b[u] + More(u)
    OBVIOUS
  <2>5. c[u + 1] = b[u + 1] + More(u + 1)
    BY <1>1, <2>1, <2>2, <2>3, <2>4
  <2> QED BY <2>1, <2>5
<1>5. \A u \in 0..(MaxTime + 1) : u \in T
  <2>1. T \in SUBSET (0..(MaxTime + 1))
    OBVIOUS
  <2> HIDE DEF T
  <2> QED BY <1>3, <1>4, <2>1, TickInduction
<1> QED BY <1>5 DEF b, c, g

-----------------------------------------------------------------------------
(* Totals over an interval of time.                                         *)

\* The tick after an interval that begins at from.
After(to) == 1 + IF to < MaxTime THEN to ELSE MaxTime

LEMMA AfterIs ==
    ASSUME NEW from \in Time, NEW to \in Nat, from <= to
    PROVE  /\ After(to) \in from..(MaxTime + 1) /\ After(to) \in 0..(MaxTime + 1)
           /\ from \in 0..(MaxTime + 1) /\ from < After(to)
           /\ \A t \in Time : t < After(to) <=> t <= to
BY Limits DEF After, Time

LEMMA TotalIs ==
    ASSUME NEW f \in [Time -> Nat], NEW from \in Time, NEW to \in Nat, from <= to
    PROVE  /\ Total(f, from, to) \in Nat
           /\ Total(f, from, to) = Below(f)[After(to)] - Below(f)[from]
<1>1. /\ After(to) \in from..(MaxTime + 1) /\ After(to) \in 0..(MaxTime + 1)
      /\ from \in 0..(MaxTime + 1)
  BY AfterIs
<1>2. Below(f) \in [0..(MaxTime + 1) -> Nat] /\ Below(f)[from] <= Below(f)[After(to)]
  BY <1>1, BelowIs, BelowGrows
<1>3. Total(f, from, to) = Below(f)[After(to)] - Below(f)[from]
  BY DEF Total, After
<1>4. Below(f)[After(to)] \in Nat /\ Below(f)[from] \in Nat
  BY <1>1, <1>2
<1> QED BY <1>2, <1>3, <1>4

\* A longer interval has no smaller total.
LEMMA TotalGrows ==
    ASSUME NEW f \in [Time -> Nat], NEW s \in Time, NEW from \in Time, NEW to \in Nat,
           s <= from, from <= to, to <= MaxTime
    PROVE  Total(f, from, to) <= Total(f, s, MaxTime)
<1>1. MaxTime \in Nat /\ s \in Nat /\ from \in Nat /\ s <= to /\ s <= MaxTime
  BY Limits DEF Time
<1>2. /\ After(to) \in 0..(MaxTime + 1) /\ After(MaxTime) \in After(to)..(MaxTime + 1)
      /\ s \in 0..(MaxTime + 1) /\ from \in s..(MaxTime + 1) /\ from \in 0..(MaxTime + 1)
      /\ After(MaxTime) \in 0..(MaxTime + 1)
  BY <1>1, AfterIs DEF After
<1>3. Below(f)[s] <= Below(f)[from] /\ Below(f)[After(to)] <= Below(f)[After(MaxTime)]
  BY <1>2, BelowGrows
<1>4. /\ Total(f, from, to) = Below(f)[After(to)] - Below(f)[from]
      /\ Total(f, s, MaxTime) = Below(f)[After(MaxTime)] - Below(f)[s]
  BY <1>1, TotalIs
<1>5. Below(f)[s] \in Nat /\ Below(f)[from] \in Nat /\ Below(f)[After(to)] \in Nat
      /\ Below(f)[After(MaxTime)] \in Nat
  <2>1. Below(f) \in [0..(MaxTime + 1) -> Nat]
    BY BelowIs
  <2> QED BY <1>2, <2>1
<1> QED BY <1>3, <1>4, <1>5

\* An interval that reaches past the clock ends with it.
LEMMA TotalCut ==
    ASSUME NEW f, NEW from, NEW to \in Nat, MaxTime <= to
    PROVE  Total(f, from, to) = Total(f, from, MaxTime)
BY Limits DEF Total

\* What happened outside an interval does not matter to its total.
LEMMA TotalSame ==
    ASSUME NEW f \in [Time -> Nat], NEW g \in [Time -> Nat],
           NEW from \in Time, NEW to \in Nat, from <= to,
           \A t \in Time : from <= t /\ t <= to => f[t] = g[t]
    PROVE  Total(f, from, to) = Total(g, from, to)
<1>1. /\ from \in 0..(MaxTime + 1) /\ After(to) \in from..(MaxTime + 1)
      /\ \A t \in Time : t < After(to) <=> t <= to
  BY AfterIs
<1>2. \A t \in Time : from <= t /\ t < After(to) => f[t] = g[t]
  BY <1>1
<1>3. Below(f)[After(to)] - Below(f)[from] = Below(g)[After(to)] - Below(g)[from]
  BY <1>1, <1>2, BelowSame
<1> QED BY <1>3, TotalIs

\* One more at a tick is one more in the total of the intervals it is in.
LEMMA TotalPlusOne ==
    ASSUME NEW f \in [Time -> Nat], NEW x \in Time,
           NEW from \in Time, NEW to \in Nat, from <= to
    PROVE  Total([f EXCEPT ![x] = @ + 1], from, to)
             = Total(f, from, to) + IF from <= x /\ x <= to THEN 1 ELSE 0
<1> DEFINE g == [f EXCEPT ![x] = @ + 1]
<1>1. /\ from \in 0..(MaxTime + 1) /\ After(to) \in 0..(MaxTime + 1)
      /\ from < After(to) /\ (x < After(to) <=> x <= to)
      /\ x \in Nat /\ from \in Nat
  BY AfterIs DEF Time
<1>2. g \in [Time -> Nat]
  OBVIOUS
<1>3. /\ Below(g)[After(to)] = Below(f)[After(to)] + IF x < After(to) THEN 1 ELSE 0
      /\ Below(g)[from] = Below(f)[from] + IF x < from THEN 1 ELSE 0
  BY <1>1, BelowPlusOne
<1> HIDE DEF g
<1>4. /\ Total(g, from, to) = Below(g)[After(to)] - Below(g)[from]
      /\ Total(f, from, to) = Below(f)[After(to)] - Below(f)[from]
  BY <1>2, TotalIs
<1>5. Below(f)[from] \in Nat /\ Below(f)[After(to)] \in Nat
  BY <1>1, BelowIs
<1>6. Total(g, from, to) = Total(f, from, to) + IF from <= x /\ x <= to THEN 1 ELSE 0
  BY <1>1, <1>3, <1>4, <1>5
<1> QED BY <1>6 DEF g

\* Nothing happened, nothing in total.
LEMMA TotalZero ==
    ASSUME NEW f \in [Time -> Nat], NEW from \in Time, NEW to \in Nat, from <= to,
           \A t \in Time : from <= t /\ t <= to => f[t] = 0
    PROVE  Total(f, from, to) = 0
<1> DEFINE b == Below(f)
           e == After(to)
           T == {u \in from..e : b[u] = b[from]}
<1>1. /\ b \in [0..(MaxTime + 1) -> Nat]
      /\ \A u \in 1..(MaxTime + 1) : b[u] = b[u - 1] + f[u - 1]
  BY BelowIs
<1>2. /\ from \in 0..(MaxTime + 1) /\ e \in from..(MaxTime + 1) /\ from \in Nat /\ e \in Nat
      /\ \A t \in Time : t < e <=> t <= to
  <2>1. /\ from \in 0..(MaxTime + 1) /\ e \in from..(MaxTime + 1)
        /\ \A t \in Time : t < e <=> t <= to
    BY AfterIs
  <2> HIDE DEF e
  <2> QED BY <2>1
<1>3. Total(f, from, to) = b[e] - b[from]
  BY TotalIs
<1> HIDE DEF b, e
<1>4. from \in T
  BY <1>2
<1>5. ASSUME NEW u \in T, u < e PROVE u + 1 \in T
  <2>1. /\ u \in Time /\ from <= u /\ u \in 0..(MaxTime + 1)
        /\ u + 1 \in 1..(MaxTime + 1) /\ (u + 1) - 1 = u /\ u + 1 \in from..e
    BY <1>2, <1>5, Limits DEF Time
  <2>2. b[u + 1] = b[u] + f[u] /\ b[u] \in Nat
    BY <1>1, <2>1
  <2>3. f[u] = 0
    BY <1>2, <1>5, <2>1
  <2> QED BY <2>1, <2>2, <2>3
<1>6. \A u \in from..e : u \in T
  <2>1. T \in SUBSET (from..e)
    OBVIOUS
  <2> HIDE DEF T
  <2> QED BY <1>2, <1>4, <1>5, <2>1, TickInduction
<1>7. b[e] = b[from] /\ b[from] \in Nat
  BY <1>1, <1>2, <1>6
<1> QED BY <1>3, <1>7

-----------------------------------------------------------------------------
(* The requests under way.                                                  *)

LEMMA Counts ==
    ASSUME stage \in [Attempt -> {"idle", "count", "try", "recordFailure"}]
    PROVE  /\ Cardinality(Attempt) \in Nat
           /\ Cardinality(Trying) \in Nat /\ Cardinality(Recording) \in Nat
           /\ Cardinality(Trying) + Cardinality(Recording) <= Cardinality(Attempt)
<1>1. IsFiniteSet(Attempt)
  BY Limits
<1>2. Trying \in SUBSET Attempt /\ Recording \in SUBSET Attempt
      /\ Trying \cup Recording \in SUBSET Attempt /\ Trying \cap Recording = {}
  BY DEF Trying, Recording
<1>3. IsFiniteSet(Trying) /\ IsFiniteSet(Recording)
      /\ Cardinality(Trying \cup Recording) <= Cardinality(Attempt)
  BY <1>1, <1>2, FS_Subset
<1>4. Cardinality(Trying \cup Recording)
        = Cardinality(Trying) + Cardinality(Recording) - Cardinality(Trying \cap Recording)
  BY <1>3, FS_Union
<1>5. Cardinality(Trying \cap Recording) = 0
  BY <1>2, FS_EmptySet
<1>6. /\ Cardinality(Attempt) \in Nat /\ Cardinality(Trying) \in Nat
      /\ Cardinality(Recording) \in Nat
  BY <1>1, <1>3, FS_CardinalityType
<1> QED BY <1>3, <1>4, <1>5, <1>6

\* A request goes from one set to another, or in or out of them.
LEMMA OneMoves ==
    ASSUME NEW S, IsFiniteSet(S), NEW a, NEW T
    PROVE  /\ T = S \cup {a} /\ a \notin S => Cardinality(T) = Cardinality(S) + 1
           /\ T = S \ {a} /\ a \in S => Cardinality(T) = Cardinality(S) - 1
BY FS_AddElement, FS_RemoveElement

\* How many try and how many record, after a request moved on.
LEMMA CountsMove ==
    ASSUME stage \in [Attempt -> {"idle", "count", "try", "recordFailure"}],
           NEW a \in Attempt, NEW s \in {"idle", "count", "try", "recordFailure"},
           stage' = [stage EXCEPT ![a] = s], s # stage[a]
    PROVE  /\ Cardinality(Trying') = Cardinality(Trying)
                + (IF s = "try" THEN 1 ELSE 0) - (IF stage[a] = "try" THEN 1 ELSE 0)
           /\ Cardinality(Recording') = Cardinality(Recording)
                + (IF s = "recordFailure" THEN 1 ELSE 0)
                - (IF stage[a] = "recordFailure" THEN 1 ELSE 0)
<1>1. \A b \in Attempt : stage'[b] = IF b = a THEN s ELSE stage[b]
  OBVIOUS
<1>2. /\ IsFiniteSet(Trying) /\ IsFiniteSet(Recording)
      /\ Cardinality(Trying) \in Nat /\ Cardinality(Recording) \in Nat
  <2>1. IsFiniteSet(Attempt) /\ Trying \in SUBSET Attempt /\ Recording \in SUBSET Attempt
    BY Limits DEF Trying, Recording
  <2> QED BY <2>1, FS_Subset, Counts
<1>3. Cardinality(Trying') = Cardinality(Trying)
        + (IF s = "try" THEN 1 ELSE 0) - (IF stage[a] = "try" THEN 1 ELSE 0)
  <2>1. CASE s = "try"
    <3>1. Trying' = Trying \cup {a} /\ a \notin Trying
      BY <1>1, <2>1 DEF Trying
    <3>2. Cardinality(Trying') = Cardinality(Trying) + 1
      BY <1>2, <3>1, OneMoves
    <3> QED BY <1>2, <2>1, <3>2
  <2>2. CASE stage[a] = "try"
    <3>1. Trying' = Trying \ {a} /\ a \in Trying
      BY <1>1, <2>2 DEF Trying
    <3>2. Cardinality(Trying') = Cardinality(Trying) - 1
      BY <1>2, <3>1, OneMoves
    <3> QED BY <1>2, <2>2, <3>2
  <2>3. CASE s # "try" /\ stage[a] # "try"
    <3>1. Trying' = Trying
      BY <1>1, <2>3 DEF Trying
    <3> QED BY <1>2, <2>3, <3>1
  <2> QED BY <2>1, <2>2, <2>3
<1>4. Cardinality(Recording') = Cardinality(Recording)
        + (IF s = "recordFailure" THEN 1 ELSE 0) - (IF stage[a] = "recordFailure" THEN 1 ELSE 0)
  <2>1. CASE s = "recordFailure"
    <3>1. Recording' = Recording \cup {a} /\ a \notin Recording
      BY <1>1, <2>1 DEF Recording
    <3>2. Cardinality(Recording') = Cardinality(Recording) + 1
      BY <1>2, <3>1, OneMoves
    <3> QED BY <1>2, <2>1, <3>2
  <2>2. CASE stage[a] = "recordFailure"
    <3>1. Recording' = Recording \ {a} /\ a \in Recording
      BY <1>1, <2>2 DEF Recording
    <3>2. Cardinality(Recording') = Cardinality(Recording) - 1
      BY <1>2, <3>1, OneMoves
    <3> QED BY <1>2, <2>2, <3>2
  <2>3. CASE s # "recordFailure" /\ stage[a] # "recordFailure"
    <3>1. Recording' = Recording
      BY <1>1, <2>3 DEF Recording
    <3> QED BY <1>2, <2>3, <3>1
  <2> QED BY <2>1, <2>2, <2>3
<1> QED BY <1>3, <1>4

-----------------------------------------------------------------------------
(* The steps of the throttle.                                               *)

LEMMA ThrottleStarts == ThrottleInit => ThrottleInv
<1> SUFFICES ASSUME ThrottleInit PROVE ThrottleInv
  OBVIOUS
<1>1. ThrottleTypeOK
  BY Limits DEF ThrottleInit, ThrottleTypeOK, Time
<1>2. NothingAhead /\ CountsFarEnough
  BY DEF ThrottleInit, NothingAhead, CountsFarEnough
<1>3. /\ guesses \in [Time -> Nat] /\ failed \in [Time -> Nat]
      /\ \A t \in Time : guesses[t] = 0 /\ failed[t] = 0
      /\ now = 0 /\ errors = 0
  BY DEF ThrottleInit
<1>4. \A t \in Time : t \in Nat /\ t <= MaxTime /\ t + Window \in Nat /\ t <= t + Window
                      /\ MaxTime \in Nat
  BY Limits DEF Time
<1>5. /\ Cardinality(Attempt) \in Nat /\ Cardinality(Recording) \in Nat
      /\ Cardinality(Trying) = 0 /\ Limit \in Nat /\ Limit > 0
  <2>1. Trying = {}
    BY DEF ThrottleInit, Trying
  <2> QED BY <1>1, <2>1, Counts, FS_EmptySet, Limits DEF ThrottleTypeOK
<1>6. \A t \in Time : /\ Total(guesses, t, MaxTime) = 0 /\ Total(failed, t, MaxTime) = 0
                      /\ Total(guesses, t, t + Window) = 0
  BY <1>3, <1>4, TotalZero
<1>7. GuessesKnown
  BY <1>3, <1>5, <1>6 DEF GuessesKnown
<1>8. RoomForTries
  BY <1>3, <1>5, <1>6 DEF RoomForTries
<1> QED BY <1>1, <1>2, <1>7, <1>8 DEF ThrottleInv

\* The times and totals that the invariant speaks of are numbers.
LEMMA TotalsTyped ==
    ASSUME ThrottleTypeOK, NEW t \in Time
    PROVE  /\ t \in Nat /\ t <= MaxTime /\ MaxTime \in Nat /\ now \in Nat /\ now <= MaxTime
           /\ t + Window \in Nat /\ t <= t + Window
           /\ Total(guesses, t, MaxTime) \in Nat /\ Total(failed, t, MaxTime) \in Nat
           /\ Total(guesses, t, t + Window) \in Nat
           /\ errors \in Nat /\ Limit \in Nat
<1>1. /\ t \in Nat /\ t <= MaxTime /\ MaxTime \in Nat /\ now \in Nat /\ now <= MaxTime
      /\ t + Window \in Nat /\ t <= t + Window /\ errors \in Nat /\ Limit \in Nat
  BY Limits DEF ThrottleTypeOK, Time
<1>2. guesses \in [Time -> Nat] /\ failed \in [Time -> Nat]
  BY DEF ThrottleTypeOK
<1> QED BY <1>1, <1>2, TotalIs

\* A step of a request that neither guesses nor writes.
LEMMA QuietStep ==
    ASSUME ThrottleInv, ThrottleTypeOK', CountsFarEnough', UNCHANGED <<now, failed, guesses>>,
           errors <= errors',
           Cardinality(Recording) + errors <= Cardinality(Recording') + errors',
           Cardinality(Trying') + errors <= Cardinality(Trying) + errors'
    PROVE  ThrottleInv'
<1>1. /\ ThrottleTypeOK /\ GuessesKnown /\ RoomForTries /\ NothingAhead
  BY DEF ThrottleInv
<1>2. /\ Cardinality(Recording) \in Nat /\ Cardinality(Trying) \in Nat
      /\ Cardinality(Attempt) \in Nat
      /\ Cardinality(Recording') \in Nat /\ Cardinality(Trying') \in Nat
      /\ errors \in Nat /\ errors' \in Nat /\ Limit \in Nat
  <2>1. Cardinality(Recording') \in Nat /\ Cardinality(Trying') \in Nat
    <3>1. (stage \in [Attempt -> {"idle", "count", "try", "recordFailure"}])'
      BY DEF ThrottleTypeOK
    <3> QED BY <3>1, Limits, FS_Subset, FS_CardinalityType DEF Recording, Trying
  <2> QED BY <1>1, <2>1, Counts, Limits DEF ThrottleTypeOK
<1>3. NothingAhead'
  BY <1>1 DEF NothingAhead
<1>4. GuessesKnown'
  <2> SUFFICES ASSUME NEW t \in Time, t >= Back(Retention)
               PROVE  Total(guesses, t, MaxTime)
                        <= Total(failed, t, MaxTime) + Cardinality(Recording') + errors'
    BY DEF GuessesKnown, Back
  <2>1. Total(guesses, t, MaxTime)
          <= Total(failed, t, MaxTime) + Cardinality(Recording) + errors
    BY <1>1 DEF GuessesKnown
  <2> QED BY <1>1, <1>2, <2>1, TotalsTyped
<1>5. RoomForTries'
  <2> SUFFICES ASSUME NEW t \in Time
               PROVE  Total(guesses, t, t + Window)
                        + (IF now <= t + Window THEN Cardinality(Trying') ELSE 0)
                        <= Limit + Cardinality(Attempt) - 1 + errors'
    BY DEF RoomForTries
  <2>1. Total(guesses, t, t + Window)
          + (IF now <= t + Window THEN Cardinality(Trying) ELSE 0)
          <= Limit + Cardinality(Attempt) - 1 + errors
    BY <1>1 DEF RoomForTries
  <2>2. Total(guesses, t, t + Window) \in Nat
    BY <1>1, TotalsTyped
  <2> QED BY <1>2, <2>1, <2>2
<1> QED BY <1>1, <1>3, <1>4, <1>5 DEF ThrottleInv

Stages == {"idle", "count", "try", "recordFailure"}

\* What a move of a request to its next stage leaves typed.
LEMMA MoveTyped ==
    ASSUME ThrottleTypeOK, NEW a \in Attempt, NEW s \in Stages, Move(a, s), s # stage[a]
    PROVE  /\ stage' \in [Attempt -> Stages]
           /\ \A b \in Attempt : stage'[b] = IF b = a THEN s ELSE stage[b]
           /\ Cardinality(Trying') = Cardinality(Trying)
                + (IF s = "try" THEN 1 ELSE 0) - (IF stage[a] = "try" THEN 1 ELSE 0)
           /\ Cardinality(Recording') = Cardinality(Recording)
                + (IF s = "recordFailure" THEN 1 ELSE 0)
                - (IF stage[a] = "recordFailure" THEN 1 ELSE 0)
           /\ Cardinality(Trying) \in Nat /\ Cardinality(Recording) \in Nat
           /\ Cardinality(Attempt) \in Nat
           /\ Cardinality(Trying) + Cardinality(Recording) <= Cardinality(Attempt)
           /\ Cardinality(Trying') + Cardinality(Recording') <= Cardinality(Attempt)
<1>1. stage \in [Attempt -> Stages] /\ stage' = [stage EXCEPT ![a] = s]
  BY DEF ThrottleTypeOK, Stages, Move
<1>2. stage' \in [Attempt -> Stages]
      /\ \A b \in Attempt : stage'[b] = IF b = a THEN s ELSE stage[b]
  BY <1>1
<1>3. Cardinality(Trying') + Cardinality(Recording') <= Cardinality(Attempt)
  <2>1. IsFiniteSet(Attempt) /\ Trying' \in SUBSET Attempt /\ Recording' \in SUBSET Attempt
        /\ Trying' \cup Recording' \in SUBSET Attempt /\ Trying' \cap Recording' = {}
    BY Limits DEF Trying, Recording
  <2>2. IsFiniteSet(Trying') /\ IsFiniteSet(Recording')
        /\ Cardinality(Trying' \cup Recording') <= Cardinality(Attempt)
    BY <2>1, FS_Subset
  <2>3. Cardinality(Trying' \cup Recording')
          = Cardinality(Trying') + Cardinality(Recording') - Cardinality(Trying' \cap Recording')
    BY <2>2, FS_Union
  <2>4. Cardinality(Trying' \cap Recording') = 0
    BY <2>1, FS_EmptySet
  <2>5. Cardinality(Trying') \in Nat /\ Cardinality(Recording') \in Nat
    BY <2>2, FS_CardinalityType
  <2> QED BY <2>2, <2>3, <2>4, <2>5
<1>4. /\ Cardinality(Trying) \in Nat /\ Cardinality(Recording) \in Nat
      /\ Cardinality(Attempt) \in Nat
      /\ Cardinality(Trying) + Cardinality(Recording) <= Cardinality(Attempt)
  BY <1>1, Counts DEF Stages
<1>5. /\ Cardinality(Trying') = Cardinality(Trying)
           + (IF s = "try" THEN 1 ELSE 0) - (IF stage[a] = "try" THEN 1 ELSE 0)
      /\ Cardinality(Recording') = Cardinality(Recording)
           + (IF s = "recordFailure" THEN 1 ELSE 0)
           - (IF stage[a] = "recordFailure" THEN 1 ELSE 0)
  BY <1>1, CountsMove DEF Stages
<1> QED BY <1>2, <1>3, <1>4, <1>5

\* The time is taken, a request is refused or ends, or the store fails.
LEMMA PlainStep ==
    ASSUME ThrottleInv, NEW a \in Attempt,
           \/ Begin(a) \/ CountError(a) \/ TrySucceeds(a) \/ RecordError(a)
           \/ Count(a) /\ Move(a, "idle")
    PROVE  ThrottleInv'
<1>1. ThrottleTypeOK /\ CountsFarEnough /\ UNCHANGED <<now, failed, guesses>> /\ errors \in Nat
  BY DEF ThrottleInv, ThrottleTypeOK, Begin, CountError, TrySucceeds, RecordError, Count
<1>2. CASE Begin(a)
  <2>1. /\ stage[a] = "idle" /\ Move(a, "count") /\ errors' = errors
        /\ since' = [since EXCEPT ![a] = Back(Window)]
    BY <1>2 DEF Begin
  <2>2. "count" \in Stages /\ "count" # stage[a]
    BY <2>1 DEF Stages
  <2>3. Back(Window) \in Time /\ Back(Window)' = Back(Window)
    BY <1>1, Limits DEF Back, Time, ThrottleTypeOK
  <2>4. /\ stage' \in [Attempt -> Stages]
        /\ \A b \in Attempt : stage'[b] = IF b = a THEN "count" ELSE stage[b]
        /\ Cardinality(Trying') = Cardinality(Trying)
        /\ Cardinality(Recording') = Cardinality(Recording)
        /\ Cardinality(Trying) \in Nat /\ Cardinality(Recording) \in Nat
    BY <1>1, <2>1, <2>2, MoveTyped
  <2>5. ThrottleTypeOK'
    BY <1>1, <2>1, <2>3, <2>4 DEF ThrottleTypeOK, Stages
  <2>6. Back(Window) \in Nat
    BY <2>3 DEF Time
  <2>7. CountsFarEnough'
    <3>1. \A b \in Attempt : since'[b] = IF b = a THEN Back(Window) ELSE since[b]
      BY <1>1, <2>1 DEF ThrottleTypeOK
    <3> QED BY <1>1, <2>3, <2>4, <2>6, <3>1 DEF CountsFarEnough
  <2> QED BY <1>1, <2>1, <2>4, <2>5, <2>7, QuietStep
<1>3. CASE CountError(a) \/ RecordError(a)
  <2>1. /\ errors' = errors + 1 /\ errors < MaxErrors /\ since' = since
        /\ \/ stage[a] = "count" /\ Move(a, "try")
           \/ stage[a] = "recordFailure" /\ Move(a, "idle")
    BY <1>3 DEF CountError, RecordError
  <2>2. PICK s \in Stages : /\ Move(a, s) /\ s # stage[a] /\ s # "count"
                            /\ s # "recordFailure"
                            /\ stage[a] # "try"
    BY <2>1 DEF Stages
  <2>3. /\ stage' \in [Attempt -> Stages]
        /\ \A b \in Attempt : stage'[b] = IF b = a THEN s ELSE stage[b]
        /\ Cardinality(Trying') = Cardinality(Trying)
             + (IF s = "try" THEN 1 ELSE 0) - (IF stage[a] = "try" THEN 1 ELSE 0)
        /\ Cardinality(Recording') = Cardinality(Recording)
             + (IF s = "recordFailure" THEN 1 ELSE 0)
             - (IF stage[a] = "recordFailure" THEN 1 ELSE 0)
        /\ Cardinality(Trying) \in Nat /\ Cardinality(Recording) \in Nat
    BY <1>1, <2>2, MoveTyped
  <2>4. /\ Cardinality(Trying') <= Cardinality(Trying) + 1
        /\ Cardinality(Recording') >= Cardinality(Recording) - 1
    BY <2>2, <2>3
  <2>5. ThrottleTypeOK'
    BY <1>1, <2>1, <2>3, Limits DEF ThrottleTypeOK, Stages
  <2>6. CountsFarEnough'
    BY <1>1, <2>1, <2>2, <2>3 DEF CountsFarEnough, Back
  <2>7. /\ errors <= errors'
        /\ Cardinality(Trying') + errors <= Cardinality(Trying) + errors'
        /\ Cardinality(Recording) + errors <= Cardinality(Recording') + errors'
    <3>1. Cardinality(Trying') \in Int /\ Cardinality(Recording') \in Int
      BY <2>3
    <3> QED BY <1>1, <2>1, <2>3, <2>4, <3>1
  <2> QED BY <1>1, <2>5, <2>6, <2>7, QuietStep
<1>4. CASE TrySucceeds(a) \/ (Count(a) /\ Move(a, "idle"))
  <2>1. /\ UNCHANGED <<errors, since>> /\ stage[a] \in {"count", "try"} /\ Move(a, "idle")
    BY <1>4 DEF TrySucceeds, Count
  <2>2. "idle" \in Stages /\ "idle" # stage[a]
    BY <2>1 DEF Stages
  <2>3. /\ stage' \in [Attempt -> Stages]
        /\ \A b \in Attempt : stage'[b] = IF b = a THEN "idle" ELSE stage[b]
        /\ Cardinality(Trying') = Cardinality(Trying) - (IF stage[a] = "try" THEN 1 ELSE 0)
        /\ Cardinality(Recording') = Cardinality(Recording)
        /\ Cardinality(Trying) \in Nat /\ Cardinality(Recording) \in Nat
    <3>1. /\ Cardinality(Trying') = Cardinality(Trying)
               + 0 - (IF stage[a] = "try" THEN 1 ELSE 0)
          /\ Cardinality(Recording') = Cardinality(Recording) + 0 - 0
          /\ Cardinality(Trying) \in Nat /\ Cardinality(Recording) \in Nat
      BY <1>1, <2>1, <2>2, MoveTyped
    <3> QED BY <1>1, <2>1, <2>2, <3>1, MoveTyped
  <2>4. ThrottleTypeOK'
    BY <1>1, <2>1, <2>3 DEF ThrottleTypeOK, Stages
  <2>5. CountsFarEnough'
    BY <1>1, <2>1, <2>3 DEF CountsFarEnough, Back
  <2>6. Cardinality(Trying') <= Cardinality(Trying)
    BY <2>3
  <2>7. /\ errors <= errors'
        /\ Cardinality(Trying') + errors <= Cardinality(Trying) + errors'
        /\ Cardinality(Recording) + errors <= Cardinality(Recording') + errors'
    <3>1. Cardinality(Trying') \in Int
      BY <2>3
    <3> QED BY <1>1, <2>1, <2>3, <2>6, <3>1
  <2> QED BY <1>1, <2>4, <2>5, <2>7, QuietStep
<1> QED BY <1>2, <1>3, <1>4

\* A request is let through.  Its count reached back a window at least, so in
\* every window that is not over there was room; the guesses that it did not
\* see are being recorded, or their records failed.
LEMMA PassStep ==
    ASSUME ThrottleInv, NEW a \in Attempt, Count(a), Move(a, "try")
    PROVE  ThrottleInv'
<1>1. /\ ThrottleTypeOK /\ NothingAhead /\ CountsFarEnough /\ GuessesKnown /\ RoomForTries
  BY DEF ThrottleInv
<1>2. /\ stage[a] = "count" /\ UNCHANGED <<now, failed, since, guesses, errors>>
      /\ Total(failed, since[a], MaxTime) < Limit
  <2>1. Total(failed, since[a], MaxTime) \in Nat /\ Limit \in Nat
    <3>1. since[a] \in Time /\ failed \in [Time -> Nat]
      BY <1>1 DEF ThrottleTypeOK
    <3>2. MaxTime \in Nat /\ since[a] <= MaxTime /\ Limit \in Nat
      BY <3>1, Limits DEF Time
    <3> QED BY <3>1, <3>2, TotalIs
  <2>2. stage[a] = "count" /\ UNCHANGED <<now, failed, since, guesses, errors>>
        /\ Move(a, IF Total(failed, since[a], MaxTime) >= Limit THEN "idle" ELSE "try")
    BY DEF Count
  <2>3. ~(Total(failed, since[a], MaxTime) >= Limit)
    <3> SUFFICES ASSUME Total(failed, since[a], MaxTime) >= Limit PROVE FALSE
      OBVIOUS
    <3>1. stage' = [stage EXCEPT ![a] = "idle"] /\ stage' = [stage EXCEPT ![a] = "try"]
      BY <2>2 DEF Move
    <3> QED BY <1>1, <3>1 DEF ThrottleTypeOK
  <2> QED BY <2>1, <2>2, <2>3
<1>3. "try" \in Stages /\ "try" # stage[a]
  BY <1>2 DEF Stages
<1>4. /\ stage' \in [Attempt -> Stages]
      /\ \A b \in Attempt : stage'[b] = IF b = a THEN "try" ELSE stage[b]
      /\ Cardinality(Trying') = Cardinality(Trying) + 1
      /\ Cardinality(Recording') = Cardinality(Recording)
      /\ Cardinality(Trying) \in Nat /\ Cardinality(Recording) \in Nat
      /\ Cardinality(Attempt) \in Nat
      /\ Cardinality(Trying') + Cardinality(Recording') <= Cardinality(Attempt)
  <2>1. /\ Cardinality(Trying') = Cardinality(Trying) + 1 - 0
        /\ Cardinality(Recording') = Cardinality(Recording) + 0 - 0
        /\ Cardinality(Trying) \in Nat /\ Cardinality(Recording) \in Nat
    BY <1>1, <1>2, <1>3, MoveTyped
  <2> QED BY <1>1, <1>3, <2>1, MoveTyped
<1>5. ThrottleTypeOK'
  BY <1>1, <1>2, <1>4 DEF ThrottleTypeOK, Stages
<1>6. CountsFarEnough' /\ NothingAhead'
  BY <1>1, <1>2, <1>4 DEF CountsFarEnough, NothingAhead, Back
<1>7. GuessesKnown'
  BY <1>1, <1>2, <1>4 DEF GuessesKnown, Back
<1>8. RoomForTries'
  <2> SUFFICES ASSUME NEW t \in Time
               PROVE  Total(guesses, t, t + Window)
                        + (IF now <= t + Window THEN Cardinality(Trying') ELSE 0)
                        <= Limit + Cardinality(Attempt) - 1 + errors
    BY <1>2 DEF RoomForTries
  <2>0. /\ t \in Nat /\ t <= MaxTime /\ MaxTime \in Nat /\ now \in Nat /\ now <= MaxTime
        /\ t + Window \in Nat /\ t <= t + Window
        /\ Total(guesses, t, MaxTime) \in Nat /\ Total(failed, t, MaxTime) \in Nat
        /\ Total(guesses, t, t + Window) \in Nat
        /\ errors \in Nat /\ Limit \in Nat
    BY <1>1, TotalsTyped
  <2>1. CASE ~(now <= t + Window)
    <3>1. Total(guesses, t, t + Window) + 0 <= Limit + Cardinality(Attempt) - 1 + errors
      BY <1>1, <2>1 DEF RoomForTries
    <3> QED BY <2>1, <3>1
  <2>2. CASE now <= t + Window
    <3>1. since[a] \in Time /\ since[a] <= t /\ t >= Back(Retention)
      <4>1. since[a] \in Time /\ since[a] \in Nat /\ since[a] <= Back(Window)
        BY <1>1, <1>2 DEF CountsFarEnough, ThrottleTypeOK, Time
      <4>2. Back(Window) <= t /\ Back(Retention) <= t /\ Back(Window) \in Nat
            /\ Back(Retention) \in Nat
        BY <2>0, <2>2, Limits DEF Back
      <4> QED BY <2>0, <4>1, <4>2
    <3>2. Total(failed, t, MaxTime) <= Total(failed, since[a], MaxTime)
      <4>1. failed \in [Time -> Nat] /\ MaxTime <= MaxTime
        BY <1>1, <2>0 DEF ThrottleTypeOK
      <4> QED BY <2>0, <3>1, <4>1, TotalGrows
    <3>3. Total(guesses, t, MaxTime)
            <= Total(failed, t, MaxTime) + Cardinality(Recording) + errors
      BY <1>1, <3>1 DEF GuessesKnown
    <3>4. Total(guesses, t, t + Window) <= Total(guesses, t, MaxTime)
      <4>1. guesses \in [Time -> Nat] /\ t <= t
        BY <1>1, <2>0 DEF ThrottleTypeOK
      <4>2. CASE t + Window <= MaxTime
        BY <2>0, <4>1, <4>2, TotalGrows
      <4>3. CASE MaxTime <= t + Window
        BY <2>0, <4>3, TotalCut
      <4> QED BY <2>0, <4>2, <4>3
    <3>5. Total(failed, since[a], MaxTime) \in Nat
      <4>1. failed \in [Time -> Nat] /\ since[a] <= MaxTime
        BY <1>1, <2>0, <3>1 DEF ThrottleTypeOK, Time
      <4> QED BY <2>0, <3>1, <4>1, TotalIs
    <3> QED BY <1>2, <1>4, <2>0, <2>2, <3>2, <3>3, <3>4, <3>5
  <2> QED BY <2>1, <2>2
<1> QED BY <1>5, <1>6, <1>7, <1>8 DEF ThrottleInv

\* A try fails: the guess takes the place that was kept for the try, and will
\* be recorded.
LEMMA GuessStep ==
    ASSUME ThrottleInv, NEW a \in Attempt, TryFails(a)
    PROVE  ThrottleInv'
<1>1. /\ ThrottleTypeOK /\ NothingAhead /\ CountsFarEnough /\ GuessesKnown /\ RoomForTries
  BY DEF ThrottleInv
<1>2. /\ stage[a] = "try" /\ guesses' = [guesses EXCEPT ![now] = @ + 1]
      /\ Move(a, "recordFailure") /\ UNCHANGED <<now, failed, since, errors>>
  BY DEF TryFails
<1>3. /\ stage' \in [Attempt -> Stages]
      /\ \A b \in Attempt : stage'[b] = IF b = a THEN "recordFailure" ELSE stage[b]
      /\ Cardinality(Trying') = Cardinality(Trying) - 1
      /\ Cardinality(Recording') = Cardinality(Recording) + 1
      /\ Cardinality(Trying) \in Nat /\ Cardinality(Recording) \in Nat
      /\ Cardinality(Attempt) \in Nat
  <2>1. "recordFailure" \in Stages /\ "recordFailure" # stage[a]
    BY <1>2 DEF Stages
  <2>2. /\ Cardinality(Trying') = Cardinality(Trying) + 0 - 1
        /\ Cardinality(Recording') = Cardinality(Recording) + 1 - 0
        /\ Cardinality(Trying) \in Nat /\ Cardinality(Recording) \in Nat
    BY <1>1, <1>2, <2>1, MoveTyped
  <2> QED BY <1>1, <1>2, <2>1, <2>2, MoveTyped
<1>4. guesses \in [Time -> Nat] /\ failed \in [Time -> Nat] /\ now \in Time /\ now \in Nat
  BY <1>1 DEF ThrottleTypeOK, Time
<1>5. ThrottleTypeOK'
  BY <1>1, <1>2, <1>3, <1>4 DEF ThrottleTypeOK, Stages
<1>6. CountsFarEnough' /\ NothingAhead'
  <2>1. \A t \in Time : t > now => guesses'[t] = guesses[t]
    BY <1>2, <1>4 DEF Time
  <2> QED BY <1>1, <1>2, <1>3, <2>1 DEF CountsFarEnough, NothingAhead, Back
<1>7. GuessesKnown'
  <2> SUFFICES ASSUME NEW t \in Time, t >= Back(Retention)
               PROVE  Total(guesses', t, MaxTime)
                        <= Total(failed, t, MaxTime) + Cardinality(Recording') + errors
    BY <1>2 DEF GuessesKnown, Back
  <2>1. /\ t \in Nat /\ t <= MaxTime /\ MaxTime \in Nat
        /\ Total(guesses, t, MaxTime) \in Nat /\ Total(failed, t, MaxTime) \in Nat
        /\ errors \in Nat
    BY <1>1, TotalsTyped
  <2>2. Total(guesses', t, MaxTime)
          = Total(guesses, t, MaxTime) + IF t <= now /\ now <= MaxTime THEN 1 ELSE 0
    BY <1>2, <1>4, <2>1, TotalPlusOne
  <2>3. Total(guesses, t, MaxTime)
          <= Total(failed, t, MaxTime) + Cardinality(Recording) + errors
    BY <1>1 DEF GuessesKnown
  <2> QED BY <1>3, <2>1, <2>2, <2>3
<1>8. RoomForTries'
  <2> SUFFICES ASSUME NEW t \in Time
               PROVE  Total(guesses', t, t + Window)
                        + (IF now <= t + Window THEN Cardinality(Trying') ELSE 0)
                        <= Limit + Cardinality(Attempt) - 1 + errors
    BY <1>2 DEF RoomForTries
  <2>1. /\ t \in Nat /\ t + Window \in Nat /\ t <= t + Window
        /\ Total(guesses, t, t + Window) \in Nat /\ errors \in Nat /\ Limit \in Nat
    BY <1>1, TotalsTyped
  <2>2. Total(guesses', t, t + Window)
          = Total(guesses, t, t + Window) + IF t <= now /\ now <= t + Window THEN 1 ELSE 0
    <3>1. \A e \in Nat : t <= e =>
             Total([guesses EXCEPT ![now] = @ + 1], t, e)
               = Total(guesses, t, e) + IF t <= now /\ now <= e THEN 1 ELSE 0
      BY <1>4, TotalPlusOne
    <3> QED BY <1>2, <2>1, <3>1
  <2>3. Total(guesses, t, t + Window)
          + (IF now <= t + Window THEN Cardinality(Trying) ELSE 0)
          <= Limit + Cardinality(Attempt) - 1 + errors
    BY <1>1 DEF RoomForTries
  <2>4. CASE now <= t + Window
    BY <1>3, <1>4, <2>1, <2>2, <2>3, <2>4
  <2>5. CASE ~(now <= t + Window)
    BY <1>3, <1>4, <2>1, <2>2, <2>3, <2>5
  <2> QED BY <2>4, <2>5
<1> QED BY <1>5, <1>6, <1>7, <1>8 DEF ThrottleInv

\* The failure is recorded.
LEMMA RecordStep ==
    ASSUME ThrottleInv, NEW a \in Attempt, RecordFailure(a)
    PROVE  ThrottleInv'
<1>1. /\ ThrottleTypeOK /\ NothingAhead /\ CountsFarEnough /\ GuessesKnown /\ RoomForTries
  BY DEF ThrottleInv
<1>2. /\ stage[a] = "recordFailure" /\ failed' = [failed EXCEPT ![now] = @ + 1]
      /\ Move(a, "idle") /\ UNCHANGED <<now, guesses, since, errors>>
  BY DEF RecordFailure
<1>3. /\ stage' \in [Attempt -> Stages]
      /\ \A b \in Attempt : stage'[b] = IF b = a THEN "idle" ELSE stage[b]
      /\ Cardinality(Trying') = Cardinality(Trying)
      /\ Cardinality(Recording') = Cardinality(Recording) - 1
      /\ Cardinality(Trying) \in Nat /\ Cardinality(Recording) \in Nat
      /\ Cardinality(Recording') >= 0
  <2>1. "idle" \in Stages /\ "idle" # stage[a]
    BY <1>2 DEF Stages
  <2>2. /\ Cardinality(Trying') = Cardinality(Trying) + 0 - 0
        /\ Cardinality(Recording') = Cardinality(Recording) + 0 - 1
        /\ Cardinality(Trying) \in Nat /\ Cardinality(Recording) \in Nat
    BY <1>1, <1>2, <2>1, MoveTyped
  <2>3. Cardinality(Recording') \in Nat
    <3>1. Recording' \in SUBSET Attempt /\ IsFiniteSet(Attempt)
      BY Limits DEF Recording
    <3> QED BY <3>1, FS_Subset, FS_CardinalityType
  <2> QED BY <1>1, <1>2, <2>1, <2>2, <2>3, MoveTyped
<1>4. guesses \in [Time -> Nat] /\ failed \in [Time -> Nat] /\ now \in Time /\ now \in Nat
  BY <1>1 DEF ThrottleTypeOK, Time
<1>5. ThrottleTypeOK'
  BY <1>1, <1>2, <1>3, <1>4 DEF ThrottleTypeOK, Stages
<1>6. CountsFarEnough' /\ NothingAhead'
  BY <1>1, <1>2, <1>3 DEF CountsFarEnough, NothingAhead, Back
<1>7. GuessesKnown'
  <2> SUFFICES ASSUME NEW t \in Time, t >= Back(Retention)
               PROVE  Total(guesses, t, MaxTime)
                        <= Total(failed', t, MaxTime) + Cardinality(Recording') + errors
    BY <1>2 DEF GuessesKnown, Back
  <2>1. /\ t \in Nat /\ t <= MaxTime /\ MaxTime \in Nat /\ now <= MaxTime
        /\ Total(guesses, t, MaxTime) \in Nat /\ Total(failed, t, MaxTime) \in Nat
        /\ errors \in Nat
    BY <1>1, TotalsTyped
  <2>2. Total(failed', t, MaxTime)
          = Total(failed, t, MaxTime) + IF t <= now /\ now <= MaxTime THEN 1 ELSE 0
    BY <1>2, <1>4, <2>1, TotalPlusOne
  <2>3. Total(guesses, t, MaxTime)
          <= Total(failed, t, MaxTime) + Cardinality(Recording) + errors
    BY <1>1 DEF GuessesKnown
  <2>4. CASE t <= now
    BY <1>3, <1>4, <2>1, <2>2, <2>3, <2>4
  <2>5. CASE ~(t <= now)
    <3>1. \A u \in Time : t <= u /\ u <= MaxTime => guesses[u] = 0
      BY <1>1, <1>4, <2>1, <2>5 DEF NothingAhead, Time
    <3>2. Total(guesses, t, MaxTime) = 0
      BY <1>4, <2>1, <3>1, TotalZero
    <3> QED BY <1>3, <2>1, <2>2, <2>5, <3>2
  <2> QED BY <2>4, <2>5
<1>8. RoomForTries'
  BY <1>1, <1>2, <1>3 DEF RoomForTries
<1> QED BY <1>5, <1>6, <1>7, <1>8 DEF ThrottleInv

\* Time passes; bounds that were taken stay behind it.
LEMMA ThrottleTick ==
    ASSUME ThrottleInv, Tick
    PROVE  ThrottleInv'
<1>1. /\ ThrottleTypeOK /\ NothingAhead /\ CountsFarEnough /\ GuessesKnown /\ RoomForTries
  BY DEF ThrottleInv
<1>2. /\ now' = now + 1 /\ now < MaxTime /\ now \in Nat /\ MaxTime \in Nat
      /\ Window \in Nat /\ Retention \in Nat
      /\ UNCHANGED <<failed, stage, since, guesses, errors>>
  BY <1>1, Limits DEF Tick, ThrottleTypeOK, Time
<1>3. Trying' = Trying /\ Recording' = Recording
  BY <1>2 DEF Trying, Recording
<1>4. /\ Back(Window) <= Back(Window)' /\ Back(Window) \in Nat /\ Back(Window)' \in Nat
      /\ Back(Retention) <= Back(Retention)' /\ Back(Retention) \in Nat
      /\ Back(Retention)' \in Nat
  BY <1>2 DEF Back
<1>5. ThrottleTypeOK'
  BY <1>1, <1>2 DEF ThrottleTypeOK, Time
<1>6. CountsFarEnough'
  <2> SUFFICES ASSUME NEW a \in Attempt, stage[a] = "count" PROVE since[a] <= Back(Window)'
    BY <1>2 DEF CountsFarEnough
  <2>1. since[a] <= Back(Window) /\ since[a] \in Nat
    BY <1>1 DEF CountsFarEnough, ThrottleTypeOK, Time
  <2> QED BY <1>4, <2>1
<1>7. NothingAhead'
  BY <1>1, <1>2 DEF NothingAhead, Time
<1>8. GuessesKnown'
  <2> SUFFICES ASSUME NEW t \in Time, t >= Back(Retention)'
               PROVE  Total(guesses, t, MaxTime)
                        <= Total(failed, t, MaxTime) + Cardinality(Recording) + errors
    BY <1>2, <1>3 DEF GuessesKnown
  <2>1. t >= Back(Retention)
    BY <1>4 DEF Time
  <2> QED BY <1>1, <2>1 DEF GuessesKnown
<1>9. RoomForTries'
  <2> SUFFICES ASSUME NEW t \in Time
               PROVE  Total(guesses, t, t + Window)
                        + (IF now + 1 <= t + Window THEN Cardinality(Trying) ELSE 0)
                        <= Limit + Cardinality(Attempt) - 1 + errors
    BY <1>2, <1>3 DEF RoomForTries
  <2>1. Total(guesses, t, t + Window)
          + (IF now <= t + Window THEN Cardinality(Trying) ELSE 0)
          <= Limit + Cardinality(Attempt) - 1 + errors
    BY <1>1 DEF RoomForTries
  <2>2. /\ Total(guesses, t, t + Window) \in Nat /\ errors \in Nat /\ Limit \in Nat
        /\ t + Window \in Nat
    BY <1>1, TotalsTyped
  <2>3. Cardinality(Trying) \in Nat /\ Cardinality(Attempt) \in Nat
    BY <1>1, Counts DEF ThrottleTypeOK
  <2> QED BY <1>2, <2>1, <2>2, <2>3
<1> QED BY <1>5, <1>6, <1>7, <1>8, <1>9 DEF ThrottleInv

\* Cleanup takes rows that no count reaches any more.
LEMMA DeleteStep ==
    ASSUME ThrottleInv, DeleteAttempts
    PROVE  ThrottleInv'
<1>1. /\ ThrottleTypeOK /\ NothingAhead /\ CountsFarEnough /\ GuessesKnown /\ RoomForTries
  BY DEF ThrottleInv
<1>2. /\ failed' = [t \in Time |-> IF t < Back(Retention) THEN 0 ELSE failed[t]]
      /\ UNCHANGED <<now, stage, since, guesses, errors>>
  BY DEF DeleteAttempts
<1>3. Trying' = Trying /\ Recording' = Recording
  BY <1>2 DEF Trying, Recording
<1>4. failed \in [Time -> Nat] /\ failed' \in [Time -> Nat] /\ Back(Retention) \in Nat
  BY <1>1, <1>2, Limits DEF ThrottleTypeOK, Back, Time
<1>5. ThrottleTypeOK' /\ NothingAhead' /\ CountsFarEnough'
  BY <1>1, <1>2, <1>4 DEF ThrottleTypeOK, NothingAhead, CountsFarEnough, Back
<1>6. GuessesKnown'
  <2> SUFFICES ASSUME NEW t \in Time, t >= Back(Retention)
               PROVE  Total(guesses, t, MaxTime)
                        <= Total(failed', t, MaxTime) + Cardinality(Recording) + errors
    BY <1>2, <1>3 DEF GuessesKnown, Back
  <2>1. t <= MaxTime /\ MaxTime \in Nat
    BY Limits DEF Time
  <2>2. \A u \in Time : t <= u /\ u <= MaxTime => failed'[u] = failed[u]
    BY <1>2, <1>4 DEF Time
  <2>3. Total(failed', t, MaxTime) = Total(failed, t, MaxTime)
    BY <1>4, <2>1, <2>2, TotalSame
  <2> QED BY <1>1, <2>3 DEF GuessesKnown
<1>7. RoomForTries'
  BY <1>1, <1>2, <1>3 DEF RoomForTries
<1> QED BY <1>5, <1>6, <1>7 DEF ThrottleInv

LEMMA ThrottleStep == ThrottleInv /\ [ThrottleNext]_throttleVars => ThrottleInv'
<1> SUFFICES ASSUME ThrottleInv, [ThrottleNext]_throttleVars PROVE ThrottleInv'
  OBVIOUS
<1>1. ASSUME NEW a \in Attempt, Count(a) PROVE ThrottleInv'
  <2>1. Move(a, "idle") \/ Move(a, "try")
    BY <1>1 DEF Count, Move
  <2> QED BY <1>1, <2>1, PlainStep, PassStep
<1>2. CASE UNCHANGED throttleVars
  BY <1>2 DEF throttleVars, ThrottleInv, ThrottleTypeOK, NothingAhead, CountsFarEnough,
              GuessesKnown, RoomForTries, Trying, Recording, Back
<1>3. ASSUME NEW a \in Attempt,
             Begin(a) \/ CountError(a) \/ TrySucceeds(a) \/ RecordError(a)
      PROVE  ThrottleInv'
  BY <1>3, PlainStep
<1> QED BY <1>1, <1>2, <1>3, GuessStep, RecordStep, ThrottleTick, DeleteStep DEF ThrottleNext

LEMMA ThrottleInvariance == ThrottleSpec => []ThrottleInv
BY ThrottleStarts, ThrottleStep, PTL DEF ThrottleSpec

\* The throttle keeps its types; its bounds in time are never before its start.
THEOREM ThrottleTypeCorrect == ThrottleSpec => []ThrottleTypeOK
<1>1. ThrottleInv => ThrottleTypeOK
  BY DEF ThrottleInv
<1> QED BY <1>1, ThrottleInvariance, PTL

\* However many requests of an address overlap, whichever limit, window and
\* retention: no window sees more wrong guesses than the limit, the other
\* requests and the failures of the store account for.
THEOREM GuessesAreBounded == ThrottleSpec => []GuessesPerWindow
<1>1. ThrottleInv => GuessesPerWindow
  <2> SUFFICES ASSUME ThrottleInv, NEW t \in Time
               PROVE  Total(guesses, t, t + Window)
                        <= Limit + Cardinality(Attempt) - 1 + errors
    BY DEF GuessesPerWindow
  <2>1. ThrottleTypeOK /\ RoomForTries
    BY DEF ThrottleInv
  <2>2. /\ Total(guesses, t, t + Window) \in Nat /\ errors \in Nat /\ Limit \in Nat
    BY <2>1, TotalsTyped
  <2>3. Cardinality(Trying) \in Nat /\ Cardinality(Attempt) \in Nat
    BY <2>1, Counts DEF ThrottleTypeOK
  <2>4. Total(guesses, t, t + Window)
          + (IF now <= t + Window THEN Cardinality(Trying) ELSE 0)
          <= Limit + Cardinality(Attempt) - 1 + errors
    BY <2>1 DEF RoomForTries
  <2> QED BY <2>2, <2>3, <2>4
<1> QED BY <1>1, ThrottleInvariance, PTL
===============================================================================
