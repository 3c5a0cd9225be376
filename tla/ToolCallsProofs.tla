----------------------------- MODULE ToolCallsProofs -----------------------------
(***************************************************************************)
(* Proofs about ToolCalls, for any finite set of calls, any tokens, sizes  *)
(* of the pools and limits of the body: types, the connections, the        *)
(* authorization of the tools, the audit log and the body that arrives.    *)
(***************************************************************************)
EXTENDS ToolCalls, FiniteSetTheorems, SequenceTheorems, WellFoundedInduction, TLAPS

-----------------------------------------------------------------------------
(* The inductive invariant.                                                 *)

Tooling == {"read", "audit", "auditTx"} \cup Operating

\* What the history of a call knows before and after the verifier has looked.
Verified ==
    \A c \in Call :
        /\ pc[c] # "new" => /\ tok[c] \in Token /\ token[tok[c]] # "none"
                            /\ token[tok[c]] = "live" => c \in tokenGood
                            /\ active => c \in ownerGood
        /\ pc[c] \in {"principal", "principalTx"} \cup Tooling => c \in tokenGood
        /\ pc[c] \in Tooling => c \in ownerGood
        /\ c \in ownerGood => pc[c] # "new"

\* Nothing is written down, or told to the client, before the call ends.
Unaudited ==
    \A c \in Call :
        /\ pc[c] # "done" => answer[c] = "none" /\ row[c] = "none" /\ c \notin unsure
        /\ pc[c] \in {"audit", "auditTx"} => outcome[c] # "none"

\* What is held is what was sent, measured; what was replayed is a first part of
\* it; and only its last message ends it.
BodyOf(c) ==
    /\ messages[c] = sent[c]
    /\ size[c] = Size(messages[c]) /\ size[c] <= MaxBytes
    /\ index[c] = Len(seen[c]) /\ index[c] <= Len(messages[c])
    /\ \A i \in 1..index[c] : seen[c][i] = messages[c][i]
    /\ \A i \in 1..Len(messages[c]) :
          i < Len(messages[c]) \/ pc[c] = "body" => messages[c][i].more
    /\ pc[c] \notin {"new", "body"} /\ messages[c] # <<>> =>
          ~messages[c][Len(messages[c])].more
    /\ pc[c] = "new" => messages[c] = <<>>
    /\ pc[c] \in {"new", "body"} => index[c] = 0

BodyInv == \A c \in Call : BodyOf(c)

IInv == TypeOK /\ ConnectionsReturned /\ Verified /\ Unaudited /\ AuditAgrees /\ BodyInv

-----------------------------------------------------------------------------
(* The body.                                                                *)

LEMMA BodySteps ==
    ASSUME BodyTypeOK, NEW c \in Call
    PROVE  /\ Forget(c) => BodyTypeOK'
           /\ Replay(c) => BodyTypeOK'
           /\ \A m \in Message : Send(c, m) /\ Keep(c, m) => BodyTypeOK'
<1>0. <<>> \in Seq(Message)
  BY EmptySeq
<1>1. ASSUME Forget(c) PROVE BodyTypeOK'
  BY <1>0, <1>1 DEF Forget, BodyTypeOK
<1>2. ASSUME Replay(c) PROVE BodyTypeOK'
  <2>1. /\ messages[c] \in Seq(Message) /\ seen[c] \in Seq(Message)
        /\ index[c] + 1 \in 1..Len(messages[c])
    BY <1>2, LenProperties DEF Replay, BodyTypeOK
  <2>2. Append(seen[c], messages[c][index[c] + 1]) \in Seq(Message)
    BY <2>1, ElementOfSeq, AppendProperties
  <2> QED BY <1>2, <2>2 DEF Replay, BodyTypeOK
<1>3. ASSUME NEW m \in Message, Send(c, m), Keep(c, m) PROVE BodyTypeOK'
  <2>1. Append(sent[c], m) \in Seq(Message) /\ Append(messages[c], m) \in Seq(Message)
    BY AppendProperties DEF BodyTypeOK
  <2>2. size[c] + m.bytes \in Nat
    <3>1. m.bytes \in Nat
      BY BodyBounds DEF Message
    <3> QED BY <3>1 DEF BodyTypeOK
  <2> QED BY <1>3, <2>1, <2>2 DEF Send, Keep, BodyTypeOK
<1> QED BY <1>1, <1>2, <1>3

-----------------------------------------------------------------------------
(* Calls and their connections.                                             *)

LEMMA Within ==
    ASSUME NEW k \in Nat, NEW n \in Nat, NEW max \in Nat, k + n = max
    PROVE  k \in 0..max
OBVIOUS

\* How many calls are at one of the steps in X after call c went to step s.
LEMMA HoldersMove ==
    ASSUME NEW X, NEW c \in Call, NEW s, pc \in [Call -> PCs],
           pc' = [pc EXCEPT ![c] = s]
    PROVE  LET n == Cardinality({d \in Call : pc[d] \in X})
               m == Cardinality({d \in Call : pc'[d] \in X})
           IN  /\ n \in Nat /\ m \in Nat
               /\ m = n + (IF s \in X THEN 1 ELSE 0) - (IF pc[c] \in X THEN 1 ELSE 0)
<1> DEFINE H == {d \in Call : pc[d] \in X}
           K == {d \in Call : pc'[d] \in X}
<1>1. IsFiniteSet(H) /\ IsFiniteSet(K)
  BY Pools, FS_Subset
<1>2. Cardinality(H) \in Nat /\ Cardinality(K) \in Nat
  BY <1>1, FS_CardinalityType
<1>3. CASE s \in X
  <2>1. K = H \cup {c}
    BY <1>3
  <2>2. c \in H <=> pc[c] \in X
    OBVIOUS
  <2> HIDE DEF H, K
  <2>3. Cardinality(K) = IF c \in H THEN Cardinality(H) ELSE Cardinality(H) + 1
    BY <1>1, <2>1, FS_AddElement
  <2>4. Cardinality(K) = Cardinality(H) + (IF s \in X THEN 1 ELSE 0)
                                        - (IF pc[c] \in X THEN 1 ELSE 0)
    BY <1>2, <1>3, <2>2, <2>3
  <2> QED BY <1>2, <2>4 DEF H, K
<1>4. CASE s \notin X
  <2>1. K = H \ {c}
    BY <1>4
  <2>2. c \in H <=> pc[c] \in X
    OBVIOUS
  <2> HIDE DEF H, K
  <2>3. Cardinality(K) = IF c \in H THEN Cardinality(H) - 1 ELSE Cardinality(H)
    BY <1>1, <2>1, FS_RemoveElement
  <2>4. Cardinality(K) = Cardinality(H) + (IF s \in X THEN 1 ELSE 0)
                                        - (IF pc[c] \in X THEN 1 ELSE 0)
    BY <1>2, <1>4, <2>2, <2>3
  <2> QED BY <1>2, <2>4 DEF H, K
<1> QED BY <1>3, <1>4

\* A call at step pc[c] that goes to step s gives back what it has and takes
\* what it then has.
Accounts(c, s) ==
    /\ control' = control + (IF pc[c] \in OnControl THEN 1 ELSE 0)
                          - (IF s \in OnControl THEN 1 ELSE 0)
    /\ source' = source + (IF pc[c] \in OnSource THEN 1 ELSE 0)
                        - (IF s \in OnSource THEN 1 ELSE 0)
    /\ s \in OnControl => control > 0
    /\ s \in OnSource => source > 0

LEMMA AccountsBalance ==
    ASSUME TypeOK, ConnectionsReturned, NEW c \in Call, NEW s \in PCs,
           Accounts(c, s), Goto(c, s)
    PROVE  ConnectionsReturned' /\ control' \in 0..ControlMax /\ source' \in 0..SourceMax
<1> DEFINE nC == Cardinality({d \in Call : pc[d] \in OnControl})
           mC == Cardinality({d \in Call : pc'[d] \in OnControl})
           nS == Cardinality({d \in Call : pc[d] \in OnSource})
           mS == Cardinality({d \in Call : pc'[d] \in OnSource})
<1>0. pc \in [Call -> PCs] /\ pc' = [pc EXCEPT ![c] = s]
  BY DEF TypeOK, Goto
<1>1. /\ nC \in Nat /\ mC \in Nat
      /\ mC = nC + (IF s \in OnControl THEN 1 ELSE 0) - (IF pc[c] \in OnControl THEN 1 ELSE 0)
  BY <1>0, HoldersMove
<1>2. /\ nS \in Nat /\ mS \in Nat
      /\ mS = nS + (IF s \in OnSource THEN 1 ELSE 0) - (IF pc[c] \in OnSource THEN 1 ELSE 0)
  BY <1>0, HoldersMove
<1>3. control + nC = ControlMax /\ source + nS = SourceMax
  BY DEF ConnectionsReturned
<1>4. control' + mC = ControlMax /\ source' + mS = SourceMax => ConnectionsReturned'
  BY DEF ConnectionsReturned
<1> HIDE DEF nC, mC, nS, mS
<1>5. control \in Nat /\ source \in Nat /\ ControlMax \in Nat /\ SourceMax \in Nat
  <2>1. ControlMax \in Nat /\ SourceMax \in Nat
    BY Pools
  <2>2. control \in 0..ControlMax /\ source \in 0..SourceMax
    BY DEF TypeOK
  <2> QED BY <2>1, <2>2
<1>6. /\ control' + mC = ControlMax /\ source' + mS = SourceMax
      /\ control' \in Nat /\ source' \in Nat
  BY <1>1, <1>2, <1>3, <1>5 DEF Accounts
<1>7. control' \in 0..ControlMax /\ source' \in 0..SourceMax
  BY <1>1, <1>2, <1>5, <1>6, Within
<1> QED BY <1>4, <1>6, <1>7

-----------------------------------------------------------------------------
(* Types and connections, over every step.                                  *)

\* One call goes from step to step, or none does.
LEMMA Moves ==
    ASSUME TypeOK, Next
    PROVE  \/ \E c \in Call, s \in PCs : Goto(c, s) /\ Accounts(c, s)
           \/ UNCHANGED <<pc, pools>>
<1>0. control \in Nat /\ source \in Nat
  <2>1. ControlMax \in Nat /\ SourceMax \in Nat
    BY Pools
  <2>2. control \in 0..ControlMax /\ source \in 0..SourceMax
    BY DEF TypeOK
  <2> QED BY <2>1, <2>2
<1> USE DEF Accounts, PCs, OnControl, OnSource, Operating, pools
<1>1. ASSUME NEW c \in Call, NEW t \in Token, Arrive(c, t)
      PROVE  Goto(c, "body") /\ Accounts(c, "body")
  BY <1>0, <1>1 DEF Arrive
<1>2. ASSUME NEW c \in Call, Receive(c)
      PROVE  \E s \in PCs : Goto(c, s) /\ Accounts(c, s)
  BY <1>0, <1>2 DEF Receive
<1>3. ASSUME NEW c \in Call, TooLarge(c) \/ Disconnect(c)
      PROVE  Goto(c, "done") /\ Accounts(c, "done")
  <2>1. pc[c] = "body" /\ Goto(c, "done") /\ control' = control /\ source' = source
    BY <1>3 DEF TooLarge, Disconnect, Refuse
  <2> QED BY <1>0, <2>1
<1>4. ASSUME NEW c \in Call, NEW step \in OnControl, TakeControl(c, step)
      PROVE  Goto(c, step) /\ Accounts(c, step)
  BY <1>0, <1>4 DEF TakeControl, Before
<1>5. ASSUME NEW c \in Call, NEW step \in OnSource, TakeSource(c, step)
      PROVE  Goto(c, step) /\ Accounts(c, step)
  BY <1>0, <1>5 DEF TakeSource, Before
<1>6. ASSUME NEW c \in Call, NEW s \in {"principal", "read", "query", "audit", "done"},
             GiveBack(c), Goto(c, s)
      PROVE  Accounts(c, s)
  BY <1>0, <1>6 DEF GiveBack
<1>7. ASSUME NEW c \in Call,
             \/ GetToken(c) \/ GetPrincipal(c) \/ Unauthorized(c) \/ Resolved(c)
             \/ ToolReturns(c) \/ ResponseTooLarge(c) \/ ToolFails(c) \/ Cancel(c)
             \/ AppendAudit(c) \/ AuditFails(c) \/ CancelAudit(c)
      PROVE  \E s \in {"principal", "read", "query", "audit", "done"} :
                GiveBack(c) /\ Goto(c, s)
  BY <1>7 DEF GetToken, GetPrincipal, Unauthorized, Refuse, Resolved, ToolReturns,
              ResponseTooLarge, ToolFails, Cancel, Leave, AppendAudit, AuditFails,
              CancelAudit, End
<1>8. ASSUME NEW c \in Call, CallTool(c)
      PROVE  Goto(c, "catalog") /\ Accounts(c, "catalog")
  BY <1>0, <1>8 DEF CallTool
<1>9. ASSUME (\E c \in Call : ReadBody(c)) \/ (\E t \in Token : Mint(t) \/ Kill(t)) \/ SetStatus
      PROVE  UNCHANGED <<pc, pools>>
  BY <1>9 DEF ReadBody, Mint, Kill, SetStatus
<1>10. {"body", "token", "principal", "read", "query", "audit", "done", "catalog"} \subseteq PCs
  OBVIOUS
<1>11. OnControl \subseteq PCs /\ OnSource \subseteq PCs
  OBVIOUS
<1> HIDE DEF Accounts, PCs, OnControl, OnSource, Operating, pools
<1> QED BY <1>1, <1>2, <1>3, <1>4, <1>5, <1>6, <1>7, <1>8, <1>9, <1>10, <1>11
        DEF Next, Step

\* The body, too, is what it was or a body.
LEMMA BodyKept ==
    ASSUME TypeOK, Next
    PROVE  BodyTypeOK'
<1> USE BodySteps DEF TypeOK
<1>1. ASSUME NEW c \in Call, Receive(c) PROVE BodyTypeOK'
  BY <1>1 DEF Receive
<1>2. ASSUME NEW c \in Call, Forget(c) \/ Replay(c) PROVE BodyTypeOK'
  BY <1>2
<1>3. ASSUME UNCHANGED bodyVars PROVE BodyTypeOK'
  BY <1>3 DEF bodyVars, BodyTypeOK
<1>4. ASSUME NEW c \in Call, Step(c)
      PROVE  Forget(c) \/ Replay(c) \/ UNCHANGED bodyVars
  BY <1>4 DEF Step, TakeControl, TakeSource, GetToken, GetPrincipal, Unauthorized, Refuse,
              ReadBody, CallTool, Resolved, ToolReturns, ResponseTooLarge, ToolFails, Leave,
              AppendAudit, AuditFails, End
<1>5. ASSUME NEW c \in Call,
             (\E t \in Token : Arrive(c, t)) \/ TooLarge(c) \/ Disconnect(c)
               \/ Cancel(c) \/ CancelAudit(c)
      PROVE  Forget(c) \/ UNCHANGED bodyVars
  BY <1>5 DEF Arrive, TooLarge, Disconnect, Refuse, Cancel, Leave, CancelAudit, End
<1>6. ASSUME (\E t \in Token : Mint(t) \/ Kill(t)) \/ SetStatus
      PROVE  UNCHANGED bodyVars
  BY <1>6 DEF Mint, Kill, SetStatus
<1> QED BY <1>1, <1>2, <1>3, <1>4, <1>5, <1>6 DEF Next

\* What is known of a call beside its place and its body.
Records ==
    /\ token \in [Token -> {"none", "live", "dead"}]
    /\ active \in BOOLEAN
    /\ tok \in [Call -> Token \cup {NoToken}]
    /\ outcome \in [Call -> {"none", "ok", "failed", "cancelled"}]
    /\ row \in [Call -> {"none", "success", "failed"}]
    /\ unsure \subseteq Call
    /\ answer \in [Call -> {"none", "result", "error", "unauthorized", "too large", "gone"}]
    /\ tokenGood \subseteq Call /\ ownerGood \subseteq Call

LEMMA RecordsKept ==
    ASSUME TypeOK, Unaudited, Next
    PROVE  Records'
<1>0. Records
  BY DEF TypeOK, Records
<1>1. ASSUME NEW c \in Call, NEW t \in Token, Arrive(c, t) PROVE Records'
  BY <1>0, <1>1 DEF Arrive, Records, audit
<1>2. ASSUME NEW c \in Call, Receive(c) \/ ReadBody(c) \/ CallTool(c) PROVE Records'
  BY <1>0, <1>2 DEF Receive, ReadBody, CallTool, Records, audit, seenGood
<1>3. ASSUME NEW c \in Call, TooLarge(c) \/ Disconnect(c) \/ Unauthorized(c) PROVE Records'
  BY <1>0, <1>3 DEF TooLarge, Disconnect, Unauthorized, Refuse, Records, audit, seenGood
<1>4. ASSUME NEW c \in Call, NEW step, TakeControl(c, step) \/ TakeSource(c, step)
      PROVE  Records'
  BY <1>0, <1>4 DEF TakeControl, TakeSource, Records, audit, seenGood
<1>5. ASSUME NEW c \in Call, GetToken(c) \/ GetPrincipal(c) \/ Resolved(c) PROVE Records'
  BY <1>0, <1>5 DEF GetToken, GetPrincipal, Resolved, Records, audit, seenGood
<1>6. ASSUME NEW c \in Call, NEW how \in {"ok", "failed", "cancelled"}, Leave(c, how)
      PROVE  Records'
  BY <1>0, <1>6 DEF Leave, Records, seenGood
<1>7. ASSUME NEW c \in Call, pc[c] \in {"audit", "auditTx"}
      PROVE  Reply(c) \in {"result", "error", "gone"}
  BY <1>7 DEF Reply, Unaudited, TypeOK
<1>8. ASSUME NEW c \in Call, AppendAudit(c) PROVE Records'
  BY <1>0, <1>7, <1>8 DEF AppendAudit, Status, End, Records, seenGood
<1>9. ASSUME NEW c \in Call, AuditFails(c) PROVE Records'
  BY <1>0, <1>7, <1>9 DEF AuditFails, Status, End, Records, seenGood
<1>10. ASSUME NEW c \in Call, CancelAudit(c) PROVE Records'
  BY <1>0, <1>10 DEF CancelAudit, End, Records, seenGood
<1>11. ASSUME NEW t \in Token, Mint(t) \/ Kill(t) PROVE Records'
  BY <1>0, <1>11 DEF Mint, Kill, Records, audit, seenGood
<1>12. ASSUME SetStatus PROVE Records'
  <2>1. active' \in BOOLEAN
    BY <1>12 DEF SetStatus
  <2> QED BY <1>0, <1>12, <2>1 DEF SetStatus, Records, audit
<1> QED BY <1>1, <1>2, <1>3, <1>4, <1>5, <1>6, <1>8, <1>9, <1>10, <1>11, <1>12
        DEF Next, Step, ToolReturns, ResponseTooLarge, ToolFails, Cancel

LEMMA TypeStep ==
    ASSUME TypeOK, ConnectionsReturned, Unaudited, Next
    PROVE  TypeOK' /\ ConnectionsReturned'
<1>1. CASE \E c \in Call, s \in PCs : Goto(c, s) /\ Accounts(c, s)
  <2>1. PICK c \in Call, s \in PCs : Goto(c, s) /\ Accounts(c, s)
    BY <1>1
  <2>2. ConnectionsReturned' /\ control' \in 0..ControlMax /\ source' \in 0..SourceMax
    BY <2>1, AccountsBalance
  <2>3. pc' \in [Call -> PCs]
    BY <2>1 DEF Goto, TypeOK
  <2> QED BY <2>2, <2>3, BodyKept, RecordsKept DEF TypeOK, Records
<1>2. CASE UNCHANGED <<pc, pools>>
  <2>1. /\ pc' \in [Call -> PCs] /\ control' \in 0..ControlMax /\ source' \in 0..SourceMax
    BY <1>2 DEF TypeOK, pools
  <2>2. ConnectionsReturned'
    BY <1>2 DEF ConnectionsReturned, pools
  <2> QED BY <2>1, <2>2, BodyKept, RecordsKept DEF TypeOK, Records
<1> QED BY <1>1, <1>2, Moves

-----------------------------------------------------------------------------
(* The verifier.                                                            *)

\* A call that goes on, to a step whose demands its history meets.
LEMMA GoesOn ==
    ASSUME TypeOK, Verified, NEW c \in Call, NEW s, Goto(c, s),
           UNCHANGED <<token, active, tok, seenGood>>,
           pc[c] # "new", s # "new",
           s \in {"principal", "principalTx"} \cup Tooling => c \in tokenGood,
           s \in Tooling => c \in ownerGood
    PROVE  Verified'
<1>1. \A d \in Call : pc'[d] = IF d = c THEN s ELSE pc[d]
  BY DEF Goto, TypeOK
<1>2. token' = token /\ tok' = tok /\ tokenGood' = tokenGood /\ ownerGood' = ownerGood
  BY DEF seenGood
<1>3. active' <=> active
  OBVIOUS
<1>4. ASSUME NEW d \in Call, pc'[d] # "new"
      PROVE  /\ tok'[d] \in Token /\ token'[tok'[d]] # "none"
             /\ token'[tok'[d]] = "live" => d \in tokenGood'
             /\ active' => d \in ownerGood'
  BY <1>1, <1>2, <1>3, <1>4 DEF Verified
<1>5. ASSUME NEW d \in Call
      PROVE  /\ pc'[d] \in {"principal", "principalTx"} \cup Tooling => d \in tokenGood'
             /\ pc'[d] \in Tooling => d \in ownerGood'
             /\ d \in ownerGood' => pc'[d] # "new"
  BY <1>1, <1>2 DEF Verified
<1> QED BY <1>4, <1>5 DEF Verified

LEMMA VerifiedStep ==
    ASSUME TypeOK, Verified, Next
    PROVE  Verified'
<1>1. ASSUME NEW c \in Call, NEW t \in Token, Arrive(c, t) PROVE Verified'
  <2>1. \A d \in Call : pc'[d] = IF d = c THEN "body" ELSE pc[d]
    BY <1>1 DEF Arrive, Goto, TypeOK
  <2>2. \A d \in Call : tok'[d] = IF d = c THEN t ELSE tok[d]
    BY <1>1 DEF Arrive, TypeOK
  <2>3. /\ token' = token /\ pc[c] = "new" /\ token[t] # "none"
        /\ token[t] = "live" => c \in tokenGood'
        /\ tokenGood \subseteq tokenGood' /\ ownerGood \subseteq ownerGood'
        /\ ownerGood' \subseteq ownerGood \cup {c}
    BY <1>1 DEF Arrive
  <2>4. (active' <=> active) /\ (active => c \in ownerGood')
    BY <1>1 DEF Arrive
  <2>5. "body" \notin {"principal", "principalTx"} \cup Tooling
    BY DEF Tooling, Operating
  <2> QED BY <2>1, <2>2, <2>3, <2>4, <2>5 DEF Verified
<1>2. ASSUME NEW c \in Call, Receive(c) PROVE Verified'
  <2>1. PICK s \in {"body", "token"} : Goto(c, s)
    BY <1>2 DEF Receive
  <2>2. s \notin {"principal", "principalTx"} \cup Tooling
    BY DEF Tooling, Operating
  <2> QED BY <1>2, <2>1, <2>2, GoesOn DEF Receive
<1>3. ASSUME NEW c \in Call, CallTool(c) PROVE Verified'
  BY <1>3, GoesOn DEF CallTool, Verified, Tooling
<1>4. ASSUME NEW c \in Call, TooLarge(c) \/ Disconnect(c) \/ Unauthorized(c) PROVE Verified'
  <2>1. Goto(c, "done") /\ pc[c] # "new" /\ UNCHANGED <<token, active, tok, seenGood>>
    BY <1>4 DEF TooLarge, Disconnect, Unauthorized, Refuse
  <2>2. "done" \notin {"principal", "principalTx"} \cup Tooling
    BY DEF Tooling, Operating
  <2> QED BY <2>1, <2>2, GoesOn
<1>5. ASSUME NEW c \in Call, NEW step \in OnControl, TakeControl(c, step) PROVE Verified'
  <2>1. /\ Goto(c, step) /\ pc[c] = Before[step] /\ pc[c] # "new" /\ step # "new"
        /\ UNCHANGED <<token, active, tok, seenGood>>
    BY <1>5 DEF TakeControl, OnControl, Before
  <2>2. /\ step \in {"principal", "principalTx"} \cup Tooling
             => pc[c] \in {"principal", "principalTx"} \cup Tooling
        /\ step \in Tooling => pc[c] \in Tooling
    BY <2>1 DEF OnControl, Before, Tooling, Operating
  <2> QED BY <2>1, <2>2, GoesOn DEF Verified
<1>6. ASSUME NEW c \in Call, NEW step \in OnSource, TakeSource(c, step) PROVE Verified'
  <2>1. /\ Goto(c, step) /\ pc[c] = Before[step] /\ pc[c] # "new" /\ step # "new"
        /\ UNCHANGED <<token, active, tok, seenGood>>
    BY <1>6 DEF TakeSource, OnSource, Before
  <2>2. pc[c] \in Tooling
    BY <2>1 DEF OnSource, Before, Tooling, Operating
  <2> QED BY <2>1, <2>2, GoesOn DEF Verified
<1>7. ASSUME NEW c \in Call, GetToken(c) PROVE Verified'
  <2>1. pc[c] = "tokenTx" /\ c \in tokenGood
    BY <1>7 DEF GetToken, Verified
  <2>2. "principal" \notin Tooling
    BY DEF Tooling, Operating
  <2> QED BY <1>7, <2>1, <2>2, GoesOn DEF GetToken
<1>8. ASSUME NEW c \in Call, GetPrincipal(c) PROVE Verified'
  <2>1. pc[c] = "principalTx" /\ c \in tokenGood /\ c \in ownerGood
    BY <1>8 DEF GetPrincipal, Verified
  <2> QED BY <1>8, <2>1, GoesOn DEF GetPrincipal
<1>9. ASSUME NEW c \in Call, Resolved(c) PROVE Verified'
  <2>1. pc[c] \in Tooling /\ pc[c] # "new"
    BY <1>9 DEF Resolved, Tooling, Operating
  <2> QED BY <1>9, <2>1, GoesOn DEF Resolved, Verified
<1>10. ASSUME NEW c \in Call, NEW how, pc[c] \in Operating, Leave(c, how) PROVE Verified'
  <2>1. pc[c] \in Tooling /\ pc[c] # "new"
    BY <1>10 DEF Tooling, Operating
  <2> QED BY <1>10, <2>1, GoesOn DEF Leave, Verified
<1>11. ASSUME NEW c \in Call, AppendAudit(c) \/ AuditFails(c) \/ CancelAudit(c)
       PROVE  Verified'
  <2>1. Goto(c, "done") /\ pc[c] # "new" /\ UNCHANGED <<token, active, tok, seenGood>>
    BY <1>11 DEF AppendAudit, AuditFails, CancelAudit, End
  <2>2. "done" \notin {"principal", "principalTx"} \cup Tooling
    BY DEF Tooling, Operating
  <2> QED BY <2>1, <2>2, GoesOn
<1>12. ASSUME NEW t \in Token, Mint(t) \/ Kill(t) PROVE Verified'
  <2>1. \A u \in Token : u # t => token'[u] = token[u]
    BY <1>12 DEF Mint, Kill, TypeOK
  <2>2. token[t] # "none" => token'[t] = "dead"
    BY <1>12 DEF Mint, Kill, TypeOK
  <2>3. UNCHANGED <<pc, tok, tokenGood, ownerGood>> /\ (active' <=> active)
    BY <1>12 DEF Mint, Kill, seenGood
  <2> QED BY <2>1, <2>2, <2>3 DEF Verified
<1>13. ASSUME SetStatus PROVE Verified'
  <2>1. UNCHANGED <<token, pc, tok, tokenGood>>
    BY <1>13 DEF SetStatus
  <2>2. ownerGood' = {c \in Call : pc[c] # "new"} \/ (~active' /\ ownerGood' = ownerGood)
    BY <1>13 DEF SetStatus
  <2>3. \A c \in Call : c \in ownerGood => c \in ownerGood'
    BY <2>2 DEF Verified
  <2>4. \A c \in Call : pc[c] # "new" /\ active' => c \in ownerGood'
    BY <2>2
  <2>5. \A c \in Call : pc[c] \in Tooling => pc[c] # "new"
    BY DEF Tooling, Operating
  <2> QED BY <2>1, <2>2, <2>3, <2>4, <2>5 DEF Verified
<1>14. ASSUME NEW c \in Call, ReadBody(c) PROVE Verified'
  <2>1. UNCHANGED <<token, pc, tok, tokenGood, ownerGood>> /\ (active' <=> active)
    BY <1>14 DEF ReadBody, seenGood
  <2> QED BY <2>1 DEF Verified
<1>15. \A c \in Call : ToolReturns(c) \/ ResponseTooLarge(c) \/ ToolFails(c) \/ Cancel(c)
          => pc[c] \in Operating /\ \E how : Leave(c, how)
  BY DEF ToolReturns, ResponseTooLarge, ToolFails, Cancel, Operating
<1> QED BY <1>1, <1>2, <1>3, <1>4, <1>5, <1>6, <1>7, <1>8, <1>9, <1>10, <1>11, <1>12,
           <1>13, <1>14, <1>15 DEF Next, Step

-----------------------------------------------------------------------------
(* The audit log.                                                           *)

\* A call that is not at its end writes nothing ...
LEMMA NotYet ==
    ASSUME TypeOK, Unaudited, AuditAgrees, NEW c \in Call, NEW s, Goto(c, s),
           UNCHANGED <<row, unsure, answer>>, s # "done", pc[c] # "done",
           s \in {"audit", "auditTx"} => outcome'[c] # "none",
           \A d \in Call : d # c => outcome'[d] = outcome[d]
    PROVE  Unaudited' /\ AuditAgrees'
<1>1. \A d \in Call : pc'[d] = IF d = c THEN s ELSE pc[d]
  BY DEF Goto, TypeOK
<1> QED BY <1>1 DEF Unaudited, AuditAgrees

\* ... and at its end what AuditAgrees allows.
LEMMA AtTheEnd ==
    ASSUME TypeOK, Unaudited, AuditAgrees, NEW c \in Call, Goto(c, "done"), UNCHANGED outcome,
           \A d \in Call : d # c => /\ answer'[d] = answer[d] /\ row'[d] = row[d]
                                    /\ d \in unsure' => d \in unsure
                                    /\ d \in unsure => d \in unsure',
           /\ answer'[c] \in {"result", "error"} => row'[c] # "none" \/ c \in unsure'
           /\ answer'[c] = "result" => row'[c] # "failed"
           /\ answer'[c] = "error" => row'[c] # "success"
    PROVE  Unaudited' /\ AuditAgrees'
<1>1. \A d \in Call : pc'[d] = IF d = c THEN "done" ELSE pc[d]
  BY DEF Goto, TypeOK
<1> QED BY <1>1 DEF Unaudited, AuditAgrees

LEMMA AuditStep ==
    ASSUME TypeOK, Unaudited, AuditAgrees, Next
    PROVE  Unaudited' /\ AuditAgrees'
<1>1. ASSUME NEW c \in Call, NEW t \in Token, Arrive(c, t)
      PROVE  Unaudited' /\ AuditAgrees'
  BY <1>1, NotYet DEF Arrive, audit
<1>2. ASSUME NEW c \in Call, Receive(c) PROVE Unaudited' /\ AuditAgrees'
  <2>1. PICK s \in {"body", "token"} : Goto(c, s)
    BY <1>2 DEF Receive
  <2> QED BY <1>2, <2>1, NotYet DEF Receive, audit
<1>3. ASSUME NEW c \in Call, CallTool(c) PROVE Unaudited' /\ AuditAgrees'
  BY <1>3, NotYet DEF CallTool, audit
<1>4. ASSUME NEW c \in Call, NEW a \in {"too large", "gone", "unauthorized"}, Refuse(c, a),
             UNCHANGED audit, pc[c] # "done"
      PROVE  Unaudited' /\ AuditAgrees'
  <2>1. \A d \in Call : answer'[d] = IF d = c THEN a ELSE answer[d]
    BY <1>4 DEF Refuse, TypeOK
  <2> QED BY <1>4, <2>1, AtTheEnd DEF Refuse, audit
<1>5. ASSUME NEW c \in Call, TooLarge(c) \/ Disconnect(c) \/ Unauthorized(c)
      PROVE  Unaudited' /\ AuditAgrees'
  BY <1>4, <1>5 DEF TooLarge, Disconnect, Unauthorized
<1>6. ASSUME NEW c \in Call, NEW step \in OnControl, TakeControl(c, step)
      PROVE  Unaudited' /\ AuditAgrees'
  <2>1. step = "auditTx" => outcome[c] # "none"
    BY <1>6 DEF TakeControl, Before, Unaudited
  <2> QED BY <1>6, <2>1, NotYet DEF TakeControl, OnControl, Before, audit
<1>7. ASSUME NEW c \in Call, NEW step \in OnSource, TakeSource(c, step)
      PROVE  Unaudited' /\ AuditAgrees'
  BY <1>7, NotYet DEF TakeSource, OnSource, Before, audit
<1>8. ASSUME NEW c \in Call, GetToken(c) \/ GetPrincipal(c) \/ Resolved(c)
      PROVE  Unaudited' /\ AuditAgrees'
  <2>1. PICK s \in {"principal", "read", "query"} : Goto(c, s)
    BY <1>8 DEF GetToken, GetPrincipal, Resolved
  <2>2. pc[c] # "done" /\ UNCHANGED <<answer, audit>>
    BY <1>8 DEF GetToken, GetPrincipal, Resolved
  <2> QED BY <2>1, <2>2, NotYet DEF audit
<1>9. ASSUME NEW c \in Call, NEW how \in {"ok", "failed", "cancelled"},
             pc[c] \in Operating, Leave(c, how)
      PROVE  Unaudited' /\ AuditAgrees'
  <2>1. \A d \in Call : outcome'[d] = IF d = c THEN how ELSE outcome[d]
    BY <1>9 DEF Leave, TypeOK
  <2> QED BY <1>9, <2>1, NotYet DEF Leave, Operating
<1>10. ASSUME NEW c \in Call, pc[c] \in {"audit", "auditTx"}
       PROVE  /\ Status(c) \in {"success", "failed"}
              /\ Reply(c) = "result" => Status(c) = "success"
              /\ Reply(c) = "error" => Status(c) = "failed"
  BY <1>10 DEF Reply, Status, Unaudited, TypeOK
<1>11. ASSUME NEW c \in Call, AppendAudit(c) PROVE Unaudited' /\ AuditAgrees'
  <2>1. \A d \in Call : /\ answer'[d] = IF d = c THEN Reply(c) ELSE answer[d]
                        /\ row'[d] = IF d = c THEN Status(c) ELSE row[d]
    BY <1>11 DEF AppendAudit, TypeOK
  <2> QED BY <1>10, <1>11, <2>1, AtTheEnd DEF AppendAudit, End
<1>12. ASSUME NEW c \in Call, AuditFails(c) PROVE Unaudited' /\ AuditAgrees'
  <2>1. /\ \A d \in Call : answer'[d] = IF d = c THEN Reply(c) ELSE answer[d]
        /\ \A d \in Call : d # c => row'[d] = row[d]
        /\ row'[c] \in {"none", Status(c)}
    BY <1>12 DEF AuditFails, Unaudited, TypeOK
  <2>2. pc[c] \in {"audit", "auditTx"} /\ unsure' = unsure \cup {c} /\ End(c)
    BY <1>12 DEF AuditFails
  <2> QED BY <1>10, <2>1, <2>2, AtTheEnd DEF End
<1>13. ASSUME NEW c \in Call, CancelAudit(c) PROVE Unaudited' /\ AuditAgrees'
  <2>1. \A d \in Call : answer'[d] = IF d = c THEN "gone" ELSE answer[d]
    BY <1>13 DEF CancelAudit, TypeOK
  <2> QED BY <1>13, <2>1, AtTheEnd DEF CancelAudit, End
<1>14. ASSUME (\E c \in Call : ReadBody(c)) \/ (\E t \in Token : Mint(t) \/ Kill(t)) \/ SetStatus
       PROVE  Unaudited' /\ AuditAgrees'
  <2>1. UNCHANGED <<pc, outcome, row, unsure, answer>>
    BY <1>14 DEF ReadBody, Mint, Kill, SetStatus, audit
  <2> QED BY <2>1 DEF Unaudited, AuditAgrees
<1>15. \A c \in Call : ToolReturns(c) \/ ResponseTooLarge(c) \/ ToolFails(c) \/ Cancel(c)
          => pc[c] \in Operating /\ \E how \in {"ok", "failed", "cancelled"} : Leave(c, how)
  BY DEF ToolReturns, ResponseTooLarge, ToolFails, Cancel, Operating
<1> QED BY <1>1, <1>2, <1>3, <1>5, <1>6, <1>7, <1>8, <1>9, <1>11, <1>12, <1>13, <1>14,
           <1>15 DEF Next, Step

-----------------------------------------------------------------------------
(* The size of a body.                                                      *)

\* A nonempty set of natural numbers has a least one.
LEMMA LeastIndex ==
    ASSUME NEW T \in SUBSET Nat, T # {}
    PROVE  \E i \in T : \A j \in T : i <= j
<1> DEFINE R == {ss \in Nat \X Nat : ss[1] < ss[2]}
<1>1. IsWellFoundedOn(R, Nat)
  BY NatLessThanWellFounded, Zenon DEF OpToRel
<1>2. PICK i \in T : \A j \in T : ~(<<j, i>> \in R)
  <2> HIDE DEF R
  <2> QED BY <1>1, WFMin
<1>3. \A j \in T : ~(j < i)
  BY <1>2
<1> QED BY <1>3

\* Induction over an interval, on the set of the numbers for which a fact holds.
LEMMA IndexInduction ==
    ASSUME NEW n \in Nat, NEW T \in SUBSET (0..n), 0 \in T,
           \A i \in T : i < n => i + 1 \in T
    PROVE  \A i \in 0..n : i \in T
<1> DEFINE C == (0..n) \ T
<1>1. SUFFICES ASSUME C # {} PROVE FALSE
  BY <1>1
<1>2. PICK k \in C : \A j \in C : k <= j
  <2>1. C \in SUBSET Nat
    OBVIOUS
  <2> HIDE DEF C
  <2> QED BY <1>1, <2>1, LeastIndex
<1>3. k - 1 \in 0..n /\ k - 1 < n /\ ~(k <= k - 1) /\ (k - 1) + 1 = k
  BY <1>2
<1>4. k - 1 \in T
  BY <1>2, <1>3
<1> QED BY <1>2, <1>3, <1>4

\* g adds up the first n messages of a body.
Adds(g, body, n) ==
    /\ g[0] = 0
    /\ \A i \in 1..n : g[i] = g[i - 1] + body[i].bytes

AddsUp(g, body, n) == g \in [0..n -> Nat] /\ Adds(g, body, n)

LEMMA MessageIs ==
    ASSUME NEW body \in Seq(Message), NEW i \in 1..Len(body)
    PROVE  body[i] \in Message /\ body[i].bytes \in Nat /\ body[i].more \in BOOLEAN
<1>1. body[i] \in Message
  BY ElementOfSeq
<1> QED BY <1>1, BodyBounds DEF Message

LEMMA SumsExist ==
    ASSUME NEW body \in Seq(Message)
    PROVE  \E g : AddsUp(g, body, Len(body))
<1> DEFINE n == Len(body)
           T == {k \in 0..n : \E g : AddsUp(g, body, k)}
<1>0. n \in Nat
  BY LenProperties
<1>1. 0 \in T
  <2>1. AddsUp([i \in 0..0 |-> 0], body, 0)
    BY DEF AddsUp, Adds
  <2> QED BY <1>0, <2>1
<1>2. ASSUME NEW k \in T, k < n PROVE k + 1 \in T
  <2>1. PICK g : AddsUp(g, body, k)
    OBVIOUS
  <2>2. k \in Nat /\ k + 1 \in 1..n /\ k + 1 \in 0..n /\ (k + 1) - 1 = k /\ k \in 0..k
    BY <1>0, <1>2
  <2>3. body[k + 1].bytes \in Nat
    BY <2>2, MessageIs
  <2> DEFINE h == [i \in 0..(k + 1) |-> IF i = k + 1 THEN g[k] + body[k + 1].bytes ELSE g[i]]
  <2>4. h \in [0..(k + 1) -> Nat] /\ h[0] = 0
    BY <2>1, <2>2, <2>3 DEF AddsUp, Adds
  <2>5. ASSUME NEW i \in 1..(k + 1) PROVE h[i] = h[i - 1] + body[i].bytes
    <3>1. i \in 0..(k + 1) /\ i - 1 \in 0..(k + 1) /\ i - 1 # k + 1
      BY <2>2
    <3>2. h[i - 1] = g[i - 1]
      BY <3>1
    <3>3. CASE i = k + 1
      BY <2>2, <3>1, <3>2, <3>3
    <3>4. CASE i # k + 1
      <4>1. i \in 1..k /\ h[i] = g[i]
        BY <2>2, <3>1, <3>4
      <4> QED BY <2>1, <3>2, <4>1 DEF AddsUp, Adds
    <3> QED BY <3>3, <3>4
  <2> HIDE DEF h
  <2>6. AddsUp(h, body, k + 1)
    BY <2>4, <2>5 DEF AddsUp, Adds
  <2> QED BY <2>2, <2>6
<1>3. \A k \in 0..n : k \in T
  <2>1. T \in SUBSET (0..n)
    OBVIOUS
  <2> HIDE DEF T, n
  <2> QED BY <1>0, <1>1, <1>2, <2>1, IndexInduction
<1>4. n \in 0..n
  BY <1>0
<1> QED BY <1>3, <1>4

\* Two that add up the same messages are the same.
LEMMA SumsAgree ==
    ASSUME NEW n \in Nat, NEW g, NEW h, NEW body, NEW other,
           Adds(g, body, n), Adds(h, other, n),
           \A i \in 1..n : body[i] = other[i]
    PROVE  \A i \in 0..n : g[i] = h[i]
<1> DEFINE T == {i \in 0..n : g[i] = h[i]}
<1>1. 0 \in T /\ T \in SUBSET (0..n)
  BY DEF Adds
<1>2. ASSUME NEW i \in T, i < n PROVE i + 1 \in T
  <2>1. i + 1 \in 1..n /\ i + 1 \in 0..n /\ (i + 1) - 1 = i /\ g[i] = h[i]
    BY <1>2
  <2> QED BY <2>1 DEF Adds
<1>3. \A i \in 0..n : i \in T
  <2> HIDE DEF T
  <2> QED BY <1>1, <1>2, IndexInduction
<1> QED BY <1>3

\* SizeUpTo is what its recursive definition says, and sizes are numbers.
LEMMA SizeUpToIs ==
    ASSUME NEW body \in Seq(Message)
    PROVE  AddsUp(SizeUpTo(body), body, Len(body))
<1> DEFINE D == 0..Len(body)
           b == SizeUpTo(body)
           Rec(h) == h = [i \in D |-> IF i = 0 THEN 0 ELSE h[i - 1] + body[i].bytes]
<1>0. Len(body) \in Nat
  BY LenProperties
<1>1. PICK g : AddsUp(g, body, Len(body))
  BY SumsExist
<1>2. \E h : Rec(h)
  <2>1. \A i \in D : g[i] = IF i = 0 THEN 0 ELSE g[i - 1] + body[i].bytes
    BY <1>0, <1>1 DEF AddsUp, Adds
  <2>2. Rec(g)
    BY <1>1, <2>1 DEF AddsUp, Adds
  <2> QED BY <2>2
<1>3. b = CHOOSE h : Rec(h)
  BY DEF SizeUpTo
<1>4. Rec(b)
  <2> HIDE DEF Rec, b
  <2> QED BY <1>2, <1>3
<1> HIDE DEF b
<1>5. 0 \in D /\ \A i \in 1..Len(body) : i \in D /\ i # 0
  BY <1>0
<1>6. /\ b = [i \in D |-> b[i]] /\ b[0] = 0
      /\ \A i \in 1..Len(body) : b[i] = b[i - 1] + body[i].bytes
  <2>1. b = [i \in D |-> b[i]]
    BY <1>4
  <2> QED BY <1>4, <1>5, <2>1
<1>7. \A i \in D : b[i] = g[i]
  <2>1. Adds(b, body, Len(body))
    BY <1>6 DEF Adds
  <2>2. Adds(g, body, Len(body))
    BY <1>1 DEF AddsUp
  <2>3. \A i \in 1..Len(body) : body[i] = body[i]
    OBVIOUS
  <2> QED BY ONLY <1>0, <2>1, <2>2, <2>3, SumsAgree
<1>8. b \in [D -> Nat]
  BY <1>1, <1>6, <1>7 DEF AddsUp, Adds
<1> QED BY <1>6, <1>8 DEF AddsUp, Adds, b

LEMMA SizeEmpty == Size(<<>>) = 0
<1>1. ASSUME NEW body \in Seq(Message), Len(body) = 0 PROVE Size(body) = 0
  <2>1. AddsUp(SizeUpTo(body), body, Len(body))
    BY SizeUpToIs
  <2> QED BY <1>1, <2>1 DEF Size, AddsUp, Adds
<1>2. <<>> \in Seq(Message) /\ Len(<<>>) = 0
  BY EmptySeq
<1> QED BY <1>1, <1>2, Zenon

\* One message more.
LEMMA SizeAppend ==
    ASSUME NEW body \in Seq(Message), NEW m \in Message
    PROVE  Size(Append(body, m)) = Size(body) + m.bytes
<1> DEFINE longer == Append(body, m)
           n == Len(body)
           b == SizeUpTo(body)
           l == SizeUpTo(longer)
<1>1. /\ n \in Nat /\ longer \in Seq(Message) /\ Len(longer) = n + 1 /\ longer[n + 1] = m
      /\ \A i \in 1..n : longer[i] = body[i]
  BY LenProperties, AppendProperties
<1>2. AddsUp(b, body, n)
  BY SizeUpToIs
<1>3. AddsUp(l, longer, n + 1)
  <2> HIDE DEF longer
  <2> QED BY <1>1, SizeUpToIs
<1>4. Size(longer) = l[n + 1] /\ Size(body) = b[n]
  <2>1. Size(longer) = SizeUpTo(longer)[Len(longer)]
    BY DEF Size
  <2> QED BY <1>1, <2>1 DEF Size
<1> HIDE DEF longer, n, b, l
<1>5. l[n + 1] = l[n] + m.bytes
  <2>1. n + 1 \in 1..(n + 1) /\ (n + 1) - 1 = n
    BY <1>1
  <2> QED BY <1>1, <1>3, <2>1 DEF AddsUp, Adds
<1>6. \A i \in 0..n : l[i] = b[i]
  <2>1. Adds(b, body, n)
    BY <1>2 DEF AddsUp
  <2>2. Adds(l, longer, n)
    BY <1>1, <1>3 DEF AddsUp, Adds
  <2>3. n \in Nat /\ \A i \in 1..n : longer[i] = body[i]
    BY <1>1
  <2> QED BY ONLY <2>1, <2>2, <2>3, SumsAgree
<1>7. l[n] = b[n]
  BY <1>1, <1>6
<1> QED BY <1>4, <1>5, <1>7 DEF longer

-----------------------------------------------------------------------------
(* The body of a request, from the client to the application.               *)

\* Call c's body is not touched.
SameBody(c) == /\ sent'[c] = sent[c] /\ messages'[c] = messages[c] /\ size'[c] = size[c]
               /\ index'[c] = index[c] /\ seen'[c] = seen[c]

\* A call that moves on, its body untouched, past the body or within one step.
LEMMA BodyStays ==
    ASSUME NEW c \in Call, BodyOf(c), SameBody(c),
           pc'[c] = pc[c] \/ {pc[c], pc'[c]} \cap {"new", "body"} = {}
    PROVE  BodyOf(c)'
<1>1. pc'[c] \in {"new", "body"} \/ pc[c] \in {"new", "body"} => pc'[c] = pc[c]
  OBVIOUS
<1> QED BY <1>1 DEF BodyOf, SameBody

LEMMA BodyForgotten ==
    ASSUME TypeOK, NEW c \in Call, Forget(c)
    PROVE  BodyOf(c)'
<1>1. /\ sent'[c] = <<>> /\ messages'[c] = <<>> /\ size'[c] = 0
      /\ index'[c] = 0 /\ seen'[c] = <<>>
  BY DEF Forget, TypeOK, BodyTypeOK
<1>2. Len(<<>>) = 0 /\ Size(<<>>) = 0 /\ 0 <= MaxBytes /\ \A i \in 1..0 : FALSE
  BY SizeEmpty, BodyBounds, EmptySeq
<1> QED BY <1>1, <1>2 DEF BodyOf

LEMMA BodyReceived ==
    ASSUME TypeOK, NEW c \in Call, BodyOf(c), Receive(c)
    PROVE  BodyOf(c)'
<1>1. PICK m \in Message : Send(c, m) /\ Keep(c, m) /\ Goto(c, IF m.more THEN "body" ELSE "token")
  BY DEF Receive
<1> DEFINE body == messages[c]
           n == Len(body)
           longer == Append(body, m)
<1>2. /\ sent'[c] = longer /\ messages'[c] = longer /\ size'[c] = size[c] + m.bytes
      /\ size[c] + m.bytes <= MaxBytes
      /\ index'[c] = 0 /\ seen'[c] = seen[c] /\ Len(seen[c]) = 0
      /\ pc[c] = "body" /\ pc'[c] = IF m.more THEN "body" ELSE "token"
  BY <1>1 DEF Receive, Send, Keep, Fits, Goto, BodyOf, TypeOK, BodyTypeOK
<1>3. body \in Seq(Message) /\ n \in Nat
  BY LenProperties DEF TypeOK, BodyTypeOK
<1>4. /\ longer # <<>> /\ Len(longer) = n + 1 /\ longer[n + 1] = m
      /\ \A i \in 1..n : longer[i] = body[i]
  BY <1>3, AppendProperties
<1>5. Size(longer) = size[c] + m.bytes
  BY <1>3, SizeAppend DEF BodyOf
<1>6. ASSUME NEW i \in 1..(n + 1), i < n + 1 \/ m.more PROVE longer[i].more
  <2>1. CASE i = n + 1
    BY <1>3, <1>4, <1>6, <2>1
  <2>2. CASE i # n + 1
    <3>1. i \in 1..n
      BY <1>3, <2>2
    <3> QED BY <1>2, <1>4, <3>1 DEF BodyOf
  <2> QED BY <2>1, <2>2
<1>7. pc'[c] = "body" => m.more
  BY <1>2
<1>8. pc'[c] # "new" /\ (pc'[c] \notin {"new", "body"} => ~m.more)
  BY <1>2
<1> HIDE DEF longer, n, body
<1>9. 0 <= n + 1 /\ \A i \in 1..0 : FALSE
  BY <1>3
<1> QED BY <1>2, <1>4, <1>5, <1>6, <1>7, <1>8, <1>9 DEF BodyOf

LEMMA BodyReplayed ==
    ASSUME TypeOK, NEW c \in Call, BodyOf(c), ReadBody(c)
    PROVE  BodyOf(c)'
<1> DEFINE body == messages[c]
           got == seen[c]
           k == index[c]
<1>1. /\ sent'[c] = sent[c] /\ messages'[c] = body /\ size'[c] = size[c]
      /\ k < Len(body) /\ index'[c] = k + 1 /\ seen'[c] = Append(got, body[k + 1])
      /\ pc[c] = "read" /\ pc'[c] = "read"
  BY DEF ReadBody, Replay, TypeOK, BodyTypeOK
<1>2. got \in Seq(Message) /\ body \in Seq(Message) /\ k \in Nat /\ Len(body) \in Nat
  BY LenProperties DEF TypeOK, BodyTypeOK
<1>3. k + 1 \in 1..Len(body)
  BY <1>1, <1>2
<1>4. body[k + 1] \in Message /\ k = Len(got)
  BY <1>2, <1>3, ElementOfSeq DEF BodyOf
<1>5. /\ Len(Append(got, body[k + 1])) = k + 1 /\ Append(got, body[k + 1])[k + 1] = body[k + 1]
      /\ \A i \in 1..k : Append(got, body[k + 1])[i] = got[i]
  BY <1>2, <1>4, AppendProperties
<1>6. ASSUME NEW i \in 1..(k + 1) PROVE Append(got, body[k + 1])[i] = body[i]
  <2>1. CASE i = k + 1
    BY <1>5, <2>1
  <2>2. CASE i # k + 1
    <3>1. i \in 1..k
      BY <1>2, <2>2
    <3> QED BY <1>5, <3>1 DEF BodyOf
  <2> QED BY <2>1, <2>2
<1>7. k + 1 <= Len(body)
  BY <1>3
<1> QED BY <1>1, <1>5, <1>6, <1>7 DEF BodyOf

LEMMA BodyArrives ==
    ASSUME TypeOK, NEW c \in Call, BodyOf(c), NEW t \in Token, Arrive(c, t)
    PROVE  BodyOf(c)'
<1>1. SameBody(c) /\ pc[c] = "new" /\ pc'[c] = "body"
  BY DEF Arrive, Goto, bodyVars, SameBody, TypeOK
<1>2. messages[c] = <<>> /\ Len(messages[c]) = 0 /\ \A i \in 1..0 : FALSE
  BY <1>1, EmptySeq DEF BodyOf
<1> QED BY <1>1, <1>2 DEF BodyOf, SameBody

\* Only the call itself moves its place and its body.
LEMMA OthersStay ==
    ASSUME TypeOK, NEW c \in Call, NEW s, Goto(c, s) \/ UNCHANGED pc,
           Forget(c) \/ Receive(c) \/ Replay(c) \/ UNCHANGED bodyVars
    PROVE  \A d \in Call \ {c} : SameBody(d) /\ pc'[d] = pc[d]
<1> SUFFICES ASSUME NEW d \in Call \ {c} PROVE SameBody(d) /\ pc'[d] = pc[d]
  OBVIOUS
<1>1. pc'[d] = pc[d]
  BY DEF Goto, TypeOK
<1>2. CASE Forget(c)
  BY <1>1, <1>2 DEF Forget, SameBody, TypeOK, BodyTypeOK
<1>3. CASE Replay(c)
  BY <1>1, <1>3 DEF Replay, SameBody, TypeOK, BodyTypeOK
<1>4. CASE Receive(c)
  BY <1>1, <1>4 DEF Receive, Send, Keep, SameBody, TypeOK, BodyTypeOK
<1>5. CASE UNCHANGED bodyVars
  BY <1>1, <1>5 DEF bodyVars, SameBody
<1> QED BY <1>2, <1>3, <1>4, <1>5

LEMMA BodyStep ==
    ASSUME TypeOK, BodyInv, Next
    PROVE  BodyInv'
<1> DEFINE Past == PCs \ {"new", "body"}
<1>1. ASSUME NEW c \in Call, NEW s, Goto(c, s) \/ UNCHANGED pc,
             Forget(c) \/ Receive(c) \/ Replay(c) \/ UNCHANGED bodyVars, BodyOf(c)'
      PROVE  BodyInv'
  <2>1. \A d \in Call \ {c} : SameBody(d) /\ pc'[d] = pc[d]
    BY <1>1, OthersStay
  <2>2. \A d \in Call \ {c} : BodyOf(d)'
    BY <2>1, BodyStays DEF BodyInv
  <2> QED BY <1>1, <2>2 DEF BodyInv
<1>2. ASSUME NEW c \in Call, NEW s \in Past, Goto(c, s), pc[c] \in Past, UNCHANGED bodyVars
      PROVE  BodyInv'
  <2>1. SameBody(c) /\ pc'[c] = s
    BY <1>2 DEF bodyVars, SameBody, Goto, TypeOK
  <2>2. {pc[c], pc'[c]} \cap {"new", "body"} = {}
    BY <1>2, <2>1
  <2>3. BodyOf(c)'
    BY <2>1, <2>2, BodyStays DEF BodyInv
  <2> QED BY <1>1, <1>2, <2>3
<1>3. ASSUME NEW c \in Call, NEW s, Goto(c, s), Forget(c) PROVE BodyInv'
  BY <1>1, <1>3, BodyForgotten
<1>4. ASSUME NEW c \in Call, NEW t \in Token, Arrive(c, t) PROVE BodyInv'
  <2>1. BodyOf(c)'
    BY <1>4, BodyArrives DEF BodyInv
  <2>2. Goto(c, "body") /\ UNCHANGED bodyVars
    BY <1>4 DEF Arrive
  <2> QED BY <1>1, <2>1, <2>2
<1>5. ASSUME NEW c \in Call, Receive(c) PROVE BodyInv'
  <2>1. BodyOf(c)'
    BY <1>5, BodyReceived DEF BodyInv
  <2>2. \E s : Goto(c, s)
    BY <1>5 DEF Receive
  <2> QED BY <1>1, <1>5, <2>1, <2>2
<1>6. ASSUME NEW c \in Call, ReadBody(c) PROVE BodyInv'
  <2>1. BodyOf(c)'
    BY <1>6, BodyReplayed DEF BodyInv
  <2>2. Replay(c) /\ UNCHANGED pc
    BY <1>6 DEF ReadBody
  <2> QED BY <1>1, <2>1, <2>2
<1>7. ASSUME NEW c \in Call, CallTool(c) PROVE BodyInv'
  BY <1>3, <1>7 DEF CallTool
<1>8. ASSUME NEW c \in Call, TooLarge(c) \/ Disconnect(c) \/ Unauthorized(c) PROVE BodyInv'
  <2>1. Forget(c) /\ Goto(c, "done")
    BY <1>8 DEF TooLarge, Disconnect, Unauthorized, Refuse
  <2> QED BY <1>3, <2>1
<1>9. ASSUME NEW c \in Call, NEW step \in OnControl \cup OnSource,
             TakeControl(c, step) \/ TakeSource(c, step)
      PROVE  BodyInv'
  <2>1. Goto(c, step) /\ UNCHANGED bodyVars /\ pc[c] = Before[step]
    BY <1>9 DEF TakeControl, TakeSource
  <2>2. step \in Past /\ Before[step] \in Past
    BY DEF OnControl, OnSource, Before, PCs, Operating
  <2> HIDE DEF Past
  <2> QED BY <1>2, <2>1, <2>2
<1>10. ASSUME NEW c \in Call,
              GetToken(c) \/ GetPrincipal(c) \/ Resolved(c) \/ AppendAudit(c) \/ AuditFails(c)
                \/ CancelAudit(c) \/ ToolReturns(c) \/ ResponseTooLarge(c) \/ ToolFails(c)
                \/ Cancel(c)
       PROVE  BodyInv'
  <2>1. UNCHANGED bodyVars /\ \E s \in {"principal", "read", "query", "done", "audit"} : Goto(c, s)
    BY <1>10 DEF GetToken, GetPrincipal, Resolved, AppendAudit, AuditFails, CancelAudit, End,
                 ToolReturns, ResponseTooLarge, ToolFails, Cancel, Leave
  <2>2. pc[c] \in Past
    BY <1>10 DEF GetToken, GetPrincipal, Resolved, AppendAudit, AuditFails, CancelAudit,
                 ToolReturns, ResponseTooLarge, ToolFails, Cancel, PCs, Operating, OnControl
  <2>3. {"principal", "read", "query", "done", "audit"} \subseteq Past
    BY DEF PCs, Operating
  <2> HIDE DEF Past
  <2> QED BY <1>2, <2>1, <2>2, <2>3
<1>11. ASSUME (\E t \in Token : Mint(t) \/ Kill(t)) \/ SetStatus PROVE BodyInv'
  <2>1. UNCHANGED <<bodyVars, pc>>
    BY <1>11 DEF Mint, Kill, SetStatus
  <2>2. \A c \in Call : SameBody(c) /\ pc'[c] = pc[c]
    BY <2>1 DEF bodyVars, SameBody
  <2> QED BY <2>2, BodyStays DEF BodyInv
<1> HIDE DEF Past
<1> QED BY <1>4, <1>5, <1>6, <1>7, <1>8, <1>9, <1>10, <1>11 DEF Next, Step

\* So the application has a first part of the body, and at its end all of it.
LEMMA BodyIsIntact ==
    ASSUME TypeOK, BodyInv
    PROVE  BodyIntact
<1> SUFFICES ASSUME NEW c \in Call
             PROVE  /\ IsPrefix(seen[c], sent[c])
                    /\ seen[c] # <<>> => ~Last(sent[c]).more /\ Size(sent[c]) <= MaxBytes
                    /\ BodyRead(c) => seen[c] = sent[c]
  BY DEF BodyIntact
<1> DEFINE body == messages[c]
           got == seen[c]
           n == Len(body)
           k == Len(got)
<1>1. /\ body = sent[c] /\ index[c] = k /\ k <= n /\ Size(body) <= MaxBytes
      /\ \A i \in 1..k : got[i] = body[i]
      /\ \A i \in 1..n : i < n => body[i].more
      /\ pc[c] \notin {"new", "body"} /\ body # <<>> => ~body[n].more
      /\ pc[c] \in {"new", "body"} => index[c] = 0
  BY DEF BodyInv, BodyOf
<1>2. got \in Seq(Message) /\ body \in Seq(Message) /\ k \in Nat /\ n \in Nat
  BY LenProperties DEF TypeOK, BodyTypeOK
<1>3. Last(body) = body[n] /\ Last(got) = got[k]
  BY DEF Last
<1>4. got # <<>> => k \in 1..n
  BY <1>1, <1>2, EmptySeq
<1>5. IsPrefix(got, body)
  <2>1. \A i \in 1..k : body[i] \in Message /\ got[i] \in Message
    <3>1. \A i \in 1..k : i \in 1..n
      BY <1>1, <1>2
    <3> QED BY <1>2, <3>1, ElementOfSeq
  <2>2. 1 \in Int /\ k \in Int /\ k - 1 + 1 = k /\ (IF 1 <= k THEN k - 1 + 1 ELSE 0) = k
        /\ \A i \in 1..k : 1 + i - 1 = i
    BY <1>2
  <2>3. /\ SubSeq(body, 1, k) \in Seq(Message) /\ Len(SubSeq(body, 1, k)) = k
        /\ \A i \in 1..k : SubSeq(body, 1, k)[i] = body[i]
    <3>1. /\ SubSeq(body, 1, k) \in Seq(Message)
          /\ Len(SubSeq(body, 1, k)) = IF 1 <= k THEN k - 1 + 1 ELSE 0
          /\ \A i \in 1..(k - 1 + 1) : SubSeq(body, 1, k)[i] = body[1 + i - 1]
      <4> HIDE DEF body, got, k
      <4> QED BY <2>1, <2>2, SubSeqProperties
    <3> HIDE DEF body, got, k
    <3> QED BY <2>2, <3>1
  <2>4. SubSeq(got, 1, k) = got
    BY <1>2, SubSeqFull
  <2>5. SubSeq(body, 1, k) = got
    <3> HIDE DEF body
    <3> QED BY <1>1, <1>2, <2>3, SeqEqual
  <2> QED BY <1>1, <2>4, <2>5 DEF IsPrefix
<1>6. got # <<>> => ~body[n].more
  <2>1. got # <<>> => body # <<>> /\ index[c] # 0
    BY <1>1, <1>2, <1>4, EmptySeq
  <2> QED BY <1>1, <2>1
<1>7. BodyRead(c) => got = body
  <2> SUFFICES ASSUME BodyRead(c) PROVE got = body
    OBVIOUS
  <2>1. got # <<>> /\ ~got[k].more /\ k \in 1..n /\ k \in 1..k
    BY <1>2, <1>3, <1>4 DEF BodyRead
  <2>2. ~(k < n)
    BY <1>1, <2>1
  <2>3. k = n
    BY <1>1, <1>2, <2>2
  <2> HIDE DEF body, got
  <2> QED BY <1>1, <1>2, <2>3, SeqEqual
<1> HIDE DEF n, k
<1> QED BY <1>1, <1>3, <1>5, <1>6, <1>7

-----------------------------------------------------------------------------
(* Theorems.                                                                *)

LEMMA InitIInv == Init => IInv
<1> SUFFICES ASSUME Init PROVE IInv
  OBVIOUS
<1>1. BodyTypeOK
  BY EmptySeq DEF Init, BodyInit, BodyTypeOK
<1>2. TypeOK
  <2>1. ControlMax \in Nat /\ SourceMax \in Nat
    BY Pools
  <2>2. control \in 0..ControlMax /\ source \in 0..SourceMax
    BY <2>1 DEF Init
  <2>3. active \in BOOLEAN
    BY DEF Init
  <2>4. pc \in [Call -> PCs]
    BY DEF Init, PCs
  <2> QED BY <1>1, <2>2, <2>3, <2>4 DEF Init, TypeOK
<1>3. ConnectionsReturned
  <2>1. /\ {c \in Call : pc[c] \in OnControl} = {}
        /\ {c \in Call : pc[c] \in OnSource} = {}
    BY DEF Init, OnControl, OnSource
  <2> QED BY <2>1, FS_EmptySet, Pools DEF Init, ConnectionsReturned
<1>4. Verified
  BY DEF Init, Verified, Tooling, Operating
<1>5. Unaudited /\ AuditAgrees
  BY DEF Init, Unaudited, AuditAgrees
<1>6. BodyInv
  <2>1. Len(<<>>) = 0 /\ Size(<<>>) = 0 /\ 0 <= MaxBytes /\ \A i \in 1..0 : FALSE
    BY SizeEmpty, BodyBounds, EmptySeq
  <2> QED BY <2>1 DEF Init, BodyInit, BodyInv, BodyOf
<1> QED BY <1>2, <1>3, <1>4, <1>5, <1>6 DEF IInv

LEMMA StutterStep ==
    ASSUME IInv, UNCHANGED vars
    PROVE  IInv'
<1>1. BodyTypeOK'
  BY DEF IInv, TypeOK, BodyTypeOK, vars, bodyVars
<1>2. TypeOK' /\ ConnectionsReturned'
  BY <1>1 DEF IInv, TypeOK, ConnectionsReturned, vars, pools, audit, seenGood
<1>3. Verified'
  <2>1. UNCHANGED <<token, pc, tok, tokenGood, ownerGood>> /\ (active' <=> active)
    BY DEF vars, seenGood
  <2> QED BY <2>1 DEF IInv, Verified
<1>4. Unaudited' /\ AuditAgrees'
  BY DEF IInv, Unaudited, AuditAgrees, vars, audit
<1>5. BodyInv'
  BY BodyStays DEF IInv, BodyInv, SameBody, vars, bodyVars
<1> QED BY <1>2, <1>3, <1>4, <1>5 DEF IInv

\* The inductive invariant is one.
THEOREM Invariance == Spec => []IInv
<1>1. IInv /\ [Next]_vars => IInv'
  BY TypeStep, VerifiedStep, AuditStep, BodyStep, StutterStep DEF IInv
<1> QED BY <1>1, InitIInv, PTL DEF Spec

\* Calls, tokens, pools and the log keep their types.
THEOREM TypeCorrect == Spec => []TypeOK
<1>1. IInv => TypeOK
  BY DEF IInv
<1> QED BY <1>1, Invariance, PTL

\* For pools of any size and any finite number of calls: however a transaction
\* ends, its connection is idle again.
THEOREM NoConnectionIsLost == Spec => []ConnectionsReturned
<1>1. IInv => ConnectionsReturned
  BY DEF IInv
<1> QED BY <1>1, Invariance, PTL

\* A tool runs only for a token that was good, and a principal that was active,
\* at some time since the request arrived.
THEOREM ToolsAreAuthorized == Spec => []AuthorizedSinceArrival
<1>1. IInv => AuthorizedSinceArrival
  BY DEF IInv, Verified, AuthorizedSinceArrival, Tooling
<1> QED BY <1>1, Invariance, PTL

\* The log and the client are told the same, or the log nothing for a failure
\* that was logged elsewhere.
THEOREM LogAgrees == Spec => []AuditAgrees
<1>1. IInv => AuditAgrees
  BY DEF IInv
<1> QED BY <1>1, Invariance, PTL

\* For a limit and messages of any size: the application gets the messages the
\* client sent, in their order and within the limit, none before the body is
\* complete and, when it has seen the end, all of them.
THEOREM BodyArrivesIntact == Spec => []BodyIntact
<1>1. IInv => BodyIntact
  BY BodyIsIntact DEF IInv
<1> QED BY <1>1, Invariance, PTL
=============================================================================
