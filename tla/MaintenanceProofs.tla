---------------------------- MODULE MaintenanceProofs ----------------------------
(***************************************************************************)
(* Proofs about the life of the process and the cleanup it runs, for any   *)
(* sources, lifetimes and bounds.  Each part is proved by itself, for      *)
(* Spec of ServerLifecycle and RetentionSpec of TokenRetention;            *)
(* Maintenance is shown to implement both and inherits what holds of them. *)
(***************************************************************************)
EXTENDS Maintenance, SequenceTheorems, TLAPS

-----------------------------------------------------------------------------
(* The process.                                                             *)

\* What the loops over the sources have done is in open, what is left in next.
PoolsFollowPhase ==
    /\ phase \in {"down", "openControl", "stopped"} => open = {}
    /\ phase = "principal" => open = {Control}
    /\ phase \in {"openSource", "context"} =>
          /\ next # <<>> /\ Control \in open
          /\ Range(Sources) \subseteq open \cup Range(next)
    /\ phase = "context" => Head(next) \in open
    /\ phase \in {"startRuntime", "serving", "stopTask", "stopSessions"} => open = Pools
    /\ phase = "closeSources" => open \subseteq Range(next) \cup {Control}

\* The session manager and the task live between StartRuntime and their stops.
RuntimeFollowsPhase ==
    /\ sessions => phase \in {"serving", "stopTask", "stopSessions"}
    /\ task # "none" => phase \in {"serving", "stopTask"}
    /\ phase = "serving" => sessions /\ task \in {"waiting", "running"} /\ ~stopSet

LifecycleInv == TypeOK /\ PoolsFollowPhase /\ RuntimeFollowsPhase

\* One turn of a loop over the sources takes their head away.
LEMMA OneTurn ==
    ASSUME NEW S, NEW s \in Seq(S), s # <<>>
    PROVE  /\ Head(s) \in S /\ Tail(s) \in Seq(S)
           /\ Range(s) = {Head(s)} \cup Range(Tail(s))
<1>1. /\ Head(s) \in S /\ Tail(s) \in Seq(S) /\ Len(s) \in Nat /\ Len(s) > 0
      /\ DOMAIN s = 1..Len(s) /\ Len(Tail(s)) = Len(s) - 1
      /\ \A i \in 1..Len(Tail(s)) : Tail(s)[i] = s[i + 1]
      /\ DOMAIN Tail(s) = 1..Len(Tail(s)) /\ Head(s) = s[1]
  BY HeadTailProperties, LenProperties, EmptySeq
<1>2. ASSUME NEW x \in Range(s) PROVE x \in {Head(s)} \cup Range(Tail(s))
  <2>1. PICK i \in 1..Len(s) : x = s[i]
    BY <1>1, <1>2 DEF Range
  <2>2. CASE i = 1
    BY <1>1, <2>1, <2>2
  <2>3. CASE i # 1
    <3>1. i - 1 \in 1..Len(Tail(s)) /\ Tail(s)[i - 1] = s[(i - 1) + 1]
      BY <1>1, <2>3
    <3>2. (i - 1) + 1 = i
      OBVIOUS
    <3> QED BY <1>1, <2>1, <3>1, <3>2 DEF Range
  <2> QED BY <2>2, <2>3
<1>3. Head(s) \in Range(s)
  BY <1>1 DEF Range
<1>4. ASSUME NEW x \in Range(Tail(s)) PROVE x \in Range(s)
  <2>1. PICK i \in 1..Len(Tail(s)) : x = Tail(s)[i]
    BY <1>1, <1>4 DEF Range
  <2>2. i + 1 \in 1..Len(s) /\ x = s[i + 1]
    BY <1>1, <2>1
  <2> QED BY <1>1, <2>2 DEF Range
<1> QED BY <1>1, <1>2, <1>3, <1>4

LEMMA LifecycleInit == Init => LifecycleInv
<1>1. <<>> \in Seq(Range(Sources))
  BY EmptySeq
<1> QED BY <1>1 DEF Init, LifecycleInv, TypeOK, Phases, PoolsFollowPhase, RuntimeFollowsPhase

LEMMA LifecycleStep == LifecycleInv /\ [Next]_vars => LifecycleInv'
<1> SUFFICES ASSUME LifecycleInv, [Next]_vars PROVE LifecycleInv'
  OBVIOUS
<1> USE DEF LifecycleInv, TypeOK, Phases, PoolsFollowPhase, RuntimeFollowsPhase
<1>0. next # <<>> => /\ Head(next) \in Range(Sources) /\ Tail(next) \in Seq(Range(Sources))
                     /\ Range(next) = {Head(next)} \cup Range(Tail(next))
  BY OneTurn
<1>e. Range(<<>>) = {}
  BY DEF Range
<1>1. CASE Launch
  BY <1>1 DEF Launch
<1>2. CASE Start
  <2>1. CASE OpenControl
    BY <2>1 DEF OpenControl, Pools
  <2>2. CASE EnsurePrincipal
    BY <2>2, Configured DEF EnsurePrincipal
  <2>3. CASE OpenSource
    BY <2>3, <1>0 DEF OpenSource, Pools
  <2>4. CASE CheckContext
    <3>1. Tail(next) = <<>> => open = Pools
      BY <2>4, <1>0, <1>e DEF CheckContext, Pools
    <3> QED BY <2>4, <3>1, <1>0 DEF CheckContext
  <2>5. CASE StartRuntime
    BY <2>5 DEF StartRuntime
  <2> QED BY <1>2, <2>1, <2>2, <2>3, <2>4, <2>5 DEF Start
<1>3. CASE StartFails
  BY <1>3, Configured DEF StartFails, Pools
<1>4. CASE StartRuntimeFails
  BY <1>4 DEF StartRuntimeFails
<1>5. CASE Shutdown
  BY <1>5 DEF Shutdown
<1>6. CASE Stop
  <2>1. CASE TaskStopped
    BY <2>1 DEF TaskStopped
  <2>2. CASE TaskCancelled
    BY <2>2 DEF TaskCancelled
  <2>3. CASE StopSessions
    BY <2>3, Configured DEF StopSessions, Pools
  <2>4. CASE CloseSource
    BY <2>4, <1>0 DEF CloseSource
  <2>5. CASE CloseControl
    BY <2>5, <1>e DEF CloseControl
  <2> QED BY <1>6, <2>1, <2>2, <2>3, <2>4, <2>5 DEF Stop
<1>7. CASE Relaunch
  BY <1>7 DEF Relaunch
<1>8. CASE Wake
  BY <1>8 DEF Wake
<1>9. CASE RunEnds
  BY <1>9 DEF RunEnds
<1>10. CASE UNCHANGED vars
  BY <1>10 DEF vars
<1> QED BY <1>1, <1>2, <1>3, <1>4, <1>5, <1>6, <1>7, <1>8, <1>9, <1>10 DEF Next

\* The life of the process: types, a pool under every maintenance run, a server
\* that is whole while it serves and gone when it stopped.
THEOREM LifecycleHolds ==
    Spec => [](TypeOK /\ MaintenanceHasPool /\ ServingIsWhole /\ NothingLeaks)
<1>1. LifecycleInv => TypeOK /\ MaintenanceHasPool /\ ServingIsWhole /\ NothingLeaks
  BY DEF LifecycleInv, TypeOK, PoolsFollowPhase, RuntimeFollowsPhase, Pools,
         MaintenanceHasPool, ServingIsWhole, NothingLeaks
<1> QED BY <1>1, LifecycleInit, LifecycleStep, PTL DEF Spec

-----------------------------------------------------------------------------
(* The rows.                                                                *)

\* As long as no restart shortens the lifetime, tokens expire in the order in
\* which they replaced each other, and the next one no sooner than the last.
ExpiryOrdered ==
    ~shortened =>
        /\ \A i \in Chain : i + 1 \in Chain /\ i < last => expires[i] <= expires[i + 1]
        /\ last > 0 => expires[last] <= now + lifetime

RetentionInv == RetentionTypeOK /\ ExpiryOrdered /\ OnlyShorteningBlocks

LEMMA RetentionStarts == RetentionInit => RetentionInv
<1> SUFFICES ASSUME RetentionInit PROVE RetentionInv
  OBVIOUS
<1>1. /\ now \in Nat /\ lifetime \in Lifetimes /\ last \in 0..MaxChain
      /\ expires \in [Chain -> Nat] /\ rows \subseteq 1..last
  BY Bounds DEF RetentionInit, Chain
<1>2. lastRun = "none" /\ shortened \in BOOLEAN
  BY DEF RetentionInit
<1>3. ExpiryOrdered
  BY <1>1 DEF RetentionInit, ExpiryOrdered
<1> QED BY <1>1, <1>2, <1>3 DEF RetentionInv, RetentionTypeOK, OnlyShorteningBlocks

LEMMA RetentionStep == RetentionInv /\ [RetentionNext]_retentionVars => RetentionInv'
<1> SUFFICES ASSUME RetentionInv, [RetentionNext]_retentionVars PROVE RetentionInv'
  OBVIOUS
<1> USE Bounds DEF RetentionInv, RetentionTypeOK, Chain
<1>1. CASE Insert
  <2>1. RetentionTypeOK'
    BY <1>1 DEF Insert
  <2>2. ExpiryOrdered'
    BY <1>1 DEF Insert, ExpiryOrdered
  <2> QED BY <1>1, <2>1, <2>2 DEF Insert, OnlyShorteningBlocks
<1>2. CASE Tick
  BY <1>2 DEF Tick, ExpiryOrdered, OnlyShorteningBlocks
<1>3. CASE Reconfigure
  <2>1. shortened' \in BOOLEAN
    BY <1>3 DEF Reconfigure
  <2>2. ~shortened' => ~shortened /\ ~(lifetime' < lifetime)
    BY <1>3 DEF Reconfigure
  <2>3. ~shortened' => lifetime <= lifetime'
    BY <1>3, <2>2 DEF Reconfigure
  <2>4. RetentionTypeOK'
    BY <1>3, <2>1 DEF Reconfigure
  <2>5. ExpiryOrdered'
    <3> SUFFICES ASSUME ~shortened' PROVE (ExpiryOrdered)'
      BY DEF ExpiryOrdered
    <3> QED BY <1>3, <2>2, <2>3, <2>4 DEF Reconfigure, ExpiryOrdered
  <2>6. OnlyShorteningBlocks'
    BY <1>3, <2>2 DEF Reconfigure, OnlyShorteningBlocks
  <2> QED BY <2>4, <2>5, <2>6
<1>4. CASE Cleanup
  <2>1. ~shortened => ~Blocked
    BY DEF Blocked, ExpiryOrdered, Expired
  <2> QED BY <1>4, <2>1 DEF Cleanup, ExpiryOrdered, OnlyShorteningBlocks
<1>5. CASE UNCHANGED retentionVars
  BY <1>5 DEF retentionVars, ExpiryOrdered, OnlyShorteningBlocks
<1> QED BY <1>1, <1>2, <1>3, <1>4, <1>5 DEF RetentionNext

\* Whatever the lifetimes and however long the chain: a cleanup that reaches the
\* store fails on the tokens' foreign key only after a restart that shortened
\* the lifetime.
THEOREM OnlyShorteningBlocksCleanup == RetentionSpec => []OnlyShorteningBlocks
<1>1. RetentionInv => OnlyShorteningBlocks
  BY DEF RetentionInv
<1> QED BY <1>1, RetentionStarts, RetentionStep, PTL DEF RetentionSpec

-----------------------------------------------------------------------------
(* The two together.                                                        *)

LEMMA StepIsOfBoth ==
    [MaintenanceNext]_allVars => [Next]_vars /\ [RetentionNext]_retentionVars
BY DEF MaintenanceNext, allVars, Lifecycle, RelaunchConfigured, RunReachesStore, RunFails,
       CancelledAfterCommit, Issue, TimePasses, Next, RetentionNext, Stop

\* The cleanup task at work is a run of the process and a history of the rows,
\* so that the properties of each hold of it.
THEOREM MaintenanceImplementsBoth == MaintenanceSpec => Spec /\ RetentionSpec
<1>1. MaintenanceInit => Init /\ RetentionInit
  BY DEF MaintenanceInit
<1> QED BY <1>1, StepIsOfBoth, PTL DEF MaintenanceSpec, Spec, RetentionSpec

\* No run of the server cleans up without the control pool it deletes through.
THEOREM MaintenanceAlwaysHasPool == MaintenanceSpec => []MaintenanceHasPool
BY MaintenanceImplementsBoth, LifecycleHolds, PTL

\* No run of the server takes requests before every pool, the session manager
\* and the task are there, or after the first of them is gone.
THEOREM ServerIsWhole == MaintenanceSpec => []ServingIsWhole
BY MaintenanceImplementsBoth, LifecycleHolds, PTL

\* However a start fails and a shutdown goes, a stopped server left nothing open.
THEOREM ServerLeavesNothing == MaintenanceSpec => []NothingLeaks
BY MaintenanceImplementsBoth, LifecycleHolds, PTL

\* In no run of the server does cleanup fail on the foreign key while restarts
\* leave the lifetime as it is or make it longer.
THEOREM MaintenanceIsNotBlocked == MaintenanceSpec => []OnlyShorteningBlocks
BY MaintenanceImplementsBoth, OnlyShorteningBlocksCleanup, PTL
=============================================================================
