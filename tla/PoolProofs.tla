----------------------------- MODULE PoolProofs -----------------------------
(***************************************************************************)
(* For any number of requests, connections and threads: every connection   *)
(* that is out belongs to one request that is on its way to give it back,  *)
(* and the event loop waits for a connection only when the requests in     *)
(* progress need more than there are.                                      *)
(*                                                                         *)
(* NoLeak alone is not inductive: it says nothing of /ready, which ends     *)
(* without closing a session, nor of which requests ping.                   *)
(***************************************************************************)
EXTENDS Pool, FiniteSetTheorems, TLAPS

ReadyHasNoSession ==
    \A r \in Requests : KindOf[r] = "ready" =>
        /\ pc[r] \in {"idle", "ping"}
        /\ \A c \in Connections : owner[c] # r

PingsAreForHealth ==
    \A r \in Requests : At(r, "ping") => KindOf[r] \in {"ready", "health"}

IInv == TypeOK /\ NoLeak /\ ReadyHasNoSession /\ PingsAreForHealth

USE WorkerAssumption DEF At, Goto, LoopFree

-----------------------------------------------------------------------------
LEMMA InitHolds == Init => IInv
BY DEF Init, IInv, TypeOK, NoLeak, ReadyHasNoSession, PingsAreForHealth,
       Pcs, Holding, Kinds

\* A request that moves between places that may hold a connection, or that
\* had none, keeps the invariant.
LEMMA MoveHolds ==
    ASSUME IInv,
           NEW r \in Requests,
           NEW place \in Pcs,
           pc' = [pc EXCEPT ![r] = place],
           loop' = loop \/ loop' = None,
           loop # r \/ loop' = None,
           UNCHANGED owner,
           KindOf[r] = "ready" => place \in {"idle", "ping"},
           place # "ping",
           place \in Holding \/ \A c \in Connections : owner[c] # r
    PROVE  IInv'
<1>1. TypeOK'
  BY DEF IInv, TypeOK, Pcs
<1>2. NoLeak'
  BY DEF IInv, TypeOK, NoLeak, Holding
<1>3. ReadyHasNoSession'
  BY DEF IInv, TypeOK, ReadyHasNoSession
<1>4. PingsAreForHealth'
  BY DEF IInv, TypeOK, PingsAreForHealth
<1> QED
  BY <1>1, <1>2, <1>3, <1>4 DEF IInv

-----------------------------------------------------------------------------
LEMMA ArriveHolds ==
    ASSUME IInv, NEW r \in Requests, Arrive(r)
    PROVE  IInv'
<1>1. \A c \in Connections : owner[c] # r
  BY DEF IInv, TypeOK, NoLeak, Holding, Arrive
<1>2. CASE KindOf[r] # "ready"
  BY <1>1, <1>2, MoveHolds DEF Arrive, Pcs
<1>3. CASE KindOf[r] = "ready"
  <2>1. /\ pc' = [pc EXCEPT ![r] = "ping"]
        /\ loop' = r
        /\ owner' = owner
    BY <1>3 DEF Arrive
  <2>2. TypeOK'
    BY <2>1 DEF IInv, TypeOK, Pcs
  <2>3. NoLeak'
    BY <1>1, <2>1 DEF IInv, TypeOK, NoLeak, Holding
  <2>4. ReadyHasNoSession' /\ PingsAreForHealth'
    BY <1>3, <2>1 DEF IInv, TypeOK, ReadyHasNoSession, PingsAreForHealth
  <2> QED
    BY <2>2, <2>3, <2>4 DEF IInv
<1> QED
  BY <1>2, <1>3

LEMMA BeginQueryHolds ==
    ASSUME IInv, NEW r \in Requests, BeginQuery(r)
    PROVE  IInv'
<1>1. \A c \in Connections : owner[c] # r
  BY DEF IInv, TypeOK, NoLeak, Holding, BeginQuery
<1>2. TypeOK'
  BY DEF IInv, TypeOK, Pcs, BeginQuery
<1>3. NoLeak'
  BY <1>1 DEF IInv, TypeOK, NoLeak, Holding, BeginQuery
<1>4. ReadyHasNoSession' /\ PingsAreForHealth'
  BY DEF IInv, TypeOK, ReadyHasNoSession, PingsAreForHealth, BeginQuery
<1> QED
  BY <1>2, <1>3, <1>4 DEF IInv

\* The only step that takes a connection, of a request that had none
LEMMA QueryHolds ==
    ASSUME IInv, NEW r \in Requests, Query(r)
    PROVE  IInv'
<1>1. PICK c \in Connections :
          owner[c] = None /\ owner' = [owner EXCEPT ![c] = r]
  BY DEF Query, Takes, Available
<1>2. PICK place \in {"responding", "hop_queued", "ping"} :
          /\ pc' = [pc EXCEPT ![r] = place]
          /\ place = "ping" => KindOf[r] = "health" /\ loop' = r
          /\ place # "ping" => loop' = None
  BY DEF Query
<1>3. /\ KindOf[r] # "ready"
      /\ \A d \in Connections : owner[d] # r
  BY DEF IInv, TypeOK, NoLeak, Holding, ReadyHasNoSession, Query
<1>4. TypeOK'
  BY <1>1, <1>2 DEF IInv, TypeOK, Pcs
<1>5. NoLeak'
  <2>1. \A d \in Connections : owner'[d] = IF d = c THEN r ELSE owner[d]
    BY <1>1 DEF IInv, TypeOK
  <2>2. \A x \in Requests : pc'[x] = IF x = r THEN place ELSE pc[x]
    BY <1>2 DEF IInv, TypeOK
  <2>3. ASSUME NEW d \in Connections, owner'[d] # None
        PROVE  pc'[owner'[d]] \in Holding
    BY <2>1, <2>2, <2>3, <1>2, <1>3 DEF IInv, TypeOK, NoLeak, Holding
  <2>4. ASSUME NEW d \in Connections, NEW e \in Connections,
               owner'[d] = owner'[e], owner'[d] # None
        PROVE  d = e
    BY <2>1, <2>4, <1>3 DEF IInv, TypeOK, NoLeak
  <2> QED
    BY <2>3, <2>4 DEF NoLeak
<1>6. ReadyHasNoSession'
  BY <1>1, <1>2, <1>3 DEF IInv, TypeOK, ReadyHasNoSession
<1>7. PingsAreForHealth'
  BY <1>2 DEF IInv, TypeOK, PingsAreForHealth
<1> QED
  BY <1>4, <1>5, <1>6, <1>7 DEF IInv

LEMMA PingHolds ==
    ASSUME IInv, NEW r \in Requests, Ping(r)
    PROVE  IInv'
<1>1. CASE KindOf[r] = "ready"
  BY <1>1, MoveHolds DEF Ping, Pcs, IInv, ReadyHasNoSession
<1>2. CASE KindOf[r] # "ready"
  BY <1>2, MoveHolds DEF Ping, Pcs, Holding
<1> QED
  BY <1>1, <1>2

LEMMA TimesOutHolds ==
    ASSUME IInv, NEW r \in Requests, TimesOut(r)
    PROVE  IInv'
<1>1. CASE KindOf[r] = "ready"
  BY <1>1, MoveHolds DEF TimesOut, Pcs, IInv, ReadyHasNoSession
<1>2. CASE KindOf[r] # "ready"
  BY <1>2, MoveHolds DEF TimesOut, Pcs, Holding
<1> QED
  BY <1>1, <1>2

LEMMA CloseSessionHolds ==
    ASSUME IInv, NEW r \in Requests, CloseSession(r)
    PROVE  IInv'
<1>1. TypeOK'
  BY DEF IInv, TypeOK, Pcs, CloseSession
<1>2. \A c \in Connections :
          owner'[c] = IF owner[c] = r THEN None ELSE owner[c]
  BY DEF CloseSession
<1>3. NoLeak'
  BY <1>2 DEF IInv, TypeOK, NoLeak, Holding, CloseSession
<1>4. ReadyHasNoSession' /\ PingsAreForHealth'
  BY <1>2 DEF IInv, TypeOK, ReadyHasNoSession, PingsAreForHealth, CloseSession
<1> QED
  BY <1>1, <1>3, <1>4 DEF IInv

\* The rest moves one request and touches no connection.
LEMMA OtherStepsHold ==
    ASSUME IInv,
           NEW r \in Requests,
           \/ Prepare(r) \/ Hop(r) \/ RefuseToken(r) \/ ServeBody(r)
           \/ Respond(r) \/ JobReturns(r)
    PROVE  IInv'
<1>1. pc[r] \notin {"idle", "ping", "query"}
  BY DEF Prepare, Hop, StartJob, RefuseToken, ServeBody, Respond, JobReturns
<1>2. KindOf[r] # "ready" /\ loop # r
  BY <1>1 DEF IInv, TypeOK, ReadyHasNoSession
<1>3. PICK place \in Pcs \ {"ping"} :
          /\ pc' = [pc EXCEPT ![r] = place]
          /\ pc[r] \in Holding => place \in Holding
          /\ loop' = loop
          /\ owner' = owner
          /\ place \in Holding \/ pc[r] \notin Holding
  BY DEF Prepare, Hop, StartJob, RefuseToken, ServeBody, Respond, JobReturns,
         Pcs, Holding
<1>4. pc[r] \notin Holding => \A c \in Connections : owner[c] # r
  BY DEF IInv, TypeOK, NoLeak
<1> QED
  BY <1>2, <1>3, <1>4, MoveHolds

LEMMA NextHolds == IInv /\ [Next]_vars => IInv'
<1> SUFFICES ASSUME IInv, [Next]_vars PROVE IInv'
  OBVIOUS
<1>1. CASE UNCHANGED vars
  BY <1>1 DEF vars, IInv, TypeOK, NoLeak, ReadyHasNoSession, PingsAreForHealth
<1>2. CASE Next
  <2>1. PICK r \in Requests :
            Arrive(r) \/ LoopStep(r) \/ TimesOut(r) \/ ThreadStep(r)
    BY <1>2 DEF Next
  <2> QED
    BY <2>1, ArriveHolds, BeginQueryHolds, QueryHolds, PingHolds, TimesOutHolds,
       CloseSessionHolds, OtherStepsHold DEF LoopStep, ThreadStep
<1> QED
  BY <1>1, <1>2

THEOREM InvariantHolds == Spec => []IInv
BY InitHolds, NextHolds, PTL DEF Spec

-----------------------------------------------------------------------------
(* A request, at most one thread or the loop, and its connection *)
THEOREM TypeCorrect == Spec => []TypeOK
<1>1. IInv => TypeOK
  BY DEF IInv
<1> QED
  BY <1>1, InvariantHolds, PTL

(* get_db_session: whatever becomes of a request, its connection is with it  *)
(* until its session is closed, and it never has two.                        *)
THEOREM ConnectionsComeBack == Spec => []NoLeak
<1>1. IInv => NoLeak
  BY DEF IInv
<1> QED
  BY <1>1, InvariantHolds, PTL

\* Had every connection an owner in progress and were there no fewer connections
\* than they need, two connections would have one owner.
LEMMA StallNeedsMany == IInv => NoStallWithinCapacity
<1> SUFFICES ASSUME IInv, Stalled,
                    Cardinality(InProgress) + Cardinality(Asking)
                        <= Cardinality(Connections)
             PROVE  FALSE
  <2>1. /\ IsFiniteSet(InProgress) /\ IsFiniteSet(Asking)
    BY FS_Subset DEF InProgress, Asking
  <2>2. /\ Cardinality(InProgress) \in Nat
        /\ Cardinality(Asking) \in Nat
        /\ Cardinality(Connections) \in Nat
    BY <2>1, FS_CardinalityType
  <2> QED
    BY <2>2 DEF NoStallWithinCapacity
<1>1. IsFiniteSet(InProgress) /\ IsFiniteSet(Asking)
  BY FS_Subset DEF InProgress, Asking
<1>2. /\ Cardinality(InProgress) \in Nat
      /\ Cardinality(Asking) \in Nat
      /\ Cardinality(Connections) \in Nat
  BY <1>1, FS_CardinalityType
<1>3. owner \in [Connections -> InProgress]
  BY DEF IInv, TypeOK, NoLeak, Holding, Stalled, Available, InProgress
<1>4. \A c, d \in Connections : owner[c] = owner[d] => c = d
  BY DEF IInv, NoLeak, Stalled, Available
<1>5. loop \in InProgress
  BY DEF IInv, TypeOK, Stalled, InProgress
<1>6. CASE loop \in Asking
  <2>1. Cardinality(Asking) # 0
    BY <1>1, <1>6, FS_EmptySet
  <2>2. Cardinality(InProgress) < Cardinality(Connections)
    BY <1>2, <2>1
  <2> QED
    BY <1>1, <1>3, <1>4, <2>2, FS_PigeonHole
<1>7. CASE loop \notin Asking
  <2>1. \A c \in Connections : owner[c] # loop
    BY <1>5, <1>7 DEF IInv, TypeOK, NoLeak, Holding, ReadyHasNoSession,
                      PingsAreForHealth, Stalled, Asking
  <2>2. owner \in [Connections -> InProgress \ {loop}]
    BY <1>3, <2>1
  <2>3. /\ IsFiniteSet(InProgress \ {loop})
        /\ Cardinality(InProgress \ {loop}) = Cardinality(InProgress) - 1
    BY <1>1, <1>5, FS_RemoveElement
  <2>4. Cardinality(InProgress \ {loop}) < Cardinality(Connections)
    BY <1>2, <2>3
  <2> QED
    BY <1>4, <2>2, <2>3, <2>4, FS_PigeonHole
<1> QED
  BY <1>6, <1>7

(* The queries of get_current_user and of the pings cannot block the event    *)
(* loop as long as the requests in progress, health checks counted twice,     *)
(* are at most pool_size + max_overflow.                                      *)
THEOREM LoopRunsWithinCapacity == Spec => []NoStallWithinCapacity
BY InvariantHolds, StallNeedsMany, PTL
=============================================================================
