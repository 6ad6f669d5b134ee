-------------------------------- MODULE Pool --------------------------------
(***************************************************************************)
(* One uvicorn worker: its event loop, its thread pool and its connection  *)
(* pool.  Queries run on the event loop, so a query that finds the          *)
(* connection pool empty blocks the loop, and with it every request that    *)
(* has a connection and waits for the loop to go on; only the threads that  *)
(* are already closing a session give connections back meanwhile, or the    *)
(* timeout of the checkout ends the wait.                                   *)
(*                                                                         *)
(* A request takes its connection with its first query and keeps it until   *)
(* its session is closed in a thread, after the response.  A commit gives   *)
(* it back and the refresh that follows takes one again, with no await in   *)
(* between: the loop alone takes connections, so that there always is one.  *)
(***************************************************************************)
EXTENDS Naturals, FiniteSets

CONSTANTS
    Requests,      \* requests that the worker can have at a time
    KindOf,        \* the endpoint of each
    Connections,   \* pool_size + max_overflow of them
    ThreadLimit,   \* threads that requests share
    None

\* hop:    get_client_service, get_organization_service and get_status_service go
\*         through the thread pool after get_current_user has queried
\* direct: the service is there before the query, and the body follows it
\* ready:  /ready pings on the loop, with no session of its own
\* health: /postgres/health pings while its session has a connection
Kinds == {"hop", "direct", "ready", "health"}

ASSUME WorkerAssumption ==
    /\ KindOf \in [Requests -> Kinds]
    /\ None \notin Requests
    /\ IsFiniteSet(Requests)
    /\ IsFiniteSet(Connections)
    /\ ThreadLimit \in Nat

VARIABLES
    pc,      \* where each request is
    loop,    \* the request that is in a checkout on the event loop
    owner    \* who has each connection

vars == <<pc, loop, owner>>

\* A thread job is queued, runs in a thread, and has returned to the loop.
Pcs == {"idle", "queued", "preparing", "prepared", "query",
        "hop_queued", "hopping", "hopped", "ping", "responding", "closing"}

TypeOK ==
    /\ pc \in [Requests -> Pcs]
    /\ loop \in Requests \cup {None}
    /\ owner \in [Connections -> Requests \cup {None}]
    /\ loop # None => pc[loop] \in {"query", "ping"}

Available == {c \in Connections : owner[c] = None}

Owned(r) == {c \in Connections : owner[c] = r}

\* A job keeps its place in the thread pool until the loop has taken its result.
InThread == {r \in Requests :
                pc[r] \in {"preparing", "prepared", "hopping", "hopped"}}

At(r, place) == pc[r] = place

Goto(r, place) == pc' = [pc EXCEPT ![r] = place]

LoopFree == loop = None

Init ==
    /\ pc = [r \in Requests |-> "idle"]
    /\ loop = None
    /\ owner = [c \in Connections |-> None]
-----------------------------------------------------------------------------
(* Between two awaits the loop runs one request *)

Arrive(r) ==
    /\ LoopFree
    /\ At(r, "idle")
    /\ IF KindOf[r] = "ready"
       THEN Goto(r, "ping") /\ loop' = r
       ELSE Goto(r, "queued") /\ UNCHANGED loop
    /\ UNCHANGED owner

StartJob(r, from, to) ==
    /\ LoopFree
    /\ At(r, from)
    /\ Cardinality(InThread) < ThreadLimit
    /\ Goto(r, to)
    /\ UNCHANGED <<loop, owner>>

\* get_db_session, the service, decode_jwt_token or Supabase: no connection yet
Prepare(r) == StartJob(r, "queued", "preparing")

Hop(r) == StartJob(r, "hop_queued", "hopping")

\* A token that is not valid ends the request before its first query.
RefuseToken(r) ==
    /\ LoopFree
    /\ At(r, "prepared")
    /\ Goto(r, "responding")
    /\ UNCHANGED <<loop, owner>>

\* The first query: the loop is in the checkout of a connection.
BeginQuery(r) ==
    /\ LoopFree
    /\ At(r, "prepared")
    /\ Goto(r, "query")
    /\ loop' = r
    /\ UNCHANGED owner

Takes(r) == \E c \in Available : owner' = [owner EXCEPT ![c] = r]

\* The query succeeds; the caller may still be refused, or the query fails.
Query(r) ==
    /\ loop = r
    /\ At(r, "query")
    /\ Takes(r)
    /\ \/ Goto(r, "responding") /\ loop' = None
       \/ KindOf[r] = "hop" /\ Goto(r, "hop_queued") /\ loop' = None
       \/ KindOf[r] = "health" /\ Goto(r, "ping") /\ UNCHANGED loop

\* Mutant: the answer does not wait for the ping.
AnswersFirst(r) ==
    /\ loop = r
    /\ At(r, "ping")
    /\ Available # {}
    /\ Goto(r, IF KindOf[r] = "ready" THEN "idle" ELSE "responding")
    /\ UNCHANGED <<loop, owner>>

\* The ping takes a connection and gives it back on the spot.
Ping(r) ==
    /\ loop = r
    /\ At(r, "ping")
    /\ Available # {}
    /\ Goto(r, IF KindOf[r] = "ready" THEN "idle" ELSE "responding")
    /\ loop' = None
    /\ UNCHANGED owner

\* Mutant: the checkout is tried again and again.
TriesAgain(r) ==
    /\ loop = r
    /\ Available = {}
    /\ UNCHANGED vars

\* pool_timeout: the request fails, /ready answers 503.
TimesOut(r) ==
    /\ loop = r
    /\ Available = {}
    /\ Goto(r, IF KindOf[r] = "ready" THEN "idle" ELSE "responding")
    /\ loop' = None
    /\ UNCHANGED owner

\* The body of a client or organization endpoint
ServeBody(r) ==
    /\ LoopFree
    /\ At(r, "hopped")
    /\ Goto(r, "responding")
    /\ UNCHANGED <<loop, owner>>

\* The response is out, and a thread of its own is to close the session.
Respond(r) ==
    /\ LoopFree
    /\ At(r, "responding")
    /\ Goto(r, "closing")
    /\ UNCHANGED <<loop, owner>>

-----------------------------------------------------------------------------
(* Threads go on while the loop is blocked *)

JobReturns(r) ==
    /\ \/ At(r, "preparing") /\ Goto(r, "prepared")
       \/ At(r, "hopping") /\ Goto(r, "hopped")
    /\ UNCHANGED <<loop, owner>>

\* Mutant: the session is left to the garbage collector.
LeaveOpen(r) ==
    /\ At(r, "closing")
    /\ Goto(r, "idle")
    /\ UNCHANGED <<loop, owner>>

\* The `finally` of get_db_session
CloseSession(r) ==
    /\ At(r, "closing")
    /\ owner' = [c \in Connections |-> IF owner[c] = r THEN None ELSE owner[c]]
    /\ Goto(r, "idle")
    /\ UNCHANGED loop

LoopStep(r) ==
    \/ Prepare(r) \/ Hop(r) \/ RefuseToken(r) \/ BeginQuery(r) \/ Query(r)
    \/ Ping(r) \/ ServeBody(r) \/ Respond(r)

ThreadStep(r) == JobReturns(r) \/ CloseSession(r)

Next ==
    \E r \in Requests :
        Arrive(r) \/ LoopStep(r) \/ TimesOut(r) \/ ThreadStep(r)

Spec == Init /\ [][Next]_vars

\* Both the loop and the thread limiter serve in the order of arrival, threads
\* return (JWKS and Supabase calls have timeouts), and a checkout that waits
\* 30 s times out.
FairSpec ==
    /\ Spec
    /\ \A r \in Requests :
           /\ SF_vars(LoopStep(r))
           /\ WF_vars(ThreadStep(r))
           /\ WF_vars(TimesOut(r))
-----------------------------------------------------------------------------
(* Properties *)

InProgress == {r \in Requests : pc[r] # "idle"}

Holding == {"hop_queued", "hopping", "hopped", "ping", "responding", "closing"}

\* Whoever has a connection is on the way to its close, and has no other.
NoLeak ==
    /\ \A c \in Connections : owner[c] # None => pc[owner[c]] \in Holding
    /\ \A c, d \in Connections : owner[c] = owner[d] /\ owner[c] # None => c = d

Stalled == loop # None /\ Available = {}

Asking == {r \in InProgress : KindOf[r] = "health"}

\* The loop never waits for a connection while the requests in progress, a
\* health check counted twice, are no more than the connections.
NoStallWithinCapacity ==
    Stalled => Cardinality(InProgress) + Cardinality(Asking) > Cardinality(Connections)

\* Every request ends, although a stall that no thread can end keeps all of
\* those with a connection from giving it back.
RequestsEnd == \A r \in Requests : ~ At(r, "idle") ~> At(r, "idle")
=============================================================================
