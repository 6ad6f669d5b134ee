------------------------------- MODULE Session -------------------------------
(***************************************************************************)
(* The tokens of one installation of the app: the in-memory cache, secure  *)
(* storage, the ApiClients that refresh a session after a 401, the start-up *)
(* check, sign-in and sign-out, against the refresh endpoint of the backend *)
(* and the rotating refresh tokens of Supabase.                             *)
(*                                                                         *)
(* Dart runs one continuation at a time.  A thread is an asynchronous      *)
(* function of the app between two awaits: an API request, the refresh that *)
(* an ApiClient has in flight, the start-up check, or what the person does. *)
(* Calls to secure storage are answered in the order they were made; a call *)
(* and the continuation after it are one step.                             *)
(***************************************************************************)
EXTENDS Naturals, Sequences

CONSTANTS
    Requests,    \* API requests of the screens, each of which may be made again
    ApiClients,  \* the ApiClient instances
    ClientOf,    \* the ApiClient that a request goes through
    Checker,     \* AuthController.checkSession
    Person,      \* sign-in and sign-out, one at a time
    MaxSignIns,  \* bound on the sessions
    MaxGen,      \* bound on the rotations of one session
    NoToken

Threads == Requests \cup ApiClients \cup {Checker, Person}

ASSUME ThreadsAssumption ==
    /\ ClientOf \in [Requests -> ApiClients]
    /\ Checker # Person
    /\ Checker \notin Requests \cup ApiClients
    /\ Person \notin Requests \cup ApiClients
    /\ Requests \cap ApiClients = {}

ASSUME BoundsAssumption == MaxSignIns \in Nat /\ MaxGen \in Nat

VARIABLES
    memory,    \* the tokens that CacheManager holds
    store,     \* the tokens in secure storage
    thread,    \* where each thread is
    calls,     \* the threads that wait for secure storage, in order
    supabase,  \* the sessions at Supabase
    screen,    \* which screen AuthController shows
    since      \* whether tokens have arrived since the last sign-out

vars == <<memory, store, thread, calls, supabase, screen, since>>

\* Access and refresh token of one exchange carry the same number.
Token == [session: 1..MaxSignIns, gen: 0..MaxGen]

ASSUME TokenAssumption == NoToken \notin Token

Pair == [access: Token \cup {NoToken}, refresh: Token \cup {NoToken}]

Empty == [access |-> NoToken, refresh |-> NoToken]

StoragePcs ==
    {"access_read", "refresh_read", "token_read", "save_access",
     "save_refresh", "clear"}

Pcs == StoragePcs \cup {"idle", "sent", "joined", "retry", "posted", "rotated", "otp"}

At(t, pc) == thread[t].pc = pc

Idle == [pc |-> "idle", token |-> NoToken, stage |-> 1]

AllIdle == \A t \in Threads : At(t, "idle")

TypeOK ==
    /\ memory \in Pair
    /\ store \in Pair
    /\ thread \in [Threads -> [pc: Pcs, token: Token \cup {NoToken}, stage: 1..3]]
    /\ \A r \in Requests :
           /\ thread[r].stage <= 2
           /\ At(r, "joined") => ~ At(ClientOf[r], "idle")
    /\ calls \in Seq(Threads)
    /\ supabase \in [signIns: 0..MaxSignIns,
                     gen: [1..MaxSignIns -> 0..MaxGen],
                     expired: [1..MaxSignIns -> 0..MaxGen + 1]]
    /\ screen \in {"login", "loading", "clients"}
    /\ since \in {"nothing", "signed_out", "answered"}

-----------------------------------------------------------------------------
(* Steps that threads share *)

Goto(t, pc, token, stage) ==
    thread' = [thread EXCEPT ![t] = [pc |-> pc, token |-> token, stage |-> stage]]

\* t makes a call to secure storage, behind those in queue.
Call(t, pc, token, stage, queue) ==
    /\ Goto(t, pc, token, stage)
    /\ calls' = Append(queue, t)

\* Secure storage answers t.
Answered(t, pc) ==
    /\ calls # << >>
    /\ Head(calls) = t
    /\ At(t, pc)

\* _getAccessToken up to its first await
GetAccessToken(t, stage, queue) ==
    IF memory.access # NoToken
    THEN Call(t, "refresh_read", memory.access, stage, queue)
    ELSE Call(t, "access_read", thread[t].token, stage, queue)

\* Mutant: the new tokens go to storage only.
TokensStored(t, token, stage) ==
    /\ Call(t, "save_access", token, stage, calls)
    /\ since' = IF since = "nothing" THEN since ELSE "answered"
    /\ UNCHANGED memory

\* An exchange of tokens has been answered: both caches, then two saves.
TokensArrive(t, token, stage) ==
    /\ memory' = [access |-> token, refresh |-> token]
    /\ Call(t, "save_access", token, stage, calls)
    /\ since' = IF since = "nothing" THEN since ELSE "answered"

ExpiredAt(token) == token.gen < supabase.expired[token.session]

Accepted(token) == token # NoToken /\ ~ ExpiredAt(token)

\* Supabase rotates the current refresh token.
Rotates(token) ==
    /\ token.gen = supabase.gen[token.session]
    /\ token.gen < MaxGen

Current(s) == [session |-> s, gen |-> supabase.gen[s]]

\* Within the reuse interval, seconds, the parent of the current token is good
\* for the current one; after it, a spent token ends the session, and that
\* or any other refusal is one of the failures below.
Reuses(token) ==
    /\ token.gen + 1 = supabase.gen[token.session]
    /\ ~ ExpiredAt(Current(token.session))

\* refresh_access_token: Supabase first ...
Exchange(t) ==
    LET token == thread[t].token
        s == token.session
    IN  /\ At(t, "posted")
        /\ \/ /\ Rotates(token)
              /\ supabase' = [supabase EXCEPT !.gen[s] = @ + 1]
              /\ Goto(t, "rotated", [token EXCEPT !.gen = @ + 1], thread[t].stage)
           \/ /\ Reuses(token)
              /\ Goto(t, "rotated", Current(s), thread[t].stage)
              /\ UNCHANGED supabase
        /\ UNCHANGED <<memory, store, calls, screen, since>>

\* ... then the profile in Postgres, and the answer reaches the app.
ExchangeAnswered(t) ==
    /\ At(t, "rotated")
    /\ TokensArrive(t, thread[t].token, thread[t].stage)
    /\ UNCHANGED <<store, supabase, screen>>

\* Secure storage answers the two saves.
AccessSaved(t) ==
    /\ Answered(t, "save_access")
    /\ store' = [store EXCEPT !.access = thread[t].token]
    /\ memory' = IF t = Person THEN [memory EXCEPT !.refresh = thread[t].token]
                               ELSE memory
    /\ Call(t, "save_refresh", thread[t].token, thread[t].stage, Tail(calls))
    /\ UNCHANGED <<supabase, screen, since>>

-----------------------------------------------------------------------------
(* API requests: get, post, patch and delete of ApiClient are alike *)

BeginRequest(r) ==
    /\ At(r, "idle")
    /\ screen = "clients"
    /\ GetAccessToken(r, 1, calls)
    /\ UNCHANGED <<memory, store, supabase, screen, since>>

AccessRead(t) ==
    /\ Answered(t, "access_read")
    /\ t \in Requests \/ store.access # NoToken
    /\ IF store.access # NoToken
       THEN /\ memory' = [memory EXCEPT !.access = store.access]
            /\ Call(t, "refresh_read", store.access, thread[t].stage, Tail(calls))
       ELSE /\ Goto(t, "sent", NoToken, thread[t].stage)
            /\ calls' = Tail(calls)
            /\ UNCHANGED memory
    /\ UNCHANGED <<store, supabase, screen, since>>

\* What _getAccessToken does with the refresh token it finds in storage
Recached ==
    IF store.refresh # NoToken THEN [memory EXCEPT !.refresh = store.refresh]
                               ELSE memory

RefreshRead(r) ==
    /\ Answered(r, "refresh_read")
    /\ memory' = Recached
    /\ Goto(r, "sent", thread[r].token, thread[r].stage)
    /\ calls' = Tail(calls)
    /\ UNCHANGED <<store, supabase, screen, since>>

\* Mutant: nothing ends a request that is refused again.
EndsAccepted(r) ==
    /\ At(r, "sent")
    /\ Accepted(thread[r].token)
    /\ thread' = [thread EXCEPT ![r] = Idle]
    /\ UNCHANGED <<memory, store, calls, supabase, screen, since>>

\* The request ends: with its answer, an error or a timeout.
EndRequest(r) ==
    /\ At(r, "sent")
    /\ thread' = [thread EXCEPT ![r] = Idle]
    /\ UNCHANGED <<memory, store, calls, supabase, screen, since>>

\* 401 on the first attempt: _refreshOnce joins the refresh in flight ...
JoinRefresh(r) ==
    /\ At(r, "sent")
    /\ thread[r].stage = 1
    /\ ~ Accepted(thread[r].token)
    /\ ~ At(ClientOf[r], "idle")
    /\ Goto(r, "joined", thread[r].token, 1)
    /\ UNCHANGED <<memory, store, calls, supabase, screen, since>>

\* ... or starts one, with the refresh token in memory or in storage.
StartRefresh(r) ==
    LET c == ClientOf[r]
        joined == [thread[r] EXCEPT !.pc = "joined"]
    IN  /\ At(r, "sent")
        /\ thread[r].stage = 1
        /\ ~ Accepted(thread[r].token)
        /\ At(c, "idle")
        /\ IF memory.refresh # NoToken
           THEN /\ thread' = [thread EXCEPT ![r] = joined,
                      ![c] = [Idle EXCEPT !.pc = "posted", !.token = memory.refresh]]
                /\ UNCHANGED calls
           ELSE /\ thread' = [thread EXCEPT ![r] = joined,
                                            ![c] = [Idle EXCEPT !.pc = "token_read"]]
                /\ calls' = Append(calls, c)
        /\ UNCHANGED <<memory, store, supabase, screen, since>>

\* The refresh of c ends, and the requests that wait for it become next[r].
Wake(c, next) ==
    LET waiting == {r \in Requests : ClientOf[r] = c /\ At(r, "joined")}
    IN  thread' = [t \in Threads |-> IF t \in waiting THEN next[t]
                                    ELSE IF t = c THEN Idle
                                    ELSE thread[t]]

Failed == [r \in Requests |-> Idle]

Again == [r \in Requests |-> [thread[r] EXCEPT !.pc = "retry", !.stage = @ + 1]]

TokenRead(c) ==
    /\ Answered(c, "token_read")
    /\ store.refresh # NoToken
    /\ memory' = [memory EXCEPT !.refresh = store.refresh]
    /\ Goto(c, "posted", store.refresh, thread[c].stage)
    /\ calls' = Tail(calls)
    /\ UNCHANGED <<store, supabase, screen, since>>

\* No refresh token is left, Supabase or the profile check refuses, or the
\* connection breaks: the tokens stay as they are.
Fails(c) ==
    /\ \/ At(c, "posted") /\ UNCHANGED calls
       \/ At(c, "rotated") /\ UNCHANGED calls
       \/ Answered(c, "token_read") /\ store.refresh = NoToken /\ calls' = Tail(calls)
    /\ UNCHANGED <<memory, store, supabase, screen, since>>

\* Mutant: the requests that joined are not told.
FailsQuietly(c) == Fails(c) /\ thread' = [thread EXCEPT ![c] = Idle]

RefreshFails(c) == Fails(c) /\ Wake(c, Failed)

RefreshSaved(c) ==
    /\ Answered(c, "save_refresh")
    /\ store' = [store EXCEPT !.refresh = thread[c].token]
    /\ Wake(c, Again)
    /\ calls' = Tail(calls)
    /\ UNCHANGED <<memory, supabase, screen, since>>

\* Mutant: the request is repeated with the headers of its first attempt.
RetryOldHeaders(r) ==
    /\ At(r, "retry")
    /\ Call(r, "refresh_read", thread[r].token, thread[r].stage, calls)
    /\ UNCHANGED <<memory, store, supabase, screen, since>>

Retry(r) ==
    /\ At(r, "retry")
    /\ GetAccessToken(r, thread[r].stage, calls)
    /\ UNCHANGED <<memory, store, supabase, screen, since>>

-----------------------------------------------------------------------------
(* AuthController.checkSession: isAuthenticated (stage 1), getCurrentUser    *)
(* (stage 2), and its second attempt after refreshSession (stage 3)          *)

CheckEnds(to) ==
    /\ thread' = [thread EXCEPT ![Checker] = Idle]
    /\ screen' = to

\* No token is left.
CheckFindsNothing ==
    /\ Answered(Checker, "access_read")
    /\ store.access = NoToken
    /\ CheckEnds("login")
    /\ calls' = Tail(calls)
    /\ UNCHANGED <<memory, store, supabase, since>>

\* The user data that a sign-in cached meanwhile, if it has not expired
CheckFindsUser ==
    /\ Answered(Checker, "refresh_read")
    /\ thread[Checker].stage = 2
    /\ screen = "clients"
    /\ memory' = Recached
    /\ CheckEnds("clients")
    /\ calls' = Tail(calls)
    /\ UNCHANGED <<store, supabase, since>>

CheckRefreshRead ==
    /\ Answered(Checker, "refresh_read")
    /\ memory' = Recached
    /\ IF thread[Checker].stage = 1
       THEN IF memory.access # NoToken
            THEN Call(Checker, "refresh_read", memory.access, 2, Tail(calls))
            ELSE Call(Checker, "access_read", thread[Checker].token, 2, Tail(calls))
       ELSE /\ Goto(Checker, "sent", thread[Checker].token, thread[Checker].stage)
            /\ calls' = Tail(calls)
    /\ UNCHANGED <<store, supabase, screen, since>>

CheckAnswered ==
    /\ At(Checker, "sent")
    /\ Accepted(thread[Checker].token)
    /\ CheckEnds("clients")
    /\ UNCHANGED <<memory, store, calls, supabase, since>>

\* Any other answer, an error or a timeout
CheckFails ==
    /\ At(Checker, "sent")
    /\ CheckEnds("login")
    /\ UNCHANGED <<memory, store, calls, supabase, since>>

\* 401: refreshSession
CheckRefreshes ==
    /\ At(Checker, "sent")
    /\ thread[Checker].stage = 2
    /\ ~ Accepted(thread[Checker].token)
    /\ IF memory.refresh # NoToken
       THEN /\ Goto(Checker, "posted", memory.refresh, 2)
            /\ UNCHANGED calls
       ELSE Call(Checker, "token_read", NoToken, 2, calls)
    /\ UNCHANGED <<memory, store, supabase, screen, since>>

CheckTokenRead ==
    /\ Answered(Checker, "token_read")
    /\ calls' = Tail(calls)
    /\ IF store.refresh # NoToken
       THEN /\ memory' = [memory EXCEPT !.refresh = store.refresh]
            /\ Goto(Checker, "posted", store.refresh, 2)
            /\ UNCHANGED screen
       ELSE CheckEnds("login") /\ UNCHANGED memory
    /\ UNCHANGED <<store, supabase, since>>

\* refreshSession clears the tokens on every failure, a timeout included.
CheckRefreshFails ==
    /\ At(Checker, "posted") \/ At(Checker, "rotated")
    /\ memory' = Empty
    /\ Call(Checker, "clear", NoToken, 2, calls)
    /\ UNCHANGED <<store, supabase, screen, since>>

CheckCleared ==
    /\ Answered(Checker, "clear")
    /\ store' = Empty
    /\ CheckEnds("login")
    /\ calls' = Tail(calls)
    /\ UNCHANGED <<memory, supabase, since>>

CheckRefreshed ==
    /\ Answered(Checker, "save_refresh")
    /\ store' = [store EXCEPT !.refresh = thread[Checker].token]
    /\ GetAccessToken(Checker, 3, Tail(calls))
    /\ UNCHANGED <<memory, supabase, screen, since>>

-----------------------------------------------------------------------------
(* Sign-in and sign-out *)

SignIn ==
    /\ screen = "login"
    /\ At(Person, "idle")
    /\ supabase.signIns < MaxSignIns
    /\ Goto(Person, "otp", NoToken, 1)
    /\ screen' = "loading"
    /\ UNCHANGED <<memory, store, calls, supabase, since>>

OtpAccepted ==
    LET s == supabase.signIns + 1
        token == [session |-> s, gen |-> 0]
    IN  /\ At(Person, "otp")
        /\ supabase' = [supabase EXCEPT !.signIns = s]
        /\ memory' = [memory EXCEPT !.access = token]
        /\ Call(Person, "save_access", token, 1, calls)
        /\ since' = "nothing"
        /\ UNCHANGED <<store, screen>>

\* Mutant: the error is swallowed.
OtpSwallowed ==
    /\ At(Person, "otp")
    /\ thread' = [thread EXCEPT ![Person] = Idle]
    /\ UNCHANGED <<memory, store, calls, supabase, screen, since>>

OtpRefused ==
    /\ At(Person, "otp")
    /\ thread' = [thread EXCEPT ![Person] = Idle]
    /\ screen' = "login"
    /\ UNCHANGED <<memory, store, calls, supabase, since>>

SignedIn ==
    /\ Answered(Person, "save_refresh")
    /\ store' = [store EXCEPT !.refresh = thread[Person].token]
    /\ thread' = [thread EXCEPT ![Person] = Idle]
    /\ screen' = "clients"
    /\ calls' = Tail(calls)
    /\ UNCHANGED <<memory, supabase, since>>

SignOut ==
    /\ screen = "clients"
    /\ At(Person, "idle")
    /\ memory' = Empty
    /\ Call(Person, "clear", NoToken, 1, calls)
    /\ screen' = "loading"
    /\ UNCHANGED <<store, supabase, since>>

Saving(t) == At(t, "save_access") \/ At(t, "save_refresh")

SignOutEnds(cleared) ==
    /\ Answered(Person, "clear")
    /\ store' = Empty
    /\ memory' = cleared
    /\ thread' = [thread EXCEPT ![Person] = Idle]
    /\ calls' = Tail(calls)
    /\ screen' = "login"
    /\ since' = IF \E t \in ApiClients \cup {Checker} : Saving(t)
                THEN "answered" ELSE "signed_out"
    /\ UNCHANGED supabase

\* Mutant: the cache is not cleared again after secure storage.
SignedOutOnce == SignOutEnds(memory)

\* deleteAll is answered; AuthController clears the cache a second time.  That
\* it fails, which leaves the tokens in storage and the person with an error,
\* is left out: secure storage answers every call of this module.
SignedOut == SignOutEnds(Empty)

-----------------------------------------------------------------------------
(* Time, and the operating system *)

\* The hour of the access tokens is over.  It began with the last exchange, so
\* what was running then has ended; what starts just before the hour is over
\* and is refused just after it might as well have started after it.  A refresh
\* that hangs for the whole hour is left out.
AccessExpires(s) ==
    /\ AllIdle
    /\ s <= supabase.signIns
    /\ ~ ExpiredAt(Current(s))
    /\ supabase' = [supabase EXCEPT !.expired[s] = supabase.gen[s] + 1]
    /\ UNCHANGED <<memory, store, thread, calls, screen, since>>

\* Ten minutes without a request: the cached tokens expire.
MemoryExpires ==
    /\ AllIdle
    /\ memory # Empty
    /\ memory' = Empty
    /\ UNCHANGED <<store, thread, calls, supabase, screen, since>>

\* The app is opened: checkSession starts.
Opened ==
    [[t \in Threads |-> Idle] EXCEPT ![Checker].pc = "access_read"]

\* The process is killed, and the app is opened again.
Relaunch ==
    /\ memory' = Empty
    /\ thread' = Opened
    /\ calls' = <<Checker>>
    /\ screen' = "login"
    /\ UNCHANGED <<store, supabase, since>>

Init ==
    /\ memory = Empty
    /\ store = Empty
    /\ thread = Opened
    /\ calls = <<Checker>>
    /\ supabase = [signIns |-> 0,
                   gen |-> [s \in 1..MaxSignIns |-> 0],
                   expired |-> [s \in 1..MaxSignIns |-> 0]]
    /\ screen = "login"
    /\ since = "nothing"

RequestStep(r) ==
    AccessRead(r) \/ RefreshRead(r) \/ EndRequest(r) \/ JoinRefresh(r)
        \/ StartRefresh(r) \/ Retry(r)

FlightStep(c) ==
    Exchange(c) \/ ExchangeAnswered(c) \/ AccessSaved(c)
        \/ TokenRead(c) \/ RefreshFails(c) \/ RefreshSaved(c)

CheckStep ==
    \/ AccessRead(Checker) \/ CheckFindsNothing \/ CheckFindsUser
    \/ CheckRefreshRead \/ CheckAnswered \/ CheckFails \/ CheckRefreshes
    \/ CheckTokenRead \/ Exchange(Checker)
    \/ ExchangeAnswered(Checker) \/ AccessSaved(Checker) \/ CheckRefreshFails
    \/ CheckCleared \/ CheckRefreshed

PersonStep == OtpAccepted \/ OtpRefused \/ AccessSaved(Person) \/ SignedIn \/ SignedOut

Next ==
    \/ \E r \in Requests : BeginRequest(r) \/ RequestStep(r)
    \/ \E c \in ApiClients : FlightStep(c)
    \/ CheckStep
    \/ SignIn \/ SignOut \/ PersonStep
    \/ \E s \in 1..MaxSignIns : AccessExpires(s)
    \/ MemoryExpires
    \/ Relaunch

Spec == Init /\ [][Next]_vars

\* The refresh of c waits for the backend.
Unanswered(c) == At(c, "posted") \/ At(c, "rotated")

\* What the refresh of c has to wait for on the device
StorageStep(c) ==
    \/ AccessSaved(c) \/ TokenRead(c) \/ RefreshSaved(c)
    \/ At(c, "token_read") /\ RefreshFails(c)

\* Secure storage answers, and requests, the calls of the start-up check and
\* those of the sign-in have a timeout.  The refresh of an ApiClient has none:
\* nothing says that the backend ever answers it, or that it breaks.
FairSpec ==
    /\ Spec
    /\ \A r \in Requests : WF_vars(RequestStep(r))
    /\ \A c \in ApiClients : WF_vars(StorageStep(c))
    /\ WF_vars(CheckStep)
    /\ WF_vars(PersonStep)

-----------------------------------------------------------------------------
(* Properties *)

\* Sign-out leaves no token in memory or storage while no answer to a refresh
\* arrives, although requests read the storage, and cache what they read, all
\* along.
SignOutClears ==
    since = "signed_out" /\ ~ At(Person, "clear") => memory = Empty /\ store = Empty

\* docs/auth-workflow.md:65: "Signing out clears both in-memory and secure
\* token storage."  Until the next sign-in there is no token.
SignedOutStaysOut ==
    since # "nothing" /\ screen = "login" => memory = Empty /\ store = Empty

\* A request that is repeated after a refresh is not repeated with the access
\* token that was refused before: no read of storage puts the old one back.
RetryUsesNewToken ==
    [][\A r \in Requests :
          /\ thread[r].stage = 2
          /\ thread[r].pc \in {"retry", "access_read"}
          /\ thread'[r].pc = "refresh_read"
          => thread'[r].token # thread[r].token]_vars

\* A session's tokens are spent in order, and those of the last exchange, or of
\* a sign-in to come, are good.
SessionsSound ==
    \A s \in 1..MaxSignIns :
        /\ supabase.expired[s] <= supabase.gen[s] + 1
        /\ s > supabase.signIns => supabase.expired[s] = 0

\* The storage calls in the queue are those that threads wait for, one each.
QueueSound ==
    /\ \A i \in DOMAIN calls : thread[calls[i]].pc \in StoragePcs
    /\ \A i, j \in DOMAIN calls : calls[i] = calls[j] => i = j

\* Where each kind of thread can be, and what it carries: a token on its way
\* from Supabase to storage is good, the one that a request is to repeat is not.
Carrying(t) == thread[t].pc \in {"rotated", "save_access", "save_refresh"}

Repeating(r) == thread[r].stage = 2 /\ thread[r].pc \in {"retry", "access_read"}

ThreadsSound ==
    /\ \A r \in Requests :
           /\ thread[r].pc \in {"idle", "access_read", "refresh_read", "sent",
                                "joined", "retry"}
           /\ At(r, "joined") => thread[r].stage = 1
           /\ At(r, "joined") \/ Repeating(r) => ~ Accepted(thread[r].token)
    /\ \A c \in ApiClients :
           thread[c].pc \in {"idle", "token_read", "posted", "rotated",
                             "save_access", "save_refresh"}
    /\ thread[Checker].pc \notin {"joined", "retry", "otp"}
    /\ thread[Person].pc \in {"idle", "otp", "save_access", "save_refresh", "clear"}
    /\ At(Person, "otp") => supabase.signIns < MaxSignIns
    /\ \A t \in Threads :
           /\ At(t, "posted") => thread[t].token # NoToken
           /\ Carrying(t) => Accepted(thread[t].token)

\* A refused access token is still in storage.
StaleStored == store.access # NoToken /\ ExpiredAt(store.access)

\* A read at place i of the queue finds no refused access token: there is none
\* in storage, or it is overwritten or deleted before.
Covered(i) ==
    StaleStored => \E j \in 1..(i - 1) : j \in DOMAIN calls
                       /\ thread[calls[j]].pc \in {"clear", "save_access"}

\* So do all reads behind place n, the one that would be made now included.
CoveredAfter(n) ==
    /\ \A i \in DOMAIN calls : i > n /\ At(calls[i], "access_read") => Covered(i)
    /\ memory.access = NoToken => Covered(Len(calls) + 1)

\* t has had its access token, and what follows it is under way.
Past(t) ==
    \/ thread[t].pc \in {"sent", "joined", "retry", "token_read", "posted",
                         "rotated", "save_access", "save_refresh"}
    \/ At(t, "access_read") /\ thread[t].stage > 1

ReadsCovered ==
    /\ \A i \in DOMAIN calls : At(calls[i], "refresh_read") => CoveredAfter(i)
    /\ \A t \in Threads \ {Person} : Past(t) => CoveredAfter(0)

\* Once a refresh has been answered, no read puts a refused token back in memory.
MemoryRenewed ==
    /\ \/ \E t \in ApiClients \cup {Checker} :
              At(t, "save_access") \/ At(t, "save_refresh")
       \/ \E r \in Requests : Repeating(r)
    => memory.access = NoToken \/ ~ ExpiredAt(memory.access)

\* The inductive invariant behind TypeOK and RetryUsesNewToken
TokensInv ==
    TypeOK /\ SessionsSound /\ QueueSound /\ ThreadsSound /\ ReadsCovered
        /\ MemoryRenewed

\* Every request ends, unless the refresh that it joined waits for the backend
\* for ever: whatever else becomes of a refresh, those that joined are told.
RequestsEnd ==
    \A r \in Requests :
        \/ []<>At(r, "idle")
        \/ <>[](At(r, "joined") /\ Unanswered(ClientOf[r]))

\* The loading screen goes away.
LoadingEnds == screen = "loading" ~> screen # "loading"
=============================================================================
