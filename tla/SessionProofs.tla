---------------------------- MODULE SessionProofs ----------------------------
(***************************************************************************)
(* Theorems about Session, for every number of requests, ApiClients,       *)
(* sign-ins and rotations.                                                  *)
(***************************************************************************)
EXTENDS Session, TLAPS

-----------------------------------------------------------------------------
(* What one thread may be and carry, apart from the others *)

ThreadState == [pc: Pcs, token: Token \cup {NoToken}, stage: 1..3]

SupabaseState ==
    [signIns: 0..MaxSignIns, gen: [1..MaxSignIns -> 0..MaxGen],
     expired: [1..MaxSignIns -> 0..MaxGen + 1]]

Refused(exp, token) == token = NoToken \/ token.gen < exp[token.session]

\* x is a state that thread t may be in, by the tokens that exp calls expired.
Fits(exp, t, x) ==
    /\ x \in ThreadState
    /\ t \in Requests =>
           /\ x.pc \in {"idle", "access_read", "refresh_read", "sent", "joined", "retry"}
           /\ x.stage <= 2
           /\ x.pc = "joined" => x.stage = 1
           /\ \/ x.pc = "joined"
              \/ x.stage = 2 /\ x.pc \in {"retry", "access_read"}
              => Refused(exp, x.token)
    /\ t \in ApiClients =>
           x.pc \in {"idle", "token_read", "posted", "rotated", "save_access",
                     "save_refresh"}
    /\ t = Checker => x.pc \notin {"joined", "retry", "otp"}
    /\ t = Person => x.pc \in {"idle", "otp", "save_access", "save_refresh", "clear"}
    /\ x.pc = "posted" => x.token # NoToken
    /\ x.pc \in {"rotated", "save_access", "save_refresh"} => ~ Refused(exp, x.token)

TokensTyped ==
    /\ memory \in Pair /\ store \in Pair /\ supabase \in SupabaseState
    /\ screen \in {"login", "loading", "clients"}
    /\ since \in {"nothing", "signed_out", "answered"}

\* Those who wait for a refresh wait for one that is in flight.
Awaited == \A r \in Requests : At(r, "joined") => ~ At(ClientOf[r], "idle")

\* TypeOK and the parts of the invariant that concern single threads
LocalInv ==
    /\ TokensTyped /\ SessionsSound /\ Awaited
    /\ calls \in Seq(Threads)
    /\ thread \in [Threads -> ThreadState]
    /\ \A t \in Threads : Fits(supabase.expired, t, thread[t])
    /\ At(Person, "otp") => supabase.signIns < MaxSignIns

LEMMA LocalIsLocal == LocalInv <=> TypeOK /\ SessionsSound /\ ThreadsSound
  <1> USE DEF At, Threads
  <1>1. ASSUME NEW token PROVE Refused(supabase.expired, token) <=> ~ Accepted(token)
    BY DEF Refused, Accepted, ExpiredAt
  <1>2. ASSUME LocalInv PROVE TypeOK /\ SessionsSound /\ ThreadsSound
    <2>1. TypeOK
      BY <1>2 DEF LocalInv, TokensTyped, Awaited, TypeOK, ThreadState, SupabaseState, Fits
    <2>2. ThreadsSound
      BY <1>1, <1>2 DEF LocalInv, ThreadsSound, Fits, Repeating, Carrying
    <2>3. QED
      BY <1>2, <2>1, <2>2 DEF LocalInv
  <1>3. ASSUME TypeOK, SessionsSound, ThreadsSound PROVE LocalInv
    <2>1. thread \in [Threads -> ThreadState]
      BY <1>3 DEF TypeOK, ThreadState
    <2>2. \A t \in Threads : Fits(supabase.expired, t, thread[t])
      BY <1>1, <1>3, <2>1 DEF TypeOK, ThreadsSound, Fits, Repeating, Carrying
    <2>3. QED
      BY <1>3, <2>1, <2>2 DEF LocalInv, TokensTyped, Awaited, TypeOK, ThreadsSound,
                              SupabaseState
  <1>4. QED
    BY <1>2, <1>3

-----------------------------------------------------------------------------
(* How the steps move threads and the queue *)

\* Everything but t is where it was, and t is in a state that it may be in.
LEMMA OneMoves ==
  ASSUME LocalInv, NEW t \in Threads, NEW pc, NEW token, NEW stage,
         Goto(t, pc, token, stage),
         Fits(supabase.expired, t, [pc |-> pc, token |-> token, stage |-> stage])
  PROVE  /\ thread' \in [Threads -> ThreadState]
         /\ thread'[t] = [pc |-> pc, token |-> token, stage |-> stage]
         /\ \A u \in Threads : u # t => thread'[u] = thread[u]
         /\ \A u \in Threads : Fits(supabase.expired, u, thread'[u])
  BY DEF LocalInv, Goto, Fits

\* The n oldest calls are answered (n is 0 or 1) and m new ones made (0 or 1),
\* by a thread that has no other in the queue.
Shifted(n, m) ==
    /\ n \in {0, 1} /\ m \in {0, 1} /\ n <= Len(calls)
    /\ calls' \in Seq(Threads)
    /\ Len(calls') = Len(calls) - n + m
    /\ \A i \in 1..(Len(calls) - n) :
           /\ calls'[i] = calls[i + n]
           /\ thread'[calls[i + n]] = thread[calls[i + n]]
           /\ m = 1 => calls[i + n] # calls'[Len(calls')]
    /\ m = 1 => thread'[calls'[Len(calls')]].pc \in StoragePcs

LEMMA QueueStaysSound ==
  ASSUME QueueSound, calls \in Seq(Threads), NEW n, NEW m, Shifted(n, m)
  PROVE  QueueSound'
  <1>1. DOMAIN calls = 1..Len(calls) /\ DOMAIN calls' = 1..Len(calls')
        /\ Len(calls) \in Nat
    BY DEF Shifted
  <1>2. \A i \in 1..Len(calls') :
            i \in 1..(Len(calls) - n) \/ (i = Len(calls') /\ m = 1)
    BY <1>1 DEF Shifted
  <1>3. ASSUME NEW i \in 1..(Len(calls) - n)
        PROVE  /\ i + n \in 1..Len(calls) /\ calls'[i] = calls[i + n]
               /\ thread'[calls'[i]].pc \in StoragePcs
               /\ m = 1 => calls'[i] # calls'[Len(calls')]
    <2>1. i + n \in 1..Len(calls)
      BY <1>1 DEF Shifted
    <2>2. thread[calls[i + n]].pc \in StoragePcs
      BY <1>1, <2>1 DEF QueueSound
    <2>3. QED
      BY <2>1, <2>2 DEF Shifted
  <1>4. \A i \in 1..Len(calls') : thread'[calls'[i]].pc \in StoragePcs
    BY <1>2, <1>3 DEF Shifted
  <1>5. ASSUME NEW i \in 1..(Len(calls) - n), NEW j \in 1..(Len(calls) - n),
               calls'[i] = calls'[j]
        PROVE  i = j
    <2>1. i + n = j + n
      BY <1>1, <1>3, <1>5 DEF QueueSound
    <2>2. QED
      BY <2>1, <1>1 DEF Shifted
  <1>6. \A i, j \in 1..Len(calls') : calls'[i] = calls'[j] => i = j
    BY <1>2, <1>3, <1>5
  <1>7. QED
    BY <1>1, <1>4, <1>6 DEF QueueSound

LEMMA CallShifts ==
  ASSUME QueueSound, LocalInv, NEW t \in Threads, NEW pc \in StoragePcs, NEW token,
         NEW stage, thread[t].pc \notin StoragePcs, Call(t, pc, token, stage, calls)
  PROVE  Shifted(0, 1) /\ calls'[Len(calls')] = t
  <1>1. /\ calls \in Seq(Threads) /\ calls' = Append(calls, t)
        /\ thread' = [thread EXCEPT ![t] = [pc |-> pc, token |-> token, stage |-> stage]]
        /\ thread \in [Threads -> ThreadState]
    BY DEF Call, Goto, LocalInv
  <1>2. \A i \in 1..Len(calls) : calls[i] # t /\ calls[i] \in Threads
    BY <1>1 DEF QueueSound
  <1>3. QED
    BY <1>1, <1>2 DEF Shifted

LEMMA CallAgainShifts ==
  ASSUME QueueSound, LocalInv, NEW t \in Threads, NEW pc \in StoragePcs, NEW token,
         NEW stage, NEW from, Answered(t, from), Call(t, pc, token, stage, Tail(calls))
  PROVE  Shifted(1, 1) /\ calls'[Len(calls')] = t
  <1>1. /\ calls \in Seq(Threads) /\ calls # << >> /\ Head(calls) = t
        /\ calls' = Append(Tail(calls), t)
        /\ thread' = [thread EXCEPT ![t] = [pc |-> pc, token |-> token, stage |-> stage]]
        /\ thread \in [Threads -> ThreadState]
    BY DEF Call, Goto, LocalInv, Answered
  <1>2. \A i \in 2..Len(calls) : calls[i] # t /\ calls[i] \in Threads
    BY <1>1 DEF QueueSound
  <1>3. /\ Len(Tail(calls)) = Len(calls) - 1 /\ Tail(calls) \in Seq(Threads)
        /\ \A i \in 1..(Len(calls) - 1) : Tail(calls)[i] = calls[i + 1]
    BY <1>1
  <1>4. QED
    BY <1>1, <1>2, <1>3 DEF Shifted

\* The oldest call is answered, and nobody else who has one moves.
LEMMA AnswerShifts ==
  ASSUME QueueSound, LocalInv, NEW t \in Threads, NEW from, Answered(t, from),
         calls' = Tail(calls),
         \A u \in Threads : u # t /\ thread[u].pc \in StoragePcs => thread'[u] = thread[u]
  PROVE  Shifted(1, 0)
  <1>1. /\ calls \in Seq(Threads) /\ calls # << >> /\ Head(calls) = t
    BY DEF LocalInv, Answered
  <1>2. \A i \in 2..Len(calls) : /\ calls[i] # t /\ calls[i] \in Threads
                                 /\ thread[calls[i]].pc \in StoragePcs
    BY <1>1 DEF QueueSound
  <1>3. /\ Len(Tail(calls)) = Len(calls) - 1 /\ Tail(calls) \in Seq(Threads)
        /\ \A i \in 1..(Len(calls) - 1) : Tail(calls)[i] = calls[i + 1]
    BY <1>1
  <1>4. QED
    BY <1>1, <1>2, <1>3 DEF Shifted

LEMMA NoCallShifts ==
  ASSUME QueueSound, LocalInv, UNCHANGED calls,
         \A u \in Threads : thread[u].pc \in StoragePcs => thread'[u] = thread[u]
  PROVE  Shifted(0, 0)
  <1>1. \A i \in 1..Len(calls) : calls[i] \in Threads /\ thread[calls[i]].pc \in StoragePcs
    BY DEF QueueSound, LocalInv
  <1>2. QED
    BY <1>1 DEF Shifted, LocalInv

-----------------------------------------------------------------------------
(* Reads that are covered stay covered *)

\* The call that has just been made
Made(m, pc) == m = 1 /\ thread'[calls'[Len(calls')]].pc = pc

\* Storage and memory are written as the queue has it: a refused token is never
\* stored, a clear or a save of the access token removes the one that is there,
\* memory is emptied only by who also calls for storage to be cleared, and
\* storage is read for an access token only while memory has none.
WritesInOrder(n, m) ==
    /\ supabase'.expired = supabase.expired
    /\ StaleStored' =>
           /\ StaleStored
           /\ n = 1 => thread[calls[1]].pc \notin {"clear", "save_access"}
    /\ memory'.access = NoToken /\ memory.access # NoToken =>
           Made(m, "clear") \/ ~ StaleStored'
    /\ Made(m, "access_read") => memory.access = NoToken
    /\ Made(m, "refresh_read") => memory'.access # NoToken

LEMMA CoverShifts ==
  ASSUME calls \in Seq(Threads), NEW n, NEW m, Shifted(n, m), WritesInOrder(n, m),
         NEW i \in 1..(Len(calls) + 1), i > n, Covered(i),
         NEW k \in Nat, k >= i - n
  PROVE  Covered(k)'
  <1> SUFFICES ASSUME StaleStored'
               PROVE  \E j \in 1..(k - 1) : j \in DOMAIN calls'
                          /\ thread'[calls'[j]].pc \in {"clear", "save_access"}
    BY DEF Covered
  <1>1. n \in {0, 1} /\ Len(calls) \in Nat
        /\ DOMAIN calls = 1..Len(calls) /\ DOMAIN calls' = 1..Len(calls')
        /\ Len(calls') \in Nat /\ Len(calls') >= Len(calls) - n
    BY DEF Shifted
  <1>2. PICK j \in 1..(i - 1) : j \in DOMAIN calls
            /\ thread[calls[j]].pc \in {"clear", "save_access"}
    BY DEF Covered, WritesInOrder
  <1>3. j > n
    BY <1>1, <1>2 DEF WritesInOrder
  <1>4. j - n \in 1..(Len(calls) - n) /\ j - n \in 1..(k - 1) /\ j - n \in DOMAIN calls'
    BY <1>1, <1>2, <1>3
  <1>5. calls'[j - n] = calls[j] /\ thread'[calls[j]] = thread[calls[j]]
    <2>1. (j - n) + n = j
      BY <1>1
    <2>2. QED
      BY <1>4, <2>1 DEF Shifted
  <1>6. QED
    BY <1>2, <1>4, <1>5

LEMMA CoveredAfterShifts ==
  ASSUME calls \in Seq(Threads), NEW n, NEW m, Shifted(n, m), WritesInOrder(n, m),
         NEW k \in Nat, CoveredAfter(k), NEW l \in Nat, l + n >= k
  PROVE  CoveredAfter(l)'
  <1>1. n \in {0, 1} /\ m \in {0, 1} /\ Len(calls) \in Nat /\ Len(calls') \in Nat
        /\ DOMAIN calls = 1..Len(calls) /\ DOMAIN calls' = 1..Len(calls')
        /\ Len(calls') = Len(calls) - n + m /\ n <= Len(calls)
    BY DEF Shifted
  <1>2. ASSUME memory.access = NoToken, NEW q \in Nat, q >= Len(calls) + 1 - n
        PROVE  Covered(q)'
    <2>1. Covered(Len(calls) + 1)
      BY <1>2 DEF CoveredAfter
    <2>2. QED
      BY <1>1, <1>2, <2>1, CoverShifts
  <1>3. ASSUME NEW i \in 1..Len(calls'), i > l, thread'[calls'[i]].pc = "access_read"
        PROVE  Covered(i)'
    <2>1. CASE i <= Len(calls) - n
      <3>1. i + n \in 1..Len(calls) /\ i + n > k /\ i + n > n /\ i >= (i + n) - n
            /\ i \in 1..(Len(calls) - n)
        BY <1>1, <1>3, <2>1
      <3>2. thread[calls[i + n]].pc = "access_read"
        BY <1>3, <3>1 DEF Shifted
      <3>3. Covered(i + n)
        BY <1>1, <3>1, <3>2 DEF CoveredAfter, At
      <3>4. QED
        BY <1>1, <3>1, <3>3, CoverShifts
    <2>2. CASE i > Len(calls) - n
      <3>1. i = Len(calls') /\ m = 1 /\ i >= Len(calls) + 1 - n
        BY <1>1, <1>3, <2>2
      <3>2. memory.access = NoToken
        BY <1>3, <3>1 DEF WritesInOrder, Made
      <3>3. QED
        BY <1>1, <1>2, <3>1, <3>2
    <2>3. QED
      BY <1>1, <1>3, <2>1, <2>2
  <1>4. ASSUME memory'.access = NoToken PROVE Covered(Len(calls) + 1)'
    <2>1. CASE memory.access = NoToken
      <3>1. Len(calls') + 1 \in Nat /\ Len(calls') + 1 >= Len(calls) + 1 - n
        BY <1>1
      <3> DEFINE q == Len(calls') + 1
      <3>2. \A x \in Nat : x >= Len(calls) + 1 - n => Covered(x)'
        BY <1>2, <2>1
      <3>3. QED
        BY <3>1, <3>2 DEF Covered
    <2>2. CASE memory.access # NoToken
      <3>1. CASE ~ StaleStored'
        BY <3>1 DEF Covered
      <3>2. CASE m = 1 /\ thread'[calls'[Len(calls')]].pc = "clear"
        <4>1. Len(calls') \in 1..Len(calls')
          BY <1>1, <3>2
        <4>2. QED
          BY <1>1, <3>2, <4>1 DEF Covered
      <3>3. QED
        BY <1>4, <2>2, <3>1, <3>2 DEF WritesInOrder, Made
    <2>3. QED
      BY <2>1, <2>2
  <1>5. QED
    BY <1>1, <1>3, <1>4 DEF CoveredAfter, At

QueuedReadsCovered ==
    \A i \in DOMAIN calls : At(calls[i], "refresh_read") => CoveredAfter(i)

LEMMA QueuedReadsKept ==
  ASSUME calls \in Seq(Threads), NEW n, NEW m, Shifted(n, m), WritesInOrder(n, m),
         QueuedReadsCovered
  PROVE  QueuedReadsCovered'
  <1>1. n \in {0, 1} /\ m \in {0, 1} /\ Len(calls) \in Nat /\ Len(calls') \in Nat
        /\ DOMAIN calls = 1..Len(calls) /\ DOMAIN calls' = 1..Len(calls')
        /\ Len(calls') = Len(calls) - n + m /\ n <= Len(calls)
    BY DEF Shifted
  <1>2. ASSUME NEW i \in 1..Len(calls'), thread'[calls'[i]].pc = "refresh_read"
        PROVE  CoveredAfter(i)'
    <2>1. CASE i <= Len(calls) - n
      <3>1. i + n \in 1..Len(calls) /\ i \in 1..(Len(calls) - n)
        BY <1>1, <2>1
      <3>2. thread[calls[i + n]].pc = "refresh_read"
        BY <1>2, <3>1 DEF Shifted
      <3>3. CoveredAfter(i + n) /\ i + n \in Nat /\ i \in Nat /\ i + n >= i + n
        BY <1>1, <3>1, <3>2 DEF QueuedReadsCovered, At
      <3>4. QED
        BY <3>3, CoveredAfterShifts
    <2>2. CASE i > Len(calls) - n
      <3>1. i = Len(calls') /\ m = 1
        BY <1>1, <1>2, <2>2
      <3>2. memory'.access # NoToken
        BY <1>2, <3>1 DEF WritesInOrder, Made
      <3>3. QED
        BY <1>1, <3>1, <3>2 DEF CoveredAfter
    <2>3. QED
      BY <1>1, <1>2, <2>1, <2>2
  <1>3. QED
    BY <1>1, <1>2 DEF QueuedReadsCovered, At

Others == Threads \ {Person}

PastCovered == \A t \in Others : Past(t) => CoveredAfter(0)

\* Why a step may leave a thread past its access token: there was one already,
\* the oldest call, which is answered, is the read of a refresh token, or there
\* is no refused access token in storage.
Passes(n) ==
    \/ \E t \in Others : Past(t)
    \/ n = 1 /\ At(calls[1], "refresh_read")
    \/ ~ StaleStored'

LEMMA PastKept ==
  ASSUME calls \in Seq(Threads), NEW n, NEW m, Shifted(n, m), WritesInOrder(n, m),
         QueuedReadsCovered, PastCovered,
         (\E t \in Others : Past(t))' => Passes(n)
  PROVE  PastCovered'
  <1> SUFFICES ASSUME Passes(n) PROVE CoveredAfter(0)'
    BY DEF PastCovered
  <1>1. n \in {0, 1} /\ n <= Len(calls) /\ Len(calls) \in Nat
        /\ DOMAIN calls = 1..Len(calls)
    BY DEF Shifted
  <1>2. CASE \E t \in Others : Past(t)
    BY <1>1, <1>2, CoveredAfterShifts DEF PastCovered
  <1>3. CASE n = 1 /\ At(calls[1], "refresh_read")
    <2>1. CoveredAfter(1)
      BY <1>1, <1>3 DEF QueuedReadsCovered
    <2>2. QED
      BY <1>3, <2>1, CoveredAfterShifts
  <1>4. CASE ~ StaleStored'
    BY <1>4 DEF CoveredAfter, Covered
  <1>5. QED
    BY <1>2, <1>3, <1>4 DEF Passes

-----------------------------------------------------------------------------
(* A step, and a step that moves one thread *)

Renewed ==
    \/ \E t \in ApiClients \cup {Checker} : At(t, "save_access") \/ At(t, "save_refresh")
    \/ \E r \in Requests : Repeating(r)

StaleCached == memory.access # NoToken /\ ExpiredAt(memory.access)

\* The invariant in the form in which the steps are shown to keep it
Inv ==
    /\ LocalInv /\ QueueSound /\ QueuedReadsCovered /\ PastCovered
    /\ Renewed => ~ StaleCached

LEMMA InvIsTokensInv == Inv <=> TokensInv
  <1>1. ReadsCovered <=> QueuedReadsCovered /\ PastCovered
    BY DEF ReadsCovered, QueuedReadsCovered, PastCovered, Others
  <1>2. MemoryRenewed <=> (Renewed => ~ StaleCached)
    BY DEF MemoryRenewed, Renewed, StaleCached
  <1>3. QED
    BY <1>1, <1>2, LocalIsLocal DEF Inv, TokensInv

LEMMA StepKeeps ==
  ASSUME Inv, LocalInv', NEW n, NEW m, Shifted(n, m), WritesInOrder(n, m),
         (\E t \in Others : Past(t))' => Passes(n),
         Renewed' => ~ StaleCached'
  PROVE  Inv'
  <1>1. /\ LocalInv /\ QueueSound /\ QueuedReadsCovered /\ PastCovered
        /\ calls \in Seq(Threads)
    BY DEF Inv, LocalInv
  <1>2. QueueSound' /\ QueuedReadsCovered' /\ PastCovered'
    BY <1>1, QueueStaysSound, QueuedReadsKept, PastKept
  <1>3. QED
    BY <1>2 DEF Inv

\* t goes to pc: it waits for its answer if it is in the queue, and joins the
\* queue if it calls for storage.
Queues(t, pc) ==
    LET rest == IF thread[t].pc \in StoragePcs THEN Tail(calls) ELSE calls
    IN  /\ thread[t].pc \in StoragePcs => calls # << >> /\ Head(calls) = t
        /\ calls' = IF pc \in StoragePcs THEN Append(rest, t) ELSE rest

PastAt(pc, stage) ==
    \/ pc \in {"sent", "joined", "retry", "token_read", "posted", "rotated",
               "save_access", "save_refresh"}
    \/ pc = "access_read" /\ stage > 1

RenewedAt(t, pc, stage) ==
    \/ t \in ApiClients \cup {Checker} /\ pc \in {"save_access", "save_refresh"}
    \/ t \in Requests /\ stage = 2 /\ pc \in {"retry", "access_read"}

\* What the step does to memory and storage goes with its place in the queue.
Lawful(t, pc, stage) ==
    /\ supabase'.expired = supabase.expired
    /\ StaleStored' => StaleStored /\ thread[t].pc \notin {"clear", "save_access"}
    /\ memory'.access = NoToken /\ memory.access # NoToken =>
           pc = "clear" \/ ~ StaleStored'
    /\ pc = "access_read" => memory.access = NoToken
    /\ pc = "refresh_read" => memory'.access # NoToken
    /\ t # Person /\ PastAt(pc, stage) =>
           Past(t) \/ At(t, "refresh_read") \/ ~ StaleStored'
    /\ RenewedAt(t, pc, stage) =>
           RenewedAt(t, thread[t].pc, thread[t].stage) \/ ~ StaleCached'
    /\ StaleCached' => StaleCached \/ ~ Renewed

LEMMA QueuesShifts ==
  ASSUME LocalInv, QueueSound, NEW t \in Threads, NEW pc, NEW token, NEW stage,
         Goto(t, pc, token, stage), Queues(t, pc)
  PROVE  LET n == IF thread[t].pc \in StoragePcs THEN 1 ELSE 0
             m == IF pc \in StoragePcs THEN 1 ELSE 0
         IN  /\ Shifted(n, m)
             /\ n = 1 => calls[1] = t
             /\ m = 1 => calls'[Len(calls')] = t
  <1>1. CASE thread[t].pc \in StoragePcs
    <2>1. Answered(t, thread[t].pc) /\ calls[1] = t
      BY <1>1 DEF Queues, Answered, At, LocalInv
    <2>2. CASE pc \in StoragePcs
      <3>1. Call(t, pc, token, stage, Tail(calls))
        BY <1>1, <2>2 DEF Queues, Call
      <3>2. QED
        BY <1>1, <2>1, <2>2, <3>1, CallAgainShifts
    <2>3. CASE pc \notin StoragePcs
      <3>1. calls' = Tail(calls)
        BY <1>1, <2>3 DEF Queues
      <3>2. QED
        BY <1>1, <2>1, <2>3, <3>1, AnswerShifts DEF Goto, LocalInv
    <2>4. QED
      BY <2>2, <2>3
  <1>2. CASE thread[t].pc \notin StoragePcs
    <2>1. CASE pc \in StoragePcs
      <3>1. Call(t, pc, token, stage, calls)
        BY <1>2, <2>1 DEF Queues, Call
      <3>2. QED
        BY <1>2, <2>1, <3>1, CallShifts
    <2>2. CASE pc \notin StoragePcs
      <3>1. calls' = calls
        BY <1>2, <2>2 DEF Queues
      <3>2. QED
        BY <1>2, <2>2, <3>1, NoCallShifts DEF Goto, LocalInv
    <2>3. QED
      BY <2>1, <2>2
  <1>3. QED
    BY <1>1, <1>2

LEMMA MoveKeeps ==
  ASSUME Inv, NEW t \in Threads, NEW pc, NEW token, NEW stage,
         Goto(t, pc, token, stage), Queues(t, pc), Lawful(t, pc, stage),
         Fits(supabase.expired, t, [pc |-> pc, token |-> token, stage |-> stage]),
         t \in Requests /\ pc = "joined" => ~ At(ClientOf[t], "idle"),
         t \in ApiClients => pc # "idle",
         TokensTyped', SessionsSound',
         At(Person, "otp")' => supabase'.signIns < MaxSignIns
  PROVE  Inv'
  <1> DEFINE x == [pc |-> pc, token |-> token, stage |-> stage]
             n == IF thread[t].pc \in StoragePcs THEN 1 ELSE 0
             m == IF pc \in StoragePcs THEN 1 ELSE 0
  <1>1. /\ LocalInv /\ QueueSound /\ QueuedReadsCovered /\ PastCovered
        /\ Renewed => ~ StaleCached
        /\ calls \in Seq(Threads)
    BY DEF Inv, LocalInv
  <1>2. /\ thread' \in [Threads -> ThreadState] /\ thread'[t] = x
        /\ \A u \in Threads : u # t => thread'[u] = thread[u]
        /\ \A u \in Threads : Fits(supabase.expired, u, thread'[u])
    BY <1>1, OneMoves
  <1>3. /\ Shifted(n, m)
        /\ n = 1 => calls[1] = t
        /\ m = 1 => calls'[Len(calls')] = t
    BY <1>1, QueuesShifts
  <1>4. Awaited'
    <2> SUFFICES ASSUME NEW r \in Requests, thread'[r].pc = "joined"
                 PROVE  thread'[ClientOf[r]].pc # "idle"
      BY DEF Awaited, At
    <2>1. /\ r \in Threads /\ ClientOf[r] \in Threads /\ ClientOf[r] \in ApiClients
          /\ r # ClientOf[r]
      BY ThreadsAssumption DEF Threads
    <2>2. CASE r = t
      BY <1>2, <2>1, <2>2 DEF At
    <2>3. CASE r # t
      BY <1>1, <1>2, <2>1, <2>3 DEF LocalInv, Awaited, At
    <2>4. QED
      BY <2>2, <2>3
  <1>5. LocalInv'
    <2>1. calls' \in Seq(Threads)
      BY <1>3 DEF Shifted
    <2>2. \A u \in Threads : Fits(supabase'.expired, u, thread'[u])
      BY <1>2 DEF Lawful
    <2>3. QED
      BY <1>2, <1>4, <2>1, <2>2 DEF LocalInv, Fits, Refused
  <1>6. WritesInOrder(n, m)
    BY <1>2, <1>3 DEF Lawful, WritesInOrder, Made, StoragePcs
  <1>7. (\E u \in Others : Past(u))' => Passes(n)
    <2> SUFFICES ASSUME NEW u \in Others, Past(u)' PROVE Passes(n)
      BY DEF Others
    <2>1. CASE u # t
      BY <1>2, <2>1 DEF Past, Passes, At, Others
    <2>2. CASE u = t
      <3>1. PastAt(pc, stage) /\ t # Person
        BY <1>2, <2>2 DEF Past, PastAt, At, Others
      <3>2. At(t, "refresh_read") => n = 1
        BY DEF At, StoragePcs
      <3>3. QED
        BY <1>3, <2>2, <3>1, <3>2 DEF Lawful, Passes
    <2>3. QED
      BY <2>1, <2>2
  <1>8. Renewed' => ~ StaleCached'
    <2>1. \A u \in Threads : RenewedAt(u, thread[u].pc, thread[u].stage) => Renewed
      BY DEF Renewed, RenewedAt, At, Repeating, Threads
    <2>2. Renewed' => \E u \in Threads :
                          RenewedAt(u, thread'[u].pc, thread'[u].stage)
      BY DEF Renewed, RenewedAt, At, Repeating, Threads
    <2>3. ASSUME NEW u \in Threads, RenewedAt(u, thread'[u].pc, thread'[u].stage)
          PROVE  Renewed \/ ~ StaleCached'
      BY <1>2, <2>1, <2>3 DEF Lawful
    <2>4. QED
      BY <1>1, <2>2, <2>3 DEF Lawful
  <1> HIDE DEF n, m
  <1>9. QED
    BY <1>3, <1>5, <1>6, <1>7, <1>8, StepKeeps

\* Whatever a thread does that leaves the clock of the tokens alone
LEMMA IdleIsGoto ==
  ASSUME NEW t \in Threads, thread' = [thread EXCEPT ![t] = Idle]
  PROVE  Goto(t, "idle", NoToken, 1)
  BY DEF Goto, Idle

\* Where a thread is, and what it is allowed there
LEMMA Here ==
  ASSUME Inv, NEW t \in Threads
  PROVE  /\ Fits(supabase.expired, t, thread[t])
         /\ thread[t] \in ThreadState
         /\ TokensTyped /\ SessionsSound
         /\ At(Person, "otp") => supabase.signIns < MaxSignIns
         /\ calls \in Seq(Threads)
  BY DEF Inv, LocalInv

\* The access token that the oldest call finds in storage is good, if a refresh
\* has been answered or a thread waits for one.
LEMMA HeadReadsFresh ==
  ASSUME Inv, NEW t \in Threads, Answered(t, "access_read"), NEW u \in Others, Past(u)
  PROVE  ~ StaleStored
  <1>1. CoveredAfter(0) /\ calls \in Seq(Threads)
    BY DEF Inv, LocalInv, PastCovered
  <1>2. 1 \in DOMAIN calls /\ 1 > 0 /\ At(calls[1], "access_read")
    BY <1>1 DEF Answered, At
  <1>3. Covered(1)
    BY <1>1, <1>2 DEF CoveredAfter
  <1>4. QED
    BY <1>3 DEF Covered

LEMMA RenewedIsPast ==
  ASSUME Renewed
  PROVE  \E u \in Others : Past(u)
  BY ThreadsAssumption DEF Renewed, Others, Past, Repeating, At, Threads

-----------------------------------------------------------------------------
(* Requests *)

LEMMA BeginRequestKeeps ==
  ASSUME Inv, NEW r \in Requests, BeginRequest(r)
  PROVE  Inv'
  <1>1. r \in Threads /\ r \notin ApiClients /\ r # Checker /\ r # Person
    BY ThreadsAssumption DEF Threads
  <1> DEFINE pc == IF memory.access # NoToken THEN "refresh_read" ELSE "access_read"
             token == IF memory.access # NoToken THEN memory.access ELSE thread[r].token
  <1>2. Goto(r, pc, token, 1) /\ Queues(r, pc)
    BY DEF BeginRequest, GetAccessToken, Call, Queues, At, StoragePcs
  <1>3. Lawful(r, pc, 1)
    BY <1>1 DEF BeginRequest, Lawful, StaleStored, StaleCached, ExpiredAt, PastAt,
                RenewedAt, At
  <1>4. Fits(supabase.expired, r, [pc |-> pc, token |-> token, stage |-> 1])
    BY <1>1, Here DEF Fits, ThreadState, TokensTyped, Pair, Pcs, StoragePcs
  <1>5. TokensTyped' /\ SessionsSound' /\ (At(Person, "otp")' => supabase'.signIns < MaxSignIns)
    BY <1>1, <1>2, Here DEF BeginRequest, TokensTyped, SessionsSound, Goto, At
  <1> HIDE DEF pc, token
  <1>6. QED
    BY <1>1, <1>2, <1>3, <1>4, <1>5, MoveKeeps DEF pc

LEMMA AccessReadKeeps ==
  ASSUME Inv, NEW t \in Requests \cup {Checker}, AccessRead(t)
  PROVE  Inv'
  <1>1. t \in Threads /\ t \notin ApiClients /\ t # Person
    BY ThreadsAssumption DEF Threads
  <1> DEFINE found == store.access # NoToken
             pc == IF found THEN "refresh_read" ELSE "sent"
             token == IF found THEN store.access ELSE NoToken
             stage == thread[t].stage
  <1>2. Goto(t, pc, token, stage) /\ Queues(t, pc)
    BY DEF AccessRead, Call, Queues, Answered, At, StoragePcs
  <1>3. Renewed => ~ StaleStored
    BY <1>1, RenewedIsPast, HeadReadsFresh DEF AccessRead
  <1>4. memory \in Pair /\ store \in Pair
    BY <1>1, Here DEF TokensTyped
  <1>5. /\ UNCHANGED <<store, supabase, screen, since>>
        /\ memory' \in Pair
        /\ memory'.access = IF found THEN store.access ELSE memory.access
    BY <1>4 DEF AccessRead, Pair
  <1>6. Lawful(t, pc, stage)
    BY <1>1, <1>3, <1>5 DEF AccessRead, Lawful, Answered, StaleStored, StaleCached, ExpiredAt,
                      PastAt, RenewedAt, At
  <1>7. Fits(supabase.expired, t, [pc |-> pc, token |-> token, stage |-> stage])
    BY <1>1, <1>4, Here, ThreadsAssumption DEF AccessRead, Fits, ThreadState, Pair, Pcs, StoragePcs, Refused
  <1>8. TokensTyped' /\ SessionsSound' /\ (At(Person, "otp")' => supabase'.signIns < MaxSignIns)
    BY <1>1, <1>2, <1>5, Here DEF TokensTyped, SessionsSound, Goto, At
  <1> HIDE DEF pc, token, stage
  <1>9. QED
    BY <1>1, <1>2, <1>6, <1>7, <1>8, MoveKeeps DEF pc

\* What reading the refresh token does to memory
LEMMA RecachedKeeps ==
  ASSUME memory \in Pair, store \in Pair
  PROVE  Recached \in Pair /\ Recached.access = memory.access
  BY DEF Recached, Pair

LEMMA RefreshReadKeeps ==
  ASSUME Inv, NEW r \in Requests, RefreshRead(r)
  PROVE  Inv'
  <1>1. r \in Threads /\ r \notin ApiClients /\ r # Checker /\ r # Person
    BY ThreadsAssumption DEF Threads
  <1> DEFINE token == thread[r].token
             stage == thread[r].stage
  <1>2. Goto(r, "sent", token, stage) /\ Queues(r, "sent")
    BY DEF RefreshRead, Queues, Answered, At, StoragePcs
  <1>3. /\ UNCHANGED <<store, supabase, screen, since>>
        /\ memory' \in Pair /\ memory'.access = memory.access
    BY <1>1, Here, RecachedKeeps DEF RefreshRead, TokensTyped
  <1>4. Lawful(r, "sent", stage)
    BY <1>1, <1>3 DEF RefreshRead, Lawful, Answered, StaleStored, StaleCached, ExpiredAt,
                      PastAt, RenewedAt, At
  <1>5. Fits(supabase.expired, r, [pc |-> "sent", token |-> token, stage |-> stage])
    BY <1>1, Here DEF Fits, ThreadState, Pcs
  <1>6. TokensTyped' /\ SessionsSound' /\ (At(Person, "otp")' => supabase'.signIns < MaxSignIns)
    BY <1>1, <1>2, <1>3, Here DEF TokensTyped, SessionsSound, Goto, At
  <1> HIDE DEF token, stage
  <1>7. QED
    BY <1>1, <1>2, <1>4, <1>5, <1>6, MoveKeeps

\* A thread that ends, and puts no access token into memory or storage
LEMMA EndKeeps ==
  ASSUME Inv, NEW t \in Threads \ ApiClients,
         thread' = [thread EXCEPT ![t] = Idle], Queues(t, "idle"),
         memory' \in Pair, store' \in Pair,
         \/ memory'.access = memory.access
         \/ memory'.access = NoToken /\ store'.access = NoToken,
         \/ store'.access = store.access /\ ~ At(t, "clear") /\ ~ At(t, "save_access")
         \/ store'.access = NoToken,
         UNCHANGED supabase,
         since' \in {"nothing", "signed_out", "answered"},
         screen' \in {"login", "loading", "clients"}
  PROVE  Inv'
  <1>1. Goto(t, "idle", NoToken, 1)
    BY IdleIsGoto
  <1>2. Lawful(t, "idle", 1)
    BY DEF Lawful, StaleStored, StaleCached, ExpiredAt, PastAt, RenewedAt, At
  <1>3. Fits(supabase.expired, t, [pc |-> "idle", token |-> NoToken, stage |-> 1])
    BY DEF Fits, ThreadState, Pcs
  <1>4. TokensTyped' /\ SessionsSound'
    BY <1>1, Here DEF TokensTyped, SessionsSound
  <1>5. At(Person, "otp")' => supabase'.signIns < MaxSignIns
    <2>1. thread'[Person].pc = "otp" => thread[Person].pc = "otp"
      BY <1>1, ThreadsAssumption, Here DEF Inv, LocalInv, Goto, Threads, ThreadState
    <2>2. QED
      BY <2>1, Here DEF At
  <1>6. QED
    BY <1>1, <1>2, <1>3, <1>4, <1>5, MoveKeeps

LEMMA EndRequestKeeps ==
  ASSUME Inv, NEW r \in Requests, EndRequest(r)
  PROVE  Inv'
  <1>1. r \in Threads \ ApiClients /\ r # Person
    BY ThreadsAssumption DEF Threads
  <1>2. Queues(r, "idle")
    BY DEF EndRequest, Queues, At, StoragePcs
  <1>3. QED
    BY <1>1, <1>2, Here, EndKeeps DEF EndRequest, TokensTyped, At

LEMMA JoinRefreshKeeps ==
  ASSUME Inv, NEW r \in Requests, JoinRefresh(r)
  PROVE  Inv'
  <1>1. r \in Threads /\ r \notin ApiClients /\ r # Checker /\ r # Person
    BY ThreadsAssumption DEF Threads
  <1> DEFINE token == thread[r].token
  <1>2. Goto(r, "joined", token, 1) /\ Queues(r, "joined")
    BY DEF JoinRefresh, Queues, At, StoragePcs
  <1>3. Lawful(r, "joined", 1)
    BY <1>1 DEF JoinRefresh, Lawful, StaleStored, StaleCached, ExpiredAt, Past,
                PastAt, RenewedAt, At
  <1>4. Fits(supabase.expired, r, [pc |-> "joined", token |-> token, stage |-> 1])
    BY <1>1, Here DEF JoinRefresh, Fits, ThreadState, Pcs, Refused, Accepted, ExpiredAt
  <1>5. TokensTyped' /\ SessionsSound' /\ (At(Person, "otp")' => supabase'.signIns < MaxSignIns)
    BY <1>1, <1>2, Here DEF JoinRefresh, TokensTyped, SessionsSound, Goto, At
  <1>6. ~ At(ClientOf[r], "idle")
    BY DEF JoinRefresh
  <1> HIDE DEF token
  <1>7. QED
    BY <1>1, <1>2, <1>3, <1>4, <1>5, <1>6, MoveKeeps

LEMMA RetryKeeps ==
  ASSUME Inv, NEW r \in Requests, Retry(r)
  PROVE  Inv'
  <1>1. r \in Threads /\ r \notin ApiClients /\ r # Checker /\ r # Person
    BY ThreadsAssumption DEF Threads
  <1> DEFINE pc == IF memory.access # NoToken THEN "refresh_read" ELSE "access_read"
             token == IF memory.access # NoToken THEN memory.access ELSE thread[r].token
             stage == thread[r].stage
  <1>2. Goto(r, pc, token, stage) /\ Queues(r, pc)
    BY DEF Retry, GetAccessToken, Call, Queues, At, StoragePcs
  <1>3. Lawful(r, pc, stage)
    BY <1>1 DEF Retry, Lawful, StaleStored, StaleCached, ExpiredAt, Past, PastAt,
                RenewedAt, At
  <1>4. Fits(supabase.expired, r, [pc |-> pc, token |-> token, stage |-> stage])
    BY <1>1, Here DEF Retry, At, Fits, ThreadState, TokensTyped, Pair, Pcs, StoragePcs
  <1>5. TokensTyped' /\ SessionsSound' /\ (At(Person, "otp")' => supabase'.signIns < MaxSignIns)
    BY <1>1, <1>2, Here DEF Retry, TokensTyped, SessionsSound, Goto, At
  <1> HIDE DEF pc, token, stage
  <1>6. QED
    BY <1>1, <1>2, <1>3, <1>4, <1>5, MoveKeeps DEF pc

-----------------------------------------------------------------------------
(* The start-up check, and the exchanges of refresh tokens *)

LEMMA CheckerEnds ==
  ASSUME Inv, CheckFindsNothing \/ CheckFindsUser \/ CheckAnswered \/ CheckFails \/ CheckCleared
  PROVE  Inv'
  <1>1. Checker \in Threads \ ApiClients /\ Checker # Person
    BY ThreadsAssumption DEF Threads
  <1>2. Queues(Checker, "idle")
    BY DEF CheckFindsNothing, CheckFindsUser, CheckAnswered, CheckFails, CheckCleared,
           Queues, At, Answered, StoragePcs
  <1>3. memory \in Pair /\ store \in Pair /\ Empty \in Pair /\ Empty.access = NoToken
        /\ screen \in {"login", "loading", "clients"}
        /\ since \in {"nothing", "signed_out", "answered"}
    BY <1>1, Here DEF TokensTyped, Pair, Empty
  <1>4. memory' \in Pair /\ memory'.access = memory.access
    BY <1>3, RecachedKeeps DEF CheckFindsNothing, CheckFindsUser, CheckAnswered,
                               CheckFails, CheckCleared
  <1>5. /\ store' \in Pair
        /\ \/ store'.access = store.access /\ ~ At(Checker, "clear")
              /\ ~ At(Checker, "save_access")
           \/ store'.access = NoToken
    BY <1>3 DEF CheckFindsNothing, CheckFindsUser, CheckAnswered, CheckFails,
                CheckCleared, Answered, At
  <1>6. /\ thread' = [thread EXCEPT ![Checker] = Idle]
        /\ UNCHANGED supabase
        /\ since' \in {"nothing", "signed_out", "answered"}
        /\ screen' \in {"login", "loading", "clients"}
    BY <1>3 DEF CheckFindsNothing, CheckFindsUser, CheckAnswered, CheckFails, CheckCleared,
           CheckEnds
  <1>7. QED
    BY <1>1, <1>2, <1>4, <1>5, <1>6, EndKeeps

LEMMA CheckRefreshReadKeeps ==
  ASSUME Inv, CheckRefreshRead
  PROVE  Inv'
  <1>1. Checker \in Threads /\ Checker \notin ApiClients /\ Checker \notin Requests
        /\ Checker # Person
    BY ThreadsAssumption DEF Threads
  <1> DEFINE first == thread[Checker].stage = 1
             cached == memory.access # NoToken
             pc == IF first THEN IF cached THEN "refresh_read" ELSE "access_read"
                            ELSE "sent"
             token == IF first /\ cached THEN memory.access ELSE thread[Checker].token
             stage == IF first THEN 2 ELSE thread[Checker].stage
  <1>2. Goto(Checker, pc, token, stage) /\ Queues(Checker, pc)
    BY DEF CheckRefreshRead, Call, Queues, Answered, At, StoragePcs
  <1>3. memory \in Pair /\ store \in Pair
    BY <1>1, Here DEF TokensTyped
  <1>4. /\ UNCHANGED <<store, supabase, screen, since>>
        /\ memory' \in Pair /\ memory'.access = memory.access
    BY <1>3, RecachedKeeps DEF CheckRefreshRead
  <1>5. Lawful(Checker, pc, stage)
    BY <1>1, <1>4 DEF CheckRefreshRead, Lawful, Answered, StaleStored, StaleCached, ExpiredAt,
                      PastAt, RenewedAt, At
  <1>6. Fits(supabase.expired, Checker, [pc |-> pc, token |-> token, stage |-> stage])
    BY <1>1, <1>3, Here DEF Fits, ThreadState, Pair, Pcs, StoragePcs
  <1>7. TokensTyped' /\ SessionsSound' /\ (At(Person, "otp")' => supabase'.signIns < MaxSignIns)
    BY <1>1, <1>2, <1>4, Here DEF TokensTyped, SessionsSound, Goto, At
  <1> HIDE DEF pc, token, stage
  <1>8. QED
    BY <1>1, <1>2, <1>5, <1>6, <1>7, MoveKeeps DEF pc

LEMMA CheckRefreshesKeeps ==
  ASSUME Inv, CheckRefreshes
  PROVE  Inv'
  <1>1. Checker \in Threads /\ Checker \notin ApiClients /\ Checker \notin Requests
        /\ Checker # Person
    BY ThreadsAssumption DEF Threads
  <1> DEFINE pc == IF memory.refresh # NoToken THEN "posted" ELSE "token_read"
             token == memory.refresh
  <1>2. Goto(Checker, pc, token, 2) /\ Queues(Checker, pc)
    BY DEF CheckRefreshes, Call, Queues, At, StoragePcs
  <1>3. Lawful(Checker, pc, 2)
    BY <1>1 DEF CheckRefreshes, Lawful, StaleStored, StaleCached, ExpiredAt, Past, PastAt,
                RenewedAt, At
  <1>4. Fits(supabase.expired, Checker, [pc |-> pc, token |-> token, stage |-> 2])
    BY <1>1, Here DEF Fits, ThreadState, TokensTyped, Pair, Pcs, StoragePcs
  <1>5. TokensTyped' /\ SessionsSound' /\ (At(Person, "otp")' => supabase'.signIns < MaxSignIns)
    BY <1>1, <1>2, Here DEF CheckRefreshes, TokensTyped, SessionsSound, Goto, At
  <1> HIDE DEF pc, token
  <1>6. QED
    BY <1>1, <1>2, <1>3, <1>4, <1>5, MoveKeeps

\* The refresh token is read from storage, and there is one.
LEMMA TokenIsRead ==
  ASSUME Inv, NEW t \in ApiClients \cup {Checker}, NEW stage \in 1..3,
         Answered(t, "token_read"), store.refresh # NoToken,
         memory' = [memory EXCEPT !.refresh = store.refresh],
         Goto(t, "posted", store.refresh, stage), calls' = Tail(calls),
         UNCHANGED <<store, supabase, screen, since>>
  PROVE  Inv'
  <1>1. t \in Threads /\ t \notin Requests /\ t # Person
    BY ThreadsAssumption DEF Threads
  <1>2. Queues(t, "posted")
    BY DEF Queues, Answered, At, StoragePcs
  <1>3. memory' \in Pair /\ memory'.access = memory.access
    BY <1>1, Here DEF TokensTyped, Pair
  <1>4. Lawful(t, "posted", stage)
    BY <1>1, <1>3 DEF Lawful, Answered, StaleStored, StaleCached, ExpiredAt, Past, PastAt,
                      RenewedAt, At
  <1>5. Fits(supabase.expired, t, [pc |-> "posted", token |-> store.refresh, stage |-> stage])
    BY <1>1, Here DEF Fits, ThreadState, TokensTyped, Pair, Pcs, StoragePcs
  <1>6. TokensTyped' /\ SessionsSound' /\ (At(Person, "otp")' => supabase'.signIns < MaxSignIns)
    BY <1>1, <1>3, Here DEF TokensTyped, SessionsSound, Goto, At
  <1>7. QED
    BY <1>1, <1>2, <1>4, <1>5, <1>6, MoveKeeps

LEMMA CheckTokenReadKeeps ==
  ASSUME Inv, CheckTokenRead
  PROVE  Inv'
  <1>1. Checker \in Threads \ ApiClients /\ Checker # Person
    BY ThreadsAssumption DEF Threads
  <1>2. CASE store.refresh # NoToken
    BY <1>2, TokenIsRead DEF CheckTokenRead
  <1>3. CASE store.refresh = NoToken
    <2>1. Queues(Checker, "idle")
      BY DEF CheckTokenRead, Queues, Answered, At, StoragePcs
    <2>2. QED
      BY <1>1, <1>3, <2>1, Here, EndKeeps
         DEF CheckTokenRead, CheckEnds, TokensTyped, Answered, At
  <1>4. QED
    BY <1>2, <1>3

LEMMA TokenReadKeeps ==
  ASSUME Inv, NEW c \in ApiClients, TokenRead(c)
  PROVE  Inv'
  <1>1. thread[c].stage \in 1..3
    BY Here DEF Threads, ThreadState
  <1>2. QED
    BY <1>1, TokenIsRead DEF TokenRead

\* refreshSession of the check fails.
LEMMA CheckRefreshFailsKeeps ==
  ASSUME Inv, CheckRefreshFails
  PROVE  Inv'
  <1>1. Checker \in Threads /\ Checker \notin ApiClients /\ Checker \notin Requests
        /\ Checker # Person
    BY ThreadsAssumption DEF Threads
  <1>2. Goto(Checker, "clear", NoToken, 2) /\ Queues(Checker, "clear")
    BY DEF CheckRefreshFails, Call, Queues, At, StoragePcs
  <1>3. Empty \in Pair /\ Empty.access = NoToken
    BY DEF Empty, Pair
  <1>4. Lawful(Checker, "clear", 2)
    BY <1>1, <1>3 DEF CheckRefreshFails, Lawful, StaleStored, StaleCached, ExpiredAt, PastAt,
                      RenewedAt, At
  <1>5. Fits(supabase.expired, Checker, [pc |-> "clear", token |-> NoToken, stage |-> 2])
    BY <1>1 DEF Fits, ThreadState, Pcs, StoragePcs
  <1>6. TokensTyped' /\ SessionsSound' /\ (At(Person, "otp")' => supabase'.signIns < MaxSignIns)
    BY <1>1, <1>2, <1>3, Here DEF CheckRefreshFails, TokensTyped, SessionsSound, Goto, At
  <1>7. QED
    BY <1>1, <1>2, <1>4, <1>5, <1>6, MoveKeeps

LEMMA CheckRefreshedKeeps ==
  ASSUME Inv, CheckRefreshed
  PROVE  Inv'
  <1>1. Checker \in Threads /\ Checker \notin ApiClients /\ Checker \notin Requests
        /\ Checker # Person
    BY ThreadsAssumption DEF Threads
  <1> DEFINE pc == IF memory.access # NoToken THEN "refresh_read" ELSE "access_read"
             token == IF memory.access # NoToken THEN memory.access ELSE thread[Checker].token
  <1>2. Goto(Checker, pc, token, 3) /\ Queues(Checker, pc)
    BY DEF CheckRefreshed, GetAccessToken, Call, Queues, Answered, At, StoragePcs
  <1>3. thread[Checker].token \in Token
    BY <1>1, Here DEF CheckRefreshed, Answered, At, Fits, ThreadState, Refused
  <1>4. store' \in Pair /\ store'.access = store.access
    BY <1>1, <1>3, Here DEF CheckRefreshed, TokensTyped, Pair
  <1>5. Lawful(Checker, pc, 3)
    BY <1>1, <1>4 DEF CheckRefreshed, Answered, Lawful, StaleStored, StaleCached, ExpiredAt,
                      Past, PastAt, RenewedAt, At
  <1>6. Fits(supabase.expired, Checker, [pc |-> pc, token |-> token, stage |-> 3])
    BY <1>1, <1>3, Here DEF Fits, ThreadState, TokensTyped, Pair, Pcs, StoragePcs
  <1>7. TokensTyped' /\ SessionsSound' /\ (At(Person, "otp")' => supabase'.signIns < MaxSignIns)
    BY <1>1, <1>2, <1>4, Here DEF CheckRefreshed, TokensTyped, SessionsSound, Goto, At
  <1> HIDE DEF pc, token
  <1>8. QED
    BY <1>1, <1>2, <1>5, <1>6, <1>7, MoveKeeps DEF pc

\* A rotation gives a token that is good: what expires is an older one.
LEMMA ExchangeKeeps ==
  ASSUME Inv, NEW t \in ApiClients \cup {Checker}, Exchange(t)
  PROVE  Inv'
  <1>1. t \in Threads /\ t \notin Requests /\ t # Person
    BY ThreadsAssumption DEF Threads
  <1> DEFINE old == thread[t].token
             s == old.session
             stage == thread[t].stage
  <1>2. old \in Token /\ s \in 1..MaxSignIns /\ old.gen \in 0..MaxGen
    BY <1>1, Here DEF Exchange, At, Fits, ThreadState, Token
  <1>3. supabase \in SupabaseState /\ supabase.gen[s] \in 0..MaxGen
        /\ supabase.expired[s] \in 0..MaxGen + 1
        /\ supabase.expired[s] <= supabase.gen[s] + 1
        /\ \A z \in 1..MaxSignIns : supabase.gen[z] \in Nat /\ supabase.expired[z] \in Nat
    <2>1. supabase \in SupabaseState /\ SessionsSound
      BY <1>1, Here DEF TokensTyped
    <2>2. /\ supabase.gen \in [1..MaxSignIns -> 0..MaxGen]
          /\ supabase.expired \in [1..MaxSignIns -> 0..MaxGen + 1]
      BY <2>1 DEF SupabaseState
    <2>3. \A z \in 1..MaxSignIns : supabase.gen[z] \in 0..MaxGen
                                   /\ supabase.expired[z] \in 0..MaxGen + 1
      BY <2>2
    <2>4. QED
      BY <1>2, <2>1, <2>3, BoundsAssumption DEF SessionsSound
  <1>4. PICK token \in Token : /\ Goto(t, "rotated", token, stage)
                               /\ ~ Refused(supabase.expired, token)
                               /\ supabase' \in SupabaseState
                               /\ supabase'.expired = supabase.expired
                               /\ supabase'.signIns = supabase.signIns
                               /\ \A z \in 1..MaxSignIns : supabase'.gen[z] >= supabase.gen[z]
    <2>1. CASE Rotates(old) /\ supabase' = [supabase EXCEPT !.gen[s] = @ + 1]
               /\ Goto(t, "rotated", [old EXCEPT !.gen = @ + 1], stage)
      <3>1. [old EXCEPT !.gen = @ + 1] = [session |-> s, gen |-> old.gen + 1]
        BY <1>2 DEF Token
      <3>2. old.gen + 1 \in 0..MaxGen /\ old.gen = supabase.gen[s]
        BY <1>2, <2>1, BoundsAssumption DEF Rotates
      <3>3. [session |-> s, gen |-> old.gen + 1] \in Token
        BY <1>2, <3>2 DEF Token
      <3>4. ~ Refused(supabase.expired, [session |-> s, gen |-> old.gen + 1])
        BY <1>2, <1>3, <3>2, <3>3, TokenAssumption DEF Refused
      <3>5. /\ supabase' \in SupabaseState
            /\ supabase'.expired = supabase.expired
            /\ supabase'.signIns = supabase.signIns
            /\ \A z \in 1..MaxSignIns : supabase'.gen[z] >= supabase.gen[z]
        <4>1. supabase.gen \in [1..MaxSignIns -> 0..MaxGen]
          BY <1>3 DEF SupabaseState
        <4> DEFINE gen == [supabase.gen EXCEPT ![s] = supabase.gen[s] + 1]
        <4>2. /\ gen \in [1..MaxSignIns -> 0..MaxGen]
              /\ \A z \in 1..MaxSignIns : gen[z] >= supabase.gen[z]
          BY <1>2, <1>3, <3>2, <4>1
        <4>3. supabase' = [supabase EXCEPT !.gen = gen]
          BY <2>1
        <4> HIDE DEF gen
        <4>4. QED
          BY <1>3, <4>2, <4>3 DEF SupabaseState
      <3>6. QED
        BY <2>1, <3>1, <3>3, <3>4, <3>5
    <2>2. CASE Reuses(old) /\ Goto(t, "rotated", Current(s), stage) /\ UNCHANGED supabase
      <3>1. Current(s) \in Token
        BY <1>2, <1>3 DEF Current, Token
      <3>2. ~ Refused(supabase.expired, Current(s))
        BY <2>2, <3>1, TokenAssumption DEF Reuses, ExpiredAt, Refused
      <3>3. \A z \in 1..MaxSignIns : supabase'.gen[z] >= supabase.gen[z]
        BY <1>3, <2>2 DEF SupabaseState
      <3>4. QED
        BY <1>3, <2>2, <3>1, <3>2, <3>3
    <2>3. QED
      BY <2>1, <2>2 DEF Exchange
  <1>5. Queues(t, "rotated")
    BY DEF Exchange, Queues, At, StoragePcs
  <1>6. Lawful(t, "rotated", stage)
    BY <1>1, <1>4 DEF Exchange, Lawful, StaleStored, StaleCached, ExpiredAt, Past, PastAt,
                      RenewedAt, At
  <1>7. Fits(supabase.expired, t, [pc |-> "rotated", token |-> token, stage |-> stage])
    BY <1>1, <1>4, Here DEF Fits, ThreadState, Pcs
  <1>8. TokensTyped'
    BY <1>1, <1>4, Here DEF Exchange, TokensTyped
  <1>9. SessionsSound'
    <2> SUFFICES ASSUME NEW z \in 1..MaxSignIns
                 PROVE  /\ supabase'.expired[z] <= supabase'.gen[z] + 1
                        /\ z > supabase'.signIns => supabase'.expired[z] = 0
      BY DEF SessionsSound
    <2>1. /\ supabase'.gen[z] \in Nat /\ supabase.gen[z] \in Nat
          /\ supabase.expired[z] \in Nat /\ supabase'.gen[z] >= supabase.gen[z]
      <3>1. supabase'.gen \in [1..MaxSignIns -> 0..MaxGen]
        BY <1>4 DEF SupabaseState
      <3>2. supabase'.gen[z] \in 0..MaxGen
        BY <3>1
      <3>3. QED
        BY <1>3, <1>4, <3>2
    <2>2. /\ supabase.expired[z] <= supabase.gen[z] + 1
          /\ z > supabase.signIns => supabase.expired[z] = 0
      BY <1>1, Here DEF SessionsSound
    <2>3. QED
      BY <1>4, <2>1, <2>2
  <1>10. At(Person, "otp")' => supabase'.signIns < MaxSignIns
    BY <1>1, <1>4, Here DEF Goto, At
  <1> HIDE DEF old, s, stage
  <1>11. QED
    BY <1>1, <1>4, <1>5, <1>6, <1>7, <1>8, <1>9, <1>10, MoveKeeps

LEMMA ExchangeAnsweredKeeps ==
  ASSUME Inv, NEW t \in ApiClients \cup {Checker}, ExchangeAnswered(t)
  PROVE  Inv'
  <1>1. t \in Threads /\ t \notin Requests /\ t # Person
    BY ThreadsAssumption DEF Threads
  <1> DEFINE token == thread[t].token
             stage == thread[t].stage
  <1>2. Goto(t, "save_access", token, stage) /\ Queues(t, "save_access")
    BY DEF ExchangeAnswered, TokensArrive, Call, Queues, At, StoragePcs
  <1>3. token \in Token /\ ~ Refused(supabase.expired, token)
    BY <1>1, Here DEF ExchangeAnswered, At, Fits, ThreadState, Refused
  <1>4. /\ memory' \in Pair /\ memory'.access = token
        /\ since' \in {"nothing", "signed_out", "answered"}
        /\ UNCHANGED <<store, supabase, screen>>
    BY <1>3 DEF ExchangeAnswered, TokensArrive, Pair
  <1>5. Lawful(t, "save_access", stage)
    BY <1>1, <1>3, <1>4 DEF ExchangeAnswered, Lawful, StaleStored, StaleCached, ExpiredAt,
                      Refused, Past, PastAt, RenewedAt, At
  <1>6. Fits(supabase.expired, t, [pc |-> "save_access", token |-> token, stage |-> stage])
    BY <1>1, <1>3, Here DEF Fits, ThreadState, Pcs, StoragePcs
  <1>7. TokensTyped' /\ SessionsSound' /\ (At(Person, "otp")' => supabase'.signIns < MaxSignIns)
    BY <1>1, <1>2, <1>4, Here DEF TokensTyped, SessionsSound, Goto, At
  <1> HIDE DEF token, stage
  <1>8. QED
    BY <1>1, <1>2, <1>5, <1>6, <1>7, MoveKeeps

LEMMA AccessSavedKeeps ==
  ASSUME Inv, NEW t \in ApiClients \cup {Checker, Person}, AccessSaved(t)
  PROVE  Inv'
  <1>1. t \in Threads /\ t \notin Requests
    BY ThreadsAssumption DEF Threads
  <1> DEFINE token == thread[t].token
             stage == thread[t].stage
  <1>2. Goto(t, "save_refresh", token, stage) /\ Queues(t, "save_refresh")
    BY DEF AccessSaved, Call, Queues, Answered, At, StoragePcs
  <1>3. token \in Token /\ ~ Refused(supabase.expired, token)
    BY <1>1, Here DEF AccessSaved, Answered, At, Fits, ThreadState, Refused
  <1>4. /\ memory' \in Pair /\ memory'.access = memory.access
        /\ store' \in Pair /\ store'.access = token
        /\ UNCHANGED <<supabase, screen, since>>
    BY <1>1, <1>3, Here DEF AccessSaved, TokensTyped, Pair
  <1>5. Lawful(t, "save_refresh", stage)
    BY <1>1, <1>3, <1>4 DEF AccessSaved, Answered, Lawful, StaleStored, StaleCached, ExpiredAt,
                      Refused, Past, PastAt, RenewedAt, At
  <1>6. Fits(supabase.expired, t, [pc |-> "save_refresh", token |-> token, stage |-> stage])
    BY <1>1, <1>3, Here, ThreadsAssumption DEF Fits, ThreadState, Pcs, StoragePcs
  <1>7. TokensTyped' /\ SessionsSound' /\ (At(Person, "otp")' => supabase'.signIns < MaxSignIns)
    BY <1>1, <1>2, <1>4, ThreadsAssumption, Here DEF TokensTyped, SessionsSound, Goto, At,
       Inv, LocalInv
  <1> HIDE DEF token, stage
  <1>8. QED
    BY <1>1, <1>2, <1>5, <1>6, <1>7, MoveKeeps

-----------------------------------------------------------------------------
(* Sign-in and sign-out *)

LEMMA SignInKeeps ==
  ASSUME Inv, SignIn
  PROVE  Inv'
  <1>1. Person \in Threads /\ Person \notin ApiClients /\ Person \notin Requests
        /\ Person # Checker
    BY ThreadsAssumption DEF Threads
  <1>2. Goto(Person, "otp", NoToken, 1) /\ Queues(Person, "otp")
    BY DEF SignIn, Queues, At, StoragePcs
  <1>3. Lawful(Person, "otp", 1)
    BY <1>1 DEF SignIn, Lawful, StaleStored, StaleCached, ExpiredAt, PastAt, RenewedAt, At
  <1>4. Fits(supabase.expired, Person, [pc |-> "otp", token |-> NoToken, stage |-> 1])
    BY <1>1 DEF Fits, ThreadState, Pcs
  <1>5. TokensTyped' /\ SessionsSound' /\ (At(Person, "otp")' => supabase'.signIns < MaxSignIns)
    BY <1>1, Here DEF SignIn, TokensTyped, SessionsSound
  <1>6. QED
    BY <1>1, <1>2, <1>3, <1>4, <1>5, MoveKeeps

LEMMA OtpAcceptedKeeps ==
  ASSUME Inv, OtpAccepted
  PROVE  Inv'
  <1>1. Person \in Threads /\ Person \notin ApiClients /\ Person \notin Requests
        /\ Person # Checker
    BY ThreadsAssumption DEF Threads
  <1> DEFINE s == supabase.signIns + 1
             token == [session |-> s, gen |-> 0]
  <1>2. Goto(Person, "save_access", token, 1) /\ Queues(Person, "save_access")
    BY DEF OtpAccepted, Call, Queues, At, StoragePcs
  <1>3. supabase \in SupabaseState /\ supabase.signIns < MaxSignIns /\ SessionsSound
        /\ supabase.signIns \in 0..MaxSignIns
    BY <1>1, Here DEF OtpAccepted, TokensTyped, SupabaseState
  <1>4. s \in 1..MaxSignIns /\ s > supabase.signIns
    BY <1>3, BoundsAssumption
  <1>5. token \in Token /\ token # NoToken
    BY <1>4, BoundsAssumption, TokenAssumption DEF Token
  <1>6. ~ Refused(supabase.expired, token)
    BY <1>3, <1>4, <1>5 DEF Refused, SessionsSound
  <1>7. /\ supabase' = [supabase EXCEPT !.signIns = s]
        /\ memory' \in Pair /\ memory'.access = token
        /\ since' = "nothing"
        /\ UNCHANGED <<store, screen>>
    BY <1>1, <1>5, Here DEF OtpAccepted, TokensTyped, Pair
  <1>8. /\ supabase' \in SupabaseState /\ supabase'.expired = supabase.expired
        /\ supabase'.gen = supabase.gen /\ supabase'.signIns = s
    BY <1>3, <1>4, <1>7 DEF SupabaseState
  <1>9. Lawful(Person, "save_access", 1)
    BY <1>1, <1>5, <1>6, <1>7, <1>8 DEF OtpAccepted, Lawful, StaleStored, StaleCached, ExpiredAt,
                      Refused, PastAt, RenewedAt, At
  <1>10. Fits(supabase.expired, Person, [pc |-> "save_access", token |-> token, stage |-> 1])
    BY <1>1, <1>5, <1>6 DEF Fits, ThreadState, Pcs, StoragePcs
  <1>11. TokensTyped'
    BY <1>1, <1>7, <1>8, Here DEF TokensTyped
  <1>12. SessionsSound'
    BY <1>3, <1>8 DEF SessionsSound
  <1>13. ~ At(Person, "otp")'
    BY <1>1, <1>2, Here DEF Goto, At, Inv, LocalInv
  <1> HIDE DEF token
  <1>14. QED
    BY <1>1, <1>2, <1>9, <1>10, <1>11, <1>12, <1>13, MoveKeeps

LEMMA PersonEnds ==
  ASSUME Inv, OtpRefused \/ SignedIn \/ SignedOut
  PROVE  Inv'
  <1>1. Person \in Threads \ ApiClients
    BY ThreadsAssumption DEF Threads
  <1>2. Queues(Person, "idle")
    BY DEF OtpRefused, SignedIn, SignedOut, SignOutEnds, Queues, At, Answered, StoragePcs
  <1>3. memory \in Pair /\ store \in Pair /\ Empty \in Pair /\ Empty.access = NoToken
        /\ since \in {"nothing", "signed_out", "answered"}
    BY <1>1, Here DEF TokensTyped, Pair, Empty
  <1>4. /\ UNCHANGED supabase
        /\ thread' = [thread EXCEPT ![Person] = Idle]
        /\ since' \in {"nothing", "signed_out", "answered"}
        /\ screen' \in {"login", "loading", "clients"}
    BY <1>3 DEF OtpRefused, SignedIn, SignedOut, SignOutEnds
  <1>5. CASE OtpRefused
    BY <1>1, <1>2, <1>3, <1>4, <1>5, EndKeeps DEF OtpRefused, At
  <1>6. CASE SignedIn
    <2>1. thread[Person].token \in Token
      BY <1>1, <1>6, Here DEF SignedIn, Answered, At, Fits, ThreadState, Refused
    <2>2. store' \in Pair /\ store'.access = store.access /\ memory' = memory
      BY <1>3, <1>6, <2>1 DEF SignedIn, Pair
    <2>3. ~ At(Person, "clear") /\ ~ At(Person, "save_access")
      BY <1>6 DEF SignedIn, Answered, At
    <2>4. QED
      BY <1>1, <1>2, <1>3, <1>4, <2>2, <2>3, EndKeeps
  <1>7. CASE SignedOut
    <2>1. memory' = Empty /\ store' = Empty
      BY <1>7 DEF SignedOut, SignOutEnds
    <2>2. QED
      BY <1>1, <1>2, <1>3, <1>4, <2>1, EndKeeps
  <1>8. QED
    BY <1>5, <1>6, <1>7

LEMMA SignOutKeeps ==
  ASSUME Inv, SignOut
  PROVE  Inv'
  <1>1. Person \in Threads /\ Person \notin ApiClients /\ Person \notin Requests
        /\ Person # Checker
    BY ThreadsAssumption DEF Threads
  <1>2. Goto(Person, "clear", NoToken, 1) /\ Queues(Person, "clear")
    BY DEF SignOut, Call, Queues, At, StoragePcs
  <1>3. Empty \in Pair /\ Empty.access = NoToken
    BY DEF Empty, Pair
  <1>4. Lawful(Person, "clear", 1)
    BY <1>1, <1>3 DEF SignOut, Lawful, StaleStored, StaleCached, ExpiredAt, PastAt,
                      RenewedAt, At
  <1>5. Fits(supabase.expired, Person, [pc |-> "clear", token |-> NoToken, stage |-> 1])
    BY <1>1 DEF Fits, ThreadState, Pcs, StoragePcs
  <1>6. TokensTyped' /\ SessionsSound'
    BY <1>1, <1>3, Here DEF SignOut, TokensTyped, SessionsSound
  <1>7. ~ At(Person, "otp")'
    BY <1>1, <1>2, Here DEF Goto, At, Inv, LocalInv
  <1>8. QED
    BY <1>1, <1>2, <1>4, <1>5, <1>6, <1>7, MoveKeeps

-----------------------------------------------------------------------------
(* The steps that move several threads: a refresh starts, or ends for all *)
(* who wait for it                                                        *)

\* The refresh of c ends, and those who wait for it go on as next says.
LEMMA WakeMoves ==
  ASSUME Inv, NEW c \in ApiClients, NEW next \in [Requests -> ThreadState], Wake(c, next),
         \A r \in Requests : At(r, "joined") => next[r].pc # "joined"
                                 /\ Fits(supabase.expired, r, next[r])
  PROVE  /\ thread' \in [Threads -> ThreadState]
         /\ \A t \in Threads :
                \/ thread'[t] = thread[t] /\ t # c
                \/ t = c /\ thread'[t] = Idle
                \/ t \in Requests /\ At(t, "joined") /\ thread'[t] = next[t]
         /\ \A t \in Threads : Fits(supabase.expired, t, thread'[t])
         /\ Awaited'
  <1>1. c \in Threads /\ c \notin Requests /\ Requests \subseteq Threads /\ c # Person
        /\ c # Checker
    BY ThreadsAssumption DEF Threads
  <1>2. Idle \in ThreadState /\ Fits(supabase.expired, c, Idle)
    BY <1>1 DEF Idle, ThreadState, Pcs, Fits
  <1>3. thread \in [Threads -> ThreadState]
        /\ (\A t \in Threads : Fits(supabase.expired, t, thread[t])) /\ Awaited
    BY DEF Inv, LocalInv
  <1> DEFINE waiting == {r \in Requests : ClientOf[r] = c /\ At(r, "joined")}
  <1>4. thread' = [t \in Threads |-> IF t \in waiting THEN next[t]
                                     ELSE IF t = c THEN Idle ELSE thread[t]]
    BY DEF Wake
  <1>5. thread' \in [Threads -> ThreadState]
    BY <1>1, <1>2, <1>3, <1>4
  <1>6. \A t \in Threads : Fits(supabase.expired, t, thread'[t])
    BY <1>1, <1>2, <1>3, <1>4
  <1>7. \A t \in Threads :
            \/ thread'[t] = thread[t] /\ t # c
            \/ t = c /\ thread'[t] = Idle
            \/ t \in Requests /\ At(t, "joined") /\ thread'[t] = next[t]
    BY <1>1, <1>4
  <1>8. ASSUME NEW r \in Requests, thread'[r].pc = "joined"
        PROVE  thread'[ClientOf[r]].pc # "idle"
    <2>1. ClientOf[r] \in ApiClients /\ ClientOf[r] \notin Requests
          /\ ClientOf[r] \in Threads /\ r \in Threads /\ r # c
      BY <1>1, ThreadsAssumption DEF Threads
    <2>2. r \notin waiting
      BY <1>4, <1>8, <2>1
    <2>3. thread'[r] = thread[r] /\ At(r, "joined")
      BY <1>4, <1>8, <2>1, <2>2 DEF At
    <2>4. ClientOf[r] # c /\ thread'[ClientOf[r]] = thread[ClientOf[r]]
      BY <1>4, <2>1, <2>2, <2>3
    <2>5. QED
      BY <1>3, <2>3, <2>4 DEF Awaited, At
  <1>9. QED
    BY <1>5, <1>6, <1>7, <1>8 DEF Awaited, At

LEMMA WakeKeeps ==
  ASSUME Inv, NEW c \in ApiClients, NEW next \in [Requests -> ThreadState], Wake(c, next),
         \A r \in Requests : At(r, "joined") =>
             /\ next[r].pc \notin StoragePcs \cup {"joined"}
             /\ Fits(supabase.expired, r, next[r]),
         Past(c), UNCHANGED <<memory, supabase, screen, since>>,
         store' \in Pair, store'.access = store.access,
         \/ thread[c].pc \notin StoragePcs /\ UNCHANGED calls
         \/ /\ Answered(c, thread[c].pc) /\ thread[c].pc \in StoragePcs \ {"clear", "save_access"}
            /\ calls' = Tail(calls),
         \/ \A r \in Requests : At(r, "joined") => next[r].pc = "idle"
         \/ At(c, "save_refresh")
  PROVE  Inv'
  <1>1. /\ c \in Threads /\ c \notin Requests /\ Requests \subseteq Threads /\ c # Person
        /\ c \in Others /\ c # Checker
    BY ThreadsAssumption DEF Threads, Others
  <1>2. /\ thread' \in [Threads -> ThreadState]
        /\ \A t \in Threads :
                \/ thread'[t] = thread[t] /\ t # c
                \/ t = c /\ thread'[t] = Idle
                \/ t \in Requests /\ At(t, "joined") /\ thread'[t] = next[t]
        /\ \A t \in Threads : Fits(supabase.expired, t, thread'[t])
        /\ Awaited'
    BY WakeMoves
  <1>3. LocalInv /\ QueueSound /\ calls \in Seq(Threads) /\ (Renewed => ~ StaleCached)
    BY DEF Inv, LocalInv
  <1>4. \A u \in Threads : u # c /\ thread[u].pc \in StoragePcs => thread'[u] = thread[u]
    BY <1>2 DEF At, StoragePcs
  <1>5. PICK n \in {0, 1} :
            /\ Shifted(n, 0)
            /\ n = 1 => thread[calls[1]].pc \notin {"clear", "save_access"}
    <2>1. CASE thread[c].pc \notin StoragePcs /\ UNCHANGED calls
      <3>1. Shifted(0, 0)
        BY <1>3, <1>4, <2>1, NoCallShifts
      <3>2. QED
        BY <3>1
    <2>2. CASE /\ Answered(c, thread[c].pc)
               /\ thread[c].pc \in StoragePcs \ {"clear", "save_access"}
               /\ calls' = Tail(calls)
      <3>1. Shifted(1, 0)
        BY <1>1, <1>3, <1>4, <2>2, AnswerShifts
      <3>2. calls[1] = c
        BY <1>3, <2>2 DEF Answered
      <3>3. QED
        BY <2>2, <3>1, <3>2
    <2>3. QED
      BY <2>1, <2>2
  <1>6. LocalInv'
    <2>1. calls' \in Seq(Threads)
      BY <1>5 DEF Shifted
    <2>2. ~ At(Person, "otp")' \/ At(Person, "otp")
      BY <1>1, <1>2, ThreadsAssumption DEF At, Threads
    <2>3. QED
      BY <1>2, <1>3, <2>1, <2>2 DEF LocalInv, TokensTyped, SessionsSound
  <1>7. WritesInOrder(n, 0)
    BY <1>5 DEF WritesInOrder, Made, StaleStored, ExpiredAt
  <1>8. Passes(n)
    BY <1>1 DEF Passes
  <1>9. Renewed' => Renewed
    <2>1. CASE At(c, "save_refresh")
      BY <1>1, <2>1 DEF Renewed
    <2>2. CASE \A r \in Requests : At(r, "joined") => next[r].pc = "idle"
      <3>1. \A t \in Threads : thread'[t] = thread[t] \/ thread'[t].pc = "idle"
        BY <1>2, <2>2 DEF Idle
      <3>2. QED
        BY <3>1 DEF Renewed, Repeating, At, Threads
    <2>3. QED
      BY <2>1, <2>2
  <1>10. Renewed' => ~ StaleCached'
    BY <1>3, <1>9 DEF StaleCached, ExpiredAt
  <1>11. QED
    BY <1>5, <1>6, <1>7, <1>8, <1>10, StepKeeps

LEMMA RefreshFailsKeeps ==
  ASSUME Inv, NEW c \in ApiClients, RefreshFails(c)
  PROVE  Inv'
  <1>1. c \in Threads /\ Idle \in ThreadState
        /\ \A r \in Requests : Fits(supabase.expired, r, Idle)
    BY ThreadsAssumption DEF Threads, Idle, ThreadState, Pcs, Fits
  <1>2. Failed \in [Requests -> ThreadState] /\ \A r \in Requests : Failed[r] = Idle
    BY <1>1 DEF Failed
  <1>3. /\ \/ At(c, "posted") /\ UNCHANGED calls
           \/ At(c, "rotated") /\ UNCHANGED calls
           \/ Answered(c, "token_read") /\ calls' = Tail(calls)
        /\ UNCHANGED <<memory, store, supabase, screen, since>>
        /\ Wake(c, Failed)
    BY DEF RefreshFails, Fails
  <1>4. Past(c)
    BY <1>3 DEF Past, Answered, At
  <1>5. \/ thread[c].pc \notin StoragePcs /\ UNCHANGED calls
        \/ /\ Answered(c, thread[c].pc) /\ thread[c].pc \in StoragePcs \ {"clear", "save_access"}
           /\ calls' = Tail(calls)
    BY <1>3 DEF Answered, At, StoragePcs
  <1>6. store' \in Pair /\ store'.access = store.access
    BY <1>1, <1>3, Here DEF TokensTyped
  <1>7. Idle.pc = "idle" /\ "idle" \notin StoragePcs \cup {"joined"}
    BY DEF Idle, StoragePcs
  <1>8. QED
    BY <1>1, <1>2, <1>3, <1>4, <1>5, <1>6, <1>7, WakeKeeps

\* Those who waited have been refused, and go on with the second attempt.
LEMMA RefreshSavedKeeps ==
  ASSUME Inv, NEW c \in ApiClients, RefreshSaved(c)
  PROVE  Inv'
  <1>1. c \in Threads /\ Requests \subseteq Threads
    BY DEF Threads
  <1>2. ASSUME NEW r \in Requests, At(r, "joined")
        PROVE  /\ Again[r].pc = "retry"
               /\ Fits(supabase.expired, r, Again[r])
    <2>1. /\ Fits(supabase.expired, r, thread[r]) /\ thread[r] \in ThreadState
          /\ r \notin ApiClients /\ r # Checker /\ r # Person
      BY <1>1, Here, ThreadsAssumption
    <2>2. thread[r].stage = 1 /\ thread[r].token \in Token \cup {NoToken}
          /\ Refused(supabase.expired, thread[r].token)
      BY <1>2, <2>1 DEF Fits, At, ThreadState
    <2>3. Again[r] = [thread[r] EXCEPT !.pc = "retry", !.stage = thread[r].stage + 1]
      BY Zenon DEF Again
    <2>4. Again[r] = [pc |-> "retry", token |-> thread[r].token, stage |-> 2]
      <3>1. thread[r].stage + 1 = 2
        BY <2>2
      <3>2. QED
        BY <2>1, <2>3, <3>1 DEF ThreadState
    <2>5. QED
      BY <2>1, <2>2, <2>4 DEF Fits, ThreadState, Pcs
  <1> DEFINE next == [r \in Requests |-> IF At(r, "joined") THEN Again[r] ELSE Idle]
  <1>3. Idle \in ThreadState
    BY DEF Idle, ThreadState, Pcs
  <1>4. next \in [Requests -> ThreadState]
    BY <1>2, <1>3 DEF Fits
  <1>5. \A r \in Requests : At(r, "joined") =>
             /\ next[r].pc \notin StoragePcs \cup {"joined"}
             /\ Fits(supabase.expired, r, next[r])
    <2>1. \A r \in Requests : At(r, "joined") => next[r] = Again[r]
      OBVIOUS
    <2> HIDE DEF next
    <2>2. "retry" \notin StoragePcs \cup {"joined"}
      BY DEF StoragePcs
    <2>3. QED
      BY <1>2, <2>1, <2>2
  <1>6. Wake(c, next)
    <2>1. \A r \in Requests : At(r, "joined") => next[r] = Again[r]
      OBVIOUS
    <2> HIDE DEF next
    <2>2. QED
      BY <2>1 DEF Wake, RefreshSaved
  <1>7. Answered(c, "save_refresh") /\ calls' = Tail(calls)
        /\ UNCHANGED <<memory, supabase, screen, since>>
    BY DEF RefreshSaved
  <1>8. Past(c) /\ At(c, "save_refresh") /\ Answered(c, thread[c].pc)
        /\ thread[c].pc \in StoragePcs \ {"clear", "save_access"}
    BY <1>7 DEF Past, Answered, At, StoragePcs
  <1>9. thread[c].token \in Token
    BY <1>1, <1>8, Here DEF At, Fits, ThreadState, Refused
  <1>10. store' \in Pair /\ store'.access = store.access
    BY <1>1, <1>9, Here DEF RefreshSaved, TokensTyped, Pair
  <1> HIDE DEF next
  <1>11. QED
    BY <1>4, <1>5, <1>6, <1>7, <1>8, <1>10, WakeKeeps

LEMMA StartRefreshKeeps ==
  ASSUME Inv, NEW r \in Requests, StartRefresh(r)
  PROVE  Inv'
  <1> DEFINE c == ClientOf[r]
             pc == IF memory.refresh # NoToken THEN "posted" ELSE "token_read"
             m == IF memory.refresh # NoToken THEN 0 ELSE 1
  <1>1. /\ c \in Threads /\ r \in Threads /\ c \in ApiClients /\ c # r
        /\ c # Checker /\ c # Person /\ c \notin Requests
        /\ r # Checker /\ r # Person /\ r \notin ApiClients
        /\ r \in Others
    BY ThreadsAssumption DEF Threads, Others
  <1>2. /\ LocalInv /\ QueueSound /\ calls \in Seq(Threads)
        /\ thread \in [Threads -> ThreadState]
        /\ (\A t \in Threads : Fits(supabase.expired, t, thread[t])) /\ Awaited
        /\ (Renewed => ~ StaleCached)
    BY DEF Inv, LocalInv
  <1>3. At(r, "sent") /\ thread[r].stage = 1 /\ At(c, "idle")
        /\ Refused(supabase.expired, thread[r].token)
        /\ UNCHANGED <<memory, store, supabase, screen, since>>
    BY DEF StartRefresh, Refused, Accepted, ExpiredAt
  <1> DEFINE x == [pc |-> "joined", token |-> thread[r].token, stage |-> 1]
             y == [pc |-> pc, token |-> memory.refresh, stage |-> 1]
  <1>4. [thread[r] EXCEPT !.pc = "joined"] = x
    BY <1>1, <1>2, <1>3 DEF ThreadState
  <1>5. /\ thread' = [thread EXCEPT ![r] = x, ![c] = y]
        /\ calls' = IF m = 0 THEN calls ELSE Append(calls, c)
    <2>1. CASE memory.refresh # NoToken
      <3>1. [Idle EXCEPT !.pc = "posted", !.token = memory.refresh] = y
        <4>1. y = [pc |-> "posted", token |-> memory.refresh, stage |-> 1]
          BY <2>1
        <4> DEFINE w == [Idle EXCEPT !.pc = "posted"]
        <4>2. w = [pc |-> "posted", token |-> NoToken, stage |-> 1]
          BY DEF Idle
        <4>3. [Idle EXCEPT !.pc = "posted", !.token = memory.refresh]
                = [w EXCEPT !.token = memory.refresh]
          BY Zenon DEF Idle
        <4> HIDE DEF w, y
        <4>4. QED
          BY <4>1, <4>2, <4>3
      <3>2. QED
        BY <1>4, <2>1, <3>1 DEF StartRefresh
    <2>2. CASE memory.refresh = NoToken
      <3>1. [Idle EXCEPT !.pc = "token_read"] = y
        BY <2>2 DEF Idle
      <3>2. QED
        BY <1>4, <2>2, <3>1 DEF StartRefresh
    <2>3. QED
      BY <2>1, <2>2
  <1>6. /\ Fits(supabase.expired, r, x)
        /\ Fits(supabase.expired, c, y)
    <2>1. memory.refresh \in Token \cup {NoToken} /\ thread[r].token \in Token \cup {NoToken}
      BY <1>1, <1>2, Here DEF TokensTyped, Pair, ThreadState
    <2>2. QED
      BY <1>1, <1>3, <2>1 DEF Fits, ThreadState, Pcs, StoragePcs
  <1>7. /\ x.pc = "joined" /\ x.stage = 1 /\ y.pc = pc /\ y.stage = 1
        /\ x \in ThreadState /\ y \in ThreadState
    BY <1>6 DEF Fits
  <1> HIDE DEF x, y, c
  <1>8. /\ thread' \in [Threads -> ThreadState] /\ thread'[r] = x /\ thread'[c] = y
        /\ \A t \in Threads : t # r /\ t # c => thread'[t] = thread[t]
    BY <1>1, <1>2, <1>5, <1>7
  <1>9. \A t \in Threads : Fits(supabase.expired, t, thread'[t])
    BY <1>1, <1>2, <1>6, <1>8
  <1>10. /\ Shifted(0, m)
         /\ m = 1 => calls'[Len(calls')] = c
    <2>1. \A i \in 1..Len(calls) :
              /\ calls[i] \in Threads /\ thread[calls[i]].pc \in StoragePcs
              /\ calls[i] # c /\ calls[i] # r
      BY <1>2, <1>3 DEF QueueSound, At, StoragePcs
    <2>2. CASE m = 0
      BY <1>2, <1>5, <1>8, <2>1, <2>2 DEF Shifted
    <2>3. CASE m = 1
      <3>1. calls' = Append(calls, c) /\ pc = "token_read"
        BY <1>5, <2>3
      <3>2. QED
        BY <1>1, <1>2, <1>7, <1>8, <2>1, <2>3, <3>1 DEF Shifted, StoragePcs
    <2>4. QED
      BY <2>2, <2>3
  <1>11. Awaited'
    <2> SUFFICES ASSUME NEW q \in Requests, thread'[q].pc = "joined"
                 PROVE  thread'[ClientOf[q]].pc # "idle"
      BY DEF Awaited, At
    <2>1. ClientOf[q] \in ApiClients /\ ClientOf[q] \in Threads /\ ClientOf[q] # r
          /\ q \in Threads /\ q # c
      BY <1>1, ThreadsAssumption DEF Threads
    <2>2. CASE ClientOf[q] = c
      BY <1>7, <1>8, <2>2
    <2>3. CASE ClientOf[q] # c
      BY <1>2, <1>8, <2>1, <2>3 DEF Awaited, At, c
    <2>4. QED
      BY <2>2, <2>3
  <1>12. LocalInv'
    <2>1. calls' \in Seq(Threads)
      BY <1>10 DEF Shifted
    <2>2. ~ At(Person, "otp")' \/ At(Person, "otp")
      BY <1>1, <1>8, ThreadsAssumption DEF At, Threads
    <2>3. QED
      BY <1>2, <1>3, <1>8, <1>9, <1>11, <2>1, <2>2 DEF LocalInv, TokensTyped, SessionsSound
  <1>13. WritesInOrder(0, m)
    <2>1. m = 1 => thread'[calls'[Len(calls')]].pc = "token_read"
      BY <1>7, <1>8, <1>10
    <2>2. QED
      BY <1>3, <2>1 DEF WritesInOrder, Made, StaleStored, ExpiredAt
  <1>14. Passes(0)
    BY <1>1, <1>3 DEF Passes, Past, At
  <1>15. Renewed' => ~ StaleCached'
    <2>1. \A t \in Threads : thread'[t] = thread[t] \/ t = r \/ t = c
      BY <1>8
    <2>2. Renewed' => Renewed
      BY <1>1, <1>7, <1>8, <2>1 DEF Renewed, Repeating, At, Threads
    <2>3. QED
      BY <1>2, <1>3, <2>2 DEF StaleCached, ExpiredAt
  <1> HIDE DEF m
  <1>16. QED
    BY <1>10, <1>12, <1>13, <1>14, <1>15, StepKeeps

-----------------------------------------------------------------------------
(* Where nothing is under way *)

\* Nobody does anything, but for the check that may just have been started.
Resting ==
    /\ TokensTyped /\ SessionsSound
    /\ thread \in [Threads -> ThreadState]
    /\ \A t \in Threads :
           \/ At(t, "idle")
           \/ t = Checker /\ At(t, "access_read") /\ thread[t].stage = 1
    /\ \A r \in Requests : thread[r].stage <= 2
    /\ calls \in Seq(Threads) /\ QueueSound

LEMMA RestingIsSound == Resting => Inv
  <1> SUFFICES ASSUME Resting PROVE Inv
    OBVIOUS
  <1>1. /\ Checker \notin Requests \cup ApiClients /\ Checker # Person
        /\ Person \in Threads /\ Checker \in Threads /\ ApiClients \subseteq Threads
        /\ Requests \subseteq Threads
    BY ThreadsAssumption DEF Threads
  <1>2. \A t \in Threads : Fits(supabase.expired, t, thread[t])
    BY <1>1 DEF Resting, Fits, At, ThreadState
  <1>3. ~ At(Person, "otp") /\ \A r \in Requests : ~ At(r, "joined")
    BY <1>1 DEF Resting, At
  <1>4. LocalInv
    BY <1>2, <1>3 DEF Resting, LocalInv, Awaited
  <1>5. \A i \in DOMAIN calls : calls[i] \in Threads
    BY DEF Resting
  <1>6. QueuedReadsCovered
    BY <1>5 DEF Resting, QueuedReadsCovered, At
  <1>7. PastCovered
    BY DEF Resting, PastCovered, Past, At, Others
  <1>8. ~ Renewed
    BY <1>1 DEF Resting, Renewed, Repeating, At
  <1>9. QED
    BY <1>4, <1>6, <1>7, <1>8 DEF Resting, Inv

LEMMA OpenedRests ==
  TokensTyped /\ SessionsSound /\ thread = Opened /\ calls = <<Checker>> => Resting
  <1> SUFFICES ASSUME TokensTyped, SessionsSound, thread = Opened, calls = <<Checker>>
               PROVE  Resting
    OBVIOUS
  <1>1. Checker \in Threads /\ Checker \notin Requests
    BY ThreadsAssumption DEF Threads
  <1>2. /\ thread \in [Threads -> ThreadState]
        /\ \A t \in Threads : t # Checker => thread[t] = Idle
        /\ thread[Checker].pc = "access_read" /\ thread[Checker].stage = 1
    BY <1>1 DEF Opened, Idle, ThreadState, Pcs, StoragePcs
  <1>3. calls \in Seq(Threads) /\ QueueSound
    BY <1>1, <1>2 DEF QueueSound, StoragePcs
  <1>4. QED
    BY <1>1, <1>2, <1>3 DEF Resting, At, Idle, Threads

LEMMA OpenedSound ==
  TokensTyped /\ SessionsSound /\ thread = Opened /\ calls = <<Checker>> => Inv
  BY OpenedRests, RestingIsSound

LEMMA InitSound == Init => Inv
  <1> SUFFICES ASSUME Init PROVE Inv
    OBVIOUS
  <1>1. TokensTyped
    BY BoundsAssumption DEF Init, TokensTyped, Empty, Pair, SupabaseState
  <1>2. SessionsSound
    BY BoundsAssumption DEF Init, SessionsSound
  <1>3. QED
    BY <1>1, <1>2, OpenedSound DEF Init

\* The process is killed and the app opened again: storage stays as it is.
LEMMA RelaunchKeeps ==
  ASSUME Inv, Relaunch
  PROVE  Inv'
  <1>1. TokensTyped' /\ SessionsSound'
    BY DEF Inv, LocalInv, Relaunch, TokensTyped, SessionsSound, Empty, Pair
  <1>2. (TokensTyped /\ SessionsSound /\ thread = Opened /\ calls = <<Checker>>)'
    BY <1>1 DEF Relaunch, Opened, Idle
  <1>3. QED
    BY <1>2, OpenedSound, PTL

LEMMA IdleRests ==
  ASSUME Inv, AllIdle
  PROVE  Resting
  BY Here DEF AllIdle, Inv, LocalInv, Resting, Threads, Fits

\* Tokens expire, at Supabase or in memory, when no thread holds one.
LEMMA ExpiryKeeps ==
  ASSUME Inv, MemoryExpires \/ \E s \in 1..MaxSignIns : AccessExpires(s)
  PROVE  Inv'
  <1>1. /\ Resting /\ UNCHANGED <<thread, calls>>
        /\ TokensTyped /\ SessionsSound
    BY IdleRests DEF MemoryExpires, AccessExpires, Inv, LocalInv
  <1>2. TokensTyped' /\ SessionsSound'
    <2>1. CASE MemoryExpires
      BY <1>1, <2>1 DEF MemoryExpires, TokensTyped, SessionsSound, Empty, Pair
    <2>2. ASSUME NEW s \in 1..MaxSignIns, AccessExpires(s)
          PROVE  TokensTyped' /\ SessionsSound'
      <3>1. /\ supabase \in SupabaseState /\ s <= supabase.signIns
            /\ supabase' = [supabase EXCEPT !.expired[s] = supabase.gen[s] + 1]
            /\ UNCHANGED <<memory, store, screen, since>>
        BY <1>1, <2>2 DEF AccessExpires, TokensTyped
      <3>2. /\ supabase.gen \in [1..MaxSignIns -> 0..MaxGen]
            /\ supabase.expired \in [1..MaxSignIns -> 0..MaxGen + 1]
            /\ supabase.signIns \in 0..MaxSignIns
        BY <3>1 DEF SupabaseState
      <3>3. supabase.gen[s] + 1 \in 0..MaxGen + 1
        BY <3>2, BoundsAssumption
      <3> DEFINE exp == [supabase.expired EXCEPT ![s] = supabase.gen[s] + 1]
      <3>4. /\ exp \in [1..MaxSignIns -> 0..MaxGen + 1]
            /\ exp[s] = supabase.gen[s] + 1
            /\ \A z \in 1..MaxSignIns : z # s => exp[z] = supabase.expired[z]
        BY <3>2, <3>3
      <3>5. supabase' = [supabase EXCEPT !.expired = exp]
        BY <3>1
      <3> HIDE DEF exp
      <3>6. /\ supabase' \in SupabaseState /\ supabase'.expired = exp
            /\ supabase'.gen = supabase.gen /\ supabase'.signIns = supabase.signIns
        BY <3>1, <3>4, <3>5 DEF SupabaseState
      <3>7. TokensTyped'
        BY <1>1, <3>1, <3>6 DEF TokensTyped
      <3>8. ASSUME NEW z \in 1..MaxSignIns
            PROVE  /\ supabase'.expired[z] <= supabase'.gen[z] + 1
                   /\ z > supabase'.signIns => supabase'.expired[z] = 0
        <4>1. CASE z = s
          <5>1. supabase.gen[s] \in 0..MaxGen
            BY <3>2
          <5>2. supabase'.expired[z] = supabase'.gen[z] + 1 /\ supabase'.gen[z] \in Nat
            BY <3>4, <3>6, <4>1, <5>1
          <5>3. ~ (z > supabase'.signIns)
            BY <3>1, <3>2, <3>6, <4>1
          <5>4. QED
            BY <5>2, <5>3
        <4>2. CASE z # s
          BY <1>1, <3>4, <3>6, <4>2 DEF SessionsSound
        <4>3. QED
          BY <4>1, <4>2
      <3>9. QED
        BY <3>7, <3>8 DEF SessionsSound
    <2>3. QED
      BY <2>1, <2>2
  <1>3. Resting'
    BY <1>1, <1>2 DEF Resting, QueueSound, At
  <1>4. QED
    BY <1>3, RestingIsSound, PTL

-----------------------------------------------------------------------------
(* Every step keeps the invariant *)

LEMMA StepsKeep ==
  ASSUME Inv, Next
  PROVE  Inv'
  <1>1. ASSUME NEW r \in Requests, BeginRequest(r) \/ RequestStep(r) PROVE Inv'
    BY <1>1, BeginRequestKeeps, AccessReadKeeps, RefreshReadKeeps, EndRequestKeeps,
       JoinRefreshKeeps, StartRefreshKeeps, RetryKeeps DEF RequestStep
  <1>2. ASSUME NEW c \in ApiClients, FlightStep(c) PROVE Inv'
    BY <1>2, ExchangeKeeps, ExchangeAnsweredKeeps, AccessSavedKeeps, TokenReadKeeps,
       RefreshFailsKeeps, RefreshSavedKeeps DEF FlightStep
  <1>3. ASSUME CheckStep PROVE Inv'
    BY <1>3, AccessReadKeeps, CheckerEnds, CheckRefreshReadKeeps, CheckRefreshesKeeps,
       CheckTokenReadKeeps, ExchangeKeeps, ExchangeAnsweredKeeps, AccessSavedKeeps,
       CheckRefreshFailsKeeps, CheckRefreshedKeeps DEF CheckStep
  <1>4. ASSUME SignIn \/ SignOut \/ PersonStep PROVE Inv'
    BY <1>4, SignInKeeps, SignOutKeeps, OtpAcceptedKeeps, PersonEnds, AccessSavedKeeps
       DEF PersonStep
  <1>5. QED
    BY <1>1, <1>2, <1>3, <1>4, ExpiryKeeps, RelaunchKeeps DEF Next

LEMMA StuttersKeep ==
  ASSUME Inv, UNCHANGED vars
  PROVE  Inv'
  <1>1. /\ UNCHANGED <<memory, store, thread, calls, supabase, screen, since>>
    BY DEF vars
  <1>2. LocalInv' /\ QueueSound'
    BY <1>1 DEF Inv, LocalInv, TokensTyped, SessionsSound, Awaited, QueueSound, At
  <1>3. Shifted(0, 0) /\ WritesInOrder(0, 0)
    BY <1>1, NoCallShifts DEF Inv, WritesInOrder, Made, StaleStored, ExpiredAt
  <1>4. (\E t \in Others : Past(t))' => Passes(0)
    BY <1>1 DEF Passes, Past, At
  <1>5. Renewed' => ~ StaleCached'
    BY <1>1 DEF Inv, Renewed, Repeating, At, StaleCached, ExpiredAt
  <1>6. QED
    BY <1>2, <1>3, <1>4, <1>5, StepKeeps

\* Storage answers in the order it was asked: whoever waits for a refresh token
\* has its access token, and every read behind it comes after the overwriting or
\* the deletion of a refused one.
THEOREM TokensInvariance == Spec => []TokensInv
  <1>1. Init => Inv
    BY InitSound
  <1>2. Inv /\ [Next]_vars => Inv'
    BY StepsKeep, StuttersKeep
  <1>3. Inv => TokensInv
    BY InvIsTokensInv
  <1>4. QED
    BY <1>1, <1>2, <1>3, PTL DEF Spec

\* Every reachable state of the app's tokens is one the code has: the two caches
\* hold tokens, the waiting requests wait for a refresh that is in flight.
THEOREM TypeCorrect == Spec => []TypeOK
  <1>1. TokensInv => TypeOK
    BY DEF TokensInv
  <1>2. QED
    BY <1>1, TokensInvariance, PTL

-----------------------------------------------------------------------------
(* A repeated request carries a new token *)

\* Nobody else moves r.
LEMMA OthersLeave ==
  ASSUME Inv, NEW t \in Threads, NEW r \in Threads, r # t, NEW x,
         thread' = [thread EXCEPT ![t] = x]
  PROVE  thread'[r] = thread[r]
  BY DEF Inv, LocalInv

LEMMA ToRefreshRead ==
  ASSUME Inv, Next, NEW r \in Requests, thread[r].pc # "refresh_read",
         thread'[r].pc = "refresh_read", thread[r].pc # "idle"
  PROVE  AccessRead(r) \/ Retry(r)
  <1>1. /\ r \in Threads /\ Checker \in Threads /\ Person \in Threads
        /\ Requests \subseteq Threads /\ ApiClients \subseteq Threads
        /\ r # Checker /\ r # Person /\ r \notin ApiClients
        /\ \A q \in Requests : ClientOf[q] # r /\ ClientOf[q] \in Threads
        /\ thread \in [Threads -> ThreadState]
    BY ThreadsAssumption DEF Threads, Inv, LocalInv
  <1>2. thread'[r] # thread[r]
    OBVIOUS
  <1>3. ASSUME NEW q \in Requests, BeginRequest(q) \/ RequestStep(q)
        PROVE  AccessRead(r) \/ Retry(r)
    <2>1. CASE StartRefresh(q)
      <3> DEFINE joined == [thread[q] EXCEPT !.pc = "joined"]
      <3>1. PICK y : thread' = [thread EXCEPT ![q] = joined, ![ClientOf[q]] = y]
        BY <2>1, Zenon DEF StartRefresh
      <3>2. joined.pc = "joined"
        BY <1>1 DEF ThreadState
      <3> HIDE DEF joined
      <3>3. thread'[r] = thread[r] \/ thread'[r] = joined
        BY <1>1, <3>1
      <3>4. QED
        BY <3>2, <3>3
    <2>2. CASE ~ StartRefresh(q) /\ q # r
      <3>1. \E x : thread' = [thread EXCEPT ![q] = x]
        BY <1>3, <2>2, Zenon DEF BeginRequest, RequestStep, AccessRead, RefreshRead, EndRequest,
              JoinRefresh, Retry, GetAccessToken, Call, Goto
      <3>2. QED
        BY <1>1, <1>2, <2>2, <3>1, OthersLeave
    <2>3. CASE q = r /\ BeginRequest(r)
      BY <2>3 DEF BeginRequest, At
    <2>4. CASE q = r /\ (RefreshRead(r) \/ EndRequest(r) \/ JoinRefresh(r))
      BY <1>1, <2>4 DEF RefreshRead, EndRequest, JoinRefresh, Goto, Idle
    <2>5. QED
      BY <1>3, <2>1, <2>2, <2>3, <2>4 DEF RequestStep
  <1>4. ASSUME NEW c \in ApiClients, FlightStep(c) PROVE FALSE
    <2>1. CASE RefreshFails(c)
      BY <1>1, <1>2, <2>1 DEF RefreshFails, Wake, Failed, Idle
    <2>2. CASE RefreshSaved(c)
      <3>1. \A q \in Requests : Again[q] = [thread[q] EXCEPT !.pc = "retry", !.stage = @ + 1]
        BY DEF Again
      <3>2. Again[r].pc = "retry"
        BY <1>1, <3>1 DEF ThreadState
      <3>3. QED
        BY <1>1, <1>2, <2>2, <3>2 DEF RefreshSaved, Wake, Idle
    <2>3. CASE Exchange(c) \/ ExchangeAnswered(c) \/ AccessSaved(c) \/ TokenRead(c)
      <3>1. \E x : thread' = [thread EXCEPT ![c] = x]
        BY <2>3, Zenon DEF Exchange, ExchangeAnswered, TokensArrive, AccessSaved, TokenRead,
                           Call, Goto
      <3>2. QED
        BY <1>1, <1>2, <3>1, OthersLeave
    <2>4. QED
      BY <1>4, <2>1, <2>2, <2>3 DEF FlightStep
  <1>5. ASSUME CheckStep PROVE FALSE
    <2>1. \E x : thread' = [thread EXCEPT ![Checker] = x]
      BY <1>5, Zenon
         DEF CheckStep, AccessRead, CheckFindsNothing, CheckFindsUser, CheckRefreshRead,
             CheckAnswered, CheckFails, CheckRefreshes, CheckTokenRead, Exchange,
             ExchangeAnswered, TokensArrive, AccessSaved, CheckRefreshFails, CheckCleared,
             CheckRefreshed, GetAccessToken, CheckEnds, Call, Goto
    <2>2. QED
      BY <1>1, <1>2, <2>1, OthersLeave
  <1>6. ASSUME SignIn \/ SignOut \/ PersonStep PROVE FALSE
    <2>1. \E x : thread' = [thread EXCEPT ![Person] = x]
      BY <1>6, Zenon
         DEF SignIn, SignOut, PersonStep, OtpAccepted, OtpRefused, AccessSaved, SignedIn,
             SignedOut, SignOutEnds, Call, Goto
    <2>2. QED
      BY <1>1, <1>2, <2>1, OthersLeave
  <1>7. CASE MemoryExpires \/ Relaunch \/ \E s \in 1..MaxSignIns : AccessExpires(s)
    BY <1>1, <1>2, <1>7 DEF MemoryExpires, Relaunch, AccessExpires, Opened, Idle
  <1>8. QED
    BY <1>3, <1>4, <1>5, <1>6, <1>7 DEF Next

LEMMA RepeatedAreNew ==
  ASSUME Inv, Next, NEW r \in Requests, Repeating(r), thread'[r].pc = "refresh_read"
  PROVE  thread'[r].token # thread[r].token
  <1>1. /\ r \in Threads /\ r \in Others /\ Past(r) /\ Renewed
        /\ thread[r].pc \notin {"idle", "refresh_read"}
    BY ThreadsAssumption DEF Threads, Others, Repeating, Past, Renewed, At
  <1>2. Refused(supabase.expired, thread[r].token) /\ thread \in [Threads -> ThreadState]
    BY <1>1, Here DEF Fits, Repeating, Inv, LocalInv
  <1>3. CASE AccessRead(r)
    <2>1. ~ StaleStored
      BY <1>1, <1>3, HeadReadsFresh DEF AccessRead
    <2>2. store.access # NoToken /\ thread'[r].token = store.access
      BY <1>1, <1>2, <1>3 DEF AccessRead, Call, Goto
    <2>3. QED
      BY <1>2, <2>1, <2>2 DEF StaleStored, ExpiredAt, Refused
  <1>4. CASE Retry(r)
    <2>1. ~ StaleCached
      BY <1>1 DEF Inv
    <2>2. memory.access # NoToken /\ thread'[r].token = memory.access
      BY <1>1, <1>2, <1>4 DEF Retry, GetAccessToken, Call, Goto
    <2>3. QED
      BY <1>2, <2>1, <2>2 DEF StaleCached, ExpiredAt, Refused
  <1>5. QED
    BY <1>1, <1>3, <1>4, ToRefreshRead

\* A request that is repeated after a refresh never repeats the access token that
\* was refused, however its reads of storage fall among those of other requests.
THEOREM RepeatsUseNewTokens == Spec => RetryUsesNewToken
  <1> DEFINE New == \A r \in Requests :
                       /\ thread[r].stage = 2
                       /\ thread[r].pc \in {"retry", "access_read"}
                       /\ thread'[r].pc = "refresh_read"
                       => thread'[r].token # thread[r].token
  <1>1. TokensInv /\ [Next]_vars => [New]_vars
    BY InvIsTokensInv, RepeatedAreNew DEF Repeating
  <1>2. QED
    BY <1>1, TokensInvariance, PTL DEF Spec, RetryUsesNewToken

-----------------------------------------------------------------------------
(* Sign-out leaves nothing behind *)

\* Since the sign-out nobody brings tokens from Supabase, and none are left that
\* a read of storage could put back.
NothingLeft == memory = Empty /\ store = Empty /\ \A t \in Threads : ~ Saving(t)

Cleared == since = "signed_out" => NothingLeft

LEMMA MovesWithoutSaving ==
  ASSUME Inv, \A t \in Threads : ~ Saving(t), NEW t \in Threads, NEW pc, NEW token, NEW stage,
         Goto(t, pc, token, stage), pc \notin {"save_access", "save_refresh"}
  PROVE  \A u \in Threads : ~ Saving(u)'
  BY DEF Inv, LocalInv, Goto, Saving, At

LEMMA EndsWithoutSaving ==
  ASSUME Inv, \A t \in Threads : ~ Saving(t), NEW t \in Threads,
         thread' = [thread EXCEPT ![t] = Idle]
  PROVE  \A u \in Threads : ~ Saving(u)'
  <1>1. Goto(t, "idle", NoToken, 1)
    BY IdleIsGoto
  <1>2. QED
    BY <1>1, MovesWithoutSaving

LEMMA RequestsClear ==
  ASSUME Inv, NothingLeft, NEW r \in Requests, BeginRequest(r) \/ RequestStep(r)
  PROVE  NothingLeft'
  <1>1. r \in Threads /\ ClientOf[r] \in Threads /\ thread \in [Threads -> ThreadState]
    BY ThreadsAssumption DEF Threads, Inv, LocalInv
  <1>2. memory.access = NoToken /\ memory.refresh = NoToken
        /\ store.access = NoToken /\ store.refresh = NoToken
    BY DEF NothingLeft, Empty
  <1>3. UNCHANGED <<memory, store>>
    BY <1>2 DEF BeginRequest, RequestStep, AccessRead, RefreshRead, EndRequest, JoinRefresh,
                StartRefresh, Retry, Recached
  <1>4. CASE StartRefresh(r)
    <2>1. [Idle EXCEPT !.pc = "token_read"].pc = "token_read"
          /\ [thread[r] EXCEPT !.pc = "joined"].pc = "joined"
      BY <1>1 DEF Idle, ThreadState
    <2>2. /\ \A t \in Threads \ {r, ClientOf[r]} : thread'[t] = thread[t]
          /\ thread'[r].pc \in {"joined", "token_read"}
          /\ thread'[ClientOf[r]].pc \in {"joined", "token_read"}
      BY <1>1, <1>2, <1>4, <2>1 DEF StartRefresh
    <2>3. QED
      BY <1>3, <2>2 DEF NothingLeft, Saving, At
  <1>5. CASE EndRequest(r)
    BY <1>1, <1>3, <1>5, EndsWithoutSaving DEF EndRequest, NothingLeft
  <1>6. CASE BeginRequest(r) \/ Retry(r)
    <2>1. PICK stage : Goto(r, "access_read", thread[r].token, stage)
      BY <1>2, <1>6 DEF BeginRequest, Retry, GetAccessToken, Call
    <2>2. QED
      BY <1>1, <1>3, <2>1, MovesWithoutSaving DEF NothingLeft
  <1>7. CASE AccessRead(r) \/ RefreshRead(r) \/ JoinRefresh(r)
    <2>1. PICK pc, token, stage : pc \in {"sent", "joined"} /\ Goto(r, pc, token, stage)
      BY <1>2, <1>7 DEF AccessRead, RefreshRead, JoinRefresh
    <2>2. QED
      BY <1>1, <1>3, <2>1, MovesWithoutSaving DEF NothingLeft
  <1>8. QED
    BY <1>4, <1>5, <1>6, <1>7 DEF RequestStep

LEMMA FlightsClear ==
  ASSUME Inv, NothingLeft, since = "signed_out", since' = "signed_out",
         NEW c \in ApiClients, FlightStep(c)
  PROVE  NothingLeft'
  <1>1. c \in Threads /\ thread \in [Threads -> ThreadState] /\ c \notin Requests
    BY ThreadsAssumption DEF Threads, Inv, LocalInv
  <1>2. store.refresh = NoToken /\ ~ Saving(c)
    BY <1>1 DEF NothingLeft, Empty
  <1>3. CASE Exchange(c)
    <2>1. PICK token, stage : Goto(c, "rotated", token, stage)
      BY <1>3 DEF Exchange
    <2>2. QED
      BY <1>1, <1>3, <2>1, MovesWithoutSaving DEF Exchange, NothingLeft
  <1>4. CASE RefreshFails(c)
    <2>1. UNCHANGED <<memory, store>>
      BY <1>4 DEF RefreshFails, Fails
    <2>2. \A t \in Threads : thread'[t] = thread[t] \/ thread'[t] = Idle
      BY <1>4 DEF RefreshFails, Wake, Failed
    <2>3. QED
      BY <2>1, <2>2 DEF NothingLeft, Saving, At, Idle
  <1>5. ~ ExchangeAnswered(c) /\ ~ AccessSaved(c) /\ ~ TokenRead(c) /\ ~ RefreshSaved(c)
    BY <1>2 DEF ExchangeAnswered, TokensArrive, AccessSaved, TokenRead, RefreshSaved,
                Answered, Saving
  <1>6. QED
    BY <1>3, <1>4, <1>5 DEF FlightStep

LEMMA CheckClears ==
  ASSUME Inv, NothingLeft, since = "signed_out", since' = "signed_out",
         CheckStep
  PROVE  NothingLeft'
  <1>1. Checker \in Threads /\ thread \in [Threads -> ThreadState] /\ Checker \notin Requests
    BY ThreadsAssumption DEF Threads, Inv, LocalInv
  <1>2. /\ memory = Empty /\ store = Empty /\ ~ Saving(Checker)
        /\ store.access = NoToken /\ store.refresh = NoToken
        /\ memory.access = NoToken /\ memory.refresh = NoToken
    BY <1>1 DEF NothingLeft, Empty
  <1>3. ~ ExchangeAnswered(Checker) /\ ~ AccessSaved(Checker) /\ ~ CheckRefreshed
        /\ ~ AccessRead(Checker)
    BY <1>1, <1>2 DEF ExchangeAnswered, TokensArrive, AccessSaved, CheckRefreshed, AccessRead,
                Answered, Saving
  <1>4. memory' = Empty /\ store' = Empty
    BY <1>2, <1>3 DEF CheckStep, CheckFindsNothing, CheckFindsUser, CheckRefreshRead,
         CheckAnswered, CheckFails, CheckRefreshes, CheckTokenRead, Exchange,
         CheckRefreshFails, CheckCleared, Recached
  <1>5. CASE \/ CheckFindsNothing \/ CheckFindsUser \/ CheckAnswered \/ CheckFails
             \/ CheckTokenRead \/ CheckCleared
    <2>1. thread' = [thread EXCEPT ![Checker] = Idle]
      BY <1>2, <1>5 DEF CheckFindsNothing, CheckFindsUser, CheckAnswered, CheckFails,
                        CheckTokenRead, CheckCleared, CheckEnds
    <2>2. QED
      BY <1>1, <1>4, <2>1, EndsWithoutSaving DEF NothingLeft
  <1>6. CASE CheckRefreshRead \/ CheckRefreshes \/ Exchange(Checker) \/ CheckRefreshFails
    <2>1. PICK pc, token, stage :
              /\ pc \in {"access_read", "sent", "token_read", "rotated", "clear"}
              /\ Goto(Checker, pc, token, stage)
      BY <1>2, <1>6 DEF CheckRefreshRead, CheckRefreshes, Exchange, CheckRefreshFails, Call
    <2>2. QED
      BY <1>1, <1>4, <2>1, MovesWithoutSaving DEF NothingLeft
  <1>7. QED
    BY <1>3, <1>5, <1>6 DEF CheckStep

\* The sign-out itself: what it does not find cleared it clears, and it counts as
\* done only if nobody is about to save.
LEMMA PersonClears ==
  ASSUME Inv, Cleared, since' = "signed_out", SignIn \/ SignOut \/ PersonStep
  PROVE  NothingLeft'
  <1>1. Person \in Threads /\ thread \in [Threads -> ThreadState] /\ Person \notin Requests
    BY ThreadsAssumption DEF Threads, Inv, LocalInv
  <1>2. CASE SignedOut
    <2>1. \A t \in ApiClients \cup {Checker} : ~ Saving(t)
      BY <1>2 DEF SignedOut, SignOutEnds
    <2>2. \A t \in Requests : ~ Saving(t)
      BY Here, ThreadsAssumption DEF Fits, Saving, At, Threads
    <2>3. ~ Saving(Person)
      BY <1>2 DEF SignedOut, SignOutEnds, Answered, Saving, At
    <2>4. \A t \in Threads : ~ Saving(t)
      BY <2>1, <2>2, <2>3 DEF Threads
    <2>5. memory' = Empty /\ store' = Empty /\ thread' = [thread EXCEPT ![Person] = Idle]
      BY <1>2 DEF SignedOut, SignOutEnds
    <2>6. QED
      BY <1>1, <2>4, <2>5, EndsWithoutSaving DEF NothingLeft, Empty
  <1>3. CASE ~ SignedOut /\ ~ OtpAccepted
    <2>1. since = "signed_out" /\ NothingLeft
      BY <1>3 DEF Cleared, SignIn, SignOut, PersonStep, OtpRefused, AccessSaved, SignedIn
    <2>2. ~ AccessSaved(Person) /\ ~ SignedIn
      BY <1>1, <2>1 DEF NothingLeft, AccessSaved, SignedIn, Answered, Saving
    <2>3. memory' = Empty /\ store' = Empty
      BY <1>3, <2>1, <2>2 DEF NothingLeft, SignIn, SignOut, PersonStep, OtpRefused
    <2>4. CASE OtpRefused
      BY <1>1, <2>1, <2>3, <2>4, EndsWithoutSaving DEF OtpRefused, NothingLeft
    <2>5. CASE SignIn \/ SignOut
      <3>1. PICK pc \in {"otp", "clear"} : Goto(Person, pc, NoToken, 1)
        BY <2>5 DEF SignIn, SignOut, Call
      <3>2. QED
        BY <1>1, <2>1, <2>3, <3>1, MovesWithoutSaving DEF NothingLeft
    <2>6. QED
      BY <1>3, <2>2, <2>4, <2>5 DEF PersonStep
  <1>4. ~ OtpAccepted
    BY DEF OtpAccepted
  <1>5. QED
    BY <1>2, <1>3, <1>4

LEMMA StaysCleared ==
  ASSUME Inv, Cleared, Next
  PROVE  Cleared'
  <1> SUFFICES ASSUME since' = "signed_out" PROVE NothingLeft'
    BY DEF Cleared
  <1>1. CASE SignIn \/ SignOut \/ PersonStep
    BY <1>1, PersonClears
  <1>2. CASE ~ (SignIn \/ SignOut \/ PersonStep)
    <2>1. since = "signed_out" /\ NothingLeft
      BY <1>2 DEF Next, BeginRequest, RequestStep, AccessRead, RefreshRead, EndRequest,
         JoinRefresh, StartRefresh, Retry, FlightStep, Exchange, ExchangeAnswered, TokensArrive,
         AccessSaved, TokenRead, RefreshFails, Fails, RefreshSaved, CheckStep,
         CheckFindsNothing, CheckFindsUser, CheckRefreshRead, CheckAnswered, CheckFails,
         CheckRefreshes, CheckTokenRead, CheckRefreshFails, CheckCleared, CheckRefreshed,
         AccessExpires, MemoryExpires, Relaunch, Cleared
    <2>2. ASSUME NEW r \in Requests, BeginRequest(r) \/ RequestStep(r) PROVE NothingLeft'
      BY <2>1, <2>2, RequestsClear
    <2>3. ASSUME NEW c \in ApiClients, FlightStep(c) PROVE NothingLeft'
      BY <2>1, <2>3, FlightsClear
    <2>4. CASE CheckStep
      BY <2>1, <2>4, CheckClears
    <2>5. CASE Relaunch
      <3>1. Opened \in [Threads -> ThreadState]
            /\ \A t \in Threads : Opened[t].pc \in {"idle", "access_read"}
        BY ThreadsAssumption DEF Opened, Idle, ThreadState, Pcs, StoragePcs, Threads
      <3>2. QED
        BY <2>1, <2>5, <3>1 DEF Relaunch, NothingLeft, Saving, At
    <2>6. CASE MemoryExpires \/ \E s \in 1..MaxSignIns : AccessExpires(s)
      BY <2>1, <2>6 DEF MemoryExpires, AccessExpires, NothingLeft, Saving, At
    <2>7. QED
      BY <1>2, <2>2, <2>3, <2>4, <2>5, <2>6 DEF Next
  <1>3. QED
    BY <1>1, <1>2

\* Sign-out leaves no token in memory or storage while no answer to a refresh
\* arrives: whatever is reading then, of the app's threads, has nothing to cache.
THEOREM SignOutAlwaysClears == Spec => []SignOutClears
  <1>1. Init => Cleared
    BY DEF Init, Cleared
  <1>2. TokensInv /\ Cleared /\ [Next]_vars => Cleared'
    <2>1. TokensInv /\ Cleared /\ Next => Cleared'
      BY InvIsTokensInv, StaysCleared
    <2>2. Cleared /\ UNCHANGED vars => Cleared'
      BY DEF vars, Cleared, NothingLeft, Saving, At
    <2>3. QED
      BY <2>1, <2>2
  <1>3. Cleared => SignOutClears
    BY DEF Cleared, NothingLeft, SignOutClears
  <1>4. QED
    BY <1>1, <1>2, <1>3, TokensInvariance, PTL DEF Spec
=============================================================================
