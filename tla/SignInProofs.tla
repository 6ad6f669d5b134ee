----------------------------- MODULE SignInProofs -----------------------------
(***************************************************************************)
(* For any number of failures, kills and expiries: the screens of SignIn    *)
(* open on what was true of the account since the app began to find out,    *)
(* and no request, however late, changes a profile that was refused.        *)
(*                                                                         *)
(* A screen follows from what the app knows: the answers on the way, and    *)
(* the user data in memory, which either thread may have put there.  The    *)
(* invariant says of each what it proves about the account.                *)
(***************************************************************************)
EXTENDS SignIn, TLAPS

Live(t) == thread[t].call # "idle"

\* Only "Check again" asks twice, and only the person.
ThreadsSound ==
    /\ \A t \in Threads : Live(t) \/ thread[t].answer = "waiting"
    /\ thread["launch"].force = FALSE
    /\ thread["launch"].for \in {"entry", "user"}
    /\ thread["launch"].call = "storage" => thread["launch"].for = "entry"
    /\ thread["person"].call = "storage" /\ thread["person"].for = "entry" =>
           thread["person"].force

\* An answer describes the account at some moment since its thread started.
AnswersTrue ==
    \A t \in Threads : thread[t].answer \in Verdicts => thread[t].answer \in seen[t]

\* The app is started together with the check at launch.
LaunchSeesMore == Live("launch") => seen["person"] \subseteq seen["launch"]

MemoryTrue == Live("launch") /\ cached \in Verdicts => cached \in seen["launch"]

\* While the tokens of a sign-in are saved, the check at launch may replace the
\* user data in memory; if it does, it opens the screen for them itself.
SavedWithUser ==
    thread["person"].call = "storage" /\ thread["person"].for = "user" =>
        /\ cached \in Profiles
        /\ cached \in Verdicts =>
               cached \in seen["person"] \/ (screen = cached /\ ~ Live("launch"))

\* Only employees are decided about, and only who was pending once, late.
EmployeesOnly ==
    archived \/ held => account \in {"pending", "active", "suspended", "rejected"}

IInv ==
    /\ TypeOK /\ ThreadsSound /\ AnswersTrue /\ LaunchSeesMore /\ MemoryTrue
    /\ SavedWithUser /\ EmployeesOnly

-----------------------------------------------------------------------------
(* What a step may do to the knowledge of the app *)

Carries ==
    \A t \in Threads :
        thread'[t].answer \in Profiles =>
            thread'[t].answer \in {thread[t].answer, Profile(account')}

Remembers ==
    \/ cached' \in {cached, "nothing", "none"}
    \/ \E t \in Threads : cached' = thread[t].answer

LaunchEnds == Live("launch")' => Live("launch")

LEMMA ThreadNames == Threads = {"launch", "person"}
BY DEF Threads

LEMMA ProfileTrue ==
    ASSUME NEW s
    PROVE  /\ Profile(s) \in Profiles
           /\ Profile(s) \in Verdicts => Profile(s) \in Verdict(s)
BY DEF Profile, ScreenOf, Profiles, Verdicts, Verdict, InUse

LEMMA KnowledgeKept ==
    ASSUME IInv, TypeOK', Observes, Carries, Remembers, LaunchEnds
    PROVE  AnswersTrue' /\ LaunchSeesMore' /\ MemoryTrue'
<1> DEFINE now == Verdict(account')
<1>1. \A t \in Threads :
          seen'[t] = (IF Live(t) THEN seen[t] ELSE {}) \cup now
  BY DEF Observes, Live
<1>2. \A t \in Threads :
          thread[t].answer \in Verdicts => Live(t) /\ thread[t].answer \in seen[t]
  BY DEF IInv, AnswersTrue, ThreadsSound, Verdicts
<1>3. Profile(account') \in Verdicts => Profile(account') \in now
  BY ProfileTrue
<1> HIDE DEF now
<1>4. AnswersTrue'
  <2> SUFFICES ASSUME NEW t \in Threads, thread'[t].answer \in Verdicts
               PROVE  thread'[t].answer \in seen'[t]
    BY DEF AnswersTrue
  <2>1. thread'[t].answer \in {thread[t].answer, Profile(account')}
    BY DEF Carries, Verdicts, Profiles
  <2> QED
    BY <1>1, <1>2, <1>3, <2>1
<1>5. LaunchSeesMore'
  BY <1>1, ThreadNames DEF IInv, LaunchSeesMore, LaunchEnds, Live
<1>6. MemoryTrue'
  <2> SUFFICES ASSUME Live("launch")', cached' \in Verdicts
               PROVE  cached' \in seen'["launch"]
    BY DEF MemoryTrue
  <2>1. Live("launch") /\ seen["launch"] \subseteq seen'["launch"]
    BY <1>1, ThreadNames DEF LaunchEnds
  <2>2. CASE cached' \in {cached, "nothing", "none"}
    BY <2>1, <2>2 DEF IInv, MemoryTrue, Verdicts
  <2>3. ASSUME NEW t \in Threads, cached' = thread[t].answer
        PROVE  cached' \in seen'["launch"]
    BY <1>2, <2>1, <2>3, ThreadNames DEF IInv, LaunchSeesMore
  <2> QED
    BY <2>2, <2>3 DEF Remembers
<1> QED
  BY <1>4, <1>5, <1>6
-----------------------------------------------------------------------------
(* What every step of Next is shown to be *)

Thread == [call: Requests \cup {"idle", "storage"}, for: Purposes, again: BOOLEAN,
           force: BOOLEAN, token: Access, answer: Answers]

Screens == {"login", "loading", "code", "signup", "setup", "pending", "rejected",
            "clients"}

StateTyped ==
    /\ account' \in Stages
    /\ archived' \in BOOLEAN
    /\ held' \in BOOLEAN
    /\ open' \in BOOLEAN
    /\ late' \subseteq {"signup", "bootstrap"}
    /\ tokens' \in [access: Access, renewable: BOOLEAN]
    /\ cached' \in Profiles \cup {"nothing"}
    /\ thread' \in [Threads -> Thread]
    /\ screen' \in Screens
    /\ faults' \in 0..MaxFaults

\* What a step does to the profile.
ProfileStep ==
    /\ EmployeesOnly'
    /\ account = "rejected" \/ archived => Decides \/ UNCHANGED account
    /\ archived => archived'

Opened == \A v \in Verdicts : OpenedRightly(v)

\* As SavedWithUser', before the history variable moves.
SavedStaysKnown ==
    thread'["person"].call = "storage" /\ thread'["person"].for = "user" =>
        /\ cached' \in Profiles
        /\ cached' \in Verdicts =>
               \/ cached' \in seen["person"] /\ Live("person")
               \/ screen' = cached' /\ ~ Live("launch")'

StepSound ==
    /\ StateTyped /\ ThreadsSound' /\ ProfileStep /\ Carries /\ Remembers
    /\ LaunchEnds /\ Opened /\ SavedStaysKnown

LEMMA IdleTyped == Idle \in Thread /\ Started \in Thread
BY DEF Idle, Started, Thread, Requests, Purposes, Access, Answers

LEMMA StateTypedNow ==
    ASSUME IInv
    PROVE  /\ account \in Stages /\ archived \in BOOLEAN /\ held \in BOOLEAN
           /\ open \in BOOLEAN
           /\ late \subseteq {"signup", "bootstrap"}
           /\ tokens \in [access: Access, renewable: BOOLEAN]
           /\ cached \in Profiles \cup {"nothing"}
           /\ thread \in [Threads -> Thread]
           /\ screen \in Screens
           /\ faults \in 0..MaxFaults
BY DEF IInv, TypeOK, Thread, Screens

-----------------------------------------------------------------------------
(* The backend answers *)

\* Only the answer of a thread that waits for one changes.
LEMMA AnswerSound ==
    ASSUME IInv,
           NEW t \in Threads, NEW a \in Answers,
           Answer(t, a),
           Live(t),
           account' \in Stages, open' \in BOOLEAN, UNCHANGED Decided,
           ProfileStep,
           a \in Profiles => a = Profile(account'),
           late' \subseteq {"signup", "bootstrap"}, faults' \in 0..MaxFaults,
           UNCHANGED App
    PROVE  StepSound
<1>1. /\ thread \in [Threads -> Thread]
      /\ thread' = [thread EXCEPT ![t] = [thread[t] EXCEPT !.answer = a]]
  BY StateTypedNow DEF Answer
<1>2. /\ thread' \in [Threads -> Thread]
      /\ \A x \in Threads : x # t => thread'[x] = thread[x]
      /\ thread'[t].answer = a
      /\ thread'[t].call = thread[t].call
      /\ thread'[t].for = thread[t].for
      /\ thread'[t].force = thread[t].force
  BY <1>1 DEF Thread
<1>3. StateTyped
  BY <1>2, StateTypedNow DEF StateTyped, App, Decided
<1>4. ThreadsSound'
  BY <1>2, ThreadNames DEF IInv, ThreadsSound, Live
<1>5. Carries
  BY <1>2 DEF Carries
<1>6. Remembers /\ LaunchEnds /\ Opened
  BY <1>2, ThreadNames DEF Remembers, LaunchEnds, Opened, OpenedRightly, App, Live
<1>7. SavedStaysKnown
  BY <1>2, ThreadNames DEF IInv, SavedWithUser, SavedStaysKnown, App, Live
<1> QED
  BY <1>3, <1>4, <1>5, <1>6, <1>7 DEF StepSound

LEMMA SameProfile ==
    ASSUME IInv, UNCHANGED <<account, archived, held>>
    PROVE  ProfileStep
BY DEF IInv, ProfileStep, EmployeesOnly

LEMMA AppliesSound ==
    ASSUME IInv, Applies, UNCHANGED Decided PROVE account' \in Stages /\ ProfileStep
BY StateTypedNow
   DEF Applies, MayApply, ProfileStep, Stages, IInv, EmployeesOnly, Decided

LEMMA FoundsSound ==
    ASSUME IInv, Founds, UNCHANGED Decided
    PROVE  account' \in Stages /\ open' \in BOOLEAN /\ ProfileStep
BY StateTypedNow DEF Founds, ProfileStep, Stages, IInv, EmployeesOnly, Decided

LEMMA ServesSound ==
    ASSUME IInv, NEW t \in Threads, Serves(t)
    PROVE  StepSound
<1> USE DEF Live, Waits
<1>1. /\ account \in Stages /\ open \in BOOLEAN
      /\ late \subseteq {"signup", "bootstrap"} /\ faults \in 0..MaxFaults
  BY StateTypedNow
<1>2. /\ \A s : Profile(s) \in Answers
      /\ \A a \in {"sent", "unauthorized", "tokens", "error", "served"} :
             a \in Answers /\ a \notin Profiles
  BY ProfileTrue DEF Answers, Profiles
<1>3. ASSUME NEW a \in {Profile(account), "sent", "unauthorized", "tokens", "error", "served"},
             Answer(t, a), Live(t), UNCHANGED <<Server, App, faults>>
      PROVE  StepSound
  <2>1. UNCHANGED <<account, archived, held, open, late, faults>> /\ UNCHANGED Decided
        /\ UNCHANGED App
    BY <1>3 DEF Server, Decided
  <2>2. a \in Answers /\ (a \in Profiles => a = Profile(account'))
    BY <1>2, <2>1
  <2> QED
    BY <1>1, <1>3, <2>1, <2>2, SameProfile, AnswerSound
<1>4. CASE SendOtpServed(t)
  BY <1>3, <1>4 DEF SendOtpServed
<1>5. CASE VerifyOtpServed(t)
  BY <1>3, <1>5 DEF VerifyOtpServed
<1>6. CASE StatusServed(t)
  BY <1>3, <1>6 DEF StatusServed
<1>7. CASE RefreshServed(t)
  BY <1>3, <1>7 DEF RefreshServed
<1>8. CASE ClientsServed(t)
  BY <1>3, <1>8 DEF ClientsServed
<1>9. CASE SignupServed(t)
  <2>1. /\ Live(t) /\ UNCHANGED <<open, late, faults>> /\ UNCHANGED Decided
        /\ UNCHANGED App
    BY <1>9 DEF SignupServed
  <2>2. CASE thread[t].token = "good" /\ Applies /\ Answer(t, Profile(account'))
    BY <1>1, <1>2, <2>1, <2>2, AppliesSound, AnswerSound
  <2>3. CASE UNCHANGED account /\ Answer(t, "error")
    BY <1>3, <2>1, <2>3 DEF Server
  <2> QED
    BY <1>9, <2>2, <2>3 DEF SignupServed
<1>10. CASE BootstrapServed(t)
  <2>1. /\ Live(t) /\ UNCHANGED <<late, faults>> /\ UNCHANGED Decided /\ UNCHANGED App
    BY <1>10 DEF BootstrapServed
  <2>2. CASE Founds /\ Answer(t, Profile(account'))
    BY <1>1, <1>2, <2>1, <2>2, FoundsSound, AnswerSound
  <2>3. CASE UNCHANGED <<account, open>> /\ Answer(t, "error")
    BY <1>3, <2>1, <2>3 DEF Server
  <2> QED
    BY <1>10, <2>2, <2>3 DEF BootstrapServed
<1> QED
  BY <1>4, <1>5, <1>6, <1>7, <1>8, <1>9, <1>10 DEF Serves

\* Decisions are about employees, and archived profiles stay archived.
LEMMA DecidesSound ==
    ASSUME IInv, Decides
    PROVE  /\ account' \in Stages /\ archived' \in BOOLEAN /\ held' \in BOOLEAN
           /\ ProfileStep
<1>1. CASE AdminActs
  <2>1. /\ account' \in Stages /\ archived' \in BOOLEAN /\ UNCHANGED held
        /\ ~ archived
    BY <1>1, StateTypedNow DEF AdminActs, Moves, Archives, Stages
  <2>2. CASE Archives
    BY <2>1, <2>2, StateTypedNow DEF ProfileStep, EmployeesOnly, Archives, Decides
  <2>3. CASE UNCHANGED archived
    BY <1>1, <2>1, <2>3, StateTypedNow
       DEF AdminActs, Moves, Archives, ProfileStep, IInv, EmployeesOnly
  <2> QED
    BY <1>1, <2>1, <2>2, <2>3, StateTypedNow DEF AdminActs
<1>2. CASE DecisionLoads
  BY <1>2, StateTypedNow DEF DecisionLoads, ProfileStep, EmployeesOnly
<1>3. CASE DecidesLate
  BY <1>3, StateTypedNow
     DEF DecidesLate, ApprovedLate, ProfileStep, IInv, EmployeesOnly, Stages
<1> QED
  BY <1>1, <1>2, <1>3 DEF Decides

LEMMA FaultTyped ==
    ASSUME IInv, Fault PROVE faults' \in 0..MaxFaults
BY FaultsAssumption, StateTypedNow DEF Fault

\* Nothing that the app knows changes.
LEMMA OutsideSound ==
    ASSUME IInv,
           LateSignup \/ LateBootstrap \/ Decides \/ OperatorSetsActive
    PROVE  StepSound
<1>1. /\ account' \in Stages /\ archived' \in BOOLEAN /\ held' \in BOOLEAN
      /\ open' \in BOOLEAN /\ ProfileStep /\ faults' \in 0..MaxFaults
  <2>1. CASE LateSignup
    BY <2>1, StateTypedNow, AppliesSound DEF LateSignup, Decided
  <2>2. CASE LateBootstrap
    BY <2>2, StateTypedNow, FoundsSound DEF LateBootstrap, Decided
  <2>3. CASE Decides
    <3>1. UNCHANGED <<open, faults>>
      BY <2>3 DEF Decides, AdminActs, DecisionLoads, DecidesLate
    <3> QED
      BY <2>3, <3>1, StateTypedNow, DecidesSound
  <2>4. CASE OperatorSetsActive
    BY <2>4, StateTypedNow, FaultTyped, SameProfile DEF OperatorSetsActive, Decided
  <2> QED
    BY <2>1, <2>2, <2>3, <2>4
<1>2. UNCHANGED <<thread, tokens, cached, screen>> /\ late' \subseteq late
  BY DEF LateSignup, LateBootstrap, Decides, AdminActs, DecisionLoads, DecidesLate,
         OperatorSetsActive, App
<1>3. StateTyped
  BY <1>1, <1>2, StateTypedNow DEF StateTyped
<1>4. ThreadsSound' /\ LaunchEnds
  BY <1>2 DEF IInv, ThreadsSound, Live, LaunchEnds
<1>5. Carries /\ Remembers /\ Opened
  BY <1>2 DEF Carries, Remembers, Opened, OpenedRightly
<1>6. SavedStaysKnown
  BY <1>2 DEF IInv, SavedWithUser, SavedStaysKnown, Live
<1> QED
  BY <1>1, <1>3, <1>4, <1>5, <1>6 DEF StepSound

-----------------------------------------------------------------------------
(* The app goes on *)

\* What a thread that goes on to r may do to the app.
GoesOn(t, r) ==
    /\ r \in Thread /\ r.answer = "waiting"
    /\ Goes(t, r)
    /\ tokens' \in [access: Access, renewable: BOOLEAN]
    /\ cached' \in Profiles \cup {"nothing"} /\ Remembers
    /\ screen' \in Screens
    /\ screen' \in Verdicts =>
           screen = screen' \/ (r.call = "idle" /\ Live(t) /\ screen' \in seen[t])

\* The launch ends or asks for the user.
LaunchGoesOn(r) ==
    /\ Live("launch")
    /\ r.call # "storage" /\ r.for \in {"entry", "user"} /\ ~ r.force
    /\ cached' # cached =>
           /\ cached' \in Profiles
           /\ cached' \in Verdicts => screen' = cached' /\ r.call = "idle"

PersonGoesOn(r) ==
    r.call = "storage" =>
        \/ r.for = "entry" /\ r.force
        \/ /\ r.for = "user" /\ cached' \in Profiles
           /\ cached' \in Verdicts => cached' \in seen["person"] /\ Live("person")

LEMMA GoesSound ==
    ASSUME IInv, NEW t \in Threads, NEW r, GoesOn(t, r),
           t = "launch" => LaunchGoesOn(r),
           t = "person" => PersonGoesOn(r),
           UNCHANGED <<Server, faults>>
    PROVE  StepSound
<1>1. /\ r \in Thread /\ r.answer = "waiting"
      /\ thread' \in [Threads -> Thread]
      /\ \A x \in Threads : x # t => thread'[x] = thread[x]
      /\ thread'[t] = r
  BY StateTypedNow DEF GoesOn, Goes
<1>2. UNCHANGED <<account, archived, held, open, late, faults>>
  BY DEF Server, Decided
<1>3. StateTyped
  BY <1>1, <1>2, StateTypedNow DEF StateTyped, GoesOn
<1>4. ThreadsSound'
  BY <1>1, ThreadNames DEF IInv, ThreadsSound, Live, LaunchGoesOn, PersonGoesOn
<1>5. ProfileStep /\ Carries
  BY <1>1, <1>2, SameProfile DEF Carries, Profiles
<1>6. Remembers /\ Opened /\ LaunchEnds
  BY <1>1, ThreadNames
     DEF GoesOn, Opened, OpenedRightly, LaunchEnds, Live, LaunchGoesOn
<1>7. SavedStaysKnown
  <2>1. CASE t = "person"
    BY <1>1, <2>1 DEF SavedStaysKnown, PersonGoesOn
  <2>2. CASE t = "launch"
    <3>1. CASE cached' = cached
      BY <1>1, <2>2, <3>1, ThreadNames
         DEF SavedStaysKnown, IInv, SavedWithUser, LaunchGoesOn, Live
    <3>2. CASE cached' # cached
      BY <1>1, <2>2, <3>2, ThreadNames DEF SavedStaysKnown, LaunchGoesOn, Live
    <3> QED
      BY <3>1, <3>2
  <2> QED
    BY <2>1, <2>2, ThreadNames
<1> QED
  BY <1>3, <1>4, <1>5, <1>6, <1>7 DEF StepSound

\* A thread ends: only what it knows for certain opens the screen of a verdict.
LEMMA EndsSound ==
    ASSUME IInv, NEW t \in Threads, Live(t),
           NEW to \in Screens, Ends(t, to),
           tokens' \in [access: Access, renewable: BOOLEAN],
           cached' \in Profiles \cup {"nothing"}, Remembers,
           to \in Verdicts => screen = to \/ to \in seen[t],
           t = "launch" /\ cached' # cached =>
               cached' \in Profiles /\ (cached' \in Verdicts => to = cached'),
           UNCHANGED <<Server, faults>>
    PROVE  StepSound
<1>1. GoesOn(t, Idle)
  BY IdleTyped DEF GoesOn, Ends, Idle
<1>2. t = "launch" => LaunchGoesOn(Idle)
  BY DEF LaunchGoesOn, Idle, Ends
<1>3. t = "person" => PersonGoesOn(Idle)
  BY DEF PersonGoesOn, Idle
<1> QED
  BY <1>1, <1>2, <1>3, GoesSound

LEMMA AsksTyped ==
    ASSUME NEW call \in Requests, NEW for \in Purposes, NEW token \in Access,
           NEW force \in BOOLEAN
    PROVE  /\ Asks(call, for, token, force) \in Thread
           /\ Asks(call, for, token, force).call = call
           /\ Asks(call, for, token, force).for = for
           /\ Asks(call, for, token, force).force = force
           /\ Asks(call, for, token, force).answer = "waiting"
BY DEF Asks, Idle, Thread, Requests, Access, Answers

\* Without a look at the backend the screen follows from the user data alone.
LEMMA KnowsUserSound ==
    ASSUME IInv, NEW t \in Threads, Live(t),
           NEW data \in Profiles, NEW token \in Access,
           KnowsUser(t, data, token),
           data = cached \/ data = thread[t].answer,
           data \in Verdicts => data \in seen[t] \/ thread[t].force \/ screen = data,
           UNCHANGED <<Server, tokens, faults>>
    PROVE  StepSound
<1>1. /\ tokens' \in [access: Access, renewable: BOOLEAN]
      /\ cached' \in Profiles \cup {"nothing"} /\ Remembers
      /\ screen \in Screens
  BY StateTypedNow DEF KnowsUser, Remembers
<1>2. CASE thread[t].force
  <2> DEFINE r == Asks("status", "profile", token, TRUE)
  <2>1. t = "person"
    BY <1>2, ThreadNames DEF IInv, ThreadsSound
  <2>2. r \in Thread /\ r.answer = "waiting" /\ r.call = "status"
    BY DEF Asks, Idle, Thread, Requests, Purposes, Answers
  <2>3. Goes(t, r) /\ UNCHANGED screen
    BY <1>2 DEF KnowsUser
  <2> HIDE DEF r
  <2>4. GoesOn(t, r) /\ PersonGoesOn(r)
    BY <1>1, <2>2, <2>3 DEF GoesOn, PersonGoesOn
  <2> QED
    BY <2>1, <2>4, GoesSound
<1>3. CASE ~ thread[t].force
  <2> DEFINE to == IF data = "none" THEN "login" ELSE data
  <2>1. Ends(t, to) /\ cached' = data
    BY <1>3 DEF KnowsUser
  <2>2. to \in Screens /\ (to \in Verdicts => to = data)
        /\ (data \in Verdicts => to = data)
    BY DEF Screens, Profiles, Verdicts
  <2> HIDE DEF to
  <2> QED
    BY <1>1, <1>3, <2>1, <2>2, EndsSound
<1> QED
  BY <1>2, <1>3

LEMMA GivesUpSound ==
    ASSUME IInv, NEW t \in Threads, Live(t), GivesUp(t),
           tokens' \in [access: Access, renewable: BOOLEAN],
           UNCHANGED <<Server, cached, faults>>
    PROVE  StepSound
<1>1. PICK to \in {"login", "signup", screen} : Ends(t, to)
  BY DEF GivesUp
<1>2. to \in Screens /\ cached' \in Profiles \cup {"nothing"} /\ Remembers
  BY StateTypedNow DEF Screens, Remembers
<1> QED
  BY <1>1, <1>2, EndsSound DEF Verdicts

\* A thread that goes on with its purpose and leaves the screen alone.
LEMMA AgainSound ==
    ASSUME IInv, NEW t \in Threads, Live(t),
           NEW r \in Thread, Goes(t, r),
           r.call \in Requests, r.answer = "waiting",
           r.for = thread[t].for \/ r.for = "user",
           r.force = thread[t].force,
           tokens' \in [access: Access, renewable: BOOLEAN],
           UNCHANGED <<Server, cached, screen, faults>>
    PROVE  StepSound
<1>1. GoesOn(t, r) /\ PersonGoesOn(r)
  BY StateTypedNow DEF GoesOn, PersonGoesOn, Remembers, Requests
<1>2. t = "launch" => LaunchGoesOn(r)
  BY DEF LaunchGoesOn, IInv, ThreadsSound, Requests
<1> QED
  BY <1>1, <1>2, GoesSound

LEMMA TokenReadSound ==
    ASSUME IInv, NEW t \in Threads, TokenRead(t)
    PROVE  StepSound
<1>1. /\ Live(t) /\ tokens.access \in Access /\ UNCHANGED <<Server, tokens, faults>>
      /\ tokens' \in [access: Access, renewable: BOOLEAN]
      /\ cached \in Profiles \cup {"nothing"}
  BY StateTypedNow DEF TokenRead, Live
<1>2. CASE tokens.access = "none"
  BY <1>1, <1>2, EndsSound DEF TokenRead, Screens, Remembers, Verdicts
<1>3. CASE tokens.access # "none" /\ cached # "nothing"
  <2>1. cached \in Verdicts => cached \in seen[t] \/ thread[t].force
    BY <1>1, ThreadNames DEF TokenRead, IInv, ThreadsSound, MemoryTrue
  <2> QED
    BY <1>1, <1>3, <2>1, KnowsUserSound DEF TokenRead
<1>4. CASE tokens.access # "none" /\ cached = "nothing"
  <2> DEFINE r == Asks("status", "user", tokens.access, thread[t].force)
  <2>1. thread[t].force \in BOOLEAN
    BY StateTypedNow DEF Thread
  <2>2. /\ r \in Thread /\ r.call \in Requests /\ r.answer = "waiting"
        /\ r.for = "user" /\ r.force = thread[t].force
    BY <1>1, <2>1, AsksTyped DEF Requests, Purposes
  <2>3. Goes(t, r) /\ UNCHANGED <<cached, screen>>
    BY <1>4 DEF TokenRead
  <2> HIDE DEF r
  <2> QED
    BY <1>1, <2>2, <2>3, AgainSound
<1> QED
  BY <1>2, <1>3, <1>4

LEMMA RefreshingSound ==
    ASSUME IInv, NEW t \in Threads, NEW for \in {"user", "profile", "clients"},
           Refreshes(t, for) \/ Refreshed(t, for) \/ RefreshFails(t, for)
               \/ GetsNothing(t, for)
    PROVE  StepSound
<1>1. /\ Live(t) /\ thread[t] \in Thread
      /\ tokens \in [access: Access, renewable: BOOLEAN]
  BY StateTypedNow
     DEF Refreshes, Refreshed, RefreshFails, GetsNothing, Answered, Live
<1>2. CASE Refreshes(t, for) /\ tokens.renewable
  <2> DEFINE r == [thread[t] EXCEPT !.call = "refresh", !.answer = "waiting",
                                    !.again = TRUE]
  <2>1. /\ r \in Thread /\ r.call \in Requests /\ r.answer = "waiting"
        /\ r.for = thread[t].for /\ r.force = thread[t].force
    BY <1>1 DEF Thread, Requests, Answers
  <2>2. Goes(t, r)
    BY <1>2 DEF Refreshes
  <2> HIDE DEF r
  <2> QED
    BY <1>1, <1>2, <2>1, <2>2, AgainSound DEF Refreshes, Cached
<1>3. CASE Refreshes(t, for) /\ ~ tokens.renewable
  BY <1>1, <1>3, GivesUpSound DEF Refreshes, Cached
<1>4. CASE Refreshed(t, for)
  <2> DEFINE r == [thread[t] EXCEPT !.call = Request(for), !.answer = "waiting",
                                    !.token = "good"]
  <2>1. /\ r \in Thread /\ r.call \in Requests /\ r.answer = "waiting"
        /\ r.for = thread[t].for /\ r.force = thread[t].force
    BY <1>1 DEF Thread, Requests, Answers, Access, Request
  <2>2. Goes(t, r) /\ tokens' \in [access: Access, renewable: BOOLEAN]
    BY <1>4 DEF Refreshed, Access
  <2> HIDE DEF r
  <2> QED
    BY <1>1, <1>4, <2>1, <2>2, AgainSound DEF Refreshed
<1>5. CASE RefreshFails(t, for)
  BY <1>1, <1>5, GivesUpSound DEF RefreshFails, Access
<1>6. CASE GetsNothing(t, for)
  BY <1>1, <1>6, GivesUpSound DEF GetsNothing, Cached
<1> QED
  BY <1>2, <1>3, <1>4, <1>5, <1>6

LEMMA ContinuesSound ==
    ASSUME IInv, NEW t \in Threads, Continues(t)
    PROVE  StepSound
<1>1. CASE UserAnswered(t)
  <2>1. /\ Live(t) /\ thread[t].answer \in Profiles /\ thread[t].token \in Access
        /\ UNCHANGED <<Server, tokens, faults>>
        /\ tokens' \in [access: Access, renewable: BOOLEAN]
        /\ cached \in Profiles \cup {"nothing"}
    BY <1>1, StateTypedNow DEF UserAnswered, Answered, Live, Thread
  <2>2. CASE thread[t].answer = "none"
    BY <1>1, <2>1, <2>2, EndsSound DEF UserAnswered, Screens, Remembers, Verdicts
  <2>3. CASE thread[t].answer # "none"
    <3>1. KnowsUser(t, thread[t].answer, thread[t].token)
      BY <1>1, <2>3 DEF UserAnswered
    <3> QED
      BY <2>1, <3>1, KnowsUserSound DEF IInv, AnswersTrue
  <2> QED
    BY <2>2, <2>3
<1>2. CASE ProfileAnswered(t)
  <2>1. /\ Live(t) /\ thread[t].answer \in Profiles /\ t # "launch"
        /\ UNCHANGED <<Server, tokens, faults>>
        /\ tokens' \in [access: Access, renewable: BOOLEAN]
        /\ cached' = thread[t].answer
    BY <1>2, StateTypedNow
       DEF ProfileAnswered, Answered, Live, IInv, ThreadsSound
  <2>2. PICK to \in {"signup", thread[t].answer} \ {"none"} : Ends(t, to)
    BY <1>2 DEF ProfileAnswered
  <2>3. to = "signup" \/ to = thread[t].answer
    OBVIOUS
  <2>4. to \in Screens /\ (to \in Verdicts => to \in seen[t])
    BY <2>1, <2>2, <2>3 DEF Screens, Profiles, Verdicts, IInv, AnswersTrue
  <2> QED
    BY <2>1, <2>2, <2>4, EndsSound DEF Remembers
<1>3. CASE ClientsAnswered(t)
  <2>1. /\ t = "person" /\ Goes(t, Idle) /\ UNCHANGED <<Server, App, faults>>
    BY <1>3, ThreadNames DEF ClientsAnswered, Answered, IInv, ThreadsSound
  <2>2. GoesOn(t, Idle) /\ PersonGoesOn(Idle)
    BY <2>1, IdleTyped, StateTypedNow
       DEF GoesOn, PersonGoesOn, App, Remembers, Idle
  <2> QED
    BY <2>1, <2>2, GoesSound
<1> QED
  BY <1>1, <1>2, <1>3, TokenReadSound, RefreshingSound DEF Continues

-----------------------------------------------------------------------------
(* The person *)

LEMMA PersonContinuesSound ==
    ASSUME IInv, PersonContinues
    PROVE  StepSound
<1>1. /\ "person" \in Threads /\ "person" # "launch"
      /\ tokens \in [access: Access, renewable: BOOLEAN]
      /\ cached \in Profiles \cup {"nothing"}
  BY StateTypedNow, ThreadNames
<1>2. CASE OtpSent \/ OtpRefused \/ SignupRequired
  <2>1. PICK to \in {"code", "login", "signup"} : Ends("person", to)
    BY <1>2 DEF OtpSent, OtpRefused, SignupRequired
  <2>2. /\ Live("person") /\ UNCHANGED <<Server, cached, faults>>
        /\ tokens' \in [access: Access, renewable: BOOLEAN]
    BY <1>1, <1>2
       DEF OtpSent, OtpRefused, SignupRequired, Answered, Live, Cached, Access
  <2>3. to \in Screens /\ to \notin Verdicts
    BY <2>1 DEF Screens, Verdicts
  <2> QED
    BY <1>1, <2>1, <2>2, <2>3, EndsSound DEF Remembers
<1>3. CASE OtpVerified
  <2> DEFINE r == [Started EXCEPT !.for = "user"]
  <2>1. r \in Thread /\ r.answer = "waiting" /\ r.call = "storage" /\ r.for = "user"
    BY DEF Started, Idle, Thread, Requests, Purposes, Access, Answers
  <2>2. /\ Live("person") /\ Goes("person", r) /\ cached' = thread["person"].answer
        /\ cached' \in Profiles
        /\ tokens' \in [access: Access, renewable: BOOLEAN]
        /\ UNCHANGED <<Server, screen, faults>>
    BY <1>3 DEF OtpVerified, Answered, Live, Access
  <2> HIDE DEF r
  <2>3. GoesOn("person", r) /\ PersonGoesOn(r)
    BY <1>1, <2>1, <2>2, StateTypedNow
       DEF GoesOn, PersonGoesOn, Remembers, IInv, AnswersTrue
  <2> QED
    BY <1>1, <2>2, <2>3, GoesSound
<1>4. CASE TokensSaved
  <2>1. /\ Live("person") /\ KnowsUser("person", cached, "good") /\ "good" \in Access
        /\ UNCHANGED <<Server, tokens, faults>>
    BY <1>4 DEF TokensSaved, Live, Access
  <2>2. /\ cached \in Profiles
        /\ cached \in Verdicts => cached \in seen["person"] \/ screen = cached
    BY <1>4 DEF TokensSaved, IInv, SavedWithUser
  <2> QED
    BY <1>1, <2>1, <2>2, KnowsUserSound
<1>5. CASE SignupAnswered
  <2>1. PICK to \in {"pending", "signup"} : Ends("person", to)
    BY <1>5 DEF SignupAnswered
  <2>2. /\ Live("person") /\ UNCHANGED <<Server, tokens, faults>>
        /\ cached' \in Profiles \cup {"nothing"}
        /\ cached' = cached \/ cached' = thread["person"].answer
    BY <1>1, <1>5 DEF SignupAnswered, Answered, Live
  <2>3. to \in Screens /\ to \notin Verdicts
    BY <2>1 DEF Screens, Verdicts
  <2> QED
    BY <1>1, <2>1, <2>2, <2>3, EndsSound DEF Remembers
<1>6. CASE BootstrapAnswered /\ thread["person"].answer = "clients"
  <2>1. /\ Live("person") /\ UNCHANGED <<Server, tokens, faults>>
        /\ Ends("person", "clients") /\ cached' = thread["person"].answer
        /\ "clients" \in Profiles /\ "clients" \in Screens
    BY <1>6 DEF BootstrapAnswered, Answered, Live, Profiles, Screens
  <2>2. "clients" \in seen["person"]
    BY <1>1, <1>6 DEF IInv, AnswersTrue, Verdicts
  <2> QED
    BY <1>1, <1>6, <2>1, <2>2, EndsSound DEF Remembers
<1>7. CASE BootstrapAnswered /\ thread["person"].answer # "clients"
  <2>1. /\ Live("person") /\ UNCHANGED <<Server, tokens, cached, faults>>
        /\ Ends("person", "setup") /\ "setup" \in Screens
    BY <1>7 DEF BootstrapAnswered, Answered, Live, Screens
  <2> QED
    BY <1>1, <2>1, EndsSound DEF Remembers, Verdicts
<1> QED
  BY <1>2, <1>3, <1>4, <1>5, <1>6, <1>7 DEF PersonContinues

\* A person who is free starts something, or leaves at once.
LEMMA PersonActsSound ==
    ASSUME IInv, PersonActs
    PROVE  StepSound
<1>1. /\ "person" \in Threads /\ "person" # "launch"
      /\ tokens \in [access: Access, renewable: BOOLEAN]
      /\ cached \in Profiles \cup {"nothing"}
      /\ "loading" \in Screens
  BY StateTypedNow, ThreadNames DEF Screens
<1>2. ASSUME NEW r \in Thread, Begins(r), r.answer = "waiting",
             r.call = "storage" => r.for = "entry" /\ r.force,
             cached' \in {cached, "nothing"},
             UNCHANGED <<Server, tokens, faults>>
      PROVE  StepSound
  <2>1. GoesOn("person", r) /\ PersonGoesOn(r)
    BY <1>1, <1>2 DEF GoesOn, PersonGoesOn, Begins, Remembers, Verdicts
  <2> QED
    BY <1>1, <1>2, <2>1, GoesSound
<1>3. ASSUME Free, UNCHANGED <<Server, thread, faults>>,
             cached' \in {cached, "nothing"}, screen' \in {"login", "setup"},
             tokens' \in [access: Access, renewable: BOOLEAN]
      PROVE  StepSound
  <2>1. UNCHANGED <<account, archived, held, open, late, thread, faults>>
    BY <1>3 DEF Server, Decided
  <2>2. StateTyped
    BY <1>1, <1>3, <2>1, StateTypedNow DEF StateTyped, Screens
  <2>3. /\ ThreadsSound' /\ ProfileStep /\ Carries /\ Remembers
        /\ LaunchEnds /\ Opened
    BY <1>3, <2>1, SameProfile
       DEF IInv, ThreadsSound, Carries, Remembers, LaunchEnds, Opened, OpenedRightly,
           Verdicts, Live
  <2>4. SavedStaysKnown
    BY <1>3, <2>1 DEF Free, SavedStaysKnown
  <2> QED
    BY <2>2, <2>3, <2>4 DEF StepSound
<1>4. ASSUME NEW call \in Requests \ {"clients"}, NEW token \in Access,
             Begins(Asks(call, "entry", token, FALSE)),
             cached' \in {cached, "nothing"},
             UNCHANGED <<Server, tokens, faults>>
      PROVE  StepSound
  <2> DEFINE r == Asks(call, "entry", token, FALSE)
  <2>1. r \in Thread /\ r.answer = "waiting" /\ r.call \in Requests
    BY DEF Asks, Idle, Thread, Purposes, Answers
  <2>2. r.call # "storage" /\ Begins(r)
    BY <1>4, <2>1 DEF Requests
  <2> HIDE DEF r
  <2> QED
    BY <1>2, <1>4, <2>1, <2>2
<1>5. CASE SendOtp
  BY <1>4, <1>5 DEF SendOtp, Cached, Requests, Access
<1>6. CASE VerifyOtp
  BY <1>4, <1>6 DEF VerifyOtp, Requests, Access
<1>7. CASE CheckAgain
  <2> DEFINE r == [Started EXCEPT !.force = TRUE]
  <2>1. r \in Thread /\ r.answer = "waiting" /\ r.for = "entry" /\ r.force
    BY DEF Started, Idle, Thread, Requests, Purposes, Access, Answers
  <2>2. Begins(r) /\ cached' = "nothing" /\ UNCHANGED <<Server, tokens, faults>>
    BY <1>7 DEF CheckAgain
  <2> HIDE DEF r
  <2> QED
    BY <1>2, <2>1, <2>2
<1>8. CASE SubmitSignup
  BY <1>1, <1>4, <1>8 DEF SubmitSignup, Cached, Requests
<1>9. CASE SubmitBootstrap /\ tokens.access # "none"
  BY <1>1, <1>4, <1>9 DEF SubmitBootstrap, Cached, Requests
<1>10. CASE SubmitBootstrap /\ tokens.access = "none"
  BY <1>1, <1>3, <1>10 DEF SubmitBootstrap, Cached
<1>11. CASE LoadClients
  <2> DEFINE r == Asks("clients", "clients", tokens.access, FALSE)
  <2>1. r \in Thread /\ r.answer = "waiting" /\ r.call = "clients"
    BY <1>1 DEF Asks, Idle, Thread, Requests, Purposes, Answers
  <2>2. Goes("person", r) /\ UNCHANGED <<Server, App, faults>>
    BY <1>11 DEF LoadClients
  <2> HIDE DEF r
  <2>3. GoesOn("person", r) /\ PersonGoesOn(r)
    BY <1>1, <2>1, <2>2, StateTypedNow DEF GoesOn, PersonGoesOn, App, Remembers
  <2> QED
    BY <1>1, <2>2, <2>3, GoesSound
<1>12. CASE SignOut
  BY <1>3, <1>12 DEF SignOut, Access
<1> QED
  BY <1>5, <1>6, <1>7, <1>8, <1>9, <1>10, <1>11, <1>12 DEF PersonActs

-----------------------------------------------------------------------------
(* Failures *)

LEMMA FailsSound ==
    ASSUME IInv, NEW t \in Threads, Fails(t)
    PROVE  StepSound
<1>1. /\ account' \in Stages /\ open' \in BOOLEAN /\ ProfileStep
      /\ faults' \in 0..MaxFaults /\ UNCHANGED Decided /\ UNCHANGED App
  BY StateTypedNow, FaultTyped, SameProfile DEF Fails, Decided
<1>2. late' \subseteq {"signup", "bootstrap"}
  BY StateTypedNow DEF Fails, GaveUp
<1>3. Answer(t, "error") /\ Live(t) /\ "error" \in Answers /\ "error" \notin Profiles
  BY DEF Fails, Live, Requests, Answers, Profiles
<1> QED
  BY <1>1, <1>2, <1>3, AnswerSound

\* Expiry marks the tokens, and nothing that the app concludes from.
LEMMA AccessExpiresSound ==
    ASSUME IInv, AccessExpires
    PROVE  StepSound
<1>1. /\ UNCHANGED <<account, archived, held, open, late, cached, screen>>
      /\ faults' \in 0..MaxFaults
      /\ tokens' \in [access: Access, renewable: BOOLEAN]
  BY StateTypedNow, FaultTyped DEF AccessExpires, Server, Decided, Access
<1>2. \A t \in Threads :
          /\ thread'[t] \in Thread
          /\ thread'[t].call = thread[t].call
          /\ thread'[t].for = thread[t].for
          /\ thread'[t].force = thread[t].force
          /\ thread'[t].answer = thread[t].answer
  BY StateTypedNow DEF AccessExpires, Thread, Access
<1>3. thread' \in [Threads -> Thread]
  BY <1>2 DEF AccessExpires
<1>4. StateTyped
  BY <1>1, <1>3, StateTypedNow DEF StateTyped
<1>5. ThreadsSound'
  BY <1>2, ThreadNames DEF IInv, ThreadsSound, Live
<1>6. ProfileStep /\ Carries /\ Remembers /\ LaunchEnds /\ Opened
  BY <1>1, <1>2, ThreadNames, SameProfile
     DEF Carries, Remembers, LaunchEnds, Opened, OpenedRightly, Live
<1>7. SavedStaysKnown
  BY <1>1, <1>2, ThreadNames DEF IInv, SavedWithUser, SavedStaysKnown, Live
<1> QED
  BY <1>4, <1>5, <1>6, <1>7 DEF StepSound

LEMMA StepIsSound ==
    ASSUME IInv, Step PROVE StepSound
BY ServesSound, ContinuesSound, FailsSound, PersonContinuesSound, PersonActsSound,
   OutsideSound, AccessExpiresSound DEF Step

-----------------------------------------------------------------------------
(* The invariant *)

LEMMA HistoryTyped ==
    ASSUME IInv, Observes \/ ObservesAnew, StateTyped
    PROVE  TypeOK'
<1>1. \A s : Verdict(s) \subseteq Verdicts
  BY DEF Verdict
<1>2. seen' \in [Threads -> SUBSET Verdicts]
  <2>1. CASE Observes
    <3>1. \A t \in Threads :
              (IF thread[t].call = "idle" THEN {} ELSE seen[t]) \cup Verdict(account')
                  \in SUBSET Verdicts
      BY <1>1 DEF IInv, TypeOK
    <3> QED
      BY <2>1, <3>1 DEF Observes
  <2>2. CASE ObservesAnew
    BY <1>1, <2>2 DEF ObservesAnew
  <2> QED
    BY <2>1, <2>2
<1> QED
  BY <1>2 DEF StateTyped, TypeOK, Thread, Screens

LEMMA StepKeeps ==
    ASSUME IInv, StepSound, Observes
    PROVE  IInv'
<1>1. TypeOK'
  BY HistoryTyped DEF StepSound
<1>2. AnswersTrue' /\ LaunchSeesMore' /\ MemoryTrue'
  BY <1>1, KnowledgeKept DEF StepSound
<1>3. SavedWithUser'
  BY ThreadNames
     DEF StepSound, SavedStaysKnown, SavedWithUser, Observes, Live
<1> QED
  BY <1>1, <1>2, <1>3 DEF IInv, StepSound, ProfileStep

\* An app that was killed has forgotten everything but its tokens.
LEMMA NewApp ==
    ASSUME thread = Launched, cached = "nothing", screen = "login"
    PROVE  ThreadsSound /\ AnswersTrue /\ MemoryTrue /\ SavedWithUser
BY ThreadNames
   DEF Launched, Started, Idle, ThreadsSound, AnswersTrue, MemoryTrue, SavedWithUser,
       Live, Verdicts

LEMMA LaunchedTyped == Launched \in [Threads -> Thread]
BY IdleTyped, ThreadNames DEF Launched

LEMMA InitSound == Init => IInv
<1> SUFFICES ASSUME Init PROVE IInv
  OBVIOUS
<1>1. TypeOK
  <2>1. seen \in [Threads -> SUBSET Verdicts]
    BY DEF Init
  <2>2. archived \in BOOLEAN /\ held \in BOOLEAN /\ open \in BOOLEAN
    BY Zenon DEF Init
  <2>3. tokens \in [access: Access, renewable: BOOLEAN]
    BY DEF Init, Access
  <2>4. /\ account \in Stages /\ late \subseteq {"signup", "bootstrap"}
        /\ faults \in 0..MaxFaults
    BY FaultsAssumption DEF Init, Stages
  <2>5. thread \in [Threads -> Thread] /\ cached = "nothing" /\ screen = "login"
    BY LaunchedTyped DEF Init
  <2> QED
    BY <2>1, <2>2, <2>3, <2>4, <2>5 DEF TypeOK, Thread
<1>2. LaunchSeesMore /\ EmployeesOnly
  BY ThreadNames DEF Init, LaunchSeesMore, EmployeesOnly
<1> QED
  BY <1>1, <1>2, NewApp DEF Init, IInv

LEMMA RelaunchKeeps ==
    ASSUME IInv, Relaunch, ObservesAnew
    PROVE  IInv'
<1>1. /\ UNCHANGED <<account, archived, held, open, tokens>>
      /\ thread' = Launched /\ cached' = "nothing" /\ screen' = "login"
      /\ late' \subseteq {"signup", "bootstrap"} /\ faults' \in 0..MaxFaults
  BY StateTypedNow, FaultTyped DEF Relaunch, GaveUp, Decided
<1>2. TypeOK'
  <2>1. StateTyped
    BY <1>1, StateTypedNow, LaunchedTyped DEF StateTyped, Screens
  <2> QED
    BY <2>1, HistoryTyped
<1>3. LaunchSeesMore' /\ EmployeesOnly'
  BY <1>1, ThreadNames DEF ObservesAnew, LaunchSeesMore, IInv, EmployeesOnly
<1>4. ThreadsSound' /\ AnswersTrue' /\ MemoryTrue' /\ SavedWithUser'
  BY <1>1, ThreadNames
     DEF Launched, Started, Idle, ThreadsSound, AnswersTrue, MemoryTrue, SavedWithUser,
         Live, Verdicts
<1> QED
  BY <1>2, <1>3, <1>4 DEF IInv

LEMMA InvariantKept == IInv /\ [Next]_vars => IInv'
<1> SUFFICES ASSUME IInv, [Next]_vars PROVE IInv'
  OBVIOUS
<1>1. CASE Step /\ Observes
  BY <1>1, StepIsSound, StepKeeps
<1>2. CASE Relaunch /\ ObservesAnew
  BY <1>2, RelaunchKeeps
<1>3. CASE UNCHANGED vars
  BY <1>3
     DEF vars, IInv, TypeOK, ThreadsSound, AnswersTrue, LaunchSeesMore, MemoryTrue,
         SavedWithUser, EmployeesOnly, Live
<1> QED
  BY <1>1, <1>2, <1>3 DEF Next

\* What the app knows of the account, by an answer, in memory or on the screen,
\* was true of it at some moment since the app began to find out.
THEOREM InvariantHolds == Spec => []IInv
BY InitSound, InvariantKept, PTL DEF Spec

\* Every variable stays in its type.
THEOREM TypeCorrect == Spec => []TypeOK
<1>1. IInv => TypeOK
  BY DEF IInv
<1> QED
  BY <1>1, InvariantHolds, PTL

LEMMA StepsAreSound ==
    ASSUME IInv, [Next]_vars
    PROVE  (Step /\ StepSound) \/ Relaunch \/ UNCHANGED vars
BY StepIsSound DEF Next

\* The clients screen is opened by a thread that ends, and the profile was approved
\* and active at some moment since that thread began.
THEOREM EntryIsEarned == Spec => EntryWasEarned
<1>1. IInv /\ [Next]_vars => [OpenedRightly("clients")]_vars
  <2> SUFFICES ASSUME IInv, [Next]_vars PROVE [OpenedRightly("clients")]_vars
    OBVIOUS
  <2>1. CASE StepSound
    BY <2>1 DEF StepSound, Opened, Verdicts
  <2>2. CASE Relaunch
    BY <2>2 DEF Relaunch, OpenedRightly
  <2> QED
    BY <2>1, <2>2, StepsAreSound
<1> QED
  BY <1>1, InvariantHolds, PTL DEF Spec, EntryWasEarned

\* Nobody is told of a rejection that did not happen since the app began to find
\* out, however old the answers and the user data are, and whoever overwrites it.
THEOREM RefusalIsTrue == Spec => RefusalWasTrue
<1>1. IInv /\ [Next]_vars => [OpenedRightly("rejected")]_vars
  <2> SUFFICES ASSUME IInv, [Next]_vars PROVE [OpenedRightly("rejected")]_vars
    OBVIOUS
  <2>1. CASE StepSound
    BY <2>1 DEF StepSound, Opened, Verdicts
  <2>2. CASE Relaunch
    BY <2>2 DEF Relaunch, OpenedRightly
  <2> QED
    BY <2>1, <2>2, StepsAreSound
<1> QED
  BY <1>1, InvariantHolds, PTL DEF Spec, RefusalWasTrue

\* A profile that was rejected or archived is changed by decisions of the admin
\* alone: no request, lost, late or repeated, does it.  Archiving is final.
THEOREM RequestsAlwaysLeaveRefused == Spec => RequestsLeaveRefused
<1>1. IInv /\ [Next]_vars =>
          [/\ account = "rejected" \/ archived => Decides \/ UNCHANGED account
           /\ archived => archived']_vars
  <2> SUFFICES ASSUME IInv, [Next]_vars
               PROVE  [/\ account = "rejected" \/ archived => Decides \/ UNCHANGED account
                       /\ archived => archived']_vars
    OBVIOUS
  <2>1. CASE StepSound
    BY <2>1 DEF StepSound, ProfileStep
  <2>2. CASE Relaunch
    BY <2>2 DEF Relaunch, Decided
  <2> QED
    BY <2>1, <2>2, StepsAreSound
<1> QED
  BY <1>1, InvariantHolds, PTL DEF Spec, RequestsLeaveRefused
=============================================================================
