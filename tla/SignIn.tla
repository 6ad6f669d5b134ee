------------------------------- MODULE SignIn -------------------------------
(***************************************************************************)
(* One person, one installation of the app, and the backend: OTP sign-in,  *)
(* the request to join or to found a company, "Check again", the check at  *)
(* launch, token refresh and protected requests, while the admin decides   *)
(* about the profile and the operator switches the company off and on.     *)
(*                                                                         *)
(* A request is served at one moment and answered at a later one; it may    *)
(* fail, time out before or after it is served, or be served after the app *)
(* gave up on it.  Tokens are only good, expired or absent here: Session   *)
(* has their rotation and storage.                                         *)
(***************************************************************************)
EXTENDS Naturals

CONSTANTS
    MaxFaults    \* bound on failed answers, kills, hours and switches of the company

ASSUME FaultsAssumption == MaxFaults \in Nat

VARIABLES
    account,   \* the stage that the columns of the person's profile say
    archived,  \* its deleted_at is set
    held,      \* a worker has loaded the pending profile and decides later
    open,      \* is_active of the person's company
    late,      \* requests that the app gave up on and the backend still has
    tokens,    \* the tokens of the app
    cached,    \* the user data in the app's memory
    thread,    \* what the app waits for: at launch, and for the person
    screen,
    seen,      \* history: what the account was since the thread started
    faults     \* the bound spent so far

vars == <<account, archived, held, open, late, tokens, cached, thread, screen, seen, faults>>

Threads == {"launch", "person"}

\* is_active only counts in an approved profile: `pending` has it set or not, as
\* create_user may.  `setup` is an ADMIN profile without a company, `admin` has one,
\* and `demoted` is what update_user makes of it.
Stages == {"none", "pending", "active", "suspended", "rejected", "setup", "admin",
           "demoted"}

InUse == {"active", "admin", "demoted"}

\* The screens that should open for nobody whose account never called for them
Verdicts == {"clients", "rejected"}

Verdict(s) == {v \in Verdicts : IF v = "clients" THEN s \in InUse ELSE s = "rejected"}

\* Mutant: is_active is not looked at.
ScreenOfApproved(s) ==
    CASE s \in InUse \cup {"suspended"} -> "clients"
      [] s = "setup" -> "setup"
      [] s = "rejected" -> "rejected"
      [] OTHER -> "pending"

\* Mutant: whoever is not in use is told of a rejection.
ScreenOfRefused(s) ==
    CASE s \in InUse -> "clients"
      [] s = "setup" -> "setup"
      [] s = "pending" -> "pending"
      [] OTHER -> "rejected"

\* _stateForUser: a suspended profile is shown as if it waited for approval, and
\* an archived one as what its columns say, which is that it was rejected unless
\* an approval came in late.
ScreenOf(s) ==
    CASE s \in InUse -> "clients"
      [] s = "setup" -> "setup"
      [] s = "rejected" -> "rejected"
      [] OTHER -> "pending"

\* A profile in an answer or in memory is kept as the screen it calls for:
\* _stateForUser is all that looks into it.
Profile(s) == IF s = "none" THEN "none" ELSE ScreenOf(s)

Profiles == {"none", "clients", "setup", "rejected", "pending"}

Access == {"none", "good", "expired"}

Requests == {"send_otp", "verify_otp", "status", "refresh", "signup",
             "bootstrap", "clients"}

Answers == Profiles \cup {"waiting", "error", "sent", "unauthorized", "tokens",
                          "served"}

\* The function that a request is made for.
Purposes == {"entry", "user", "profile", "clients"}

Idle == [call |-> "idle", for |-> "entry", again |-> FALSE, force |-> FALSE,
         token |-> "none", answer |-> "waiting"]

TypeOK ==
    /\ account \in Stages
    /\ archived \in BOOLEAN
    /\ held \in BOOLEAN
    /\ open \in BOOLEAN
    /\ late \subseteq {"signup", "bootstrap"}
    /\ tokens \in [access: Access, renewable: BOOLEAN]
    /\ cached \in Profiles \cup {"nothing"}
    /\ thread \in [Threads -> [call: Requests \cup {"idle", "storage"}, for: Purposes,
                               again: BOOLEAN, force: BOOLEAN, token: Access,
                               answer: Answers]]
    /\ screen \in {"login", "loading", "code", "signup", "setup", "pending",
                   "rejected", "clients"}
    /\ seen \in [Threads -> SUBSET Verdicts]
    /\ faults \in 0..MaxFaults

-----------------------------------------------------------------------------
(* The backend *)

Decided == <<archived, held>>

Server == <<account, Decided, open, late>>

App == <<tokens, cached, screen>>

Waits(t, call) == thread[t].call = call /\ thread[t].answer = "waiting"

Answer(t, a) == thread' = [thread EXCEPT ![t].answer = a]

\* Mutant: a rejected profile counts as none.
MayApplyAgain == account \in {"none", "rejected"}

MayApply == account = "none"

\* request_signup returns the profile that exists, an archived one excepted.
Applies ==
    /\ ~ archived
    /\ \/ MayApply /\ open /\ account' = "pending"
       \/ account # "none" /\ UNCHANGED account

\* bootstrap returns the company that exists to its admin.
Founds ==
    /\ account \in {"none", "setup", "admin"}
    /\ account' = "admin"
    /\ open' = (open \/ account # "admin")

SendOtpServed(t) ==
    /\ Waits(t, "send_otp")
    /\ Answer(t, "sent")
    /\ UNCHANGED <<Server, App, faults>>

\* The profile comes with the tokens, whatever its stage.
VerifyOtpServed(t) ==
    /\ Waits(t, "verify_otp")
    /\ Answer(t, Profile(account))
    /\ UNCHANGED <<Server, App, faults>>

StatusServed(t) ==
    /\ Waits(t, "status")
    /\ Answer(t, IF thread[t].token = "good" THEN Profile(account) ELSE "unauthorized")
    /\ UNCHANGED <<Server, App, faults>>

\* Supabase refuses a token that is spent, which it is when an answer was lost.
RefreshServed(t) ==
    /\ Waits(t, "refresh")
    /\ \/ account \in InUse \cup {"setup"} /\ ~ archived /\ Answer(t, "tokens")
       \/ Answer(t, "error")
    /\ UNCHANGED <<Server, App, faults>>

SignupServed(t) ==
    /\ Waits(t, "signup")
    /\ \/ thread[t].token = "good" /\ Applies /\ Answer(t, Profile(account'))
       \/ thread[t].token # "good" /\ UNCHANGED account /\ Answer(t, "error")
       \/ /\ archived \/ (MayApply /\ ~ open)
          /\ UNCHANGED account
          /\ Answer(t, "error")
    /\ UNCHANGED <<Decided, open, late, App, faults>>

BootstrapServed(t) ==
    /\ Waits(t, "bootstrap")
    /\ \/ thread[t].token = "good" /\ Founds /\ Answer(t, Profile(account'))
       \/ /\ thread[t].token # "good" \/ account \notin {"none", "setup", "admin"}
          /\ UNCHANGED <<account, open>>
          /\ Answer(t, "error")
    /\ UNCHANGED <<Decided, late, App, faults>>

\* get_current_user, and a company to read the clients of
Admits == account \in InUse /\ ~ archived /\ open

\* Accounts has the hop through the thread pool between the check and the body.
ClientsServed(t) ==
    /\ Waits(t, "clients")
    /\ Answer(t, CASE thread[t].token # "good" -> "unauthorized"
                   [] thread[t].token = "good" /\ Admits -> "served"
                   [] OTHER -> "error")
    /\ UNCHANGED <<Server, App, faults>>

\* What the app gave up on is served after all.
LateSignup ==
    /\ "signup" \in late
    /\ late' = late \ {"signup"}
    /\ Applies
    /\ UNCHANGED <<Decided, open, thread, App, faults>>

LateBootstrap ==
    /\ "bootstrap" \in late
    /\ late' = late \ {"bootstrap"}
    /\ Founds
    /\ UNCHANGED <<Decided, thread, App, faults>>

-----------------------------------------------------------------------------
(* The admin *)

Moves(from, to) == account \in from /\ account' \in to

Archives ==
    /\ account \in {"pending", "active", "suspended", "rejected"}
    /\ account' = "rejected"
    /\ archived' = TRUE

\* create_user, verify_user, update_user, update_access and delete_user.  The one
\* admin of a company is its founder, who may demote himself with update_user; in
\* his company nobody is left then to decide about him.
AdminActs ==
    /\ open
    /\ ~ archived
    /\ \/ /\ \/ Moves({"none"}, {"pending", "active", "rejected"})
             \/ Moves({"pending"}, {"active", "rejected"})
             \/ Moves({"active"}, {"suspended"})
             \/ Moves({"suspended"}, {"active"})
             \/ Moves({"admin"}, {"demoted"})
          /\ UNCHANGED archived
       \/ Archives
    /\ UNCHANGED <<held, open, late, thread, App, faults>>

\* verify_user has loaded the profile in one of two workers and goes on when the
\* other one has done what it likes.  There is one such request at a time, since no
\* profile becomes pending again; the others commit what an unhurried admin could.
DecisionLoads ==
    /\ open
    /\ ~ archived
    /\ ~ held
    /\ account = "pending"
    /\ held' = TRUE
    /\ UNCHANGED <<account, archived, open, late, thread, App, faults>>

\* What a late approval makes of the profile.  It does not write an is_active that
\* it loaded as set, which an earlier rejection has cleared.
ApprovedLate ==
    {"active"} \cup (IF account = "rejected" THEN {"suspended"} ELSE {})

\* The decision is committed on top of what was decided, archived profiles
\* included, or it is rolled back.
DecidesLate ==
    /\ held
    /\ held' = FALSE
    /\ account' \in {account, "rejected"} \cup ApprovedLate
    /\ UNCHANGED <<archived, open, late, thread, App, faults>>

Decides == AdminActs \/ DecisionLoads \/ DecidesLate

-----------------------------------------------------------------------------
(* The app: what a thread does next *)

Started == [Idle EXCEPT !.call = "storage"]

Asks(call, for, token, force) ==
    [Idle EXCEPT !.call = call, !.for = for, !.token = token, !.force = force]

Goes(t, what) == thread' = [thread EXCEPT ![t] = what]

Ends(t, to) == Goes(t, Idle) /\ screen' = to

\* The user is known: getAppProfile takes the user data in memory, or asks.  Data
\* without a profile make no user.
KnowsUser(t, data, token) ==
    /\ cached' = data
    /\ IF thread[t].force
       THEN /\ Goes(t, Asks("status", "profile", token, TRUE))
            /\ UNCHANGED screen
       ELSE Ends(t, IF data = "none" THEN "login" ELSE data)

Answered(t, call, for) ==
    /\ thread[t].call = call
    /\ thread[t].for = for
    /\ thread[t].answer # "waiting"

\* Where the app goes when the user, the profile or the clients stay unknown
GivesUp(t) ==
    Ends(t, CASE thread[t].for = "user" -> "login"
              [] thread[t].for = "profile" -> "signup"
              [] OTHER -> screen)

Cached == UNCHANGED <<tokens, cached>>

TokenRead(t) ==
    /\ thread[t].call = "storage"
    /\ thread[t].for = "entry"
    /\ IF tokens.access = "none"
       THEN Ends(t, "login") /\ UNCHANGED cached
       ELSE IF cached # "nothing"
       THEN KnowsUser(t, cached, tokens.access)
       ELSE /\ Goes(t, Asks("status", "user", tokens.access, thread[t].force))
            /\ UNCHANGED <<cached, screen>>
    /\ UNCHANGED <<Server, tokens, faults>>

\* 401 on the first attempt: refresh, with the refresh token there is.
Refreshes(t, for) ==
    /\ \/ Answered(t, "status", for)
       \/ Answered(t, "clients", for)
    /\ thread[t].answer = "unauthorized"
    /\ ~ thread[t].again
    /\ IF tokens.renewable
       THEN /\ Goes(t, [thread[t] EXCEPT !.call = "refresh", !.answer = "waiting",
                                         !.again = TRUE])
            /\ UNCHANGED screen
       ELSE GivesUp(t)
    /\ Cached
    /\ UNCHANGED <<Server, faults>>

Request(for) == IF for = "clients" THEN "clients" ELSE "status"

Refreshed(t, for) ==
    /\ Answered(t, "refresh", for)
    /\ thread[t].answer = "tokens"
    /\ tokens' = [access |-> "good", renewable |-> TRUE]
    /\ Goes(t, [thread[t] EXCEPT !.call = Request(for), !.answer = "waiting",
                                 !.token = "good"])
    /\ UNCHANGED <<Server, cached, screen, faults>>

\* refreshSession drops the tokens, the refresh of ApiClient keeps them.
RefreshFails(t, for) ==
    /\ Answered(t, "refresh", for)
    /\ thread[t].answer = "error"
    /\ tokens' = IF for = "clients" THEN tokens
                 ELSE [access |-> "none", renewable |-> FALSE]
    /\ GivesUp(t)
    /\ UNCHANGED <<Server, cached, faults>>

\* Mutant: the body of any answer is cached.
GetsNothingCached(t, for) ==
    /\ Answered(t, "status", for) \/ Answered(t, "clients", for)
    /\ \/ thread[t].answer = "error"
       \/ thread[t].answer = "unauthorized" /\ thread[t].again
    /\ GivesUp(t)
    /\ cached' = thread[t].answer
    /\ UNCHANGED <<Server, tokens, faults>>

GetsNothing(t, for) ==
    /\ Answered(t, "status", for) \/ Answered(t, "clients", for)
    /\ \/ thread[t].answer = "error"
       \/ thread[t].answer = "unauthorized" /\ thread[t].again
    /\ GivesUp(t)
    /\ Cached
    /\ UNCHANGED <<Server, faults>>

\* getCurrentUser
UserAnswered(t) ==
    /\ Answered(t, "status", "user")
    /\ thread[t].answer \in Profiles
    /\ IF thread[t].answer = "none"
       THEN Ends(t, "login") /\ UNCHANGED cached
       ELSE KnowsUser(t, thread[t].answer, thread[t].token)
    /\ UNCHANGED <<Server, tokens, faults>>

\* getAppProfile
ProfileAnswered(t) ==
    /\ Answered(t, "status", "profile")
    /\ thread[t].answer \in Profiles
    /\ cached' = thread[t].answer
    /\ Ends(t, IF thread[t].answer = "none" THEN "signup" ELSE thread[t].answer)
    /\ UNCHANGED <<Server, tokens, faults>>

ClientsAnswered(t) ==
    /\ Answered(t, "clients", "clients")
    /\ thread[t].answer = "served"
    /\ Goes(t, Idle)
    /\ UNCHANGED <<Server, App, faults>>

-----------------------------------------------------------------------------
(* The person *)

Free == thread["person"].call = "idle"

\* The person starts what shows the loading screen meanwhile.
Begins(request) ==
    /\ Free
    /\ Goes("person", request)
    /\ screen' = "loading"

SendOtp ==
    /\ screen \in {"login", "code"}
    /\ Begins(Asks("send_otp", "entry", "none", FALSE))
    /\ Cached
    /\ UNCHANGED <<Server, faults>>

OtpSent ==
    /\ Answered("person", "send_otp", "entry")
    /\ Ends("person", IF thread["person"].answer = "sent" THEN "code" ELSE "login")
    /\ Cached
    /\ UNCHANGED <<Server, faults>>

VerifyOtp ==
    /\ screen = "code"
    /\ Begins(Asks("verify_otp", "entry", "none", FALSE))
    /\ cached' = "nothing"
    /\ UNCHANGED <<Server, tokens, faults>>

OtpRefused ==
    /\ Answered("person", "verify_otp", "entry")
    /\ thread["person"].answer = "error"
    /\ Ends("person", "login")
    /\ Cached
    /\ UNCHANGED <<Server, faults>>

\* A newcomer gets an access token and no refresh token.
SignupRequired ==
    /\ Answered("person", "verify_otp", "entry")
    /\ thread["person"].answer = "none"
    /\ tokens' = [tokens EXCEPT !.access = "good"]
    /\ Ends("person", "signup")
    /\ UNCHANGED <<Server, cached, faults>>

\* The tokens are saved, which is awaited, and then the screen is chosen.
OtpVerified ==
    /\ Answered("person", "verify_otp", "entry")
    /\ thread["person"].answer \in Profiles \ {"none"}
    /\ tokens' = [access |-> "good", renewable |-> TRUE]
    /\ cached' = thread["person"].answer
    /\ Goes("person", [Started EXCEPT !.for = "user"])
    /\ UNCHANGED <<Server, screen, faults>>

TokensSaved ==
    /\ thread["person"].call = "storage"
    /\ thread["person"].for = "user"
    /\ KnowsUser("person", cached, "good")
    /\ UNCHANGED <<Server, tokens, faults>>

\* Mutant: the cached user data are good enough.
CheckAgainAsAtLaunch ==
    /\ screen \in {"pending", "rejected"}
    /\ Begins(Started)
    /\ Cached
    /\ UNCHANGED <<Server, faults>>

\* checkApprovalStatus: past the cache, twice.
CheckAgain ==
    /\ screen \in {"pending", "rejected"}
    /\ Begins([Started EXCEPT !.force = TRUE])
    /\ cached' = "nothing"
    /\ UNCHANGED <<Server, tokens, faults>>

\* Without a token the form comes back with an error.
SubmitSignup ==
    /\ screen = "signup"
    /\ tokens.access # "none"
    /\ Begins(Asks("signup", "entry", tokens.access, FALSE))
    /\ Cached
    /\ UNCHANGED <<Server, faults>>

\* A profile that existed already is shown as pending, too.
SignupAnswered ==
    /\ Answered("person", "signup", "entry")
    /\ IF thread["person"].answer \in Profiles
       THEN cached' = thread["person"].answer /\ Ends("person", "pending")
       ELSE Ends("person", "signup") /\ UNCHANGED cached
    /\ UNCHANGED <<Server, tokens, faults>>

SubmitBootstrap ==
    /\ screen \in {"signup", "setup"}
    /\ IF tokens.access = "none"
       THEN Free /\ screen' = "setup" /\ UNCHANGED thread
       ELSE Begins(Asks("bootstrap", "entry", tokens.access, FALSE))
    /\ Cached
    /\ UNCHANGED <<Server, faults>>

BootstrapAnswered ==
    /\ Answered("person", "bootstrap", "entry")
    /\ IF thread["person"].answer = "clients"
       THEN cached' = "clients" /\ Ends("person", "clients")
       ELSE Ends("person", "setup") /\ UNCHANGED cached
    /\ UNCHANGED <<Server, tokens, faults>>

LoadClients ==
    /\ screen = "clients"
    /\ Free
    /\ Goes("person", Asks("clients", "clients", tokens.access, FALSE))
    /\ UNCHANGED <<Server, App, faults>>

SignOut ==
    /\ screen \in {"signup", "setup", "pending", "rejected", "clients"}
    /\ Free
    /\ tokens' = [access |-> "none", renewable |-> FALSE]
    /\ cached' = "nothing"
    /\ screen' = "login"
    /\ UNCHANGED <<Server, thread, faults>>

-----------------------------------------------------------------------------
(* Failures, and what else happens so often only *)

Fault == faults < MaxFaults /\ faults' = faults + 1

\* What becomes of a request of t that the app no longer waits for
GaveUp(t) ==
    late' \in {late} \cup {late \cup ({thread[t].call} \cap {"signup", "bootstrap"})}

\* The provider refuses, the backend fails, the connection breaks, or 30 s go by.
Fails(t) ==
    /\ Fault
    /\ thread[t].call \in Requests
    /\ thread[t].answer # "error"
    /\ Answer(t, "error")
    /\ IF thread[t].answer = "waiting" THEN GaveUp(t) ELSE UNCHANGED late
    /\ UNCHANGED <<account, Decided, open, App>>

OperatorSetsActive ==
    /\ Fault
    /\ open' = ~ open
    /\ UNCHANGED <<account, Decided, late, thread, App>>

\* The hour of the access token is over.
AccessExpires ==
    /\ Fault
    /\ tokens.access = "good"
    /\ tokens' = [tokens EXCEPT !.access = "expired"]
    /\ thread' = [t \in Threads |->
                     IF thread[t].token = "good"
                     THEN [thread[t] EXCEPT !.token = "expired"] ELSE thread[t]]
    /\ UNCHANGED <<Server, cached, screen>>

Launched == [launch |-> Started, person |-> Idle]

\* The app is killed and opened again.
Relaunch ==
    /\ Fault
    /\ IF thread["person"].answer = "waiting" THEN GaveUp("person") ELSE UNCHANGED late
    /\ thread' = Launched
    /\ cached' = "nothing"
    /\ screen' = "login"
    /\ UNCHANGED <<account, Decided, open, tokens>>

-----------------------------------------------------------------------------
Init ==
    /\ account \in {"none", "setup"}
    /\ archived = FALSE
    /\ held = FALSE
    /\ open = TRUE
    /\ late = {}
    /\ tokens = [access |-> "none", renewable |-> FALSE]
    /\ cached = "nothing"
    /\ thread = Launched
    /\ screen = "login"
    /\ seen = [t \in Threads |-> {}]
    /\ faults = 0

Serves(t) ==
    \/ SendOtpServed(t) \/ VerifyOtpServed(t) \/ StatusServed(t) \/ RefreshServed(t)
    \/ SignupServed(t) \/ BootstrapServed(t) \/ ClientsServed(t)

Continues(t) ==
    \/ TokenRead(t) \/ UserAnswered(t) \/ ProfileAnswered(t) \/ ClientsAnswered(t)
    \/ \E for \in {"user", "profile", "clients"} :
           Refreshes(t, for) \/ Refreshed(t, for) \/ RefreshFails(t, for)
               \/ GetsNothing(t, for)

PersonContinues ==
    OtpSent \/ OtpRefused \/ SignupRequired \/ OtpVerified \/ TokensSaved
        \/ SignupAnswered \/ BootstrapAnswered

PersonActs ==
    SendOtp \/ VerifyOtp \/ CheckAgain \/ SubmitSignup \/ SubmitBootstrap
        \/ LoadClients \/ SignOut

Step ==
    \/ \E t \in Threads : Serves(t) \/ Continues(t) \/ Fails(t)
    \/ PersonContinues \/ PersonActs
    \/ LateSignup \/ LateBootstrap
    \/ Decides \/ OperatorSetsActive
    \/ AccessExpires

\* What a thread has seen since it started: a stretch ends when it is idle.
Observes ==
    seen' = [t \in Threads |->
                (IF thread[t].call = "idle" THEN {} ELSE seen[t]) \cup Verdict(account')]

\* Both threads are new.
ObservesAnew == seen' = [t \in Threads |-> Verdict(account')]

Next ==
    \/ Step /\ Observes
    \/ Relaunch /\ ObservesAnew

Spec == Init /\ [][Next]_vars

\* Requests are answered or fail, and the person does what the screen invites to.
\* That includes the refresh for a load of clients, which has no timeout (Session
\* assumes nothing of it): whoever it holds up has the clients screen open.
FairSpec ==
    /\ Spec
    /\ \A t \in Threads : WF_vars(Serves(t) /\ Observes) /\ WF_vars(Continues(t) /\ Observes)
    /\ WF_vars(PersonContinues /\ Observes)
    /\ WF_vars(SendOtp /\ screen = "login" /\ Observes)
    /\ SF_vars(VerifyOtp /\ Observes)
    /\ WF_vars(CheckAgain /\ Observes)
    /\ WF_vars(SubmitSignup /\ Observes)
    /\ SF_vars(SignOut /\ screen \in {"signup", "setup"} /\ Observes)

-----------------------------------------------------------------------------
(* Properties *)

\* The screen opens with the end of a thread that saw it called for.
OpenedRightly(to) ==
    screen' = to /\ screen # to =>
        \E t \in Threads :
            thread[t].call # "idle" /\ thread'[t].call = "idle" /\ to \in seen[t]

\* The clients screen opens for nobody whose profile was not approved and active
\* at some moment since the app began to find out, whatever the admin does
\* meanwhile and however old the cached user data and the answers on the way are.
EntryWasEarned == [][OpenedRightly("clients")]_vars

\* Who is told of a rejection had been rejected at some moment since the app began
\* to find out: no earlier verdict, cached or answered late, is shown for a new one.
\* (The rejection need not stand: an approval that another worker had begun may
\* overwrite it.)
RefusalWasTrue == [][OpenedRightly("rejected")]_vars

\* docs/auth-workflow.md:55: "Rejected and archived profiles cannot silently
\* sign up again": while a profile is rejected or archived, no request of the
\* person changes it, not a late, a lost or a repeated one either, and nothing
\* brings an archived profile back.
RequestsLeaveRefused ==
    [][/\ account = "rejected" \/ archived => Decides \/ UNCHANGED account
       /\ archived => archived']_vars

\* A person whose account is in use for good gets to the clients again and
\* again: no screen is a dead end, whatever failed before.
InUseGetsIn == <>[](account \in InUse) => []<>(screen = "clients")

\* docs/auth-workflow.md:63: "A refresh also rechecks the application profile,
\* approval, active state, and organization state."
RefreshChecksOrganization ==
    [][\A t \in Threads :
           thread'[t].answer = "tokens" /\ thread[t].answer = "waiting" =>
               open \/ account = "setup"]_vars
=============================================================================
