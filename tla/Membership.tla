----------------------------- MODULE Membership -----------------------------
(***************************************************************************)
(* What the account endpoints promise, with no database, request or worker *)
(* in sight: every person is at one stage of a fixed lifecycle, belongs to *)
(* at most one company, and is moved only by the admin of that company.    *)
(* Accounts.tla is shown to implement this specification when the backend  *)
(* runs as one process.                                                    *)
(***************************************************************************)
CONSTANTS Users, Organizations, NoOrg

VARIABLES
    stage,    \* lifecycle stage of each person
    home,     \* the company of each person
    admins    \* the people who hold the ADMIN role

vars == <<stage, home, admins>>

Stages == {"none", "pending", "active", "suspended", "rejected", "archived"}

TypeOK ==
    /\ stage \in [Users -> Stages]
    /\ home \in [Users -> Organizations \cup {NoOrg}]
    /\ admins \subseteq Users

\* Admin profiles may predate the organizations table: they belong nowhere yet.
Init ==
    \E legacy \in SUBSET Users :
        /\ stage = [u \in Users |-> IF u \in legacy THEN "active" ELSE "none"]
        /\ home = [u \in Users |-> NoOrg]
        /\ admins = legacy

Founded(o) == \E u \in Users : home[u] = o

\* A newcomer, or an admin without a company, founds a company of their own.
Found(u, o) ==
    /\ ~ Founded(o)
    /\ stage[u] = "none" \/ (stage[u] = "active" /\ u \in admins /\ home[u] = NoOrg)
    /\ stage' = [stage EXCEPT ![u] = "active"]
    /\ home' = [home EXCEPT ![u] = o]
    /\ admins' = admins \cup {u}

\* A newcomer asks to join a company that exists.
Apply(u, o) ==
    /\ Founded(o)
    /\ stage[u] = "none"
    /\ stage' = [stage EXCEPT ![u] = "pending"]
    /\ home' = [home EXCEPT ![u] = o]
    /\ UNCHANGED admins

InCharge(a) == a \in admins /\ stage[a] = "active" /\ home[a] # NoOrg

Enrol(a, u) ==
    /\ stage[u] = "none"
    /\ \E s \in {"pending", "active", "rejected"} :
           stage' = [stage EXCEPT ![u] = s]
    /\ home' = [home EXCEPT ![u] = home[a]]
    /\ UNCHANGED admins

Move(a, u, from, to) ==
    /\ home[u] = home[a]
    /\ stage[u] \in from
    /\ stage' = [stage EXCEPT ![u] = to]
    /\ UNCHANGED <<home, admins>>

Decide(a, u) == \E verdict \in {"active", "rejected"} :
                    Move(a, u, {"pending"}, verdict)

Suspend(a, u) == a # u /\ Move(a, u, {"active"}, "suspended")

Reinstate(a, u) == Move(a, u, {"suspended"}, "active")

\* delete_user takes active profiles too, where docs/organization-admin-setup.md:13
\* speaks of inactive users.
Archive(a, u) ==
    /\ a # u
    /\ u \notin admins
    /\ Move(a, u, {"pending", "active", "suspended", "rejected"}, "archived")

\* update_user sets the role of any profile of the company, the admin's included:
\* the lifecycle allows it, since the code does.
Demote(a, u) ==
    /\ home[u] = home[a]
    /\ stage[u] # "archived"
    /\ admins' = admins \ {u}
    /\ UNCHANGED <<stage, home>>

ByAdmin(a, u) ==
    /\ InCharge(a)
    /\ \/ Enrol(a, u) \/ Decide(a, u) \/ Suspend(a, u) \/ Reinstate(a, u)
       \/ Archive(a, u) \/ Demote(a, u)

Next ==
    \E u \in Users :
        \/ \E o \in Organizations : Found(u, o) \/ Apply(u, o)
        \/ \E a \in Users : ByAdmin(a, u)

Spec == Init /\ [][Next]_vars
=============================================================================
