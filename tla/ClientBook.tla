----------------------------- MODULE ClientBook -----------------------------
(***************************************************************************)
(* What the client endpoints promise: each company keeps a book of client  *)
(* entries, every request changes one live entry in one stroke, the phone  *)
(* numbers of live entries are distinct within a company, and an entry is  *)
(* only ever handed to a colleague who is active at that moment.           *)
(***************************************************************************)
EXTENDS Sequences

CONSTANTS Ids, Companies, Staff, Phones, Statuses, Blank

VARIABLES
    book,       \* the entry under each id, or Blank
    changes,    \* the status changes, in the order they were written down
    available   \* the staff of each company who may be given clients

vars == <<book, changes, available>>

Entry == [org: Companies, phone: Phones, owner: Staff, status: Statuses,
          archived: BOOLEAN]

Init ==
    /\ book = [c \in Ids |-> Blank]
    /\ changes = << >>
    /\ available = [o \in Companies |-> {}]

Live(c) == book[c] # Blank /\ ~ book[c].archived

PhoneFree(c, entry) ==
    \A d \in Ids \ {c} :
        Live(d) => <<book[d].org, book[d].phone>> # <<entry.org, entry.phone>>

MayOwn(u, o) == u \in available[o]

Write(c, entry) == book' = [book EXCEPT ![c] = entry]

Open(c, entry) ==
    /\ book[c] = Blank
    /\ ~ entry.archived
    /\ MayOwn(entry.owner, entry.org)
    /\ PhoneFree(c, entry)
    /\ Write(c, entry)
    /\ UNCHANGED <<changes, available>>

Edit(c, entry) ==
    /\ Live(c)
    /\ entry.org = book[c].org /\ ~ entry.archived
    /\ entry.owner # book[c].owner => MayOwn(entry.owner, entry.org)
    /\ PhoneFree(c, entry)
    /\ Write(c, entry)
    /\ UNCHANGED <<changes, available>>

Close(c) ==
    /\ Live(c)
    /\ Write(c, [book[c] EXCEPT !.archived = TRUE])
    /\ UNCHANGED <<changes, available>>

ChangeStatus(c, s) ==
    /\ Live(c)
    /\ s # book[c].status
    /\ Write(c, [book[c] EXCEPT !.status = s])
    /\ changes' = Append(changes, [client |-> c, old |-> book[c].status, new |-> s])
    /\ UNCHANGED available

StaffChanges ==
    /\ available' \in [Companies -> SUBSET Staff]
    /\ UNCHANGED <<book, changes>>

Next ==
    \/ StaffChanges
    \/ \E c \in Ids :
          \/ \E entry \in Entry : Open(c, entry) \/ Edit(c, entry)
          \/ Close(c)
          \/ \E s \in Statuses : ChangeStatus(c, s)

Spec == Init /\ [][Next]_vars
=============================================================================
