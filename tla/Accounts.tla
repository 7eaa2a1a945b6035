------------------------------ MODULE Accounts ------------------------------
(***************************************************************************)
(* Accounts: the personal rows of a user (addresses, carts and restock      *)
(* subscriptions), erasure, and the staff flags.  A request reads first and *)
(* writes later without locking what it read, and SQLAlchemy writes only    *)
(* the attributes that changed.                                             *)
(***************************************************************************)
EXTENDS Naturals, FiniteSets

CONSTANTS
  Users,
  RowIds,       \* ids of personal rows
  Requests,
  MaxRequests,  \* bound on the requests that begin
  None

VARIABLES
  user,         \* app_user rows: [email, phone, active, staff], None before registration
  row,          \* personal rows: [owner, kind, default], None where there is none
  job,          \* requests under way: [kind, on, item, change, seen, was, defaults, doomed]
  begun,
  erased,       \* accounts erased and not restored by staff since
  granted,      \* those of them staff gave the staff flag since
  left,         \* a staff account was erased by its owner
  overlapped    \* users and the staff list, when two requests were about them at once

accountVars ==
  <<user, row, job, begun, erased, granted, left, overlapped>>

Registered == {u \in Users : user[u] # None}
OwnedBy(u) == {i \in RowIds : row[i] # None /\ row[i].owner = u}
Defaults(u) == {i \in OwnedBy(u) : row[i].default}

\* list_staff, those that are active
ActiveStaff == {u \in Registered : user[u].staff /\ user[u].active}

NewUser(phone, staff) == [email |-> TRUE, phone |-> phone, active |-> TRUE, staff |-> staff]

Init ==
  /\ \E boss \in SUBSET Users :
       /\ boss # {}
       /\ user = [u \in Users |-> IF u \in boss THEN NewUser(FALSE, TRUE) ELSE None]
  /\ row = [i \in RowIds |-> None]
  /\ job = [q \in Requests |-> None]
  /\ begun = 0
  /\ erased = {} /\ granted = {} /\ left = FALSE /\ overlapped = {}

\* current_user: the account the access token names is there and active.
CurrentUser(u) == u \in Registered /\ user[u].active
CurrentStaff(u) == CurrentUser(u) /\ user[u].staff

\* Unique indexes make the checks and the insertion one.
Insert(u, phone, staff) ==
  /\ user[u] = None
  /\ user' = [user EXCEPT ![u] = NewUser(phone, staff)]
  /\ UNCHANGED <<row, job, begun, erased, granted, left, overlapped>>

\* register, and create_or_promote of an e-mail nobody has.
Register(u, phone) == Insert(u, phone, FALSE)
Hire(who, u, phone) == CurrentStaff(who) /\ Insert(u, phone, TRUE)
-----------------------------------------------------------------------------
\* Requests

\* Ids for new rows: no request knows them.
Free ==
  {i \in RowIds : row[i] = None /\ \A p \in Requests : job[p] # None => i # job[p].item /\ i \notin job[p].defaults}

PersonalKinds == {"create", "create default", "prefer", "unprefer", "remove", "cart", "phone", "erase"}

\* What a request about staff sets and clears.  update_staff sends each flag as it should
\* be, or not at all; create_or_promote of an account there is sets both, and the phone
\* where one is given.
NoChange == [up |-> {}, down |-> {}]
StaffChanges ==
  {c \in [up : SUBSET {"active", "staff"}, down : SUBSET {"active", "staff"}] : c.up \cap c.down = {}}
    \cup {[up |-> {"active", "staff", "phone"}, down |-> {}]}

\* _is_last_active_staff
LastActiveStaff(u) == ActiveStaff = {u}

\* What the routes let through: work on a row of one's own, and for staff a change that
\* leaves somebody a way in.
Accepted(kind, who, on, item, change) ==
  CASE kind \in {"prefer", "unprefer", "remove"} ->
         CurrentUser(who) /\ on = who /\ item \in OwnedBy(who) /\ row[item].kind = "address"
    [] kind \in {"create", "create default", "cart"} -> CurrentUser(who) /\ on = who /\ item \in Free
    [] kind \in {"phone", "erase"} -> CurrentUser(who) /\ on = who /\ item = None
    [] OTHER -> CurrentStaff(who) /\ on \in Registered /\ item = None
                  /\ (change.down # {} => ~LastActiveStaff(on))

\* What a request is about.
About(kind, on) ==
  {<<"user", on>>} \cup IF kind \in {"staff", "erase"} THEN {<<"staff", None>>} ELSE {}

\* A new default takes the flag from the others.
ClearsDefault(kind, item) ==
  kind = "create default" \/ (kind = "prefer" /\ ~row[item].default)

\* A request arrives, is let through and reads.
Begin(q, kind, who, on, item, change) ==
  /\ job[q] = None
  /\ begun < MaxRequests
  /\ Accepted(kind, who, on, item, change)
  /\ job' = [job EXCEPT ![q] =
       [kind |-> kind, on |-> on, item |-> item, change |-> change,
        seen |-> user[on], was |-> kind \in {"prefer", "unprefer"} /\ row[item].default,
        defaults |-> IF ClearsDefault(kind, item) THEN Defaults(on) ELSE {},
        doomed |-> None]]
  /\ begun' = begun + 1
  /\ overlapped' = overlapped \cup
       (About(kind, on) \cap
          UNION {About(job[p].kind, job[p].on) : p \in {p \in Requests : job[p] # None}})
  /\ UNCHANGED <<user, row, erased, granted, left>>

\* The request ends without a trace: an error, a crash, or a row that is gone.
Fail(q) ==
  /\ job[q] # None
  /\ job' = [job EXCEPT ![q] = None]
  /\ UNCHANGED <<user, row, begun, erased, granted, left, overlapped>>

Ends(q) == job' = [job EXCEPT ![q] = None]

\* Rows another request has deleted and not committed yet.
Locked == UNION {job[p].doomed : p \in {p \in Requests : job[p] # None /\ job[p].doomed # None}}

\* create_address, update_address and delete_address: clear_default takes the flag from the
\* rows it found.
AddressRows(q) ==
  LET j == job[q]
      written ==
        CASE j.kind = "remove" -> None
          [] j.kind \in {"prefer", "unprefer"} ->
               [row[j.item] EXCEPT !.default = IF j.was = (j.kind = "prefer") THEN @ ELSE ~j.was]
          [] OTHER -> [owner |-> j.on, kind |-> "address", default |-> j.kind = "create default"]
  IN  [i \in RowIds |->
         IF i = j.item THEN written
         ELSE IF i \in j.defaults THEN [row[i] EXCEPT !.default = FALSE] ELSE row[i]]

WriteAddress(q) ==
  LET j == job[q]
      touched == j.defaults \cup (IF j.kind \in {"create", "create default"} THEN {} ELSE {j.item})
  IN  /\ j # None /\ j.kind \in {"create", "create default", "prefer", "unprefer", "remove"}
      /\ touched \cap Locked = {}
      /\ \A i \in touched : row[i] # None
      /\ row' = AddressRows(q)
      /\ Ends(q)
      /\ UNCHANGED <<user, begun, erased, granted, left, overlapped>>

\* A cart or a restock subscription of the user's.
WriteCart(q) ==
  LET j == job[q]
  IN  /\ j # None /\ j.kind = "cart"
      /\ row' = [row EXCEPT ![j.item] = [owner |-> j.on, kind |-> "cart", default |-> FALSE]]
      /\ Ends(q)
      /\ UNCHANGED <<user, begun, erased, granted, left, overlapped>>

\* update_me: the phone number.
UpdateMe(q) ==
  /\ job[q] # None /\ job[q].kind = "phone"
  /\ user' = [user EXCEPT ![job[q].on].phone = ~job[q].seen.phone]
  /\ Ends(q)
  /\ UNCHANGED <<row, begun, erased, granted, left, overlapped>>

\* Mutant: carts and subscriptions are forgotten.
PurgedAddresses(u) == {i \in OwnedBy(u) : row[i].kind = "address"}

\* delete_all_addresses and the two delete_all_for_user
Purged(u) == OwnedBy(u)

\* anonymize_account deletes the rows there are.
Purge(q) ==
  /\ job[q] # None /\ job[q].kind = "erase" /\ job[q].doomed = None
  /\ Purged(job[q].on) \cap Locked = {}
  /\ job' = [job EXCEPT ![q].doomed = Purged(job[q].on)]
  /\ UNCHANGED <<user, row, begun, erased, granted, left, overlapped>>

\* What the erasure leaves of the account; an attribute that had the new value when it was
\* read is not written.
Scrubbed(u, seen) ==
  [email |-> FALSE, active |-> IF seen.active THEN FALSE ELSE user[u].active,
   phone |-> IF seen.phone THEN FALSE ELSE user[u].phone,
   staff |-> IF seen.staff THEN FALSE ELSE user[u].staff]

Anonymize(q) ==
  LET u == job[q].on
  IN  /\ job[q] # None /\ job[q].kind = "erase" /\ job[q].doomed # None
      /\ row' = [i \in RowIds |-> IF i \in job[q].doomed THEN None ELSE row[i]]
      /\ user' = [user EXCEPT ![u] = Scrubbed(u, job[q].seen)]
      /\ erased' = erased \cup {u}
      /\ granted' = granted \ {u}
      /\ left' = (left \/ job[q].seen.staff)
      /\ Ends(q)
      /\ UNCHANGED <<begun, overlapped>>

\* Of the attributes a change names, those written: again a flag only when it differs from
\* the one read; the phone is a new one.
Written(change, seen) ==
  {c \in change.up \cup change.down : c = "phone" \/ seen[c] # (c \in change.up)}

StaffFlags(u, change, seen) ==
  LET written == Written(change, seen)
  IN  [email |-> user[u].email,
       phone |-> IF "phone" \in written THEN TRUE ELSE user[u].phone,
       active |-> IF "active" \in written THEN "active" \in change.up ELSE user[u].active,
       staff |-> IF "staff" \in written THEN "staff" \in change.up ELSE user[u].staff]

\* update_staff, and create_or_promote of an account there is.
UpdateStaff(q) ==
  LET u == job[q].on
      change == job[q].change
  IN  /\ job[q] # None /\ job[q].kind = "staff"
      /\ user' = [user EXCEPT ![u] = StaffFlags(u, change, job[q].seen)]
      /\ erased' = IF "active" \in change.up THEN erased \ {u} ELSE erased
      /\ granted' = (IF "staff" \in change.up THEN granted \cup {u} ELSE granted) \cap erased'
      /\ Ends(q)
      /\ UNCHANGED <<row, begun, left, overlapped>>

Next ==
  \/ \E u \in Users, phone \in BOOLEAN : Register(u, phone) \/ \E who \in Users : Hire(who, u, phone)
  \/ \E q \in Requests, u \in Users, kind \in PersonalKinds, i \in RowIds \cup {None} :
       Begin(q, kind, u, u, i, NoChange)
  \/ \E q \in Requests, u, v \in Users, c \in StaffChanges : Begin(q, "staff", u, v, None, c)
  \/ \E q \in Requests :
       \/ Fail(q) \/ WriteAddress(q) \/ WriteCart(q)
       \/ UpdateMe(q) \/ Purge(q) \/ Anonymize(q) \/ UpdateStaff(q)

Spec == Init /\ [][Next]_accountVars
-----------------------------------------------------------------------------
\* Properties

\* Personal rows belong to accounts, and only an address is a default.
TypeOK ==
  /\ \A i \in RowIds : row[i] # None =>
       row[i].owner \in Registered /\ (row[i].default => row[i].kind = "address")
  /\ begun \in 0 .. MaxRequests

\* Of an erased account nothing personal is left and nobody acts for it until staff make it
\* active again, and it is staff only where staff gave it the flag anew, which update_staff
\* does to an account that is off; unless a request about the same account was under way
\* during the erasure.
ErasedStaysErased ==
  \A u \in erased : <<"user", u>> \notin overlapped =>
    OwnedBy(u) = {} /\ ~user[u].email /\ ~user[u].phone /\ ~CurrentUser(u)
      /\ (user[u].staff => u \in granted)

\* A user has one default address at most, unless two requests of the user overlapped.
OneDefault == \A u \in Users : <<"user", u>> \notin overlapped => Cardinality(Defaults(u)) =< 1

\* Somebody can enter the back office, unless staff requests overlapped or a member of
\* staff erased the own account.
AWayIn == <<"staff", None>> \notin overlapped /\ ~left => ActiveStaff # {}
=============================================================================
