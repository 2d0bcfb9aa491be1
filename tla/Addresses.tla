------------------------------- MODULE Addresses -------------------------------
(***************************************************************************)
(* The addresses of one customer: apps/addresses/address_service.py and    *)
(* serializers.py, and the bookings made to them.                          *)
(*                                                                         *)
(* Every request but create loads its address before its transaction, and  *)
(* PATCH writes back the whole row it loaded.  A transaction holds the     *)
(* rows it has written or locked until it ends.  Only set_default_address  *)
(* locks the customer: it lists the active addresses, waits for them,      *)
(* takes their marks away and sets the new one.  The database allows one   *)
(* active default.                                                         *)
(***************************************************************************)
EXTENDS Integers

CONSTANTS
    Places,             \* addresses that may ever be created
    AddressRequests,    \* requests of the customer: each moves a place at most once
    Made                \* where an address is when it is created

VARIABLES
    address,        \* committed rows
    requested,      \* requests: kind, stage, what they loaded, and their transaction
    bookings,       \* open bookings: the address, and where it was when it was read
    crossed         \* addresses written by a request that had not seen their last change

addressVars == <<address, requested, bookings, crossed>>

\* `where` is what LOCATION_FIELDS say: ward code, street and coordinates.
NoAddress == [exists |-> FALSE, active |-> FALSE, default |-> FALSE, where |-> Made]

\* on: the address asked about; work: rows written or locked and not yet committed;
\* listed: rows a statement has found and waits for; mark: the one to become default.
NoRows == [p \in {} |-> NoAddress]
NoRequest ==
    [kind |-> "NONE", stage |-> "NONE", on |-> {}, seen |-> NoAddress, default |-> FALSE,
     work |-> NoRows, listed |-> {}, mark |-> {}]

ActiveIn(rows) == {p \in Places : rows[p].active}
IsDefault(row) == row.active /\ row.default
DefaultsIn(rows) == {p \in Places : IsDefault(rows[p])}

-----------------------------------------------------------------------------
(* Transactions.                                                           *)

Held(r) == DOMAIN requested[r].work
HeldByOthers(r) == UNION {Held(x) : x \in AddressRequests \ {r}}

\* What r reads: the committed rows and its own.
View(r) == [p \in Places |-> IF p \in Held(r) THEN requested[r].work[p] ELSE address[p]]

With(r, p, row) == [q \in Held(r) \cup {p} |-> IF q = p THEN row ELSE requested[r].work[q]]

\* customer_addresses_one_active_default: a row that another default stands against is
\* refused, or waits while the other is being written.
Unique(r, p, row) ==
    IsDefault(row) =>
        \A q \in Places \ {p} :
            /\ ~IsDefault(View(r)[q])
            /\ \A x \in AddressRequests \ {r} : q \in Held(x) => ~IsDefault(requested[x].work[q])

\* A request begins: what it has read is kept with it.
Begin(r, kind, on, seen, default, listed) ==
    /\ requested[r].kind = "NONE"
    /\ requested' = [requested EXCEPT ![r] =
           [NoRequest EXCEPT !.kind = kind, !.stage = "LOADED", !.on = on, !.seen = seen,
                             !.default = default, !.listed = listed]]
    /\ UNCHANGED <<address, bookings, crossed>>

Continue(r, stage, work, listed, mark) ==
    /\ requested' = [requested EXCEPT ![r].stage = stage, ![r].work = work,
                                      ![r].listed = listed, ![r].mark = mark]
    /\ UNCHANGED <<address, bookings, crossed>>

Ended == [NoRequest EXCEPT !.kind = "ENDED", !.stage = "ENDED"]

\* The transaction of r commits `work`.
CommitRows(r, work, missed) ==
    /\ requested' = [requested EXCEPT ![r] = Ended]
    /\ address' = [p \in Places |-> IF p \in DOMAIN work THEN work[p] ELSE address[p]]
    /\ crossed' = crossed \cup {p \in requested[r].on : missed \/ address[p] # requested[r].seen}
    /\ UNCHANGED bookings

\* A constraint, a deadlock or a process that stops ends it without an effect.
Refuse(r) ==
    /\ requested[r].stage \notin {"NONE", "ENDED"}
    /\ requested' = [requested EXCEPT ![r] = Ended]
    /\ UNCHANGED <<address, bookings, crossed>>

Ready(r, kind, stage) == requested[r].kind = kind /\ requested[r].stage = stage

\* get_object of each view; an edit may not take the default mark away.
LoadAddress(r, kind, p, default) ==
    address[p].active /\ Begin(r, kind, {p}, address[p], default, {})

-----------------------------------------------------------------------------
(* set_default_address: of an address that was asked for, just created,    *)
(* just edited, or takes the place of a deleted one.                       *)

MarkOf(r) == IF requested[r].kind = "DEFAULT" THEN requested[r].on ELSE requested[r].mark

HasCustomer(r) == requested[r].stage \in {"LOCKED", "CLEARED"}

\* The customer's lock, and the rows the update will be about.
LockCustomer(r) ==
    /\ Ready(r, "DEFAULT", "LOADED") \/ requested[r].stage = "WRITTEN"
    /\ \A x \in AddressRequests : ~HasCustomer(x)
    /\ Continue(r, "LOCKED", requested[r].work, ActiveIn(View(r)), MarkOf(r))

\* Once nobody else holds them: those that are still active lose the mark.
ClearDefaults(r) ==
    /\ requested[r].stage = "LOCKED"
    /\ requested[r].listed \cap HeldByOthers(r) = {}
    /\ LET cleared == requested[r].listed \cap ActiveIn(View(r))
       IN  Continue(r, "CLEARED",
                    [q \in Held(r) \cup cleared |->
                        IF q \in cleared THEN [View(r)[q] EXCEPT !.default = FALSE]
                        ELSE requested[r].work[q]],
                    {}, requested[r].mark)

\* The mark is saved whether the row is still active or not.
SaveDefault(r, p) ==
    /\ requested[r].stage = "CLEARED" /\ p \in requested[r].mark \ HeldByOthers(r)
    /\ LET row == [View(r)[p] EXCEPT !.default = TRUE]
       IN  Unique(r, p, row) /\ CommitRows(r, With(r, p, row), FALSE)

-----------------------------------------------------------------------------
(* create.                                                                 *)

ListForCreate(r, default) == Begin(r, "CREATE", {}, NoAddress, default, ActiveIn(address))

\* Plausible bug: exists() without select_for_update locks nothing.
LockListed_None(r, q) == requested[r].work

LockListed(r, q) == With(r, q, View(r)[q])

\* select_for_update().exists(): one that is still active is locked; else it is the first.
IsFirst(r) ==
    /\ Ready(r, "CREATE", "LOADED")
    /\ \/ \E q \in (requested[r].listed \cap ActiveIn(View(r))) \ HeldByOthers(r) :
              Continue(r, "COUNTED", LockListed(r, q), {}, {})
       \/ /\ requested[r].listed \cap ActiveIn(View(r)) = {}
          /\ requested' = [requested EXCEPT ![r].stage = "COUNTED", ![r].default = TRUE, ![r].listed = {}]
          /\ UNCHANGED <<address, bookings, crossed>>

Create(r, p) ==
    /\ Ready(r, "CREATE", "COUNTED")
    /\ ~address[p].exists /\ p \notin HeldByOthers(r)
    /\ LET work == With(r, p, [NoAddress EXCEPT !.exists = TRUE, !.active = TRUE])
       IN  IF requested[r].default THEN Continue(r, "WRITTEN", work, {}, {p}) ELSE CommitRows(r, work, FALSE)

-----------------------------------------------------------------------------
(* soft_delete_address.                                                    *)

Delete(r, p) ==
    /\ Ready(r, "DELETE", "LOADED") /\ p \in requested[r].on \ HeldByOthers(r)
    /\ LET work == With(r, p, [address[p] EXCEPT !.active = FALSE, !.default = FALSE])
       IN  IF requested[r].seen.default
           THEN Continue(r, "DELETED", work, ActiveIn(address) \ {p}, {})
           ELSE CommitRows(r, work, FALSE)

\* The last updated one of those listed, any one here, replaces the deleted default. One
\* that was created while it waited is not among them.
Replace(r) ==
    /\ requested[r].stage = "DELETED"
    /\ \/ \E q \in (requested[r].listed \cap ActiveIn(View(r))) \ HeldByOthers(r) :
              Continue(r, "WRITTEN", With(r, q, View(r)[q]), {}, {q})
       \/ /\ requested[r].listed \cap ActiveIn(View(r)) = {}
          /\ CommitRows(r, requested[r].work, ActiveIn(View(r)) # {})

-----------------------------------------------------------------------------
(* update.                                                                 *)

InUse(p) == \E b \in bookings : b.to = p

\* LOCATION_FIELDS may not change under an open booking.  Names of ward and city and the
\* province code may: to change only those is an EDIT.
MayMove(p) == ~InUse(p)

CheckMove(r, p) ==
    /\ Ready(r, "MOVE", "LOADED") /\ p \in requested[r].on
    /\ MayMove(p)
    /\ Continue(r, "CHECKED", NoRows, {}, {})

\* instance.save(): every field as it was loaded.
Written(r) == [requested[r].seen EXCEPT !.where = IF requested[r].kind = "MOVE" THEN r ELSE @]

\* Without the customer's lock; the default mark comes after the row.
Patch(r, p) ==
    /\ Ready(r, "EDIT", "LOADED") \/ Ready(r, "MOVE", "CHECKED")
    /\ p \in requested[r].on \ HeldByOthers(r)
    /\ Unique(r, p, Written(r))
    /\ IF requested[r].default THEN Continue(r, "WRITTEN", With(r, p, Written(r)), {}, {p})
       ELSE CommitRows(r, With(r, p, Written(r)), FALSE)

-----------------------------------------------------------------------------
(* create_booking reads the address without a lock, and commits later.     *)

BeingMoved(p) ==
    \E q \in AddressRequests :
        requested[q].kind = "MOVE" /\ p \in requested[q].on /\ requested[q].stage # "LOADED"

Book(r, p) ==
    /\ Ready(r, "BOOK", "LOADED") /\ p \in requested[r].on
    /\ bookings' = bookings \cup {[to |-> p, where |-> requested[r].seen.where]}
    /\ requested' = [requested EXCEPT ![r] = Ended]
    /\ crossed' = IF address[p].where # requested[r].seen.where \/ BeingMoved(p)
                  THEN crossed \cup {p} ELSE crossed
    /\ UNCHANGED address

EndBooking(b) ==
    /\ bookings' = bookings \ {b}
    /\ UNCHANGED <<address, requested, crossed>>

-----------------------------------------------------------------------------
\* Some addresses are there already, one of them the default.
AddressesInit ==
    /\ \E some \in SUBSET Places : \E first \in Places :
           /\ some # {} => first \in some
           /\ address = [p \in Places |->
                  IF p \in some THEN [exists |-> TRUE, active |-> TRUE, default |-> p = first, where |-> Made]
                  ELSE NoAddress]
    /\ requested = [r \in AddressRequests |-> NoRequest]
    /\ bookings = {} /\ crossed = {}

AddressesNext ==
    \/ \E r \in AddressRequests :
        \/ \E default \in BOOLEAN :
            \/ ListForCreate(r, default)
            \/ \E p \in Places, kind \in {"EDIT", "MOVE"} : LoadAddress(r, kind, p, default)
        \/ IsFirst(r) \/ Replace(r) \/ LockCustomer(r) \/ ClearDefaults(r) \/ Refuse(r)
        \/ \E p \in Places :
            \/ \E kind \in {"DELETE", "DEFAULT", "BOOK"} : LoadAddress(r, kind, p, FALSE)
            \/ Create(r, p) \/ Delete(r, p) \/ SaveDefault(r, p)
            \/ CheckMove(r, p) \/ Patch(r, p) \/ Book(r, p)
    \/ \E b \in bookings : EndBooking(b)

AddressesSpec == AddressesInit /\ [][AddressesNext]_addressVars

-----------------------------------------------------------------------------
\* A customer with active addresses has one default, however creations, deletions, edits
\* and choices of a default interleave: unless a request wrote an address that had changed
\* since it was loaded, or a deletion saw all it had listed deleted while it waited.
SomeDefault == crossed = {} => (ActiveIn(address) # {} => DefaultsIn(address) # {})

\* "The address is used by an unfinished booking, its place cannot change", as far as
\* LOCATION_FIELDS say: unless the booking was being created while the move was checked,
\* or an edit wrote an old row.
PlaceOfBookingStays ==
    \A b \in bookings : b.to \in crossed \/ address[b.to].where = b.where

\* A customer keeps a default address, and the place of an open booking does not move.
AddressesSafe ==
    /\ SomeDefault
    /\ PlaceOfBookingStays
=============================================================================
