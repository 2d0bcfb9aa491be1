----------------------------- MODULE MCPlatform -----------------------------
(***************************************************************************)
(* Accounts and profiles of users, notices, reminders, the catalogue and   *)
(* its cache, addresses, the form of a booking and the assistant: they     *)
(* share no state, so `active` tells which of them moves, and their states *)
(* add up instead of multiplying.                                          *)
(***************************************************************************)
EXTENDS Passwords, Profiles, Notifications, Reminders, CatalogueCache, Catalogue, Addresses,
        BookingEntry, Assistant, MCForms

VARIABLE active

Parts == {"passwords", "profiles", "notices", "reminders", "cache", "catalogue", "addresses", "form",
          "assistant"}

\* Few codes while there are many tokens, and the other way round.
FewCredentials == Len(codes) + Len(tokens) <= 3

\* A draft is replaced by another only where a booking is made or an address added.
FewDrafts == kind \notin {"BOOKING", "ADDRESS"} => cached.number <= 1

\* Only an address is confirmed by two calls at once, and only a booking asks what the
\* message says.
FewCalls ==
    /\ kind # "ADDRESS" => \E c \in ToolCalls : \A d \in ToolCalls \ {c} : confirming[d] = NoCall
    /\ kind # "BOOKING" => clear = {}

Explored == FewCredentials /\ FewDrafts /\ FewCalls

\* The requests of most of them are the same two, of which only one service makes use.
Interchangeable == Permutations(SignIns)

Offered == {Package, Visit, Machines}
Times == {0, 1, 2, 3, 5, 6, 9, 21, 22, 25, 26, 27}

-----------------------------------------------------------------------------
\* The others stay in one of their initial states.
Init ==
    /\ active \in Parts
    /\ PasswordsInit /\ ProfilesInit /\ NotificationsInit /\ RemindersInit
    /\ CacheInit /\ CatalogueInit /\ AddressesInit /\ BookingEntryInit
    /\ AssistantInit
    /\ active # "cache" => version = Nothing
    /\ active # "addresses" => ActiveIn(address) = {}
    /\ active # "form" => now = 0
    /\ active # "assistant" => kind = "BOOKING"
    /\ active # "assistant" \/ kind # "BOOKING" => length = [m \in Utterances |-> 1]

Next ==
    /\ UNCHANGED active
    /\ \/ /\ active = "passwords" /\ PasswordsNext
          /\ UNCHANGED <<profileVars, noticeVars, reminderVars, cacheVars,
                         catalogueVars, addressVars, bookingEntryVars, assistantVars>>
       \/ /\ active = "profiles" /\ ProfilesNext
          /\ UNCHANGED <<passwordVars, noticeVars, reminderVars, cacheVars,
                         catalogueVars, addressVars, bookingEntryVars, assistantVars>>
       \/ /\ active = "notices" /\ NotificationsNext
          /\ UNCHANGED <<passwordVars, profileVars, reminderVars, cacheVars,
                         catalogueVars, addressVars, bookingEntryVars, assistantVars>>
       \/ /\ active = "reminders" /\ RemindersNext
          /\ UNCHANGED <<passwordVars, profileVars, noticeVars, cacheVars,
                         catalogueVars, addressVars, bookingEntryVars, assistantVars>>
       \/ /\ active = "cache" /\ CacheNext
          /\ UNCHANGED <<passwordVars, profileVars, noticeVars, reminderVars,
                         catalogueVars, addressVars, bookingEntryVars, assistantVars>>
       \/ /\ active = "catalogue" /\ CatalogueNext
          /\ UNCHANGED <<passwordVars, profileVars, noticeVars, reminderVars,
                         cacheVars, addressVars, bookingEntryVars, assistantVars>>
       \/ /\ active = "addresses" /\ AddressesNext
          /\ UNCHANGED <<passwordVars, profileVars, noticeVars, reminderVars,
                         cacheVars, catalogueVars, bookingEntryVars, assistantVars>>
       \/ /\ active = "form" /\ BookingEntryNext
          /\ UNCHANGED <<passwordVars, profileVars, noticeVars, reminderVars,
                         cacheVars, catalogueVars, addressVars, assistantVars>>
       \/ /\ active = "assistant" /\ AssistantNext
          /\ UNCHANGED <<passwordVars, profileVars, noticeVars, reminderVars,
                         cacheVars, catalogueVars, addressVars, bookingEntryVars>>

platformVars == <<active, passwordVars, profileVars, noticeVars, reminderVars,
                  cacheVars, catalogueVars, addressVars, bookingEntryVars, assistantVars>>

Spec == Init /\ [][Next]_platformVars

-----------------------------------------------------------------------------
\* What is booked costs what the tables of the service list for the things the form
\* names, each found by the key of its field, which the code does not use: a price
\* taken from the wrong table, or a surcharge charged once for several, differs.
PriceIsListed ==
    Booked => priced.subtotal = ListedPrice(form.offer, form.data, Len(built.sessions))

\* What a form accepted becomes is what it said: as many sessions as chosen, in time,
\* each thing priced, once, by its own table, and the pay drawn from that price.
FormsSafe ==
    /\ PackageIsSpread
    /\ PackageIsInTime
    /\ AcceptedIsPriced
    /\ PayAddsUp
    /\ PriceIsListed
=============================================================================
