------------------------------ MODULE BookingEntry ------------------------------
(***************************************************************************)
(* From a form to a booking: apps/bookings/service_data_validation.py,     *)
(* schedule_builder.py and the checks and the pricing of create_booking in *)
(* booking_service.py.                                                     *)
(*                                                                         *)
(* A service says which fields its form has and what their options cost;   *)
(* a form is checked against the fields, its sessions are built from the   *)
(* clock, checked against the clock again, and priced.  Prices are found   *)
(* by the options they name, never by the key of a field.                  *)
(***************************************************************************)
EXTENDS Integers, Sequences, SequencesExt, FiniteSets

CONSTANTS
    Offers,             \* services: fields and prices
    Forms(_),           \* forms that may be sent for an offer
    Hours,              \* hours of a day
    Opens, LastStart,   \* BOOKING_OPEN_TIME, BOOKING_LAST_START_TIME
    Lead,               \* BOOKING_MIN_LEAD_MINUTES, in hours
    Starts              \* times at which a request may arrive

NoKey == "no_key"       \* a field without options_by, and a missing value
Flat == "flat"          \* the group of the options that depend on nothing
Free == -1              \* no price was found

VARIABLES
    now,
    form,           \* the request: offer and data
    built,          \* its sessions, and when they were built
    priced          \* what was stored: subtotal, pay of a session, discount; or why not

bookingEntryVars == <<now, form, built, priced>>

-----------------------------------------------------------------------------
(* Validation.                                                             *)

\* _resolve_options and _resolve_flat_options.
ResolveOptions(field, data) ==
    IF field.by = NoKey THEN field.groups[Flat]
    ELSE IF data[field.by] \in DOMAIN field.groups THEN field.groups[data[field.by]] ELSE {}

ValidSelect(field, data) ==
    \/ data[field.key] = NoKey /\ ~field.required
    \/ data[field.key] \in ResolveOptions(field, data)

\* The selects of an item and its quantity, at least `min` (0 unless the schema says).
ValidItem(o, item) ==
    /\ \A f \in Range(o.itemFields) : ValidSelect(f, item.pick)
    /\ item.quantity \in o.least..o.most

ValidItems(o, d) ==
    /\ Len(d.items) \in o.minItems..o.maxItems
    /\ \A k \in DOMAIN d.items : ValidItem(o, d.items[k])

ValidateServiceData(o, d) ==
    /\ \A f \in Range(o.fields) : ValidSelect(f, d.pick)
    /\ Range(d.extras) \subseteq DOMAIN o.extras
    /\ o.weekly => Len(d.days) >= o.minDays /\ d.days # <<>>
    /\ ValidItems(o, d)

-----------------------------------------------------------------------------
(* Sessions.  Day 0 is a Monday; a time is a number of hours.              *)

Weekday(day) == day % 7
Session(day, d) == [start |-> day * Hours + d.at, end |-> day * Hours + d.at + d.length]

BuildOnce(o, d) == <<Session(d.on, d)>>

\* Plausible bug: a weekday that is named twice counts twice.
BuildWeekly_CountsTwice(o, d) ==
    LET days == Range(d.days)
        total == Len(d.days) * o.weeks[d.pick["package"]]
        today == now \div Hours
    IN  FoldLeft(LAMBDA list, k :
                     LET s == Session(today + k - 1, d)
                     IN  IF Len(list) < total /\ Weekday(today + k - 1) \in days /\ s.start >= now + Lead
                         THEN Append(list, s) ELSE list,
                 <<>>, [k \in 1..(14 * (o.weeks[d.pick["package"]] + 1)) |-> k])

\* Day after day from today: those of the chosen weekdays, until there are enough.
BuildWeekly(o, d) ==
    LET days == Range(d.days)
        total == Cardinality(days) * o.weeks[d.pick["package"]]
        today == now \div Hours
    IN  FoldLeft(LAMBDA list, k :
                     LET s == Session(today + k - 1, d)
                     IN  IF Len(list) < total /\ Weekday(today + k - 1) \in days /\ s.start >= now + Lead
                         THEN Append(list, s) ELSE list,
                 <<>>, [k \in 1..(7 * (o.weeks[d.pick["package"]] + 1) + 1) |-> k])

BuildSchedules(o, d) == IF o.weekly THEN BuildWeekly(o, d) ELSE BuildOnce(o, d)

InHours(s) == s.start < s.end /\ s.start % Hours \in Opens..LastStart

InTime(s) == s.start >= now + Lead

\* Several sessions are paid in advance.
ValidPaymentMethod(o, d, sessions) == d.method = "CASH" => ~o.weekly /\ Len(sessions) = 1

-----------------------------------------------------------------------------
(* Prices, in hundredths.                                                  *)

\* _q: half up.
Ratio(a, b) == (2 * a + b) \div (2 * b)

\* _find_field_by_option_values: the first field that offers one of the values.
FieldFor(fields, values, d, except) ==
    LET fits == {k \in DOMAIN fields : /\ fields[k].key # except
                                       /\ ResolveOptions(fields[k], d.pick) \cap values # {}}
    IN  IF fits = {} THEN NoKey ELSE fields[CHOOSE k \in fits : \A l \in fits : k <= l].key

Picked(o, values, d, except) ==
    LET key == FieldFor(o.fields, values, d, except) IN IF key = NoKey THEN NoKey ELSE d.pick[key]

PriceIn(table, value) == IF value \in DOMAIN table THEN table[value] ELSE Free

MatrixPrice(o, d) ==
    LET outer == Picked(o, DOMAIN o.matrix, d, NoKey)
    IN  IF outer \notin DOMAIN o.matrix THEN Free
        ELSE PriceIn(o.matrix[outer],
                     Picked(o, DOMAIN o.matrix[outer], d, FieldFor(o.fields, DOMAIN o.matrix, d, NoKey)))

BasePrice(o, d) ==
    IF o.matrix # <<>> THEN MatrixPrice(o, d)
    ELSE PriceIn(o.base, Picked(o, DOMAIN o.base, d, NoKey))

AtLeastZero(price) == IF price = Free THEN 0 ELSE price

\* get_unit_price_for_item: the values of the item's selects, in their order.
UnitPrice(o, item) ==
    PriceIn(o.unit, [k \in DOMAIN o.itemFields |-> item.pick[o.itemFields[k].key]])

ItemPrice(o, item) ==
    (UnitPrice(o, item) + (IF item.special THEN o.special ELSE 0)) * item.quantity

Total(prices) == FoldLeft(LAMBDA sum, p : sum + AtLeastZero(p), 0, prices)

PricedItems(o, d) == SelectSeq(d.items, LAMBDA item : UnitPrice(o, item) # Free)

\* calculate_booking_price.  An extra that is named twice counts twice.
CalculateBookingPrice(o, d) ==
    LET base == BasePrice(o, d)
        sum == AtLeastZero(base)
               + AtLeastZero(PriceIn(o.surcharge, Picked(o, DOMAIN o.surcharge, d, NoKey)))
               + Total([k \in DOMAIN d.extras |-> PriceIn(o.extras, d.extras[k])])
               + Total([k \in DOMAIN PricedItems(o, d) |-> ItemPrice(o, PricedItems(o, d)[k])])
    IN  IF base = Free /\ PricedItems(o, d) = <<>> /\ sum = 0 THEN Free ELSE sum

DiscountPercent(o, d) == AtLeastZero(PriceIn(o.discount, Picked(o, DOMAIN o.discount, d, NoKey)))

Subtotal(o, d, n) ==
    IF o.perSession
    THEN Ratio(CalculateBookingPrice(o, d) * n * (100 - DiscountPercent(o, d)), 100)
    ELSE CalculateBookingPrice(o, d)

\* price_breakdown['unit_price'].
PayOfSession(o, d, n) == IF o.perSession THEN Ratio(Subtotal(o, d, n), n) ELSE Free

-----------------------------------------------------------------------------
NotYet == [outcome |-> "NONE", subtotal |-> 0, pay |-> 0, total |-> 0]
Refused(why) == [NotYet EXCEPT !.outcome = why]

\* The form is checked and its sessions are built.
SubmitForm(o, d) ==
    /\ form = <<>>
    /\ form' = [offer |-> o, data |-> d]
    /\ IF d.delivery # o.delivery THEN built' = <<>> /\ priced' = Refused("ADDRESS")
       ELSE IF ~ValidateServiceData(o, d) THEN built' = <<>> /\ priced' = Refused("DATA")
       ELSE built' = [sessions |-> BuildSchedules(o, d), at |-> now] /\ priced' = NotYet
    /\ UNCHANGED now

\* The clock moves while the request is handled.
Tick ==
    /\ built # <<>> /\ priced = NotYet /\ now = built.at
    /\ now' = now + 1
    /\ UNCHANGED <<form, built, priced>>

\* The rest of create_booking; `off` is what a voucher takes off, none of five booking
\* codes may be free.
CreateBooking(off, codeFree) ==
    LET o == form.offer
        d == form.data
        list == built.sessions
        sub == Subtotal(o, d, Len(list))
    IN  /\ built # <<>> /\ priced = NotYet
        /\ priced' =
             IF list = <<>> THEN Refused("DATA")
             ELSE IF \E k \in DOMAIN list : ~InTime(list[k]) THEN Refused("LEAD")
             ELSE IF \E k \in DOMAIN list : ~InHours(list[k]) THEN Refused("HOURS")
             ELSE IF ~ValidPaymentMethod(o, d, list) THEN Refused("METHOD")
             ELSE IF CalculateBookingPrice(o, d) = Free THEN Refused("UNPRICED")
             ELSE IF sub - off <= 0 THEN Refused("NOTHING_TO_PAY")
             ELSE IF ~codeFree THEN Refused("CODE")
             ELSE [outcome |-> "BOOKED", subtotal |-> sub, total |-> sub - off,
                   pay |-> PayOfSession(o, d, Len(list))]
        /\ UNCHANGED <<now, form, built>>

BookingEntryInit ==
    /\ now \in Starts
    /\ form = <<>> /\ built = <<>> /\ priced = NotYet

BookingEntryNext ==
    \/ \E o \in Offers : \E d \in Forms(o) : SubmitForm(o, d)
    \/ Tick
    \/ \E off \in 0..1, codeFree \in BOOLEAN : CreateBooking(off, codeFree)

BookingEntrySpec == BookingEntryInit /\ [][BookingEntryNext]_bookingEntryVars

-----------------------------------------------------------------------------
Booked == priced.outcome = "BOOKED"

StartsOn(day) ==
    Cardinality({k \in DOMAIN built.sessions : Weekday(built.sessions[k].start \div Hours) = day})

\* A package brings every chosen weekday as many times as it has weeks, in order, and
\* leaves out no suitable day in between ("the right number of sessions").
PackageIsSpread ==
    built # <<>> /\ form.offer.weekly =>
        LET list == built.sessions
            d == form.data
        IN  /\ \A day \in Range(d.days) : StartsOn(day) = form.offer.weeks[d.pick["package"]]
            /\ \A k \in 2..Len(list) : list[k - 1].start < list[k].start
            /\ list[Len(list)].start - list[1].start <= 7 * Hours * form.offer.weeks[d.pick["package"]]

\* The sessions of a package are built far enough ahead: they are refused for the time
\* of the booking only when the clock has moved meanwhile.
PackageIsInTime == priced.outcome = "LEAD" /\ form.offer.weekly => now # built.at

\* What the form's check accepts has a price, and so has each of its items: for offers
\* whose tables name every option.
AcceptedIsPriced ==
    /\ priced.outcome # "UNPRICED"
    /\ Booked => PricedItems(form.offer, form.data) = form.data.items

\* What the workers of all sessions are paid from is the subtotal, up to a rounding of
\* half a hundredth for each ("the discount of a package is borne by the worker too").
PayAddsUp ==
    LET n == Len(built.sessions)
        gap == priced.pay * n - priced.subtotal
    IN  Booked /\ form.offer.perSession => 2 * gap \in -n..n
=============================================================================
