------------------------------ MODULE Vouchers ------------------------------
(***************************************************************************)
(* Vouchers: issued up to a limit, kept in the customers' wallets, held    *)
(* and used by their bookings.  apps/vouchers/voucher_service.py, its      *)
(* serializers and views.                                                  *)
(*                                                                         *)
(* Claims lock the voucher's row; an administrator's edit does not: it     *)
(* reads the row, validates, and later writes every column of it back.     *)
(***************************************************************************)
EXTENDS Integers, FiniteSets

CONSTANTS
    Voucherees,         \* customers
    Vouchers,
    Holders,            \* bookings one customer may make
    IssuanceLimits,     \* limits an administrator may set
    NoLimit             \* issuance_limit is NULL

ASSUME VouchersAssumption ==
    /\ IsFiniteSet(Voucherees)
    /\ IssuanceLimits \subseteq Nat \ {0} /\ NoLimit \notin IssuanceLimits

VARIABLES
    voucherRow,     \* columns of each voucher: is_active, distribution_type, limit, issued_count
    window,         \* where now lies between start_at and end_at of each voucher
    wallet,         \* UserVoucher.status of each customer's voucher, NONE without a row
    holding,        \* what each booking of a customer does with which voucher
    edits,          \* edits of an administrator past their validation
    overtaken       \* vouchers issued while an edit of them was under way

voucherVars == <<voucherRow, window, wallet, holding, edits, overtaken>>

Distributions == {"PUBLIC", "CODE_ONLY", "ASSIGNED"}
Windows == {"UPCOMING", "OPEN", "ENDED"}
Rows == [active : BOOLEAN, kind : Distributions, limit : IssuanceLimits \cup {NoLimit},
         issued : 0..Cardinality(Voucherees)]
NoHolding == [state |-> "NONE", voucher |-> "none"]

Owners(v) == {c \in Voucherees : wallet[c][v] # "NONE"}

-----------------------------------------------------------------------------
(* Issuing.                                                                *)

\* Plausible bug: the last voucher is issued once too often.
HasRoom_OffByOne(v) ==
    voucherRow[v].limit # NoLimit => voucherRow[v].issued <= voucherRow[v].limit

HasRoom(v) == voucherRow[v].limit # NoLimit => voucherRow[v].issued < voucherRow[v].limit

VoucherClaimable(v) == voucherRow[v].active /\ window[v] = "OPEN" /\ HasRoom(v)

\* The public list of the customer, and its detail view.
ListedVoucher(c, v) ==
    /\ voucherRow[v].kind = "PUBLIC" /\ voucherRow[v].active
    /\ window[v] = "OPEN" /\ HasRoom(v)
    /\ wallet[c][v] = "NONE"

LifecycleStatus(v) ==
    CASE ~voucherRow[v].active -> "DISABLED"
      [] voucherRow[v].active /\ window[v] = "UPCOMING" -> "UPCOMING"
      [] voucherRow[v].active /\ window[v] = "ENDED" -> "EXPIRED"
      [] OTHER -> IF HasRoom(v) THEN "ACTIVE" ELSE "EXHAUSTED"

Issue(c, v) ==
    /\ VoucherClaimable(v)
    /\ wallet[c][v] = "NONE"
    /\ wallet' = [wallet EXCEPT ![c][v] = "AVAILABLE"]
    /\ voucherRow' = [voucherRow EXCEPT ![v].issued = @ + 1]
    /\ overtaken' = IF \E e \in edits : e.voucher = v THEN overtaken \cup {v} ELSE overtaken
    /\ UNCHANGED <<window, holding, edits>>

ClaimVoucherByCode(c, v) == voucherRow[v].kind \in {"PUBLIC", "CODE_ONLY"} /\ Issue(c, v)

AssignVoucher(c, v) == voucherRow[v].kind = "ASSIGNED" /\ Issue(c, v)

-----------------------------------------------------------------------------
(* Administration.                                                         *)

\* The serializer compares a new limit with the row as it was read.
EditIsValid(row, new) == new.limit # NoLimit => new.limit >= row.issued

BeginEdit(v, new) ==
    /\ edits = {}
    /\ new.issued = voucherRow[v].issued /\ new # voucherRow[v]
    /\ EditIsValid(voucherRow[v], new)
    /\ edits' = {[voucher |-> v, row |-> new]}
    /\ UNCHANGED <<voucherRow, window, wallet, holding, overtaken>>

\* save() without update_fields: issued_count is written back too.
FinishEdit(e) ==
    /\ e \in edits
    /\ edits' = edits \ {e}
    /\ voucherRow' = [voucherRow EXCEPT ![e.voucher] = e.row]
    /\ UNCHANGED <<window, wallet, holding, overtaken>>

\* update_fields names is_active only.
DisableVoucher(v) ==
    /\ voucherRow' = [voucherRow EXCEPT ![v].active = FALSE]
    /\ UNCHANGED <<window, wallet, holding, edits, overtaken>>

\* Time passes, or an edit moves start_at and end_at.
MoveWindow(v, w) ==
    /\ w # window[v]
    /\ window' = [window EXCEPT ![v] = w]
    /\ UNCHANGED <<voucherRow, wallet, holding, edits, overtaken>>

-----------------------------------------------------------------------------
(* Use.  Each action is part of a transaction of the booking that locks    *)
(* the row of the customer's voucher.                                      *)

\* What the app shows of a voucher in the wallet.
ShownUsable(c, v) == wallet[c][v] = "AVAILABLE" /\ voucherRow[v].active /\ window[v] = "OPEN"

\* The preview of the discount, and the check when the booking is made.
VoucherAccepted(c, v) ==
    /\ wallet[c][v] = "AVAILABLE"
    /\ voucherRow[v].active /\ window[v] = "OPEN"

SetWallet(c, v, status) == wallet' = [wallet EXCEPT ![c][v] = status]

\* A booking paid from the wallet uses the voucher at once.
ReserveVoucher(c, h, v, paid) ==
    /\ holding[c][h] = NoHolding
    /\ VoucherAccepted(c, v)
    /\ SetWallet(c, v, IF paid THEN "USED" ELSE "RESERVED")
    /\ holding' = [holding EXCEPT ![c][h] = [state |-> "LIVE", voucher |-> v]]
    /\ UNCHANGED <<voucherRow, window, edits, overtaken>>

\* Payment, the worker who accepts, the check-in: whichever comes first.
MarkVoucherUsed(c, h) ==
    LET v == holding[c][h].voucher
    IN  /\ holding[c][h].state = "LIVE"
        /\ wallet[c][v] = "RESERVED"
        /\ SetWallet(c, v, "USED")
        /\ UNCHANGED <<voucherRow, window, holding, edits, overtaken>>

\* The booking ends before any work: allow_used.  It never ends again.
ReleaseVoucher(c, h) ==
    LET v == holding[c][h].voucher
    IN  /\ holding[c][h].state = "LIVE"
        /\ wallet[c][v] \in {"RESERVED", "USED"}
        /\ SetWallet(c, v, "AVAILABLE")
        /\ holding' = [holding EXCEPT ![c][h].state = "ENDED"]
        /\ UNCHANGED <<voucherRow, window, edits, overtaken>>

-----------------------------------------------------------------------------
VouchersInit ==
    /\ voucherRow \in [Vouchers -> {r \in Rows : r.issued = 0 /\ r.active}]
    /\ window = [v \in Vouchers |-> "OPEN"]
    /\ wallet = [c \in Voucherees |-> [v \in Vouchers |-> "NONE"]]
    /\ holding = [c \in Voucherees |-> [h \in Holders |-> NoHolding]]
    /\ edits = {} /\ overtaken = {}

VouchersNext ==
    \/ \E c \in Voucherees, v \in Vouchers : ClaimVoucherByCode(c, v) \/ AssignVoucher(c, v)
    \/ \E v \in Vouchers, new \in Rows : BeginEdit(v, new)
    \/ \E e \in edits : FinishEdit(e)
    \/ \E v \in Vouchers : DisableVoucher(v)
    \/ \E v \in Vouchers, w \in Windows : MoveWindow(v, w)
    \/ \E c \in Voucherees, h \in Holders, v \in Vouchers, paid \in BOOLEAN :
           ReserveVoucher(c, h, v, paid)
    \/ \E c \in Voucherees, h \in Holders : MarkVoucherUsed(c, h) \/ ReleaseVoucher(c, h)

VouchersSpec == VouchersInit /\ [][VouchersNext]_voucherVars

-----------------------------------------------------------------------------
VouchersTypeOK ==
    /\ voucherRow \in [Vouchers -> Rows]
    /\ window \in [Vouchers -> Windows]
    /\ wallet \in [Voucherees -> [Vouchers -> {"NONE", "AVAILABLE", "RESERVED", "USED"}]]
    /\ \A c \in Voucherees, h \in Holders :
           holding[c][h] \in {NoHolding} \cup [state : {"LIVE", "ENDED"}, voucher : Vouchers]
    /\ \A e \in edits : e.voucher \in Vouchers /\ e.row \in Rows
    /\ overtaken \subseteq Vouchers

\* As long as nobody claimed a voucher while an administrator was editing it, the
\* counter is the number of wallets it is in and the quota is kept, through every
\* change of the quota.
QuotaKept ==
    \A v \in Vouchers \ overtaken :
        /\ voucherRow[v].issued = Cardinality(Owners(v))
        /\ voucherRow[v].limit # NoLimit => voucherRow[v].issued <= voucherRow[v].limit

\* What the app offers is true: a listed voucher can be claimed, one shown as active
\* is exactly one that can be issued, one shown as usable is accepted by a booking.
OffersAreTrue ==
    \A v \in Vouchers :
        /\ LifecycleStatus(v) = "ACTIVE" <=> VoucherClaimable(v)
        /\ \A c \in Voucherees :
               /\ ListedVoucher(c, v) => VoucherClaimable(v) /\ wallet[c][v] = "NONE"
               /\ ShownUsable(c, v) => VoucherAccepted(c, v)

\* A voucher is taken exactly while one live booking holds it: no two bookings share
\* one, and the end of an earlier booking frees nobody else's.
OneHolder ==
    \A c \in Voucherees, v \in Vouchers :
        Cardinality({h \in Holders : holding[c][h] = [state |-> "LIVE", voucher |-> v]})
            = IF wallet[c][v] \in {"RESERVED", "USED"} THEN 1 ELSE 0

\* The quota counts the wallets a voucher is in, the app offers what can be had, and
\* a voucher taken is held by exactly one live booking.
VouchersSafe ==
    /\ VouchersTypeOK
    /\ QuotaKept
    /\ OffersAreTrue
    /\ OneHolder
=============================================================================
