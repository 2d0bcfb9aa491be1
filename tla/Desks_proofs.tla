--------------------------- MODULE Desks_proofs -----------------------------
(***************************************************************************)
(* Proofs about what customers are rewarded with, and what workers take.   *)
(*                                                                         *)
(* Vouchers: the quota, the offers and the one booking that holds a        *)
(*   voucher. An administrator's edit writes back the counter it read: the *)
(*   invariant follows the edits under way: a row about to be written is   *)
(*   valid and has the counter of the table, unless a claim overtook it.   *)
(* VipRewards: the thanks of a month, and the locks behind them. A batch   *)
(*   is safe while others move because it holds the rows of all its        *)
(*   customers and of its voucher: nobody else can thank them, or issue it.*)
(*   Nobody waits for ever because the customers are locked by ascending   *)
(*   id: among requests that wait for each other, the one that wants the   *)
(*   greatest id would wait for one that wants a greater id.               *)
(* WorkerDesk: a session is somebody's who was accepted for it, and what   *)
(*   is linked to the calendar is one of its acceptances (DeskInvariant).  *)
(* WorkerDirectory: what a save of a worker's areas has done so far is     *)
(*   accounted for by what it saw when it began and by the saves that have *)
(*   been committed since (SaveSound), however many there are.             *)
(* WorkerIncome: what a query of the summary did not find any more is what *)
(*   a later one finds (ReadsAgree). The bars of the chart add up, and the *)
(*   months meet, because a sum does not depend on the order (TotalWithout)*)
(*   nor on how its terms are divided (BarsAddUp).                         *)
(* PaymentHistory: what a payment shows of its money is what the ledger    *)
(*   has of it (LedgerFits), at every moment, so that a screen read while  *)
(*   nothing moved adds up: its rows are divided by payment (BarsAddUp).   *)
(***************************************************************************)
EXTENDS Vouchers, VipRewards, WorkerDesk, WorkerDirectory, WorkerIncome, PaymentHistory, SequenceTheorems,
        FiniteSetTheorems, WellFoundedInduction, TLAPS

-----------------------------------------------------------------------------
(* Vouchers: the inductive invariant *)

\* The shapes behind VouchersTypeOK.
VoucherShape ==
    /\ VouchersTypeOK
    /\ holding \in [Voucherees ->
           [Holders -> {NoHolding} \cup [state : {"LIVE", "ENDED"}, voucher : Vouchers]]]

\* The counter never runs ahead of the wallets, nor does one that an edit will write back.
IssuedIsOwned ==
    /\ \A v \in Vouchers : voucherRow[v].issued <= Cardinality(Owners(v))
    /\ \A e \in edits : e.row.issued <= Cardinality(Owners(e.voucher))

\* An edit of a voucher that was not issued meanwhile is still valid.
EditsAgree ==
    \A e \in edits : e.voucher \notin overtaken =>
        e.row.issued = voucherRow[e.voucher].issued /\ EditIsValid(e.row, e.row)

\* The live bookings that hold the customer's voucher: one if it is taken, else none.
Live(c, v) == {h \in Holders : holding[c][h] = [state |-> "LIVE", voucher |-> v]}
HeldByOne ==
    \A c \in Voucherees, v \in Vouchers :
        IF wallet[c][v] \in {"RESERVED", "USED"} THEN \E h \in Holders : Live(c, v) = {h}
                                                 ELSE Live(c, v) = {}

VoucherInvariant == VoucherShape /\ IssuedIsOwned /\ EditsAgree /\ QuotaKept /\ HeldByOne

-----------------------------------------------------------------------------
(* Vouchers: each step *)

\* The owners of a voucher can be counted.
LEMMA OwnersCount ==
    ASSUME NEW v
    PROVE  /\ IsFiniteSet(Owners(v)) /\ Cardinality(Owners(v)) \in Nat
           /\ Cardinality(Owners(v)) <= Cardinality(Voucherees)
           /\ Cardinality(Voucherees) \in Nat
<1>1. Owners(v) \subseteq Voucherees /\ IsFiniteSet(Voucherees)
  BY VouchersAssumption DEF Owners
<1> QED BY <1>1, FS_Subset, FS_CardinalityType

\* What a row holds, and what may stand in a wallet.
Statuses == {"NONE", "AVAILABLE", "RESERVED", "USED"}
LEMMA RowFields ==
    ASSUME VoucherInvariant, NEW v \in Vouchers
    PROVE  /\ voucherRow[v] \in Rows /\ voucherRow[v].issued \in Nat
           /\ voucherRow[v].limit \in Nat \cup {NoLimit}
           /\ \A c \in Voucherees : wallet[c][v] \in Statuses
<1>1. /\ voucherRow[v] \in Rows
      /\ \A c \in Voucherees : wallet[c][v] \in Statuses
  BY DEF VoucherInvariant, VoucherShape, VouchersTypeOK, Statuses
<1>2. voucherRow[v].issued \in 0..Cardinality(Voucherees)
      /\ voucherRow[v].limit \in IssuanceLimits \cup {NoLimit}
  BY <1>1 DEF Rows
<1>3. Cardinality(Voucherees) \in Nat /\ \A l \in IssuanceLimits : l \in Nat
  BY OwnersCount, VouchersAssumption
<1> QED BY <1>1, <1>2, <1>3

\* A voucher is issued: one more owner, counted under the lock of its row.
LEMMA VoucherIssue ==
    ASSUME VoucherInvariant, NEW c \in Voucherees, NEW v \in Vouchers, Issue(c, v)
    PROVE  VoucherInvariant'
<1>1. /\ HasRoom(v) /\ wallet[c][v] = "NONE"
      /\ wallet' = [wallet EXCEPT ![c][v] = "AVAILABLE"]
      /\ voucherRow' = [voucherRow EXCEPT ![v].issued = @ + 1]
      /\ overtaken' = IF \E e \in edits : e.voucher = v THEN overtaken \cup {v} ELSE overtaken
      /\ UNCHANGED <<window, holding, edits>>
  BY DEF Issue, VoucherClaimable
<1>2. /\ \A d \in Voucherees, u \in Vouchers :
             wallet'[d][u] = IF d = c /\ u = v THEN "AVAILABLE" ELSE wallet[d][u]
      /\ wallet' \in [Voucherees -> [Vouchers -> Statuses]]
  BY <1>1 DEF VoucherInvariant, VoucherShape, VouchersTypeOK, Statuses
<1>3. /\ \A u \in Vouchers \ {v} : voucherRow'[u] = voucherRow[u]
      /\ voucherRow'[v] = [voucherRow[v] EXCEPT !.issued = @ + 1]
  BY <1>1 DEF VoucherInvariant, VoucherShape, VouchersTypeOK
<1>4. /\ voucherRow'[v].issued = voucherRow[v].issued + 1
      /\ voucherRow'[v].limit = voucherRow[v].limit
  BY <1>3, RowFields DEF Rows
<1>5. /\ Owners(v)' = Owners(v) \cup {c} /\ c \notin Owners(v)
      /\ \A u \in Vouchers \ {v} : Owners(u)' = Owners(u)
  BY <1>1, <1>2 DEF Owners
<1>6. Cardinality(Owners(v)') = Cardinality(Owners(v)) + 1
  BY <1>5, OwnersCount, FS_AddElement
<1>7. /\ Cardinality(Owners(v)) \in Nat /\ Cardinality(Owners(v)') <= Cardinality(Voucherees)
      /\ Cardinality(Voucherees) \in Nat
      /\ voucherRow[v].issued \in Nat /\ voucherRow[v].issued <= Cardinality(Owners(v))
  <2>1. Owners(v)' \subseteq Voucherees
    BY DEF Owners
  <2>2. Cardinality(Owners(v)') <= Cardinality(Voucherees)
    BY <2>1, FS_Subset, VouchersAssumption
  <2> QED BY <2>2, OwnersCount, RowFields DEF VoucherInvariant, IssuedIsOwned
<1>8. voucherRow' \in [Vouchers -> Rows]
  <2>1. voucherRow'[v] \in Rows
    <3>1. voucherRow[v].issued + 1 \in 0..Cardinality(Voucherees)
      BY <1>6, <1>7
    <3>2. voucherRow[v] \in Rows
      BY RowFields
    <3> QED BY <1>3, <3>1, <3>2 DEF Rows
  <2>2. voucherRow' = [voucherRow EXCEPT ![v] = voucherRow'[v]] /\ voucherRow \in [Vouchers -> Rows]
    BY <1>1, <1>3 DEF VoucherInvariant, VoucherShape, VouchersTypeOK
  <2> QED BY <2>1, <2>2
<1>9. VoucherShape'
  BY <1>1, <1>2, <1>8 DEF VoucherInvariant, VoucherShape, VouchersTypeOK, Statuses
<1>10. IssuedIsOwned'
  <2>1. \A u \in Vouchers : voucherRow'[u].issued <= Cardinality(Owners(u)')
    <3>1. ASSUME NEW u \in Vouchers, u # v PROVE voucherRow'[u].issued <= Cardinality(Owners(u)')
      BY <1>3, <1>5, <3>1 DEF VoucherInvariant, IssuedIsOwned
    <3>2. voucherRow'[v].issued <= Cardinality(Owners(v)')
      BY <1>4, <1>6, <1>7
    <3> QED BY <3>1, <3>2
  <2>2. ASSUME NEW e \in edits PROVE e.row.issued <= Cardinality(Owners(e.voucher)')
    <3>1. e.voucher \in Vouchers /\ e.row.issued \in Nat
      <4>1. e.voucher \in Vouchers /\ e.row \in Rows
        BY DEF VoucherInvariant, VoucherShape, VouchersTypeOK
      <4> QED BY <4>1, OwnersCount DEF Rows
    <3>2. e.row.issued <= Cardinality(Owners(e.voucher))
      BY DEF VoucherInvariant, IssuedIsOwned
    <3> QED BY <1>5, <1>6, <1>7, <3>1, <3>2
  <2> QED BY <1>1, <2>1, <2>2 DEF IssuedIsOwned
<1>11. QuotaKept'
  <2> SUFFICES ASSUME NEW u \in Vouchers \ overtaken'
               PROVE  /\ voucherRow'[u].issued = Cardinality(Owners(u)')
                      /\ voucherRow'[u].limit # NoLimit => voucherRow'[u].issued <= voucherRow'[u].limit
    BY DEF QuotaKept
  <2>1. u \in Vouchers \ overtaken
    BY <1>1
  <2>2. CASE u # v
    BY <1>3, <1>5, <2>1, <2>2 DEF VoucherInvariant, QuotaKept
  <2>3. CASE u = v
    <3>1. voucherRow[v].issued = Cardinality(Owners(v))
      BY <2>1, <2>3 DEF VoucherInvariant, QuotaKept
    <3>2. voucherRow[v].limit # NoLimit =>
              voucherRow[v].issued < voucherRow[v].limit /\ voucherRow[v].limit \in Nat
      BY <1>1, RowFields DEF HasRoom
    <3> QED BY <1>4, <1>6, <1>7, <2>3, <3>1, <3>2
  <2> QED BY <2>2, <2>3
<1>12. EditsAgree'
  BY <1>1, <1>3 DEF VoucherInvariant, EditsAgree, EditIsValid, VoucherShape, VouchersTypeOK
<1>13. HeldByOne'
  BY <1>1, <1>2 DEF VoucherInvariant, HeldByOne, Live
<1> QED BY <1>9, <1>10, <1>11, <1>12, <1>13 DEF VoucherInvariant

\* An administrator edits a voucher, and writes the row back as it was read.
LEMMA VoucherEdit ==
    ASSUME VoucherInvariant,
           \/ \E v \in Vouchers, new \in Rows : BeginEdit(v, new)
           \/ \E e \in edits : FinishEdit(e)
    PROVE  VoucherInvariant'
<1>1. ASSUME NEW v \in Vouchers, NEW new \in Rows, BeginEdit(v, new) PROVE VoucherInvariant'
  <2>1. /\ edits' = {[voucher |-> v, row |-> new]}
        /\ new.issued = voucherRow[v].issued /\ EditIsValid(new, new)
        /\ UNCHANGED <<voucherRow, window, wallet, holding, overtaken>>
    BY <1>1 DEF BeginEdit, EditIsValid
  <2>2. \A e \in edits' : e.voucher = v /\ e.row = new
    BY <2>1
  <2>3. VoucherShape'
    BY <2>1, <2>2 DEF VoucherInvariant, VoucherShape, VouchersTypeOK
  <2>5. QuotaKept' /\ HeldByOne'
    BY <2>1 DEF VoucherInvariant, QuotaKept, Owners, HeldByOne, Live
  <2>4. IssuedIsOwned' /\ EditsAgree'
    BY <2>1, <2>2 DEF VoucherInvariant, IssuedIsOwned, Owners, EditsAgree, EditIsValid
  <2> QED BY <2>3, <2>4, <2>5 DEF VoucherInvariant
<1>2. ASSUME NEW e \in edits, FinishEdit(e) PROVE VoucherInvariant'
  <2>1. /\ edits' = edits \ {e} /\ voucherRow' = [voucherRow EXCEPT ![e.voucher] = e.row]
        /\ UNCHANGED <<window, wallet, holding, overtaken>>
        /\ e.voucher \in Vouchers /\ e.row \in Rows
    BY <1>2 DEF FinishEdit, VoucherInvariant, VoucherShape, VouchersTypeOK
  <2>2. \A u \in Vouchers : voucherRow'[u] = IF u = e.voucher THEN e.row ELSE voucherRow[u]
    BY <2>1 DEF VoucherInvariant, VoucherShape, VouchersTypeOK
  <2>3. VoucherShape' /\ HeldByOne'
    BY <2>1 DEF VoucherInvariant, VoucherShape, VouchersTypeOK, HeldByOne, Live
  <2>4. IssuedIsOwned'
    BY <2>1, <2>2 DEF VoucherInvariant, IssuedIsOwned, Owners
  <2>5. QuotaKept'
    <3> SUFFICES ASSUME NEW u \in Vouchers \ overtaken
                 PROVE  /\ voucherRow'[u].issued = Cardinality(Owners(u))
                        /\ voucherRow'[u].limit # NoLimit => voucherRow'[u].issued <= voucherRow'[u].limit
      BY <2>1 DEF QuotaKept, Owners
    <3>1. CASE u # e.voucher
      BY <2>2, <3>1 DEF VoucherInvariant, QuotaKept
    <3>2. CASE u = e.voucher
      BY <2>2, <3>2 DEF VoucherInvariant, QuotaKept, EditsAgree, EditIsValid
    <3> QED BY <3>1, <3>2
  <2>6. EditsAgree'
    BY <2>1, <2>2 DEF VoucherInvariant, EditsAgree, VoucherShape, VouchersTypeOK
  <2> QED BY <2>3, <2>4, <2>5, <2>6 DEF VoucherInvariant
<1> QED BY <1>1, <1>2

\* A voucher is disabled, or its window moves.
LEMMA VoucherChanges ==
    ASSUME VoucherInvariant,
           \/ \E v \in Vouchers : DisableVoucher(v)
           \/ \E v \in Vouchers, w \in Windows : MoveWindow(v, w)
           \/ UNCHANGED voucherVars
    PROVE  VoucherInvariant'
<1> DEFINE Only ==
      /\ UNCHANGED <<wallet, holding, edits, overtaken>> /\ window' \in [Vouchers -> Windows]
      /\ voucherRow' \in [Vouchers -> Rows]
      /\ \A v \in Vouchers : /\ voucherRow'[v].issued = voucherRow[v].issued
                             /\ voucherRow'[v].limit = voucherRow[v].limit
<1>1. Only
  <2>1. ASSUME NEW v \in Vouchers, DisableVoucher(v) PROVE Only
    <3>1. /\ \A u \in Vouchers : voucherRow[u] \in Rows
          /\ voucherRow' = [voucherRow EXCEPT ![v].active = FALSE]
          /\ voucherRow \in [Vouchers -> Rows] /\ window \in [Vouchers -> Windows]
          /\ UNCHANGED <<window, wallet, holding, edits, overtaken>>
      BY <2>1 DEF DisableVoucher, VoucherInvariant, VoucherShape, VouchersTypeOK
    <3>2. /\ [voucherRow[v] EXCEPT !.active = FALSE] \in Rows
          /\ [voucherRow[v] EXCEPT !.active = FALSE].issued = voucherRow[v].issued
          /\ [voucherRow[v] EXCEPT !.active = FALSE].limit = voucherRow[v].limit
      BY <3>1 DEF Rows
    <3>3. voucherRow' = [voucherRow EXCEPT ![v] = [voucherRow[v] EXCEPT !.active = FALSE]]
      BY <3>1
    <3> QED BY <3>1, <3>2, <3>3
  <2>2. ASSUME NEW v \in Vouchers, NEW w \in Windows, MoveWindow(v, w) PROVE Only
    BY <2>2 DEF MoveWindow, VoucherInvariant, VoucherShape, VouchersTypeOK
  <2>3. CASE UNCHANGED voucherVars
    BY <2>3 DEF voucherVars, VoucherInvariant, VoucherShape, VouchersTypeOK
  <2> HIDE DEF Only
  <2> QED BY <2>1, <2>2, <2>3
<1>2. VoucherShape' /\ HeldByOne'
  BY <1>1 DEF VoucherInvariant, VoucherShape, VouchersTypeOK, HeldByOne, Live
<1>3. IssuedIsOwned' /\ QuotaKept'
  BY <1>1 DEF VoucherInvariant, IssuedIsOwned, QuotaKept, Owners
<1>4. EditsAgree'
  BY <1>1 DEF VoucherInvariant, EditsAgree, EditIsValid, VoucherShape, VouchersTypeOK
<1> QED BY <1>2, <1>3, <1>4 DEF VoucherInvariant

\* A booking takes, uses or gives back the voucher of its customer.
LEMMA VoucherUse ==
    ASSUME VoucherInvariant, NEW c \in Voucherees, NEW v \in Vouchers, NEW status \in Statuses \ {"NONE"},
           NEW h \in Holders, wallet[c][v] # "NONE", SetWallet(c, v, status),
           UNCHANGED <<voucherRow, window, edits, overtaken>>,
           \/ /\ holding' = holding
              /\ wallet[c][v] \in {"RESERVED", "USED"} /\ status \in {"RESERVED", "USED"}
           \/ /\ holding[c][h] = NoHolding
              /\ holding' = [holding EXCEPT ![c][h] = [state |-> "LIVE", voucher |-> v]]
              /\ wallet[c][v] \notin {"RESERVED", "USED"} /\ status \in {"RESERVED", "USED"}
           \/ /\ holding[c][h] = [state |-> "LIVE", voucher |-> v]
              /\ holding' = [holding EXCEPT ![c][h] = [state |-> "ENDED", voucher |-> v]]
              /\ wallet[c][v] \in {"RESERVED", "USED"} /\ status = "AVAILABLE"
    PROVE  VoucherInvariant'
<1>1. /\ \A d \in Voucherees, u \in Vouchers :
             wallet'[d][u] = IF d = c /\ u = v THEN status ELSE wallet[d][u]
      /\ wallet' \in [Voucherees -> [Vouchers -> Statuses]]
  BY DEF SetWallet, VoucherInvariant, VoucherShape, VouchersTypeOK, Statuses
<1>2. \A u \in Vouchers : Owners(u)' = Owners(u)
  BY <1>1 DEF Owners
<1> DEFINE Stays == holding' = holding
           Takes == holding' = [holding EXCEPT ![c][h] = [state |-> "LIVE", voucher |-> v]]
           Frees == holding' = [holding EXCEPT ![c][h] = [state |-> "ENDED", voucher |-> v]]
           Held == {NoHolding} \cup [state : {"LIVE", "ENDED"}, voucher : Vouchers]
<1>3. /\ Takes => \A d \in Voucherees, g \in Holders : holding'[d][g] =
                      IF d = c /\ g = h THEN [state |-> "LIVE", voucher |-> v] ELSE holding[d][g]
      /\ Frees => \A d \in Voucherees, g \in Holders : holding'[d][g] =
                      IF d = c /\ g = h THEN [state |-> "ENDED", voucher |-> v] ELSE holding[d][g]
      /\ holding' \in [Voucherees -> [Holders -> Held]]
  <2>1. holding \in [Voucherees -> [Holders -> Held]]
    BY DEF VoucherInvariant, VoucherShape
  <2>2. [state |-> "LIVE", voucher |-> v] \in Held /\ [state |-> "ENDED", voucher |-> v] \in Held
    OBVIOUS
  <2> HIDE DEF Held
  <2> QED BY <2>1, <2>2
<1>4. \A d \in Voucherees, g \in Holders : holding'[d][g] \in Held
  BY <1>3
<1>5. VoucherShape'
  BY <1>1, <1>3, <1>4 DEF VoucherInvariant, VoucherShape, VouchersTypeOK, Statuses
<1>6. IssuedIsOwned' /\ QuotaKept' /\ EditsAgree'
  BY <1>2 DEF VoucherInvariant, IssuedIsOwned, QuotaKept, EditsAgree, VoucherShape, VouchersTypeOK
<1>7. HeldByOne'
  <2> SUFFICES ASSUME NEW d \in Voucherees, NEW u \in Vouchers
               PROVE  IF wallet'[d][u] \in {"RESERVED", "USED"}
                      THEN \E g \in Holders : Live(d, u)' = {g} ELSE Live(d, u)' = {}
    BY DEF HeldByOne
  <2>1. IF wallet[d][u] \in {"RESERVED", "USED"}
        THEN \E g \in Holders : Live(d, u) = {g} ELSE Live(d, u) = {}
    BY DEF VoucherInvariant, HeldByOne
  <2>2. CASE d # c \/ u # v
    <3>1. Live(d, u)' = Live(d, u)
      BY <1>3, <2>2 DEF Live, NoHolding
    <3> QED BY <1>1, <2>1, <2>2, <3>1
  <2>3. CASE d = c /\ u = v
    <3>1. CASE Stays /\ wallet[c][v] \in {"RESERVED", "USED"} /\ status \in {"RESERVED", "USED"}
      <4>1. Live(d, u)' = Live(d, u)
        BY <3>1 DEF Live
      <4>2. wallet'[d][u] \in {"RESERVED", "USED"} /\ wallet[d][u] \in {"RESERVED", "USED"}
        BY <1>1, <2>3, <3>1
      <4> QED BY <2>1, <4>1, <4>2
    <3>2. CASE Takes /\ wallet[c][v] \notin {"RESERVED", "USED"} /\ status \in {"RESERVED", "USED"}
      <4>1. Live(d, u)' = {h}
        BY <1>3, <2>1, <2>3, <3>2 DEF Live
      <4> QED BY <1>1, <2>3, <3>2, <4>1
    <3>3. CASE Frees /\ holding[c][h] = [state |-> "LIVE", voucher |-> v]
                  /\ wallet[c][v] \in {"RESERVED", "USED"} /\ status = "AVAILABLE"
      <4>1. Live(d, u)' = {}
        BY <1>3, <2>1, <2>3, <3>3 DEF Live
      <4> QED BY <1>1, <2>3, <3>3, <4>1
    <3> QED BY <2>3, <3>1, <3>2, <3>3
  <2> QED BY <2>2, <2>3
<1> QED BY <1>5, <1>6, <1>7 DEF VoucherInvariant

\* The voucher of a booking that holds one.
LEMMA HeldVoucher ==
    ASSUME VoucherInvariant, NEW c \in Voucherees, NEW h \in Holders, holding[c][h].state = "LIVE"
    PROVE  /\ holding[c][h].voucher \in Vouchers
           /\ holding[c][h] = [state |-> "LIVE", voucher |-> holding[c][h].voucher]
<1>1. holding[c][h] \in {NoHolding} \cup [state : {"LIVE", "ENDED"}, voucher : Vouchers]
  BY DEF VoucherInvariant, VoucherShape
<1> QED BY <1>1 DEF NoHolding

\* A booking takes a voucher.
LEMMA VoucherReserve ==
    ASSUME VoucherInvariant, NEW c \in Voucherees, NEW h \in Holders, NEW v \in Vouchers,
           NEW paid \in BOOLEAN, ReserveVoucher(c, h, v, paid)
    PROVE  VoucherInvariant'
<1> DEFINE status == IF paid THEN "USED" ELSE "RESERVED"
<1>1. /\ status \in Statuses \ {"NONE"} /\ status \in {"RESERVED", "USED"}
      /\ wallet[c][v] = "AVAILABLE" /\ SetWallet(c, v, status)
      /\ holding[c][h] = NoHolding
      /\ holding' = [holding EXCEPT ![c][h] = [state |-> "LIVE", voucher |-> v]]
      /\ UNCHANGED <<voucherRow, window, edits, overtaken>>
  BY DEF ReserveVoucher, VoucherAccepted, Statuses
<1> HIDE DEF status
<1> QED BY <1>1, VoucherUse

\* Its voucher is used.
LEMMA VoucherUsed ==
    ASSUME VoucherInvariant, NEW c \in Voucherees, NEW h \in Holders, MarkVoucherUsed(c, h)
    PROVE  VoucherInvariant'
<1> DEFINE v == holding[c][h].voucher
<1>1. /\ holding[c][h].state = "LIVE" /\ wallet[c][v] = "RESERVED" /\ SetWallet(c, v, "USED")
      /\ UNCHANGED <<voucherRow, window, holding, edits, overtaken>>
  BY DEF MarkVoucherUsed
<1>2. v \in Vouchers /\ "USED" \in Statuses \ {"NONE"}
  BY <1>1, HeldVoucher DEF Statuses
<1> HIDE DEF v
<1> QED BY <1>1, <1>2, VoucherUse

\* The booking ends and gives its voucher back.
LEMMA VoucherRelease ==
    ASSUME VoucherInvariant, NEW c \in Voucherees, NEW h \in Holders, ReleaseVoucher(c, h)
    PROVE  VoucherInvariant'
<1> DEFINE v == holding[c][h].voucher
<1>1. /\ holding[c][h].state = "LIVE" /\ wallet[c][v] \in {"RESERVED", "USED"}
      /\ SetWallet(c, v, "AVAILABLE") /\ holding' = [holding EXCEPT ![c][h].state = "ENDED"]
      /\ UNCHANGED <<voucherRow, window, edits, overtaken>>
  BY DEF ReleaseVoucher
<1>2. /\ v \in Vouchers /\ "AVAILABLE" \in Statuses \ {"NONE"}
      /\ holding[c][h] = [state |-> "LIVE", voucher |-> v]
  BY <1>1, HeldVoucher DEF Statuses
<1>3. holding' = [holding EXCEPT ![c][h] = [state |-> "ENDED", voucher |-> v]]
  <2>1. [holding[c][h] EXCEPT !.state = "ENDED"] = [state |-> "ENDED", voucher |-> v]
    BY <1>2
  <2>2. holding' = [holding EXCEPT ![c][h] = [holding[c][h] EXCEPT !.state = "ENDED"]]
    BY <1>1
  <2> QED BY <2>1, <2>2
<1>4. wallet[c][v] # "NONE"
  BY <1>1
<1> HIDE DEF v
<1> QED BY <1>1, <1>2, <1>3, <1>4, VoucherUse

\* Every step keeps the invariant.
LEMMA VoucherStep ==
    ASSUME VoucherInvariant, [VouchersNext]_voucherVars
    PROVE  VoucherInvariant'
<1>1. ASSUME NEW c \in Voucherees, NEW v \in Vouchers, ClaimVoucherByCode(c, v) \/ AssignVoucher(c, v)
      PROVE  VoucherInvariant'
  BY <1>1, VoucherIssue DEF ClaimVoucherByCode, AssignVoucher
<1>2. CASE \/ \E v \in Vouchers, new \in Rows : BeginEdit(v, new)
           \/ \E e \in edits : FinishEdit(e)
  BY <1>2, VoucherEdit
<1>3. CASE \/ \E v \in Vouchers : DisableVoucher(v)
           \/ \E v \in Vouchers, w \in Windows : MoveWindow(v, w)
           \/ UNCHANGED voucherVars
  BY <1>3, VoucherChanges
<1>4. ASSUME NEW c \in Voucherees, NEW h \in Holders, NEW v \in Vouchers, NEW paid \in BOOLEAN,
             ReserveVoucher(c, h, v, paid)
      PROVE  VoucherInvariant'
  BY <1>4, VoucherReserve
<1>5. ASSUME NEW c \in Voucherees, NEW h \in Holders, MarkVoucherUsed(c, h) \/ ReleaseVoucher(c, h)
      PROVE  VoucherInvariant'
  BY <1>5, VoucherUsed, VoucherRelease
<1> QED BY <1>1, <1>2, <1>3, <1>4, <1>5 DEF VouchersNext

\* Nothing is issued, held or edited at first.
LEMMA VoucherStart == VouchersInit => VoucherInvariant
<1> SUFFICES ASSUME VouchersInit PROVE VoucherInvariant
  OBVIOUS
<1>1. /\ voucherRow \in [Vouchers -> Rows] /\ edits = {} /\ overtaken = {}
      /\ \A v \in Vouchers : voucherRow[v].issued = 0
      /\ window = [v \in Vouchers |-> "OPEN"]
      /\ wallet = [c \in Voucherees |-> [v \in Vouchers |-> "NONE"]]
      /\ holding = [c \in Voucherees |-> [h \in Holders |-> NoHolding]]
  BY DEF VouchersInit
<1>2. VoucherShape
  BY <1>1 DEF VoucherShape, VouchersTypeOK, Windows
<1>3. \A v \in Vouchers : Cardinality(Owners(v)) = 0 /\ voucherRow[v].limit \in Nat \cup {NoLimit}
  <2> TAKE v \in Vouchers
  <2>1. Owners(v) = {}
    BY <1>1 DEF Owners
  <2>2. voucherRow[v].limit \in IssuanceLimits \cup {NoLimit}
    BY <1>1 DEF Rows
  <2> QED BY <2>1, <2>2, FS_EmptySet, VouchersAssumption
<1>4. IssuedIsOwned /\ EditsAgree
  BY <1>1, <1>3 DEF IssuedIsOwned, EditsAgree
<1>5. QuotaKept
  BY <1>1, <1>3, VouchersAssumption DEF QuotaKept
<1>6. HeldByOne
  BY <1>1 DEF HeldByOne, Live, NoHolding
<1> QED BY <1>2, <1>4, <1>5, <1>6 DEF VoucherInvariant

-----------------------------------------------------------------------------
(* Vouchers: what it gives *)

\* What the lists, the status and the wallet show is what the checks decide.
LEMMA OffersFollow == VoucherInvariant => OffersAreTrue
<1> SUFFICES ASSUME VoucherInvariant, NEW v \in Vouchers
             PROVE  /\ LifecycleStatus(v) = "ACTIVE" <=> VoucherClaimable(v)
                    /\ \A c \in Voucherees :
                           /\ ListedVoucher(c, v) => VoucherClaimable(v) /\ wallet[c][v] = "NONE"
                           /\ ShownUsable(c, v) => VoucherAccepted(c, v)
  BY DEF OffersAreTrue
<1>1. window[v] \in Windows /\ voucherRow[v].active \in BOOLEAN
  BY DEF VoucherInvariant, VoucherShape, VouchersTypeOK, Rows
<1>2. LifecycleStatus(v) = "ACTIVE" <=> VoucherClaimable(v)
  <2>1. CASE ~voucherRow[v].active
    BY <2>1 DEF LifecycleStatus, VoucherClaimable
  <2>2. CASE voucherRow[v].active /\ window[v] = "UPCOMING"
    BY <2>2 DEF LifecycleStatus, VoucherClaimable
  <2>3. CASE voucherRow[v].active /\ window[v] = "ENDED"
    BY <2>3 DEF LifecycleStatus, VoucherClaimable
  <2>4. CASE voucherRow[v].active /\ window[v] = "OPEN"
    BY <2>4 DEF LifecycleStatus, VoucherClaimable
  <2> QED BY <1>1, <2>1, <2>2, <2>3, <2>4 DEF Windows
<1>3. \A c \in Voucherees :
          /\ ListedVoucher(c, v) => VoucherClaimable(v) /\ wallet[c][v] = "NONE"
          /\ ShownUsable(c, v) => VoucherAccepted(c, v)
  BY DEF ListedVoucher, VoucherClaimable, ShownUsable, VoucherAccepted
<1> QED BY <1>2, <1>3

\* A voucher taken has one live booking, and one that is not taken has none.
LEMMA OneHolderFollows == VoucherInvariant => OneHolder
<1> SUFFICES ASSUME VoucherInvariant, NEW c \in Voucherees, NEW v \in Vouchers
             PROVE  Cardinality(Live(c, v)) = IF wallet[c][v] \in {"RESERVED", "USED"} THEN 1 ELSE 0
  BY DEF OneHolder, Live
<1>1. IF wallet[c][v] \in {"RESERVED", "USED"} THEN \E h \in Holders : Live(c, v) = {h}
                                               ELSE Live(c, v) = {}
  BY DEF VoucherInvariant, HeldByOne
<1>2. CASE wallet[c][v] \in {"RESERVED", "USED"}
  <2>1. PICK h \in Holders : Live(c, v) = {h}
    BY <1>1, <1>2
  <2> QED BY <1>2, <2>1, FS_Singleton
<1>3. CASE wallet[c][v] \notin {"RESERVED", "USED"}
  BY <1>1, <1>3, FS_EmptySet
<1> QED BY <1>2, <1>3

\* Whatever is claimed, edited, used and given back, in whatever order: the counter of a
\* voucher no claim overtook is the number of wallets it is in and stays within the quota,
\* what the app offers can be had, and a voucher taken is held by exactly one live booking.
THEOREM VouchersStaySafe == VouchersSpec => []VouchersSafe
<1>1. VoucherInvariant /\ [VouchersNext]_voucherVars => VoucherInvariant'
  BY VoucherStep
<1>2. VoucherInvariant => VouchersSafe
  BY OffersFollow, OneHolderFollows DEF VouchersSafe, VoucherInvariant, VoucherShape
<1> QED BY <1>1, <1>2, VoucherStart, PTL DEF VouchersSpec

-----------------------------------------------------------------------------
(* VipRewards: the inductive invariant *)

VipSteps == {"new", "voucher", "customers", "giving", "hand", "done", "refused", "collided", "lost"}
BatchRows ==
    [step : VipSteps, month : Nat, voucher : Thanks \cup {"none"}, ids : SUBSET Patrons,
     locked : SUBSET Patrons, todo : SUBSET Patrons, wrote : SUBSET Patrons]

\* What the variables are.
VipShape ==
    /\ batch \in [Batches -> BatchRows]
    /\ enabled \subseteq Patrons
    /\ given \subseteq Patrons \X Thanks
    /\ thanked \subseteq [customer : Patrons, month : Nat, voucher : Thanks]
    /\ vipReport \in [step : {"none", "counted", "shown"}, month : Nat, total : Nat, rewarded : Nat,
                      grew : BOOLEAN]

StockRows == [limit : Quotas, issued : Nat, ended : BOOLEAN]
StockShape ==
    /\ stock \in [Thanks -> StockRows]
    /\ rewrites \subseteq [voucher : Thanks, row : StockRows]

\* What an edit of a voucher that nobody was given meanwhile writes back is what is there.
EditsAreUpToDate ==
    \A e \in rewrites :
        /\ e.row.issued <= e.row.limit
        /\ e.voucher \notin outdated => e.row.issued = stock[e.voucher].issued

\* A row of a voucher or a customer is locked by one request at a time.
LocksExclude ==
    \A b, other \in Batches :
        b # other => /\ \A v \in Thanks : ~(Holds(b, v) /\ Holds(other, v))
                     /\ batch[b].locked \cap batch[other].locked = {}

\* Customers are locked in the order of their ids, and only those who are active.
LocksInOrder(row) ==
    /\ row.step \in {"voucher", "customers", "giving", "hand"} => row.voucher \in Thanks /\ row.ids # {}
    /\ row.locked \subseteq enabled
    /\ row.step \notin {"customers", "giving"} => row.locked = {}
    /\ row.step \in {"voucher", "customers"} => row.wrote = {}
    /\ row.step = "customers" => \A c \in row.locked, d \in row.todo : c < d

\* What is being given is for who was not thanked and does not have it, and may be issued.
GivesWhatItMay(row) ==
    /\ row.locked = row.ids
    /\ row.todo \cup row.wrote = row.ids \ ThankedIn(row.month)
    /\ \A c \in row.wrote : <<c, row.voucher>> \notin given
    /\ stock[row.voucher].issued + Cardinality(row.wrote) <= stock[row.voucher].limit

RowIsSafe(row) ==
    /\ LocksInOrder(row)
    /\ row.step = "giving" => GivesWhatItMay(row)
    /\ row.step = "hand" => row.month = 0
    /\ row.step = "done" /\ row.month # 0 => row.ids \subseteq ThankedIn(row.month)
    /\ row.step # "collided"

OncePerMonth ==
    \A r, other \in thanked : r.customer = other.customer /\ r.month = other.month => r = other

\* While nobody becomes eligible, there are no more of them than were counted.
CountIsAbove ==
    /\ vipReport.step = "counted" /\ ~vipReport.grew =>
           Cardinality(Eligible(vipReport.month)) <= vipReport.total
    /\ ReportIsSane

VipInvariant ==
    /\ VipShape
    /\ StockShape
    /\ EditsAreUpToDate
    /\ IssuedAreCounted
    /\ LocksExclude
    /\ \A b \in Batches : RowIsSafe(batch[b])
    /\ OncePerMonth
    /\ RewardIsAVoucher
    /\ CountIsAbove

-----------------------------------------------------------------------------
(* VipRewards: helpers *)

\* A set of ids that is not empty has a smallest one.
LEMMA MinIsLeast ==
    ASSUME NEW S \in SUBSET Patrons, S # {}
    PROVE  /\ Min(S) \in S /\ Min(S) \in Nat
           /\ \A y \in S : Min(S) <= y
<1> DEFINE Below == {1..x : x \in S}
<1>1. Patrons \subseteq Nat /\ IsFiniteSet(Patrons)
  BY VipAssumption
<1>2. Below \in SUBSET FiniteSubsetsOf(Nat) /\ Below # {}
  <2>1. ASSUME NEW x \in S PROVE (1..x) \in FiniteSubsetsOf(Nat)
    BY <1>1, FS_Interval DEF FiniteSubsetsOf
  <2> QED BY <2>1
<1>3. PICK T \in Below : \A U \in Below : ~ (<<U, T>> \in StrictSubsetOrdering(Nat))
  <2> HIDE DEF Below
  <2> QED BY <1>2, WFMin, FS_StrictSubsetOrderingWellFounded
<1>4. PICK x \in S : T = 1..x
  BY <1>3
<1>5. ASSUME NEW y \in S PROVE x <= y
  <2> SUFFICES ASSUME y < x PROVE FALSE
    BY <1>1
  <2>1. x \in Nat /\ y \in Nat
    BY <1>1
  <2>2. (1..y) \subseteq 1..x /\ x \in 1..x /\ x \notin 1..y
    BY <2>1
  <2>3. (1..y) \in Below
    OBVIOUS
  <2>4. <<1..y, T>> \in StrictSubsetOrdering(Nat)
    BY <1>4, <2>1, <2>2 DEF StrictSubsetOrdering
  <2> QED BY <1>3, <2>3, <2>4
<1>6. \E z \in S : \A y \in S : z <= y
  BY <1>5
<1> QED BY <1>1, <1>6 DEF Min

\* How many there are of one voucher: as many as before and are given now.
LEMMA IssuedIsCounted ==
    ASSUME NEW v \in Thanks, NEW old \in SUBSET (Patrons \X Thanks), NEW S \in SUBSET Patrons,
           \A c \in S : <<c, v>> \notin old
    PROVE  LET Of(rows) == {g \in rows : g[2] = v}
               new == old \cup {<<c, v>> : c \in S}
           IN  /\ IsFiniteSet(S) /\ Cardinality(S) \in Nat /\ Cardinality(Of(old)) \in Nat
               /\ Cardinality(Of(new)) = Cardinality(Of(old)) + Cardinality(S)
<1> DEFINE old2 == {g \in old : g[2] = v}
           rows == {<<c, v>> : c \in S}
           new2 == {g \in old \cup rows : g[2] = v}
<1>1. IsFiniteSet(S) /\ Cardinality(S) \in Nat
  BY VipAssumption, FS_Subset, FS_CardinalityType
<1>2. IsFiniteSet(rows) /\ Cardinality(rows) = Cardinality(S)
  <2> DEFINE f == [c \in S |-> <<c, v>>]
  <2>1. f \in [S -> rows] /\ (\A t \in rows : \E c \in S : f[c] = t)
    OBVIOUS
  <2>2. \A c, d \in S : f[c] = f[d] => c = d
    <3>1. \A c \in S : f[c] = <<c, v>>
      OBVIOUS
    <3> QED BY <3>1
  <2> HIDE DEF f, rows
  <2>3. f \in Bijection(S, rows)
    BY <2>1, <2>2 DEF Bijection, Injection, Surjection, IsInjective
  <2> QED BY <1>1, <2>3, FS_Bijection DEF ExistsBijection
<1>3. IsFiniteSet(old2) /\ Cardinality(old2) \in Nat
  <2>1. old2 \subseteq Patrons \X {v}
    OBVIOUS
  <2>2. IsFiniteSet(Patrons \X {v})
    BY VipAssumption, FS_Product, FS_Singleton
  <2> QED BY <2>1, <2>2, FS_Subset, FS_CardinalityType
<1>4. new2 = old2 \cup rows /\ old2 \cap rows = {}
  OBVIOUS
<1>5. Cardinality(new2) = Cardinality(old2) + Cardinality(rows)
  <2> HIDE DEF old2, rows, new2
  <2>1. Cardinality(new2) = Cardinality(old2) + Cardinality(rows) - Cardinality(old2 \cap rows)
    BY <1>2, <1>3, <1>4, FS_Union
  <2>2. Cardinality(old2 \cap rows) = 0
    BY <1>4, FS_EmptySet
  <2> QED BY <1>1, <1>2, <1>3, <2>1, <2>2
<1> QED BY <1>1, <1>2, <1>3, <1>5

\* What is counted of a voucher while somebody is given it.
LEMMA IssuedKeepsCount ==
    ASSUME VipInvariant, NEW v \in Thanks, NEW S \in SUBSET Patrons, Issued(v, S),
           \A c \in S : <<c, v>> \notin given,
           stock[v].issued + Cardinality(S) <= stock[v].limit
    PROVE  StockShape' /\ EditsAreUpToDate' /\ IssuedAreCounted'
<1>1. /\ stock \in [Thanks -> StockRows] /\ given \in SUBSET (Patrons \X Thanks)
      /\ rewrites' = rewrites /\ rewrites \subseteq [voucher : Thanks, row : StockRows]
      /\ given' = given \cup {<<c, v>> : c \in S}
      /\ EditsAreUpToDate /\ IssuedAreCounted
  BY DEF VipInvariant, VipShape, StockShape, Issued
<1>2. /\ Cardinality(S) \in Nat /\ IssuedOf(v) \in Nat /\ IssuedOf(v)' = IssuedOf(v) + Cardinality(S)
      /\ S = {} => Cardinality(S) = 0
  BY <1>1, IssuedIsCounted, FS_EmptySet DEF IssuedOf
<1>3. PICK count : count = stock[v].issued + Cardinality(S)
  OBVIOUS
<1>4. stock' = [stock EXCEPT ![v].issued = count]
  BY <1>3 DEF Issued
<1>5. count \in Nat /\ stock[v] \in StockRows
  BY <1>1, <1>2, <1>3 DEF StockRows
<1>6. /\ stock' \in [Thanks -> StockRows]
      /\ stock'[v].issued = count /\ stock'[v].limit = stock[v].limit
      /\ \A u \in Thanks : u # v => stock'[u] = stock[u]
  BY <1>1, <1>4, <1>5 DEF StockRows
<1>7. /\ outdated \subseteq outdated' /\ outdated' \subseteq outdated \cup {v}
      /\ S # {} => \A e \in rewrites : e.voucher = v => v \in outdated'
  BY DEF Issued
<1>8. \A u \in Thanks : u # v => IssuedOf(u)' = IssuedOf(u)
  <2>1. ASSUME NEW u \in Thanks, u # v PROVE IssuedOf(u)' = IssuedOf(u)
    <3>1. {g \in given' : g[2] = u} = {g \in given : g[2] = u}
      BY <1>1, <2>1
    <3> QED BY <3>1 DEF IssuedOf
  <2> QED BY <2>1
<1>9. EditsAreUpToDate'
  <2>1. ASSUME NEW e \in rewrites, e.voucher \notin outdated'
        PROVE  e.row.issued = stock'[e.voucher].issued
    <3>1. e.row.issued = stock[e.voucher].issued /\ e.voucher \in Thanks
      BY <1>1, <1>7, <2>1 DEF EditsAreUpToDate
    <3>2. CASE e.voucher = v
      <4>1. S = {}
        BY <1>7, <2>1, <3>2
      <4> QED BY <1>2, <1>3, <1>5, <1>6, <3>1, <3>2, <4>1 DEF StockRows
    <3> QED BY <1>6, <3>1, <3>2
  <2> QED BY <1>1, <2>1 DEF EditsAreUpToDate
<1>10. IssuedAreCounted'
  <2>1. ASSUME NEW u \in Thanks
        PROVE  /\ stock'[u].issued <= stock'[u].limit
               /\ u \notin outdated' => stock'[u].issued = IssuedOf(u)'
    <3>1. CASE u = v
      BY <1>1, <1>2, <1>3, <1>6, <1>7, <3>1 DEF IssuedAreCounted
    <3>2. CASE u # v
      BY <1>1, <1>6, <1>7, <1>8, <3>2 DEF IssuedAreCounted
    <3> QED BY <3>1, <3>2
  <2> QED BY <2>1 DEF IssuedAreCounted
<1> QED BY <1>1, <1>6, <1>9, <1>10 DEF StockShape

-----------------------------------------------------------------------------
(* VipRewards: nobody waits for ever *)

\* Of requests that all wait for each other, the one that wants the greatest id would
\* wait for one that wants a greater id.
LEMMA SomebodyGoesOn == VipInvariant => NoWaitingCycle
<1> SUFFICES ASSUME VipInvariant, NEW waiting \in (SUBSET OngoingBatches) \ {{}}
             PROVE  \E b \in waiting : \A other \in waiting \ {b} : ~WaitsFor(b, other)
  BY DEF NoWaitingCycle
<1> SUFFICES ASSUME \A b \in waiting : \E other \in waiting \ {b} : WaitsFor(b, other)
             PROVE  FALSE
  OBVIOUS
<1> DEFINE Locking == {b \in waiting : batch[b].step = "customers" /\ batch[b].todo # {}}
           Wants(b) == Min(batch[b].todo)
           Beyond(b) == {c \in Patrons : c > Wants(b)}
           Beyonds == {Beyond(b) : b \in Locking}
<1>1. \A b \in waiting : /\ b \in Batches /\ batch[b] \in BatchRows
                         /\ batch[b].step \in {"voucher", "customers", "giving", "hand"}
                         /\ LocksInOrder(batch[b])
  BY DEF OngoingBatches, VipInvariant, VipShape, RowIsSafe
<1>2. ASSUME NEW b \in waiting
      PROVE  /\ batch[b].step # "giving"
             /\ batch[b].step = "customers" => b \in Locking
  <2>1. PICK other \in waiting \ {b} : WaitsFor(b, other)
    OBVIOUS
  <2> QED BY <2>1 DEF WaitsFor
<1>3. ASSUME NEW b \in waiting, batch[b].locked # {} PROVE b \in Locking
  BY <1>1, <1>2, <1>3 DEF LocksInOrder
<1>4. ASSUME NEW b \in waiting, batch[b].step = "hand" PROVE Locking # {}
  <2>1. PICK other \in waiting \ {b} : WaitsFor(b, other)
    OBVIOUS
  <2> QED BY <1>3, <1>4, <2>1 DEF WaitsFor
<1>5. Locking # {}
  <2>1. PICK b \in waiting : TRUE
    OBVIOUS
  <2>2. CASE batch[b].step = "voucher"
    <3>1. PICK other \in waiting \ {b} : WaitsFor(b, other)
      OBVIOUS
    <3> QED BY <1>2, <1>4, <2>2, <3>1 DEF WaitsFor, Holds
  <2> QED BY <1>1, <1>2, <1>4, <2>1, <2>2
<1>6. \A b \in Locking : /\ Wants(b) \in batch[b].todo /\ Wants(b) \in Patrons
                         /\ \A c \in batch[b].todo : Wants(b) <= c
  BY <1>1, MinIsLeast DEF BatchRows
<1>7. PICK b \in Locking : \A other \in Locking :
          ~ (<<Beyond(other), Beyond(b)>> \in StrictSubsetOrdering(Patrons))
  <2>1. Beyonds \in SUBSET FiniteSubsetsOf(Patrons) /\ Beyonds # {}
    <3>1. ASSUME NEW c \in Locking PROVE Beyond(c) \in FiniteSubsetsOf(Patrons)
      BY VipAssumption, FS_Subset DEF FiniteSubsetsOf
    <3> HIDE DEF Beyond
    <3> QED BY <1>5, <3>1
  <2>2. PICK least \in Beyonds : \A U \in Beyonds : ~ (<<U, least>> \in StrictSubsetOrdering(Patrons))
    <3> HIDE DEF Beyonds
    <3> QED BY <2>1, WFMin, FS_StrictSubsetOrderingWellFounded
  <2> HIDE DEF Beyond
  <2> QED BY <2>2
<1>8. PICK other \in waiting \ {b} : WaitsFor(b, other)
  OBVIOUS
<1>9. Wants(b) \in batch[other].locked /\ other \in Locking
  BY <1>3, <1>8 DEF WaitsFor, NextToLock
<1>10. Wants(b) < Wants(other)
  BY <1>1, <1>6, <1>9 DEF LocksInOrder
<1>11. <<Beyond(other), Beyond(b)>> \in StrictSubsetOrdering(Patrons)
  <2>1. Patrons \subseteq Nat /\ Wants(b) \in Nat /\ Wants(other) \in Patrons /\ Wants(other) \in Nat
    BY <1>6, <1>9, VipAssumption
  <2> HIDE DEF Wants
  <2>2. ASSUME NEW p \in Patrons, p > Wants(other) PROVE p > Wants(b)
    BY <1>10, <2>1, <2>2
  <2>3. Beyond(other) \subseteq Beyond(b)
    BY <2>2
  <2>4. Wants(other) \in Beyond(b) /\ Wants(other) \notin Beyond(other)
    BY <1>10, <2>1
  <2> QED BY <2>3, <2>4 DEF StrictSubsetOrdering
<1> QED BY <1>7, <1>9, <1>11

-----------------------------------------------------------------------------
(* VipRewards: each step *)

\* What every request holds.
LEMMA RowOf ==
    ASSUME VipInvariant, NEW b \in Batches
    PROVE  /\ batch[b] \in BatchRows /\ RowIsSafe(batch[b])
           /\ batch[b].step \in VipSteps /\ batch[b].month \in Nat
           /\ batch[b].voucher \in Thanks \cup {"none"}
           /\ batch[b].ids \subseteq Patrons /\ batch[b].locked \subseteq Patrons
           /\ batch[b].todo \subseteq Patrons /\ batch[b].wrote \subseteq Patrons
<1>1. batch[b] \in BatchRows /\ RowIsSafe(batch[b])
  BY DEF VipInvariant, VipShape
<1> QED BY <1>1 DEF BatchRows

\* One request goes on.  The others are safe because what they give is locked.
LEMMA BatchMoves ==
    ASSUME VipInvariant, NEW b \in Batches, NEW row \in BatchRows,
           batch' = [batch EXCEPT ![b] = row], UNCHANGED <<loyal, enabled, vipReport>>,
           StockShape', EditsAreUpToDate', IssuedAreCounted',
           \A u \in Thanks : ~Holds(b, u) => stock'[u] = stock[u],
           RowIsSafe(row)',
           \A o \in Batches \ {b} : row.locked \cap batch[o].locked = {},
           row.step \in {"customers", "giving", "hand"} =>
               \A o \in Batches \ {b} : ~Holds(o, row.voucher),
           given \subseteq given', given' \subseteq Patrons \X Thanks,
           \A g \in given' \ given : Holds(b, g[2]),
           thanked \subseteq thanked',
           thanked' \subseteq [customer : Patrons, month : Nat, voucher : Thanks],
           \A r \in thanked' \ thanked : r.customer \in batch[b].locked,
           OncePerMonth', RewardIsAVoucher'
    PROVE  VipInvariant'
<1>1. \A o \in Batches : batch'[o] = IF o = b THEN row ELSE batch[o]
  BY DEF VipInvariant, VipShape
<1>2. VipShape'
  BY <1>1 DEF VipInvariant, VipShape
<1>3. LocksExclude'
  BY <1>1 DEF VipInvariant, LocksExclude, Holds
<1>4. ASSUME NEW o \in Batches PROVE RowIsSafe(batch[o])'
  <2>1. CASE o = b
    BY <1>1, <2>1 DEF RowIsSafe, LocksInOrder, GivesWhatItMay, ThankedIn
  <2>2. CASE o # b
    <3>1. batch'[o] = batch[o] /\ RowIsSafe(batch[o]) /\ batch[o] \in BatchRows
      BY <1>1, <2>2, RowOf
    <3>2. LocksInOrder(batch[o])'
      BY <3>1 DEF RowIsSafe, LocksInOrder
    <3>3. \A m \in Nat : ThankedIn(m) \subseteq ThankedIn(m)'
      BY DEF ThankedIn
    <3>4. ASSUME batch[o].step = "giving" PROVE GivesWhatItMay(batch[o])'
      <4>1. GivesWhatItMay(batch[o]) /\ batch[o].voucher \in Thanks
        BY <3>1, <3>4 DEF RowIsSafe, LocksInOrder
      <4>2. batch[o].ids \ ThankedIn(batch[o].month) = batch[o].ids \ ThankedIn(batch[o].month)'
        <5>1. batch[b].locked \cap batch[o].locked = {}
          BY <2>2 DEF VipInvariant, LocksExclude
        <5>2. batch[o].ids = batch[o].locked /\ batch[o].month \in Nat
          BY <3>1, <4>1 DEF GivesWhatItMay, BatchRows
        <5>3. \A c \in batch[o].ids : \A r \in thanked' : r.customer = c => r \in thanked
          BY <5>1, <5>2
        <5>4. \A c \in batch[o].ids :
                  c \in ThankedIn(batch[o].month) <=> c \in ThankedIn(batch[o].month)'
          BY <3>1, <5>3 DEF ThankedIn
        <5> QED BY <5>4, <3>1
      <4>3. ~Holds(b, batch[o].voucher)
        BY <2>2, <3>4, <4>1 DEF VipInvariant, LocksExclude, Holds
      <4>4. \A g \in given' : g[2] = batch[o].voucher => g \in given
        BY <4>3
      <4>5. stock'[batch[o].voucher] = stock[batch[o].voucher]
        BY <4>1, <4>3
      <4>6. \A c \in batch[o].wrote : <<c, batch[o].voucher>> \notin given'
        BY <4>1, <4>4 DEF GivesWhatItMay
      <4> QED BY <3>1, <4>1, <4>2, <4>5, <4>6 DEF GivesWhatItMay
    <3>5. batch[o].month \in Nat
      BY <3>1 DEF BatchRows
    <3> QED BY <3>1, <3>2, <3>3, <3>4, <3>5 DEF RowIsSafe
  <2> QED BY <2>1, <2>2
<1>5. CountIsAbove'
  BY DEF VipInvariant, CountIsAbove, ReportIsSane, Eligible
<1> QED BY <1>2, <1>3, <1>4, <1>5 DEF VipInvariant

\* One that gives nothing by this step leaves the rewards as they are.
LEMMA BatchOnly ==
    ASSUME VipInvariant, NEW b \in Batches, NEW row \in BatchRows,
           batch' = [batch EXCEPT ![b] = row],
           UNCHANGED <<loyal, enabled, stockVars, given, thanked, vipReport>>,
           RowIsSafe(row),
           \A o \in Batches \ {b} : row.locked \cap batch[o].locked = {},
           row.step \in {"customers", "giving", "hand"} =>
               \A o \in Batches \ {b} : ~Holds(o, row.voucher)
    PROVE  VipInvariant'
<1>1. RowIsSafe(row)'
  BY DEF RowIsSafe, LocksInOrder, GivesWhatItMay, ThankedIn, stockVars
<1>2. /\ given' \subseteq Patrons \X Thanks
      /\ thanked' \subseteq [customer : Patrons, month : Nat, voucher : Thanks]
  BY DEF VipInvariant, VipShape
<1>3. OncePerMonth' /\ RewardIsAVoucher'
  BY DEF VipInvariant, OncePerMonth, RewardIsAVoucher
<1>4. StockShape' /\ EditsAreUpToDate' /\ IssuedAreCounted' /\ stock' = stock
  BY DEF VipInvariant, StockShape, EditsAreUpToDate, IssuedAreCounted, IssuedOf, stockVars
<1> QED BY <1>1, <1>2, <1>3, <1>4, BatchMoves

\* A transaction that ends gives up its locks.
LEMMA BatchOver ==
    ASSUME VipInvariant, NEW b \in Batches, NEW how \in {"refused", "lost"}, batch' = Over(b, how),
           UNCHANGED <<loyal, enabled, stockVars, given, thanked, vipReport>>
    PROVE  VipInvariant'
<1> DEFINE row == [Fresh EXCEPT !.step = how]
<1>1. /\ row = [step |-> how, month |-> 0, voucher |-> "none", ids |-> {}, locked |-> {},
                todo |-> {}, wrote |-> {}]
      /\ batch' = [batch EXCEPT ![b] = row]
  BY DEF Fresh, Over
<1>2. /\ row \in BatchRows
      /\ row.step = how /\ row.locked = {}
  BY <1>1 DEF BatchRows, VipSteps
<1> HIDE DEF row
<1>3. RowIsSafe(row)
  BY <1>2 DEF RowIsSafe, LocksInOrder
<1> QED BY <1>1, <1>2, <1>3, BatchOnly

\* A request comes.
LEMMA BatchAsked ==
    ASSUME VipInvariant, NEW b \in Batches, NEW v \in Thanks, NEW ids \in SUBSET Patrons,
           NEW m \in Nat, ids # {}, AskBatch(b, v, ids, m)
    PROVE  VipInvariant'
<1> DEFINE row == [Fresh EXCEPT !.step = "voucher", !.month = m, !.voucher = v, !.ids = ids]
<1>1. /\ batch' = [batch EXCEPT ![b] = row]
      /\ UNCHANGED <<loyal, enabled, stockVars, given, thanked, vipReport>>
  BY DEF AskBatch
<1>2. /\ row \in BatchRows /\ row.voucher = v /\ row.wrote = {} /\ row.ids # {}
      /\ row.step = "voucher" /\ row.locked = {}
  <2>1. Fresh \in BatchRows /\ Fresh.wrote = {} /\ Fresh.locked = {}
    BY DEF Fresh, BatchRows, VipSteps
  <2>2. "voucher" \in VipSteps
    BY DEF VipSteps
  <2> QED BY <2>1, <2>2 DEF BatchRows
<1> HIDE DEF row
<1>3. RowIsSafe(row)
  BY <1>2 DEF RowIsSafe, LocksInOrder
<1> QED BY <1>1, <1>2, <1>3, BatchOnly

\* The voucher is locked.
LEMMA BatchLocks ==
    ASSUME VipInvariant, NEW b \in Batches, LockVoucher(b)
    PROVE  VipInvariant'
<1> DEFINE how == IF batch[b].month = 0 THEN "hand" ELSE "customers"
           row == [batch[b] EXCEPT !.step = how, !.todo = batch[b].ids]
<1>1. /\ batch[b].step = "voucher" /\ VoucherIsFree(b)
      /\ batch' = [batch EXCEPT ![b] = row]
      /\ UNCHANGED <<loyal, enabled, stockVars, given, thanked, vipReport>>
  BY DEF LockVoucher
<1>2. /\ row \in BatchRows /\ row.voucher = batch[b].voucher /\ row.wrote = batch[b].wrote
      /\ row.step = how /\ row.locked = batch[b].locked /\ row.month = batch[b].month
      /\ row.ids = batch[b].ids
  BY RowOf DEF BatchRows, VipSteps
<1>3. /\ batch[b].voucher \in Thanks /\ batch[b].locked = {} /\ batch[b].wrote = {}
      /\ batch[b].ids # {}
  BY <1>1, RowOf DEF RowIsSafe, LocksInOrder
<1>4. how \in {"hand", "customers"} /\ (how = "hand" => batch[b].month = 0)
  OBVIOUS
<1> HIDE DEF row, how
<1>5. RowIsSafe(row)
  BY <1>2, <1>3, <1>4 DEF RowIsSafe, LocksInOrder
<1>6. \A o \in Batches \ {b} : row.locked \cap batch[o].locked = {} /\ ~Holds(o, row.voucher)
  BY <1>1, <1>2, <1>3 DEF VoucherIsFree
<1> QED BY <1>1, <1>2, <1>5, <1>6, BatchOnly

\* The next customer is locked, if his account is active.
LEMMA BatchLocksCustomer ==
    ASSUME VipInvariant, NEW b \in Batches, LockCustomer(b)
    PROVE  VipInvariant'
<1>1. PICK c \in NextToLock(b) :
          /\ CustomerIsFree(b, c)
          /\ batch' = [batch EXCEPT ![b].todo = @ \ {c}, ![b].locked = @ \cup ({c} \cap enabled)]
  BY DEF LockCustomer
<1> DEFINE row == [batch[b] EXCEPT !.todo = @ \ {c}, !.locked = @ \cup ({c} \cap enabled)]
<1>2. /\ batch[b].step = "customers" /\ batch[b].todo # {}
      /\ batch' = [batch EXCEPT ![b] = row]
      /\ UNCHANGED <<loyal, enabled, stockVars, given, thanked, vipReport>>
  BY <1>1 DEF LockCustomer
<1>3. c \in batch[b].todo /\ c \in Patrons /\ \A d \in batch[b].todo : c <= d
  BY <1>1, <1>2, RowOf, MinIsLeast DEF NextToLock
<1>4. /\ row \in BatchRows /\ row.voucher = batch[b].voucher /\ row.wrote = batch[b].wrote
      /\ row.step = batch[b].step /\ row.month = batch[b].month /\ row.ids = batch[b].ids
      /\ row.locked = batch[b].locked \cup ({c} \cap enabled)
      /\ row.todo = batch[b].todo \ {c}
  BY <1>3, RowOf DEF BatchRows
<1> HIDE DEF row
<1>5. RowIsSafe(row)
  <2>1. LocksInOrder(batch[b]) /\ Patrons \subseteq Nat
    BY RowOf, VipAssumption DEF RowIsSafe
  <2>2. \A d \in row.todo : d \in Nat /\ c \in Nat /\ c < d
    <3> TAKE d \in row.todo
    <3>1. d \in Patrons /\ c <= d /\ d # c
      BY <1>3, <1>4, RowOf
    <3>2. d \in Nat /\ c \in Nat
      BY <1>3, <2>1, <3>1
    <3> QED BY <3>1, <3>2
  <2>3. LocksInOrder(row)
    BY <1>2, <1>4, <2>1, <2>2 DEF LocksInOrder
  <2> QED BY <1>2, <1>4, <2>3 DEF RowIsSafe
<1>6. \A o \in Batches \ {b} : row.locked \cap batch[o].locked = {}
  BY <1>1, <1>4 DEF CustomerIsFree, VipInvariant, LocksExclude
<1>7. \A o \in Batches \ {b} : ~Holds(o, row.voucher)
  BY <1>2, <1>4, RowOf DEF VipInvariant, LocksExclude, Holds, RowIsSafe, LocksInOrder
<1> QED BY <1>2, <1>4, <1>5, <1>6, <1>7, BatchOnly

\* The customers are looked at: who was thanked is left out, or all are refused.
LEMMA BatchChecks ==
    ASSUME VipInvariant, NEW b \in Batches, CheckCustomers(b)
    PROVE  VipInvariant'
<1>1. /\ batch[b].step = "customers" /\ batch[b].todo = {}
      /\ UNCHANGED <<loyal, enabled, stockVars, given, thanked, vipReport>>
  BY DEF CheckCustomers
<1>2. CASE batch' = Over(b, "refused")
  BY <1>1, <1>2, BatchOver
<1>3. CASE ~ (batch' = Over(b, "refused"))
  <2> DEFINE left == batch[b].ids \ ThankedIn(batch[b].month)
             row == [batch[b] EXCEPT !.step = "giving", !.todo = left]
  <2>1. batch[b].locked = batch[b].ids /\ batch' = [batch EXCEPT ![b] = row]
    BY <1>3 DEF CheckCustomers
  <2>2. /\ row \in BatchRows /\ row.voucher = batch[b].voucher /\ row.wrote = batch[b].wrote
        /\ row.step = "giving" /\ row.month = batch[b].month /\ row.ids = batch[b].ids
        /\ row.locked = batch[b].locked /\ row.todo = left
    <3>1. left \in SUBSET Patrons
      BY RowOf
    <3> HIDE DEF left
    <3> QED BY <3>1, RowOf DEF BatchRows, VipSteps
  <2>3. /\ batch[b].voucher \in Thanks /\ batch[b].wrote = {} /\ batch[b].locked \subseteq enabled
        /\ batch[b].ids # {}
    BY <1>1, RowOf DEF RowIsSafe, LocksInOrder
  <2> HIDE DEF row
  <2>4. stock[batch[b].voucher].issued + Cardinality({}) <= stock[batch[b].voucher].limit
    <3>1. stock[batch[b].voucher].issued \in Nat
      BY <2>3 DEF VipInvariant, StockShape, StockRows
    <3>2. stock[batch[b].voucher].issued <= stock[batch[b].voucher].limit
      BY <2>3 DEF VipInvariant, IssuedAreCounted
    <3> QED BY <3>1, <3>2, FS_EmptySet
  <2>5. RowIsSafe(row)
    BY <2>1, <2>2, <2>3, <2>4 DEF RowIsSafe, LocksInOrder, GivesWhatItMay
  <2>6. \A o \in Batches \ {b} : row.locked \cap batch[o].locked = {} /\ ~Holds(o, row.voucher)
    BY <1>1, <2>2, <2>3 DEF VipInvariant, LocksExclude, Holds
  <2> QED BY <1>1, <2>1, <2>2, <2>5, <2>6, BatchOnly
<1> QED BY <1>2, <1>3

\* One more customer is given the voucher, or all are refused.
LEMMA BatchGives ==
    ASSUME VipInvariant, NEW b \in Batches, GiveNext(b)
    PROVE  VipInvariant'
<1>1. /\ batch[b].step = "giving" /\ batch[b].todo # {}
      /\ UNCHANGED <<loyal, enabled, stockVars, given, thanked, vipReport>>
  BY DEF GiveNext
<1>2. CASE batch' = Over(b, "refused")
  BY <1>1, <1>2, BatchOver
<1>3. CASE ~ (batch' = Over(b, "refused"))
  <2> DEFINE c == Min(batch[b].todo)
             v == batch[b].voucher
             row == [batch[b] EXCEPT !.todo = @ \ {c}, !.wrote = @ \cup {c}]
  <2>1. MayReceive(b, c) /\ batch' = [batch EXCEPT ![b] = row]
    BY <1>3 DEF GiveNext
  <2>2. c \in batch[b].todo /\ c \in Patrons
    BY <1>1, RowOf, MinIsLeast
  <2> HIDE DEF c
  <2>3. /\ row \in BatchRows /\ row.voucher = v /\ row.wrote = batch[b].wrote \cup {c}
        /\ row.step = "giving" /\ row.month = batch[b].month /\ row.ids = batch[b].ids
        /\ row.locked = batch[b].locked /\ row.todo = batch[b].todo \ {c}
    BY <1>1, <2>2, RowOf DEF BatchRows
  <2>4. /\ v \in Thanks /\ batch[b].locked \subseteq enabled /\ GivesWhatItMay(batch[b])
        /\ batch[b].ids # {}
    BY <1>1, RowOf DEF RowIsSafe, LocksInOrder
  <2> HIDE DEF row, v
  <2>5. stock[v].issued + Cardinality(row.wrote) <= stock[v].limit
    <3>1. /\ IsFiniteSet(batch[b].wrote) /\ Cardinality(batch[b].wrote) \in Nat
      BY RowOf, VipAssumption, FS_Subset, FS_CardinalityType
    <3>2. stock[v].issued \in Nat /\ stock[v].limit \in Nat
      BY <2>4, VipAssumption DEF VipInvariant, StockShape, StockRows
    <3>3. /\ Cardinality(row.wrote) \in Nat
          /\ Cardinality(row.wrote) <= Cardinality(batch[b].wrote) + 1
      <4>1. Cardinality(batch[b].wrote \cup {c}) =
                IF c \in batch[b].wrote THEN Cardinality(batch[b].wrote) ELSE Cardinality(batch[b].wrote) + 1
        BY <3>1, FS_AddElement
      <4> QED BY <2>3, <3>1, <4>1
    <3>4. stock[v].issued + Cardinality(batch[b].wrote) < stock[v].limit
      BY <2>1 DEF MayReceive, v
    <3> QED BY <3>1, <3>2, <3>3, <3>4
  <2>6. \A d \in row.wrote : <<d, v>> \notin given
    BY <2>1, <2>3, <2>4 DEF MayReceive, GivesWhatItMay, v
  <2>7. GivesWhatItMay(row)
    <3>1. batch[b].todo \cup batch[b].wrote = row.todo \cup row.wrote
      BY <2>2, <2>3
    <3> QED BY <2>3, <2>4, <2>5, <2>6, <3>1 DEF GivesWhatItMay
  <2>8. RowIsSafe(row)
    BY <2>3, <2>4, <2>7 DEF RowIsSafe, LocksInOrder
  <2>9. \A o \in Batches \ {b} : row.locked \cap batch[o].locked = {} /\ ~Holds(o, row.voucher)
    BY <1>1, <2>3, <2>4 DEF VipInvariant, LocksExclude, Holds, v
  <2> QED BY <1>1, <2>1, <2>3, <2>8, <2>9, BatchOnly
<1> QED BY <1>2, <1>3

\* The batch commits what it gave.  It finds nobody thanked whom it did not leave out.
LEMMA BatchCommits ==
    ASSUME VipInvariant, NEW b \in Batches, CommitBatch(b)
    PROVE  VipInvariant'
<1> PICK v : v = batch[b].voucher
  OBVIOUS
<1> PICK m : m = batch[b].month
  OBVIOUS
<1> PICK wrote : wrote = batch[b].wrote
  OBVIOUS
<1> PICK row : row = [batch[b] EXCEPT !.step = "done", !.locked = {}]
  OBVIOUS
<1> DEFINE rewards == {[customer |-> c, month |-> m, voucher |-> v] : c \in wrote}
<1>1. /\ batch[b].step = "giving" /\ batch[b].todo = {} /\ UNCHANGED <<loyal, enabled, vipReport>>
      /\ GivesWhatItMay(batch[b]) /\ v \in Thanks /\ m \in Nat /\ wrote \in SUBSET Patrons
  BY RowOf DEF CommitBatch, RowIsSafe, LocksInOrder
<1>2. wrote = batch[b].ids \ ThankedIn(m) /\ batch[b].ids = batch[b].locked
  BY <1>1 DEF GivesWhatItMay
<1>3. /\ given' = given \cup {<<c, v>> : c \in wrote}
      /\ thanked' = thanked \cup rewards
      /\ batch' = [batch EXCEPT ![b] = row]
      /\ Issued(v, wrote)
  <2>1. wrote \cap ThankedIn(m) = {}
    BY <1>2
  <2> QED BY <2>1 DEF CommitBatch, Issued
<1>4. /\ row \in BatchRows /\ row.voucher = v /\ row.locked = {} /\ row.ids = batch[b].ids
      /\ row.step = "done" /\ row.month = m
  BY RowOf DEF BatchRows, VipSteps
<1>5. /\ given \in SUBSET (Patrons \X Thanks)
      /\ thanked \subseteq [customer : Patrons, month : Nat, voucher : Thanks]
      /\ given' \subseteq Patrons \X Thanks
      /\ thanked' \subseteq [customer : Patrons, month : Nat, voucher : Thanks]
  BY <1>1, <1>3 DEF VipInvariant, VipShape
<1>6. RowIsSafe(row)'
  <2>1. batch[b].ids \subseteq ThankedIn(m)'
    <3> SUFFICES ASSUME NEW c \in batch[b].ids, c \notin ThankedIn(m) PROVE c \in ThankedIn(m)'
      BY <1>3 DEF ThankedIn
    <3>1. [customer |-> c, month |-> m, voucher |-> v] \in thanked'
      BY <1>2, <1>3
    <3> QED BY <3>1 DEF ThankedIn
  <2> QED BY <1>4, <2>1 DEF RowIsSafe, LocksInOrder
<1>7. \A r \in rewards : /\ r.customer \in wrote /\ r.month = m /\ r.voucher = v
                         /\ r = [customer |-> r.customer, month |-> m, voucher |-> v]
  OBVIOUS
<1>8. OncePerMonth'
  <2>1. ASSUME NEW r \in rewards, NEW other \in thanked, r.month = other.month
        PROVE  r.customer # other.customer
    BY <1>2, <1>7, <2>1 DEF ThankedIn
  <2> QED BY <1>3, <1>7, <2>1 DEF VipInvariant, OncePerMonth
<1>9. RewardIsAVoucher'
  <2>1. \A r \in thanked' : <<r.customer, r.voucher>> \in given'
    BY <1>3, <1>7 DEF VipInvariant, RewardIsAVoucher
  <2>2. ASSUME NEW r \in rewards, NEW other \in thanked, r.voucher = other.voucher
        PROVE  r.customer # other.customer
    <3>1. <<r.customer, v>> \notin given
      BY <1>1, <1>7 DEF GivesWhatItMay
    <3>2. <<other.customer, other.voucher>> \in given
      BY DEF VipInvariant, RewardIsAVoucher
    <3> QED BY <1>7, <2>2, <3>1, <3>2
  <2>4. ASSUME NEW r \in thanked', NEW other \in thanked',
               r.customer = other.customer, r.voucher = other.voucher
        PROVE  r = other
    BY <1>3, <1>7, <2>2, <2>4 DEF VipInvariant, RewardIsAVoucher
  <2> QED BY <2>1, <2>4 DEF RewardIsAVoucher
<1>10. \A g \in given' \ given : Holds(b, g[2])
  BY <1>1, <1>3 DEF Holds
<1>11. \A r \in thanked' \ thanked : r.customer \in batch[b].locked
  BY <1>2, <1>3, <1>7
<1>12. given \subseteq given' /\ thanked \subseteq thanked'
  BY <1>3
<1>13. StockShape' /\ EditsAreUpToDate' /\ IssuedAreCounted'
  <2>1. stock[v].issued + Cardinality(wrote) <= stock[v].limit /\ \A c \in wrote : <<c, v>> \notin given
    BY <1>1 DEF GivesWhatItMay
  <2> QED BY <1>1, <1>3, <2>1, IssuedKeepsCount
<1>14. \A u \in Thanks : ~Holds(b, u) => stock'[u] = stock[u]
  BY <1>1, <1>3 DEF Issued, Holds, VipInvariant, StockShape
<1> QED BY <1>1, <1>3, <1>4, <1>5, <1>6, <1>8, <1>9, <1>10, <1>11, <1>12, <1>13, <1>14, BatchMoves

\* An administrator gives one by hand.
LEMMA GivenByHand ==
    ASSUME VipInvariant, NEW b \in Batches, GiveByHand(b)
    PROVE  VipInvariant'
<1>c. PICK c : c = CHOOSE x \in batch[b].ids : TRUE
  OBVIOUS
<1>v. PICK v : v = batch[b].voucher
  OBVIOUS
<1>r. PICK row : row = [batch[b] EXCEPT !.step = "done"]
  OBVIOUS
<1>1. /\ batch[b].step = "hand" /\ UNCHANGED <<loyal, enabled, thanked, vipReport>>
      /\ batch[b].month = 0 /\ batch[b].locked = {} /\ v \in Thanks /\ batch[b].ids # {}
  BY <1>v, RowOf DEF GiveByHand, RowIsSafe, LocksInOrder
<1>2. CASE ~MayReceive(b, c)
  <2>1. batch' = Over(b, "refused") /\ UNCHANGED <<given, stockVars>>
    BY <1>2, <1>c DEF GiveByHand
  <2> QED BY <1>1, <2>1, BatchOver
<1>3. CASE MayReceive(b, c)
  <2>1. /\ given' = given \cup {<<c, v>>} /\ batch' = [batch EXCEPT ![b] = row]
        /\ stock[v].issued + Cardinality(batch[b].wrote) < stock[v].limit /\ <<c, v>> \notin given
        /\ Issued(v, {c})
    BY <1>3, <1>c, <1>v, <1>r DEF GiveByHand, MayReceive, Issued
  <2>2. c \in Patrons
    BY <1>1, <1>c, RowOf
  <2>3. /\ row \in BatchRows /\ row.locked = {} /\ row.step = "done" /\ row.month = 0
    BY <1>1, <1>r, RowOf DEF BatchRows, VipSteps
  <2>4. RowIsSafe(row)'
    BY <2>3 DEF RowIsSafe, LocksInOrder
  <2>5. given \in SUBSET (Patrons \X Thanks) /\ given' \subseteq Patrons \X Thanks
        /\ thanked' \subseteq [customer : Patrons, month : Nat, voucher : Thanks]
    <3>1. /\ given \subseteq Patrons \X Thanks
          /\ thanked \subseteq [customer : Patrons, month : Nat, voucher : Thanks]
      BY DEF VipInvariant, VipShape
    <3>2. thanked' = thanked
      BY <1>1
    <3>4. v \in Thanks
      BY <1>1
    <3>5. <<c, v>> \in Patrons \X Thanks
      BY <2>2, <3>4
    <3>3. given' \subseteq Patrons \X Thanks
      BY <2>1, <3>1, <3>5
    <3> QED BY <3>1, <3>2, <3>3
  <2>6. OncePerMonth'
    BY <1>1 DEF VipInvariant, OncePerMonth
  <2>7. StockShape' /\ EditsAreUpToDate' /\ IssuedAreCounted'
    <3>1. Cardinality({c}) = 1 /\ Cardinality(batch[b].wrote) \in Nat
      BY FS_Singleton, RowOf, VipAssumption, FS_Subset, FS_CardinalityType
    <3>2. stock[v].issued \in Nat /\ stock[v].limit \in Nat
      BY <1>1, VipAssumption DEF VipInvariant, StockShape, StockRows
    <3>3. stock[v].issued + Cardinality({c}) <= stock[v].limit /\ {c} \in SUBSET Patrons
      BY <2>1, <2>2, <3>1, <3>2
    <3> QED BY <1>1, <2>1, <3>3, IssuedKeepsCount
  <2>8. RewardIsAVoucher'
    BY <1>1, <2>1 DEF VipInvariant, RewardIsAVoucher
  <2>9. \A g \in given' \ given : Holds(b, g[2])
    BY <1>1, <1>v, <2>1 DEF Holds
  <2>10. given \subseteq given' /\ thanked' = thanked
    BY <1>1, <2>1
  <2>11. \A u \in Thanks : ~Holds(b, u) => stock'[u] = stock[u]
    BY <1>1, <1>v, <2>1 DEF Issued, Holds, VipInvariant, StockShape
  <2> QED BY <1>1, <2>1, <2>3, <2>4, <2>5, <2>6, <2>7, <2>8, <2>9, <2>10, <2>11, BatchMoves
<1> QED BY <1>2, <1>3

\* Who is eligible can be counted, and fewer are no more.
LEMMA EligibleCount ==
    ASSUME VipInvariant, NEW m, NEW S \in SUBSET Eligible(m)
    PROVE  /\ Cardinality(Eligible(m)) \in Nat /\ Cardinality(S) \in Nat
           /\ Cardinality(S) <= Cardinality(Eligible(m))
<1>1. Eligible(m) \subseteq Patrons /\ IsFiniteSet(Patrons)
  BY VipAssumption DEF Eligible, VipInvariant, VipShape
<1>2. IsFiniteSet(Eligible(m))
  BY <1>1, FS_Subset
<1> QED BY <1>2, FS_Subset, FS_CardinalityType

\* Where no request moves and no account that is locked is closed, what is held stays.
LEMMA AsideMoves ==
    ASSUME VipInvariant, UNCHANGED <<batch, given, thanked>>, enabled' \subseteq enabled,
           \A b \in Batches : batch[b].locked \subseteq enabled',
           StockShape', EditsAreUpToDate', IssuedAreCounted',
           \A b \in Batches, v \in Thanks :
               Holds(b, v) => stock'[v].issued = stock[v].issued /\ stock'[v].limit = stock[v].limit,
           vipReport' \in [step : {"none", "counted", "shown"}, month : Nat, total : Nat,
                           rewarded : Nat, grew : BOOLEAN],
           CountIsAbove'
    PROVE  VipInvariant'
<1>1. VipShape' /\ LocksExclude' /\ OncePerMonth' /\ RewardIsAVoucher'
  BY DEF VipInvariant, VipShape, LocksExclude, Holds, OncePerMonth, RewardIsAVoucher
<1>2. ASSUME NEW b \in Batches PROVE RowIsSafe(batch[b])'
  <2>1. RowIsSafe(batch[b]) /\ batch[b].locked \subseteq enabled'
    BY RowOf
  <2>2. ASSUME batch[b].step = "giving" PROVE Holds(b, batch[b].voucher) /\ batch[b].voucher \in Thanks
    BY <2>1, <2>2 DEF RowIsSafe, LocksInOrder, Holds
  <2> QED BY <2>1, <2>2 DEF RowIsSafe, LocksInOrder, GivesWhatItMay, ThankedIn
<1> QED BY <1>1, <1>2 DEF VipInvariant

\* Where no voucher is written, what is counted of it stays.
LEMMA StockStays ==
    ASSUME VipInvariant, UNCHANGED <<stockVars, given>>
    PROVE  /\ StockShape' /\ EditsAreUpToDate' /\ IssuedAreCounted'
           /\ \A b \in Batches, v \in Thanks :
                  Holds(b, v) => stock'[v].issued = stock[v].issued /\ stock'[v].limit = stock[v].limit
BY DEF VipInvariant, StockShape, EditsAreUpToDate, IssuedAreCounted, IssuedOf, stockVars

\* Fewer are eligible, or the report knows that somebody became so.
LEMMA CountStays ==
    ASSUME VipInvariant,
           vipReport'.step = vipReport.step, vipReport'.month = vipReport.month,
           vipReport'.total = vipReport.total, vipReport'.rewarded = vipReport.rewarded,
           ~vipReport'.grew => ~vipReport.grew /\ Eligible(vipReport.month)' \subseteq Eligible(vipReport.month)
    PROVE  CountIsAbove'
<1> DEFINE m == vipReport.month
<1>1. /\ m = vipReport'.month /\ vipReport.total \in Nat
      /\ CountIsAbove
  BY DEF VipInvariant, VipShape
<1>2. ReportIsSane'
  BY <1>1 DEF CountIsAbove, ReportIsSane
<1>3. ASSUME vipReport'.step = "counted", ~vipReport'.grew
      PROVE  Cardinality(Eligible(vipReport.month)') <= vipReport'.total
  <2>1. PICK S \in SUBSET Eligible(m) : S = Eligible(vipReport.month)'
    BY <1>3
  <2>2. /\ Cardinality(Eligible(m)) \in Nat /\ Cardinality(S) \in Nat
        /\ Cardinality(S) <= Cardinality(Eligible(m))
    BY EligibleCount
  <2>3. Cardinality(Eligible(m)) <= vipReport.total
    BY <1>1, <1>3 DEF CountIsAbove
  <2> QED BY <1>1, <2>1, <2>2, <2>3
<1> QED BY <1>2, <1>3 DEF CountIsAbove

\* A booking is completed or refunded.
LEMMA LoyaltyStep ==
    ASSUME VipInvariant, NEW c \in Patrons, NEW m \in RewardMonths, LoyaltyChanges(c, m)
    PROVE  VipInvariant'
<1>1. /\ UNCHANGED <<enabled, stockVars, given, thanked, batch>>
      /\ vipReport' = [vipReport EXCEPT !.grew = @ \/ <<c, m>> \notin loyal]
      /\ <<c, m>> \in loyal => loyal' \subseteq loyal
  BY DEF LoyaltyChanges
<1>2. \A b \in Batches : batch[b].locked \subseteq enabled'
  BY <1>1, RowOf DEF RowIsSafe, LocksInOrder
<1>3. /\ vipReport \in [step : {"none", "counted", "shown"}, month : Nat, total : Nat,
                        rewarded : Nat, grew : BOOLEAN]
  BY DEF VipInvariant, VipShape
<1>4. PICK p \in BOOLEAN : p = (vipReport.grew \/ <<c, m>> \notin loyal)
  OBVIOUS
<1>5. vipReport' = [vipReport EXCEPT !.grew = p]
  BY <1>1, <1>4
<1>6. /\ vipReport' \in [step : {"none", "counted", "shown"}, month : Nat, total : Nat,
                         rewarded : Nat, grew : BOOLEAN]
      /\ vipReport'.step = vipReport.step /\ vipReport'.month = vipReport.month
      /\ vipReport'.total = vipReport.total /\ vipReport'.rewarded = vipReport.rewarded
      /\ vipReport'.grew = p
  BY <1>3, <1>5
<1>7. ~vipReport'.grew => ~vipReport.grew /\ loyal' \subseteq loyal
  BY <1>1, <1>4, <1>6
<1>8. CountIsAbove'
  <2>1. ~vipReport'.grew => Eligible(vipReport.month)' \subseteq Eligible(vipReport.month)
    BY <1>1, <1>6, <1>7 DEF Eligible
  <2> QED BY <1>6, <1>7, <2>1, CountStays
<1> QED BY <1>1, <1>2, <1>6, <1>8, StockStays, AsideMoves

\* An account that nobody has locked is closed.
LEMMA DeactivateStep ==
    ASSUME VipInvariant, NEW c \in Patrons, DeactivateAccount(c)
    PROVE  VipInvariant'
<1>1. /\ UNCHANGED <<loyal, stockVars, given, thanked, batch, vipReport>> /\ enabled' = enabled \ {c}
      /\ \A b \in Batches : c \notin batch[b].locked
  BY DEF DeactivateAccount
<1>2. \A b \in Batches : batch[b].locked \subseteq enabled'
  BY <1>1, RowOf DEF RowIsSafe, LocksInOrder
<1>3. Eligible(vipReport.month)' \subseteq Eligible(vipReport.month)
  BY <1>1 DEF Eligible
<1>4. CountIsAbove'
  BY <1>1, <1>3, CountStays
<1> QED BY <1>1, <1>2, <1>4, StockStays, AsideMoves DEF VipInvariant, VipShape

\* A step of the vouchers alone, away from who holds one.
LEMMA VipAside ==
    ASSUME VipInvariant, UNCHANGED <<loyal, enabled, given, thanked, batch, vipReport>>,
           StockShape', EditsAreUpToDate', IssuedAreCounted',
           \A b \in Batches, v \in Thanks :
               Holds(b, v) => stock'[v].issued = stock[v].issued /\ stock'[v].limit = stock[v].limit
    PROVE  VipInvariant'
<1>1. \A b \in Batches : batch[b].locked \subseteq enabled'
  BY RowOf DEF RowIsSafe, LocksInOrder
<1>2. CountIsAbove'
  BY DEF VipInvariant, CountIsAbove, ReportIsSane, Eligible
<1> QED BY <1>1, <1>2, AsideMoves DEF VipInvariant, VipShape

\* A voucher that ends is counted as before.
LEMMA EndStep ==
    ASSUME VipInvariant, NEW v \in Thanks, EndVoucher(v)
    PROVE  VipInvariant'
<1>1. /\ UNCHANGED <<loyal, enabled, rewrites, outdated, given, thanked, batch, vipReport>>
      /\ stock' = [stock EXCEPT ![v].ended = TRUE] /\ stock \in [Thanks -> StockRows]
  BY DEF EndVoucher, VipInvariant, StockShape
<1>2. /\ stock' \in [Thanks -> StockRows]
      /\ \A u \in Thanks : stock'[u].issued = stock[u].issued /\ stock'[u].limit = stock[u].limit
  BY <1>1 DEF StockRows
<1>3. StockShape'
  BY <1>1, <1>2 DEF VipInvariant, StockShape
<1>4. IssuedAreCounted'
  BY <1>1, <1>2 DEF VipInvariant, IssuedAreCounted, IssuedOf
<1>5. EditsAreUpToDate'
  BY <1>1, <1>2 DEF VipInvariant, EditsAreUpToDate, StockShape
<1> QED BY <1>1, <1>2, <1>3, <1>4, <1>5, VipAside

\* An edit read the row and passed its validation.
LEMMA BeginStep ==
    ASSUME VipInvariant, NEW v \in Thanks, NEW limit \in Quotas, NEW ended \in BOOLEAN,
           BeginRewrite(v, limit, ended)
    PROVE  VipInvariant'
<1> DEFINE row == [limit |-> limit, issued |-> stock[v].issued, ended |-> ended]
           new == [voucher |-> v, row |-> row]
<1>1. /\ UNCHANGED <<loyal, enabled, stock, outdated, given, thanked, batch, vipReport>>
      /\ rewrites' = rewrites \cup {new} /\ limit >= stock[v].issued
      /\ stock \in [Thanks -> StockRows]
  BY DEF BeginRewrite, VipInvariant, StockShape
<1>2. row \in StockRows /\ stock[v].issued \in Nat /\ limit \in Nat
  BY <1>1, VipAssumption DEF StockRows
<1>3. /\ new \in [voucher : Thanks, row : StockRows] /\ new.voucher = v
      /\ new.row.issued = stock[v].issued /\ new.row.limit = limit
  BY <1>2
<1> HIDE DEF new
<1>4. StockShape'
  BY <1>1, <1>3 DEF VipInvariant, StockShape
<1>5. IssuedAreCounted'
  BY <1>1 DEF VipInvariant, IssuedAreCounted, IssuedOf
<1>6. EditsAreUpToDate'
  BY <1>1, <1>2, <1>3 DEF VipInvariant, EditsAreUpToDate
<1> QED BY <1>1, <1>4, <1>5, <1>6, VipAside

\* An edit puts the whole row back, when nobody has it locked.
LEMMA FinishStep ==
    ASSUME VipInvariant, NEW e \in rewrites, FinishRewrite(e)
    PROVE  VipInvariant'
<1>1. /\ UNCHANGED <<loyal, enabled, outdated, given, thanked, batch, vipReport>>
      /\ stock' = [stock EXCEPT ![e.voucher] = e.row] /\ rewrites' \subseteq rewrites
      /\ \A b \in Batches : ~Holds(b, e.voucher)
      /\ stock \in [Thanks -> StockRows] /\ e.voucher \in Thanks /\ e.row \in StockRows
      /\ e.row.issued <= e.row.limit
      /\ e.voucher \notin outdated => e.row.issued = stock[e.voucher].issued
  BY DEF FinishRewrite, VipInvariant, StockShape, EditsAreUpToDate
<1>2. /\ stock' \in [Thanks -> StockRows] /\ stock'[e.voucher] = e.row
      /\ \A u \in Thanks : u # e.voucher => stock'[u] = stock[u]
  BY <1>1
<1>3. StockShape'
  BY <1>1, <1>2 DEF VipInvariant, StockShape
<1>4. IssuedAreCounted'
  <2>1. \A u \in Thanks : IssuedOf(u)' = IssuedOf(u)
    BY <1>1 DEF IssuedOf
  <2> QED BY <1>1, <1>2, <2>1 DEF VipInvariant, IssuedAreCounted
<1>5. EditsAreUpToDate'
  <2>1. ASSUME NEW f \in rewrites, f.voucher \notin outdated PROVE f.row.issued = stock'[f.voucher].issued
    <3>1. f.row.issued = stock[f.voucher].issued /\ f.voucher \in Thanks
      BY <2>1 DEF VipInvariant, EditsAreUpToDate, StockShape
    <3> QED BY <1>1, <1>2, <2>1, <3>1
  <2> QED BY <1>1, <2>1 DEF VipInvariant, EditsAreUpToDate
<1> QED BY <1>1, <1>2, <1>3, <1>4, <1>5, VipAside

\* The report is put together.
LEMMA ReportStep ==
    ASSUME VipInvariant, (\E m \in RewardMonths : OpenReport(m)) \/ CountRewarded \/ CloseReport
    PROVE  VipInvariant'
<1> DEFINE Reports == [step : {"none", "counted", "shown"}, month : Nat, total : Nat,
                       rewarded : Nat, grew : BOOLEAN]
<1>1. /\ UNCHANGED <<loyal, enabled, stockVars, given, thanked, batch>>
      /\ \A b \in Batches : batch[b].locked \subseteq enabled'
  <2>1. UNCHANGED <<loyal, enabled, stockVars, given, thanked, batch>>
    BY DEF OpenReport, CountRewarded, CloseReport
  <2> QED BY <2>1, RowOf DEF RowIsSafe, LocksInOrder
<1>2. ASSUME NEW m \in RewardMonths, OpenReport(m) PROVE vipReport' \in Reports /\ CountIsAbove'
  <2>1. vipReport' = [step |-> "counted", month |-> m, total |-> Cardinality(Eligible(m)),
                      rewarded |-> 0, grew |-> FALSE]
    BY <1>2 DEF OpenReport
  <2>2. Cardinality(Eligible(m)) \in Nat /\ m \in Nat
    BY EligibleCount, VipAssumption
  <2>3. Eligible(m) = {c \in enabled' : <<c, m>> \in loyal'}
    BY <1>1 DEF Eligible
  <2>4. /\ vipReport'.step = "counted" /\ vipReport'.month = m
        /\ vipReport'.total = Cardinality(Eligible(m))
    BY <2>1
  <2>5. Cardinality(Eligible(vipReport.month)') <= vipReport'.total
    <3>1. Eligible(vipReport.month)' = Eligible(m)
      BY <2>3, <2>4 DEF Eligible
    <3> QED BY <2>2, <2>4, <3>1
  <2> QED BY <2>1, <2>2, <2>4, <2>5 DEF CountIsAbove, ReportIsSane
<1>3. ASSUME CountRewarded PROVE vipReport' \in Reports /\ CountIsAbove'
  <2> DEFINE m == vipReport.month
             both == Eligible(m) \cap ThankedIn(m)
  <2>1. /\ vipReport.step = "counted"
        /\ vipReport' = [vipReport EXCEPT !.step = "shown", !.rewarded = Cardinality(both)]
    BY <1>3 DEF CountRewarded
  <2>2. /\ Cardinality(Eligible(m)) \in Nat /\ Cardinality(both) \in Nat
        /\ Cardinality(both) <= Cardinality(Eligible(m))
    BY EligibleCount
  <2>3. vipReport \in Reports /\ CountIsAbove
    BY DEF VipInvariant, VipShape
  <2> HIDE DEF both
  <2>4. /\ vipReport' \in Reports /\ vipReport'.step = "shown" /\ vipReport'.total = vipReport.total
        /\ vipReport'.rewarded = Cardinality(both) /\ vipReport'.grew = vipReport.grew
    BY <2>1, <2>2, <2>3
  <2>5. ~vipReport'.grew => vipReport'.rewarded <= vipReport'.total
    <3>1. ~vipReport.grew => Cardinality(Eligible(m)) <= vipReport.total
      BY <2>1, <2>3 DEF CountIsAbove
    <3>2. vipReport.total \in Nat
      BY <2>3
    <3> QED BY <2>2, <2>4, <3>1, <3>2
  <2>6. vipReport'.step # "counted"
    BY <2>4
  <2> HIDE DEF Reports, m
  <2> QED BY <2>4, <2>5, <2>6 DEF CountIsAbove, ReportIsSane
<1>4. ASSUME CloseReport PROVE vipReport' \in Reports /\ CountIsAbove'
  <2>1. vipReport' = NoReport
    BY <1>4 DEF CloseReport
  <2>2. vipReport' \in Reports /\ vipReport'.step = "none"
    BY <2>1 DEF NoReport
  <2> QED BY <2>2 DEF CountIsAbove, ReportIsSane
<1>5. vipReport' \in Reports /\ CountIsAbove'
  <2> HIDE DEF Reports
  <2> QED BY <1>2, <1>3, <1>4
<1> QED BY <1>1, <1>5, StockStays, AsideMoves

\* Every step keeps the invariant.
LEMMA VipStep ==
    ASSUME VipInvariant, [VipNext]_vipVars
    PROVE  VipInvariant'
<1>1. ASSUME NEW b \in Batches, NEW v \in Thanks, NEW ids \in (SUBSET Patrons) \ {{}},
             NEW m \in RewardMonths, AskBatch(b, v, ids, m)
      PROVE  VipInvariant'
  BY <1>1, BatchAsked, VipAssumption
<1>2. ASSUME NEW b \in Batches, NEW v \in Thanks, NEW c \in Patrons, AskByHand(b, v, c)
      PROVE  VipInvariant'
  <2>1. AskBatch(b, v, {c}, 0) /\ {c} \in SUBSET Patrons /\ {c} # {} /\ 0 \in Nat
    BY <1>2 DEF AskByHand
  <2> QED BY <2>1, BatchAsked
<1>3. ASSUME NEW b \in Batches,
             LockVoucher(b) \/ LockCustomer(b) \/ CheckCustomers(b) \/ GiveNext(b) \/ CommitBatch(b)
      PROVE  VipInvariant'
  BY <1>3, BatchLocks, BatchLocksCustomer, BatchChecks, BatchGives, BatchCommits
<1>4. ASSUME NEW b \in Batches, GiveByHand(b) \/ LoseBatch(b)
      PROVE  VipInvariant'
  BY <1>4, GivenByHand, BatchOver DEF LoseBatch
<1>5. ASSUME NEW c \in Patrons, NEW m \in RewardMonths, LoyaltyChanges(c, m) PROVE VipInvariant'
  BY <1>5, LoyaltyStep
<1>6. ASSUME NEW c \in Patrons, DeactivateAccount(c) PROVE VipInvariant'
  BY <1>6, DeactivateStep
<1>7. CASE UNCHANGED vipVars
  BY <1>7, StockStays, VipAside DEF vipVars, stockVars
<1>8. CASE (\E m \in RewardMonths : OpenReport(m)) \/ CountRewarded \/ CloseReport
  BY <1>8, ReportStep
<1>9. ASSUME NEW v \in Thanks,
             \/ EndVoucher(v)
             \/ \E limit \in Quotas, ended \in BOOLEAN : BeginRewrite(v, limit, ended)
      PROVE  VipInvariant'
  BY <1>9, EndStep, BeginStep
<1>10. ASSUME NEW e \in rewrites, FinishRewrite(e) PROVE VipInvariant'
  BY <1>10, FinishStep
<1> QED BY <1>1, <1>2, <1>3, <1>4, <1>5, <1>6, <1>7, <1>8, <1>9, <1>10 DEF VipNext

\* Nothing is asked for or given at first.
LEMMA VipStart == VipInit => VipInvariant
<1> SUFFICES ASSUME VipInit PROVE VipInvariant
  OBVIOUS
<1>1. /\ enabled = Patrons /\ given = {} /\ thanked = {} /\ vipReport = NoReport
      /\ batch = [b \in Batches |-> Fresh]
  BY DEF VipInit
<1>2. Fresh \in BatchRows /\ Fresh.step = "new" /\ Fresh.locked = {}
  BY DEF Fresh, BatchRows, VipSteps
<1>3. VipShape
  BY <1>1, <1>2 DEF VipShape, NoReport
<1>4. LocksExclude
  BY <1>1, <1>2 DEF LocksExclude, Holds
<1>5. \A b \in Batches : RowIsSafe(batch[b])
  BY <1>1, <1>2 DEF RowIsSafe, LocksInOrder
<1>6. OncePerMonth /\ CountIsAbove
  BY <1>1 DEF OncePerMonth, CountIsAbove, ReportIsSane, NoReport
<1>7. RewardIsAVoucher
  BY <1>1 DEF RewardIsAVoucher
<1>8. /\ stock = [v \in Thanks |-> [limit |-> IssueLimit[v], issued |-> 0, ended |-> FALSE]]
      /\ rewrites = {}
  BY DEF VipInit
<1>9. StockShape /\ EditsAreUpToDate
  BY <1>8, VipAssumption DEF StockShape, EditsAreUpToDate, StockRows
<1>10. IssuedAreCounted
  <2>1. \A v \in Thanks : IssuedOf(v) = 0 /\ stock[v].issued = 0 /\ stock[v].limit \in Nat
    <3>1. \A v \in Thanks : {g \in given : g[2] = v} = {}
      BY <1>1
    <3> QED BY <1>8, <3>1, FS_EmptySet, VipAssumption DEF IssuedOf
  <2> QED BY <2>1 DEF IssuedAreCounted
<1> QED BY <1>3, <1>4, <1>5, <1>6, <1>7, <1>9, <1>10 DEF VipInvariant

\* Whatever batches and single vouchers are asked for, wait for each other and are lost
\* with their process, and however vouchers are edited meanwhile: a customer is thanked once
\* for a month, by a voucher that is his; of a voucher that nobody was given while it was
\* being edited no more are issued than may be; a batch is whole or nothing; nothing is
\* given to a closed account; some request always goes on; and the report never counts more
\* thanks than customers.
THEOREM ThanksStaySafe == VipSpec => []VipSafe
<1>1. VipInvariant /\ [VipNext]_vipVars => VipInvariant'
  BY VipStep
<1>2. VipInvariant => VipSafe
  <2> SUFFICES ASSUME VipInvariant PROVE VipSafe
    OBVIOUS
  <2>1. \A b \in Batches : RowIsSafe(batch[b])
    BY DEF VipInvariant
  <2>2. ThankedOnce /\ RewardIsAVoucher /\ IssuedAreCounted /\ BatchIsWhole /\ ReportIsSane
    BY <2>1 DEF ThankedOnce, OncePerMonth, BatchIsWhole, VipInvariant, RowIsSafe, CountIsAbove
  <2>3. GivenToActive
    BY <2>1 DEF GivenToActive, RowIsSafe, LocksInOrder, GivesWhatItMay
  <2> QED BY <2>2, <2>3, SomebodyGoesOn DEF VipSafe
<1> QED BY <1>1, <1>2, VipStart, PTL DEF VipSpec

-----------------------------------------------------------------------------
(* Numbers and sets. *)

\* Of natural numbers there is a least.
LEMMA LeastExists ==
    ASSUME NEW S, S \subseteq Nat, S # {}
    PROVE \E m \in S : \A n \in S : m <= n
<1> DEFINE R == {p \in Nat \X Nat : p[1] < p[2]}
<1>1. IsWellFoundedOn(R, Nat)
  BY NatLessThanWellFounded DEF OpToRel
<1>2. PICK m \in S : \A y \in S : ~(<<y, m>> \in R)
  BY <1>1, WFMin
<1>3. ASSUME NEW n \in S PROVE m <= n
  <2>1. m \in Nat /\ n \in Nat /\ ~(<<n, m>> \in R)
    BY <1>2
  <2>2. <<n, m>> \in Nat \X Nat /\ <<n, m>>[1] = n /\ <<n, m>>[2] = m
    BY <2>1
  <2>3. ~(n < m)
    BY <2>1, <2>2
  <2> QED BY <2>1, <2>3
<1> QED BY <1>3

\* The image of a finite set is finite and no larger; as large when the function is one to one.
LEMMA ImageIsSmaller ==
    ASSUME NEW S, IsFiniteSet(S), NEW T, NEW f, f \in [S -> T], \A t \in T : \E s \in S : f[s] = t
    PROVE  /\ IsFiniteSet(T) /\ Cardinality(T) <= Cardinality(S)
           /\ (\A a, b \in S : f[a] = f[b] => a = b) => Cardinality(T) = Cardinality(S)
<1>1. f \in Surjection(S, T)
  BY DEF Surjection
<1>2. /\ IsFiniteSet(T) /\ Cardinality(T) <= Cardinality(S)
      /\ Cardinality(T) = Cardinality(S) <=> f \in Injection(S, T)
  BY <1>1, FS_Surjection
<1>3. (\A a, b \in S : f[a] = f[b] => a = b) => f \in Injection(S, T)
  BY DEF Injection, IsInjective
<1> QED BY <1>2, <1>3

-----------------------------------------------------------------------------
(* The worker's desk. *)

JobStatuses == Ongoing \cup Ended
JobRows == [status : JobStatuses, who : Helpers \cup {NoHelper}, terms : 0..MaxTerms,
            absent : Helpers \cup {NoHelper}]
AskSteps == {"idle", "inside", "leaving", "linking", "dead"}
AskRows == [step : AskSteps, by : Helpers \cup {NoHelper}, wants : SUBSET Jobs, whole : BOOLEAN,
            lock : LockNames \cup {{}}, expired : BOOLEAN, got : SUBSET (Jobs \X Nat)]

DeskShape ==
    /\ today \in Days
    /\ job \in [Jobs -> JobRows]
    /\ lockedBy \in [LockNames -> Asks \cup {NoAsk}]
    /\ ask \in [Asks -> AskRows]
    /\ links \in SUBSET (Jobs \X Nat) /\ unlinked \in SUBSET (Jobs \X Nat)
    /\ links \cap unlinked = {}

\* A worker who has a session was accepted for it; what was cancelled or missed is nobody's.
JobsFit ==
    \A j \in Jobs :
        /\ job[j].who # NoHelper => job[j].terms > 0
        /\ job[j].status \in {"CANCELLED", "MISSED"} => job[j].who = NoHelper

\* A lock that has not expired is held by its request.
AsksFit ==
    \A r \in Asks :
        /\ ask[r].step = "inside" => ask[r].by \in Helpers
        /\ ask[r].step \in {"inside", "dead", "idle"} => ask[r].got = {}
        /\ ask[r].lock # {} /\ ~ask[r].expired => lockedBy[ask[r].lock] = r

\* What is linked, is not, or will be, was accepted; and the last acceptance of a session
\* that somebody has is one of them.
AcceptedOnly ==
    /\ \A a \in links \cup unlinked : a[2] \in 1..job[a[1]].terms
    /\ \A r \in Asks : \A a \in ask[r].got : a[2] \in 1..job[a[1]].terms

LastIsKnown ==
    \A j \in Jobs :
        job[j].who # NoHelper =>
            \/ Acceptance(j) \in links \cup unlinked
            \/ \E r \in Asks : Acceptance(j) \in ask[r].got

DeskInvariant == DeskShape /\ JobsFit /\ AsksFit /\ AcceptedOnly /\ LastIsKnown

-----------------------------------------------------------------------------
LEMMA OfAsk ==
    ASSUME DeskShape, NEW r \in Asks
    PROVE  /\ ask[r] \in AskRows /\ ask[r].wants \subseteq Jobs /\ ask[r].by \in Helpers \cup {NoHelper}
           /\ ask[r].whole \in BOOLEAN /\ ask[r].got \subseteq Jobs \X Nat
           /\ ask[r].lock \in LockNames \cup {{}} /\ ask[r].expired \in BOOLEAN
           /\ ask[r].step \in AskSteps
BY DEF DeskShape, AskRows

LEMMA OfJob ==
    ASSUME DeskShape, NEW j \in Jobs
    PROVE  /\ job[j] \in JobRows /\ job[j].terms \in 0..MaxTerms /\ job[j].terms \in Nat
           /\ job[j].who \in Helpers \cup {NoHelper} /\ job[j].status \in JobStatuses
<1>1. job[j] \in JobRows
  BY DEF DeskShape
<1>2. job[j].terms \in 0..MaxTerms
  BY <1>1 DEF JobRows
<1>3. job[j].terms \in Nat
  BY <1>2
<1> QED BY <1>1, <1>2, <1>3 DEF JobRows

LEMMA Idle == /\ NotAsking \in AskRows
              /\ NotAsking.step = "idle" /\ NotAsking.got = {} /\ NotAsking.lock = {}
BY DEF NotAsking, AskRows, AskSteps

\* A step of request r that leaves the sessions alone.
AskMoves(r, row) ==
    /\ today' = today /\ job' = job
    /\ ask' = [ask EXCEPT ![r] = row]
    /\ row.step = "inside" => row.by \in Helpers
    /\ row.step \in {"inside", "dead", "idle"} => row.got = {}
    /\ row.got \subseteq ask[r].got
    /\ links \subseteq links' /\ links' \cap unlinked' = {}
    /\ links' \subseteq links \cup ask[r].got /\ unlinked' \subseteq unlinked \cup ask[r].got
    /\ unlinked \subseteq unlinked' \cup links'
    /\ ask[r].got \subseteq row.got \cup links' \cup unlinked'

\* The locks: r takes a free one, gives its own back, or leaves them alone.
LocksMove(r, row) ==
    \/ /\ lockedBy' = lockedBy
       /\ row.lock # {} /\ ~row.expired => lockedBy[row.lock] = r
    \/ /\ row.lock \in LockNames /\ lockedBy[row.lock] = NoAsk
       /\ lockedBy' = [lockedBy EXCEPT ![row.lock] = r]
    \/ \E name \in LockNames :
          /\ lockedBy[name] = r /\ lockedBy' = [lockedBy EXCEPT ![name] = NoAsk]
          /\ (row.lock = {} \/ row.expired)

LEMMA KeepsWithAsk ==
    ASSUME WorkerDeskAssumption, DeskInvariant, NEW r \in Asks, NEW row \in AskRows,
           AskMoves(r, row), LocksMove(r, row)
    PROVE  DeskInvariant'
<1> USE DEF DeskInvariant, AskMoves
<1>1. /\ ask' \in [Asks -> AskRows] /\ ask'[r] = row
      /\ \A s \in Asks : s # r => ask'[s] = ask[s]
  BY DEF DeskShape
<1>2. lockedBy' \in [LockNames -> Asks \cup {NoAsk}]
  BY DEF LocksMove, DeskShape
<1>3. ask[r].got \subseteq Jobs \X Nat
  BY OfAsk
<1>4. DeskShape'
  BY <1>1, <1>2, <1>3 DEF DeskShape
<1>5. JobsFit'
  BY DEF JobsFit
<1>6. \A s \in Asks : ask'[s].lock # {} /\ ~ask'[s].expired => lockedBy'[ask'[s].lock] = s
  <2> SUFFICES ASSUME NEW s \in Asks, ask'[s].lock # {}, ~ask'[s].expired
               PROVE  lockedBy'[ask'[s].lock] = s
    OBVIOUS
  <2>1. CASE s = r
    <3>1. ask'[s] = row
      BY <1>1, <2>1
    <3>2. row.lock # {} /\ ~row.expired
      BY <3>1
    <3> QED BY <2>1, <3>1, <3>2 DEF LocksMove, DeskShape
  <2>2. CASE s # r
    <3>1. ask'[s] = ask[s]
      BY <1>1, <2>2
    <3>2. /\ lockedBy[ask[s].lock] = s /\ ask[s].lock \in LockNames /\ s # NoAsk
      BY <3>1, OfAsk DEF AsksFit, WorkerDeskAssumption
    <3>3. lockedBy'[ask[s].lock] = lockedBy[ask[s].lock]
      BY <2>2, <3>2 DEF LocksMove, DeskShape
    <3> QED BY <3>1, <3>2, <3>3
  <2> QED BY <2>1, <2>2
<1>7. AsksFit'
  BY <1>1, <1>6 DEF AsksFit
<1>8. AcceptedOnly'
  BY <1>1 DEF AcceptedOnly
<1>9. LastIsKnown'
  <2> SUFFICES ASSUME NEW j \in Jobs, job[j].who # NoHelper
               PROVE  \/ Acceptance(j) \in links' \cup unlinked'
                      \/ \E s \in Asks : Acceptance(j) \in ask'[s].got
    BY DEF LastIsKnown, Acceptance
  <2>1. \/ Acceptance(j) \in links \cup unlinked
        \/ \E s \in Asks : Acceptance(j) \in ask[s].got
    BY DEF LastIsKnown
  <2> QED BY <1>1, <2>1
<1> QED BY <1>4, <1>5, <1>7, <1>8, <1>9

LEMMA KeepsWithEnter ==
    ASSUME WorkerDeskAssumption, DeskInvariant, NEW r \in Asks, NEW h \in Helpers, NEW wants \in SUBSET Jobs,
           NEW whole \in BOOLEAN, NEW lock \in LockNames \cup {{}}, EntersWith(r, h, wants, whole, lock)
    PROVE  DeskInvariant'
<1>1. PICK row \in AskRows :
        /\ row = [NotAsking EXCEPT !.step = "inside", !.by = h, !.wants = wants, !.whole = whole, !.lock = lock]
        /\ row.step = "inside" /\ row.by = h /\ row.got = {} /\ row.lock = lock /\ ~row.expired
  <2>1. /\ [NotAsking EXCEPT !.step = "inside", !.by = h, !.wants = wants, !.whole = whole, !.lock = lock]
               \in AskRows
        /\ [NotAsking EXCEPT !.step = "inside", !.by = h, !.wants = wants, !.whole = whole, !.lock = lock].step = "inside"
        /\ [NotAsking EXCEPT !.step = "inside", !.by = h, !.wants = wants, !.whole = whole, !.lock = lock].by = h
        /\ [NotAsking EXCEPT !.step = "inside", !.by = h, !.wants = wants, !.whole = whole, !.lock = lock].got = {}
        /\ [NotAsking EXCEPT !.step = "inside", !.by = h, !.wants = wants, !.whole = whole, !.lock = lock].lock = lock
        /\ ~[NotAsking EXCEPT !.step = "inside", !.by = h, !.wants = wants, !.whole = whole, !.lock = lock].expired
    BY DEF NotAsking, AskRows, AskSteps
  <2> QED BY <2>1
<1>2. ask[r].got = {} /\ row.got = {}
  BY <1>1, Idle DEF EntersWith
<1>3. ask' = [ask EXCEPT ![r] = row]
  BY <1>1 DEF EntersWith
<1>4. AskMoves(r, row)
  BY <1>1, <1>2, <1>3 DEF EntersWith, AskMoves, DeskInvariant, DeskShape
<1>5. LocksMove(r, row)
  <2>1. CASE lock = {}
    BY <1>1, <2>1 DEF EntersWith, LocksMove
  <2>2. CASE lock # {}
    BY <1>1, <2>2 DEF EntersWith, LocksMove
  <2> QED BY <2>1, <2>2
<1> QED BY <1>4, <1>5, KeepsWithAsk

LEMMA KeepsWithLockExpires ==
    ASSUME WorkerDeskAssumption, DeskInvariant, NEW r \in Asks, LockExpires(r)
    PROVE  DeskInvariant'
<1>1. PICK old \in AskRows : old = ask[r] /\ old.lock \in LockNames
  BY OfAsk DEF DeskInvariant, LockExpires
<1>2. PICK row \in AskRows : /\ ask' = [ask EXCEPT ![r] = row]
                             /\ row.lock = {} \/ row.expired
                             /\ row.got = old.got
                             /\ row.step = "inside" => row.by \in Helpers
                             /\ row.step \in {"inside", "dead", "idle"} => row.got = {}
  <2>1. CASE old.step = "dead"
    <3>1. old.got = {}
      BY <1>1, <2>1 DEF DeskInvariant, AsksFit
    <3> QED BY <1>1, <2>1, <3>1, Idle DEF LockExpires
  <2>2. CASE old.step # "dead"
    <3>1. PICK row \in AskRows : /\ row = [old EXCEPT !.expired = TRUE]
                                 /\ row.expired /\ row.got = old.got /\ row.step = old.step /\ row.by = old.by
      <4>1. /\ [old EXCEPT !.expired = TRUE] \in AskRows
            /\ [old EXCEPT !.expired = TRUE].expired /\ [old EXCEPT !.expired = TRUE].got = old.got
            /\ [old EXCEPT !.expired = TRUE].step = old.step /\ [old EXCEPT !.expired = TRUE].by = old.by
        BY DEF AskRows
      <4> QED BY <4>1
    <3>2. ask' = [ask EXCEPT ![r] = row]
      BY <1>1, <2>2, <3>1 DEF LockExpires
    <3> QED BY <1>1, <3>1, <3>2 DEF DeskInvariant, AsksFit
  <2> QED BY <2>1, <2>2
<1>3. AskMoves(r, row)
  BY <1>1, <1>2 DEF LockExpires, AskMoves, DeskInvariant, DeskShape
<1>4. LocksMove(r, row)
  BY <1>1, <1>2 DEF LockExpires, LocksMove
<1> QED BY <1>3, <1>4, KeepsWithAsk

LEMMA KeepsWithLeaveLock ==
    ASSUME WorkerDeskAssumption, DeskInvariant, NEW r \in Asks, LeaveLock(r)
    PROVE  DeskInvariant'
<1>1. PICK old \in AskRows : old = ask[r] /\ old.lock \in LockNames \cup {{}}
  BY OfAsk DEF DeskInvariant
<1>2. PICK row \in AskRows : /\ row = Serving(r)
                             /\ row.lock = {} /\ row.got = old.got
                             /\ row.step \in {"idle", "linking"}
                             /\ row.step = "idle" => row.got = {}
  <2>1. CASE old.got = {}
    BY <1>1, <2>1, Idle DEF Serving
  <2>2. CASE old.got # {}
    <3>1. /\ [old EXCEPT !.step = "linking", !.lock = {}, !.expired = FALSE] \in AskRows
          /\ [old EXCEPT !.step = "linking", !.lock = {}, !.expired = FALSE].step = "linking"
          /\ [old EXCEPT !.step = "linking", !.lock = {}, !.expired = FALSE].lock = {}
          /\ [old EXCEPT !.step = "linking", !.lock = {}, !.expired = FALSE].got = old.got
      BY DEF AskRows, AskSteps
    <3> QED BY <1>1, <2>2, <3>1 DEF Serving
  <2> QED BY <2>1, <2>2
<1>3. AskMoves(r, row)
  BY <1>1, <1>2 DEF LeaveLock, AskMoves, DeskInvariant, DeskShape
<1>4. LocksMove(r, row)
  BY <1>1, <1>2 DEF LeaveLock, LocksMove
<1> QED BY <1>3, <1>4, KeepsWithAsk

\* One acceptance less to link.
LEMMA LinkedIsLess ==
    ASSUME DeskInvariant, NEW r \in Asks, NEW a \in ask[r].got, ask[r].step = "linking"
    PROVE  \E row \in AskRows : /\ row = Linked(r, a)
                                /\ row.got = ask[r].got \ {a}
                                /\ row.step \in {"idle", "linking"}
                                /\ row.step = "idle" => row.got = {}
                                /\ row.lock = {} \/ (row.lock = ask[r].lock /\ row.expired = ask[r].expired)
<1>1. PICK old \in AskRows : old = ask[r]
  BY OfAsk DEF DeskInvariant
<1>2. CASE old.got = {a}
  BY <1>1, <1>2, Idle DEF Linked
<1>3. CASE old.got # {a}
  <2>1. PICK got \in SUBSET (Jobs \X Nat) : got = old.got \ {a}
    BY DEF AskRows
  <2>2. /\ [old EXCEPT !.got = got] \in AskRows
        /\ [old EXCEPT !.got = got].got = got
        /\ [old EXCEPT !.got = got].step = old.step /\ [old EXCEPT !.got = got].lock = old.lock
        /\ [old EXCEPT !.got = got].expired = old.expired
    BY DEF AskRows
  <2> QED BY <1>1, <1>3, <2>1, <2>2 DEF Linked
<1> QED BY <1>2, <1>3

LEMMA KeepsWithLinking ==
    ASSUME WorkerDeskAssumption, DeskInvariant, NEW r \in Asks, NEW a \in ask[r].got,
           EnsureChat(r, a) \/ ChatFails(r, a)
    PROVE  DeskInvariant'
<1>1. ask[r].step = "linking"
  BY DEF EnsureChat, ChatFails
<1>2. PICK row \in AskRows : /\ row = Linked(r, a)
                             /\ row.got = ask[r].got \ {a}
                             /\ row.step \in {"idle", "linking"}
                             /\ row.step = "idle" => row.got = {}
                             /\ row.lock = {} \/ (row.lock = ask[r].lock /\ row.expired = ask[r].expired)
  BY <1>1, LinkedIsLess
<1>3. ask' = [ask EXCEPT ![r] = row] /\ today' = today /\ job' = job /\ lockedBy' = lockedBy
  BY <1>2 DEF EnsureChat, ChatFails
<1>4. /\ links \subseteq links' /\ links' \cap unlinked' = {}
      /\ links' \subseteq links \cup {a} /\ unlinked' \subseteq unlinked \cup {a}
      /\ unlinked \subseteq unlinked' \cup links' /\ a \in links' \cup unlinked'
  BY DEF EnsureChat, ChatFails, DeskInvariant, DeskShape
<1>5. AskMoves(r, row)
  BY <1>2, <1>3, <1>4 DEF AskMoves
<1>6. LocksMove(r, row)
  BY <1>2, <1>3 DEF LocksMove, DeskInvariant, AsksFit
<1> QED BY <1>5, <1>6, KeepsWithAsk

LEMMA KeepsWithAskDies ==
    ASSUME WorkerDeskAssumption, DeskInvariant, NEW r \in Asks, AskDies(r)
    PROVE  DeskInvariant'
<1>1. PICK old \in AskRows : old = ask[r] /\ old.lock \in LockNames \cup {{}}
  BY OfAsk DEF DeskInvariant
<1>2. PICK row \in AskRows : /\ ask' = [ask EXCEPT ![r] = row]
                             /\ row.got = {} /\ row.step # "inside"
                             /\ row.lock = {} \/ lockedBy[row.lock] = r
  <2>1. CASE old.lock # {} /\ lockedBy[old.lock] = r
    <3>1. PICK row \in AskRows : /\ row = [NotAsking EXCEPT !.step = "dead", !.lock = old.lock]
                                 /\ row.got = {} /\ row.step = "dead" /\ row.lock = old.lock
      <4>1. /\ [NotAsking EXCEPT !.step = "dead", !.lock = old.lock] \in AskRows
            /\ [NotAsking EXCEPT !.step = "dead", !.lock = old.lock].got = {}
            /\ [NotAsking EXCEPT !.step = "dead", !.lock = old.lock].step = "dead"
            /\ [NotAsking EXCEPT !.step = "dead", !.lock = old.lock].lock = old.lock
        BY <1>1, Idle DEF AskRows, AskSteps
      <4> QED BY <4>1
    <3>2. ask' = [ask EXCEPT ![r] = row]
      BY <1>1, <2>1, <3>1 DEF AskDies
    <3> QED BY <2>1, <3>1, <3>2
  <2>2. CASE ~(old.lock # {} /\ lockedBy[old.lock] = r)
    BY <1>1, <2>2, Idle DEF AskDies
  <2> QED BY <2>1, <2>2
<1>3. AskMoves(r, row)
  BY <1>1, <1>2 DEF AskDies, AskMoves, DeskInvariant, DeskShape
<1>4. LocksMove(r, row)
  BY <1>2 DEF AskDies, LocksMove
<1> QED BY <1>3, <1>4, KeepsWithAsk

-----------------------------------------------------------------------------
(* The sessions *)

LEMMA KeepsWithServeAsk ==
    ASSUME WorkerDeskAssumption, DeskInvariant, NEW r \in Asks, ServeAsk(r)
    PROVE  DeskInvariant'
<1> USE DEF DeskInvariant
<1>1. PICK new \in SUBSET Jobs, told \in SUBSET Jobs :
        /\ Granted(r).new = new /\ Granted(r).told = told /\ new \subseteq told
        /\ \A j \in new : IsFree(j)
        /\ \A j \in told \ new : job[j].who = ask[r].by
  <2> DEFINE free == {j \in ask[r].wants : IsFree(j)}
             mine == {j \in ask[r].wants : job[j].who = ask[r].by}
  <2>1. free \in SUBSET Jobs /\ mine \in SUBSET Jobs
    BY OfAsk
  <2>2. Granted(r).new = free
    BY DEF Granted
  <2>3. Granted(r).told \in {free, free \cup mine}
    BY DEF Granted
  <2>4. /\ Granted(r).told \in SUBSET Jobs /\ Granted(r).new \in SUBSET Jobs
        /\ Granted(r).new \subseteq Granted(r).told
        /\ \A j \in Granted(r).new : IsFree(j)
        /\ \A j \in Granted(r).told \ Granted(r).new : job[j].who = ask[r].by
    BY <2>1, <2>2, <2>3
  <2> QED BY <2>4
<1>2. ask[r].by \in Helpers /\ ask[r].by # NoHelper /\ ask[r].step = "inside"
  BY DEF ServeAsk, AsksFit, WorkerDeskAssumption
<1>3. PICK h \in Helpers : h = ask[r].by /\ h # NoHelper
  BY <1>2
<1>4. ASSUME NEW j \in Jobs
      PROVE  /\ job'[j] \in JobRows
             /\ j \in new => /\ job'[j].who = h /\ job'[j].terms = job[j].terms + 1
                             /\ job'[j].status = "PENDING"
             /\ j \notin new => job'[j] = job[j]
             /\ job'[j].terms >= job[j].terms /\ job'[j].terms \in Nat
  <2>1. PICK row \in JobRows : row = job[j] /\ row.terms \in 0..MaxTerms /\ row.terms \in Nat
    BY OfJob
  <2>2. CASE j \in new
    <3>1. row.status = "PENDING" /\ row.terms < MaxTerms
      BY <1>1, <2>1, <2>2 DEF IsFree
    <3>2. PICK terms \in 0..MaxTerms : terms = row.terms + 1
      BY <2>1, <3>1 DEF WorkerDeskAssumption
    <3>3. /\ [row EXCEPT !.who = h, !.terms = terms] \in JobRows
          /\ [row EXCEPT !.who = h, !.terms = terms].who = h
          /\ [row EXCEPT !.who = h, !.terms = terms].terms = terms
          /\ [row EXCEPT !.who = h, !.terms = terms].status = row.status
      BY DEF JobRows
    <3>4. job'[j] = [row EXCEPT !.who = h, !.terms = terms]
      BY <1>1, <1>3, <2>1, <2>2, <3>2 DEF ServeAsk
    <3> QED BY <2>1, <2>2, <3>1, <3>2, <3>3, <3>4
  <2>3. CASE j \notin new
    <3>1. job'[j] = row
      BY <1>1, <2>1, <2>3 DEF ServeAsk
    <3> QED BY <2>1, <2>3, <3>1
  <2> QED BY <2>2, <2>3
<1>5. job' \in [Jobs -> JobRows]
  <2>1. job' = [j \in Jobs |-> job'[j]]
    BY DEF ServeAsk
  <2> QED BY <1>4, <2>1
<1>6. PICK got \in SUBSET (Jobs \X Nat) : got = {<<j, job'[j].terms>> : j \in told}
  <2>1. \A j \in told : <<j, job'[j].terms>> \in Jobs \X Nat
    BY <1>4
  <2> QED BY <2>1
<1>7. PICK old \in AskRows : old = ask[r] /\ old.step = "inside" /\ old.got = {}
  BY <1>2, OfAsk DEF AsksFit
<1>8. PICK row \in AskRows : /\ row = [old EXCEPT !.step = "leaving", !.got = got]
                             /\ row.step = "leaving" /\ row.got = got /\ row.lock = old.lock
                             /\ row.expired = old.expired
  <2>1. /\ [old EXCEPT !.step = "leaving", !.got = got] \in AskRows
        /\ [old EXCEPT !.step = "leaving", !.got = got].step = "leaving"
        /\ [old EXCEPT !.step = "leaving", !.got = got].got = got
        /\ [old EXCEPT !.step = "leaving", !.got = got].lock = old.lock
        /\ [old EXCEPT !.step = "leaving", !.got = got].expired = old.expired
    BY DEF AskRows, AskSteps
  <2> QED BY <2>1
<1>9. ask' = [ask EXCEPT ![r] = row]
  BY <1>1, <1>6, <1>7, <1>8 DEF ServeAsk
<1>10. /\ ask' \in [Asks -> AskRows] /\ ask'[r] = row
       /\ \A s \in Asks : s # r => ask'[s] = ask[s]
  BY <1>9 DEF DeskShape
<1>11. today' = today /\ lockedBy' = lockedBy /\ links' = links /\ unlinked' = unlinked
  BY DEF ServeAsk
<1>12. DeskShape'
  BY <1>5, <1>10, <1>11 DEF DeskShape
<1>13. JobsFit'
  <2> SUFFICES ASSUME NEW j \in Jobs
               PROVE  /\ job'[j].who # NoHelper => job'[j].terms > 0
                      /\ job'[j].status \in {"CANCELLED", "MISSED"} => job'[j].who = NoHelper
    BY DEF JobsFit
  <2>1. job[j].terms \in Nat
    BY OfJob
  <2>2. CASE j \in new
    <3>1. job'[j].who = h /\ job'[j].terms = job[j].terms + 1 /\ job'[j].status = "PENDING"
      BY <1>4, <2>2
    <3> QED BY <2>1, <3>1
  <2>3. CASE j \notin new
    BY <1>4, <2>3 DEF JobsFit
  <2> QED BY <2>2, <2>3
<1>14. AsksFit'
  <2> SUFFICES ASSUME NEW s \in Asks
               PROVE  /\ ask'[s].step = "inside" => ask'[s].by \in Helpers
                      /\ ask'[s].step \in {"inside", "dead", "idle"} => ask'[s].got = {}
                      /\ ask'[s].lock # {} /\ ~ask'[s].expired => lockedBy[ask'[s].lock] = s
    BY <1>11 DEF AsksFit
  <2>1. CASE s = r
    <3>1. ask'[s].step = "leaving" /\ ask'[s].lock = ask[s].lock /\ ask'[s].expired = ask[s].expired
      BY <1>7, <1>8, <1>10, <2>1
    <3> QED BY <3>1 DEF AsksFit
  <2>2. CASE s # r
    BY <1>10, <2>2 DEF AsksFit
  <2> QED BY <2>1, <2>2
<1>15. ASSUME NEW j \in told PROVE job'[j].terms \in 1..job'[j].terms
  <2>1. job[j].terms \in Nat /\ job'[j].terms \in Nat /\ job'[j].terms >= job[j].terms
    BY <1>4, OfJob
  <2>2. job'[j].terms > 0
    BY <1>1, <1>3, <1>4, <2>1 DEF JobsFit
  <2> QED BY <2>1, <2>2
<1>16. ASSUME NEW a \in Jobs \X Nat, a[2] \in 1..job[a[1]].terms PROVE a[2] \in 1..job'[a[1]].terms
  <2>1. /\ a[1] \in Jobs /\ a[2] \in Nat /\ job[a[1]].terms \in Nat /\ job'[a[1]].terms \in Nat
        /\ job'[a[1]].terms >= job[a[1]].terms
    BY <1>4, OfJob
  <2> QED BY <1>16, <2>1
<1>17. AcceptedOnly'
  <2>1. \A a \in links \cup unlinked : a[2] \in 1..job'[a[1]].terms
    BY <1>16 DEF AcceptedOnly, DeskShape
  <2>2. \A s \in Asks : s # r => \A a \in ask[s].got : a[2] \in 1..job'[a[1]].terms
    <3>1. \A s \in Asks : ask[s].got \subseteq Jobs \X Nat
      BY OfAsk
    <3> QED BY <1>16, <3>1 DEF AcceptedOnly
  <2>3. \A a \in got : a[2] \in 1..job'[a[1]].terms
    BY <1>6, <1>15
  <2> QED BY <1>8, <1>10, <1>11, <2>1, <2>2, <2>3 DEF AcceptedOnly
<1>18. LastIsKnown'
  <2> SUFFICES ASSUME NEW j \in Jobs, job'[j].who # NoHelper
               PROVE  \/ Acceptance(j)' \in links \cup unlinked
                      \/ \E s \in Asks : Acceptance(j)' \in ask'[s].got
    BY <1>11 DEF LastIsKnown
  <2>1. CASE j \in new
    <3>1. <<j, job'[j].terms>> \in got
      BY <1>1, <1>6, <2>1
    <3> QED BY <1>8, <1>10, <3>1 DEF Acceptance
  <2>2. CASE j \notin new
    <3>1. Acceptance(j)' = Acceptance(j) /\ job[j].who # NoHelper
      BY <1>4, <2>2 DEF Acceptance
    <3>2. CASE Acceptance(j) \in links \cup unlinked
      BY <3>1, <3>2
    <3>3. ASSUME NEW s \in Asks, Acceptance(j) \in ask[s].got
          PROVE  \E u \in Asks : Acceptance(j)' \in ask'[u].got
      <4>1. s # r
        BY <1>7, <3>3
      <4> QED BY <1>10, <3>1, <3>3, <4>1
    <3> QED BY <3>1, <3>2, <3>3 DEF LastIsKnown
  <2> QED BY <2>1, <2>2
<1> QED BY <1>12, <1>13, <1>14, <1>17, <1>18

LEMMA KeepsWithJob ==
    ASSUME DeskInvariant, NEW j \in Jobs, NEW row \in JobRows, Becomes(j, row),
           row.terms = job[j].terms, row.who \in {job[j].who, NoHelper},
           row.status \in {"CANCELLED", "MISSED"} => row.who = NoHelper
    PROVE  DeskInvariant'
<1> USE DEF DeskInvariant
<1>1. /\ job' \in [Jobs -> JobRows] /\ job'[j] = row
      /\ \A i \in Jobs : i # j => job'[i] = job[i]
      /\ \A i \in Jobs : job'[i].terms = job[i].terms /\ job'[i].who \in {job[i].who, NoHelper}
      /\ UNCHANGED <<today, lockedBy, ask, links, unlinked>>
  BY DEF Becomes, DeskShape
<1>2. DeskShape'
  BY <1>1 DEF DeskShape
<1>3. JobsFit' /\ AsksFit'
  BY <1>1 DEF JobsFit, AsksFit
<1>4. AcceptedOnly'
  <2>1. /\ \A a \in links \cup unlinked : a[1] \in Jobs
        /\ \A r \in Asks : \A a \in ask[r].got : a[1] \in Jobs
    BY OfAsk DEF DeskShape
  <2> QED BY <1>1, <2>1 DEF AcceptedOnly
<1>5. LastIsKnown'
  BY <1>1 DEF LastIsKnown, Acceptance
<1> QED BY <1>2, <1>3, <1>4, <1>5

LEMMA KeepsWithSessions ==
    ASSUME DeskInvariant, NEW j \in Jobs,
           GivesUp(j) \/ BeginsWork(j) \/ EndsWork(j) \/ JobIsCancelled(j) \/ JobIsMissed(j)
    PROVE  DeskInvariant'
<1>1. PICK old \in JobRows : old = job[j]
  BY OfJob DEF DeskInvariant
<1>2. /\ "IN_PROGRESS" \in JobStatuses /\ "COMPLETED" \in JobStatuses
      /\ "CANCELLED" \in JobStatuses /\ "MISSED" \in JobStatuses
  BY DEF JobStatuses, Ongoing, Ended
<1>3. CASE GivesUp(j)
  <2>1. PICK row \in JobRows : /\ row = [old EXCEPT !.who = NoHelper] /\ row.who = NoHelper
                               /\ row.terms = old.terms
    <3>1. /\ [old EXCEPT !.who = NoHelper] \in JobRows
          /\ [old EXCEPT !.who = NoHelper].who = NoHelper
          /\ [old EXCEPT !.who = NoHelper].terms = old.terms
      BY <1>2 DEF JobRows
    <3> QED BY <3>1
  <2> QED BY <1>1, <1>3, <2>1, KeepsWithJob DEF GivesUp
<1>4. CASE BeginsWork(j)
  <2>1. PICK row \in JobRows : /\ row = [old EXCEPT !.status = "IN_PROGRESS"] /\ row.who = old.who
                               /\ row.terms = old.terms /\ row.status = "IN_PROGRESS"
    <3>1. /\ [old EXCEPT !.status = "IN_PROGRESS"] \in JobRows
          /\ [old EXCEPT !.status = "IN_PROGRESS"].who = old.who
          /\ [old EXCEPT !.status = "IN_PROGRESS"].terms = old.terms
          /\ [old EXCEPT !.status = "IN_PROGRESS"].status = "IN_PROGRESS"
      BY <1>2 DEF JobRows
    <3> QED BY <3>1
  <2> QED BY <1>1, <1>4, <2>1, KeepsWithJob DEF BeginsWork
<1>5. CASE EndsWork(j)
  <2>1. PICK row \in JobRows : /\ row = [old EXCEPT !.status = "COMPLETED"] /\ row.who = old.who
                               /\ row.terms = old.terms /\ row.status = "COMPLETED"
    <3>1. /\ [old EXCEPT !.status = "COMPLETED"] \in JobRows
          /\ [old EXCEPT !.status = "COMPLETED"].who = old.who
          /\ [old EXCEPT !.status = "COMPLETED"].terms = old.terms
          /\ [old EXCEPT !.status = "COMPLETED"].status = "COMPLETED"
      BY <1>2 DEF JobRows
    <3> QED BY <3>1
  <2> QED BY <1>1, <1>5, <2>1, KeepsWithJob DEF EndsWork
<1>6. CASE JobIsCancelled(j)
  <2>1. PICK row \in JobRows : /\ row = [old EXCEPT !.status = "CANCELLED", !.who = NoHelper]
                               /\ row.who = NoHelper /\ row.terms = old.terms
    <3>1. /\ [old EXCEPT !.status = "CANCELLED", !.who = NoHelper] \in JobRows
          /\ [old EXCEPT !.status = "CANCELLED", !.who = NoHelper].who = NoHelper
          /\ [old EXCEPT !.status = "CANCELLED", !.who = NoHelper].terms = old.terms
      BY <1>2 DEF JobRows
    <3> QED BY <3>1
  <2> QED BY <1>1, <1>6, <2>1, KeepsWithJob DEF JobIsCancelled
<1>7. CASE JobIsMissed(j)
  <2>1. PICK row \in JobRows :
          /\ row = [old EXCEPT !.status = "MISSED", !.who = NoHelper, !.absent = old.who]
          /\ row.who = NoHelper /\ row.terms = old.terms
    <3>1. /\ [old EXCEPT !.status = "MISSED", !.who = NoHelper, !.absent = old.who] \in JobRows
          /\ [old EXCEPT !.status = "MISSED", !.who = NoHelper, !.absent = old.who].who = NoHelper
          /\ [old EXCEPT !.status = "MISSED", !.who = NoHelper, !.absent = old.who].terms = old.terms
      BY <1>2 DEF JobRows
    <3> QED BY <3>1
  <2> QED BY <1>1, <1>7, <2>1, KeepsWithJob DEF JobIsMissed
<1> QED BY <1>3, <1>4, <1>5, <1>6, <1>7

-----------------------------------------------------------------------------
LEMMA DeskBegins == WorkerDeskAssumption /\ DeskInit => DeskInvariant
<1> SUFFICES ASSUME WorkerDeskAssumption, DeskInit PROVE DeskInvariant
  OBVIOUS
<1>1. /\ job \in [Jobs -> JobRows] /\ \A j \in Jobs : job[j].who = NoHelper /\ job[j].status = "PENDING"
  BY DEF DeskInit, JobRows, JobStatuses, Ongoing, WorkerDeskAssumption
<1>2. /\ ask \in [Asks -> AskRows] /\ \A r \in Asks : ask[r] = NotAsking
  BY Idle DEF DeskInit
<1>3. DeskShape
  BY <1>1, <1>2 DEF DeskInit, DeskShape, Days, WorkerDeskAssumption
<1>4. JobsFit /\ LastIsKnown
  BY <1>1 DEF JobsFit, LastIsKnown
<1>5. AsksFit /\ AcceptedOnly
  BY <1>2, Idle DEF DeskInit, AsksFit, AcceptedOnly
<1> QED BY <1>3, <1>4, <1>5 DEF DeskInvariant

LEMMA DeskStep == WorkerDeskAssumption /\ DeskInvariant /\ [DeskNext]_deskVars => DeskInvariant'
<1> SUFFICES ASSUME WorkerDeskAssumption, DeskInvariant, [DeskNext]_deskVars PROVE DeskInvariant'
  OBVIOUS
<1>1. CASE UNCHANGED deskVars
  BY <1>1 DEF deskVars, DeskInvariant, DeskShape, JobsFit, AsksFit, AcceptedOnly, LastIsKnown, Acceptance
<1>2. ASSUME NEW r \in Asks, NEW h \in Helpers,
             \/ \E j \in Jobs : AskForJob(r, h, j)
             \/ \E js \in SUBSET Jobs : AskForPackage(r, h, js)
             \/ \E js \in SUBSET Jobs, whole \in BOOLEAN : AskWithoutLock(r, h, js, whole)
      PROVE  DeskInvariant'
  <2>1. ASSUME NEW j \in Jobs, AskForJob(r, h, j) PROVE DeskInvariant'
    <3>1. {j} \in SUBSET Jobs /\ {j} \in LockNames \cup {{}}
      BY DEF LockNames
    <3> QED BY <2>1, <3>1, KeepsWithEnter DEF AskForJob
  <2>2. ASSUME NEW js \in SUBSET Jobs, AskForPackage(r, h, js) PROVE DeskInvariant'
    <3>1. Jobs \in LockNames \cup {{}}
      BY DEF LockNames
    <3> QED BY <2>2, <3>1, KeepsWithEnter DEF AskForPackage
  <2>3. ASSUME NEW js \in SUBSET Jobs, NEW whole \in BOOLEAN, AskWithoutLock(r, h, js, whole)
        PROVE  DeskInvariant'
    <3>1. {} \in LockNames \cup {{}}
      OBVIOUS
    <3> QED BY <2>3, <3>1, KeepsWithEnter DEF AskWithoutLock
  <2> QED BY <1>2, <2>1, <2>2, <2>3
<1>3. ASSUME NEW r \in Asks,
             \/ LockExpires(r) \/ ServeAsk(r) \/ LeaveLock(r) \/ AskDies(r)
             \/ \E a \in ask[r].got : EnsureChat(r, a) \/ ChatFails(r, a)
      PROVE  DeskInvariant'
  BY <1>3, KeepsWithLockExpires, KeepsWithServeAsk, KeepsWithLeaveLock, KeepsWithAskDies, KeepsWithLinking
<1>4. ASSUME NEW j \in Jobs,
             GivesUp(j) \/ BeginsWork(j) \/ EndsWork(j) \/ JobIsCancelled(j) \/ JobIsMissed(j)
      PROVE  DeskInvariant'
  BY <1>4, KeepsWithSessions
<1>5. CASE NightFalls
  <2>1. today' \in Days
    BY <1>5 DEF NightFalls, DeskInvariant, DeskShape, Days, WorkerDeskAssumption
  <2> QED BY <1>5, <2>1 DEF NightFalls, DeskInvariant, DeskShape, JobsFit, AsksFit, AcceptedOnly, LastIsKnown,
                           Acceptance
<1> QED BY <1>1, <1>2, <1>3, <1>4, <1>5 DEF DeskNext

-----------------------------------------------------------------------------
(* What a worker is shown *)

LEMMA TabsOfJob ==
    ASSUME WorkerDeskAssumption, DeskInvariant, NEW h \in Helpers, NEW j \in MyJobs(h)
    PROVE  /\ Cardinality({tab \in Tabs : j \in ListOfTab(tab, h)}) = IF Overdue(j) THEN 0 ELSE 1
           /\ job[j].status # "CANCELLED"
           /\ \A g \in Helpers \ {h} : j \notin MyJobs(g)
<1> DEFINE shown == {tab \in Tabs : j \in ListOfTab(tab, h)}
<1>1. /\ j \in Jobs /\ job[j].status \in {"PENDING", "IN_PROGRESS", "COMPLETED", "CANCELLED", "MISSED"}
      /\ h # NoHelper
      /\ job[j].status \in {"CANCELLED", "MISSED"} => job[j].who = NoHelper
  BY OfJob DEF MyJobs, DeskInvariant, JobStatuses, Ongoing, Ended, JobsFit, WorkerDeskAssumption
<1>2. JobDay[j] \in Int /\ today \in Int
  BY <1>1 DEF DeskInvariant, DeskShape, Days, WorkerDeskAssumption
<1>3. job[j].status # "CANCELLED" /\ \A g \in Helpers \ {h} : j \notin MyJobs(g)
  BY <1>1 DEF MyJobs, WorkerDeskAssumption
<1> DEFINE status == job[j].status
<1>9. /\ j \in ListOfTab("today", h) <=>
            status = "IN_PROGRESS" \/ (status = "PENDING" /\ JobDay[j] = today)
      /\ j \in ListOfTab("upcoming", h) <=> status = "PENDING" /\ JobDay[j] > today
      /\ j \in ListOfTab("completed", h) <=> status = "COMPLETED"
      /\ j \in ListOfTab("cancelled", h) <=> status \in {"CANCELLED", "MISSED"}
  <2>1. j \in ListOfTab("today", h) <=>
            status = "IN_PROGRESS" \/ (status = "PENDING" /\ JobDay[j] = today)
    BY DEF ListOfTab, InTab
  <2>2. j \in ListOfTab("upcoming", h) <=> status = "PENDING" /\ JobDay[j] > today
    BY DEF ListOfTab, InTab
  <2>3. j \in ListOfTab("completed", h) <=> status = "COMPLETED"
    BY DEF ListOfTab
  <2>4. j \in ListOfTab("cancelled", h) <=> status \in {"CANCELLED", "MISSED"}
    BY DEF ListOfTab
  <2> QED BY <2>1, <2>2, <2>3, <2>4
<1>4. CASE Overdue(j)
  <2>1. status = "PENDING" /\ JobDay[j] < today
    BY <1>4 DEF Overdue
  <2>2. shown = {}
    BY <1>2, <1>9, <2>1 DEF Tabs
  <2> QED BY <1>3, <1>4, <2>2, FS_EmptySet
<1>5. CASE ~Overdue(j)
  <2>1. \E tab \in Tabs : shown = {tab}
    <3>1. CASE job[j].status = "IN_PROGRESS" \/ (job[j].status = "PENDING" /\ JobDay[j] = today)
      <4>1. shown = {"today"}
        BY <1>2, <1>9, <3>1 DEF Tabs
      <4> QED BY <4>1 DEF Tabs
    <3>2. CASE job[j].status = "PENDING" /\ JobDay[j] # today
      <4>1. JobDay[j] > today
        BY <1>2, <1>5, <3>2 DEF Overdue
      <4>2. shown = {"upcoming"}
        BY <1>2, <1>9, <3>2, <4>1 DEF Tabs
      <4> QED BY <4>2 DEF Tabs
    <3>3. CASE job[j].status = "COMPLETED"
      <4>1. shown = {"completed"}
        BY <1>9, <3>3 DEF Tabs
      <4> QED BY <4>1 DEF Tabs
    <3>4. CASE job[j].status = "MISSED"
      <4>1. shown = {"cancelled"}
        BY <1>9, <3>4 DEF Tabs
      <4> QED BY <4>1 DEF Tabs
    <3> QED BY <1>1, <1>3, <3>1, <3>2, <3>3, <3>4
  <2> QED BY <1>3, <1>5, <2>1, FS_Singleton
<1> QED BY <1>4, <1>5

LEMMA AssistantIsRight ==
    ASSUME WorkerDeskAssumption, DeskInvariant, NEW h \in Helpers
    PROVE  /\ UNION {AssistantLists(h, status) : status \in Ongoing \cup Ended} = MyJobs(h)
           /\ AssistantListsAhead(h) = ListOfTab("today", h) \cup ListOfTab("upcoming", h)
                                       \cup {j \in MyJobs(h) : Overdue(j)}
           /\ ProgressOf(h).accepted = Cardinality(AssistantListsAhead(h) \cup ListOfTab("completed", h))
           /\ AssistantListsAhead(h) \subseteq JobsOfBooking(h)
<1>1. \A j \in Jobs : /\ job[j].status \in Ongoing \cup Ended
                      /\ job[j].status \in {"CANCELLED", "MISSED"} => job[j].who # h
                      /\ JobDay[j] \in Int /\ today \in Int
  BY OfJob DEF DeskInvariant, DeskShape, JobStatuses, JobsFit, Days, WorkerDeskAssumption
<1>2. UNION {AssistantLists(h, status) : status \in Ongoing \cup Ended} = MyJobs(h)
  <2>1. ASSUME NEW status \in Ongoing \cup Ended, NEW j \in AssistantLists(h, status) PROVE j \in MyJobs(h)
    BY <2>1 DEF AssistantLists, MyJobs
  <2>2. ASSUME NEW j \in MyJobs(h) PROVE j \in AssistantLists(h, job[j].status) /\ job[j].status \in Ongoing \cup Ended
    BY <1>1 DEF AssistantLists, MyJobs
  <2> QED BY <2>1, <2>2
<1>3. AssistantListsAhead(h) = ListOfTab("today", h) \cup ListOfTab("upcoming", h)
                               \cup {j \in MyJobs(h) : Overdue(j)}
  BY <1>1 DEF AssistantListsAhead, ListOfTab, InTab, MyJobs, Overdue, Ongoing, Ended
<1>4. ProgressOf(h).accepted = Cardinality(AssistantListsAhead(h) \cup ListOfTab("completed", h))
  <2>1. {j \in MyJobs(h) : job[j].status \notin {"CANCELLED", "MISSED"}} =
        AssistantListsAhead(h) \cup ListOfTab("completed", h)
    BY <1>1 DEF AssistantListsAhead, ListOfTab, MyJobs, Ongoing, Ended
  <2> QED BY <2>1 DEF ProgressOf
<1>5. AssistantListsAhead(h) \subseteq JobsOfBooking(h)
  BY DEF AssistantListsAhead, JobsOfBooking
<1> QED BY <1>2, <1>3, <1>4, <1>5

LEMMA DeskIsSafe == WorkerDeskAssumption /\ DeskInvariant => DeskSafe
<1> SUFFICES ASSUME WorkerDeskAssumption, DeskInvariant PROVE DeskSafe
  OBVIOUS
<1>1. DeskTypeOK
  BY OfJob, OfAsk DEF DeskInvariant, DeskTypeOK, DeskShape, JobStatuses, AskSteps
<1>2. LockedAlone
  <2> SUFFICES ASSUME NEW r \in Asks, NEW s \in Asks, r # s, ask[r].lock # {}, ask[r].lock = ask[s].lock,
                      ~ask[r].expired, ~ask[s].expired
               PROVE  FALSE
    BY DEF LockedAlone
  <2> QED BY DEF DeskInvariant, AsksFit
<1>3. ChatIsOpen
  BY DEF DeskInvariant, ChatIsOpen, LastIsKnown, CanChat
<1>4. OnlyAcceptedIsLinked
  BY DEF DeskInvariant, OnlyAcceptedIsLinked, AcceptedOnly
<1>5. OneTab
  <2>1. \A h \in Helpers, tab \in Tabs : CountedIn(tab, h) <=> ListOfTab(tab, h) # {}
    BY DEF CountedIn, ListOfTab, InTab, Tabs
  <2> QED BY <2>1, TabsOfJob DEF OneTab
<1>6. AssistantAgrees
  BY AssistantIsRight DEF AssistantAgrees
<1> QED BY <1>1, <1>2, <1>3, <1>4, <1>5, <1>6 DEF DeskSafe

\* For any number of sessions, workers, requests and days: locks that expire, lost links and
\* late jobs leave each session with one worker, who can write to its customer and finds it
\* in one place.
THEOREM DeskStaysSafe == DeskInit /\ [][DeskNext]_deskVars => []DeskSafe
<1>1. DeskInit => DeskInvariant
  BY DeskBegins, WorkerDeskAssumption
<1>2. DeskInvariant /\ [DeskNext]_deskVars => DeskInvariant'
  BY DeskStep, WorkerDeskAssumption
<1>3. DeskInvariant => DeskSafe
  BY DeskIsSafe, WorkerDeskAssumption
<1> QED BY <1>1, <1>2, <1>3, PTL

-----------------------------------------------------------------------------
(* The workers' directory. *)

SaveSteps == {"idle", "checked", "deleting", "dropped", "read", "created"}
SaveRows == [step : SaveSteps, want : SUBSET Wards, seen : SUBSET Wards, dropped : SUBSET Wards,
             found : SUBSET Wards, added : SUBSET Wards, met : SUBSET SUBSET Wards]

DirectoryShape ==
    /\ openWards \in SUBSET Wards
    /\ working \in [Crew -> SUBSET Wards]
    /\ saving \in [AreaSaves -> SaveRows]
    /\ asked \in [Crew -> SUBSET SUBSET Wards]

\* What a save has done so far, against the areas its worker has by now: those it did not ask
\* for were there when it began, or a save that it met has brought them; it deletes none that
\* it asked for, and one it has found goes only with a save that did not ask for it.
SaveSound(row, now) ==
    /\ OneProvince(row.want)
    /\ row.step # "checked" => row.seen \cap row.want = {}
    /\ row.step = "checked" => row.met = {}
    /\ row.step = "deleting" => now \ row.want \subseteq row.seen \cup UNION row.met
    /\ row.step \in {"dropped", "read", "created"} =>
          /\ row.dropped \subseteq row.seen
          /\ now \ row.want \subseteq row.dropped \cup UNION row.met
    /\ row.step \in {"read", "created"} =>
          \A a \in row.found : (\A want \in row.met : a \in want) => a \in now
    /\ row.step = "created" => row.added = row.want \ row.found

SavesSound ==
    \A x \in AreaSaves : saving[x].step # "idle" => SaveSound(saving[x], working[WorkerOf(x)])

AreasInvariant == DirectoryShape /\ SavesSound /\ AreasAsAsked

\* Every favourite is counted in the month it was made.
FavouritesCounted ==
    /\ month \in Months
    /\ adding \in [Clients \X Crew -> {0} \cup Months]
    /\ favoured \in [Clients \X Crew -> {0} \cup Months]
    /\ CountedWhenMade

DirectoryInvariant == AreasInvariant /\ FavouritesCounted

-----------------------------------------------------------------------------
LEMMA SaveFields ==
    ASSUME DirectoryShape, NEW x \in AreaSaves
    PROVE  /\ saving[x] \in SaveRows /\ WorkerOf(x) \in Crew
           /\ working[WorkerOf(x)] \subseteq Wards
           /\ saving[x].want \subseteq Wards /\ saving[x].seen \subseteq Wards
           /\ saving[x].dropped \subseteq Wards /\ saving[x].found \subseteq Wards
           /\ saving[x].added \subseteq Wards /\ saving[x].met \subseteq SUBSET Wards
BY DirectoryAssumption DEF DirectoryShape, SaveRows, WorkerOf

LEMMA NothingSaved == NoSave \in SaveRows /\ NoSave.step = "idle"
BY DEF NoSave, SaveRows, SaveSteps

\* A step of one save: the others, and what is committed, stay.
SaveMoves(x, row) ==
    /\ saving' = [saving EXCEPT ![x] = row]
    /\ openWards' = openWards /\ working' = working /\ asked' = asked

LEMMA MovesAreSound ==
    ASSUME AreasInvariant, NEW x \in AreaSaves, NEW row \in SaveRows, SaveMoves(x, row),
           row.step # "idle" => SaveSound(row, working[WorkerOf(x)])
    PROVE  AreasInvariant'
<1> USE DEF AreasInvariant
<1>1. /\ saving' \in [AreaSaves -> SaveRows] /\ saving'[x] = row
      /\ \A y \in AreaSaves : y # x => saving'[y] = saving[y]
  BY DEF SaveMoves, DirectoryShape
<1>2. DirectoryShape'
  BY <1>1 DEF DirectoryShape, SaveMoves
<1>3. SavesSound'
  <2>1. ASSUME NEW y \in AreaSaves, saving'[y].step # "idle" PROVE SaveSound(saving'[y], working[WorkerOf(y)])
    BY <1>1, <2>1 DEF SavesSound
  <2>2. working' = working
    BY DEF SaveMoves
  <2>3. \A y \in AreaSaves : saving'[y].step # "idle" => SaveSound(saving'[y], working'[WorkerOf(y)])
    BY <2>1, <2>2
  <2> QED BY <2>3 DEF SavesSound, SaveSound, WorkerOf
<1>4. AreasAsAsked'
  BY DEF AreasAsAsked, SaveMoves
<1> QED BY <1>2, <1>3, <1>4

LEMMA SavesKeep ==
    ASSUME AreasInvariant, NEW x \in AreaSaves,
           \/ \E want \in SUBSET Wards : RequestAreas(x, want)
           \/ BeginDelete(x) \/ DropOthers(x) \/ ReadExisting(x) \/ CreateMissing(x) \/ RollBackAreas(x)
    PROVE  AreasInvariant'
<1>1. PICK old \in SaveRows : old = saving[x]
  BY SaveFields DEF AreasInvariant
<1>2. PICK now \in SUBSET Wards : now = working[WorkerOf(x)]
  BY SaveFields DEF AreasInvariant
<1>3. old.step # "idle" => SaveSound(old, now)
  BY <1>1, <1>2 DEF AreasInvariant, SavesSound
<1>4. ASSUME NEW row \in SaveRows, SaveMoves(x, row), row.step # "idle" => SaveSound(row, now)
      PROVE  AreasInvariant'
  BY <1>2, <1>4, MovesAreSound
<1>5. CASE \E want \in SUBSET Wards : RequestAreas(x, want)
  <2>1. PICK want \in SUBSET Wards : RequestAreas(x, want)
    BY <1>5
  <2>2. PICK row : row = [NoSave EXCEPT !.step = "checked", !.want = want]
    OBVIOUS
  <2>3. row \in SaveRows /\ row.step = "checked" /\ row.want = want /\ row.met = {}
    BY <2>2 DEF NoSave, SaveRows, SaveSteps
  <2>4. SaveMoves(x, row) /\ OneProvince(want)
    BY <2>1, <2>2 DEF RequestAreas, SaveMoves
  <2>5. SaveSound(row, now)
    BY <2>3, <2>4 DEF SaveSound
  <2> QED BY <1>4, <2>3, <2>4, <2>5
<1>6. CASE BeginDelete(x)
  <2>1. PICK row : row = [old EXCEPT !.step = "deleting", !.seen = now \ old.want]
    OBVIOUS
  <2>2. /\ row \in SaveRows /\ row.step = "deleting" /\ row.seen = now \ old.want
        /\ row.want = old.want /\ row.met = old.met
    BY <2>1 DEF SaveRows, SaveSteps
  <2>3. SaveMoves(x, row) /\ old.step = "checked"
    BY <1>1, <1>2, <1>6, <2>1 DEF BeginDelete, SaveMoves
  <2>4. SaveSound(row, now)
    BY <1>3, <2>2, <2>3 DEF SaveSound
  <2> QED BY <1>4, <2>2, <2>3, <2>4
<1>7. CASE DropOthers(x)
  <2>1. PICK row : row = [old EXCEPT !.step = "dropped", !.dropped = old.seen \cap now]
    OBVIOUS
  <2>2. /\ row \in SaveRows /\ row.step = "dropped" /\ row.dropped = old.seen \cap now
        /\ row.want = old.want /\ row.met = old.met /\ row.seen = old.seen
    BY <2>1 DEF SaveRows, SaveSteps
  <2>3. SaveMoves(x, row) /\ old.step = "deleting"
    BY <1>1, <1>2, <1>7, <2>1 DEF DropOthers, SaveMoves
  <2>4. SaveSound(row, now)
    BY <1>3, <2>2, <2>3 DEF SaveSound
  <2> QED BY <1>4, <2>2, <2>3, <2>4
<1>8. CASE ReadExisting(x)
  <2>1. PICK row : row = [old EXCEPT !.step = "read", !.found = now \cap old.want]
    OBVIOUS
  <2>2. /\ row \in SaveRows /\ row.step = "read" /\ row.found = now \cap old.want
        /\ row.want = old.want /\ row.met = old.met /\ row.seen = old.seen /\ row.dropped = old.dropped
    BY <2>1 DEF SaveRows, SaveSteps
  <2>3. SaveMoves(x, row) /\ old.step = "dropped"
    BY <1>1, <1>2, <1>8, <2>1 DEF ReadExisting, SaveMoves
  <2>4. SaveSound(row, now)
    BY <1>3, <2>2, <2>3 DEF SaveSound
  <2> QED BY <1>4, <2>2, <2>3, <2>4
<1>9. CASE SaveMoves(x, NoSave)
  BY <1>4, <1>9, NothingSaved
<1>10. CASE CreateMissing(x) /\ ~SaveMoves(x, NoSave)
  <2>1. PICK row : row = [old EXCEPT !.step = "created", !.added = old.want \ old.found]
    OBVIOUS
  <2>2. /\ row \in SaveRows /\ row.step = "created" /\ row.added = old.want \ old.found
        /\ row.want = old.want /\ row.met = old.met /\ row.seen = old.seen /\ row.dropped = old.dropped
        /\ row.found = old.found
    BY <2>1 DEF SaveRows, SaveSteps
  <2>3. SaveMoves(x, row) /\ old.step = "read"
    BY <1>1, <1>10, <2>1 DEF CreateMissing, SaveMoves
  <2>4. SaveSound(row, now)
    BY <1>3, <2>2, <2>3 DEF SaveSound
  <2> QED BY <1>4, <2>2, <2>3, <2>4
<1> QED BY <1>5, <1>6, <1>7, <1>8, <1>9, <1>10 DEF RollBackAreas, SaveMoves

\* A commit takes from the worker what nobody it met and no one else asked to keep.
LEMMA CommitKeeps ==
    ASSUME AreasInvariant, NEW x \in AreaSaves, CommitAreas(x)
    PROVE  AreasInvariant'
<1> USE DEF AreasInvariant
<1>1. PICK w \in Crew : w = WorkerOf(x)
  BY SaveFields
<1>2. PICK old \in SaveRows : old = saving[x] /\ old.step = "created"
  BY SaveFields DEF CommitAreas
<1>3. SaveSound(old, working[w])
  BY <1>1, <1>2 DEF SavesSound
<1>4. /\ old.want \in SUBSET Wards /\ old.met \in SUBSET SUBSET Wards /\ working[w] \in SUBSET Wards
      /\ old.dropped \cap old.want = {} /\ old.added = old.want \ old.found
      /\ working[w] \ old.want \subseteq old.dropped \cup UNION old.met
      /\ \A a \in old.found : (\A want \in old.met : a \in want) => a \in working[w]
      /\ OneProvince(old.want)
  BY <1>1, <1>2, <1>3, SaveFields DEF SaveSound, SaveRows
<1>5. PICK then : then = (working[w] \ old.dropped) \cup old.added
  OBVIOUS
<1>6. /\ working' = [working EXCEPT ![w] = then]
      /\ asked' = [asked EXCEPT ![w] = {old.want} \cup old.met] /\ openWards' = openWards
  BY <1>1, <1>2, <1>5 DEF CommitAreas
<1>7. /\ then \in SUBSET Wards
      /\ \A a \in Wards : (a \in old.want /\ \A want \in old.met : a \in want) => a \in then
      /\ then \subseteq old.want \cup UNION old.met
  BY <1>4, <1>5
<1>8. /\ working' \in [Crew -> SUBSET Wards] /\ working'[w] = then
      /\ \A v \in Crew : v # w => working'[v] = working[v]
      /\ asked' \in [Crew -> SUBSET SUBSET Wards] /\ asked'[w] = {old.want} \cup old.met
      /\ \A v \in Crew : v # w => asked'[v] = asked[v]
  BY <1>4, <1>6, <1>7 DEF DirectoryShape
<1>9. AreasAsAsked'
  <2>1. ASSUME NEW v \in Crew, asked'[v] # {}
        PROVE  /\ working'[v] \subseteq UNION asked'[v]
               /\ \A a \in Wards : (\A want \in asked'[v] : a \in want) => a \in working'[v]
               /\ \A want \in asked'[v] : asked'[v] = {want} => OneProvince(working'[v])
    <3>1. CASE v # w
      BY <1>8, <2>1, <3>1 DEF AreasAsAsked
    <3>2. CASE v = w
      <4>1. then \subseteq UNION ({old.want} \cup old.met)
        BY <1>7
      <4>2. \A a \in Wards : (\A want \in {old.want} \cup old.met : a \in want) => a \in then
        BY <1>7
      <4>3. ASSUME NEW want \in {old.want} \cup old.met, {old.want} \cup old.met = {want}
            PROVE  OneProvince(then)
        <5>1. want = old.want /\ \A other \in old.met : other = old.want
          BY <4>3
        <5>2. then \subseteq old.want
          BY <4>1, <5>1
        <5>3. old.want \subseteq Wards
          BY <1>4
        <5>4. \A a \in old.want : a \in then
          BY <4>2, <5>1, <5>3
        <5>5. then = old.want
          BY <5>2, <5>4
        <5> QED BY <1>4, <5>5
      <4> QED BY <1>8, <3>2, <4>1, <4>2, <4>3
    <3> QED BY <3>1, <3>2
  <2> QED BY <2>1 DEF AreasAsAsked
<1>10. ASSUME NEW y \in AreaSaves
       PROVE  /\ saving'[y] \in SaveRows
              /\ saving'[y].step # "idle" => SaveSound(saving'[y], working'[WorkerOf(y)])
  <2>1. PICK row \in SaveRows : row = saving[y]
    BY SaveFields
  <2>2. CASE y = x
    BY <2>2, NothingSaved DEF CommitAreas
  <2>3. CASE y # x /\ ~(y \in OtherRows(x) /\ saving[y].step # "checked")
    <3>1. saving'[y] = row
      BY <2>1, <2>3 DEF CommitAreas
    <3>2. CASE row.step = "idle"
      BY <3>1, <3>2
    <3>3. CASE row.step = "checked"
      <4>1. SaveSound(row, working[WorkerOf(y)])
        BY <2>1, <3>3 DEF SavesSound
      <4>2. SaveSound(row, working'[WorkerOf(y)])
        BY <3>3, <4>1 DEF SaveSound
      <4> QED BY <3>1, <4>2
    <3>4. CASE row.step # "idle" /\ row.step # "checked"
      <4>1. WorkerOf(y) # w /\ WorkerOf(y) \in Crew
        BY <1>1, <2>1, <2>3, <3>4, SaveFields DEF OtherRows, Saving
      <4>2. working'[WorkerOf(y)] = working[WorkerOf(y)]
        BY <1>8, <4>1
      <4>3. SaveSound(row, working[WorkerOf(y)])
        BY <2>1, <3>4 DEF SavesSound
      <4> QED BY <3>1, <4>2, <4>3
    <3> QED BY <3>2, <3>3, <3>4
  <2>4. CASE y # x /\ y \in OtherRows(x) /\ saving[y].step # "checked"
    <3>1. WorkerOf(y) = w /\ row.step # "idle" /\ row.step # "checked"
      BY <1>1, <2>1, <2>4 DEF OtherRows, Saving
    <3>2. saving'[y] = [row EXCEPT !.met = @ \cup {old.want}]
      BY <1>2, <2>1, <2>4 DEF CommitAreas
    <3>3. PICK then2 \in SaveRows :
            /\ then2 = [row EXCEPT !.met = @ \cup {old.want}]
            /\ then2.met = row.met \cup {old.want} /\ then2.step = row.step /\ then2.want = row.want
            /\ then2.seen = row.seen /\ then2.dropped = row.dropped /\ then2.found = row.found
            /\ then2.added = row.added
      <4>1. [row EXCEPT !.met = @ \cup {old.want}] \in SaveRows
        BY <1>4 DEF SaveRows
      <4> QED BY <4>1 DEF SaveRows
    <3>4. SaveSound(row, working[w])
      BY <2>1, <3>1 DEF SavesSound
    <3>5. UNION then2.met = (UNION row.met) \cup old.want
      BY <3>3
    <3>6. then \ row.want \subseteq (working[w] \ row.want) \cup old.want
      BY <1>4, <1>5
    <3>7. ASSUME NEW a \in row.found, \A want \in then2.met : a \in want, a \in working[w] PROVE a \in then
      BY <1>4, <1>5, <3>3, <3>7
    <3>8. SaveSound(then2, then)
      <4>1. then2.step = "deleting" => then \ then2.want \subseteq then2.seen \cup UNION then2.met
        BY <3>3, <3>4, <3>5, <3>6 DEF SaveSound
      <4>2. then2.step \in {"dropped", "read", "created"} =>
              /\ then2.dropped \subseteq then2.seen
              /\ then \ then2.want \subseteq then2.dropped \cup UNION then2.met
        BY <3>3, <3>4, <3>5, <3>6 DEF SaveSound
      <4>3. then2.step \in {"read", "created"} =>
              \A a \in then2.found : (\A want \in then2.met : a \in want) => a \in then
        BY <3>3, <3>4, <3>7 DEF SaveSound
      <4>4. /\ OneProvince(then2.want) /\ then2.step # "checked" /\ then2.seen \cap then2.want = {}
            /\ then2.step = "created" => then2.added = then2.want \ then2.found
        BY <3>1, <3>3, <3>4 DEF SaveSound
      <4> QED BY <4>1, <4>2, <4>3, <4>4 DEF SaveSound
    <3> QED BY <1>8, <3>1, <3>2, <3>3, <3>8
  <2> QED BY <2>2, <2>3, <2>4
<1>11. DirectoryShape'
  <2>1. saving' \in [AreaSaves -> SaveRows]
    BY <1>10 DEF CommitAreas
  <2> QED BY <1>6, <1>8, <2>1 DEF DirectoryShape
<1>12. SavesSound'
  <2>1. \A y \in AreaSaves : saving'[y].step # "idle" => SaveSound(saving'[y], working'[WorkerOf(y)])
    BY <1>10
  <2> QED BY <2>1 DEF SavesSound, SaveSound, WorkerOf
<1> QED BY <1>9, <1>11, <1>12

LEMMA AreasStaySound ==
    ASSUME AreasInvariant, [DirectoryNext]_directoryVars
    PROVE  AreasInvariant'
<1>1. ASSUME working' = working, saving' = saving, asked' = asked, openWards' \subseteq openWards
      PROVE  AreasInvariant'
  <2>1. DirectoryShape'
    BY <1>1 DEF AreasInvariant, DirectoryShape
  <2>2. SavesSound'
    <3>1. \A y \in AreaSaves : saving'[y].step # "idle" => SaveSound(saving'[y], working'[WorkerOf(y)])
      BY <1>1 DEF AreasInvariant, SavesSound
    <3> QED BY <3>1 DEF SavesSound, SaveSound, WorkerOf
  <2>3. AreasAsAsked'
    BY <1>1 DEF AreasInvariant, AreasAsAsked
  <2> QED BY <2>1, <2>2, <2>3 DEF AreasInvariant
<1>2. CASE \E x \in AreaSaves :
              \/ \E want \in SUBSET Wards : RequestAreas(x, want)
              \/ BeginDelete(x) \/ DropOthers(x) \/ ReadExisting(x) \/ CreateMissing(x)
              \/ CommitAreas(x) \/ RollBackAreas(x)
  BY <1>2, SavesKeep, CommitKeeps
<1>3. CASE \E a \in Wards : CloseWard(a)
  BY <1>1, <1>3 DEF CloseWard
<1>4. CASE AreasStay
  BY <1>1, <1>4 DEF AreasStay
<1>5. CASE UNCHANGED directoryVars
  BY <1>1, <1>5 DEF directoryVars
<1>6. (\/ \E c \in Clients, w \in Crew :
              \/ InsertFavorite(c, w) \/ CommitFavorite(c, w) \/ RollBackFavorite(c, w)
              \/ RemoveFavorite(c, w) \/ ServedChanges(c, w)
       \/ \E w \in Crew : StandingChanges(w)
       \/ MonthPasses) => AreasStay
  BY DEF InsertFavorite, CommitFavorite, RollBackFavorite, RemoveFavorite, ServedChanges, StandingChanges,
         MonthPasses
<1> QED BY <1>2, <1>3, <1>4, <1>5, <1>6 DEF DirectoryNext

-----------------------------------------------------------------------------
LEMMA FavouritesStayCounted ==
    ASSUME FavouritesCounted, [DirectoryNext]_directoryVars
    PROVE  FavouritesCounted'
<1> USE DEF FavouritesCounted
<1>1. CASE adding' = adding /\ favoured' = favoured /\ counted' = counted /\ month' \in Months
  BY <1>1 DEF CountedWhenMade, Months
<1>2. ASSUME NEW c \in Clients, NEW w \in Crew,
             \/ InsertFavorite(c, w) \/ CommitFavorite(c, w) \/ RollBackFavorite(c, w)
             \/ RemoveFavorite(c, w)
      PROVE  FavouritesCounted'
  <2>p. /\ <<c, w>> \in Clients \X Crew
        /\ <<c, w>>[1] = c /\ <<c, w>>[2] = w
    OBVIOUS
  <2>1. PICK p \in Clients \X Crew : p = <<c, w>> /\ p[1] = c /\ p[2] = w
    BY <2>p
  <2>2. month' = month
    BY <1>2 DEF InsertFavorite, CommitFavorite, RollBackFavorite, RemoveFavorite
  <2>3. CASE InsertFavorite(c, w) \/ RollBackFavorite(c, w)
    <3>1. /\ adding' \in [Clients \X Crew -> {0} \cup Months]
          /\ favoured' = favoured /\ counted' = counted
      BY <2>1, <2>3 DEF InsertFavorite, RollBackFavorite
    <3> QED BY <2>2, <3>1 DEF CountedWhenMade, Months
  <2>4. CASE CommitFavorite(c, w)
    <3>1. PICK made \in Months : made = adding[p]
      BY <2>1, <2>4 DEF CommitFavorite
    <3>2. /\ adding' = [adding EXCEPT ![p] = 0] /\ favoured' = [favoured EXCEPT ![p] = made]
          /\ counted' = counted \cup {<<p[1], p[2], made>>}
      BY <2>1, <2>4, <3>1 DEF CommitFavorite
    <3>3. CountedWhenMade'
      <4>1. \A q \in Clients \X Crew : favoured'[q] = IF q = p THEN made ELSE favoured[q]
        BY <3>2
      <4> QED BY <3>2, <4>1 DEF CountedWhenMade
    <3> QED BY <2>2, <3>2, <3>3 DEF Months
  <2>5. CASE RemoveFavorite(c, w)
    <3>1. adding' = adding /\ favoured' = [favoured EXCEPT ![p] = 0] /\ counted' = counted
      BY <2>1, <2>5 DEF RemoveFavorite
    <3>2. CountedWhenMade'
      BY <3>1 DEF CountedWhenMade
    <3> QED BY <2>2, <3>1, <3>2 DEF Months
  <2> QED BY <1>2, <2>3, <2>4, <2>5
<1>3. CASE \E x \in AreaSaves :
              \/ \E want \in SUBSET Wards : RequestAreas(x, want)
              \/ BeginDelete(x) \/ DropOthers(x) \/ ReadExisting(x) \/ CreateMissing(x)
              \/ CommitAreas(x) \/ RollBackAreas(x)
  BY <1>1, <1>3 DEF RequestAreas, BeginDelete, DropOthers, ReadExisting, CreateMissing, CommitAreas,
     RollBackAreas, FavouritesStay
<1>4. CASE \E a \in Wards : CloseWard(a)
  BY <1>1, <1>4 DEF CloseWard, FavouritesStay
<1>5. CASE (\E c \in Clients, w \in Crew : ServedChanges(c, w)) \/ (\E w \in Crew : StandingChanges(w))
  BY <1>1, <1>5 DEF ServedChanges, StandingChanges
<1>6. CASE MonthPasses
  <2>1. month' \in Months
    BY <1>6, DirectoryAssumption DEF MonthPasses, Months
  <2> QED BY <1>1, <1>6, <2>1 DEF MonthPasses
<1>7. CASE UNCHANGED directoryVars
  BY <1>1, <1>7 DEF directoryVars
<1> QED BY <1>2, <1>3, <1>4, <1>5, <1>6, <1>7 DEF DirectoryNext

-----------------------------------------------------------------------------
LEMMA DirectoryStarts == DirectoryInit => DirectoryInvariant
<1> SUFFICES ASSUME DirectoryInit PROVE DirectoryInvariant
  OBVIOUS
<1>1. \A x \in AreaSaves : saving[x] = NoSave
  BY DEF DirectoryInit
<1>2. DirectoryShape
  BY NothingSaved DEF DirectoryInit, DirectoryShape
<1>3. SavesSound
  BY <1>1, NothingSaved DEF SavesSound
<1>4. AreasAsAsked
  BY DEF DirectoryInit, AreasAsAsked
<1>5. FavouritesCounted
  <2>1. 1 \in Months
    BY DirectoryAssumption DEF Months
  <2> QED BY <2>1 DEF DirectoryInit, FavouritesCounted, CountedWhenMade
<1> QED BY <1>2, <1>3, <1>4, <1>5 DEF DirectoryInvariant, AreasInvariant

\* For any workers, customers and saves: however many saves of a worker's areas overlap,
\* nothing stays that none of them asked for and everything stays that all of them did, and
\* one that meets no other leaves its own areas, of one province; and who is a favourite is
\* counted in the month he was made one.
THEOREM DirectoryStaysSafe == DirectoryInit /\ [][DirectoryNext]_directoryVars => []DirectorySafe
<1>1. DirectoryInvariant /\ [DirectoryNext]_directoryVars => DirectoryInvariant'
  BY AreasStaySound, FavouritesStayCounted DEF DirectoryInvariant
<1>2. DirectoryInvariant => DirectorySafe
  BY DEF DirectoryInvariant, AreasInvariant, FavouritesCounted, DirectorySafe
<1> QED BY DirectoryStarts, <1>1, <1>2, PTL

-----------------------------------------------------------------------------
(* WorkerIncome: induction on numbers, and sums *)

\* What holds of 0, and of the successor of each number of which it holds, holds of all numbers.
LEMMA CountUp ==
    ASSUME NEW holds \in SUBSET Nat, 0 \in holds, \A n \in holds : n + 1 \in holds
    PROVE  holds = Nat
<1>1. SUFFICES ASSUME Nat \ holds # {} PROVE FALSE
  OBVIOUS
<1>2. PICK m \in Nat \ holds : \A n \in Nat \ holds : m <= n
  BY <1>1, LeastExists
<1>3. m # 0 /\ m - 1 \in Nat /\ m - 1 \notin Nat \ holds /\ (m - 1) + 1 = m
  BY <1>2
<1> QED BY <1>2, <1>3

-----------------------------------------------------------------------------
(* Sums over a set.                                                        *)

\* The sum of what a function gives takes away one element after the other.
Some(s) == CHOOSE x \in s : TRUE
OneMore(fun, g, s) == IF s = {} THEN 0 ELSE fun[Some(s)] + g[s \ {Some(s)}]
SumsBelow(fun, S) == CHOOSE g : g = [s \in SUBSET S |-> OneMore(fun, g, s)]
Total(fun, S) == SumsBelow(fun, S)[S]

LEMMA TotalIs ==
    ASSUME NEW fun, NEW S
    PROVE  SumOver(fun, S) = Total(fun, S)
BY DEF SumOver, MapThenSumSet, MapThenFoldSet, Some, OneMore, SumsBelow, Total

LEMMA OneLess ==
    ASSUME NEW s, IsFiniteSet(s), s # {}
    PROVE  /\ Some(s) \in s /\ s \ {Some(s)} \subseteq s /\ IsFiniteSet(s \ {Some(s)})
           /\ Cardinality(s) \in Nat /\ Cardinality(s) > 0
           /\ Cardinality(s \ {Some(s)}) = Cardinality(s) - 1
<1>1. Some(s) \in s
  BY DEF Some
<1> QED BY <1>1, FS_RemoveElement, FS_CardinalityType, FS_EmptySet

\* Subsets of n elements at most.
Small(D, n) == {s \in SUBSET D : Cardinality(s) <= n}

SumsTo(fun, subsets) == \E g : g = [s \in subsets |-> OneMore(fun, g, s)]

\* On the small subsets there is such a function, since there is one on the smaller ones.
LEMMA SumsExist ==
    ASSUME NEW fun, NEW D, IsFiniteSet(D)
    PROVE  SumsTo(fun, SUBSET D)
<1> DEFINE Solved(k) == SumsTo(fun, Small(D, k))
<1>1. ASSUME NEW s \in SUBSET D
      PROVE  IsFiniteSet(s) /\ Cardinality(s) \in Nat /\ Cardinality(s) <= Cardinality(D)
  BY <1>1, FS_Subset, FS_CardinalityType
<1>2. Solved(0)
  <2>1. PICK g : g = [s \in Small(D, 0) |-> 0]
    OBVIOUS
  <2>2. \A s \in Small(D, 0) : s = {}
    BY <1>1, FS_EmptySet DEF Small
  <2>3. g = [s \in Small(D, 0) |-> OneMore(fun, g, s)]
    BY <2>1, <2>2 DEF OneMore
  <2> QED BY <2>3 DEF SumsTo
<1>3. ASSUME NEW k \in Nat, Solved(k) PROVE Solved(k + 1)
  <2>1. PICK h : h = [s \in Small(D, k) |-> OneMore(fun, h, s)]
    BY <1>3 DEF SumsTo
  <2>2. PICK g : g = [s \in Small(D, k + 1) |-> OneMore(fun, h, s)]
    OBVIOUS
  <2>3. Small(D, k) \subseteq Small(D, k + 1)
    BY <1>1 DEF Small
  <2>4. \A s \in Small(D, k) : g[s] = h[s]
    <3>1. \A s \in Small(D, k) : h[s] = OneMore(fun, h, s)
      BY <2>1
    <3> QED BY <2>2, <2>3, <3>1
  <2>5. ASSUME NEW s \in Small(D, k + 1) PROVE OneMore(fun, g, s) = OneMore(fun, h, s)
    <3>1. CASE s = {}
      BY <3>1 DEF OneMore
    <3>2. CASE s # {}
      <4>1. s \ {Some(s)} \in Small(D, k)
        BY <1>1, <3>2, OneLess DEF Small
      <4> QED BY <2>4, <4>1 DEF OneMore
    <3> QED BY <3>1, <3>2
  <2>6. g = [s \in Small(D, k + 1) |-> OneMore(fun, g, s)]
    BY <2>2, <2>5
  <2> QED BY <2>6 DEF SumsTo
<1>4. PICK solved \in SUBSET Nat : solved = {k \in Nat : Solved(k)}
  OBVIOUS
<1>5. 0 \in solved /\ \A k \in solved : k + 1 \in solved
  <2>1. 0 \in solved
    BY <1>2, <1>4
  <2>2. ASSUME NEW k \in solved PROVE k + 1 \in solved
    <3> HIDE DEF Solved
    <3> QED BY <1>3, <1>4, <2>2
  <2> QED BY <2>1, <2>2
<1>6. solved = Nat
  BY <1>5, CountUp
<1>7. Cardinality(D) \in Nat /\ Small(D, Cardinality(D)) = SUBSET D
  BY <1>1 DEF Small
<1>8. Solved(Cardinality(D))
  <2> HIDE DEF Solved
  <2> QED BY <1>4, <1>6, <1>7
<1> QED BY <1>7, <1>8

LEMMA SumsRecur ==
    ASSUME NEW fun, NEW D, IsFiniteSet(D), NEW s \in SUBSET D
    PROVE  SumsBelow(fun, D)[s] = OneMore(fun, SumsBelow(fun, D), s)
<1>1. \E g : g = [t \in SUBSET D |-> OneMore(fun, g, t)]
  BY SumsExist DEF SumsTo
<1>2. PICK g : g = SumsBelow(fun, D)
  OBVIOUS
<1>3. g = [t \in SUBSET D |-> OneMore(fun, g, t)]
  BY <1>1, <1>2 DEF SumsBelow
<1>4. g[s] = OneMore(fun, g, s)
  BY <1>3
<1> QED BY <1>2, <1>4

\* The sums below a set are those below a set that contains it.
LEMMA SumsAgree ==
    ASSUME NEW fun, NEW D, IsFiniteSet(D), NEW E \in SUBSET D, NEW s \in SUBSET E
    PROVE  SumsBelow(fun, D)[s] = SumsBelow(fun, E)[s]
<1>1. PICK f, g : f = SumsBelow(fun, D) /\ g = SumsBelow(fun, E)
  OBVIOUS
<1>2. IsFiniteSet(E)
  BY FS_Subset
<1>3. \A t \in SUBSET E : f[t] = OneMore(fun, f, t) /\ g[t] = OneMore(fun, g, t)
  <2>1. ASSUME NEW t \in SUBSET E PROVE f[t] = OneMore(fun, f, t) /\ g[t] = OneMore(fun, g, t)
    <3>1. t \in SUBSET D
      OBVIOUS
    <3> QED BY <1>1, <1>2, <3>1, SumsRecur
  <2> QED BY <2>1
<1>4. \A t \in SUBSET E : IsFiniteSet(t) /\ Cardinality(t) \in Nat
  BY <1>2, FS_Subset, FS_CardinalityType
<1>5. PICK off \in SUBSET Nat : off = {Cardinality(t) : t \in {u \in SUBSET E : f[u] # g[u]}}
  BY <1>4
<1>6. off = {}
  <2>1. SUFFICES ASSUME off # {} PROVE FALSE
    OBVIOUS
  <2>2. PICK k \in off : \A m \in off : k <= m
    BY <2>1, LeastExists
  <2>3. PICK t \in SUBSET E : f[t] # g[t] /\ Cardinality(t) = k
    BY <1>5
  <2>4. t # {}
    BY <1>3, <2>3 DEF OneMore
  <2>5. PICK u \in SUBSET E : u = t \ {Some(t)} /\ Cardinality(u) = k - 1
    BY <1>4, <2>3, <2>4, OneLess
  <2>6. f[u] = g[u]
    BY <1>5, <2>2, <2>3, <2>5
  <2>7. f[t] = g[t]
    BY <1>3, <2>4, <2>5, <2>6 DEF OneMore
  <2> QED BY <2>3, <2>7
<1>7. f[s] = g[s]
  <2>1. s \in SUBSET E /\ Cardinality(s) \notin off
    BY <1>6
  <2> QED BY <1>5, <2>1
<1> QED BY <1>1, <1>7

LEMMA TotalStep ==
    ASSUME NEW fun, NEW S, IsFiniteSet(S), S # {}
    PROVE  Total(fun, S) = fun[Some(S)] + Total(fun, S \ {Some(S)})
<1>1. PICK T \in SUBSET S : T = S \ {Some(S)}
  OBVIOUS
<1>2. Total(fun, S) = OneMore(fun, SumsBelow(fun, S), S)
  BY SumsRecur DEF Total
<1>3. SumsBelow(fun, S)[T] = SumsBelow(fun, T)[T]
  BY SumsAgree
<1> QED BY <1>1, <1>2, <1>3 DEF Total, OneMore

LEMMA TotalOfNone ==
    ASSUME NEW fun
    PROVE  Total(fun, {}) = 0
<1>1. IsFiniteSet({})
  BY FS_EmptySet
<1> QED BY <1>1, SumsRecur DEF Total, OneMore

\* It does not matter which element is taken away first.
LEMMA TotalWithout ==
    ASSUME NEW fun, NEW S, IsFiniteSet(S), \A y \in S : fun[y] \in Int
    PROVE  /\ Total(fun, S) \in Int
           /\ \A x \in S : Total(fun, S) = fun[x] + Total(fun, S \ {x})
<1> DEFINE Fits(t) == /\ Total(fun, t) \in Int
                      /\ \A x \in t : Total(fun, t) = fun[x] + Total(fun, t \ {x})
<1>1. \A t \in SUBSET S : IsFiniteSet(t) /\ Cardinality(t) \in Nat
  BY FS_Subset, FS_CardinalityType
<1>2. PICK off \in SUBSET Nat : off = {Cardinality(t) : t \in {u \in SUBSET S : ~Fits(u)}}
  BY <1>1
<1>3. off = {}
  <2>1. SUFFICES ASSUME off # {} PROVE FALSE
    OBVIOUS
  <2>2. PICK k \in off : \A m \in off : k <= m
    BY <2>1, LeastExists
  <2>3. PICK t \in SUBSET S : ~Fits(t) /\ Cardinality(t) = k
    BY <1>2
  <2>4. ASSUME NEW u \in SUBSET S, Cardinality(u) < k PROVE Fits(u)
    <3> HIDE DEF Fits
    <3> QED BY <1>1, <1>2, <2>2, <2>4
  <2>5. t # {}
    BY <2>3, TotalOfNone
  <2>6. PICK y \in t : y = Some(t) /\ Total(fun, t) = fun[y] + Total(fun, t \ {y})
    BY <1>1, <2>5, OneLess, TotalStep
  <2>7. ASSUME NEW x \in t PROVE t \ {x} \in SUBSET S /\ Cardinality(t \ {x}) = k - 1 /\ k \in Nat
    BY <1>1, <2>3, <2>7, FS_RemoveElement
  <2>8. \A x \in t : Fits(t \ {x})
    BY <2>4, <2>7
  <2>9. Total(fun, t) \in Int
    BY <2>6, <2>8
  <2>10. ASSUME NEW x \in t, x # y PROVE Total(fun, t) = fun[x] + Total(fun, t \ {x})
    <3>1. Total(fun, t \ {y}) = fun[x] + Total(fun, (t \ {y}) \ {x})
      BY <2>8, <2>10
    <3>2. Total(fun, t \ {x}) = fun[y] + Total(fun, (t \ {x}) \ {y})
      BY <2>8, <2>10
    <3>3. (t \ {x}) \ {y} = (t \ {y}) \ {x}
      OBVIOUS
    <3>4. Total(fun, (t \ {x}) \ {y}) \in Int
      <4>1. Total(fun, t \ {x}) \in Int /\ Total(fun, t \ {y}) \in Int
        BY <2>8
      <4>2. PICK u \in SUBSET S : u = t \ {x} /\ Cardinality(u) = k - 1 /\ k \in Nat
        BY <2>7
      <4>3. IsFiniteSet(u) /\ y \in u
        BY <1>1, <2>10, <4>2
      <4>4. PICK v \in SUBSET S : v = u \ {y}
        OBVIOUS
      <4>5. Cardinality(v) = Cardinality(u) - 1
        BY <4>3, <4>4, FS_RemoveElement
      <4>6. Cardinality(v) < k
        BY <4>2, <4>5
      <4>7. Fits(v)
        BY <2>4, <4>6
      <4> QED BY <4>2, <4>4, <4>7
    <3>5. fun[x] \in Int /\ fun[y] \in Int
      OBVIOUS
    <3>6. PICK rest \in Int : rest = Total(fun, (t \ {x}) \ {y})
      BY <3>4
    <3>7. Total(fun, t) = fun[y] + (fun[x] + rest)
      BY <2>6, <3>1, <3>3, <3>6
    <3>8. Total(fun, t \ {x}) = fun[y] + rest
      BY <3>2, <3>6
    <3> QED BY <3>5, <3>6, <3>7, <3>8
  <2>11. Fits(t)
    BY <2>6, <2>9, <2>10
  <2> QED BY <2>3, <2>11
<1>4. Fits(S)
  <2>1. S \in SUBSET S /\ Cardinality(S) \notin off
    BY <1>3
  <2> HIDE DEF Fits
  <2> QED BY <1>2, <2>1
<1> QED BY <1>4

LEMMA TotalIsNat ==
    ASSUME NEW fun, NEW S, IsFiniteSet(S), \A y \in S : fun[y] \in Nat
    PROVE  Total(fun, S) \in Nat
<1>1. \A t \in SUBSET S : IsFiniteSet(t) /\ Cardinality(t) \in Nat
  BY FS_Subset, FS_CardinalityType
<1>2. PICK good \in SUBSET Nat :
          good = {n \in Nat : \A t \in SUBSET S : Cardinality(t) = n => Total(fun, t) \in Nat}
  OBVIOUS
<1>3. 0 \in good
  BY <1>1, <1>2, TotalOfNone, FS_EmptySet
<1>4. ASSUME NEW n \in good PROVE n + 1 \in good
  <2>1. ASSUME NEW t \in SUBSET S, Cardinality(t) = n + 1 PROVE Total(fun, t) \in Nat
    <3>1. PICK x \in t : TRUE
      BY <1>1, <2>1, FS_EmptySet
    <3>2. PICK u \in SUBSET S : u = t \ {x}
      OBVIOUS
    <3>3. Cardinality(u) = n
      <4>1. Cardinality(u) = Cardinality(t) - 1
        BY <1>1, <3>1, <3>2, FS_RemoveElement
      <4> QED BY <2>1, <4>1
    <3>4. Total(fun, u) \in Nat
      BY <1>2, <3>3
    <3>5. \A y \in t : fun[y] \in Int
      OBVIOUS
    <3>6. Total(fun, t) = fun[x] + Total(fun, u)
      BY <1>1, <3>1, <3>2, <3>5, TotalWithout
    <3> QED BY <3>1, <3>4, <3>6
  <2> QED BY <1>2, <2>1
<1>5. good = Nat
  BY <1>3, <1>4, CountUp
<1>6. S \in SUBSET S /\ Cardinality(S) \in good
  BY <1>1, <1>5
<1> QED BY <1>2, <1>6

\* Sums of functions that differ, element by element, by another one.
LEMMA TotalOfDifference ==
    ASSUME NEW fun, NEW less, NEW rest, NEW S, IsFiniteSet(S),
           \A y \in S : fun[y] \in Int /\ less[y] \in Int /\ rest[y] = fun[y] - less[y]
    PROVE  Total(rest, S) = Total(fun, S) - Total(less, S)
<1>1. \A t \in SUBSET S : IsFiniteSet(t) /\ Cardinality(t) \in Nat
  BY FS_Subset, FS_CardinalityType
<1>2. PICK good \in SUBSET Nat :
          good = {n \in Nat : \A t \in SUBSET S :
                     Cardinality(t) = n => Total(rest, t) = Total(fun, t) - Total(less, t)}
  OBVIOUS
<1>3. 0 \in good
  <2>1. ASSUME NEW t \in SUBSET S, Cardinality(t) = 0 PROVE Total(rest, t) = Total(fun, t) - Total(less, t)
    <3>1. t = {}
      BY <1>1, <2>1, FS_EmptySet
    <3>2. Total(rest, {}) = 0 /\ Total(fun, {}) = 0 /\ Total(less, {}) = 0
      BY TotalOfNone
    <3> QED BY <3>1, <3>2
  <2> QED BY <1>2, <2>1
<1>4. ASSUME NEW n \in good PROVE n + 1 \in good
  <2>1. ASSUME NEW t \in SUBSET S, Cardinality(t) = n + 1 PROVE Total(rest, t) = Total(fun, t) - Total(less, t)
    <3>1. PICK x \in t : TRUE
      BY <1>1, <2>1, FS_EmptySet
    <3>2. PICK u \in SUBSET S : u = t \ {x}
      OBVIOUS
    <3>3. Cardinality(u) = n
      <4>1. Cardinality(u) = Cardinality(t) - 1
        BY <1>1, <3>1, <3>2, FS_RemoveElement
      <4> QED BY <2>1, <4>1
    <3>4. Total(rest, u) = Total(fun, u) - Total(less, u)
      BY <1>2, <3>3
    <3>5. \A y \in t : fun[y] \in Int /\ less[y] \in Int /\ rest[y] \in Int
      OBVIOUS
    <3>6. Total(fun, t) = fun[x] + Total(fun, u) /\ Total(fun, u) \in Int
      <4>1. \A y \in u : fun[y] \in Int
        OBVIOUS
      <4> QED BY <1>1, <3>1, <3>2, <3>5, <4>1, TotalWithout
    <3>7. Total(less, t) = less[x] + Total(less, u) /\ Total(less, u) \in Int
      <4>1. \A y \in u : less[y] \in Int
        OBVIOUS
      <4> QED BY <1>1, <3>1, <3>2, <3>5, <4>1, TotalWithout
    <3>8. Total(rest, t) = rest[x] + Total(rest, u)
      BY <1>1, <3>1, <3>2, <3>5, TotalWithout
    <3>9. rest[x] = fun[x] - less[x] /\ fun[x] \in Int /\ less[x] \in Int
      OBVIOUS
    <3> QED BY <3>4, <3>6, <3>7, <3>8, <3>9
  <2> QED BY <1>2, <2>1
<1>5. good = Nat
  BY <1>3, <1>4, CountUp
<1>6. S \in SUBSET S /\ Cardinality(S) \in good
  BY <1>1, <1>5
<1> QED BY <1>2, <1>6

LEMMA TotalSame ==
    ASSUME NEW fun, NEW same, NEW S, IsFiniteSet(S), \A y \in S : fun[y] \in Int /\ same[y] = fun[y]
    PROVE  Total(same, S) = Total(fun, S)
<1>1. PICK none : none = [y \in S |-> 0]
  OBVIOUS
<1>2. Total(same, S) = Total(fun, S) - Total(none, S)
  <2>1. \A y \in S : fun[y] \in Int /\ none[y] \in Int /\ same[y] = fun[y] - none[y]
    BY <1>1
  <2> QED BY <2>1, TotalOfDifference
<1>3. Total(none, S) = Total(none, S) - Total(none, S)
  <2>1. \A y \in S : none[y] \in Int /\ none[y] \in Int /\ none[y] = none[y] - none[y]
    BY <1>1
  <2> QED BY <2>1, TotalOfDifference
<1>4. Total(none, S) \in Int /\ Total(fun, S) \in Int
  <2>1. \A y \in S : none[y] \in Int
    BY <1>1
  <2>2. \A y \in S : fun[y] \in Int
    OBVIOUS
  <2> QED BY <2>1, <2>2, TotalWithout
<1> QED BY <1>2, <1>3, <1>4

LEMMA TotalOfBoth ==
    ASSUME NEW fun, NEW A, NEW B, IsFiniteSet(A), IsFiniteSet(B), A \cap B = {},
           \A x \in A \cup B : fun[x] \in Int
    PROVE  Total(fun, A \cup B) = Total(fun, A) + Total(fun, B)
<1> DEFINE Adds(t) == Total(fun, A \cup t) = Total(fun, A) + Total(fun, t)
           good == {n \in Nat : \A t \in SUBSET B : Cardinality(t) = n => Adds(t)}
<1>1. ASSUME NEW t \in SUBSET B
      PROVE  /\ IsFiniteSet(t) /\ Cardinality(t) \in Nat /\ IsFiniteSet(A \cup t)
             /\ Total(fun, t) \in Int /\ Total(fun, A \cup t) \in Int
             /\ \A x \in t : Total(fun, t) = fun[x] + Total(fun, t \ {x})
             /\ \A x \in t : Total(fun, A \cup t) = fun[x] + Total(fun, (A \cup t) \ {x})
  <2>1. IsFiniteSet(t) /\ Cardinality(t) \in Nat /\ IsFiniteSet(A \cup t)
    BY <1>1, FS_Subset, FS_CardinalityType, FS_Union
  <2>2. PICK u : u = A \cup t
    OBVIOUS
  <2>3. \A y \in u : fun[y] \in Int
    BY <2>2
  <2>4. Total(fun, u) \in Int /\ \A x \in u : Total(fun, u) = fun[x] + Total(fun, u \ {x})
    BY <2>1, <2>2, <2>3, TotalWithout
  <2>5. Total(fun, t) \in Int /\ \A x \in t : Total(fun, t) = fun[x] + Total(fun, t \ {x})
    BY <2>1, TotalWithout
  <2> QED BY <2>1, <2>2, <2>4, <2>5
<1>2. Total(fun, A) \in Int
  BY TotalWithout
<1>3. 0 \in good
  <2>1. ASSUME NEW t \in SUBSET B, Cardinality(t) = 0 PROVE Adds(t)
    <3>1. t = {}
      BY <1>1, <2>1, FS_EmptySet
    <3>2. A \cup t = A
      BY <3>1
    <3>3. Total(fun, A \cup t) = Total(fun, A)
      BY <3>2, Zenon
    <3>4. PICK a \in Int : a = Total(fun, A)
      BY <1>2
    <3>5. Total(fun, t) = 0
      BY <3>1, TotalOfNone
    <3>6. Total(fun, A) = Total(fun, A) + Total(fun, t)
      BY <3>4, <3>5
    <3> QED BY <3>3, <3>6, Zenon
  <2> QED BY <2>1
<1>4. ASSUME NEW n \in good PROVE n + 1 \in good
  <2>1. ASSUME NEW t \in SUBSET B, Cardinality(t) = n + 1 PROVE Adds(t)
    <3>1. PICK x \in t : TRUE
      <4>1. Cardinality(t) # 0
        BY <2>1
      <4> QED BY <4>1, FS_EmptySet
    <3>2. PICK u \in SUBSET B : u = t \ {x}
      OBVIOUS
    <3>3. Cardinality(u) = n
      <4>1. IsFiniteSet(t) /\ Cardinality(u) = Cardinality(t) - 1
        BY <1>1, <3>1, <3>2, FS_RemoveElement
      <4> QED BY <2>1, <4>1
    <3>4. Adds(u)
      BY <3>3
    <3>5. PICK v, w : v = A \cup u /\ w = A \cup t
      OBVIOUS
    <3>6. Total(fun, A \cup t) = fun[x] + Total(fun, A \cup u)
      <4>1. v = w \ {x}
        BY <3>1, <3>2, <3>5
      <4>2. Total(fun, w) = fun[x] + Total(fun, w \ {x})
        BY <1>1, <3>1, <3>5
      <4> QED BY <3>5, <4>1, <4>2
    <3>7. Total(fun, t) = fun[x] + Total(fun, u)
      BY <1>1, <3>1, <3>2
    <3>8. fun[x] \in Int /\ Total(fun, u) \in Int
      BY <1>1, <3>1
    <3>9. PICK a, b, f \in Int : a = Total(fun, A) /\ b = Total(fun, u) /\ f = fun[x]
      BY <1>2, <3>8
    <3>10. Total(fun, A \cup t) = f + (a + b)
      BY <3>4, <3>6, <3>9
    <3>11. Total(fun, t) = f + b
      BY <3>7, <3>9
    <3> QED BY <3>9, <3>10, <3>11
  <2> QED BY <2>1
<1>5. good = Nat
  <2> HIDE DEF good
  <2>1. good \in SUBSET Nat
    BY DEF good
  <2> QED BY <1>3, <1>4, <2>1, CountUp
<1>6. B \in SUBSET B /\ Cardinality(B) \in good
  BY <1>1, <1>5
<1>7. PICK n \in good : n = Cardinality(B)
  BY <1>6
<1>8. \A t \in SUBSET B : Cardinality(t) = n => Total(fun, A \cup t) = Total(fun, A) + Total(fun, t)
  <2>1. n \in good
    OBVIOUS
  <2> QED BY <2>1
<1> QED BY <1>7, <1>8

\* The bars add up to what they divide.
LEMMA BarsAddUp ==
    ASSUME NEW fun, NEW S, IsFiniteSet(S), \A x \in S : fun[x] \in Int,
           NEW B, IsFiniteSet(B), NEW bar \in [S -> B],
           NEW chart, \A b \in B : \E part \in SUBSET S :
                          (\A x \in S : x \in part <=> bar[x] = b) /\ chart[b] = Total(fun, part)
    PROVE  Total(chart, B) = Total(fun, S)
<1>0. \A b \in B : chart[b] = Total(fun, {x \in S : bar[x] = b})
  <2>1. ASSUME NEW b \in B PROVE chart[b] = Total(fun, {x \in S : bar[x] = b})
    <3>1. PICK part \in SUBSET S : (\A x \in S : x \in part <=> bar[x] = b) /\ chart[b] = Total(fun, part)
      OBVIOUS
    <3>2. part = {x \in S : bar[x] = b}
      BY <3>1
    <3> QED BY <3>1, <3>2
  <2> QED BY <2>1
<1> DEFINE In(C) == {x \in S : bar[x] \in C}
           Adds(C) == Total(chart, C) = Total(fun, In(C))
           good == {n \in Nat : \A C \in SUBSET B : Cardinality(C) = n => Adds(C)}
<1>1. ASSUME NEW C \in SUBSET S PROVE IsFiniteSet(C) /\ Total(fun, C) \in Int
  <2>1. IsFiniteSet(C) /\ \A x \in C : fun[x] \in Int
    BY FS_Subset
  <2> QED BY <2>1, TotalWithout
<1>2. \A b \in B : chart[b] \in Int
  <2>1. ASSUME NEW b \in B PROVE chart[b] \in Int
    <3>1. PICK C \in SUBSET S : C = {x \in S : bar[x] = b}
      OBVIOUS
    <3> QED BY <1>0, <1>1, <3>1
  <2> QED BY <2>1
<1>3. ASSUME NEW C \in SUBSET B
      PROVE  /\ IsFiniteSet(C) /\ Cardinality(C) \in Nat /\ Total(chart, C) \in Int
             /\ \A x \in C : Total(chart, C) = chart[x] + Total(chart, C \ {x})
  <2>1. IsFiniteSet(C) /\ Cardinality(C) \in Nat /\ \A x \in C : chart[x] \in Int
    BY <1>2, FS_Subset, FS_CardinalityType
  <2> QED BY <2>1, TotalWithout
<1>4. 0 \in good
  <2>1. ASSUME NEW C \in SUBSET B, Cardinality(C) = 0 PROVE Adds(C)
    <3>1. C = {}
      BY <1>3, <2>1, FS_EmptySet
    <3>2. PICK found : found = In(C)
      OBVIOUS
    <3>3. found = {}
      BY <3>1, <3>2
    <3>4. Total(chart, C) = 0
      BY <3>1, TotalOfNone
    <3>5. Total(fun, In(C)) = 0
      <4> HIDE DEF In
      <4> QED BY <3>2, <3>3, TotalOfNone
    <3> HIDE DEF In
    <3> QED BY <3>4, <3>5
  <2> QED BY <2>1
<1>5. ASSUME NEW n \in good PROVE n + 1 \in good
  <2>1. ASSUME NEW C \in SUBSET B, Cardinality(C) = n + 1 PROVE Adds(C)
    <3>1. PICK b \in C : TRUE
      BY <1>3, <2>1, FS_EmptySet
    <3>2. PICK rest \in SUBSET B : rest = C \ {b}
      OBVIOUS
    <3>3. Cardinality(rest) = n
      <4>1. Cardinality(rest) = Cardinality(C) - 1
        BY <1>3, <3>1, <3>2, FS_RemoveElement
      <4> QED BY <2>1, <4>1
    <3>4. Total(chart, rest) = Total(fun, In(rest))
      BY <3>3
    <3>5. PICK mine \in SUBSET S : mine = {x \in S : bar[x] = b}
      OBVIOUS
    <3>6. PICK theirs \in SUBSET S : theirs = In(rest)
      OBVIOUS
    <3>7. In(C) = theirs \cup mine /\ theirs \cap mine = {}
      BY <3>1, <3>2, <3>5, <3>6
    <3>8. Total(fun, theirs \cup mine) = Total(fun, theirs) + Total(fun, mine)
      <4>1. IsFiniteSet(theirs) /\ IsFiniteSet(mine) /\ \A x \in theirs \cup mine : fun[x] \in Int
        BY <1>1
      <4> QED BY <3>7, <4>1, TotalOfBoth
    <3>9. Total(fun, In(C)) = Total(fun, theirs) + Total(fun, mine)
      <4>1. PICK all : all = In(C)
        OBVIOUS
      <4>2. all = theirs \cup mine
        BY <3>7, <4>1
      <4> QED BY <3>8, <4>1, <4>2
    <3>10. Total(chart, C) = chart[b] + Total(chart, rest) /\ chart[b] = Total(fun, mine)
      BY <1>0, <1>3, <3>1, <3>2, <3>5
    <3>11. Total(fun, mine) \in Int /\ Total(fun, theirs) \in Int /\ Total(fun, theirs) = Total(chart, rest)
      BY <1>1, <3>4, <3>6
    <3> QED BY <3>9, <3>10, <3>11
  <2> QED BY <2>1
<1>6. good = Nat
  <2>1. good \in SUBSET Nat
    OBVIOUS
  <2> HIDE DEF good
  <2> QED BY <1>4, <1>5, <2>1, CountUp
<1>7. Adds(B)
  <2>1. B \in SUBSET B /\ Cardinality(B) \in Nat
    BY <1>3
  <2>2. Cardinality(B) \in good
    BY <1>6, <2>1
  <2> QED BY <2>1, <2>2
<1>8. In(B) = S
  OBVIOUS
<1> QED BY <1>7, <1>8

-----------------------------------------------------------------------------
(* The calendar of the earnings.                                           *)

KnownMonths == 1..Len(MonthLengths)

LEMMA MonthLengthsAre ==
    Len(MonthLengths) \in Nat /\ Len(MonthLengths) \in KnownMonths /\ 1 \in KnownMonths
    /\ \A m \in KnownMonths : MonthLengths[m] \in 1..31
<1>1. MonthLengths \in Seq(1..31) /\ Len(MonthLengths) > 0
  BY IncomeAssumption
<1>2. Len(MonthLengths) \in Nat /\ \A m \in 1..Len(MonthLengths) : MonthLengths[m] \in 1..31
  <2>1. PICK T : T = 1..31 /\ MonthLengths \in Seq(T)
    BY <1>1
  <2> QED BY <2>1, LenProperties, ElementOfSeq
<1>3. PICK n \in Nat : n = Len(MonthLengths) /\ n > 0
  BY <1>1, <1>2
<1>4. n \in 1..n /\ 1 \in 1..n
  BY <1>3
<1> QED BY <1>2, <1>3, <1>4 DEF KnownMonths

LEMMA MonthStarts ==
    /\ MonthStart(1) = 0
    /\ \A m \in KnownMonths : /\ MonthStart(m) \in Nat /\ MonthEnd(m) \in Nat
                         /\ MonthStart(m + 1) = MonthEnd(m) + 1
                         /\ MonthStart(m) <= MonthEnd(m) /\ MonthEnd(m) <= MonthStart(m) + 30
<1>1. MonthStart(1) = 0
  <2>1. 1..(1 - 1) = {}
    OBVIOUS
  <2> QED BY <2>1, TotalIs, TotalOfNone DEF MonthStart
<1>2. ASSUME NEW m \in KnownMonths
      PROVE  /\ MonthStart(m) \in Nat /\ MonthEnd(m) \in Nat
             /\ MonthStart(m + 1) = MonthEnd(m) + 1
             /\ MonthStart(m) <= MonthEnd(m) /\ MonthEnd(m) <= MonthStart(m) + 30
  <2>1. PICK all, before : all = 1..m /\ before = 1..(m - 1)
    OBVIOUS
  <2>2. m \in Nat /\ m >= 1 /\ m <= Len(MonthLengths)
    BY MonthLengthsAre DEF KnownMonths
  <2>3. IsFiniteSet(all) /\ IsFiniteSet(before)
    BY <2>1, <2>2, FS_Interval
  <2>4. all \ {m} = before /\ m \in all
    BY <2>1, <2>2
  <2>5. \A k \in all : MonthLengths[k] \in Nat
    <3>1. \A k \in all : k \in KnownMonths
      BY <2>1, <2>2, MonthLengthsAre DEF KnownMonths
    <3>2. \A k \in KnownMonths : MonthLengths[k] \in 1..31
      BY MonthLengthsAre
    <3> QED BY <3>1, <3>2
  <2>6. Total(MonthLengths, all) = MonthLengths[m] + Total(MonthLengths, before)
    BY <2>3, <2>4, <2>5, TotalWithout
  <2>7. Total(MonthLengths, before) \in Nat
    <3>1. \A k \in before : MonthLengths[k] \in Nat
      BY <2>4, <2>5
    <3> QED BY <2>3, <3>1, TotalIsNat
  <2>8. MonthStart(m) = Total(MonthLengths, before)
    BY <2>1, TotalIs DEF MonthStart
  <2>9. MonthStart(m + 1) = Total(MonthLengths, all)
    <3>1. (m + 1) - 1 = m
      BY <2>2
    <3> QED BY <2>1, <3>1, TotalIs DEF MonthStart
  <2>10. MonthLengths[m] \in 1..31
    BY MonthLengthsAre
  <2>11. PICK a \in Nat, b \in 1..31 : a = MonthStart(m) /\ b = MonthLengths[m]
    BY <2>7, <2>8, <2>10
  <2>12. MonthStart(m + 1) = b + a /\ MonthEnd(m) = a + b - 1
    BY <2>6, <2>8, <2>9, <2>11 DEF MonthEnd
  <2> QED BY <2>11, <2>12
<1> QED BY <1>1, <1>2

LEMMA MonthsInOrder ==
    ASSUME NEW m \in KnownMonths, NEW n \in KnownMonths, m < n
    PROVE  MonthEnd(m) < MonthStart(n)
<1> DEFINE good == {k \in Nat : m + 1 + k \in KnownMonths => MonthEnd(m) < MonthStart(m + 1 + k)}
<1>1. m \in Nat /\ n \in Nat /\ m >= 1
  BY MonthLengthsAre DEF KnownMonths
<1>2. 0 \in good
  <2>1. m + 1 + 0 = m + 1
    BY <1>1
  <2>2. MonthEnd(m) < MonthStart(m + 1)
    BY MonthStarts
  <2> QED BY <2>1, <2>2
<1>3. ASSUME NEW k \in good PROVE k + 1 \in good
  <2>1. PICK p : p = m + 1 + k
    OBVIOUS
  <2>2. p \in Nat /\ m + 1 + (k + 1) = p + 1 /\ k \in Nat
    BY <1>1, <2>1
  <2>3. ASSUME p + 1 \in KnownMonths PROVE MonthEnd(m) < MonthStart(p + 1)
    <3>1. p \in KnownMonths
      BY <1>1, <2>1, <2>2, <2>3, MonthLengthsAre DEF KnownMonths
    <3>2. MonthEnd(m) < MonthStart(p)
      BY <2>1, <3>1
    <3>3. MonthStart(p + 1) = MonthEnd(p) + 1 /\ MonthStart(p) <= MonthEnd(p)
          /\ MonthStart(p) \in Nat /\ MonthEnd(p) \in Nat /\ MonthEnd(m) \in Nat
      BY <3>1, MonthStarts
    <3> QED BY <3>2, <3>3
  <2> QED BY <2>2, <2>3
<1>4. good = Nat
  <2>1. good \in SUBSET Nat
    OBVIOUS
  <2> HIDE DEF good
  <2> QED BY <1>2, <1>3, <2>1, CountUp
<1>5. PICK k \in Nat : n = m + 1 + k
  <2>1. n - (m + 1) \in Nat /\ n = m + 1 + (n - (m + 1))
    BY <1>1
  <2> QED BY <2>1
<1>6. k \in good
  BY <1>4
<1> QED BY <1>5, <1>6

LEMMA CalendarIs ==
    /\ Calendar \subseteq Nat /\ 0 \in Calendar
    /\ \A d \in Calendar : \A k \in Nat : k <= d => k \in Calendar
    /\ \A m \in KnownMonths : MonthEnd(m) \in Calendar
<1>1. PICK last \in Nat : last = MonthEnd(Len(MonthLengths))
  BY MonthStarts, MonthLengthsAre
<1>2. Calendar = 0..last
  BY <1>1 DEF Calendar
<1>3. ASSUME NEW m \in KnownMonths PROVE MonthEnd(m) \in Calendar
  <2>1. m = Len(MonthLengths) \/ m < Len(MonthLengths)
    BY MonthLengthsAre DEF KnownMonths
  <2>2. MonthEnd(m) \in Nat
    BY MonthStarts
  <2>3. CASE m < Len(MonthLengths)
    <3>1. MonthEnd(m) < MonthStart(Len(MonthLengths))
      BY <2>3, MonthsInOrder, MonthLengthsAre
    <3>2. MonthStart(Len(MonthLengths)) \in Nat /\ MonthStart(Len(MonthLengths)) <= last
      BY <1>1, MonthStarts, MonthLengthsAre
    <3> QED BY <1>2, <2>2, <3>1, <3>2
  <2> QED BY <1>1, <1>2, <2>1, <2>2, <2>3
<1> QED BY <1>2, <1>3

\* Each day is in one month.
LEMMA MonthAtIs ==
    ASSUME NEW d \in Calendar
    PROVE  /\ MonthAt(d) \in KnownMonths /\ d \in MonthStart(MonthAt(d))..MonthEnd(MonthAt(d))
           /\ \A m \in KnownMonths : d \in MonthStart(m)..MonthEnd(m) => m = MonthAt(d)
<1>1. d \in Nat /\ KnownMonths \subseteq Nat
  BY CalendarIs DEF KnownMonths
<1>2. PICK over : over = {m \in KnownMonths : d <= MonthEnd(m)}
  OBVIOUS
<1>3. Len(MonthLengths) \in over
  BY <1>2, MonthLengthsAre, MonthStarts DEF Calendar
<1>4. PICK m \in over : \A n \in over : m <= n
  <2>1. over \subseteq Nat /\ over # {}
    BY <1>1, <1>2, <1>3
  <2> QED BY <2>1, LeastExists
<1>5. m \in KnownMonths /\ d <= MonthEnd(m) /\ MonthStart(m) \in Nat /\ MonthEnd(m) \in Nat
  BY <1>2, MonthStarts
<1>6. MonthStart(m) <= d
  <2>1. CASE m = 1
    BY <1>1, <2>1, MonthStarts
  <2>2. CASE m # 1
    <3>1. PICK p \in KnownMonths : m = p + 1
      <4>1. m \in Nat /\ m >= 1 /\ m <= Len(MonthLengths) /\ Len(MonthLengths) \in Nat
        BY <1>5, MonthLengthsAre DEF KnownMonths
      <4>2. m - 1 \in 1..Len(MonthLengths) /\ m = (m - 1) + 1
        BY <2>2, <4>1
      <4> QED BY <4>2 DEF KnownMonths
    <3>2. p \notin over
      <4>1. p \in Nat /\ m \in Nat /\ ~(m <= p)
        BY <1>1, <1>5, <3>1
      <4> QED BY <1>4, <4>1
    <3>3. MonthStart(m) = MonthEnd(p) + 1 /\ MonthEnd(p) \in Nat
      BY <3>1, MonthStarts
    <3> QED BY <1>1, <1>2, <3>2, <3>3
  <2> QED BY <2>1, <2>2
<1>7. d \in MonthStart(m)..MonthEnd(m)
  BY <1>1, <1>5, <1>6
<1>8. MonthAt(d) \in KnownMonths /\ d \in MonthStart(MonthAt(d))..MonthEnd(MonthAt(d))
  BY <1>5, <1>7 DEF MonthAt, KnownMonths
<1>9. ASSUME NEW a \in KnownMonths, NEW b \in KnownMonths,
             d \in MonthStart(a)..MonthEnd(a), d \in MonthStart(b)..MonthEnd(b)
      PROVE  ~(a < b)
  <2>1. MonthEnd(a) \in Nat /\ MonthStart(b) \in Nat
    BY MonthStarts
  <2> QED BY <1>1, <1>9, <2>1, MonthsInOrder
<1>10. ASSUME NEW n \in KnownMonths, d \in MonthStart(n)..MonthEnd(n) PROVE n = MonthAt(d)
  <2>1. ~(n < MonthAt(d)) /\ ~(MonthAt(d) < n)
    BY <1>8, <1>9, <1>10
  <2>2. n \in Nat /\ MonthAt(d) \in Nat
    BY <1>1, <1>8
  <2> QED BY <2>1, <2>2
<1> QED BY <1>8, <1>10

LEMMA WeekdayIs ==
    ASSUME NEW d \in Nat
    PROVE  Weekday(d) \in 0..6 /\ (Weekday(d) = 6 => Weekday(d + 1) = 0)
<1>1. PICK n \in Nat : n = d + FirstWeekday
  BY IncomeAssumption
<1>2. (d + 1) + FirstWeekday = n + 1
  BY <1>1, IncomeAssumption
<1>3. n % 7 \in 0..6 /\ (n % 7 = 6 => (n + 1) % 7 = 0)
  BY Z3
<1> QED BY <1>1, <1>2, <1>3 DEF Weekday

-----------------------------------------------------------------------------
(* The inductive invariant of the summary.                                 *)

EarningStages == {"none", "open", "settled", "voided"}
SummarySteps == {"none", "earned", "owed", "pending", "balance", "series", "shown"}

IncomeTypes ==
    /\ clock \in Calendar
    /\ earning \in [Earnings -> [stage : EarningStages, day : Calendar]]
    /\ screen \in [step : SummarySteps, period : {"", "week", "month"}, today : Calendar,
                   earned : SUBSET Earnings, owed : SUBSET Earnings, pending : SUBSET Earnings,
                   balance : SUBSET Earnings, series : SUBSET Earnings, before : SUBSET Earnings]
    /\ screen.step # "none" => screen.period \in {"week", "month"}

\* What was completed in the period asked for, and may have been voided since.
OfPeriod ==
    {e \in Earned({"open", "settled", "voided"}) :
        earning[e].day \in PeriodStart(screen.period, screen.today)..PeriodEnd(screen.period, screen.today)}

\* What a reading did not find open has left that stage for good: it is settled by now.
ReadsAgree ==
    /\ screen.step # "none" => screen.before \subseteq Earned({"open", "settled", "voided"})
    /\ screen.step \in {"pending", "balance"} =>
           PaidBy("CASH", Kept(screen.before)) \subseteq screen.owed \cup Earned({"settled"})
    /\ screen.step = "balance" =>
           PaidBy("ONLINE", Kept(screen.before)) \subseteq screen.pending \cup Earned({"settled"})
    /\ screen.step \in {"series", "shown"} =>
           Kept(screen.before) \subseteq screen.owed \cup screen.pending \cup screen.balance
    /\ screen.step \in {"owed", "pending", "balance", "series", "shown"} => screen.earned \subseteq OfPeriod
    /\ screen.step = "shown" => screen.series \subseteq OfPeriod /\ Kept(screen.earned) \subseteq screen.series

IncomeInvariant == IncomeTypes /\ ReadsAgree

LEMMA IncomeStarts == IncomeInit => IncomeInvariant
<1> SUFFICES ASSUME IncomeInit PROVE IncomeInvariant
  OBVIOUS
<1>1. IncomeTypes
  BY CalendarIs DEF IncomeInit, IncomeTypes, NotAsked, EarningStages, SummarySteps
<1>2. ReadsAgree
  BY DEF IncomeInit, ReadsAgree, NotAsked
<1> QED BY <1>1, <1>2 DEF IncomeInvariant

\* What an earning never does: come back from "voided", or leave the wallet but for that, or
\* change its day.
EarningsMove ==
    \A e \in Earnings :
        /\ earning'[e] \in [stage : EarningStages, day : Calendar]
        /\ earning[e].stage # "none" => earning'[e].stage # "none" /\ earning'[e].day = earning[e].day
        /\ earning[e].stage = "voided" => earning'[e].stage = "voided"
        /\ earning[e].stage = "settled" => earning'[e].stage \in {"settled", "voided"}

LEMMA MovesKeepIncome ==
    ASSUME IncomeInvariant, EarningsMove, earning' \in [Earnings -> [stage : EarningStages, day : Calendar]],
           UNCHANGED <<clock, screen>>
    PROVE  IncomeInvariant'
<1>1. IncomeTypes'
  BY DEF IncomeInvariant, IncomeTypes
<1>2. \A x : Kept(x)' \subseteq x \ Earned({"voided"})
  BY DEF EarningsMove, Kept, Earned
<1>3. /\ Earned({"open", "settled", "voided"}) \subseteq Earned({"open", "settled", "voided"})'
      /\ OfPeriod \subseteq OfPeriod'
  BY DEF EarningsMove, Earned, OfPeriod, EarningStages
<1>4. ASSUME NEW x \in SUBSET Earnings, NEW y \in SUBSET Earnings, NEW method,
             PaidBy(method, Kept(x)) \subseteq y \cup Earned({"settled"})
      PROVE  PaidBy(method, Kept(x)') \subseteq y \cup Earned({"settled"})'
  BY <1>4 DEF EarningsMove, Kept, Earned, PaidBy
<1>5. \A x \in SUBSET Earnings : Kept(x)' \subseteq Kept(x)
  BY <1>2 DEF Kept
<1>6. screen' = screen /\ screen.before \in SUBSET Earnings /\ screen.owed \in SUBSET Earnings
      /\ screen.pending \in SUBSET Earnings /\ screen.earned \in SUBSET Earnings
  BY DEF IncomeInvariant, IncomeTypes
<1>7. ReadsAgree'
  <2>1. (screen.step # "none" => screen.before \subseteq Earned({"open", "settled", "voided"}))'
    BY <1>3, <1>6 DEF IncomeInvariant, ReadsAgree
  <2>2. (screen.step \in {"pending", "balance"} =>
             PaidBy("CASH", Kept(screen.before)) \subseteq screen.owed \cup Earned({"settled"}))'
    BY <1>4, <1>6 DEF IncomeInvariant, ReadsAgree
  <2>3. (screen.step = "balance" =>
             PaidBy("ONLINE", Kept(screen.before)) \subseteq screen.pending \cup Earned({"settled"}))'
    BY <1>4, <1>6 DEF IncomeInvariant, ReadsAgree
  <2>4. (screen.step \in {"series", "shown"} =>
             Kept(screen.before) \subseteq screen.owed \cup screen.pending \cup screen.balance)'
    BY <1>5, <1>6 DEF IncomeInvariant, ReadsAgree
  <2>5. (screen.step \in {"owed", "pending", "balance", "series", "shown"} => screen.earned \subseteq OfPeriod)'
    BY <1>3, <1>6 DEF IncomeInvariant, ReadsAgree
  <2>6. (screen.step = "shown" =>
             screen.series \subseteq OfPeriod /\ Kept(screen.earned) \subseteq screen.series)'
    BY <1>3, <1>5, <1>6 DEF IncomeInvariant, ReadsAgree
  <2> QED BY <2>1, <2>2, <2>3, <2>4, <2>5, <2>6 DEF ReadsAgree
<1> QED BY <1>1, <1>7 DEF IncomeInvariant

LEMMA TurnsMove ==
    ASSUME IncomeInvariant, NEW e \in Earnings, NEW from \in EarningStages, NEW to \in EarningStages,
           from # "none", from # "voided", to # "none", from = "settled" => to = "voided", Turns(e, from, to)
    PROVE  IncomeInvariant'
<1>1. earning' \in [Earnings -> [stage : EarningStages, day : Calendar]]
  BY DEF IncomeInvariant, IncomeTypes, Turns
<1>2. EarningsMove
  BY DEF IncomeInvariant, IncomeTypes, Turns, EarningsMove
<1> QED BY <1>1, <1>2, MovesKeepIncome DEF Turns

LEMMA RecordsMove ==
    ASSUME IncomeInvariant, NEW e \in Earnings, RecordEarning(e)
    PROVE  IncomeInvariant'
<1>1. earning' \in [Earnings -> [stage : EarningStages, day : Calendar]]
  BY DEF IncomeInvariant, IncomeTypes, RecordEarning, EarningStages
<1>2. EarningsMove
  BY DEF IncomeInvariant, IncomeTypes, RecordEarning, EarningsMove, EarningStages
<1> QED BY <1>1, <1>2, MovesKeepIncome DEF RecordEarning

LEMMA DaysKeepIncome ==
    ASSUME IncomeInvariant, DayPasses
    PROVE  IncomeInvariant'
<1>1. IncomeTypes'
  BY DEF IncomeInvariant, IncomeTypes, DayPasses
<1>2. ReadsAgree'
  BY DEF IncomeInvariant, ReadsAgree, DayPasses, Kept, Earned, PaidBy, OfPeriod
<1> QED BY <1>1, <1>2 DEF IncomeInvariant

LEMMA AskKeepsIncome ==
    ASSUME IncomeInvariant, NEW period \in {"week", "month"}, AskSummary(period)
    PROVE  IncomeInvariant'
<1>1. IncomeTypes'
  BY DEF IncomeInvariant, IncomeTypes, AskSummary, NotAsked, SummarySteps, Earned
<1>2. screen'.step = "earned" /\ screen'.before = Earned({"open", "settled"}) /\ earning' = earning
  BY DEF AskSummary, NotAsked
<1>3. ReadsAgree'
  BY <1>2 DEF ReadsAgree, Earned
<1> QED BY <1>1, <1>3 DEF IncomeInvariant

LEMMA CloseKeepsIncome ==
    ASSUME IncomeInvariant, CloseSummary
    PROVE  IncomeInvariant'
<1>1. IncomeTypes'
  BY CalendarIs DEF IncomeInvariant, IncomeTypes, CloseSummary, NotAsked, SummarySteps
<1>2. screen'.step = "none"
  BY DEF CloseSummary, NotAsked
<1>3. ReadsAgree'
  BY <1>2 DEF ReadsAgree
<1> QED BY <1>1, <1>3 DEF IncomeInvariant

LEMMA InPeriodIsOfPeriod ==
    ASSUME IncomeInvariant
    PROVE  /\ InPeriod(screen.period, screen.today) \subseteq OfPeriod
           /\ OfPeriod \ Earned({"voided"}) \subseteq InPeriod(screen.period, screen.today)
           /\ InPeriod(screen.period, screen.today) \subseteq Earnings
BY DEF InPeriod, OfPeriod, Earned

LEMMA ReadsKeepIncome ==
    ASSUME IncomeInvariant, ReadNext
    PROVE  IncomeInvariant'
<1>1. UNCHANGED <<clock, earning>>
  BY DEF ReadNext, Read
<1>2. PICK s : s = screen
  OBVIOUS
<1>3. /\ s \in [step : SummarySteps, period : {"", "week", "month"}, today : Calendar,
                earned : SUBSET Earnings, owed : SUBSET Earnings, pending : SUBSET Earnings,
                balance : SUBSET Earnings, series : SUBSET Earnings, before : SUBSET Earnings]
      /\ s.step # "none" => s.period \in {"week", "month"}
  BY <1>2 DEF IncomeInvariant, IncomeTypes
<1>4. screen'.period = s.period /\ screen'.today = s.today => OfPeriod' = OfPeriod
  BY <1>1, <1>2 DEF OfPeriod, Earned
<1>5. \A stages : Earned(stages)' = Earned(stages)
  BY <1>1 DEF Earned
<1>6. /\ s.step # "none" => s.before \subseteq Earned({"open", "settled", "voided"})
      /\ Earned({"open"}) \subseteq Earnings /\ Earned({"settled"}) \subseteq Earnings
      /\ InPeriod(s.period, s.today) \subseteq Earnings
  BY <1>2 DEF IncomeInvariant, ReadsAgree, InPeriod, Earned
<1>7. CASE Read("earned", InPeriod(screen.period, screen.today))
  <2>1. s.step = "earned" /\ screen' = [s EXCEPT !.earned = InPeriod(s.period, s.today), !.step = "owed"]
    BY <1>2, <1>7 DEF Read, NextQuery
  <2>2. IncomeTypes'
    BY <1>1, <1>3, <1>6, <2>1 DEF IncomeInvariant, IncomeTypes, SummarySteps
  <2>3. screen'.step = "owed" /\ screen'.earned = InPeriod(s.period, s.today) /\ screen'.before = s.before
        /\ screen'.period = s.period /\ screen'.today = s.today
    BY <1>3, <2>1
  <2>4. screen'.earned \subseteq OfPeriod'
    BY <1>2, <1>4, <2>3, InPeriodIsOfPeriod
  <2>5. screen'.before \subseteq Earned({"open", "settled", "voided"})'
    BY <1>5, <1>6, <2>1, <2>3
  <2> QED BY <2>2, <2>3, <2>4, <2>5 DEF IncomeInvariant, ReadsAgree
<1>8. CASE Read("owed", CommissionOwed)
  <2>1. s.step = "owed" /\ screen' = [s EXCEPT !.owed = CommissionOwed, !.step = "pending"]
    BY <1>2, <1>8 DEF Read, NextQuery
  <2>2. IncomeTypes'
    BY <1>1, <1>3, <1>6, <2>1 DEF IncomeInvariant, IncomeTypes, SummarySteps, CommissionOwed, PaidBy
  <2>3. screen'.step = "pending" /\ screen'.owed = CommissionOwed /\ screen'.before = s.before
        /\ screen'.earned = s.earned /\ screen'.period = s.period /\ screen'.today = s.today
    BY <1>3, <2>1
  <2>4. screen'.earned \subseteq OfPeriod'
    BY <1>2, <1>4, <2>1, <2>3 DEF IncomeInvariant, ReadsAgree
  <2>5. screen'.before \subseteq Earned({"open", "settled", "voided"})'
    BY <1>5, <1>6, <2>1, <2>3
  <2>6. PaidBy("CASH", Kept(s.before)) \subseteq CommissionOwed \cup Earned({"settled"})
    BY <1>6, <2>1 DEF PaidBy, Kept, Earned, CommissionOwed
  <2>7. (PaidBy("CASH", Kept(screen.before)) \subseteq screen.owed \cup Earned({"settled"}))'
    BY <1>5, <2>3, <2>6 DEF Kept, PaidBy
  <2> QED BY <2>2, <2>3, <2>4, <2>5, <2>7 DEF IncomeInvariant, ReadsAgree
<1>9. CASE Read("pending", PendingRelease)
  <2>1. s.step = "pending" /\ screen' = [s EXCEPT !.pending = PendingRelease, !.step = "balance"]
    BY <1>2, <1>9 DEF Read, NextQuery
  <2>2. IncomeTypes'
    BY <1>1, <1>3, <1>6, <2>1 DEF IncomeInvariant, IncomeTypes, SummarySteps, PendingRelease, PaidBy
  <2>3. screen'.step = "balance" /\ screen'.pending = PendingRelease /\ screen'.before = s.before
        /\ screen'.earned = s.earned /\ screen'.owed = s.owed
        /\ screen'.period = s.period /\ screen'.today = s.today
    BY <1>3, <2>1
  <2>4. screen'.earned \subseteq OfPeriod'
    BY <1>2, <1>4, <2>1, <2>3 DEF IncomeInvariant, ReadsAgree
  <2>5. screen'.before \subseteq Earned({"open", "settled", "voided"})'
    BY <1>5, <1>6, <2>1, <2>3
  <2>6. PaidBy("ONLINE", Kept(s.before)) \subseteq PendingRelease \cup Earned({"settled"})
    BY <1>6, <2>1 DEF PaidBy, Kept, Earned, PendingRelease
  <2>7. (PaidBy("ONLINE", Kept(screen.before)) \subseteq screen.pending \cup Earned({"settled"}))'
    BY <1>5, <2>3, <2>6 DEF Kept, PaidBy
  <2>8. PaidBy("CASH", Kept(s.before)) \subseteq s.owed \cup Earned({"settled"})
    BY <1>2, <2>1 DEF IncomeInvariant, ReadsAgree
  <2>9. (PaidBy("CASH", Kept(screen.before)) \subseteq screen.owed \cup Earned({"settled"}))'
    BY <1>5, <2>3, <2>8 DEF Kept, PaidBy
  <2> QED BY <2>2, <2>3, <2>4, <2>5, <2>7, <2>9 DEF IncomeInvariant, ReadsAgree
<1>10. CASE Read("balance", Earned({"settled"}))
  <2>1. s.step = "balance" /\ screen' = [s EXCEPT !.balance = Earned({"settled"}), !.step = "series"]
    BY <1>2, <1>10 DEF Read, NextQuery
  <2>2. IncomeTypes'
    BY <1>1, <1>3, <1>6, <2>1 DEF IncomeInvariant, IncomeTypes, SummarySteps
  <2>3. screen'.step = "series" /\ screen'.pending = s.pending /\ screen'.before = s.before
        /\ screen'.earned = s.earned /\ screen'.owed = s.owed /\ screen'.balance = Earned({"settled"})
        /\ screen'.period = s.period /\ screen'.today = s.today
    BY <1>3, <2>1
  <2>4. screen'.earned \subseteq OfPeriod'
    BY <1>2, <1>4, <2>1, <2>3 DEF IncomeInvariant, ReadsAgree
  <2>5. screen'.before \subseteq Earned({"open", "settled", "voided"})'
    BY <1>5, <1>6, <2>1, <2>3
  <2>6. /\ PaidBy("CASH", Kept(s.before)) \subseteq s.owed \cup Earned({"settled"})
        /\ PaidBy("ONLINE", Kept(s.before)) \subseteq s.pending \cup Earned({"settled"})
    BY <1>2, <2>1 DEF IncomeInvariant, ReadsAgree
  <2>7. Kept(s.before) = PaidBy("CASH", Kept(s.before)) \cup PaidBy("ONLINE", Kept(s.before))
    BY <1>3, IncomeAssumption DEF Kept, PaidBy
  <2>8. Kept(s.before) \subseteq s.owed \cup s.pending \cup Earned({"settled"})
    BY <2>6, <2>7
  <2>9. (Kept(screen.before) \subseteq screen.owed \cup screen.pending \cup screen.balance)'
    BY <1>5, <2>3, <2>8 DEF Kept
  <2> QED BY <2>2, <2>3, <2>4, <2>5, <2>9 DEF IncomeInvariant, ReadsAgree
<1>11. CASE Read("series", InPeriod(screen.period, screen.today))
  <2>1. s.step = "series" /\ screen' = [s EXCEPT !.series = InPeriod(s.period, s.today), !.step = "shown"]
    BY <1>2, <1>11 DEF Read, NextQuery
  <2>2. IncomeTypes'
    BY <1>1, <1>3, <1>6, <2>1 DEF IncomeInvariant, IncomeTypes, SummarySteps
  <2>3. screen'.step = "shown" /\ screen'.pending = s.pending /\ screen'.before = s.before
        /\ screen'.earned = s.earned /\ screen'.owed = s.owed /\ screen'.balance = s.balance
        /\ screen'.series = InPeriod(s.period, s.today)
        /\ screen'.period = s.period /\ screen'.today = s.today
    BY <1>3, <2>1
  <2>4. s.earned \subseteq OfPeriod
    BY <1>2, <2>1 DEF IncomeInvariant, ReadsAgree
  <2>5. screen'.before \subseteq Earned({"open", "settled", "voided"})'
    BY <1>5, <1>6, <2>1, <2>3
  <2>6. Kept(s.before) \subseteq s.owed \cup s.pending \cup s.balance
    BY <1>2, <2>1 DEF IncomeInvariant, ReadsAgree
  <2>7. (Kept(screen.before) \subseteq screen.owed \cup screen.pending \cup screen.balance)'
    BY <1>5, <2>3, <2>6 DEF Kept
  <2>8. Kept(s.earned) \subseteq InPeriod(s.period, s.today)
    BY <1>2, <2>4, InPeriodIsOfPeriod DEF Kept
  <2>9. (Kept(screen.earned) \subseteq screen.series)'
    BY <1>5, <2>3, <2>8 DEF Kept
  <2>10. screen'.series \subseteq OfPeriod' /\ screen'.earned \subseteq OfPeriod'
    BY <1>2, <1>4, <2>3, <2>4, InPeriodIsOfPeriod
  <2> QED BY <2>2, <2>3, <2>5, <2>7, <2>9, <2>10 DEF IncomeInvariant, ReadsAgree
<1> QED BY <1>7, <1>8, <1>9, <1>10, <1>11 DEF ReadNext

LEMMA StepKeepsIncome ==
    ASSUME IncomeInvariant, [IncomeNext]_incomeVars
    PROVE  IncomeInvariant'
<1>1. ASSUME NEW e \in Earnings, RecordEarning(e) \/ SettleEarning(e) \/ VoidEarning(e) PROVE IncomeInvariant'
  <2>1. CASE RecordEarning(e)
    BY <2>1, RecordsMove
  <2>2. CASE SettleEarning(e)
    BY <2>2, TurnsMove DEF SettleEarning, EarningStages
  <2>3. CASE VoidEarning(e)
    BY <2>3, TurnsMove DEF VoidEarning, EarningStages
  <2> QED BY <1>1, <2>1, <2>2, <2>3
<1>2. CASE UNCHANGED incomeVars
  BY <1>2 DEF incomeVars, IncomeInvariant, IncomeTypes, ReadsAgree, Kept, Earned, PaidBy, OfPeriod
<1> QED BY <1>1, <1>2, DaysKeepIncome, AskKeepsIncome, CloseKeepsIncome, ReadsKeepIncome DEF IncomeNext

-----------------------------------------------------------------------------
(* What the invariant says of the summary.                                 *)

LEMMA PeriodsAre ==
    ASSUME NEW t \in Calendar
    PROVE  /\ PeriodStart("today", t) = t /\ PeriodEnd("today", t) = t
           /\ PeriodStart("week", t) = t - Weekday(t) /\ PeriodEnd("week", t) = t - Weekday(t) + 6
           /\ PeriodStart("month", t) = MonthStart(MonthAt(t)) /\ PeriodEnd("month", t) = MonthEnd(MonthAt(t))
BY DEF PeriodStart, PeriodEnd

LEMMA DivisionGrows ==
    ASSUME NEW a \in Nat, NEW b \in Nat, a <= b
    PROVE  a \div 7 \in Nat /\ a \div 7 <= b \div 7
BY Z3

\* There is a bar for each day of the period.
LEMMA BarIsThere ==
    ASSUME NEW period \in {"week", "month"}, NEW t \in Calendar, NEW d \in Calendar,
           d \in PeriodStart(period, t)..PeriodEnd(period, t)
    PROVE  BarOf(period, d) \in Bars(period, t) /\ IsFiniteSet(Bars(period, t))
<1>1. CASE period = "week"
  <2>1. Bars(period, t) = 1..7
    BY <1>1 DEF Bars
  <2>2. PICK w \in 0..6 : w = Weekday(d)
    BY WeekdayIs, CalendarIs
  <2>3. BarOf(period, d) = w + 1
    BY <1>1, <2>2 DEF BarOf
  <2>4. PICK first, last \in Int : first = 1 /\ last = 7
    OBVIOUS
  <2>5. IsFiniteSet(first..last)
    BY FS_Interval
  <2>6. Bars(period, t) = first..last /\ w + 1 \in first..last
    BY <2>1, <2>4
  <2> QED BY <2>3, <2>5, <2>6
<1>2. CASE period = "month"
  <2>1. PICK m \in KnownMonths : m = MonthAt(t)
    BY MonthAtIs
  <2>2. PICK a, z \in Nat : a = MonthStart(m) /\ z = MonthEnd(m) /\ a <= z
    BY MonthStarts
  <2>3. d \in a..z /\ d \in Nat
    BY <1>2, <2>1, <2>2, PeriodsAre
  <2>4. MonthAt(d) = m
    BY <2>2, <2>3, MonthAtIs
  <2>5. z \in Calendar /\ z \in a..z
    BY <2>2, CalendarIs
  <2>6. MonthAt(z) = m
    BY <2>2, <2>5, MonthAtIs
  <2>7. PICK p, q \in Nat : p = d - a /\ q = z - a /\ p <= q
    BY <2>2, <2>3
  <2>8. DayOfMonth(d) - 1 = p /\ DayOfMonth(z) - 1 = q
    BY <2>2, <2>3, <2>4, <2>6, <2>7 DEF DayOfMonth
  <2>9. PeriodEnd(period, t) = z
    BY <1>2, <2>1, <2>2, PeriodsAre
  <2>10. BarOf(period, d) = p \div 7 + 1 /\ Bars(period, t) = 1..(q \div 7 + 1)
    BY <1>2, <2>8, <2>9 DEF BarOf, Bars
  <2>11. p \div 7 \in Nat /\ q \div 7 \in Nat /\ p \div 7 <= q \div 7
    BY <2>7, DivisionGrows
  <2> QED BY <2>10, <2>11, FS_Interval
<1> QED BY <1>1, <1>2

LEMMA SummaryHidesNothing == IncomeInvariant => NothingIsHidden
BY DEF IncomeInvariant, ReadsAgree, NothingIsHidden

LEMMA SummaryAddsUp == IncomeInvariant => ChartAddsUp
<1> SUFFICES ASSUME IncomeInvariant, screen.step = "shown" PROVE ChartAddsUp
  BY DEF ChartAddsUp
<1>1. PICK period \in {"week", "month"}, t \in Calendar, es \in SUBSET Earnings :
          period = screen.period /\ t = screen.today /\ es = screen.series
  BY DEF IncomeInvariant, IncomeTypes
<1>2. ASSUME NEW e \in es
      PROVE  BarOf(period, earning[e].day) \in Bars(period, t) /\ IsFiniteSet(Bars(period, t))
  <2>1. e \in OfPeriod
    BY <1>1 DEF IncomeInvariant, ReadsAgree
  <2>2. PICK d \in Calendar : d = earning[e].day
    BY DEF IncomeInvariant, IncomeTypes
  <2>3. d \in PeriodStart(period, t)..PeriodEnd(period, t)
    BY <1>1, <2>1, <2>2 DEF OfPeriod
  <2> QED BY <2>2, <2>3, BarIsThere
<1>3. IsFiniteSet(Bars(period, t))
  <2>1. PeriodStart(period, t) \in Int /\ t \in PeriodStart(period, t)..PeriodEnd(period, t)
    <3>1. t \in Nat /\ Weekday(t) \in 0..6
      BY CalendarIs, WeekdayIs
    <3>2. MonthStart(MonthAt(t)) \in Nat /\ t \in MonthStart(MonthAt(t))..MonthEnd(MonthAt(t))
      BY MonthAtIs, MonthStarts
    <3> QED BY <3>1, <3>2, PeriodsAre
  <2> QED BY <2>1, BarIsThere
<1>4. PICK B : B = Bars(period, t)
  OBVIOUS
<1>5. PICK bar \in [es -> B] : bar = [e \in es |-> BarOf(period, earning[e].day)]
  BY <1>2, <1>4
<1>6. PICK chart : chart = Chart(period, t, es)
  OBVIOUS
<1>7. ASSUME NEW b \in B
      PROVE  \E mine \in SUBSET es : (\A e \in es : e \in mine <=> bar[e] = b) /\ chart[b] = Total(PayOf, mine)
  <2>1. PICK mine \in SUBSET es : mine = {e \in es : BarOf(period, earning[e].day) = b}
    OBVIOUS
  <2>2. \A e \in es : e \in mine <=> bar[e] = b
    BY <1>5, <2>1
  <2>3. chart[b] = PayFor(mine)
    BY <1>4, <1>6, <2>1 DEF Chart
  <2>4. PayFor(mine) = Total(PayOf, mine)
    BY TotalIs DEF PayFor
  <2> QED BY <2>2, <2>3, <2>4
<1>8. Total(chart, B) = Total(PayOf, es)
  <2>1. IsFiniteSet(es) /\ \A e \in es : PayOf[e] \in Int
    BY IncomeAssumption, FS_Subset
  <2> QED BY <1>3, <1>4, <1>7, <2>1, BarsAddUp
<1>9. SumOver(Chart(period, t, es), Bars(period, t)) = PayFor(es)
  <2>1. SumOver(chart, B) = Total(chart, B) /\ PayFor(es) = Total(PayOf, es)
    BY TotalIs DEF PayFor
  <2> QED BY <1>4, <1>6, <1>8, <2>1
<1>10. Kept(screen.earned) \subseteq screen.series
  BY DEF IncomeInvariant, ReadsAgree
<1> QED BY <1>1, <1>2, <1>9, <1>10 DEF ChartAddsUp

LEMMA CalendarAgrees == IncomeInvariant => PeriodsAgree
<1> SUFFICES ASSUME IncomeInvariant PROVE PeriodsAgree
  OBVIOUS
<1>1. PICK t \in Calendar : t = clock
  BY DEF IncomeInvariant, IncomeTypes
<1>2. t \in Nat /\ t + 1 \in Nat /\ Weekday(t) \in 0..6 /\ (Weekday(t) = 6 => Weekday(t + 1) = 0)
  BY CalendarIs, WeekdayIs
<1>3. PICK m \in KnownMonths : m = MonthAt(t) /\ t \in MonthStart(m)..MonthEnd(m)
  BY MonthAtIs
<1>4. PICK a, z \in Nat : a = MonthStart(m) /\ z = MonthEnd(m)
  BY MonthStarts
<1>5. ASSUME NEW period \in {"week", "month"}
      PROVE  t \in PeriodStart(period, t)..PeriodEnd(period, t)
  <2>1. CASE period = "week"
    BY <1>2, <2>1, PeriodsAre
  <2>2. CASE period = "month"
    BY <1>3, <2>2, PeriodsAre
  <2> QED BY <2>1, <2>2
<1>6. ASSUME NEW period \in {"week", "month"}
      PROVE  InPeriod("today", t) \subseteq InPeriod(period, t)
  <2>1. ASSUME NEW e \in InPeriod("today", t) PROVE e \in InPeriod(period, t)
    <3>1. earning[e].day \in t..t
      BY <2>1, PeriodsAre DEF InPeriod
    <3>2. earning[e].day = t
      BY <1>2, <3>1
    <3> QED BY <1>5, <2>1, <3>2 DEF InPeriod
  <2> QED BY <2>1
<1>7. ASSUME t + 1 \in Calendar, NEW period \in {"week", "month"},
             t + 1 \notin PeriodStart(period, t)..PeriodEnd(period, t)
      PROVE  PeriodStart(period, t + 1) = t + 1
  <2>1. CASE period = "week"
    <3>1. t + 1 \notin (t - Weekday(t))..(t - Weekday(t) + 6)
      BY <1>7, <2>1, PeriodsAre
    <3>2. PICK w \in 0..6 : w = Weekday(t)
      BY <1>2
    <3>3. w = 6
      BY <1>2, <3>1, <3>2
    <3>4. PeriodStart("week", t + 1) = (t + 1) - Weekday(t + 1) /\ Weekday(t + 1) = 0
      BY <1>2, <1>7, <3>2, <3>3, PeriodsAre
    <3> QED BY <1>2, <2>1, <3>4
  <2>2. CASE period = "month"
    <3>1. t + 1 \notin a..z /\ t \in a..z
      BY <1>3, <1>4, <1>7, <2>2, PeriodsAre
    <3>2. t = z
      BY <1>2, <1>4, <3>1
    <3>3. PICK n \in KnownMonths : n = MonthAt(t + 1) /\ t + 1 \in MonthStart(n)..MonthEnd(n)
      BY <1>7, MonthAtIs
    <3>4. PICK b, y \in Nat : b = MonthStart(n) /\ y = MonthEnd(n)
      BY MonthStarts
    <3>5. b <= t + 1 /\ t + 1 <= y
      BY <1>2, <3>3, <3>4
    <3>6. m \in Nat /\ n \in Nat /\ n # m /\ ~(n < m)
      <4>1. m \in Nat /\ n \in Nat
        BY DEF KnownMonths
      <4>2. n # m
        BY <1>4, <3>2, <3>4, <3>5
      <4>3. ASSUME n < m PROVE FALSE
        <5>1. y < a
          BY <1>4, <3>4, <4>3, MonthsInOrder
        <5> QED BY <1>2, <1>4, <3>1, <3>4, <3>5, <5>1
      <4> QED BY <4>1, <4>2, <4>3
    <3>7. m < n
      BY <3>6
    <3>8. z < b
      BY <1>4, <3>4, <3>7, MonthsInOrder
    <3>9. b = t + 1
      BY <1>2, <1>4, <3>2, <3>4, <3>5, <3>8
    <3> QED BY <1>7, <2>2, <3>3, <3>4, <3>9, PeriodsAre
  <2> QED BY <2>1, <2>2
<1>8. \A e \in Earned({"open", "settled"}) :
          WalletStatus(e) = "not settled" <=> e \in PendingRelease \cup CommissionOwed
  <2>1. ASSUME NEW e \in Earned({"open", "settled"})
        PROVE  WalletStatus(e) = "not settled" <=> e \in PendingRelease \cup CommissionOwed
    <3>1. e \in Earnings /\ MethodOf[e] \in {"ONLINE", "CASH"} /\ earning[e].stage \in {"open", "settled"}
      BY IncomeAssumption DEF Earned
    <3>2. CASE earning[e].stage = "open"
      BY <3>1, <3>2 DEF WalletStatus, PendingRelease, CommissionOwed, PaidBy, Earned
    <3>3. CASE earning[e].stage = "settled"
      BY <3>1, <3>3 DEF WalletStatus, PendingRelease, CommissionOwed, PaidBy, Earned
    <3> QED BY <3>1, <3>2, <3>3
  <2> QED BY <2>1
<1> QED BY <1>1, <1>5, <1>6, <1>7, <1>8 DEF PeriodsAgree

\* A worker is told of all his income, in the period it belongs to: whatever is released,
\* settled or voided while the summary is put together, nothing he keeps is missing, and the
\* bars of the chart add up to its jobs, in every calendar.
THEOREM IncomeStaysSafe == IncomeInit /\ [][IncomeNext]_incomeVars => []IncomeSafe
<1>1. IncomeInvariant => IncomeSafe
  BY SummaryHidesNothing, SummaryAddsUp, CalendarAgrees DEF IncomeSafe
<1>2. IncomeInvariant /\ [IncomeNext]_incomeVars => IncomeInvariant'
  BY StepKeepsIncome
<1> QED BY <1>1, <1>2, IncomeStarts, PTL

-----------------------------------------------------------------------------
(* The screen of payments and refunds. *)

BillStatuses == {"NONE", "PENDING", "SUCCESS", "CANCELLED", "REFUNDED"}
BillMethods == {"none", "CASH", "BANK_TRANSFER", "WALLET"}
BillRecords == [method : BillMethods, status : BillStatuses, paid : BOOLEAN,
                received : Nat, refunded : Nat, clawed : Nat]
LedgerRecords == [kind : {"PAYMENT", "REFUND"}, bill : Bills, amount : Nat]
ScreenRows == [kind : {"PAYMENT", "REFUND"}, bill : Bills, key : Nat, amount : Nat, status : BillStatuses]

\* The shape of the tables and of the screen.
HistoryTypes ==
    /\ bills \in Seq(Bills)
    /\ bill \in [Bills -> BillRecords]
    /\ ledger \in Seq(LedgerRecords)
    /\ statement \in [step : {"none", "payments", "shown"}, source : {"all", "wallet", "online"},
                      payments : SUBSET ScreenRows, rows : SUBSET ScreenRows, calm : BOOLEAN]

\* What the status of a payment says of its money.
BillFits(b) ==
    /\ bill[b].status = "NONE" => bill[b] = Unbilled
    /\ bill[b].status # "NONE" => bill[b].method # "none" /\ \E i \in DOMAIN bills : bills[i] = b
    /\ bill[b].status \in {"NONE", "PENDING", "CANCELLED"} =>
           /\ ~bill[b].paid /\ bill[b].method # "WALLET"
           /\ bill[b].received = 0 /\ bill[b].refunded = 0 /\ bill[b].clawed = 0
    /\ bill[b].status \in {"SUCCESS", "REFUNDED"} => bill[b].received > 0
    /\ bill[b].refunded <= bill[b].received

\* What the ledger has of a payment: one payment from the wallet, and each refund.
EntriesOf(b) == {WalletRow(i) : i \in {n \in DOMAIN ledger : ledger[n].kind = "REFUND" /\ ledger[n].bill = b}}
LedgerFits ==
    /\ \A i \in DOMAIN ledger : ledger[i].kind = "PAYMENT" =>
           /\ bill[ledger[i].bill].method = "WALLET" /\ ledger[i].amount = Cost
           /\ \A j \in DOMAIN ledger :
                  ledger[j].kind = "PAYMENT" /\ ledger[j].bill = ledger[i].bill => j = i
    /\ \A i \in DOMAIN bills : bill[bills[i]].status # "NONE"
    /\ \A b \in Bills : RowTotal(EntriesOf(b)) = bill[b].refunded + bill[b].clawed

\* What the two queries find.
Listed == {PaymentRow(bills[i]) :
              i \in Newest({n \in DOMAIN bills : FromSource(statement.source, bill[bills[n]].method)})}
Told == {WalletRow(i) : i \in {n \in Newest(DOMAIN ledger) :
            ~(ledger[n].kind = "PAYMENT" /\ ledger[n].bill \in DroppedAs(statement.payments))}}

\* What a screen shows was so when it was read, and still is if nothing moved.
ScreenFits ==
    /\ statement.step = "none" => statement = NoHistory
    /\ \A p \in statement.payments :
           /\ p.kind = "PAYMENT" /\ p.amount = Cost /\ p.status # "NONE"
           /\ bill[p.bill].status # "NONE" /\ FromSource(statement.source, bill[p.bill].method)
           /\ bill[p.bill].method = "WALLET" => IsPaid(p.status)
           /\ \A q \in statement.payments : p.bill = q.bill => p = q
    /\ statement.calm /\ statement.step # "none" => statement.payments = Listed
    /\ statement.step = "shown" /\ statement.source # "online" => statement.rows = Told
    /\ statement.step = "payments" => statement.source # "online"
    /\ statement.step = "payments" \/ statement.source = "online" => statement.rows = {}

\* The inductive invariant of the screen.
HistoryInvariant ==
    /\ HistoryTypes
    /\ \A b \in Bills : BillFits(b)
    /\ LedgerFits
    /\ ScreenFits

-----------------------------------------------------------------------------
\* The refunds of a payment among some transactions.
RefundsIn(entries, b) ==
    {[kind |-> entries[i].kind, bill |-> entries[i].bill, key |-> i, amount |-> entries[i].amount,
      status |-> "SUCCESS"] : i \in {n \in DOMAIN entries : entries[n].kind = "REFUND" /\ entries[n].bill = b}}

LEMMA RefundsInLedger == \A b : EntriesOf(b) = RefundsIn(ledger, b)
BY DEF EntriesOf, WalletRow, RefundsIn

LEMMA RefundsAreRows ==
    ASSUME NEW entries \in Seq(LedgerRecords), NEW b \in Bills
    PROVE  RefundsIn(entries, b) \subseteq ScreenRows /\ IsFiniteSet(RefundsIn(entries, b))
<1>1. Len(entries) \in Nat /\ DOMAIN entries = 1..Len(entries) /\ \A i \in DOMAIN entries : entries[i] \in LedgerRecords
  BY LenProperties, ElementOfSeq
<1>2. IsFiniteSet(DOMAIN entries)
  BY <1>1, FS_Interval
<1> DEFINE kept == {n \in DOMAIN entries : entries[n].kind = "REFUND" /\ entries[n].bill = b}
           Row(i) == [kind |-> entries[i].kind, bill |-> entries[i].bill, key |-> i, amount |-> entries[i].amount,
                      status |-> "SUCCESS"]
           rows == {Row(i) : i \in kept}
<1>3. IsFiniteSet(kept)
  BY <1>2, FS_Subset
<1>4. PICK f : f = [i \in kept |-> Row(i)]
  OBVIOUS
<1>5. f \in Surjection(kept, rows)
  BY <1>4 DEF Surjection
<1>6. IsFiniteSet(rows)
  <2> HIDE DEF kept, rows
  <2> QED BY <1>3, <1>5, FS_Surjection
<1>7. rows \subseteq ScreenRows
  BY <1>1 DEF ScreenRows, LedgerRecords, BillStatuses
<1> QED BY <1>6, <1>7 DEF RefundsIn

LEMMA RowTotalIs ==
    ASSUME NEW rows \in SUBSET ScreenRows, IsFiniteSet(rows), NEW amounts, amounts = [r \in ScreenRows |-> r.amount]
    PROVE  RowTotal(rows) = Total(amounts, rows) /\ \A r \in ScreenRows : amounts[r] = r.amount /\ amounts[r] \in Nat
<1>1. \A r \in ScreenRows : amounts[r] = r.amount /\ r.amount \in Nat
  BY DEF ScreenRows
<1>2. PICK same : same = [r \in rows |-> r.amount]
  OBVIOUS
<1>3. \A r \in rows : amounts[r] \in Int /\ same[r] = amounts[r]
  BY <1>1, <1>2
<1>4. Total(same, rows) = Total(amounts, rows)
  BY <1>3, TotalSame
<1>5. RowTotal(rows) = Total(same, rows)
  BY <1>2, TotalIs DEF RowTotal
<1> QED BY <1>1, <1>4, <1>5

LEMMA RowTotalAdds ==
    ASSUME NEW rows \in SUBSET ScreenRows, IsFiniteSet(rows), NEW x \in ScreenRows, x \notin rows
    PROVE  RowTotal(rows \cup {x}) = RowTotal(rows) + x.amount /\ RowTotal(rows) \in Nat
<1>1. PICK amounts : amounts = [r \in ScreenRows |-> r.amount]
  OBVIOUS
<1>2. PICK more \in SUBSET ScreenRows : more = rows \cup {x}
  OBVIOUS
<1>3. IsFiniteSet(more) /\ x \in more /\ more \ {x} = rows
  <2>1. IsFiniteSet(rows \cup {x})
    BY FS_AddElement
  <2> QED BY <1>2, <2>1
<1>4. RowTotal(more) = Total(amounts, more) /\ \A r \in ScreenRows : amounts[r] = r.amount /\ amounts[r] \in Nat
  BY <1>1, <1>3, RowTotalIs
<1>5. RowTotal(rows) = Total(amounts, rows)
  BY <1>1, RowTotalIs
<1>6. Total(amounts, more) = amounts[x] + Total(amounts, more \ {x})
  <2>1. \A r \in more : amounts[r] \in Int
    BY <1>4
  <2> QED BY <1>3, <2>1, TotalWithout
<1>7. Total(amounts, rows) \in Nat
  <2>1. \A r \in rows : amounts[r] \in Nat
    BY <1>4
  <2> QED BY <2>1, TotalIsNat
<1>8. PICK n \in Nat : n = Total(amounts, rows)
  BY <1>7
<1>9. Total(amounts, more) = amounts[x] + n
  BY <1>3, <1>6, <1>8, Zenon
<1> QED BY <1>2, <1>4, <1>5, <1>8, <1>9

\* One transaction more.
LEMMA RefundsWithOne ==
    ASSUME NEW entries \in Seq(LedgerRecords), NEW e \in LedgerRecords, NEW b \in Bills
    PROVE  RowTotal(RefundsIn(entries \o <<e>>, b))
           = RowTotal(RefundsIn(entries, b)) + (IF e.kind = "REFUND" /\ e.bill = b THEN e.amount ELSE 0)
<1>1. PICK more \in Seq(LedgerRecords) : more = entries \o <<e>>
  <2>1. <<e>> \in Seq(LedgerRecords)
    OBVIOUS
  <2> QED BY <2>1, ConcatProperties
<1>2. /\ Len(more) = Len(entries) + 1 /\ Len(entries) \in Nat
      /\ DOMAIN more = DOMAIN entries \cup {Len(entries) + 1} /\ Len(entries) + 1 \notin DOMAIN entries
      /\ \A i \in DOMAIN entries : more[i] = entries[i]
      /\ more[Len(entries) + 1] = e
  <2>1. Len(more) = Len(entries) + 1 /\ Len(entries) \in Nat
        /\ \A i \in 1..Len(entries) + 1 : more[i] = IF i <= Len(entries) THEN entries[i] ELSE <<e>>[i - Len(entries)]
    BY <1>1, ConcatProperties, LenProperties
  <2>2. DOMAIN more = 1..Len(more) /\ DOMAIN entries = 1..Len(entries)
    BY LenProperties
  <2> QED BY <2>1, <2>2
<1> DEFINE row == [kind |-> e.kind, bill |-> e.bill, key |-> Len(entries) + 1, amount |-> e.amount, status |-> "SUCCESS"]
<1>3. row \in ScreenRows
  BY <1>2 DEF ScreenRows, LedgerRecords, BillStatuses
<1>4. row \notin RefundsIn(entries, b)
  BY <1>2 DEF RefundsIn
<1>5. RefundsIn(entries, b) \in SUBSET ScreenRows /\ IsFiniteSet(RefundsIn(entries, b))
  BY RefundsAreRows
<1>6. CASE e.kind = "REFUND" /\ e.bill = b
  <2>1. RefundsIn(more, b) = RefundsIn(entries, b) \cup {row}
    BY <1>2, <1>6 DEF RefundsIn
  <2>2. RowTotal(RefundsIn(more, b)) = RowTotal(RefundsIn(entries, b)) + row.amount
    <3> HIDE DEF row
    <3>1. RowTotal(RefundsIn(entries, b) \cup {row}) = RowTotal(RefundsIn(entries, b)) + row.amount
      BY <1>3, <1>4, <1>5, RowTotalAdds
    <3> QED BY <2>1, <3>1, Zenon
  <2> QED BY <1>1, <1>6, <2>2
<1>7. CASE ~(e.kind = "REFUND" /\ e.bill = b)
  <2>1. RefundsIn(more, b) = RefundsIn(entries, b)
    BY <1>2, <1>7 DEF RefundsIn
  <2>2. RowTotal(RefundsIn(entries, b)) \in Nat
    BY <1>3, <1>4, <1>5, RowTotalAdds
  <2> QED BY <1>1, <1>7, <2>1, <2>2
<1> QED BY <1>6, <1>7

-----------------------------------------------------------------------------
\* What a change of a payment adds to the ledger, and what the payment is afterwards.
GoodMove(b, new, entries) ==
    /\ new \in BillRecords /\ new.status # "NONE" /\ new.method # "none"
    /\ bill[b].status # "NONE" => new.method = bill[b].method
    /\ new.status \in {"PENDING", "CANCELLED"} =>
           ~new.paid /\ new.method # "WALLET" /\ new.received = 0 /\ new.refunded = 0 /\ new.clawed = 0
    /\ new.status \in {"SUCCESS", "REFUNDED"} => new.received > 0
    /\ new.refunded <= new.received
    /\ \/ /\ entries = <<>>
          /\ new.refunded + new.clawed = bill[b].refunded + bill[b].clawed
       \/ \E amount \in Nat :
              /\ entries = <<LedgerRow("REFUND", b, amount)>>
              /\ new.refunded + new.clawed = bill[b].refunded + bill[b].clawed + amount
       \/ /\ entries = <<LedgerRow("PAYMENT", b, Cost)>> /\ bill[b].status = "NONE" /\ new.method = "WALLET"
          /\ new.refunded + new.clawed = 0

\* The payments of a booking are known, each once it was made.
GoodBills(b) ==
    /\ bills' \in Seq(Bills)
    /\ \A i \in DOMAIN bills : i \in DOMAIN bills' /\ bills'[i] = bills[i]
    /\ \A i \in DOMAIN bills' : bills'[i] = b \/ (i \in DOMAIN bills /\ bills'[i] = bills[i])
    /\ \E i \in DOMAIN bills' : bills'[i] = b

LEMMA BillsAppend ==
    ASSUME HistoryTypes, NEW b \in Bills, bills' = Append(bills, b) PROVE GoodBills(b)
<1>1. PICK more \in Seq(Bills) : /\ more = Append(bills, b)
          /\ Len(more) = Len(bills) + 1 /\ Len(bills) \in Nat
          /\ \A i \in 1..Len(bills) : more[i] = bills[i]
          /\ more[Len(bills) + 1] = b
  BY AppendProperties, LenProperties DEF HistoryTypes
<1>2. DOMAIN more = 1..Len(more) /\ DOMAIN bills = 1..Len(bills)
  BY LenProperties DEF HistoryTypes
<1> QED BY <1>1, <1>2 DEF GoodBills

LEMMA BillsSame ==
    ASSUME HistoryTypes, NEW b \in Bills, BillFits(b), bill[b].status # "NONE", UNCHANGED bills PROVE GoodBills(b)
BY DEF GoodBills, HistoryTypes, BillFits

LEMMA MoveBills ==
    ASSUME HistoryAssumption, HistoryInvariant, NEW b \in Bills, NEW new, NEW entries,
           GoodMove(b, new, entries), GoodBills(b), Move(b, new, entries)
    PROVE  /\ bill' = [bill EXCEPT ![b] = new] /\ bill' \in [Bills -> BillRecords]
           /\ \A c \in Bills : BillFits(c)'
           /\ \A i \in DOMAIN bills' : bill'[bills'[i]].status # "NONE"
<1>1. /\ bill' = [bill EXCEPT ![b] = new] /\ bill' \in [Bills -> BillRecords] /\ bill'[b] = new
      /\ \A c \in Bills \ {b} : bill'[c] = bill[c]
  BY DEF Move, GoodMove, HistoryInvariant, HistoryTypes
<1>2. ASSUME NEW c \in Bills \ {b} PROVE BillFits(c)'
  <2>1. BillFits(c)
    BY DEF HistoryInvariant
  <2> QED BY <1>1, <2>1 DEF BillFits, GoodBills
<1>3. BillFits(b)'
  BY <1>1 DEF BillFits, GoodBills, GoodMove
<1>4. \A i \in DOMAIN bills' : bill'[bills'[i]].status # "NONE"
  <2>1. \A i \in DOMAIN bills : bill[bills[i]].status # "NONE" /\ bills[i] \in Bills
    BY ElementOfSeq, LenProperties DEF HistoryInvariant, HistoryTypes, LedgerFits
  <2> QED BY <1>1, <2>1 DEF GoodBills, GoodMove
<1> QED BY <1>1, <1>2, <1>3, <1>4

LEMMA MoveLedger ==
    ASSUME HistoryAssumption, HistoryInvariant, NEW b \in Bills, NEW new, NEW entries,
           GoodMove(b, new, entries), GoodBills(b), Move(b, new, entries)
    PROVE  ledger' \in Seq(LedgerRecords) /\ LedgerFits'
<1>1. /\ bill'[b] = new /\ \A c \in Bills \ {b} : bill'[c] = bill[c]
      /\ bill \in [Bills -> BillRecords] /\ new \in BillRecords /\ ledger \in Seq(LedgerRecords)
  BY DEF Move, GoodMove, HistoryInvariant, HistoryTypes
<1>2. \A i \in DOMAIN bills' : bill'[bills'[i]].status # "NONE"
  BY MoveBills
<1>3. DOMAIN ledger = 1..Len(ledger) /\ Len(ledger) \in Nat /\ \A i \in DOMAIN ledger : ledger[i] \in LedgerRecords
  BY <1>1, LenProperties, ElementOfSeq
<1>4. \A i \in DOMAIN ledger : ledger[i].kind = "PAYMENT" =>
          /\ bill[ledger[i].bill].method = "WALLET" /\ bill[ledger[i].bill].status # "NONE"
          /\ bill'[ledger[i].bill].method = "WALLET" /\ ledger[i].amount = Cost
          /\ \A j \in DOMAIN ledger : ledger[j].kind = "PAYMENT" /\ ledger[j].bill = ledger[i].bill => j = i
  <2>1. ASSUME NEW i \in DOMAIN ledger, ledger[i].kind = "PAYMENT"
        PROVE  /\ bill[ledger[i].bill].method = "WALLET" /\ bill[ledger[i].bill].status # "NONE"
               /\ bill'[ledger[i].bill].method = "WALLET"
    <3>1. ledger[i].bill \in Bills
      BY <1>3 DEF LedgerRecords
    <3>2. bill[ledger[i].bill].method = "WALLET"
      BY <2>1 DEF HistoryInvariant, LedgerFits
    <3>3. bill[ledger[i].bill].status # "NONE"
      BY <3>1, <3>2 DEF HistoryInvariant, BillFits, Unbilled
    <3> QED BY <1>1, <3>1, <3>2, <3>3 DEF GoodMove
  <2> QED BY <2>1 DEF HistoryInvariant, LedgerFits
<1>5. \A c \in Bills : RowTotal(RefundsIn(ledger, c)) = bill[c].refunded + bill[c].clawed
  BY RefundsInLedger DEF HistoryInvariant, LedgerFits
<1>6. CASE entries = <<>>
  <2>1. ledger' = ledger
    BY <1>1, <1>6, ConcatEmptySeq DEF Move
  <2>2. new.refunded + new.clawed = bill[b].refunded + bill[b].clawed
    BY <1>6 DEF GoodMove
  <2>3. \A c \in Bills : RowTotal(RefundsIn(ledger, c)) = bill'[c].refunded + bill'[c].clawed
    BY <1>1, <1>5, <2>2
  <2>4. \A c \in Bills : RowTotal(EntriesOf(c)') = bill'[c].refunded + bill'[c].clawed
    BY <2>1, <2>3 DEF RefundsIn, EntriesOf, WalletRow
  <2>5. (\A c \in Bills : RowTotal(EntriesOf(c)) = bill[c].refunded + bill[c].clawed)'
    BY <2>4
  <2> QED BY <1>1, <1>2, <1>4, <2>1, <2>5 DEF LedgerFits
<1>7. CASE \E e \in LedgerRecords : entries = <<e>>
  <2>1. PICK e \in LedgerRecords : entries = <<e>>
    BY <1>7
  <2>2. PICK more \in Seq(LedgerRecords) : more = ledger \o <<e>>
    <3>1. <<e>> \in Seq(LedgerRecords)
      OBVIOUS
    <3> QED BY <1>1, <3>1, ConcatProperties
  <2>3. /\ DOMAIN more = DOMAIN ledger \cup {Len(ledger) + 1} /\ Len(ledger) + 1 \notin DOMAIN ledger
        /\ \A i \in DOMAIN ledger : more[i] = ledger[i]
        /\ more[Len(ledger) + 1] = e
    <3>1. Len(more) = Len(ledger) + 1 /\ Len(ledger) \in Nat
          /\ \A i \in 1..Len(ledger) + 1 : more[i] = IF i <= Len(ledger) THEN ledger[i] ELSE <<e>>[i - Len(ledger)]
      BY <1>1, <2>2, ConcatProperties, LenProperties
    <3>2. DOMAIN more = 1..Len(more) /\ DOMAIN ledger = 1..Len(ledger)
      BY <1>1, LenProperties
    <3> QED BY <3>1, <3>2
  <2>4. ledger' = more
    BY <2>1, <2>2 DEF Move
  <2>5. e.bill = b
    BY <2>1 DEF GoodMove, LedgerRow
  <2>6. new.refunded + new.clawed
        = bill[b].refunded + bill[b].clawed + (IF e.kind = "REFUND" THEN e.amount ELSE 0)
    <3>1. bill[b].status = "NONE" => bill[b].refunded + bill[b].clawed = 0
      BY DEF HistoryInvariant, BillFits, Unbilled
    <3>2. bill[b].refunded \in Nat /\ bill[b].clawed \in Nat
      BY <1>1 DEF BillRecords
    <3> QED BY <2>1, <3>1, <3>2 DEF GoodMove, LedgerRow
  <2>7. \A c \in Bills : RowTotal(RefundsIn(more, c)) = bill'[c].refunded + bill'[c].clawed
    <3>1. ASSUME NEW c \in Bills PROVE RowTotal(RefundsIn(more, c)) = bill'[c].refunded + bill'[c].clawed
      <4>1. RowTotal(RefundsIn(more, c))
            = RowTotal(RefundsIn(ledger, c)) + (IF e.kind = "REFUND" /\ e.bill = c THEN e.amount ELSE 0)
        BY <1>1, <2>2, RefundsWithOne
      <4>2. RowTotal(RefundsIn(ledger, c)) = bill[c].refunded + bill[c].clawed
        BY <1>5
      <4>3. bill[c].refunded \in Nat /\ bill[c].clawed \in Nat
        BY <1>1 DEF BillRecords
      <4> QED BY <1>1, <2>5, <2>6, <4>1, <4>2, <4>3
    <3> QED BY <3>1
  <2>8. \A c \in Bills : RowTotal(EntriesOf(c)') = bill'[c].refunded + bill'[c].clawed
    BY <2>4, <2>7 DEF RefundsIn, EntriesOf, WalletRow
  <2>9. (\A c \in Bills : RowTotal(EntriesOf(c)) = bill[c].refunded + bill[c].clawed)'
    BY <2>8
  <2>10. e.kind = "PAYMENT" => e.amount = Cost /\ new.method = "WALLET" /\ bill[b].status = "NONE"
    BY <2>1 DEF GoodMove, LedgerRow
  <2>11. \A i \in DOMAIN ledger : ledger[i].kind = "PAYMENT" /\ ledger[i].bill = b => bill[b].status # "NONE"
    BY <1>4
  <2>12. ASSUME NEW i \in DOMAIN more, more[i].kind = "PAYMENT"
         PROVE  /\ bill'[more[i].bill].method = "WALLET" /\ more[i].amount = Cost
                /\ \A j \in DOMAIN more : more[j].kind = "PAYMENT" /\ more[j].bill = more[i].bill => j = i
    <3>1. CASE i \in DOMAIN ledger
      BY <1>4, <2>3, <2>5, <2>10, <2>11, <2>12, <3>1
    <3>2. CASE i = Len(ledger) + 1
      BY <1>1, <2>3, <2>5, <2>10, <2>11, <2>12, <3>2
    <3> QED BY <2>3, <3>1, <3>2
  <2> QED BY <1>2, <2>4, <2>9, <2>12 DEF LedgerFits
<1>8. entries = <<>> \/ \E e \in LedgerRecords : entries = <<e>>
  BY DEF GoodMove, LedgerRow, LedgerRecords, HistoryAssumption
<1> QED BY <1>6, <1>7, <1>8

LEMMA MoveScreen ==
    ASSUME HistoryAssumption, HistoryInvariant, NEW b \in Bills, NEW new, NEW entries,
           GoodMove(b, new, entries), GoodBills(b), Move(b, new, entries)
    PROVE  /\ statement' \in [step : {"none", "payments", "shown"}, source : {"all", "wallet", "online"},
                              payments : SUBSET ScreenRows, rows : SUBSET ScreenRows, calm : BOOLEAN]
           /\ ScreenFits'
<1>1. /\ bill'[b] = new /\ \A c \in Bills \ {b} : bill'[c] = bill[c]
      /\ bill \in [Bills -> BillRecords] /\ new \in BillRecords
      /\ statement \in [step : {"none", "payments", "shown"}, source : {"all", "wallet", "online"},
                        payments : SUBSET ScreenRows, rows : SUBSET ScreenRows, calm : BOOLEAN]
  BY DEF Move, GoodMove, HistoryInvariant, HistoryTypes
<1>2. CASE statement.step = "payments"
  <2>1. statement' = [statement EXCEPT !.calm = FALSE]
    BY <1>2 DEF Move
  <2>2. /\ statement'.step = "payments" /\ statement'.calm = FALSE /\ statement'.payments = statement.payments
        /\ statement'.rows = statement.rows /\ statement'.source = statement.source
        /\ statement' \in [step : {"none", "payments", "shown"}, source : {"all", "wallet", "online"},
                           payments : SUBSET ScreenRows, rows : SUBSET ScreenRows, calm : BOOLEAN]
    BY <1>1, <1>2, <2>1
  <2>3. ASSUME NEW p \in statement.payments
        PROVE  /\ p.kind = "PAYMENT" /\ p.amount = Cost /\ p.status # "NONE"
               /\ bill'[p.bill].status # "NONE" /\ FromSource(statement.source, bill'[p.bill].method)
               /\ bill'[p.bill].method = "WALLET" => IsPaid(p.status)
               /\ \A q \in statement.payments : p.bill = q.bill => p = q
    <3>1. p.bill \in Bills
      BY <1>1 DEF ScreenRows
    <3>2. bill[p.bill].status # "NONE"
      BY DEF HistoryInvariant, ScreenFits
    <3>3. bill'[p.bill].status # "NONE" /\ bill'[p.bill].method = bill[p.bill].method
      BY <1>1, <3>1, <3>2 DEF GoodMove
    <3> QED BY <3>3 DEF HistoryInvariant, ScreenFits
  <2>4. statement.rows = {} /\ statement.source # "online"
    BY <1>2 DEF HistoryInvariant, ScreenFits
  <2> QED BY <2>2, <2>3, <2>4 DEF ScreenFits
<1>3. CASE statement.step # "payments"
  <2>1. statement' = NoHistory
    BY <1>3 DEF Move
  <2> QED BY <2>1 DEF ScreenFits, NoHistory
<1> QED BY <1>2, <1>3

LEMMA MoveKeeps ==
    ASSUME HistoryAssumption, HistoryInvariant, NEW b \in Bills, NEW new, NEW entries,
           GoodMove(b, new, entries), GoodBills(b), Move(b, new, entries)
    PROVE  HistoryInvariant'
<1>1. HistoryTypes'
  BY MoveBills, MoveLedger, MoveScreen DEF HistoryTypes, GoodBills
<1>2. (\A c \in Bills : BillFits(c))'
  BY MoveBills
<1> QED BY <1>1, <1>2, MoveLedger, MoveScreen DEF HistoryInvariant

-----------------------------------------------------------------------------
LEMMA BillIs ==
    ASSUME HistoryInvariant, NEW b \in Bills
    PROVE  /\ bill[b] \in BillRecords /\ HistoryTypes /\ BillFits(b)
           /\ bill[b].received \in Nat /\ bill[b].refunded \in Nat /\ bill[b].clawed \in Nat
BY DEF HistoryInvariant, HistoryTypes, BillRecords

LEMMA BlankBill ==
    /\ Unbilled \in BillRecords /\ Unbilled.paid = FALSE
    /\ Unbilled.received = 0 /\ Unbilled.refunded = 0 /\ Unbilled.clawed = 0
BY DEF Unbilled, BillRecords, BillStatuses, BillMethods

LEMMA MakeKeeps ==
    ASSUME HistoryAssumption, HistoryInvariant, NEW b \in Bills,
           NEW method \in {"CASH", "BANK_TRANSFER", "WALLET"}, MakeBill(b, method)
    PROVE  HistoryInvariant'
<1>1. GoodBills(b)
  BY BillIs, BillsAppend DEF MakeBill
<1>2. CASE method = "WALLET"
  <2> DEFINE new == [Unbilled EXCEPT !.method = method, !.status = "SUCCESS", !.paid = TRUE, !.received = Cost]
  <2>1. GoodMove(b, new, <<LedgerRow("PAYMENT", b, Cost)>>)
    <3>1. /\ new \in BillRecords /\ new.status = "SUCCESS" /\ new.method = "WALLET" /\ new.received = Cost
          /\ new.refunded = 0 /\ new.clawed = 0 /\ Cost \in Nat /\ Cost > 0 /\ bill[b].status = "NONE"
      <4>1. bill[b].status = "NONE" /\ Cost \in Nat /\ Cost > 0
        BY DEF MakeBill, Unbilled, HistoryAssumption
      <4>2. PICK u \in BillRecords : u = Unbilled /\ u.refunded = 0 /\ u.clawed = 0
        BY BlankBill
      <4>3. new = [u EXCEPT !.method = "WALLET", !.status = "SUCCESS", !.paid = TRUE, !.received = Cost]
        BY <1>2, <4>2
      <4> HIDE DEF new
      <4> QED BY <4>1, <4>2, <4>3 DEF BillRecords, BillStatuses, BillMethods
    <3> HIDE DEF new
    <3> QED BY <3>1 DEF GoodMove
  <2>2. Move(b, new, <<LedgerRow("PAYMENT", b, Cost)>>)
    BY <1>2 DEF MakeBill
  <2> HIDE DEF new
  <2> QED BY <1>1, <2>1, <2>2, MoveKeeps
<1>3. CASE method # "WALLET"
  <2> DEFINE new == [Unbilled EXCEPT !.method = method, !.status = "PENDING"]
  <2>1. GoodMove(b, new, <<>>)
    <3>1. /\ new \in BillRecords /\ new.status = "PENDING" /\ new.method \in {"CASH", "BANK_TRANSFER"}
          /\ ~new.paid /\ new.received = 0 /\ new.refunded = 0 /\ new.clawed = 0
          /\ bill[b].status = "NONE" /\ bill[b].refunded = 0 /\ bill[b].clawed = 0
      <4>1. bill[b].status = "NONE" /\ bill[b].refunded = 0 /\ bill[b].clawed = 0
        BY DEF MakeBill, Unbilled
      <4>2. PICK u \in BillRecords : /\ u = Unbilled /\ u.received = 0 /\ u.refunded = 0 /\ u.clawed = 0
                                     /\ u.paid = FALSE
        BY BlankBill
      <4>3. new = [u EXCEPT !.method = method, !.status = "PENDING"] /\ method \in {"CASH", "BANK_TRANSFER"}
        BY <1>3, <4>2
      <4> HIDE DEF new
      <4> QED BY <4>1, <4>2, <4>3 DEF BillRecords, BillStatuses, BillMethods
    <3> HIDE DEF new
    <3> QED BY <3>1 DEF GoodMove
  <2>2. Move(b, new, <<>>)
    BY <1>3 DEF MakeBill
  <2> HIDE DEF new
  <2> QED BY <1>1, <2>1, <2>2, MoveKeeps
<1> QED BY <1>2, <1>3

LEMMA CancelKeeps ==
    ASSUME HistoryAssumption, HistoryInvariant, NEW b \in Bills, CancelBill(b) PROVE HistoryInvariant'
<1> DEFINE new == [bill[b] EXCEPT !.status = "CANCELLED"]
<1>1. GoodBills(b) /\ Move(b, new, <<>>)
  BY BillIs, BillsSame DEF CancelBill
<1>2. GoodMove(b, new, <<>>)
  BY BillIs DEF CancelBill, GoodMove, BillFits, BillRecords, BillStatuses
<1> HIDE DEF new
<1> QED BY <1>1, <1>2, MoveKeeps

LEMMA CollectKeeps ==
    ASSUME HistoryAssumption, HistoryInvariant, NEW b \in Bills, CollectCash(b) PROVE HistoryInvariant'
<1> DEFINE new == [bill[b] EXCEPT !.status = "SUCCESS", !.paid = TRUE, !.received = Cost]
<1>1. GoodBills(b) /\ Move(b, new, <<>>)
  BY BillIs, BillsSame DEF CollectCash
<1>2. GoodMove(b, new, <<>>)
  <2>1. /\ bill[b] \in BillRecords /\ bill[b].method = "CASH"
        /\ bill[b].refunded = 0 /\ bill[b].clawed = 0 /\ Cost \in Nat /\ Cost > 0
    BY BillIs DEF CollectCash, BillFits, HistoryAssumption
  <2>2. /\ new \in BillRecords /\ new.status = "SUCCESS" /\ new.method = bill[b].method /\ new.received = Cost
        /\ new.refunded = bill[b].refunded /\ new.clawed = bill[b].clawed
    BY <2>1 DEF BillRecords, BillStatuses
  <2> HIDE DEF new
  <2> QED BY <2>1, <2>2 DEF GoodMove
<1> HIDE DEF new
<1> QED BY <1>1, <1>2, MoveKeeps

LEMMA ReceiveKeeps ==
    ASSUME HistoryAssumption, HistoryInvariant, NEW b \in Bills,
           NEW amount \in (Cost - 1)..(Cost + 1) \ {0}, ReceiveTransfer(b, amount)
    PROVE  HistoryInvariant'
<1>1. GoodBills(b)
  BY BillIs, BillsSame DEF ReceiveTransfer
<1>2. amount \in Nat /\ amount > 0 /\ Cost \in Nat
  BY DEF HistoryAssumption
<1>3. /\ bill[b] \in BillRecords /\ bill[b].status # "NONE" /\ bill[b].method = "BANK_TRANSFER"
      /\ bill[b].received = 0 /\ bill[b].refunded = 0 /\ bill[b].clawed = 0
  BY BillIs DEF ReceiveTransfer, BillFits
<1>4. CASE amount < Cost \/ bill[b].status = "CANCELLED"
  <2> DEFINE new == [bill[b] EXCEPT !.status = "REFUNDED", !.received = amount, !.refunded = amount]
  <2>1. Move(b, new, <<LedgerRow("REFUND", b, amount)>>)
    BY <1>4 DEF ReceiveTransfer
  <2>2. /\ new \in BillRecords /\ new.status = "REFUNDED" /\ new.method = bill[b].method
        /\ new.received = amount /\ new.refunded = amount /\ new.clawed = 0
    BY <1>2, <1>3 DEF BillRecords, BillStatuses
  <2> HIDE DEF new
  <2>3. GoodMove(b, new, <<LedgerRow("REFUND", b, amount)>>)
    BY <1>2, <1>3, <2>2 DEF GoodMove
  <2> QED BY <1>1, <2>1, <2>3, MoveKeeps
<1>5. CASE ~(amount < Cost \/ bill[b].status = "CANCELLED")
  <2> DEFINE new == [bill[b] EXCEPT !.status = "SUCCESS", !.paid = TRUE, !.received = amount,
                                    !.refunded = amount - Cost]
             entries == IF amount = Cost THEN <<>> ELSE <<LedgerRow("REFUND", b, amount - Cost)>>
  <2>1. Move(b, new, entries)
    BY <1>5 DEF ReceiveTransfer
  <2>2. /\ new \in BillRecords /\ new.status = "SUCCESS" /\ new.method = bill[b].method
        /\ new.received = amount /\ new.refunded = amount - Cost /\ new.clawed = 0
    <3>1. PICK more \in Nat : more = amount - Cost
      BY <1>2, <1>5
    <3> QED BY <1>2, <1>3, <3>1 DEF BillRecords, BillStatuses
  <2>3. \/ entries = <<>> /\ amount = Cost
        \/ entries = <<LedgerRow("REFUND", b, amount - Cost)>> /\ amount - Cost \in Nat
    BY <1>2, <1>5
  <2> HIDE DEF new, entries
  <2>4. GoodMove(b, new, entries)
    BY <1>2, <1>3, <1>5, <2>2, <2>3 DEF GoodMove
  <2> QED BY <1>1, <2>1, <2>4, MoveKeeps
<1> QED BY <1>4, <1>5

LEMMA RefundKeeps ==
    ASSUME HistoryAssumption, HistoryInvariant, NEW b \in Bills, NEW amount \in 1..Cost, RefundBill(b, amount)
    PROVE  HistoryInvariant'
<1> DEFINE left == bill[b].received - bill[b].refunded
           new == [bill[b] EXCEPT !.status = IF amount = left THEN "REFUNDED" ELSE @, !.refunded = @ + amount]
<1>1. GoodBills(b) /\ Move(b, new, <<LedgerRow("REFUND", b, amount)>>)
  BY BillIs, BillsSame DEF RefundBill
<1>2. /\ bill[b] \in BillRecords /\ bill[b].status = "SUCCESS" /\ bill[b].method # "none" /\ bill[b].received > 0
      /\ bill[b].received \in Nat /\ bill[b].refunded \in Nat /\ bill[b].clawed \in Nat
      /\ amount \in Nat /\ amount <= bill[b].received - bill[b].refunded
  BY BillIs DEF RefundBill, BillFits, HistoryAssumption
<1>3. /\ new \in BillRecords /\ new.status \in {"SUCCESS", "REFUNDED"} /\ new.method = bill[b].method
      /\ new.received = bill[b].received /\ new.refunded = bill[b].refunded + amount /\ new.clawed = bill[b].clawed
  <2>1. PICK more \in Nat : more = bill[b].refunded + amount
    BY <1>2
  <2>2. PICK status \in {"SUCCESS", "REFUNDED"} : status = IF amount = left THEN "REFUNDED" ELSE bill[b].status
    BY <1>2
  <2>3. new = [bill[b] EXCEPT !.status = status, !.refunded = more]
    BY <2>1, <2>2
  <2> HIDE DEF new
  <2> QED BY <1>2, <2>1, <2>3 DEF BillRecords, BillStatuses
<1> HIDE DEF new
<1>4. GoodMove(b, new, <<LedgerRow("REFUND", b, amount)>>)
  BY <1>2, <1>3 DEF GoodMove
<1> QED BY <1>1, <1>4, MoveKeeps

LEMMA ClawKeeps ==
    ASSUME HistoryAssumption, HistoryInvariant, NEW b \in Bills, NEW amount \in 1..Cost, ClawBack(b, amount)
    PROVE  HistoryInvariant'
<1> DEFINE new == [bill[b] EXCEPT !.status = "SUCCESS", !.refunded = @ - amount, !.clawed = @ + amount]
<1>1. bill[b].status \in {"SUCCESS", "REFUNDED"}
  BY BillIs DEF ClawBack, BillFits, BillRecords, BillStatuses
<1>2. GoodBills(b) /\ Move(b, new, <<>>)
  BY <1>1, BillIs, BillsSame DEF ClawBack
<1>3. /\ bill[b] \in BillRecords /\ bill[b].method # "none" /\ bill[b].received > 0
      /\ bill[b].received \in Nat /\ bill[b].refunded \in Nat /\ bill[b].clawed \in Nat
      /\ amount \in Nat /\ amount <= bill[b].refunded /\ bill[b].refunded <= bill[b].received
  BY <1>1, BillIs DEF ClawBack, BillFits, HistoryAssumption
<1>4. /\ new \in BillRecords /\ new.status = "SUCCESS" /\ new.method = bill[b].method
      /\ new.received = bill[b].received /\ new.refunded = bill[b].refunded - amount
      /\ new.clawed = bill[b].clawed + amount
  <2>1. PICK less, more \in Nat : less = bill[b].refunded - amount /\ more = bill[b].clawed + amount
    BY <1>3
  <2>2. new = [bill[b] EXCEPT !.status = "SUCCESS", !.refunded = less, !.clawed = more]
    BY <2>1
  <2> HIDE DEF new
  <2> QED BY <1>3, <2>1, <2>2 DEF BillRecords, BillStatuses
<1> HIDE DEF new
<1>5. GoodMove(b, new, <<>>)
  BY <1>1, <1>3, <1>4 DEF GoodMove
<1> QED BY <1>2, <1>5, MoveKeeps

-----------------------------------------------------------------------------
\* What the queries find stays while the tables do.
LEMMA ListedStays ==
    ASSUME UNCHANGED <<bills, bill>>, statement'.source = statement.source
    PROVE  Listed' = Listed
<1>1. PICK source : source = statement.source /\ source = statement'.source
  OBVIOUS
<1>2. PICK listed : listed = {PaymentRow(bills[i]) :
          i \in Newest({n \in DOMAIN bills : FromSource(source, bill[bills[n]].method)})}
  OBVIOUS
<1>3. Listed' = listed
  BY <1>1, <1>2 DEF Listed, PaymentRow, Newest, FromSource
<1>4. Listed = listed
  BY <1>1, <1>2 DEF Listed
<1> QED BY <1>3, <1>4

LEMMA ToldStays ==
    ASSUME UNCHANGED <<bill, ledger>>, statement'.payments = statement.payments
    PROVE  Told' = Told
<1>1. PICK payments : payments = statement.payments /\ payments = statement'.payments
  OBVIOUS
<1>2. PICK dropped : dropped = DroppedAs(payments)
  OBVIOUS
<1>3. DroppedAs(statement.payments)' = dropped /\ DroppedAs(statement.payments) = dropped
  BY <1>1, <1>2 DEF DroppedAs
<1>4. PICK told : told = {WalletRow(i) : i \in {n \in Newest(DOMAIN ledger) :
                            ~(ledger[n].kind = "PAYMENT" /\ ledger[n].bill \in dropped)}}
  OBVIOUS
<1>5. Told' = told
  BY <1>3, <1>4 DEF Told, WalletRow, Newest
<1>6. Told = told
  BY <1>3, <1>4 DEF Told
<1> QED BY <1>5, <1>6

\* What only puts the screen together leaves the payments and the ledger as they are.
LEMMA ScreenKeeps ==
    ASSUME HistoryInvariant, UNCHANGED <<bills, bill, ledger>>,
           statement' \in [step : {"none", "payments", "shown"}, source : {"all", "wallet", "online"},
                           payments : SUBSET ScreenRows, rows : SUBSET ScreenRows, calm : BOOLEAN],
           ScreenFits'
    PROVE  HistoryInvariant'
<1>1. HistoryTypes'
  BY DEF HistoryInvariant, HistoryTypes
<1>2. (\A b \in Bills : BillFits(b))'
  BY DEF HistoryInvariant, BillFits
<1>3. LedgerFits'
  BY DEF HistoryInvariant, LedgerFits, EntriesOf, WalletRow
<1> QED BY <1>1, <1>2, <1>3 DEF HistoryInvariant

LEMMA PaymentRows ==
    ASSUME HistoryAssumption, HistoryInvariant, NEW i \in DOMAIN bills
    PROVE  /\ bills[i] \in Bills /\ bill[bills[i]].status # "NONE"
           /\ PaymentRow(bills[i]) \in ScreenRows
           /\ bill[bills[i]].method = "WALLET" => IsPaid(bill[bills[i]].status)
<1>1. bills[i] \in Bills
  BY LenProperties, ElementOfSeq DEF HistoryInvariant, HistoryTypes
<1>2. bill[bills[i]].status # "NONE"
  BY DEF HistoryInvariant, LedgerFits
<1>3. PICK b \in Bills : b = bills[i]
  BY <1>1
<1>4. bill[b] \in BillRecords /\ bill[b].status \in BillStatuses /\ BillFits(b)
  BY BillIs DEF BillRecords
<1>5. PaymentRow(b) \in ScreenRows
  BY <1>4 DEF PaymentRow, ScreenRows, HistoryAssumption
<1>6. bill[b].method = "WALLET" => IsPaid(bill[b].status)
  BY <1>4, <1>2, <1>3 DEF BillFits, IsPaid, BillStatuses
<1> QED BY <1>1, <1>2, <1>3, <1>5, <1>6

LEMMA AskKeeps ==
    ASSUME HistoryAssumption, HistoryInvariant, NEW source \in {"all", "wallet", "online"}, AskHistory(source)
    PROVE  HistoryInvariant'
<1> DEFINE found == {i \in DOMAIN bills : FromSource(source, bill[bills[i]].method)}
<1>1. PICK listed : listed = {PaymentRow(bills[i]) : i \in Newest(found)}
  OBVIOUS
<1>2. statement' = [NoHistory EXCEPT !.source = source, !.payments = listed,
                                     !.step = IF source = "online" THEN "shown" ELSE "payments"]
  BY <1>1 DEF AskHistory
<1>3. /\ statement'.source = source /\ statement'.payments = listed /\ statement'.rows = {}
      /\ statement'.step = (IF source = "online" THEN "shown" ELSE "payments") /\ statement'.calm = TRUE
  BY <1>2 DEF NoHistory
<1>4. Newest(found) \subseteq found
  BY DEF Newest
<1>5. listed \subseteq ScreenRows
  BY <1>1, <1>4, PaymentRows
<1>6. statement' \in [step : {"none", "payments", "shown"}, source : {"all", "wallet", "online"},
                      payments : SUBSET ScreenRows, rows : SUBSET ScreenRows, calm : BOOLEAN]
  BY <1>2, <1>5 DEF NoHistory
<1>7. UNCHANGED <<bills, bill, ledger>>
  BY DEF AskHistory
<1>8. ASSUME NEW p \in listed
      PROVE  /\ p.kind = "PAYMENT" /\ p.amount = Cost /\ p.status # "NONE"
             /\ bill[p.bill].status # "NONE" /\ FromSource(source, bill[p.bill].method)
             /\ bill[p.bill].method = "WALLET" => IsPaid(p.status)
             /\ \A q \in listed : p.bill = q.bill => p = q
  <2>1. PICK i \in found : p = PaymentRow(bills[i])
    BY <1>1, <1>4
  <2>2. \A q \in listed : \E j \in found : q = PaymentRow(bills[j])
    BY <1>1, <1>4
  <2> QED BY <2>1, <2>2, PaymentRows DEF PaymentRow
<1>9. ScreenFits'
  <2>1. statement'.payments = Listed'
    BY <1>1, <1>3, <1>7 DEF Listed, PaymentRow, Newest, FromSource
  <2>2. ASSUME statement'.step = "shown", statement'.source # "online" PROVE FALSE
    BY <1>3, <2>2
  <2>3. (\A p \in statement.payments :
           /\ p.kind = "PAYMENT" /\ p.amount = Cost /\ p.status # "NONE"
           /\ bill[p.bill].status # "NONE" /\ FromSource(statement.source, bill[p.bill].method)
           /\ bill[p.bill].method = "WALLET" => IsPaid(p.status)
           /\ \A q \in statement.payments : p.bill = q.bill => p = q)'
    BY <1>3, <1>7, <1>8
  <2>4. /\ statement'.step # "none" /\ statement'.rows = {}
        /\ statement'.step = "payments" => statement'.source # "online"
    BY <1>3
  <2> HIDE <1>1, <1>8
  <2> QED BY <2>1, <2>2, <2>3, <2>4 DEF ScreenFits
<1> QED BY <1>6, <1>7, <1>9, ScreenKeeps

LEMMA ReadKeeps == ASSUME HistoryAssumption, HistoryInvariant, ReadLedger PROVE HistoryInvariant'
<1> DEFINE kept == {n \in Newest(DOMAIN ledger) :
                        ~(ledger[n].kind = "PAYMENT" /\ ledger[n].bill \in DroppedAs(statement.payments))}
<1>1. PICK told : told = {WalletRow(i) : i \in kept}
  OBVIOUS
<1>2. statement' = [statement EXCEPT !.step = "shown", !.rows = told]
  BY <1>1 DEF ReadLedger
<1>3. told \subseteq ScreenRows
  <2>1. kept \subseteq DOMAIN ledger
    BY DEF Newest
  <2>2. \A i \in DOMAIN ledger : ledger[i] \in LedgerRecords /\ i \in Nat
    BY LenProperties, ElementOfSeq DEF HistoryInvariant, HistoryTypes
  <2>3. \A i \in DOMAIN ledger : WalletRow(i) \in ScreenRows
    BY <2>2 DEF WalletRow, ScreenRows, LedgerRecords, BillStatuses
  <2> QED BY <1>1, <2>1, <2>3
<1>4. /\ statement \in [step : {"none", "payments", "shown"}, source : {"all", "wallet", "online"},
                        payments : SUBSET ScreenRows, rows : SUBSET ScreenRows, calm : BOOLEAN]
      /\ statement.step = "payments" /\ statement.source # "online"
  BY DEF HistoryInvariant, HistoryTypes, ScreenFits, ReadLedger
<1>5. statement' \in [step : {"none", "payments", "shown"}, source : {"all", "wallet", "online"},
                      payments : SUBSET ScreenRows, rows : SUBSET ScreenRows, calm : BOOLEAN]
  BY <1>2, <1>3, <1>4
<1>6. /\ statement'.step = "shown" /\ statement'.rows = told /\ statement'.payments = statement.payments
      /\ statement'.source = statement.source /\ statement'.calm = statement.calm
  BY <1>2, <1>4
<1>7. UNCHANGED <<bills, bill, ledger>>
  BY DEF ReadLedger
<1>8. ScreenFits'
  <2>1. statement'.rows = Told'
    BY <1>1, <1>6, <1>7, ToldStays DEF Told
  <2>2. statement.calm => statement.payments = Listed
    BY <1>4 DEF HistoryInvariant, ScreenFits
  <2>3. (statement.calm => statement.payments = Listed)'
    BY <1>6, <1>7, <2>2, ListedStays
  <2>4. (\A p \in statement.payments :
           /\ p.kind = "PAYMENT" /\ p.amount = Cost /\ p.status # "NONE"
           /\ bill[p.bill].status # "NONE" /\ FromSource(statement.source, bill[p.bill].method)
           /\ bill[p.bill].method = "WALLET" => IsPaid(p.status)
           /\ \A q \in statement.payments : p.bill = q.bill => p = q)'
    BY <1>6, <1>7 DEF HistoryInvariant, ScreenFits
  <2> HIDE <1>1
  <2> QED BY <1>4, <1>6, <2>1, <2>3, <2>4 DEF ScreenFits
<1> QED BY <1>5, <1>7, <1>8, ScreenKeeps

LEMMA CloseKeeps == ASSUME HistoryAssumption, HistoryInvariant, CloseHistory PROVE HistoryInvariant'
<1>1. ScreenFits'
  BY DEF CloseHistory, ScreenFits, NoHistory
<1>2. statement' \in [step : {"none", "payments", "shown"}, source : {"all", "wallet", "online"},
                      payments : SUBSET ScreenRows, rows : SUBSET ScreenRows, calm : BOOLEAN]
  BY DEF CloseHistory, NoHistory
<1> QED BY <1>1, <1>2, ScreenKeeps DEF CloseHistory

LEMMA HistoryStep == HistoryAssumption /\ HistoryInvariant /\ [HistoryNext]_historyVars => HistoryInvariant'
<1> SUFFICES ASSUME HistoryAssumption, HistoryInvariant, [HistoryNext]_historyVars PROVE HistoryInvariant'
  OBVIOUS
<1>1. CASE UNCHANGED historyVars
  <2>1. UNCHANGED <<bills, bill, ledger, statement>>
    BY <1>1 DEF historyVars
  <2>2. Listed' = Listed /\ Told' = Told
    BY <2>1, ListedStays, ToldStays
  <2>3. ScreenFits'
    BY <2>1, <2>2 DEF HistoryInvariant, ScreenFits
  <2> QED BY <2>1, <2>3, ScreenKeeps DEF HistoryInvariant, HistoryTypes
<1>2. CASE HistoryNext
  BY <1>2, MakeKeeps, CancelKeeps, CollectKeeps, ReceiveKeeps, RefundKeeps, ClawKeeps, AskKeeps, ReadKeeps,
     CloseKeeps DEF HistoryNext
<1> QED BY <1>1, <1>2

LEMMA HistoryStarts == HistoryAssumption /\ HistoryInit => HistoryInvariant
<1> SUFFICES ASSUME HistoryAssumption, HistoryInit PROVE HistoryInvariant
  OBVIOUS
<1>1. /\ bills = <<>> /\ ledger = <<>> /\ bill = [b \in Bills |-> Unbilled] /\ statement = NoHistory
      /\ DOMAIN bills = {} /\ DOMAIN ledger = {}
  BY DEF HistoryInit
<1>2. HistoryTypes
  BY <1>1, EmptySeq DEF HistoryTypes, Unbilled, NoHistory, BillRecords, BillStatuses, BillMethods
<1>3. \A b \in Bills : BillFits(b)
  BY <1>1 DEF BillFits, Unbilled
<1>4. ASSUME NEW b \in Bills PROVE RowTotal(EntriesOf(b)) = bill[b].refunded + bill[b].clawed
  <2>1. EntriesOf(b) = {}
    BY <1>1 DEF EntriesOf
  <2>2. PICK none : none = [r \in {} |-> r.amount]
    OBVIOUS
  <2>3. RowTotal({}) = 0
    BY <2>2, TotalOfNone, TotalIs DEF RowTotal
  <2> QED BY <1>1, <2>1, <2>3 DEF Unbilled
<1>5. LedgerFits
  BY <1>1, <1>4 DEF LedgerFits
<1>6. ScreenFits
  BY <1>1 DEF ScreenFits, NoHistory
<1> QED BY <1>2, <1>3, <1>5, <1>6 DEF HistoryInvariant

-----------------------------------------------------------------------------
LEMMA ScreenIs ==
    ASSUME HistoryInvariant, statement.step = "shown"
    PROVE  /\ statement.payments \subseteq ScreenRows /\ statement.rows \subseteq ScreenRows
           /\ statement.source = "online" => statement.rows = {}
           /\ statement.source # "online" => statement.rows = Told
           /\ \A p \in statement.payments : p.kind = "PAYMENT" /\ p.amount = Cost /\ p.status # "NONE"
           /\ \A r \in statement.rows :
                 \E i \in DOMAIN ledger :
                    /\ i \in Newest(DOMAIN ledger)
                    /\ ~(ledger[i].kind = "PAYMENT" /\ ledger[i].bill \in DroppedAs(statement.payments))
                    /\ r = WalletRow(i)
BY DEF HistoryInvariant, HistoryTypes, ScreenFits, Told, Newest

LEMMA LedgerIs ==
    ASSUME HistoryInvariant, NEW i \in DOMAIN ledger
    PROVE  i \in Nat /\ ledger[i] \in LedgerRecords /\ ledger[i].kind \in {"PAYMENT", "REFUND"} /\ ledger[i].bill \in Bills
<1>1. ledger \in Seq(LedgerRecords)
  BY DEF HistoryInvariant, HistoryTypes
<1>2. i \in Nat /\ ledger[i] \in LedgerRecords
  BY <1>1, LenProperties, ElementOfSeq
<1> QED BY <1>2 DEF LedgerRecords

LEMMA PaymentsOnce == ASSUME HistoryInvariant PROVE PaidOnce
<1> SUFFICES ASSUME statement.step = "shown"
             PROVE  /\ \A r, other \in PaidRows : r.bill = other.bill => r = other
                    /\ statement.source # "online" =>
                          \A i \in Newest(DOMAIN ledger) : ledger[i].kind = "PAYMENT" =>
                              \E r \in PaidRows : r.bill = ledger[i].bill
  BY DEF PaidOnce
<1>1. ASSUME NEW r \in PaidRows, NEW other \in statement.rows, r \in statement.payments, other \in PaidRows,
             r.bill = other.bill
      PROVE  FALSE
  <2>1. PICK i \in DOMAIN ledger :
           /\ ~(ledger[i].kind = "PAYMENT" /\ ledger[i].bill \in DroppedAs(statement.payments))
           /\ other = WalletRow(i)
    BY ScreenIs
  <2>2. ledger[i].kind = "PAYMENT" /\ ledger[i].bill = r.bill
    BY <1>1, <2>1 DEF PaidRows, WalletRow
  <2>3. bill[r.bill].method = "WALLET"
    BY <2>2 DEF HistoryInvariant, LedgerFits
  <2>4. r.bill \in DroppedAs(statement.payments)
    BY <1>1, <2>3 DEF DroppedAs, PaidRows
  <2> QED BY <2>1, <2>2, <2>4
<1>2. ASSUME NEW r \in PaidRows, NEW other \in PaidRows, r \in statement.rows, other \in statement.rows,
             r.bill = other.bill
      PROVE  r = other
  <2>1. PICK i \in DOMAIN ledger : r = WalletRow(i)
    BY <1>2, ScreenIs
  <2>2. PICK j \in DOMAIN ledger : other = WalletRow(j)
    BY <1>2, ScreenIs
  <2>3. ledger[i].kind = "PAYMENT" /\ ledger[j].kind = "PAYMENT" /\ ledger[i].bill = ledger[j].bill
    BY <1>2, <2>1, <2>2 DEF PaidRows, WalletRow
  <2> QED BY <2>1, <2>2, <2>3 DEF HistoryInvariant, LedgerFits
<1>3. ASSUME NEW r \in PaidRows, NEW other \in PaidRows, r.bill = other.bill PROVE r = other
  <2>1. \A p, q \in statement.payments : p.bill = q.bill => p = q
    BY DEF HistoryInvariant, ScreenFits
  <2>2. r \in statement.payments \/ r \in statement.rows
    BY DEF PaidRows, HistoryRows
  <2>3. other \in statement.payments \/ other \in statement.rows
    BY DEF PaidRows, HistoryRows
  <2> QED BY <1>1, <1>2, <1>3, <2>1, <2>2, <2>3
<1>4. ASSUME statement.source # "online", NEW i \in Newest(DOMAIN ledger), ledger[i].kind = "PAYMENT"
      PROVE  \E r \in PaidRows : r.bill = ledger[i].bill
  <2>1. CASE ledger[i].bill \in DroppedAs(statement.payments)
    <3>1. PICK p \in statement.payments : p.bill = ledger[i].bill /\ IsPaid(p.status)
      BY <2>1 DEF DroppedAs
    <3>2. p \in PaidRows
      BY <3>1, ScreenIs DEF PaidRows, HistoryRows
    <3> QED BY <3>1, <3>2
  <2>2. CASE ledger[i].bill \notin DroppedAs(statement.payments)
    <3>1. WalletRow(i) \in statement.rows
      BY <1>4, <2>2, ScreenIs DEF Told
    <3>2. WalletRow(i) \in PaidRows /\ WalletRow(i).bill = ledger[i].bill
      BY <1>4, <3>1 DEF PaidRows, HistoryRows, WalletRow, IsPaid
    <3> QED BY <3>2
  <2> QED BY <2>1, <2>2
<1> QED BY <1>3, <1>4

LEMMA RowsAreFound == ASSUME HistoryInvariant PROVE EveryRowIsFound
<1> SUFFICES ASSUME statement.step = "shown", NEW r \in HistoryRows
             PROVE  Cardinality({choice \in {"paid", "pending", "cancelled", "refunded"} : MatchStatus(r, choice)}) = 1
  BY DEF EveryRowIsFound
<1>1. \/ r.kind = "PAYMENT" /\ r.status \in {"PENDING", "SUCCESS", "CANCELLED", "REFUNDED"}
      \/ r.kind = "REFUND" /\ r.status = "SUCCESS"
  <2>1. CASE r \in statement.payments
    <3>1. r.status \in BillStatuses
      BY <2>1, ScreenIs DEF ScreenRows
    <3> QED BY <2>1, <3>1, ScreenIs DEF BillStatuses
  <2>2. CASE r \in statement.rows
    <3>1. PICK i \in DOMAIN ledger : r = WalletRow(i)
      BY <2>2, ScreenIs
    <3> QED BY <3>1, LedgerIs DEF WalletRow
  <2> QED BY <2>1, <2>2 DEF HistoryRows
<1>2. PICK found : found = {choice \in {"paid", "pending", "cancelled", "refunded"} : MatchStatus(r, choice)}
  OBVIOUS
<1>3. \E choice : found = {choice}
  <2>1. CASE r.kind = "PAYMENT" /\ r.status = "SUCCESS"
    <3>1. found = {"paid"}
      BY <1>2, <2>1 DEF MatchStatus
    <3> QED BY <3>1
  <2>2. CASE r.kind = "PAYMENT" /\ r.status = "PENDING"
    <3>1. found = {"pending"}
      BY <1>2, <2>2 DEF MatchStatus
    <3> QED BY <3>1
  <2>3. CASE r.kind = "PAYMENT" /\ r.status = "CANCELLED"
    <3>1. found = {"cancelled"}
      BY <1>2, <2>3 DEF MatchStatus
    <3> QED BY <3>1
  <2>4. CASE r.kind = "PAYMENT" /\ r.status = "REFUNDED"
    <3>1. found = {"refunded"}
      BY <1>2, <2>4 DEF MatchStatus
    <3> QED BY <3>1
  <2>5. CASE r.kind = "REFUND" /\ r.status = "SUCCESS"
    <3>1. found = {"refunded"}
      BY <1>2, <2>5 DEF MatchStatus
    <3> QED BY <3>1
  <2> QED BY <1>1, <2>1, <2>2, <2>3, <2>4, <2>5
<1> QED BY <1>2, <1>3, FS_Singleton

-----------------------------------------------------------------------------
\* Where nothing is too old, everything is read.
LEMMA NothingIsOld ==
    ASSUME HistoryAssumption, NEW S, NEW seq \in Seq(S), Len(seq) <= FetchCap
    PROVE  Newest(DOMAIN seq) = DOMAIN seq
<1>1. DOMAIN seq = 1..Len(seq) /\ Len(seq) \in Nat
  BY LenProperties
<1>2. IsFiniteSet(DOMAIN seq) /\ Cardinality(DOMAIN seq) = Len(seq)
  <2>1. IsFiniteSet(1..Len(seq)) /\ Cardinality(1..Len(seq)) = IF 1 > Len(seq) THEN 0 ELSE Len(seq) - 1 + 1
    <3>1. PICK n \in Nat : n = Len(seq)
      BY <1>1
    <3>2. 1 \in Int /\ n \in Int
      BY <3>1
    <3>3. IsFiniteSet(1..n) /\ Cardinality(1..n) = IF 1 > n THEN 0 ELSE n - 1 + 1
      BY <3>2, FS_Interval
    <3> QED BY <3>1, <3>3
  <2> QED BY <1>1, <2>1
<1>3. ASSUME NEW i \in DOMAIN seq PROVE Cardinality({j \in DOMAIN seq : j > i}) < FetchCap
  <2>1. PICK later \in SUBSET DOMAIN seq : later = {j \in DOMAIN seq : j > i}
    OBVIOUS
  <2>2. later # DOMAIN seq
    BY <1>1, <2>1
  <2>3. Cardinality(later) < Cardinality(DOMAIN seq) /\ Cardinality(later) \in Nat
    BY <1>2, <2>2, FS_Subset, FS_CardinalityType
  <2> QED BY <1>1, <1>2, <2>1, <2>3 DEF HistoryAssumption
<1> QED BY <1>3 DEF Newest

LEMMA MoneyAddsUp == ASSUME HistoryAssumption, HistoryInvariant PROVE TotalsAgree
<1> DEFINE kept == [b \in Bills |-> bill[b].received - bill[b].refunded - bill[b].clawed]
           came == [b \in Bills |-> bill[b].received]
           went == [b \in Bills |-> bill[b].refunded + bill[b].clawed]
<1> SUFFICES ASSUME statement.step = "shown", statement.calm, statement.source = "all",
                    Len(bills) <= FetchCap, Len(ledger) <= FetchCap,
                    \A b \in Bills : bill[b].received \in {0, Cost}
             PROVE  RowTotal(PaidRows) - RowTotal(RefundRows) = SumOver(kept, Bills)
  BY DEF TotalsAgree
<1>1. Newest(DOMAIN ledger) = DOMAIN ledger /\ Newest(DOMAIN bills) = DOMAIN bills
  BY NothingIsOld DEF HistoryInvariant, HistoryTypes
<1>2. statement.payments = {PaymentRow(bills[i]) : i \in DOMAIN bills}
  <2>1. statement.payments = Listed
    BY DEF HistoryInvariant, ScreenFits
  <2>2. PICK found : found = {n \in DOMAIN bills : FromSource(statement.source, bill[bills[n]].method)}
    OBVIOUS
  <2>3. found = DOMAIN bills
    BY <2>2 DEF FromSource
  <2>4. Listed = {PaymentRow(bills[i]) : i \in Newest(found)}
    BY <2>2 DEF Listed
  <2> QED BY <1>1, <2>1, <2>3, <2>4
<1>3. statement.payments = {PaymentRow(b) : b \in {c \in Bills : bill[c].status # "NONE"}}
  <2>1. ASSUME NEW i \in DOMAIN bills PROVE bills[i] \in Bills /\ bill[bills[i]].status # "NONE"
    BY PaymentRows
  <2>2. ASSUME NEW b \in Bills, bill[b].status # "NONE" PROVE \E i \in DOMAIN bills : bills[i] = b
    BY <2>2 DEF HistoryInvariant, BillFits
  <2> QED BY <1>2, <2>1, <2>2
<1>4. ASSUME NEW i \in DOMAIN ledger, ledger[i].kind = "PAYMENT"
      PROVE  ledger[i].bill \in DroppedAs(statement.payments)
  <2>1. PICK b \in Bills : b = ledger[i].bill
    BY LedgerIs
  <2>2. bill[b].method = "WALLET"
    BY <1>4, <2>1 DEF HistoryInvariant, LedgerFits
  <2>3. bill[b].status # "NONE" /\ IsPaid(bill[b].status)
    BY <2>2, BillIs DEF BillFits, Unbilled, BillRecords, BillStatuses, IsPaid
  <2>4. PaymentRow(b) \in statement.payments /\ PaymentRow(b).bill = b /\ PaymentRow(b).status = bill[b].status
    BY <1>3, <2>3 DEF PaymentRow
  <2> QED BY <2>1, <2>2, <2>3, <2>4 DEF DroppedAs
<1>5. statement.rows = {WalletRow(i) : i \in {n \in DOMAIN ledger : ledger[n].kind = "REFUND"}}
  <2>1. statement.rows = Told
    BY ScreenIs
  <2> QED BY <1>1, <1>4, <2>1, LedgerIs DEF Told
<1>6. PaidRows = {PaymentRow(b) : b \in {c \in Bills : IsPaid(bill[c].status)}}
  <2>1. \A r \in statement.rows : r.kind = "REFUND"
    BY <1>5 DEF WalletRow
  <2>2. PaidRows = {r \in statement.payments : IsPaid(r.status)}
    BY <2>1, ScreenIs DEF PaidRows, HistoryRows
  <2> QED BY <1>3, <2>2 DEF PaymentRow, IsPaid
<1>7. RefundRows = statement.rows
  BY <1>5, ScreenIs DEF RefundRows, HistoryRows, WalletRow
<1>8. \A b \in Bills : /\ {r \in RefundRows : r.bill = b} = EntriesOf(b)
                       /\ {r \in PaidRows : r.bill = b} = IF IsPaid(bill[b].status) THEN {PaymentRow(b)} ELSE {}
  <2>1. ASSUME NEW b \in Bills PROVE {r \in RefundRows : r.bill = b} = EntriesOf(b)
    BY <1>5, <1>7 DEF EntriesOf, WalletRow
  <2>2. ASSUME NEW b \in Bills
        PROVE  {r \in PaidRows : r.bill = b} = IF IsPaid(bill[b].status) THEN {PaymentRow(b)} ELSE {}
    BY <1>6 DEF PaymentRow
  <2> QED BY <2>1, <2>2
<1>9. PaidRows \in SUBSET ScreenRows /\ RefundRows \in SUBSET ScreenRows
  BY ScreenIs DEF PaidRows, RefundRows, HistoryRows
<1>10. IsFiniteSet(PaidRows) /\ IsFiniteSet(RefundRows) /\ IsFiniteSet(Bills)
  <2>1. IsFiniteSet(Bills)
    BY DEF HistoryAssumption
  <2>2. PICK paid : paid = {c \in Bills : IsPaid(bill[c].status)}
    OBVIOUS
  <2>3. IsFiniteSet(paid)
    BY <2>1, <2>2, FS_Subset
  <2>4. PICK f : f = [b \in paid |-> PaymentRow(b)]
    OBVIOUS
  <2>5. f \in Surjection(paid, PaidRows)
    BY <1>6, <2>2, <2>4 DEF Surjection
  <2>6. IsFiniteSet(PaidRows)
    BY <2>3, <2>5, FS_Surjection
  <2>7. PICK entries : entries = {n \in DOMAIN ledger : ledger[n].kind = "REFUND"}
    OBVIOUS
  <2>8. IsFiniteSet(entries)
    <3>1. DOMAIN ledger = 1..Len(ledger) /\ Len(ledger) \in Nat
      BY LenProperties DEF HistoryInvariant, HistoryTypes
    <3>2. IsFiniteSet(DOMAIN ledger)
      BY <3>1, FS_Interval
    <3> QED BY <2>7, <3>2, FS_Subset
  <2>9. PICK g : g = [i \in entries |-> WalletRow(i)]
    OBVIOUS
  <2>10. g \in Surjection(entries, RefundRows)
    BY <1>5, <1>7, <2>7, <2>9 DEF Surjection
  <2> QED BY <2>1, <2>6, <2>8, <2>10, FS_Surjection
<1>11. PICK amounts : amounts = [r \in ScreenRows |-> r.amount]
  OBVIOUS
<1>12. /\ RowTotal(PaidRows) = Total(amounts, PaidRows) /\ RowTotal(RefundRows) = Total(amounts, RefundRows)
       /\ \A r \in ScreenRows : amounts[r] = r.amount /\ amounts[r] \in Nat
  BY <1>9, <1>10, <1>11, RowTotalIs
<1>13. Total(came, Bills) = Total(amounts, PaidRows)
  <2>1. ASSUME NEW b \in Bills PROVE came[b] = Total(amounts, {r \in PaidRows : r.bill = b})
    <3>1. CASE IsPaid(bill[b].status)
      <4>1. bill[b].received = Cost
        BY <3>1, BillIs DEF BillFits, IsPaid
      <4>2. PICK row : row = PaymentRow(b)
        OBVIOUS
      <4>3. row \in ScreenRows /\ amounts[row] = Cost
        BY <1>6, <1>9, <1>12, <3>1, <4>2 DEF PaymentRow
      <4>4. Total(amounts, {row}) = amounts[row] + Total(amounts, {row} \ {row})
        <5>1. PICK one : one = {row}
          OBVIOUS
        <5>2. IsFiniteSet(one) /\ row \in one /\ \A r \in one : amounts[r] \in Int
          <6>1. IsFiniteSet({row})
            BY FS_Singleton
          <6> QED BY <1>12, <4>3, <5>1, <6>1
        <5>3. Total(amounts, one) = amounts[row] + Total(amounts, one \ {row})
          BY <5>2, TotalWithout
        <5> QED BY <5>1, <5>3
      <4>5. Total(amounts, {row} \ {row}) = 0
        <5>1. PICK none : none = {row} \ {row}
          OBVIOUS
        <5>2. none = {}
          BY <5>1
        <5> QED BY <5>1, <5>2, TotalOfNone
      <4>6. Total(amounts, {row}) = Cost
        BY <4>3, <4>4, <4>5 DEF HistoryAssumption
      <4>7. {r \in PaidRows : r.bill = b} = {row}
        BY <1>8, <3>1, <4>2
      <4> QED BY <4>1, <4>6, <4>7
    <3>2. CASE ~IsPaid(bill[b].status)
      <4>1. bill[b].received = 0
        BY <3>2, BillIs DEF BillFits, IsPaid, BillRecords, BillStatuses, Unbilled
      <4>2. {r \in PaidRows : r.bill = b} = {}
        BY <1>8, <3>2
      <4>3. Total(amounts, {r \in PaidRows : r.bill = b}) = 0
        BY <4>2, TotalOfNone
      <4> QED BY <4>1, <4>3
    <3> QED BY <3>1, <3>2
  <2>2. PICK rows, chart : rows = PaidRows /\ chart = came
    OBVIOUS
  <2>3. PICK bar : bar = [r \in rows |-> r.bill]
    OBVIOUS
  <2>4. bar \in [rows -> Bills] /\ IsFiniteSet(rows) /\ \A r \in rows : amounts[r] \in Int
    BY <1>9, <1>10, <1>12, <2>2, <2>3 DEF ScreenRows
  <2>5. ASSUME NEW b \in Bills
        PROVE  \E part \in SUBSET rows : (\A r \in rows : r \in part <=> bar[r] = b) /\ chart[b] = Total(amounts, part)
    <3>1. PICK part \in SUBSET rows : part = {r \in rows : r.bill = b}
      OBVIOUS
    <3>2. chart[b] = Total(amounts, part)
      <4> HIDE DEF came
      <4> QED BY <2>1, <2>2, <3>1
    <3> QED BY <2>3, <3>1, <3>2
  <2>6. Total(chart, Bills) = Total(amounts, rows)
    BY <1>10, <2>4, <2>5, BarsAddUp
  <2> HIDE DEF came
  <2> QED BY <2>2, <2>6
<1>14. Total(went, Bills) = Total(amounts, RefundRows)
  <2>1. ASSUME NEW b \in Bills PROVE went[b] = Total(amounts, {r \in RefundRows : r.bill = b})
    <3>1. RowTotal(EntriesOf(b)) = bill[b].refunded + bill[b].clawed
      BY DEF HistoryInvariant, LedgerFits
    <3>2. EntriesOf(b) \in SUBSET ScreenRows /\ IsFiniteSet(EntriesOf(b))
      BY RefundsInLedger, RefundsAreRows DEF HistoryInvariant, HistoryTypes
    <3>3. RowTotal(EntriesOf(b)) = Total(amounts, EntriesOf(b))
      BY <1>11, <3>2, RowTotalIs
    <3> QED BY <1>8, <3>1, <3>3
  <2>2. PICK rows, chart : rows = RefundRows /\ chart = went
    OBVIOUS
  <2>3. PICK bar : bar = [r \in rows |-> r.bill]
    OBVIOUS
  <2>4. bar \in [rows -> Bills] /\ IsFiniteSet(rows) /\ \A r \in rows : amounts[r] \in Int
    BY <1>9, <1>10, <1>12, <2>2, <2>3 DEF ScreenRows
  <2>5. ASSUME NEW b \in Bills
        PROVE  \E part \in SUBSET rows : (\A r \in rows : r \in part <=> bar[r] = b) /\ chart[b] = Total(amounts, part)
    <3>1. PICK part \in SUBSET rows : part = {r \in rows : r.bill = b}
      OBVIOUS
    <3>2. chart[b] = Total(amounts, part)
      <4> HIDE DEF went
      <4> QED BY <2>1, <2>2, <3>1
    <3> QED BY <2>3, <3>1, <3>2
  <2>6. Total(chart, Bills) = Total(amounts, rows)
    BY <1>10, <2>4, <2>5, BarsAddUp
  <2> HIDE DEF went
  <2> QED BY <2>2, <2>6
<1>15. Total(kept, Bills) = Total(came, Bills) - Total(went, Bills)
  <2>1. \A b \in Bills : came[b] \in Int /\ went[b] \in Int /\ kept[b] = came[b] - went[b]
    BY BillIs
  <2> HIDE DEF came, went, kept
  <2> QED BY <1>10, <2>1, TotalOfDifference
<1>16. SumOver(kept, Bills) = Total(kept, Bills)
  BY TotalIs
<1> HIDE DEF came, went, kept
<1> QED BY <1>12, <1>13, <1>14, <1>15, <1>16

LEMMA HistoryIsSafe == HistoryAssumption /\ HistoryInvariant => HistorySafe
BY PaymentsOnce, RowsAreFound, MoneyAddsUp DEF HistorySafe

\* A customer is told each of his payments once, whichever of the two tables it is read from
\* and whatever is settled, refunded or taken back in between; his totals are the money the
\* house has of him, and every row is found under one choice of status.
THEOREM HistoryStaysSafe == HistoryInit /\ [][HistoryNext]_historyVars => []HistorySafe
<1>1. HistoryInit => HistoryInvariant
  BY HistoryAssumption, HistoryStarts
<1>2. HistoryInvariant /\ [HistoryNext]_historyVars => HistoryInvariant'
  BY HistoryAssumption, HistoryStep
<1>3. HistoryInvariant => HistorySafe
  BY HistoryAssumption, HistoryIsSafe
<1> QED BY <1>1, <1>2, <1>3, PTL
=============================================================================
