---------------------------- MODULE BankAccounts ----------------------------
(***************************************************************************)
(* The bank accounts a user keeps for payments or payouts: adding and      *)
(* renaming one, choosing the default, and the verification of an account  *)
(* with the bank.  apps/payments/views.py, serializers.py, bankhub.py and  *)
(* payment_method_service.py.                                              *)
(*                                                                         *)
(* Every handler reads its account without a lock and writes in a later    *)
(* transaction, from what it read: the reads and the writes are separate   *)
(* steps, and so are the two saves of an expiry, which share none.  A      *)
(* process that dies between them is a handler that takes no further step. *)
(* The database refuses a second active default.                           *)
(***************************************************************************)
EXTENDS Integers, FiniteSets

CONSTANTS
    Accounts, Attempts, NoAccount, NoAttempt,
    MaxAccounts,    \* MAX_BANK_ACCOUNTS_PER_USAGE
    MaxHandlers     \* bound: handlers between their read and their write

ASSUME BankAccountsAssumption ==
    NoAccount \notin Accounts /\ NoAttempt \notin Attempts /\ MaxAccounts \in Nat \ {0} /\ MaxHandlers \in Nat \ {0}

VARIABLES
    account,    \* is the account active, the default, and how far is its verification
    attempt,    \* attempts of verification: of which account, status, past its end
    handlers,   \* handlers that have read, with what they read
    confirmed,  \* accounts the bank has confirmed
    writtenBack \* accounts whose verification an edit has put back to what it had read

accountVars == <<account, attempt, handlers, confirmed, writtenBack>>

NoRow == [active |-> FALSE, default |-> FALSE, verification |-> "NONE"]
Verifications == {"NONE", "UNVERIFIED", "PENDING", "SANDBOX_VERIFIED"}
Operations == {"add", "choose", "delete", "start", "confirm", "late", "expire", "reset", "edit"}

Active == {a \in Accounts : account[a].active}
Defaults == {a \in Active : account[a].default}
Tried(a) == {v \in Attempts : attempt[v].of = a /\ attempt[v].status = "PENDING"}

Begin(h) ==
    /\ Cardinality(handlers) < MaxHandlers
    /\ handlers' = handlers \cup {h}
    /\ h \notin handlers
    /\ UNCHANGED <<account, attempt, writtenBack>>

Done(h) == handlers' = handlers \ {h}

\* The handler fails when its write would leave two active defaults.
Write(rows) ==
    account' = IF Cardinality({a \in Accounts : rows[a].active /\ rows[a].default}) > 1
               THEN account ELSE rows

\* The row of the account is the one read, where what is written depends on it.
Handler(op, a, v, row) == [op |-> op, of |-> a, attempt |-> v, row |-> row]

Unused == [of |-> NoAccount, status |-> "NONE", late |-> FALSE]

-----------------------------------------------------------------------------
(* Adding, choosing, deleting, renaming.                                   *)

\* The limit and the duplicates are looked for before the transaction.
ReadForAdd(a) ==
    /\ account[a] = NoRow /\ Cardinality(Active) < MaxAccounts
    /\ Begin(Handler("add", a, NoAttempt, NoRow)) /\ UNCHANGED confirmed

Add(h, default) ==
    /\ h \in handlers /\ h.op = "add"
    /\ LET new == [active |-> TRUE, default |-> default \/ Active = {},
                   verification |-> "UNVERIFIED"]
           others == [b \in Accounts |-> IF new.default THEN [account[b] EXCEPT !.default = FALSE]
                                         ELSE account[b]]
       IN  Write([others EXCEPT ![h.of] = new])
    /\ Done(h) /\ UNCHANGED <<attempt, confirmed, writtenBack>>

ReadForChoose(a) ==
    /\ a \in Active
    /\ Begin(Handler("choose", a, NoAttempt, account[a])) /\ UNCHANGED confirmed

\* The other defaults are cleared; the account is saved only if it was not default.
Choose(h) ==
    /\ h \in handlers /\ h.op = "choose"
    /\ Write([b \in Accounts |->
                 IF b = h.of
                 THEN IF h.row.default THEN account[b] ELSE [account[b] EXCEPT !.default = TRUE]
                 ELSE [account[b] EXCEPT !.default = @ /\ ~account[b].active]])
    /\ Done(h) /\ UNCHANGED <<attempt, confirmed, writtenBack>>

ReadForDelete(a) ==
    /\ a \in Active
    /\ Begin(Handler("delete", a, NoAttempt, account[a])) /\ UNCHANGED confirmed

Without(a) == [account EXCEPT ![a].active = FALSE, ![a].default = FALSE]

\* The newest of the others takes over.
Delete(h) ==
    /\ h \in handlers /\ h.op = "delete"
    /\ LET others == Active \ {h.of}
       IN  IF h.row.default /\ others # {}
           THEN \E b \in others : Write([Without(h.of) EXCEPT ![b].default = TRUE])
           ELSE Write(Without(h.of))
    /\ Done(h) /\ UNCHANGED <<attempt, confirmed, writtenBack>>

ReadForEdit(a) ==
    /\ a \in Active
    /\ Begin(Handler("edit", a, NoAttempt, account[a])) /\ UNCHANGED confirmed

\* Every column is saved as it was read: a deleted account is active again, and an end of
\* its verification forgotten.
Edit(h) ==
    /\ h \in handlers /\ h.op = "edit"
    /\ Write([account EXCEPT ![h.of] = h.row])
    /\ writtenBack' = IF account'[h.of].verification # account[h.of].verification
                      THEN writtenBack \cup {h.of} ELSE writtenBack
    /\ Done(h) /\ UNCHANGED <<attempt, confirmed>>

-----------------------------------------------------------------------------
(* Verification.                                                           *)

\* The bank is asked before the rows are locked.
ReadForStart(a) ==
    /\ a \in Active
    /\ Begin(Handler("start", a, NoAttempt, NoRow)) /\ UNCHANGED confirmed

Superseded(a) ==
    [v \in Attempts |-> IF v \in Tried(a) THEN [attempt[v] EXCEPT !.status = "EXPIRED"]
                        ELSE attempt[v]]

\* Mutant: the account is verified as soon as the attempt starts.
StartAttempt_AtOnce(h, v, needsCode) ==
    /\ h \in handlers /\ h.op = "start" /\ attempt[v] = Unused
    /\ attempt' = [Superseded(h.of) EXCEPT
                      ![v] = [of |-> h.of, status |-> IF needsCode THEN "PENDING" ELSE "VERIFIED",
                              late |-> FALSE]]
    /\ account' = [account EXCEPT ![h.of].verification = "SANDBOX_VERIFIED"]
    /\ confirmed' = IF needsCode THEN confirmed ELSE confirmed \cup {h.of}
    /\ writtenBack' = writtenBack \ {h.of}
    /\ Done(h)

\* A bank that asks for no code has verified the account at once.
StartAttempt(h, v, needsCode) ==
    /\ h \in handlers /\ h.op = "start" /\ attempt[v] = Unused
    /\ attempt' = [Superseded(h.of) EXCEPT
                      ![v] = [of |-> h.of, status |-> IF needsCode THEN "PENDING" ELSE "VERIFIED",
                              late |-> FALSE]]
    /\ account' = [account EXCEPT
                      ![h.of].verification = IF needsCode THEN "PENDING" ELSE "SANDBOX_VERIFIED"]
    /\ confirmed' = IF needsCode THEN confirmed ELSE confirmed \cup {h.of}
    /\ writtenBack' = writtenBack \ {h.of}
    /\ Done(h)

GrowLate(v) ==
    /\ attempt[v].status = "PENDING" /\ ~attempt[v].late
    /\ attempt' = [attempt EXCEPT ![v].late = TRUE]
    /\ UNCHANGED <<account, handlers, confirmed, writtenBack>>

\* The attempt is read; the bank checks the code of an attempt not past its end.
ReadForConfirm(v) ==
    /\ attempt[v].status = "PENDING" /\ attempt[v].of \in Active
    /\ IF attempt[v].late
       THEN /\ Begin(Handler("late", attempt[v].of, v, NoRow)) /\ UNCHANGED confirmed
       ELSE /\ Begin(Handler("confirm", attempt[v].of, v, NoRow))
            /\ confirmed' = confirmed \cup {attempt[v].of}

MarkVerified(h) ==
    /\ h \in handlers /\ h.op = "confirm"
    /\ attempt' = [attempt EXCEPT ![h.attempt].status = "VERIFIED"]
    /\ account' = [account EXCEPT ![h.of].verification = "SANDBOX_VERIFIED"]
    /\ writtenBack' = writtenBack \ {h.of}
    /\ Done(h) /\ UNCHANGED confirmed

\* The list view expires the attempts past their end.
ReadForExpiry(v) ==
    /\ attempt[v].status = "PENDING" /\ attempt[v].late /\ attempt[v].of \in Active
    /\ Begin(Handler("expire", attempt[v].of, v, account[attempt[v].of])) /\ UNCHANGED confirmed

\* Both save the attempt; the account is reset after that, always where the user confirmed
\* late, and where the account read was waiting in the list view.
ExpireAttempt(h) ==
    /\ h \in handlers /\ h.op \in {"late", "expire"}
    /\ attempt' = [attempt EXCEPT ![h.attempt].status = "EXPIRED"]
    /\ IF h.op = "late" \/ h.row.verification = "PENDING"
       THEN handlers' = (handlers \ {h}) \cup {Handler("reset", h.of, h.attempt, NoRow)}
       ELSE Done(h)
    /\ UNCHANGED <<account, confirmed, writtenBack>>

ResetAccount(h) ==
    /\ h \in handlers /\ h.op = "reset"
    /\ account' = [account EXCEPT ![h.of].verification = "UNVERIFIED"]
    /\ writtenBack' = writtenBack \ {h.of}
    /\ Done(h) /\ UNCHANGED <<attempt, confirmed>>

-----------------------------------------------------------------------------
AccountsInit ==
    /\ account = [a \in Accounts |-> NoRow]
    /\ attempt = [v \in Attempts |-> Unused]
    /\ handlers = {} /\ confirmed = {} /\ writtenBack = {}

AccountsNext ==
    \/ \E a \in Accounts :
           ReadForAdd(a) \/ ReadForChoose(a) \/ ReadForDelete(a) \/ ReadForEdit(a) \/ ReadForStart(a)
    \/ \E h \in handlers :
           \/ Choose(h) \/ Delete(h) \/ Edit(h)
           \/ MarkVerified(h) \/ ExpireAttempt(h) \/ ResetAccount(h)
           \/ \E default \in BOOLEAN : Add(h, default)
           \/ \E v \in Attempts, needsCode \in BOOLEAN : StartAttempt(h, v, needsCode)
    \/ \E v \in Attempts : GrowLate(v) \/ ReadForConfirm(v) \/ ReadForExpiry(v)

AccountsSpec == AccountsInit /\ [][AccountsNext]_accountVars

-----------------------------------------------------------------------------
AccountsTypeOK ==
    /\ account \in [Accounts -> [active : BOOLEAN, default : BOOLEAN,
                                 verification : Verifications]]
    /\ attempt \in [Attempts -> [of : Accounts \cup {NoAccount}, late : BOOLEAN,
                                 status : {"NONE", "PENDING", "VERIFIED", "EXPIRED"}]]
    /\ \A h \in handlers : h.op \in Operations /\ h.of \in Accounts
    /\ Cardinality(handlers) <= MaxHandlers
    /\ confirmed \subseteq Accounts /\ writtenBack \subseteq Accounts

\* An account counts as verified only if the bank confirmed it, whichever of the
\* attempts was superseded, late or expired meanwhile.
VerifiedWasConfirmed ==
    \A a \in Accounts : account[a].verification = "SANDBOX_VERIFIED" => a \in confirmed

\* An account waits for a verification only while somebody can confirm or expire it, or a
\* request has expired it and has yet to reset the account; or an edit that overlapped has
\* put the waiting back.
Resetting == {h.of : h \in {g \in handlers : g.op = "reset"}}
PendingCanEnd ==
    \A a \in Accounts \ (Resetting \cup writtenBack) :
        account[a].verification = "PENDING" => Tried(a) # {}

\* Starting again takes the place of the attempts before: one at most can be confirmed.
OneAttempt == \A a \in Accounts : Cardinality(Tried(a)) <= 1

\* The limit is read before the transaction, and an edit may bring back what was deleted
\* meanwhile: the limit is passed by less than the number of handlers at the same time.
AccountsBounded == Cardinality(Active) <= MaxAccounts + MaxHandlers - 1

\* What the database holds of a user's bank accounts stays sound, although every handler
\* writes from what it read before, an edit the whole row: verified means confirmed by the
\* bank, a verification under way can end and is the only one of its account, and the limit
\* is passed by no more than the requests under way.
AccountsSafe ==
    /\ AccountsTypeOK
    /\ VerifiedWasConfirmed
    /\ PendingCanEnd
    /\ OneAttempt
    /\ AccountsBounded
=============================================================================
