----------------------------- MODULE MCServices -----------------------------
(***************************************************************************)
(* Small services that share no state, checked in one run: `active` tells  *)
(* which of them moves, so that their states add up instead of             *)
(* multiplying.  And statements of the repository that some of them break. *)
(***************************************************************************)
EXTENDS BankAccounts, WithdrawEntry, Complaints, Vouchers, Reviews, ChatMessages, TLC

CONSTANTS p1, p2, k1, k2

VARIABLE active

Services == {"accounts", "entry", "complaints", "vouchers", "reviews", "chat"}

\* Which complaints are explored: all outcomes for the first session, the customer's
\* for the second, and what an open one about the whole booking stops.
FewComplaints ==
    \A r \in Reporters :
        /\ complaint[<<"WORKER", p2>>] = "NONE"
        /\ complaint[<<"CUSTOMER", p2>>] # "IN_REVIEW"
        /\ complaint[<<"CUSTOMER", Whole>>] \notin {"IN_REVIEW", "REJECTED"}

\* The second chat is only written to, once and without a key.
FewMessages ==
    /\ reading[k2] = -1 /\ Len(messages[k2]) <= 1 /\ job[k2] # "ENDED"
    /\ \A x \in sends : x.chat = k2 => x.key = NoChatKey

\* One of the accounts is verified, and one at a time is deleted.
FewAccounts ==
    /\ \A v, w \in Attempts :
           attempt[v] # Unused /\ attempt[w] # Unused => attempt[v].of = attempt[w].of
    /\ Cardinality({a \in Accounts \ Active : account[a] # NoRow}) <= 1

\* One edit of the profile at a time, while no image is stored.
FewEdits == profileEdits # {} => Cardinality(profileEdits) <= 1 /\ stored = {}

Explored == FewComplaints /\ FewMessages /\ FewAccounts /\ FewEdits

\* Only one service moves, so one permutation may swap elements of all of them: of
\* Accounts, Requests, customers and sessions, or of Attempts, keys, bookings and images.
Swap(S) == CHOOSE f \in Permutations(S) : \A x \in S : f[f[x]] = x /\ \E y \in S : f[y] # y
Moved(f) == \E x \in DOMAIN f : f[x] # x
Interchangeable ==
    {(IF Moved(f) THEN f @@ Swap(Accounts) @@ Swap(Voucherees) @@ Swap(Sessions) ELSE f)
         @@ (IF Moved(g) THEN g @@ Swap(Attempts) @@ Swap(Holders) @@ Swap(ReviewImages) ELSE g) :
     f \in Permutations(Requests), g \in Permutations(RequestKeys)}

-----------------------------------------------------------------------------
\* The others stay in one of their initial states.
Init ==
    /\ active \in Services
    /\ AccountsInit /\ EntryInit /\ ComplaintsInit /\ VouchersInit /\ ReviewsInit /\ ChatInit
    /\ active # "complaints" => inCash
    /\ active # "vouchers" =>
           \A v \in Vouchers : voucherRow[v].limit = NoLimit /\ voucherRow[v].kind = "PUBLIC"

Next ==
    /\ UNCHANGED active
    /\ \/ /\ active = "accounts" /\ AccountsNext
          /\ UNCHANGED <<entryVars, complaintVars, voucherVars, reviewVars, chatVars>>
       \/ /\ active = "entry" /\ EntryNext
          /\ UNCHANGED <<accountVars, complaintVars, voucherVars, reviewVars, chatVars>>
       \/ /\ active = "complaints" /\ ComplaintsNext
          /\ UNCHANGED <<accountVars, entryVars, voucherVars, reviewVars, chatVars>>
       \/ /\ active = "vouchers" /\ VouchersNext
          /\ UNCHANGED <<accountVars, entryVars, complaintVars, reviewVars, chatVars>>
       \/ /\ active = "reviews" /\ ReviewsNext
          /\ UNCHANGED <<accountVars, entryVars, complaintVars, voucherVars, chatVars>>
       \/ /\ active = "chat" /\ ChatNext
          /\ UNCHANGED <<accountVars, entryVars, complaintVars, voucherVars, reviewVars>>

Spec == Init /\ [][Next]_<<active, accountVars, entryVars, complaintVars, voucherVars, reviewVars, chatVars>>

-----------------------------------------------------------------------------
\* "Two requests at the same time with the same right code: only one goes through"
\* (comment on the verification of the code).  The second may find the code mailed
\* meanwhile, compare with the one it has read, and use the new one up.
OneWithdrawalPerCode ==
    \A c \in 1..MaxSends : \A k, l \in RequestKeys :
        made[k][c] > 0 /\ made[l][c] > 0 => k = l

\* "This session has been refunded in full already" (the refusal of an outcome): the
\* refund of a session that is missed or cancelled later does not look for it.
SessionRefundedOnce == \A s \in Parts : NetRefunded(s) <= Share
=============================================================================
