------------------------------ MODULE Passwords ------------------------------
(***************************************************************************)
(* The account of one user: the row of the user, the codes mailed to reset *)
(* a forgotten password, and the refresh tokens of the devices signed in.  *)
(* apps/authentication/views.py, serializers.py and models.py.             *)
(*                                                                         *)
(* Only the rotation of a refresh token runs in a transaction with a lock. *)
(* Every other handler reads, and writes in statements that commit alone:  *)
(* each statement is a step, and a process may die between any two.        *)
(* Passwords are numbered in the order they are chosen.                    *)
(***************************************************************************)
EXTENDS Integers, Sequences, FiniteSets

CONSTANTS
    SignIns,        \* requests in flight
    MaxGuesses,     \* PASSWORD_RESET_OTP_MAX_ATTEMPTS
    MaxCodes,       \* bound: codes ever mailed
    MaxTokens,      \* bound: refresh tokens ever issued
    MaxPasswords    \* bound: passwords ever chosen

ASSUME PasswordsAssumption ==
    /\ IsFiniteSet(SignIns) /\ MaxGuesses \in Nat \ {0}
    /\ MaxCodes \in Nat /\ MaxTokens \in Nat /\ MaxPasswords \in Nat

VARIABLES
    userRow,    \* password and is_active of the user
    chosen,     \* the password chosen last
    codes,      \* PasswordResetOTP, oldest first
    tokens,     \* OutstandingToken: blacklisted, and the token it was exchanged for
    signIn,     \* for each request, what it does next and what it has read
    swept,      \* tokens listed by the resets that ended
    overwritten \* a row read before another write was saved whole

passwordVars == <<userRow, chosen, codes, tokens, signIn, swept, overwritten>>

NoSignIn == [op |-> "idle", of |-> 0, tries |-> 0, row |-> [password |-> 0, active |-> TRUE], left |-> {}]

Steps == {"idle", "forgot", "verify", "reset", "mark", "list", "end", "change", "save",
          "status", "login", "refresh"}

InFlight(op) == {x \in SignIns : signIn[x].op = op}

\* A request that has read the row of the user; what it read is kept if it saves the row.
Reads(x, op) ==
    /\ signIn[x].op = "idle"
    /\ signIn' = [signIn EXCEPT ![x].op = op, ![x].row = IF op \in {"save", "status"} THEN userRow ELSE @]

Continues(x, op) == signIn' = [signIn EXCEPT ![x].op = op]

Ends(x) == signIn' = [signIn EXCEPT ![x] = NoSignIn]

-----------------------------------------------------------------------------
(* Forgotten passwords.                                                    *)

OpenCodes == {i \in DOMAIN codes : codes[i].open}

\* The code that counts: the newest that is not used.
LatestCode == CHOOSE i \in OpenCodes : \A j \in OpenCodes : j <= i

\* get_user: nothing is sent to a user who is not active.
CanBeMailed == userRow.active

\* Asking for a code uses up those before.
MarkOlder(x) ==
    /\ CanBeMailed /\ Len(codes) + Cardinality(InFlight("forgot")) < MaxCodes
    /\ Reads(x, "forgot")
    /\ codes' = [i \in DOMAIN codes |-> [codes[i] EXCEPT !.open = FALSE]]
    /\ UNCHANGED <<userRow, chosen, tokens, swept, overwritten>>

CreateCode(x) ==
    /\ signIn[x].op = "forgot"
    /\ codes' = Append(codes, [open |-> TRUE, late |-> FALSE, verified |-> FALSE, tries |-> 0])
    /\ Ends(x) /\ UNCHANGED <<userRow, chosen, tokens, swept, overwritten>>

CodeExpires(i) ==
    /\ i \in OpenCodes /\ ~codes[i].late
    /\ codes' = [codes EXCEPT ![i].late = TRUE]
    /\ UNCHANGED <<userRow, chosen, tokens, signIn, swept, overwritten>>

Acceptable(code) == ~code.late /\ code.tries < MaxGuesses

ReadCode(x, op) ==
    /\ signIn[x].op = "idle" /\ userRow.active /\ OpenCodes # {}
    /\ Acceptable(codes[LatestCode])
    /\ signIn' = [signIn EXCEPT ![x].op = op, ![x].of = LatestCode,
                                ![x].tries = codes[LatestCode].tries]
    /\ UNCHANGED <<userRow, chosen, codes, tokens, swept, overwritten>>

ReadForVerify(x) == ReadCode(x, "verify")

ReadForReset(x) == OpenCodes # {} /\ codes[LatestCode].verified /\ ReadCode(x, "reset")

\* A wrong code: the number of tries read is saved with one more.
WrongCode(x) ==
    /\ signIn[x].op \in {"verify", "reset"}
    /\ codes' = [codes EXCEPT ![signIn[x].of].tries = signIn[x].tries + 1]
    /\ Ends(x) /\ UNCHANGED <<userRow, chosen, tokens, swept, overwritten>>

MarkVerified(x) ==
    /\ signIn[x].op = "verify"
    /\ codes' = [codes EXCEPT ![signIn[x].of].verified = TRUE]
    /\ Ends(x) /\ UNCHANGED <<userRow, chosen, tokens, swept, overwritten>>

NewPassword ==
    /\ chosen < MaxPasswords
    /\ chosen' = chosen + 1 /\ userRow' = [userRow EXCEPT !.password = chosen + 1]

\* The reset goes on in the order of the code: password, code, tokens.
SetPassword(x) ==
    /\ signIn[x].op = "reset" /\ NewPassword
    /\ Continues(x, "mark") /\ UNCHANGED <<codes, tokens, swept, overwritten>>

MarkUsed(x) ==
    /\ signIn[x].op = "mark"
    /\ codes' = [codes EXCEPT ![signIn[x].of].open = FALSE]
    /\ Continues(x, "list") /\ UNCHANGED <<userRow, chosen, tokens, swept, overwritten>>

ListTokens(x) ==
    /\ signIn[x].op = "list"
    /\ signIn' = [signIn EXCEPT ![x].op = "end", ![x].of = Len(tokens),
                                ![x].left = DOMAIN tokens]
    /\ UNCHANGED <<userRow, chosen, codes, tokens, swept, overwritten>>

\* The insert waits for a refresh that has locked the token.
Locked(t) == \E y \in InFlight("refresh") : signIn[y].of = t

Blacklisted(t) == [tokens EXCEPT ![t].ended = TRUE]

EndToken(x, t) ==
    /\ signIn[x].op = "end" /\ t \in signIn[x].left /\ ~Locked(t)
    /\ \A u \in signIn[x].left : t <= u
    /\ tokens' = Blacklisted(t)
    /\ signIn' = [signIn EXCEPT ![x].left = @ \ {t}]
    /\ UNCHANGED <<userRow, chosen, codes, swept, overwritten>>

FinishReset(x) ==
    /\ signIn[x].op = "end" /\ signIn[x].left = {}
    /\ swept' = swept \cup 1..signIn[x].of
    /\ Ends(x) /\ UNCHANGED <<userRow, chosen, codes, tokens, overwritten>>

-----------------------------------------------------------------------------
(* Writers of the row.                                                     *)

ReadForChange(x) ==
    /\ userRow.active /\ Reads(x, "change")
    /\ UNCHANGED <<userRow, chosen, codes, tokens, swept, overwritten>>

\* Only the password is saved; the tokens stay.
ChangePassword(x) ==
    /\ signIn[x].op = "change" /\ NewPassword
    /\ Ends(x) /\ UNCHANGED <<codes, tokens, swept, overwritten>>

ReadForProfile(x) ==
    /\ userRow.active /\ Reads(x, "save")
    /\ UNCHANGED <<userRow, chosen, codes, tokens, swept, overwritten>>

\* A profile is saved with every column of the row as it was read.
SaveProfile(x) ==
    /\ signIn[x].op = "save"
    /\ userRow' = signIn[x].row
    /\ overwritten' = (overwritten \/ signIn[x].row # userRow)
    /\ Ends(x) /\ UNCHANGED <<chosen, codes, tokens, swept>>

ReadForStatus(x) ==
    Reads(x, "status") /\ UNCHANGED <<userRow, chosen, codes, tokens, swept, overwritten>>

\* The admin's change saves is_active alone.
SetActive(x, active) ==
    /\ signIn[x].op = "status"
    /\ userRow' = [userRow EXCEPT !.active = active]
    /\ Ends(x) /\ UNCHANGED <<chosen, codes, tokens, swept, overwritten>>

-----------------------------------------------------------------------------
(* Signing in and out.                                                     *)

\* The password is checked against the row read.
ReadForLogin(x) ==
    /\ userRow.active /\ Reads(x, "login")
    /\ UNCHANGED <<userRow, chosen, codes, tokens, swept, overwritten>>

MayIssue == Len(tokens) < MaxTokens

IssueToken(x) ==
    /\ signIn[x].op = "login" /\ MayIssue
    /\ tokens' = Append(tokens, [ended |-> FALSE, from |-> 0])
    /\ Ends(x) /\ UNCHANGED <<userRow, chosen, codes, swept, overwritten>>

\* Mutant: the blacklist is looked up without the lock.
LockForRefresh_NoLock(x, t) ==
    /\ signIn[x].op = "idle" /\ ~tokens[t].ended
    /\ signIn' = [signIn EXCEPT ![x].op = "refresh", ![x].of = t]
    /\ UNCHANGED <<userRow, chosen, codes, tokens, swept, overwritten>>

\* The token's row is locked before the blacklist is looked up.
LockForRefresh(x, t) ==
    /\ signIn[x].op = "idle" /\ ~Locked(t) /\ ~tokens[t].ended
    /\ signIn' = [signIn EXCEPT ![x].op = "refresh", ![x].of = t]
    /\ UNCHANGED <<userRow, chosen, codes, tokens, swept, overwritten>>

Rotate(x) ==
    /\ signIn[x].op = "refresh" /\ MayIssue
    /\ tokens' = Append(Blacklisted(signIn[x].of), [ended |-> FALSE, from |-> signIn[x].of])
    /\ Ends(x) /\ UNCHANGED <<userRow, chosen, codes, swept, overwritten>>

Logout(t) ==
    /\ ~tokens[t].ended /\ ~Locked(t)
    /\ tokens' = Blacklisted(t)
    /\ UNCHANGED <<userRow, chosen, codes, signIn, swept, overwritten>>

\* A process dies, or the request fails; a lock goes with it.
GiveUp(x) ==
    /\ signIn[x].op # "idle" /\ Ends(x)
    /\ UNCHANGED <<userRow, chosen, codes, tokens, swept, overwritten>>

-----------------------------------------------------------------------------
PasswordsInit ==
    /\ userRow = [password |-> 0, active |-> TRUE] /\ chosen = 0
    /\ codes = <<>> /\ tokens = <<>> /\ swept = {} /\ overwritten = FALSE
    /\ signIn = [x \in SignIns |-> NoSignIn]

PasswordsNext ==
    \/ \E x \in SignIns :
           \/ MarkOlder(x) \/ CreateCode(x) \/ ReadForVerify(x) \/ ReadForReset(x)
           \/ WrongCode(x) \/ MarkVerified(x) \/ SetPassword(x) \/ MarkUsed(x)
           \/ ListTokens(x) \/ FinishReset(x) \/ ReadForChange(x) \/ ChangePassword(x)
           \/ ReadForProfile(x) \/ SaveProfile(x) \/ ReadForStatus(x) \/ ReadForLogin(x)
           \/ IssueToken(x) \/ Rotate(x) \/ GiveUp(x)
           \/ \E t \in DOMAIN tokens : EndToken(x, t) \/ LockForRefresh(x, t)
           \/ \E active \in BOOLEAN : SetActive(x, active)
    \/ \E i \in DOMAIN codes : CodeExpires(i)
    \/ \E t \in DOMAIN tokens : Logout(t)

PasswordsSpec == PasswordsInit /\ [][PasswordsNext]_passwordVars

-----------------------------------------------------------------------------
\* No more tries are counted for a code than are allowed, also when two requests
\* count on the same reading; the rest is the shape of the state.
PasswordsTypeOK ==
    /\ userRow \in [password : 0..MaxPasswords, active : BOOLEAN]
    /\ chosen \in 0..MaxPasswords
    /\ \A i \in DOMAIN codes : codes[i].tries \in 0..MaxGuesses
    /\ \A t \in DOMAIN tokens : tokens[t].from \in 0..(t - 1)
    /\ \A x \in SignIns : signIn[x].op \in Steps /\ signIn[x].left \subseteq DOMAIN tokens
    /\ swept \subseteq DOMAIN tokens

\* A refresh token is exchanged for at most one other, however many requests present
\* it at the same time, and whether or not a logout or a reset blacklists it.
RotatedOnce ==
    \A t, u \in DOMAIN tokens : tokens[t].from # 0 /\ tokens[t].from = tokens[u].from => t = u

\* Requests for a code at the same time may leave more than one unused, and the older
\* ones come back when the newest is used: never more than there were requests.
FewOpenCodes == Cardinality(OpenCodes) <= Cardinality(SignIns)

\* The password that works is the one chosen last, unless a profile read before was
\* saved after: neither the change of the status nor a second reset undoes it.
PasswordIsLast == overwritten \/ userRow.password = chosen

\* A reset that came to its end has ended every token it found, also those exchanged
\* or logged out while it went through them.
SweptAreEnded == \A t \in swept : tokens[t].ended

\* The password chosen last is the one that works, a token is exchanged once, a reset
\* ends the tokens it found, and codes and tries stay few, in every order of the
\* statements of concurrent requests and after crashes between any two.
PasswordsSafe ==
    /\ PasswordsTypeOK
    /\ RotatedOnce
    /\ FewOpenCodes
    /\ PasswordIsLast
    /\ SweptAreEnded
=============================================================================
