-------------------------- MODULE Platform_proofs ---------------------------
(***************************************************************************)
(* Proofs about the accounts, profiles, notices, addresses and catalogue,  *)
(* and about the assistant: what the database and the caches hold when     *)
(* requests cross, of each component by itself.                            *)
(*                                                                         *)
(* Passwords: PasswordInvariant says of every request what of its reading  *)
(*   still holds when it writes, and that the newest code is the open one. *)
(* Profiles: a clerk writes back the row he has read (ProfileInvariant).   *)
(* Notifications: NoticeInvariant follows a row from its request to the    *)
(*   task that pushes it, and counts the tries against what devices got.   *)
(* Reminders: the runs that have listed a time bound its reminders.        *)
(* CatalogueCache: an entry of the current version is what is committed,   *)
(*   unless a save that will raise the version is under way (WillBump).    *)
(* Catalogue: the edit at work would commit one primary image and files    *)
(*   that are there; icons are files of one edit each.                     *)
(* Addresses: a row is held by one transaction, which leaves the place as  *)
(*   it is or moves it (RowFits); its commit leaves a default (RequestFits)*)
(*   and moves no place a booking was made to meanwhile (MovesAreSeen).    *)
(* Assistant: the turns, the bookings and the tool calls have an invariant *)
(*   each; a step of one leaves the others alone (the Frame lemmas).       *)
(*   Each call deletes a draft of its own before it acts (CallSound).      *)
(***************************************************************************)
EXTENDS Passwords, Profiles, Notifications, Reminders, CatalogueCache, Catalogue, Addresses, Assistant,
        FiniteSetTheorems, SequenceTheorems, WellFoundedInduction, TLAPS

-----------------------------------------------------------------------------
(* Numbers and sets. *)

\* Of natural numbers there is a least.
LEMMA LeastExists ==
    ASSUME NEW S, S \subseteq Nat, S # {}
    PROVE \E m \in S : \A n \in S : m <= n
<1> DEFINE R == {p \in Nat \X Nat : p[1] < p[2]}
<1>1. IsWellFoundedOn(R, Nat)
  BY NatLessThanWellFounded DEF OpToRel
<1>2. PICK m \in S : \A y \in S : ~(<<y, m>> \in R)
  BY <1>1, WFMin
<1>3. ASSUME NEW n \in S PROVE m <= n
  <2>1. m \in Nat /\ n \in Nat /\ ~(<<n, m>> \in R)
    BY <1>2
  <2>2. <<n, m>> \in Nat \X Nat /\ <<n, m>>[1] = n /\ <<n, m>>[2] = m
    BY <2>1
  <2>3. ~(n < m)
    BY <2>1, <2>2
  <2> QED BY <2>1, <2>3
<1> QED BY <1>3

LEMMA GreatestExists ==
    ASSUME NEW N \in Nat, NEW S, S \subseteq 1..N, S # {}
    PROVE \E m \in S : \A n \in S : n <= m
<1>1. PICK T : T = {N - x : x \in S}
  OBVIOUS
<1>2. \A x \in S : x \in 1..N /\ N - x \in Nat
  OBVIOUS
<1>3. T \subseteq Nat
  BY <1>1, <1>2
<1>4. T # {}
  BY <1>1
<1>5. PICK k \in T : \A n \in T : k <= n
  BY <1>3, <1>4, LeastExists
<1>6. PICK m \in S : k = N - m
  BY <1>1
<1>7. ASSUME NEW n \in S PROVE n <= m
  <2>1. N - n \in T
    BY <1>1
  <2> QED BY <1>2, <1>5, <1>6, <2>1
<1> QED BY <1>7

\* At most one, said without counting.
LEMMA AtMostOne ==
    ASSUME NEW S, IsFiniteSet(S)
    PROVE  Cardinality(S) <= 1 <=> \A x, y \in S : x = y
<1>1. PICK n \in Nat : n = Cardinality(S)
  BY FS_CardinalityType
<1>2. ASSUME \A x, y \in S : x = y PROVE n <= 1
  <2>1. CASE S = {}
    BY <1>1, <2>1, FS_EmptySet
  <2>2. CASE S # {}
    <3>1. PICK x \in S : S = {x}
      BY <1>2, <2>2
    <3>2. Cardinality({x}) = 1
      BY FS_Singleton
    <3> QED BY <1>1, <3>1, <3>2
  <2> QED BY <2>1, <2>2
<1>3. ASSUME n <= 1, NEW x \in S, NEW y \in S PROVE x = y
  <2>1. n # 0
    BY <1>1, FS_EmptySet
  <2>2. n = 1
    BY <1>3, <2>1
  <2>3. \E z : S = {z}
    BY <1>1, <2>2, FS_Singleton
  <2> QED BY <2>3
<1> QED BY <1>1, <1>2, <1>3

\* A set whose elements are all the same has one at most.
LEMMA SameIsOne ==
    ASSUME NEW S, \A x, y \in S : x = y
    PROVE  Cardinality(S) <= 1
<1>1. CASE S = {}
  BY <1>1, FS_EmptySet
<1>2. CASE S # {}
  <2>1. PICK x \in S : S = {x}
    BY <1>2
  <2>2. Cardinality({x}) = 1
    BY FS_Singleton
  <2> QED BY <2>1, <2>2
<1> QED BY <1>1, <1>2

-----------------------------------------------------------------------------
(* Passwords, codes and tokens. *)

-----------------------------------------------------------------------------
UserRows == [password : 0..MaxPasswords, active : BOOLEAN]
CodeRows == [open : BOOLEAN, late : BOOLEAN, verified : BOOLEAN, tries : 0..MaxGuesses]
TokenRows == [ended : BOOLEAN, from : Nat]
SignInRows == [op : Steps, of : Nat, tries : 0..MaxGuesses, row : UserRows, left : SUBSET Nat]

PasswordShape ==
    /\ userRow \in UserRows /\ chosen \in 0..MaxPasswords /\ overwritten \in BOOLEAN
    /\ codes \in Seq(CodeRows) /\ tokens \in Seq(TokenRows)
    /\ signIn \in [SignIns -> SignInRows]
    /\ swept \subseteq DOMAIN tokens

\* What a request has read still fits the tables: its code is there and had a try left; a
\* reset has ended what it went through; a refresh holds a token that counts.
SignInFits(s) ==
    /\ s.op \in {"verify", "reset", "mark"} => s.of \in DOMAIN codes
    /\ s.op \in {"verify", "reset"} => s.tries < MaxGuesses
    /\ s.left \subseteq DOMAIN tokens
    /\ s.op = "end" => /\ s.of \in 0..Len(tokens)
                       /\ \A t \in 1..s.of : t \in s.left \/ tokens[t].ended
    /\ s.op = "refresh" => s.of \in DOMAIN tokens /\ ~tokens[s.of].ended

\* A token is locked by one refresh.
OneHolder ==
    \A x, y \in SignIns :
        signIn[x].op = "refresh" /\ signIn[y].op = "refresh" /\ signIn[x].of = signIn[y].of => x = y

\* A token that was exchanged is older than its successor and has ended.
ExchangedHasEnded ==
    \A t \in DOMAIN tokens :
        /\ tokens[t].from \in 0..(t - 1)
        /\ tokens[t].from # 0 => tokens[tokens[t].from].ended

\* A request that has marked the older codes will open one more at most.
OpenOrComing == Cardinality(OpenCodes) + Cardinality(InFlight("forgot")) <= Cardinality(SignIns)

PasswordInvariant ==
    /\ PasswordShape
    /\ \A x \in SignIns : SignInFits(signIn[x])
    /\ OneHolder
    /\ ExchangedHasEnded
    /\ RotatedOnce
    /\ OpenOrComing
    /\ PasswordIsLast
    /\ SweptAreEnded

-----------------------------------------------------------------------------
LEMMA CodesAreFinite ==
    ASSUME codes \in Seq(CodeRows)
    PROVE  /\ IsFiniteSet(OpenCodes) /\ Cardinality(OpenCodes) \in Nat /\ OpenCodes \subseteq 1..Len(codes)
           /\ \A op : IsFiniteSet(InFlight(op)) /\ Cardinality(InFlight(op)) \in Nat /\ InFlight(op) \subseteq SignIns
           /\ IsFiniteSet(SignIns) /\ Cardinality(SignIns) \in Nat
<1>1. OpenCodes \subseteq 1..Len(codes) /\ Len(codes) \in Nat
  BY DEF OpenCodes
<1>2. IsFiniteSet(OpenCodes)
  <2>1. 1 \in Int /\ Len(codes) \in Int
    BY <1>1
  <2>2. IsFiniteSet(1..Len(codes))
    BY <2>1, FS_Interval
  <2> QED BY <1>1, <2>2, FS_Subset
<1>3. \A op : InFlight(op) \subseteq SignIns
  BY DEF InFlight
<1>4. \A op : IsFiniteSet(InFlight(op))
  BY <1>3, FS_Subset, PasswordsAssumption
<1> QED BY <1>1, <1>2, <1>3, <1>4, FS_CardinalityType, PasswordsAssumption

\* Codes that are used up and requests that end make room only.
LEMMA FewerOpen ==
    ASSUME codes \in Seq(CodeRows), codes' \in Seq(CodeRows), OpenOrComing,
           OpenCodes' \subseteq OpenCodes, InFlight("forgot")' \subseteq InFlight("forgot")
    PROVE  OpenOrComing'
<1>1. Cardinality(OpenCodes') <= Cardinality(OpenCodes)
  BY CodesAreFinite, FS_Subset
<1>2. Cardinality(InFlight("forgot")') <= Cardinality(InFlight("forgot"))
  <2>1. IsFiniteSet(InFlight("forgot"))
    BY CodesAreFinite
  <2> QED BY <2>1, FS_Subset
<1>3. IsFiniteSet(OpenCodes') /\ IsFiniteSet(InFlight("forgot")')
  BY CodesAreFinite, FS_Subset
<1>4. /\ Cardinality(OpenCodes') \in Nat /\ Cardinality(InFlight("forgot")') \in Nat
      /\ Cardinality(OpenCodes) \in Nat /\ Cardinality(InFlight("forgot")) \in Nat
      /\ Cardinality(SignIns) \in Nat
  BY <1>3, CodesAreFinite, FS_CardinalityType
<1> QED BY <1>1, <1>2, <1>4 DEF OpenOrComing

\* The code that counts is one of the codes that are open.
LEMMA LatestIsOpen ==
    ASSUME codes \in Seq(CodeRows), OpenCodes # {}
    PROVE  LatestCode \in OpenCodes /\ LatestCode \in DOMAIN codes
<1>1. OpenCodes \subseteq 1..Len(codes) /\ Len(codes) \in Nat
  BY DEF OpenCodes
<1>2. \E i \in OpenCodes : \A j \in OpenCodes : j <= i
  BY <1>1, GreatestExists
<1> QED BY <1>2 DEF LatestCode, OpenCodes

-----------------------------------------------------------------------------
\* The tokens stay: one request goes on, and codes are added or changed.
LEMMA KeepsWithTokens ==
    ASSUME PasswordInvariant, NEW x \in SignIns, NEW s \in SignInRows,
           signIn' \in [SignIns -> SignInRows], signIn'[x] = s,
           \A y \in SignIns \ {x} : signIn'[y] = signIn[y],
           SignInFits(s)',
           s.op = "refresh" => ~Locked(s.of),
           codes' \in Seq(CodeRows), Len(codes) <= Len(codes'), OpenOrComing',
           userRow' \in UserRows, chosen' \in 0..MaxPasswords, overwritten' \in BOOLEAN, PasswordIsLast',
           UNCHANGED <<tokens, swept>>
    PROVE  PasswordInvariant'
<1> USE DEF PasswordInvariant
<1>1. PasswordShape'
  BY DEF PasswordShape
<1>2. \A y \in SignIns : SignInFits(signIn[y])'
  <2>1. DOMAIN codes \subseteq DOMAIN codes'
    BY DEF PasswordShape
  <2>2. \A y \in SignIns \ {x} : SignInFits(signIn[y])'
    BY <2>1 DEF SignInFits
  <2> QED BY <2>2
<1>3. OneHolder'
  BY DEF OneHolder, Locked, InFlight
<1>4. ExchangedHasEnded' /\ RotatedOnce' /\ SweptAreEnded'
  BY DEF ExchangedHasEnded, RotatedOnce, SweptAreEnded
<1> QED BY <1>1, <1>2, <1>3, <1>4

\* A request reads or goes on: the tables stay.
LEMMA KeepsWithRead ==
    ASSUME PasswordInvariant, NEW x \in SignIns, NEW s \in SignInRows,
           signIn' \in [SignIns -> SignInRows], signIn'[x] = s,
           \A y \in SignIns \ {x} : signIn'[y] = signIn[y],
           SignInFits(s), s.op # "forgot", s.op = "refresh" => ~Locked(s.of),
           UNCHANGED <<userRow, chosen, codes, tokens, swept, overwritten>>
    PROVE  PasswordInvariant'
<1>1. SignInFits(s)'
  BY DEF SignInFits
<1>2. OpenCodes' = OpenCodes /\ InFlight("forgot")' \subseteq InFlight("forgot")
  BY DEF OpenCodes, InFlight
<1>3. codes \in Seq(CodeRows) /\ codes' = codes /\ OpenOrComing
  BY DEF PasswordInvariant, PasswordShape
<1>4. OpenOrComing'
  BY <1>2, <1>3, FewerOpen
<1>5. userRow' \in UserRows /\ chosen' \in 0..MaxPasswords /\ overwritten' \in BOOLEAN /\ PasswordIsLast'
  BY DEF PasswordInvariant, PasswordShape, PasswordIsLast
<1>6. Len(codes) <= Len(codes') /\ codes' \in Seq(CodeRows)
  BY <1>3
<1> QED BY <1>1, <1>4, <1>5, <1>6, KeepsWithTokens

\* How a request that has read the row of the user, goes on, or ends.
LEMMA Readings ==
    ASSUME PasswordInvariant, NEW x \in SignIns, NEW op \in Steps
    PROVE  /\ Reads(x, op) =>
                 \E s \in SignInRows : /\ signIn' \in [SignIns -> SignInRows] /\ signIn'[x] = s
                                       /\ \A y \in SignIns \ {x} : signIn'[y] = signIn[y]
                                       /\ s.op = op /\ s.left = signIn[x].left
           /\ Continues(x, op) =>
                 \E s \in SignInRows : /\ signIn' \in [SignIns -> SignInRows] /\ signIn'[x] = s
                                       /\ \A y \in SignIns \ {x} : signIn'[y] = signIn[y]
                                       /\ s.op = op /\ s.left = signIn[x].left /\ s.of = signIn[x].of
           /\ Ends(x) => \E s \in SignInRows :
                                       /\ signIn' \in [SignIns -> SignInRows] /\ signIn'[x] = s
                                       /\ \A y \in SignIns \ {x} : signIn'[y] = signIn[y]
                                       /\ s.op = "idle" /\ s.left = {}
<1>1. /\ signIn \in [SignIns -> SignInRows] /\ userRow \in UserRows /\ signIn[x] \in SignInRows
  BY DEF PasswordInvariant, PasswordShape
<1>2. PICK r \in SignInRows : r = signIn[x]
  BY <1>1
<1>3. ASSUME Reads(x, op)
      PROVE \E s \in SignInRows : /\ signIn' \in [SignIns -> SignInRows] /\ signIn'[x] = s
                                  /\ \A y \in SignIns \ {x} : signIn'[y] = signIn[y]
                                  /\ s.op = op /\ s.left = signIn[x].left
  <2>1. PICK row \in UserRows : row = IF op \in {"save", "status"} THEN userRow ELSE r.row
    BY <1>1, <1>2 DEF SignInRows
  <2>2. PICK s \in SignInRows : s = [op |-> op, of |-> r.of, tries |-> r.tries, row |-> row, left |-> r.left]
    BY <1>2 DEF SignInRows
  <2>3. signIn'[x] = s /\ \A y \in SignIns \ {x} : signIn'[y] = signIn[y]
    BY <1>1, <1>2, <1>3, <2>1, <2>2 DEF Reads, SignInRows
  <2>4. signIn' \in [SignIns -> SignInRows]
    BY <1>1, <1>3, <2>3 DEF Reads
  <2> QED BY <1>2, <2>2, <2>3, <2>4
<1>4. ASSUME Continues(x, op)
      PROVE \E s \in SignInRows : /\ signIn' \in [SignIns -> SignInRows] /\ signIn'[x] = s
                                  /\ \A y \in SignIns \ {x} : signIn'[y] = signIn[y]
                                  /\ s.op = op /\ s.left = signIn[x].left /\ s.of = signIn[x].of
  <2>1. PICK s \in SignInRows : s = [op |-> op, of |-> r.of, tries |-> r.tries, row |-> r.row, left |-> r.left]
    BY <1>2 DEF SignInRows
  <2>2. signIn'[x] = s /\ \A y \in SignIns \ {x} : signIn'[y] = signIn[y]
    BY <1>1, <1>2, <1>4, <2>1 DEF Continues, SignInRows
  <2>3. signIn' \in [SignIns -> SignInRows]
    BY <1>1, <1>4, <2>2 DEF Continues
  <2> QED BY <1>2, <2>1, <2>2, <2>3
<1>5. ASSUME Ends(x)
      PROVE \E s \in SignInRows : /\ signIn' \in [SignIns -> SignInRows] /\ signIn'[x] = s
                                  /\ \A y \in SignIns \ {x} : signIn'[y] = signIn[y]
                                  /\ s.op = "idle" /\ s.left = {}
  <2>1. [password |-> 0, active |-> TRUE] \in UserRows /\ "idle" \in Steps /\ 0 \in 0..MaxGuesses
    BY PasswordsAssumption DEF UserRows, Steps
  <2>2. PICK s \in SignInRows : s = NoSignIn
    BY <2>1 DEF SignInRows, NoSignIn
  <2>3. signIn'[x] = s /\ \A y \in SignIns \ {x} : signIn'[y] = signIn[y]
    BY <1>1, <1>5, <2>2 DEF Ends
  <2>4. signIn' \in [SignIns -> SignInRows]
    BY <1>1, <1>5, <2>2 DEF Ends
  <2> QED BY <2>2, <2>3, <2>4 DEF NoSignIn
<1> QED BY <1>3, <1>4, <1>5
-----------------------------------------------------------------------------
\* The steps of a request that leave every table.
LEMMA KeepsWithPlainRead ==
    ASSUME PasswordInvariant, NEW x \in SignIns, NEW op \in {"change", "save", "status", "login"},
           Reads(x, op), UNCHANGED <<userRow, chosen, codes, tokens, swept, overwritten>>
    PROVE  PasswordInvariant'
<1>1. op \in Steps
  BY DEF Steps
<1>2. PICK s \in SignInRows : /\ signIn' \in [SignIns -> SignInRows] /\ signIn'[x] = s
                              /\ \A y \in SignIns \ {x} : signIn'[y] = signIn[y]
                              /\ s.op = op /\ s.left = signIn[x].left
  BY <1>1, Readings
<1>3. SignInFits(s)
  BY <1>2 DEF PasswordInvariant, SignInFits
<1> QED BY <1>2, <1>3, KeepsWithRead

LEMMA KeepsWithGiveUp ==
    ASSUME PasswordInvariant, NEW x \in SignIns, GiveUp(x)
    PROVE  PasswordInvariant'
<1>1. "idle" \in Steps
  BY DEF Steps
<1>2. PICK s \in SignInRows : /\ signIn' \in [SignIns -> SignInRows] /\ signIn'[x] = s
                              /\ \A y \in SignIns \ {x} : signIn'[y] = signIn[y]
                              /\ s.op = "idle" /\ s.left = {}
  BY <1>1, Readings DEF GiveUp
<1>3. SignInFits(s)
  BY <1>2 DEF SignInFits
<1> QED BY <1>2, <1>3, KeepsWithRead DEF GiveUp

\* A code is read with the tries counted for it, fewer than are allowed.
LEMMA KeepsWithReadCode ==
    ASSUME PasswordInvariant, NEW x \in SignIns, NEW op \in {"verify", "reset"}, ReadCode(x, op)
    PROVE  PasswordInvariant'
<1>1. /\ signIn \in [SignIns -> SignInRows] /\ codes \in Seq(CodeRows) /\ SignInFits(signIn[x])
      /\ signIn[x] \in SignInRows /\ op \in Steps
  BY DEF PasswordInvariant, PasswordShape, Steps
<1>2. LatestCode \in DOMAIN codes
  BY <1>1, LatestIsOpen DEF ReadCode
<1>3. PICK i \in DOMAIN codes : i = LatestCode
  BY <1>2
<1>4. PICK tries \in 0..MaxGuesses : tries = codes[i].tries /\ tries < MaxGuesses
  <2>1. codes[i] \in CodeRows
    BY <1>1, ElementOfSeq
  <2> QED BY <1>3, <2>1 DEF ReadCode, Acceptable, CodeRows
<1>5. PICK s \in SignInRows : s = [op |-> op, of |-> i, tries |-> tries, row |-> signIn[x].row, left |-> signIn[x].left]
  <2>1. signIn[x].row \in UserRows /\ signIn[x].left \in SUBSET Nat /\ i \in Nat
    BY <1>1 DEF SignInRows
  <2> QED BY <1>1, <2>1 DEF SignInRows
<1>6. signIn' = [signIn EXCEPT ![x].op = op, ![x].of = i, ![x].tries = tries]
  BY <1>3, <1>4 DEF ReadCode
<1>7. signIn'[x] = s /\ \A y \in SignIns \ {x} : signIn'[y] = signIn[y]
  BY <1>1, <1>5, <1>6 DEF SignInRows
<1>8. signIn' \in [SignIns -> SignInRows]
  BY <1>1, <1>6, <1>7
<1>9. SignInFits(s)
  BY <1>1, <1>4, <1>5 DEF SignInFits
<1> QED BY <1>5, <1>7, <1>8, <1>9, KeepsWithRead DEF ReadCode

LEMMA KeepsWithListTokens ==
    ASSUME PasswordInvariant, NEW x \in SignIns, ListTokens(x)
    PROVE  PasswordInvariant'
<1>1. /\ signIn \in [SignIns -> SignInRows] /\ tokens \in Seq(TokenRows) /\ signIn[x] \in SignInRows
      /\ "end" \in Steps
  BY DEF PasswordInvariant, PasswordShape, Steps
<1>2. Len(tokens) \in Nat /\ DOMAIN tokens = 1..Len(tokens) /\ DOMAIN tokens \in SUBSET Nat
  BY <1>1
<1>3. PICK s \in SignInRows : s = [op |-> "end", of |-> Len(tokens), tries |-> signIn[x].tries,
                                   row |-> signIn[x].row, left |-> DOMAIN tokens]
  BY <1>1, <1>2 DEF SignInRows
<1>4. signIn'[x] = s /\ \A y \in SignIns \ {x} : signIn'[y] = signIn[y]
  BY <1>1, <1>3 DEF ListTokens, SignInRows
<1>5. signIn' \in [SignIns -> SignInRows]
  BY <1>1, <1>4 DEF ListTokens
<1>6. SignInFits(s)
  BY <1>2, <1>3 DEF SignInFits
<1> QED BY <1>3, <1>4, <1>5, <1>6, KeepsWithRead DEF ListTokens

LEMMA KeepsWithLock ==
    ASSUME PasswordInvariant, NEW x \in SignIns, NEW t \in DOMAIN tokens, LockForRefresh(x, t)
    PROVE  PasswordInvariant'
<1>1. /\ signIn \in [SignIns -> SignInRows] /\ tokens \in Seq(TokenRows) /\ signIn[x] \in SignInRows
      /\ "refresh" \in Steps /\ SignInFits(signIn[x])
  BY DEF PasswordInvariant, PasswordShape, Steps
<1>2. t \in Nat
  BY <1>1
<1>3. PICK s \in SignInRows : s = [op |-> "refresh", of |-> t, tries |-> signIn[x].tries,
                                   row |-> signIn[x].row, left |-> signIn[x].left]
  BY <1>1, <1>2 DEF SignInRows
<1>4. signIn'[x] = s /\ \A y \in SignIns \ {x} : signIn'[y] = signIn[y]
  BY <1>1, <1>3 DEF LockForRefresh, SignInRows
<1>5. signIn' \in [SignIns -> SignInRows]
  BY <1>1, <1>4 DEF LockForRefresh
<1>6. SignInFits(s)
  BY <1>1, <1>3 DEF SignInFits, LockForRefresh
<1>7. /\ s.op # "forgot" /\ ~Locked(s.of)
      /\ UNCHANGED <<userRow, chosen, codes, tokens, swept, overwritten>>
  BY <1>3 DEF LockForRefresh
<1> QED BY <1>4, <1>5, <1>6, <1>7, KeepsWithRead

-----------------------------------------------------------------------------
\* The codes.
LEMMA KeepsWithMarkOlder ==
    ASSUME PasswordInvariant, NEW x \in SignIns, MarkOlder(x)
    PROVE  PasswordInvariant'
<1>1. /\ codes \in Seq(CodeRows) /\ "forgot" \in Steps /\ SignInFits(signIn[x])
      /\ userRow \in UserRows /\ chosen \in 0..MaxPasswords /\ overwritten \in BOOLEAN /\ PasswordIsLast
  BY DEF PasswordInvariant, PasswordShape, Steps
<1>2. PICK s \in SignInRows : /\ signIn' \in [SignIns -> SignInRows] /\ signIn'[x] = s
                              /\ \A y \in SignIns \ {x} : signIn'[y] = signIn[y]
                              /\ s.op = "forgot" /\ s.left = signIn[x].left
  BY <1>1, Readings DEF MarkOlder
<1>3. codes' \in Seq(CodeRows) /\ Len(codes') = Len(codes) /\ OpenCodes' = {}
  <2>1. ASSUME NEW i \in DOMAIN codes
        PROVE  [codes[i] EXCEPT !.open = FALSE] \in CodeRows /\ ~[codes[i] EXCEPT !.open = FALSE].open
    <3>1. codes[i] \in CodeRows
      BY <1>1, ElementOfSeq
    <3> QED BY <3>1 DEF CodeRows
  <2>2. Len(codes) \in Nat /\ DOMAIN codes = 1..Len(codes)
    BY <1>1
  <2>3. codes' \in [1..Len(codes) -> CodeRows]
    BY <2>1, <2>2 DEF MarkOlder
  <2>4. codes' \in Seq(CodeRows) /\ Len(codes') = Len(codes) /\ DOMAIN codes' = DOMAIN codes
    BY <2>2, <2>3
  <2>5. \A i \in DOMAIN codes : ~codes'[i].open
    BY <2>1 DEF MarkOlder
  <2> QED BY <2>4, <2>5 DEF OpenCodes
<1>4. OpenOrComing'
  <2>1. InFlight("forgot")' \subseteq SignIns
    BY DEF InFlight
  <2>2. IsFiniteSet(SignIns)
    BY PasswordsAssumption
  <2>3. Cardinality(InFlight("forgot")') <= Cardinality(SignIns)
    BY <2>1, <2>2, FS_Subset
  <2>4. IsFiniteSet(InFlight("forgot")')
    BY <2>1, <2>2, FS_Subset
  <2>5. Cardinality(InFlight("forgot")') \in Nat /\ Cardinality(SignIns) \in Nat
    BY <2>2, <2>4, FS_CardinalityType
  <2>6. Cardinality(OpenCodes') = 0
    BY <1>3, FS_EmptySet
  <2> QED BY <2>3, <2>5, <2>6 DEF OpenOrComing
<1>5. SignInFits(s)'
  BY <1>1, <1>2 DEF SignInFits, MarkOlder
<1>6. /\ UNCHANGED <<userRow, chosen, tokens, swept, overwritten>> /\ PasswordIsLast' /\ Len(codes) <= Len(codes')
      /\ userRow' \in UserRows /\ chosen' \in 0..MaxPasswords /\ overwritten' \in BOOLEAN
  BY <1>1, <1>3 DEF MarkOlder, PasswordIsLast
<1> QED BY <1>2, <1>3, <1>4, <1>5, <1>6, KeepsWithTokens

LEMMA KeepsWithCreateCode ==
    ASSUME PasswordInvariant, NEW x \in SignIns, CreateCode(x)
    PROVE  PasswordInvariant'
<1>1. /\ codes \in Seq(CodeRows) /\ "idle" \in Steps /\ OpenOrComing /\ signIn \in [SignIns -> SignInRows]
      /\ userRow \in UserRows /\ chosen \in 0..MaxPasswords /\ overwritten \in BOOLEAN /\ PasswordIsLast
  BY DEF PasswordInvariant, PasswordShape, Steps
<1>2. PICK s \in SignInRows : /\ signIn' \in [SignIns -> SignInRows] /\ signIn'[x] = s
                              /\ \A y \in SignIns \ {x} : signIn'[y] = signIn[y]
                              /\ s.op = "idle" /\ s.left = {}
  BY <1>1, Readings DEF CreateCode
<1>3. PICK c \in CodeRows : c = [open |-> TRUE, late |-> FALSE, verified |-> FALSE, tries |-> 0]
  <2>1. 0 \in 0..MaxGuesses
    BY PasswordsAssumption
  <2> QED BY <2>1 DEF CodeRows
<1>4. codes' = Append(codes, c)
  BY <1>3 DEF CreateCode
<1>5. codes' \in Seq(CodeRows) /\ Len(codes') = Len(codes) + 1 /\ Len(codes) \in Nat
  BY <1>1, <1>4
<1>6. OpenOrComing'
  <2>1. OpenCodes' = OpenCodes \cup {Len(codes) + 1} /\ Len(codes) + 1 \notin OpenCodes
    BY <1>1, <1>3, <1>4 DEF OpenCodes
  <2>2. InFlight("forgot")' = InFlight("forgot") \ {x} /\ x \in InFlight("forgot")
    BY <1>1, <1>2 DEF InFlight, CreateCode
  <2>3. IsFiniteSet(OpenCodes) /\ IsFiniteSet(InFlight("forgot"))
    BY <1>1, CodesAreFinite
  <2>4. Cardinality(OpenCodes') = Cardinality(OpenCodes) + 1
    BY <2>1, <2>3, FS_AddElement
  <2>5. Cardinality(InFlight("forgot")') = Cardinality(InFlight("forgot")) - 1
    BY <2>2, <2>3, FS_RemoveElement
  <2>6. Cardinality(OpenCodes) \in Nat /\ Cardinality(InFlight("forgot")) \in Nat /\ Cardinality(SignIns) \in Nat
    BY <2>3, <1>1, CodesAreFinite
  <2> QED BY <1>1, <2>4, <2>5, <2>6 DEF OpenOrComing
<1>7. SignInFits(s)'
  BY <1>2 DEF SignInFits
<1>8. /\ UNCHANGED <<userRow, chosen, tokens, swept, overwritten>> /\ PasswordIsLast' /\ Len(codes) <= Len(codes')
      /\ userRow' \in UserRows /\ chosen' \in 0..MaxPasswords /\ overwritten' \in BOOLEAN
  BY <1>1, <1>5 DEF CreateCode, PasswordIsLast
<1> QED BY <1>2, <1>5, <1>6, <1>7, <1>8, KeepsWithTokens

\* A code that is there changes, and none is opened.
LEMMA CodeChanges ==
    ASSUME codes \in Seq(CodeRows), NEW i \in DOMAIN codes, NEW c \in CodeRows, c.open => codes[i].open,
           codes' = [codes EXCEPT ![i] = c]
    PROVE  codes' \in Seq(CodeRows) /\ Len(codes') = Len(codes) /\ OpenCodes' \subseteq OpenCodes
<1>1. codes' \in Seq(CodeRows) /\ Len(codes') = Len(codes)
  BY ExceptSeq
<1>2. OpenCodes' \subseteq OpenCodes
  BY <1>1 DEF OpenCodes
<1> QED BY <1>1, <1>2

LEMMA KeepsWithCode ==
    ASSUME PasswordInvariant, NEW x \in SignIns, NEW op \in {"idle", "list"},
           op = "list" => Continues(x, op), op = "idle" => Ends(x),
           NEW i \in DOMAIN codes, NEW c \in CodeRows, c.open => codes[i].open,
           codes' = [codes EXCEPT ![i] = c],
           UNCHANGED <<userRow, chosen, tokens, swept, overwritten>>
    PROVE  PasswordInvariant'
<1>1. /\ codes \in Seq(CodeRows) /\ op \in Steps /\ OpenOrComing /\ SignInFits(signIn[x])
      /\ userRow \in UserRows /\ chosen \in 0..MaxPasswords /\ overwritten \in BOOLEAN /\ PasswordIsLast
  BY DEF PasswordInvariant, PasswordShape, Steps
<1>2. PICK s \in SignInRows : /\ signIn' \in [SignIns -> SignInRows] /\ signIn'[x] = s
                              /\ \A y \in SignIns \ {x} : signIn'[y] = signIn[y]
                              /\ s.op = op /\ s.left \subseteq signIn[x].left
  BY <1>1, Readings
<1>3. codes' \in Seq(CodeRows) /\ Len(codes') = Len(codes) /\ OpenCodes' \subseteq OpenCodes
  BY <1>1, CodeChanges
<1>4. InFlight("forgot")' \subseteq InFlight("forgot")
  BY <1>2 DEF InFlight
<1>5. OpenOrComing'
  BY <1>1, <1>3, <1>4, FewerOpen
<1>6. SignInFits(s)'
  BY <1>1, <1>2 DEF SignInFits
<1>7. /\ PasswordIsLast' /\ Len(codes) <= Len(codes')
      /\ userRow' \in UserRows /\ chosen' \in 0..MaxPasswords /\ overwritten' \in BOOLEAN
  BY <1>1, <1>3 DEF PasswordIsLast
<1> QED BY <1>2, <1>3, <1>5, <1>6, <1>7, KeepsWithTokens

LEMMA KeepsWithWrongCode ==
    ASSUME PasswordInvariant, NEW x \in SignIns, WrongCode(x)
    PROVE  PasswordInvariant'
<1>1. /\ codes \in Seq(CodeRows) /\ signIn[x].of \in DOMAIN codes
      /\ signIn[x].tries \in 0..MaxGuesses /\ signIn[x].tries < MaxGuesses
  BY DEF PasswordInvariant, PasswordShape, SignInFits, SignInRows, WrongCode
<1>2. PICK i \in DOMAIN codes : i = signIn[x].of
  BY <1>1
<1>3. PICK tries \in 0..MaxGuesses : tries = signIn[x].tries + 1
  BY <1>1, PasswordsAssumption
<1>4. codes[i] \in CodeRows
  BY <1>1, ElementOfSeq
<1>5. PICK c \in CodeRows : c = [codes[i] EXCEPT !.tries = tries] /\ c.open = codes[i].open
  <2>1. PICK r \in CodeRows : r = codes[i]
    BY <1>4
  <2>2. [r EXCEPT !.tries = tries] \in CodeRows /\ [r EXCEPT !.tries = tries].open = r.open
    BY DEF CodeRows
  <2> QED BY <2>1, <2>2
<1>6. codes' = [codes EXCEPT ![i] = c]
  BY <1>2, <1>3, <1>5 DEF WrongCode
<1> QED BY <1>5, <1>6, KeepsWithCode DEF WrongCode

LEMMA KeepsWithMarkVerified ==
    ASSUME PasswordInvariant, NEW x \in SignIns, MarkVerified(x)
    PROVE  PasswordInvariant'
<1>1. codes \in Seq(CodeRows) /\ signIn[x].of \in DOMAIN codes
  BY DEF PasswordInvariant, PasswordShape, SignInFits, MarkVerified
<1>2. PICK i \in DOMAIN codes : i = signIn[x].of
  BY <1>1
<1>3. codes[i] \in CodeRows
  BY <1>1, ElementOfSeq
<1>4. PICK c \in CodeRows : c = [codes[i] EXCEPT !.verified = TRUE] /\ c.open = codes[i].open
  <2>1. PICK r \in CodeRows : r = codes[i]
    BY <1>3
  <2>2. [r EXCEPT !.verified = TRUE] \in CodeRows /\ [r EXCEPT !.verified = TRUE].open = r.open
    BY DEF CodeRows
  <2> QED BY <2>1, <2>2
<1>5. codes' = [codes EXCEPT ![i] = c]
  BY <1>2, <1>4 DEF MarkVerified
<1> QED BY <1>4, <1>5, KeepsWithCode DEF MarkVerified

LEMMA KeepsWithMarkUsed ==
    ASSUME PasswordInvariant, NEW x \in SignIns, MarkUsed(x)
    PROVE  PasswordInvariant'
<1>1. codes \in Seq(CodeRows) /\ signIn[x].of \in DOMAIN codes
  BY DEF PasswordInvariant, PasswordShape, SignInFits, MarkUsed
<1>2. PICK i \in DOMAIN codes : i = signIn[x].of
  BY <1>1
<1>3. codes[i] \in CodeRows
  BY <1>1, ElementOfSeq
<1>4. PICK c \in CodeRows : c = [codes[i] EXCEPT !.open = FALSE] /\ ~c.open
  <2>1. PICK r \in CodeRows : r = codes[i]
    BY <1>3
  <2>2. [r EXCEPT !.open = FALSE] \in CodeRows /\ ~[r EXCEPT !.open = FALSE].open
    BY DEF CodeRows
  <2> QED BY <2>1, <2>2
<1>5. codes' = [codes EXCEPT ![i] = c]
  BY <1>2, <1>4 DEF MarkUsed
<1> QED BY <1>4, <1>5, KeepsWithCode DEF MarkUsed

LEMMA KeepsWithExpiry ==
    ASSUME PasswordInvariant, NEW i \in DOMAIN codes, CodeExpires(i)
    PROVE  PasswordInvariant'
<1>1. codes \in Seq(CodeRows) /\ OpenOrComing
  BY DEF PasswordInvariant, PasswordShape
<1>2. codes[i] \in CodeRows
  BY <1>1, ElementOfSeq
<1>3. PICK c \in CodeRows : c = [codes[i] EXCEPT !.late = TRUE] /\ c.open = codes[i].open
  <2>1. PICK r \in CodeRows : r = codes[i]
    BY <1>2
  <2>2. [r EXCEPT !.late = TRUE] \in CodeRows /\ [r EXCEPT !.late = TRUE].open = r.open
    BY DEF CodeRows
  <2> QED BY <2>1, <2>2
<1>4. codes' = [codes EXCEPT ![i] = c]
  BY <1>3 DEF CodeExpires
<1>5. codes' \in Seq(CodeRows) /\ Len(codes') = Len(codes) /\ OpenCodes' \subseteq OpenCodes
  BY <1>1, <1>3, <1>4, CodeChanges
<1>6. InFlight("forgot")' \subseteq InFlight("forgot")
  BY DEF InFlight, CodeExpires
<1>7. OpenOrComing'
  BY <1>1, <1>5, <1>6, FewerOpen
<1>8. DOMAIN codes' = DOMAIN codes
  BY <1>1, <1>5
<1> QED BY <1>5, <1>7, <1>8
        DEF CodeExpires, PasswordInvariant, PasswordShape, SignInFits, OneHolder, ExchangedHasEnded,
            RotatedOnce, PasswordIsLast, SweptAreEnded

-----------------------------------------------------------------------------
\* The row of the user and what was swept: the codes and tokens stay.
LEMMA KeepsWithRow ==
    ASSUME PasswordInvariant, NEW x \in SignIns, NEW op \in {"idle", "mark"},
           op = "mark" => Continues(x, op) /\ signIn[x].op = "reset", op = "idle" => Ends(x),
           userRow' \in UserRows, chosen' \in 0..MaxPasswords, overwritten' \in BOOLEAN, PasswordIsLast',
           UNCHANGED <<codes, tokens, swept>>
    PROVE  PasswordInvariant'
<1>1. codes \in Seq(CodeRows) /\ op \in Steps /\ OpenOrComing /\ SignInFits(signIn[x])
  BY DEF PasswordInvariant, PasswordShape, Steps
<1>2. PICK s \in SignInRows : /\ signIn' \in [SignIns -> SignInRows] /\ signIn'[x] = s
                              /\ \A y \in SignIns \ {x} : signIn'[y] = signIn[y]
                              /\ s.op = op /\ s.left \subseteq signIn[x].left
                              /\ op = "mark" => s.of = signIn[x].of
  BY <1>1, Readings
<1>3. OpenCodes' = OpenCodes /\ InFlight("forgot")' \subseteq InFlight("forgot")
  BY <1>2 DEF OpenCodes, InFlight
<1>4. codes' \in Seq(CodeRows) /\ Len(codes) <= Len(codes')
  BY <1>1
<1>5. OpenOrComing'
  BY <1>1, <1>3, <1>4, FewerOpen
<1>6. SignInFits(s)'
  BY <1>1, <1>2 DEF SignInFits
<1>7. s.op # "refresh"
  BY <1>2
<1> QED BY <1>2, <1>4, <1>5, <1>6, <1>7, KeepsWithTokens

LEMMA NewPasswordFits ==
    ASSUME PasswordInvariant, NewPassword, overwritten' = overwritten
    PROVE  userRow' \in UserRows /\ chosen' \in 0..MaxPasswords /\ overwritten' \in BOOLEAN /\ PasswordIsLast'
<1>1. /\ userRow \in UserRows /\ chosen \in 0..MaxPasswords /\ MaxPasswords \in Nat /\ chosen < MaxPasswords
      /\ overwritten \in BOOLEAN
  BY PasswordsAssumption DEF PasswordInvariant, PasswordShape, NewPassword
<1>2. PICK n \in 0..MaxPasswords : n = chosen + 1
  BY <1>1
<1>3. userRow' = [userRow EXCEPT !.password = n] /\ chosen' = n
  BY <1>2 DEF NewPassword
<1> QED BY <1>1, <1>2, <1>3 DEF UserRows, PasswordIsLast

LEMMA KeepsWithSaveProfile ==
    ASSUME PasswordInvariant, NEW x \in SignIns, SaveProfile(x)
    PROVE  PasswordInvariant'
<1>1. /\ signIn[x].row \in UserRows /\ chosen \in 0..MaxPasswords /\ overwritten \in BOOLEAN
      /\ PasswordIsLast
  BY DEF PasswordInvariant, PasswordShape, SignInRows
<1>2. userRow' \in UserRows /\ chosen' \in 0..MaxPasswords /\ overwritten' \in BOOLEAN /\ PasswordIsLast'
  BY <1>1 DEF SaveProfile, PasswordIsLast
<1> QED BY <1>2, KeepsWithRow DEF SaveProfile

LEMMA KeepsWithSetActive ==
    ASSUME PasswordInvariant, NEW x \in SignIns, NEW active \in BOOLEAN, SetActive(x, active)
    PROVE  PasswordInvariant'
<1>1. userRow \in UserRows /\ chosen \in 0..MaxPasswords /\ overwritten \in BOOLEAN /\ PasswordIsLast
  BY DEF PasswordInvariant, PasswordShape
<1>2. userRow' \in UserRows /\ userRow'.password = userRow.password
  BY <1>1 DEF SetActive, UserRows
<1>3. chosen' \in 0..MaxPasswords /\ overwritten' \in BOOLEAN /\ PasswordIsLast'
  BY <1>1, <1>2 DEF SetActive, PasswordIsLast
<1> QED BY <1>2, <1>3, KeepsWithRow DEF SetActive

LEMMA KeepsWithFinishReset ==
    ASSUME PasswordInvariant, NEW x \in SignIns, FinishReset(x)
    PROVE  PasswordInvariant'
<1>1. /\ codes \in Seq(CodeRows) /\ "idle" \in Steps /\ OpenOrComing /\ SignInFits(signIn[x])
      /\ tokens \in Seq(TokenRows)
  BY DEF PasswordInvariant, PasswordShape, Steps
<1>2. PICK s \in SignInRows : /\ signIn' \in [SignIns -> SignInRows] /\ signIn'[x] = s
                              /\ \A y \in SignIns \ {x} : signIn'[y] = signIn[y]
                              /\ s.op = "idle" /\ s.left = {}
  BY <1>1, Readings DEF FinishReset
<1>3. \A t \in 1..signIn[x].of : t \in DOMAIN tokens /\ tokens[t].ended
  BY <1>1 DEF SignInFits, FinishReset
<1>4. swept' \subseteq DOMAIN tokens /\ SweptAreEnded'
  BY <1>3 DEF FinishReset, PasswordInvariant, PasswordShape, SweptAreEnded
<1>5. OpenCodes' = OpenCodes /\ InFlight("forgot")' \subseteq InFlight("forgot")
  BY <1>2 DEF OpenCodes, InFlight, FinishReset
<1>6. OpenOrComing'
  BY <1>1, <1>5, FewerOpen DEF FinishReset
<1>7. \A y \in SignIns : SignInFits(signIn[y])'
  BY <1>2 DEF SignInFits, FinishReset, PasswordInvariant
<1>8. OneHolder'
  BY <1>2 DEF OneHolder, PasswordInvariant
<1> QED BY <1>2, <1>4, <1>6, <1>7, <1>8
        DEF FinishReset, PasswordInvariant, PasswordShape, ExchangedHasEnded, RotatedOnce, PasswordIsLast

-----------------------------------------------------------------------------
\* The tokens: one ends that no refresh holds, others are added.
LEMMA TokenEnds ==
    ASSUME tokens \in Seq(TokenRows), NEW t \in DOMAIN tokens
    PROVE  /\ Blacklisted(t) \in Seq(TokenRows) /\ Len(Blacklisted(t)) = Len(tokens)
           /\ \A u \in DOMAIN tokens : /\ Blacklisted(t)[u].from = tokens[u].from
                                       /\ Blacklisted(t)[u].ended <=> (tokens[u].ended \/ u = t)
<1>1. PICK r \in TokenRows : r = tokens[t]
  BY ElementOfSeq
<1>2. PICK e \in TokenRows : e = [r EXCEPT !.ended = TRUE] /\ e.from = r.from /\ e.ended
  <2>1. [r EXCEPT !.ended = TRUE] \in TokenRows /\ [r EXCEPT !.ended = TRUE].from = r.from
        /\ [r EXCEPT !.ended = TRUE].ended
    BY DEF TokenRows
  <2> QED BY <2>1
<1>3. Blacklisted(t) = [tokens EXCEPT ![t] = e]
  BY <1>1, <1>2 DEF Blacklisted
<1>4. Blacklisted(t) \in Seq(TokenRows) /\ Len(Blacklisted(t)) = Len(tokens)
  BY <1>3, ExceptSeq
<1>5. ASSUME NEW u \in DOMAIN tokens
      PROVE  Blacklisted(t)[u].from = tokens[u].from /\ (Blacklisted(t)[u].ended <=> (tokens[u].ended \/ u = t))
  BY <1>1, <1>2, <1>3
<1> QED BY <1>4, <1>5

LEMMA KeepsWithEnded ==
    ASSUME PasswordInvariant, NEW t \in DOMAIN tokens, ~Locked(t), tokens' = Blacklisted(t),
           signIn' \in [SignIns -> SignInRows],
           \A y \in SignIns : /\ signIn'[y].op = signIn[y].op /\ signIn'[y].of = signIn[y].of
                              /\ signIn'[y].tries = signIn[y].tries
                              /\ signIn'[y].left \subseteq signIn[y].left
                              /\ signIn[y].left \ {t} \subseteq signIn'[y].left,
           UNCHANGED <<userRow, chosen, codes, swept, overwritten>>
    PROVE  PasswordInvariant'
<1>1. tokens \in Seq(TokenRows) /\ Len(tokens) \in Nat
  BY DEF PasswordInvariant, PasswordShape
<1>2. /\ tokens' \in Seq(TokenRows) /\ Len(tokens') = Len(tokens) /\ DOMAIN tokens' = DOMAIN tokens
      /\ DOMAIN tokens = 1..Len(tokens)
      /\ \A u \in DOMAIN tokens : /\ tokens'[u].from = tokens[u].from
                                  /\ tokens'[u].ended <=> (tokens[u].ended \/ u = t)
  BY <1>1, TokenEnds
<1>3. PasswordShape'
  BY <1>2 DEF PasswordInvariant, PasswordShape
<1>4. ASSUME NEW y \in SignIns PROVE SignInFits(signIn[y])'
  <2>1. SignInFits(signIn[y])
    BY DEF PasswordInvariant
  <2>2. signIn[y].op = "refresh" => signIn[y].of # t
    BY DEF Locked, InFlight
  <2>3. signIn[y].op = "end" => \A u \in 1..signIn[y].of : u \in DOMAIN tokens
    BY <1>2, <2>1 DEF SignInFits
  <2> QED BY <1>2, <2>1, <2>2, <2>3 DEF SignInFits
<1>5. OneHolder'
  BY DEF PasswordInvariant, OneHolder
<1>6. ExchangedHasEnded'
  <2>1. \A u \in DOMAIN tokens : tokens[u].from # 0 => tokens[u].from \in DOMAIN tokens
    BY <1>1, <1>2 DEF PasswordInvariant, ExchangedHasEnded
  <2> QED BY <1>2, <2>1 DEF PasswordInvariant, ExchangedHasEnded
<1>7. RotatedOnce' /\ SweptAreEnded' /\ PasswordIsLast'
  BY <1>2 DEF PasswordInvariant, PasswordShape, RotatedOnce, SweptAreEnded, PasswordIsLast
<1>8. OpenOrComing'
  <2>1. OpenCodes' = OpenCodes /\ InFlight("forgot")' \subseteq InFlight("forgot") /\ codes \in Seq(CodeRows)
    BY DEF OpenCodes, InFlight, PasswordInvariant, PasswordShape
  <2> QED BY <2>1, FewerOpen DEF PasswordInvariant
<1> QED BY <1>3, <1>4, <1>5, <1>6, <1>7, <1>8 DEF PasswordInvariant

LEMMA KeepsWithEndToken ==
    ASSUME PasswordInvariant, NEW x \in SignIns, NEW t \in DOMAIN tokens, EndToken(x, t)
    PROVE  PasswordInvariant'
<1>1. signIn \in [SignIns -> SignInRows] /\ signIn[x] \in SignInRows
  BY DEF PasswordInvariant, PasswordShape
<1>2. PICK r \in SignInRows : r = signIn[x]
  BY <1>1
<1>3. PICK e \in SignInRows : /\ e = [r EXCEPT !.left = r.left \ {t}] /\ e.op = r.op /\ e.of = r.of
                              /\ e.tries = r.tries /\ e.left = r.left \ {t}
  <2>1. /\ [r EXCEPT !.left = r.left \ {t}] \in SignInRows
        /\ [r EXCEPT !.left = r.left \ {t}].op = r.op /\ [r EXCEPT !.left = r.left \ {t}].of = r.of
        /\ [r EXCEPT !.left = r.left \ {t}].tries = r.tries
        /\ [r EXCEPT !.left = r.left \ {t}].left = r.left \ {t}
    BY DEF SignInRows
  <2> QED BY <2>1
<1>4. signIn' = [signIn EXCEPT ![x] = e]
  BY <1>2, <1>3 DEF EndToken
<1>5. signIn' \in [SignIns -> SignInRows]
  BY <1>1, <1>4
<1>6. \A y \in SignIns : /\ signIn'[y].op = signIn[y].op /\ signIn'[y].of = signIn[y].of
                         /\ signIn'[y].tries = signIn[y].tries
                         /\ signIn'[y].left \subseteq signIn[y].left
                         /\ signIn[y].left \ {t} \subseteq signIn'[y].left
  BY <1>1, <1>2, <1>3, <1>4
<1> QED BY <1>5, <1>6, KeepsWithEnded DEF EndToken

LEMMA KeepsWithLogout ==
    ASSUME PasswordInvariant, NEW t \in DOMAIN tokens, Logout(t)
    PROVE  PasswordInvariant'
<1>1. signIn' \in [SignIns -> SignInRows]
  BY DEF PasswordInvariant, PasswordShape, Logout
<1> QED BY <1>1, KeepsWithEnded DEF Logout

\* A token is added; the one it was exchanged for, if any, ends.
LEMMA KeepsWithIssue ==
    ASSUME PasswordInvariant, NEW x \in SignIns, Ends(x), NEW from \in Nat, NEW old \in Seq(TokenRows),
           from # 0 => signIn[x].op = "refresh" /\ from = signIn[x].of,
           Len(old) = Len(tokens),
           \A u \in DOMAIN tokens : /\ old[u].from = tokens[u].from
                                    /\ old[u].ended <=> (tokens[u].ended \/ u = from),
           tokens' = Append(old, [ended |-> FALSE, from |-> from]),
           UNCHANGED <<userRow, chosen, codes, swept, overwritten>>
    PROVE  PasswordInvariant'
<1>1. /\ tokens \in Seq(TokenRows) /\ Len(tokens) \in Nat /\ "idle" \in Steps /\ codes \in Seq(CodeRows)
      /\ SignInFits(signIn[x]) /\ OneHolder /\ OpenOrComing
  BY DEF PasswordInvariant, PasswordShape, Steps
<1>2. PICK s \in SignInRows : /\ signIn' \in [SignIns -> SignInRows] /\ signIn'[x] = s
                              /\ \A y \in SignIns \ {x} : signIn'[y] = signIn[y]
                              /\ s.op = "idle" /\ s.left = {}
  BY <1>1, Readings
<1>3. PICK r \in TokenRows : r = [ended |-> FALSE, from |-> from] /\ ~r.ended /\ r.from = from
  <2>1. [ended |-> FALSE, from |-> from] \in TokenRows
    BY DEF TokenRows
  <2> QED BY <2>1
<1>4. PICK n \in Nat : n = Len(tokens)
  BY <1>1
<1>5. tokens' \in Seq(TokenRows) /\ Len(tokens') = n + 1 /\ tokens'[n + 1] = r
      /\ \A u \in 1..n : tokens'[u] = old[u]
  BY <1>3, <1>4, AppendProperties
<1>6. DOMAIN tokens = 1..n /\ DOMAIN tokens' = 1..(n + 1)
  BY <1>1, <1>4, <1>5
<1>7. /\ from # 0 => from \in 1..n /\ ~tokens[from].ended
      /\ \A u \in 1..n : /\ tokens'[u].from = tokens[u].from
                         /\ tokens'[u].ended <=> (tokens[u].ended \/ u = from)
  BY <1>1, <1>5, <1>6 DEF SignInFits
<1>8. PasswordShape'
  BY <1>2, <1>5, <1>6 DEF PasswordInvariant, PasswordShape
<1>9. ASSUME NEW y \in SignIns PROVE SignInFits(signIn[y])'
  <2>1. CASE y = x
    BY <1>2, <2>1 DEF SignInFits
  <2>2. CASE y # x
    <3>1. SignInFits(signIn[y]) /\ signIn'[y] = signIn[y]
      BY <1>2, <2>2 DEF PasswordInvariant
    <3>2. signIn[y].op = "refresh" => signIn[y].of # from
      BY <1>1, <1>6, <2>2, <3>1 DEF OneHolder, SignInFits
    <3> QED BY <1>4, <1>5, <1>6, <1>7, <3>1, <3>2 DEF SignInFits
  <2> QED BY <2>1, <2>2
<1>10. OneHolder'
  BY <1>1, <1>2 DEF OneHolder
<1>11. /\ \A u \in 1..n : tokens[u].from \in 0..(u - 1)
       /\ \A u \in 1..n : tokens[u].from # 0 => tokens[tokens[u].from].ended
  BY <1>6 DEF PasswordInvariant, ExchangedHasEnded
<1>12. ExchangedHasEnded'
  <2>1. ASSUME NEW u \in 1..n PROVE tokens'[u].from \in 0..(u - 1)
                                   /\ (tokens'[u].from # 0 => tokens'[tokens'[u].from].ended)
    <3>1. tokens[u].from # 0 => tokens[u].from \in 1..n
      BY <1>11
    <3> QED BY <1>7, <1>11, <3>1
  <2>2. tokens'[n + 1].from \in 0..n /\ (tokens'[n + 1].from # 0 => tokens'[tokens'[n + 1].from].ended)
    BY <1>3, <1>5, <1>7
  <2>3. \A u \in 1..(n + 1) : u \in 1..n \/ u = n + 1
    OBVIOUS
  <2>4. (n + 1) - 1 = n
    OBVIOUS
  <2> QED BY <1>6, <2>1, <2>2, <2>3, <2>4 DEF ExchangedHasEnded
<1>13. RotatedOnce'
  <2>1. \A t, u \in 1..n : tokens'[t].from # 0 /\ tokens'[t].from = tokens'[u].from => t = u
    BY <1>6, <1>7 DEF PasswordInvariant, RotatedOnce
  <2>2. \A t \in 1..n : from # 0 => tokens'[t].from # from
    BY <1>7, <1>11
  <2>3. \A u \in 1..(n + 1) : u \in 1..n \/ u = n + 1
    OBVIOUS
  <2>4. tokens'[n + 1].from = from
    BY <1>3, <1>5
  <2> QED BY <1>6, <2>1, <2>2, <2>3, <2>4 DEF RotatedOnce
<1>14. SweptAreEnded' /\ PasswordIsLast'
  BY <1>6, <1>7 DEF PasswordInvariant, PasswordShape, SweptAreEnded, PasswordIsLast
<1>15. OpenOrComing'
  <2>1. OpenCodes' = OpenCodes /\ InFlight("forgot")' \subseteq InFlight("forgot")
    BY <1>2 DEF OpenCodes, InFlight
  <2> QED BY <1>1, <2>1, FewerOpen
<1> QED BY <1>8, <1>9, <1>10, <1>12, <1>13, <1>14, <1>15 DEF PasswordInvariant

LEMMA KeepsWithIssueToken ==
    ASSUME PasswordInvariant, NEW x \in SignIns, IssueToken(x)
    PROVE  PasswordInvariant'
<1>1. tokens \in Seq(TokenRows) /\ \A u \in DOMAIN tokens : u # 0 /\ u \in Nat
  BY DEF PasswordInvariant, PasswordShape
<1>2. \A u \in DOMAIN tokens : tokens[u].ended <=> (tokens[u].ended \/ u = 0)
  BY <1>1
<1> QED BY <1>1, <1>2, KeepsWithIssue DEF IssueToken

LEMMA KeepsWithRotate ==
    ASSUME PasswordInvariant, NEW x \in SignIns, Rotate(x)
    PROVE  PasswordInvariant'
<1>1. tokens \in Seq(TokenRows) /\ SignInFits(signIn[x])
  BY DEF PasswordInvariant, PasswordShape
<1>2. PICK from \in Nat : from = signIn[x].of /\ from \in DOMAIN tokens
  BY <1>1 DEF SignInFits, Rotate
<1>3. PICK old \in Seq(TokenRows) :
        /\ old = Blacklisted(from) /\ Len(old) = Len(tokens)
        /\ \A u \in DOMAIN tokens : /\ old[u].from = tokens[u].from
                                    /\ old[u].ended <=> (tokens[u].ended \/ u = from)
  BY <1>1, <1>2, TokenEnds
<1>4. tokens' = Append(old, [ended |-> FALSE, from |-> from])
  BY <1>2, <1>3 DEF Rotate
<1>5. Ends(x) /\ signIn[x].op = "refresh" /\ UNCHANGED <<userRow, chosen, codes, swept, overwritten>>
  BY DEF Rotate
<1>6. from # 0 => signIn[x].op = "refresh" /\ from = signIn[x].of
  BY <1>2, <1>5
<1>7. /\ Len(old) = Len(tokens)
      /\ \A u \in DOMAIN tokens : /\ old[u].from = tokens[u].from
                                  /\ old[u].ended <=> (tokens[u].ended \/ u = from)
  BY <1>3
<1> QED BY <1>4, <1>5, <1>6, <1>7, KeepsWithIssue

-----------------------------------------------------------------------------
LEMMA PasswordsBegin == PasswordsInit => PasswordInvariant
<1> SUFFICES ASSUME PasswordsInit PROVE PasswordInvariant
  OBVIOUS
<1> USE DEF PasswordsInit
<1>1. /\ 0 \in 0..MaxPasswords /\ 0 \in 0..MaxGuesses /\ "idle" \in Steps
  BY PasswordsAssumption DEF Steps
<1>2. /\ userRow \in UserRows /\ NoSignIn \in SignInRows
  BY <1>1 DEF UserRows, SignInRows, NoSignIn
<1>3. PasswordShape
  <2>1. codes \in Seq(CodeRows) /\ tokens \in Seq(TokenRows)
    BY EmptySeq
  <2> QED BY <1>1, <1>2, <2>1 DEF PasswordShape
<1>4. \A x \in SignIns : SignInFits(signIn[x])
  BY DEF SignInFits, NoSignIn
<1>5. OneHolder /\ ExchangedHasEnded /\ RotatedOnce /\ PasswordIsLast /\ SweptAreEnded
  BY DEF OneHolder, ExchangedHasEnded, RotatedOnce, PasswordIsLast, SweptAreEnded, NoSignIn
<1>6. OpenOrComing
  <2>1. OpenCodes = {} /\ InFlight("forgot") = {}
    BY DEF OpenCodes, InFlight, NoSignIn
  <2>2. Cardinality(OpenCodes) = 0 /\ Cardinality(InFlight("forgot")) = 0
    BY <2>1, FS_EmptySet
  <2>3. Cardinality(SignIns) \in Nat
    BY PasswordsAssumption, FS_CardinalityType
  <2> QED BY <2>2, <2>3 DEF OpenOrComing
<1> QED BY <1>3, <1>4, <1>5, <1>6 DEF PasswordInvariant

LEMMA PasswordsStep == PasswordInvariant /\ [PasswordsNext]_passwordVars => PasswordInvariant'
<1> SUFFICES ASSUME PasswordInvariant, [PasswordsNext]_passwordVars PROVE PasswordInvariant'
  OBVIOUS
<1>1. CASE UNCHANGED passwordVars
  BY <1>1 DEF passwordVars, PasswordInvariant, PasswordShape, SignInFits, OneHolder, ExchangedHasEnded,
              RotatedOnce, OpenOrComing, OpenCodes, InFlight, PasswordIsLast, SweptAreEnded
<1>2. ASSUME NEW i \in DOMAIN codes, CodeExpires(i) PROVE PasswordInvariant'
  BY <1>2, KeepsWithExpiry
<1>3. ASSUME NEW t \in DOMAIN tokens, Logout(t) PROVE PasswordInvariant'
  BY <1>3, KeepsWithLogout
<1>4. ASSUME NEW x \in SignIns, NEW t \in DOMAIN tokens, EndToken(x, t) \/ LockForRefresh(x, t)
      PROVE  PasswordInvariant'
  BY <1>4, KeepsWithEndToken, KeepsWithLock
<1>5. ASSUME NEW x \in SignIns, NEW active \in BOOLEAN, SetActive(x, active) PROVE PasswordInvariant'
  BY <1>5, KeepsWithSetActive
<1>6. ASSUME NEW x \in SignIns, ReadForVerify(x) \/ ReadForReset(x) \/ ListTokens(x) \/ GiveUp(x)
      PROVE  PasswordInvariant'
  BY <1>6, KeepsWithReadCode, KeepsWithListTokens, KeepsWithGiveUp DEF ReadForVerify, ReadForReset
<1>7. ASSUME NEW x \in SignIns, ReadForChange(x) \/ ReadForProfile(x) \/ ReadForStatus(x) \/ ReadForLogin(x)
      PROVE  PasswordInvariant'
  BY <1>7, KeepsWithPlainRead DEF ReadForChange, ReadForProfile, ReadForStatus, ReadForLogin
<1>8. ASSUME NEW x \in SignIns, MarkOlder(x) \/ CreateCode(x) \/ WrongCode(x) \/ MarkVerified(x) \/ MarkUsed(x)
      PROVE  PasswordInvariant'
  BY <1>8, KeepsWithMarkOlder, KeepsWithCreateCode, KeepsWithWrongCode, KeepsWithMarkVerified, KeepsWithMarkUsed
<1>9. ASSUME NEW x \in SignIns, SetPassword(x) \/ ChangePassword(x) PROVE PasswordInvariant'
  BY <1>9, NewPasswordFits, KeepsWithRow DEF SetPassword, ChangePassword
<1>10. ASSUME NEW x \in SignIns, SaveProfile(x) \/ FinishReset(x) \/ IssueToken(x) \/ Rotate(x)
       PROVE  PasswordInvariant'
  BY <1>10, KeepsWithSaveProfile, KeepsWithFinishReset, KeepsWithIssueToken, KeepsWithRotate
<1> QED BY <1>1, <1>2, <1>3, <1>4, <1>5, <1>6, <1>7, <1>8, <1>9, <1>10 DEF PasswordsNext

\* For any number of requests and any bounds: the password chosen last is the one that works, a
\* token is exchanged once, a reset has ended the tokens it found, and codes and tries stay few.
THEOREM PasswordsStaySafe == PasswordsSpec => []PasswordsSafe
<1>1. PasswordsSpec => []PasswordInvariant
  BY PasswordsBegin, PasswordsStep, PTL DEF PasswordsSpec
<1>2. PasswordInvariant => PasswordsSafe
  <2> SUFFICES ASSUME PasswordInvariant PROVE PasswordsSafe
    OBVIOUS
  <2>1. codes \in Seq(CodeRows) /\ tokens \in Seq(TokenRows) /\ signIn \in [SignIns -> SignInRows]
    BY DEF PasswordInvariant, PasswordShape
  <2>2. \A i \in DOMAIN codes : codes[i].tries \in 0..MaxGuesses
    <3>1. \A i \in DOMAIN codes : codes[i] \in CodeRows
      BY <2>1, ElementOfSeq
    <3> QED BY <3>1 DEF CodeRows
  <2>3. PasswordsTypeOK
    BY <2>1, <2>2 DEF PasswordInvariant, PasswordShape, SignInFits, ExchangedHasEnded, UserRows, SignInRows,
                      PasswordsTypeOK
  <2>4. FewOpenCodes
    <3>1. IsFiniteSet(InFlight("forgot"))
      BY <2>1, CodesAreFinite
    <3>2. Cardinality(InFlight("forgot")) \in Nat
      BY <3>1, FS_CardinalityType
    <3> QED BY <2>1, <3>2, CodesAreFinite DEF PasswordInvariant, OpenOrComing, FewOpenCodes
  <2> QED BY <2>3, <2>4 DEF PasswordInvariant, PasswordsSafe
<1> QED BY <1>1, <1>2, PTL

-----------------------------------------------------------------------------
(* Profiles of workers. *)

ProfileRows == [status : Statuses, approved : BOOLEAN, reason : BOOLEAN, fields : BOOLEAN]

ClerkRows == [op : {"idle", "edit", "save", "review"}, row : ProfileRows, old : Statuses]

ProfileShape ==
    /\ profile \in ProfileRows
    /\ clerk \in [Clerks -> ClerkRows]
    /\ complete \in BOOLEAN /\ submitted \in BOOLEAN /\ asked \in BOOLEAN /\ reverted \in BOOLEAN
    /\ told \in {"NONE", "ACTIVE", "REJECTED"}

\* A row that may be saved: the approver and the reason fit, and it was submitted once.
Sound(row) ==
    /\ row.approved <=> row.status = "ACTIVE"
    /\ row.status = "REJECTED" => row.reason /\ row.fields
    /\ row.status \in {"PENDING", "ACTIVE"} => ~row.reason
    /\ row.status # "DRAFT" => submitted

\* What the requests are about to save is sound, and no review decides that a profile waits.
SoundToSave ==
    \A x \in Clerks :
        /\ clerk[x].op # "idle" => Sound(clerk[x].row)
        /\ clerk[x].op = "review" => clerk[x].row.status # "PENDING"

ProfileInvariant == ProfileShape /\ Sound(profile) /\ SoundToSave /\ Informed

-----------------------------------------------------------------------------
\* The profile stays; a request may remember something of it.
LEMMA KeepsWithClerk ==
    ASSUME ProfileInvariant, NEW x \in Clerks, NEW c \in ClerkRows,
           clerk' \in [Clerks -> ClerkRows], clerk'[x] = c,
           \A y \in Clerks \ {x} : clerk'[y] = clerk[y],
           c.op # "idle" => Sound(c.row), c.op = "review" => c.row.status # "PENDING",
           UNCHANGED <<profile, complete, submitted, told, asked, reverted>>
    PROVE  ProfileInvariant'
<1> USE DEF ProfileInvariant
<1>1. ProfileShape'
  BY DEF ProfileShape
<1>2. Sound(profile)' /\ Informed'
  BY DEF Sound, Informed
<1>3. SoundToSave'
  BY DEF SoundToSave, Sound
<1> QED BY <1>1, <1>2, <1>3

LEMMA KeepsWithStartEdit ==
    ASSUME ProfileInvariant, NEW x \in Clerks, StartEdit(x)
    PROVE  ProfileInvariant'
<1>1. PICK c \in ClerkRows : c = [op |-> "edit", row |-> profile, old |-> "DRAFT"]
  BY DEF ProfileInvariant, ProfileShape, ClerkRows, Statuses
<1>2. clerk' \in [Clerks -> ClerkRows] /\ clerk'[x] = c /\ \A y \in Clerks \ {x} : clerk'[y] = clerk[y]
  BY <1>1 DEF StartEdit, ProfileInvariant, ProfileShape
<1>3. c.op = "edit" /\ Sound(c.row)
  BY <1>1 DEF ProfileInvariant
<1> QED BY <1>2, <1>3, KeepsWithClerk DEF StartEdit

LEMMA KeepsWithBeforeSave ==
    ASSUME ProfileInvariant, NEW x \in Clerks, BeforeSave(x)
    PROVE  ProfileInvariant'
<1>1. PICK c \in ClerkRows : c = [op |-> "save", row |-> clerk[x].row, old |-> profile.status]
  BY DEF ProfileInvariant, ProfileShape, ClerkRows, ProfileRows
<1>2. clerk' \in [Clerks -> ClerkRows] /\ clerk'[x] = c /\ \A y \in Clerks \ {x} : clerk'[y] = clerk[y]
  BY <1>1 DEF BeforeSave, ProfileInvariant, ProfileShape, ClerkRows
<1>3. c.op = "save" /\ Sound(c.row)
  BY <1>1 DEF BeforeSave, ProfileInvariant, SoundToSave
<1> QED BY <1>2, <1>3, KeepsWithClerk DEF BeforeSave

LEMMA KeepsWithStartReview ==
    ASSUME ProfileInvariant, NEW x \in Clerks, NEW goal \in ByAdmin, NEW fields \in BOOLEAN,
           StartReview(x, goal, fields)
    PROVE  ProfileInvariant'
<1>1. PICK row \in ProfileRows : row = Decided(goal, fields)
  <2>1. /\ goal \in Statuses /\ (goal = "ACTIVE") \in BOOLEAN /\ (goal # "ACTIVE") \in BOOLEAN
        /\ (goal \in {"REJECTED", "DRAFT"} /\ fields) \in BOOLEAN
    BY DEF ByAdmin, Statuses
  <2> QED BY <2>1 DEF Decided, Row, ProfileRows
<1>2. submitted
  BY DEF StartReview, MayBecome, ProfileInvariant, Sound
<1>3. Sound(row) /\ row.status # "PENDING"
  BY <1>1, <1>2 DEF Sound, Decided, Row, StartReview, ByAdmin
<1>4. "DRAFT" \in Statuses
  BY DEF Statuses
<1>5. PICK c \in ClerkRows : c = [op |-> "review", row |-> row, old |-> "DRAFT"]
  BY <1>4 DEF ClerkRows
<1>6. clerk' \in [Clerks -> ClerkRows] /\ clerk'[x] = c /\ \A y \in Clerks \ {x} : clerk'[y] = clerk[y]
  BY <1>1, <1>5 DEF StartReview, ProfileInvariant, ProfileShape
<1> QED BY <1>3, <1>5, <1>6, KeepsWithClerk DEF StartReview

\* A row is saved, and the change of its status announced.
LEMMA KeepsWithSave ==
    ASSUME ProfileInvariant, NEW x \in Clerks, NEW row \in ProfileRows, NEW old \in Statuses,
           Sound(row), profile' = row, complete' \in BOOLEAN, Announce(old, row.status),
           clerk' = [clerk EXCEPT ![x] = NoClerk], submitted' = submitted, reverted' \in BOOLEAN,
           reverted => reverted',
           ~reverted' => \/ row.status = profile.status
                         \/ old # row.status
                         \/ row.status \notin {"PENDING", "ACTIVE", "REJECTED"}
    PROVE  ProfileInvariant'
<1> USE DEF ProfileInvariant
<1>1. ProfileShape'
  BY DEF ProfileShape, NoClerk, Row, ProfileRows, ClerkRows, Statuses, Announce
<1>2. Sound(profile)'
  BY DEF Sound
<1>3. SoundToSave'
  BY DEF SoundToSave, Sound, ProfileShape, NoClerk
<1>4. Informed'
  BY DEF Informed, Announce, ProfileShape, ProfileRows
<1> QED BY <1>1, <1>2, <1>3, <1>4

LEMMA KeepsWithSaveEdit ==
    ASSUME ProfileInvariant, NEW x \in Clerks, NEW full \in BOOLEAN, SaveEdit(x, full)
    PROVE  ProfileInvariant'
<1>1. PICK row \in ProfileRows, old \in Statuses :
        row = clerk[x].row /\ old = clerk[x].old /\ Sound(row)
  BY DEF SaveEdit, ProfileInvariant, ProfileShape, SoundToSave, ClerkRows
<1>2. Edited(row) \in ProfileRows /\ Sound(Edited(row))
  BY <1>1 DEF Edited, Row, ProfileRows, Statuses, Sound
<1>3. Edited(row).status = row.status \/ Edited(row).status = "DRAFT"
  BY DEF Edited, Row
<1>4. /\ profile' = Edited(row) /\ complete' \in BOOLEAN /\ Announce(old, Edited(row).status)
      /\ clerk' = [clerk EXCEPT ![x] = NoClerk] /\ submitted' = submitted
      /\ reverted' = (reverted \/ profile.status # row.status)
  BY <1>1 DEF SaveEdit
<1> QED BY <1>1, <1>2, <1>3, <1>4, KeepsWithSave DEF ProfileInvariant, ProfileShape

LEMMA KeepsWithReview ==
    ASSUME ProfileInvariant, NEW x \in Clerks, Review(x)
    PROVE  ProfileInvariant'
<1>1. PICK row \in ProfileRows, old \in Statuses :
        row = clerk[x].row /\ old = profile.status /\ Sound(row)
  BY DEF Review, ProfileInvariant, ProfileShape, SoundToSave, ProfileRows, ClerkRows
<1>2. /\ profile' = row /\ complete' \in BOOLEAN /\ Announce(old, row.status)
      /\ clerk' = [clerk EXCEPT ![x] = NoClerk] /\ submitted' = submitted
      /\ reverted' = reverted /\ reverted \in BOOLEAN
  BY <1>1 DEF Review, ProfileInvariant, ProfileShape
<1> QED BY <1>1, <1>2, KeepsWithSave

LEMMA KeepsWithSubmit ==
    ASSUME ProfileInvariant, Submit
    PROVE  ProfileInvariant'
<1> USE DEF ProfileInvariant, Submit
<1>1. profile' = Row("PENDING", FALSE, FALSE, profile.fields)
  BY DEF Row, ProfileShape, ProfileRows, Sound
<1>2. ProfileShape'
  BY <1>1 DEF ProfileShape, Row, ProfileRows, Statuses, Announce
<1>3. Sound(profile)'
  BY <1>1 DEF Sound, Row
<1>4. SoundToSave'
  BY DEF SoundToSave, Sound
<1>5. Informed'
  BY <1>1 DEF Informed, Announce, Row
<1> QED BY <1>2, <1>3, <1>4, <1>5

-----------------------------------------------------------------------------
LEMMA ProfilesBegin == ProfilesInit => ProfileInvariant
<1> SUFFICES ASSUME ProfilesInit PROVE ProfileInvariant
  OBVIOUS
<1> USE DEF ProfilesInit
<1>1. Row("DRAFT", FALSE, FALSE, FALSE) \in ProfileRows /\ "DRAFT" \in Statuses
  BY DEF Row, ProfileRows, Statuses
<1>2. NoClerk \in ClerkRows
  BY <1>1 DEF NoClerk, ClerkRows
<1>3. ProfileShape
  BY <1>1, <1>2 DEF ProfileShape
<1>4. Sound(profile) /\ SoundToSave /\ Informed
  BY DEF Sound, SoundToSave, Informed, Row, NoClerk
<1> QED BY <1>3, <1>4 DEF ProfileInvariant

LEMMA ProfilesStep == ProfileInvariant /\ [ProfilesNext]_profileVars => ProfileInvariant'
<1> SUFFICES ASSUME ProfileInvariant, [ProfilesNext]_profileVars PROVE ProfileInvariant'
  OBVIOUS
<1>1. CASE UNCHANGED profileVars
  BY <1>1 DEF profileVars, ProfileInvariant, ProfileShape, Sound, SoundToSave, Informed
<1>2. CASE BecomeIncomplete
  BY <1>2 DEF BecomeIncomplete, ProfileInvariant, ProfileShape, Sound, SoundToSave, Informed
<1>3. CASE Submit
  BY <1>3, KeepsWithSubmit
<1>4. ASSUME NEW x \in Clerks, StartEdit(x) \/ BeforeSave(x) \/ Review(x) PROVE ProfileInvariant'
  BY <1>4, KeepsWithStartEdit, KeepsWithBeforeSave, KeepsWithReview
<1>5. ASSUME NEW x \in Clerks, NEW full \in BOOLEAN, SaveEdit(x, full) PROVE ProfileInvariant'
  BY <1>5, KeepsWithSaveEdit
<1>6. ASSUME NEW x \in Clerks, NEW goal \in ByAdmin, NEW fields \in BOOLEAN,
             StartReview(x, goal, fields)
      PROVE  ProfileInvariant'
  BY <1>6, KeepsWithStartReview
<1> QED BY <1>1, <1>2, <1>3, <1>4, <1>5, <1>6 DEF ProfilesNext

\* For any number of requests under way: only what was submitted is reviewed, the approver and
\* the reason fit the status, and the notices tell it unless an edit put an old one back.
THEOREM ProfilesStaySafe == ProfilesSpec => []ProfilesSafe
<1>1. ProfilesSpec => []ProfileInvariant
  BY ProfilesBegin, ProfilesStep, PTL DEF ProfilesSpec
<1>2. ProfileInvariant => ProfilesSafe
  BY DEF ProfileInvariant, ProfileShape, ProfileRows, ClerkRows, Sound, Informed, ProfilesSafe,
         ProfilesTypeOK, ApprovedIffActive, ReasonFits, ReviewedWasSubmitted
<1> QED BY <1>1, <1>2, PTL

-----------------------------------------------------------------------------
(* Notices and their push. *)

NoticeStates == {"none", "open", "undone", "unread", "read", "cleared"}
Kept == {"unread", "read", "cleared"}
TellerRows == [op : {"idle", "open", "count", "send", "queue"}, about : SUBSET Notices,
               count : 0..Cardinality(Notices)]
PushRows == [step : {"none", "queued", "listed", "done"}, tries : 0..(MaxRetries + 1), to : SUBSET PushDevices]

NoticeShape ==
    /\ notice \in [Notices -> NoticeStates]
    /\ teller \in [Tellers -> TellerRows]
    /\ push \in [Notices -> PushRows]
    /\ badge \in 0..Cardinality(Notices)
    /\ owner \in [PushDevices -> {"user", "other", "nobody"}] /\ pushOn \in BOOLEAN
    /\ got \in [PushDevices -> [Notices -> Nat]]
    /\ answered \subseteq Notices /\ offBeat \in BOOLEAN

\* A request tells of rows that are open in its transaction, or of rows that were kept, and it
\* has not queued their push yet.
TellersFit ==
    \A x \in Tellers :
        /\ teller[x].op = "idle" => teller[x].about = {}
        /\ \A n \in teller[x].about :
               /\ teller[x].op = "open" => notice[n] = "open"
               /\ teller[x].op # "open" => notice[n] \in Kept
               /\ push[n].step = "none"

\* A row is told of by the request that wrote it.
OneAuthor == \A x, y \in Tellers : teller[x].about \cap teller[y].about # {} => x = y

\* Of what is pushed the row was kept; nothing was answered before the task ended, and a
\* device was reached at most once for each try.
PushFits(n) ==
    /\ push[n].step # "none" => notice[n] \in Kept
    /\ push[n].step # "done" => n \notin answered
    /\ push[n].step = "none" => push[n].tries = 0
    /\ push[n].step \in {"queued", "listed"} => push[n].tries <= MaxRetries
    /\ \A d \in PushDevices : got[d][n] <= push[n].tries + (IF n \in answered THEN 1 ELSE 0)

NoticeInvariant ==
    /\ NoticeShape
    /\ TellersFit
    /\ OneAuthor
    /\ \A n \in Notices : PushFits(n)
    /\ BadgeFollows

-----------------------------------------------------------------------------
LEMMA UnreadIsCounted ==
    /\ IsFiniteSet(Notices) /\ Cardinality(Notices) \in Nat /\ MaxRetries \in Nat
    /\ Cardinality(Unread) \in 0..Cardinality(Notices)
<1>1. Unread \subseteq Notices /\ IsFiniteSet(Notices) /\ MaxRetries \in Nat
  BY NotificationsAssumption DEF Unread
<1>2. IsFiniteSet(Unread) /\ Cardinality(Unread) <= Cardinality(Notices)
  BY <1>1, FS_Subset
<1> QED BY <1>1, <1>2, FS_CardinalityType

\* A request takes its next step: what a row of the requests looks like after it.
LEMMA TellerMoves ==
    ASSUME NoticeInvariant, NEW x \in Tellers, NEW op \in {"idle", "open", "count", "send", "queue"}
    PROVE  /\ Goes(x, op) => /\ teller' \in [Tellers -> TellerRows]
                             /\ teller'[x].op = op /\ teller'[x].about = teller[x].about
                             /\ \A y \in Tellers \ {x} : teller'[y] = teller[y]
           /\ Rests(x) => /\ teller' \in [Tellers -> TellerRows]
                          /\ teller'[x].op = "idle" /\ teller'[x].about = {}
                          /\ \A y \in Tellers \ {x} : teller'[y] = teller[y]
<1>1. teller \in [Tellers -> TellerRows] /\ teller[x] \in TellerRows
  BY DEF NoticeInvariant, NoticeShape
<1>2. 0 \in 0..Cardinality(Notices)
  BY UnreadIsCounted
<1>3. PICK r \in TellerRows : r = IdleTeller
  BY <1>2 DEF IdleTeller, TellerRows
<1>4. PICK old \in TellerRows : old = teller[x]
  BY <1>1
<1>5. PICK s \in TellerRows : s = [old EXCEPT !.op = op] /\ s.op = op /\ s.about = old.about
  <2>1. [old EXCEPT !.op = op] \in TellerRows /\ [old EXCEPT !.op = op].op = op
        /\ [old EXCEPT !.op = op].about = old.about
    BY DEF TellerRows
  <2> QED BY <2>1
<1>6. Goes(x, op) => teller' = [teller EXCEPT ![x] = s]
  BY <1>4, <1>5 DEF Goes
<1>7. Rests(x) => teller' = [teller EXCEPT ![x] = r]
  BY <1>3 DEF Rests
<1>8. r.op = "idle" /\ r.about = {}
  BY <1>3 DEF IdleTeller
<1> QED BY <1>1, <1>4, <1>5, <1>6, <1>7, <1>8

-----------------------------------------------------------------------------
\* Rows are written or change hands; pushes stay.
LEMMA KeepsWithNotices ==
    ASSUME NoticeInvariant, NEW x \in Tellers,
           notice' \in [Notices -> NoticeStates], teller' \in [Tellers -> TellerRows],
           \A y \in Tellers \ {x} : teller'[y] = teller[y],
           \A n \in Notices : notice[n] \in Kept => notice'[n] \in Kept,
           \A y \in Tellers \ {x} : \A n \in teller[y].about : notice[n] = "open" => notice'[n] = "open",
           teller'[x].about = {} \/ /\ \A y \in Tellers \ {x} : teller[y].about \cap teller'[x].about = {}
                                    /\ \A n \in teller'[x].about :
                                          /\ teller'[x].op = "open" => notice'[n] = "open"
                                          /\ teller'[x].op # "open" => notice'[n] \in Kept
                                          /\ push[n].step = "none",
           teller'[x].op = "idle" => teller'[x].about = {},
           BadgeFollows', UNCHANGED <<badge, push, owner, pushOn, got, answered, offBeat>>
    PROVE  NoticeInvariant'
<1>1. NoticeShape'
  BY DEF NoticeInvariant, NoticeShape
<1>2. TellersFit'
  BY DEF NoticeInvariant, NoticeShape, TellersFit, TellerRows
<1>3. OneAuthor'
  BY DEF NoticeInvariant, OneAuthor
<1>4. \A n \in Notices : PushFits(n)'
  BY DEF NoticeInvariant, PushFits
<1> QED BY <1>1, <1>2, <1>3, <1>4 DEF NoticeInvariant

LEMMA KeepsWithCreateNotice ==
    ASSUME NoticeInvariant, NEW x \in Tellers, NEW n \in Notices, CreateNotice(x, n)
    PROVE  NoticeInvariant'
<1>1. /\ teller \in [Tellers -> TellerRows] /\ teller[x] \in TellerRows /\ notice \in [Notices -> NoticeStates]
      /\ notice[n] = "none" /\ push \in [Notices -> PushRows] /\ PushFits(n)
  BY DEF NoticeInvariant, NoticeShape, CreateNotice
<1>2. notice' \in [Notices -> NoticeStates] /\ notice'[n] = "open" /\ \A m \in Notices \ {n} : notice'[m] = notice[m]
  BY <1>1 DEF CreateNotice, NoticeStates
<1>3. PICK r \in TellerRows : r = teller[x]
  BY <1>1
<1>4. PICK s \in TellerRows : s = [r EXCEPT !.op = "open", !.about = {n}] /\ s.op = "open" /\ s.about = {n}
  <2>1. [r EXCEPT !.op = "open", !.about = {n}] \in TellerRows /\ [r EXCEPT !.op = "open", !.about = {n}].op = "open"
        /\ [r EXCEPT !.op = "open", !.about = {n}].about = {n}
    BY DEF TellerRows
  <2> QED BY <2>1
<1>5. teller' = [teller EXCEPT ![x] = s]
  BY <1>3, <1>4 DEF CreateNotice
<1>6. /\ teller' \in [Tellers -> TellerRows] /\ teller'[x] = s
      /\ \A y \in Tellers \ {x} : teller'[y] = teller[y]
  BY <1>1, <1>5
<1>7. push[n].step = "none"
  BY <1>1 DEF PushFits, Kept, PushRows
<1>8. \A y \in Tellers : n \notin teller[y].about
  BY <1>1 DEF NoticeInvariant, TellersFit, Kept
<1>9. BadgeFollows'
  <2>1. Unread' = Unread
    BY <1>1, <1>2 DEF Unread
  <2>2. \A y \in Tellers : teller[y].op \in {"count", "send"} => teller'[y].op \in {"count", "send"}
    BY <1>6 DEF CreateNotice
  <2> QED BY <2>1, <2>2 DEF NoticeInvariant, BadgeFollows, CreateNotice
<1>10. \A m \in Notices : notice[m] \in Kept => notice'[m] \in Kept
  BY <1>1, <1>2 DEF Kept
<1>11. \A y \in Tellers \ {x} : \A m \in teller[y].about : notice[m] = "open" => notice'[m] = "open"
  BY <1>1, <1>2, <1>8 DEF TellerRows
<1> QED BY <1>2, <1>4, <1>6, <1>7, <1>8, <1>9, <1>10, <1>11, KeepsWithNotices DEF CreateNotice

\* The transaction of a request ends; its rows are kept, or they never were.
LEMMA KeepsWithEndOfTransaction ==
    ASSUME NoticeInvariant, NEW x \in Tellers, Commit(x) \/ Rollback(x)
    PROVE  NoticeInvariant'
<1>1. /\ teller \in [Tellers -> TellerRows] /\ notice \in [Notices -> NoticeStates]
      /\ teller[x].op = "open" /\ TellersFit /\ OneAuthor
  BY DEF NoticeInvariant, NoticeShape, Commit, Rollback
<1>2. /\ teller' \in [Tellers -> TellerRows]
      /\ \A y \in Tellers \ {x} : teller'[y] = teller[y]
      /\ \/ teller'[x].op = "count" /\ teller'[x].about = teller[x].about /\ Commit(x)
         \/ teller'[x].op = "idle" /\ teller'[x].about = {} /\ Rollback(x)
  BY TellerMoves DEF Commit, Rollback
<1>3. /\ notice' \in [Notices -> NoticeStates]
      /\ \A n \in Notices \ teller[x].about : notice'[n] = notice[n]
  BY <1>1 DEF Commit, Rollback, NoticeStates
<1>4. \A n \in teller[x].about : n \in Notices /\ notice[n] = "open" /\ push[n].step = "none"
  BY <1>1 DEF TellersFit, TellerRows
<1>5. \A y \in Tellers \ {x} : teller[y].about \cap teller[x].about = {}
  BY <1>1 DEF OneAuthor
<1>6. \A n \in Notices : notice[n] \in Kept => notice'[n] \in Kept
  BY <1>3, <1>4 DEF Kept
<1>7. \A y \in Tellers \ {x} : \A n \in teller[y].about : notice[n] = "open" => notice'[n] = "open"
  BY <1>1, <1>3, <1>5 DEF TellerRows
<1>8. CASE Commit(x)
  <2>1. \A n \in teller[x].about : notice'[n] = "unread"
    BY <1>4, <1>8 DEF Commit
  <2>2. teller'[x].op = "count" /\ teller'[x].about = teller[x].about
    BY <1>8, TellerMoves DEF Commit
  <2>3. BadgeFollows'
    BY <2>2 DEF BadgeFollows
  <2>4. \A n \in teller'[x].about : notice'[n] \in Kept /\ push[n].step = "none"
    BY <1>4, <2>1, <2>2 DEF Kept
  <2>5. UNCHANGED <<badge, push, owner, pushOn, got, answered, offBeat>>
    BY <1>8 DEF Commit
  <2> QED BY <1>2, <1>3, <1>5, <1>6, <1>7, <2>2, <2>3, <2>4, <2>5, KeepsWithNotices
<1>9. CASE Rollback(x)
  <2>1. teller'[x].op = "idle" /\ teller'[x].about = {}
    BY <1>9, TellerMoves DEF Rollback
  <2>2. Unread' = Unread
    BY <1>1, <1>3, <1>4, <1>9 DEF Unread, Rollback
  <2>3. \A y \in Tellers : teller[y].op \in {"count", "send"} => teller'[y].op \in {"count", "send"}
    BY <1>1, <1>2
  <2>4. BadgeFollows'
    BY <1>9, <2>2, <2>3 DEF NoticeInvariant, BadgeFollows, Rollback
  <2>5. UNCHANGED <<badge, push, owner, pushOn, got, answered, offBeat>>
    BY <1>9 DEF Rollback
  <2> QED BY <1>2, <1>3, <1>6, <1>7, <2>1, <2>4, <2>5, KeepsWithNotices
<1> QED BY <1>8, <1>9

\* Rows that were not read are; the number will be counted.
LEMMA KeepsWithReading ==
    ASSUME NoticeInvariant, NEW x \in Tellers, NEW S, S \subseteq Unread, notice' = ReadBy(S),
           teller[x].op = "idle", Goes(x, "count"),
           UNCHANGED <<badge, push, owner, pushOn, got, answered, offBeat>>
    PROVE  NoticeInvariant'
<1>1. notice \in [Notices -> NoticeStates] /\ teller[x].about = {} /\ teller \in [Tellers -> TellerRows]
  BY DEF NoticeInvariant, NoticeShape, TellersFit
<1>2. /\ teller' \in [Tellers -> TellerRows] /\ teller'[x].op = "count" /\ teller'[x].about = {}
      /\ \A y \in Tellers \ {x} : teller'[y] = teller[y]
  BY <1>1, TellerMoves
<1>3. notice' \in [Notices -> NoticeStates]
  BY <1>1 DEF ReadBy, NoticeStates
<1>4. \A n \in Notices : notice[n] \in Kept => notice'[n] \in Kept
  BY <1>1 DEF ReadBy, Kept
<1>5. \A n \in Notices : notice[n] = "open" => notice'[n] = "open"
  BY <1>1 DEF ReadBy, Unread
<1>6. \A y \in Tellers \ {x} : \A n \in teller[y].about : notice[n] = "open" => notice'[n] = "open"
  BY <1>1, <1>5 DEF TellerRows
<1>7. BadgeFollows'
  BY <1>2 DEF BadgeFollows
<1> QED BY <1>2, <1>3, <1>4, <1>6, <1>7, KeepsWithNotices

LEMMA KeepsWithClearAll ==
    ASSUME NoticeInvariant, ClearAll
    PROVE  NoticeInvariant'
<1>1. notice \in [Notices -> NoticeStates] /\ teller \in [Tellers -> TellerRows] /\ offBeat \in BOOLEAN
  BY DEF NoticeInvariant, NoticeShape
<1>2. notice' \in [Notices -> NoticeStates] /\ offBeat' \in BOOLEAN
  BY <1>1 DEF ClearAll, NoticeStates
<1>3. \A n \in Notices : /\ notice[n] \in Kept => notice'[n] \in Kept
                         /\ notice[n] = "open" => notice'[n] = "open"
  BY <1>1 DEF ClearAll, Kept
<1>4. NoticeShape'
  BY <1>2 DEF NoticeInvariant, NoticeShape, ClearAll
<1>5. TellersFit' /\ OneAuthor'
  BY <1>1, <1>3 DEF NoticeInvariant, TellersFit, OneAuthor, ClearAll, TellerRows
<1>6. \A n \in Notices : PushFits(n)'
  BY <1>3 DEF NoticeInvariant, PushFits, ClearAll
<1>7. BadgeFollows'
  <2>1. Unread = {} => Unread' = Unread
    BY <1>1 DEF Unread, ClearAll
  <2> QED BY <1>1, <2>1 DEF NoticeInvariant, BadgeFollows, ClearAll
<1> QED BY <1>4, <1>5, <1>6, <1>7 DEF NoticeInvariant

-----------------------------------------------------------------------------
\* What follows a commit: the rows stay.
LEMMA KeepsWithNumber ==
    ASSUME NoticeInvariant, NEW x \in Tellers, CountUnread(x) \/ SendCount(x) \/ SendFails(x) \/ TellerDies(x)
    PROVE  NoticeInvariant'
<1>1. /\ teller \in [Tellers -> TellerRows] /\ teller[x] \in TellerRows /\ notice' = notice /\ TellersFit /\ OneAuthor
      /\ teller[x].op \in {"count", "send", "queue"} /\ offBeat \in BOOLEAN /\ badge \in 0..Cardinality(Notices)
      /\ UNCHANGED <<push, owner, pushOn, got, answered>>
  BY DEF NoticeInvariant, NoticeShape, CountUnread, SendCount, SendFails, TellerDies
<1>2. /\ teller' \in [Tellers -> TellerRows]
      /\ \A y \in Tellers \ {x} : teller'[y] = teller[y]
      /\ teller'[x].op # "open" /\ (teller'[x].op = "idle" => teller'[x].about = {})
      /\ teller'[x].about \subseteq teller[x].about
  <2>1. CASE CountUnread(x)
    <3>1. PICK count \in 0..Cardinality(Notices) : count = Cardinality(Unread)
      BY UnreadIsCounted
    <3>2. PICK r \in TellerRows : r = teller[x]
      BY <1>1
    <3>3. PICK s \in TellerRows : s = [r EXCEPT !.op = "send", !.count = count] /\ s.op = "send" /\ s.about = r.about
      <4>1. [r EXCEPT !.op = "send", !.count = count] \in TellerRows
            /\ [r EXCEPT !.op = "send", !.count = count].op = "send"
            /\ [r EXCEPT !.op = "send", !.count = count].about = r.about
        BY DEF TellerRows
      <4> QED BY <4>1
    <3>4. teller' = [teller EXCEPT ![x] = s]
      BY <2>1, <3>1, <3>2, <3>3 DEF CountUnread
    <3> QED BY <1>1, <3>2, <3>3, <3>4
  <2>2. CASE ~CountUnread(x)
    <3>1. Goes(x, "queue") \/ Rests(x)
      BY <2>2 DEF SendCount, SendFails, TellerDies
    <3> QED BY <3>1, TellerMoves
  <2> QED BY <2>1, <2>2
<1>3. badge' \in 0..Cardinality(Notices) /\ offBeat' \in BOOLEAN
  BY <1>1 DEF CountUnread, SendCount, SendFails, TellerDies, TellerRows
<1>4. NoticeShape'
  BY <1>1, <1>2, <1>3 DEF NoticeInvariant, NoticeShape
<1>5. TellersFit'
  BY <1>1, <1>2 DEF TellersFit
<1>6. OneAuthor'
  BY <1>1, <1>2 DEF OneAuthor
<1>7. \A n \in Notices : PushFits(n)'
  BY <1>1 DEF NoticeInvariant, PushFits
<1>8. BadgeFollows'
  <2>1. Unread' = Unread
    BY <1>1 DEF Unread
  <2>2. CASE CountUnread(x)
    <3>1. teller'[x].op = "send"
      BY <1>1, <2>2 DEF CountUnread, TellerRows
    <3> QED BY <3>1 DEF BadgeFollows
  <2>3. CASE SendCount(x)
    BY <2>1, <2>3 DEF SendCount, BadgeFollows
  <2>4. CASE SendFails(x)
    BY <2>4 DEF SendFails, BadgeFollows
  <2>5. CASE TellerDies(x)
    BY <1>1, <1>2, <2>1, <2>5 DEF TellerDies, BadgeFollows, NoticeInvariant
  <2> QED BY <2>2, <2>3, <2>4, <2>5
<1> QED BY <1>4, <1>5, <1>6, <1>7, <1>8 DEF NoticeInvariant
-----------------------------------------------------------------------------
\* The push of a row is queued, and by nobody else.
LEMMA KeepsWithQueuePush ==
    ASSUME NoticeInvariant, NEW x \in Tellers, NEW reached \in BOOLEAN, QueuePush(x, reached)
    PROVE  NoticeInvariant'
<1>1. /\ teller \in [Tellers -> TellerRows] /\ TellersFit /\ OneAuthor /\ teller[x].op = "queue"
      /\ push \in [Notices -> PushRows] /\ Rests(x) /\ MaxRetries \in Nat
      /\ UNCHANGED <<notice, badge, owner, pushOn, got, answered, offBeat>>
  BY UnreadIsCounted DEF NoticeInvariant, NoticeShape, QueuePush
<1>2. /\ teller' \in [Tellers -> TellerRows] /\ teller'[x].op = "idle" /\ teller'[x].about = {}
      /\ \A y \in Tellers \ {x} : teller'[y] = teller[y]
  BY <1>1, TellerMoves
<1>3. PICK fresh \in PushRows : /\ fresh = [NoPush EXCEPT !.step = "queued"]
                                /\ fresh.step = "queued" /\ fresh.tries = 0
  <2>1. [NoPush EXCEPT !.step = "queued"] = [step |-> "queued", tries |-> 0, to |-> {}]
    BY DEF NoPush
  <2>2. 0 \in 0..(MaxRetries + 1)
    BY <1>1
  <2>3. [step |-> "queued", tries |-> 0, to |-> {}] \in PushRows
    BY <2>2 DEF PushRows
  <2> QED BY <2>1, <2>3
<1>4. push' = [n \in Notices |-> IF n \in teller[x].about /\ reached THEN fresh ELSE push[n]]
  BY <1>3 DEF QueuePush
<1>5. NoticeShape'
  BY <1>1, <1>2, <1>4 DEF NoticeInvariant, NoticeShape
<1>6. \A y \in Tellers \ {x} : teller[y].about \cap teller[x].about = {}
  BY <1>1 DEF OneAuthor
<1>7. TellersFit'
  BY <1>1, <1>2, <1>4, <1>6 DEF TellersFit, TellerRows
<1>8. OneAuthor'
  BY <1>1, <1>2 DEF OneAuthor
<1>9. ASSUME NEW n \in Notices PROVE PushFits(n)'
  <2>1. CASE push'[n] = push[n]
    BY <1>1, <2>1 DEF NoticeInvariant, PushFits
  <2>2. CASE push'[n] # push[n]
    <3>1. n \in teller[x].about /\ push'[n] = fresh
      BY <1>4, <2>2
    <3>2. notice[n] \in Kept /\ push[n].step = "none" /\ PushFits(n)
      BY <1>1, <3>1 DEF TellersFit, NoticeInvariant
    <3>3. push[n].tries = 0
      BY <3>2 DEF PushFits
    <3> QED BY <1>1, <1>3, <3>1, <3>2, <3>3 DEF PushFits
  <2> QED BY <2>1, <2>2
<1>10. BadgeFollows'
  <2>1. Unread' = Unread
    BY <1>1 DEF Unread
  <2> QED BY <1>1, <1>2, <2>1 DEF NoticeInvariant, BadgeFollows
<1> QED BY <1>5, <1>7, <1>8, <1>9, <1>10 DEF NoticeInvariant

\* The task of one row goes on: it was queued, and stays so or ends.
LEMMA KeepsWithTask ==
    ASSUME NoticeInvariant, NEW n \in Notices, NEW p \in PushRows,
           push[n].step # "none", p.step # "none", push' = [push EXCEPT ![n] = p],
           got' \in [PushDevices -> [Notices -> Nat]], answered' \subseteq Notices,
           \A d \in PushDevices, m \in Notices \ {n} : got'[d][m] = got[d][m],
           \A m \in Notices \ {n} : m \in answered' <=> m \in answered,
           p.step # "done" => n \notin answered',
           p.step \in {"queued", "listed"} => p.tries <= MaxRetries,
           \A d \in PushDevices : got'[d][n] <= p.tries + (IF n \in answered' THEN 1 ELSE 0),
           UNCHANGED <<notice, teller, badge, owner, pushOn, offBeat>>
    PROVE  NoticeInvariant'
<1>1. push \in [Notices -> PushRows] /\ teller \in [Tellers -> TellerRows] /\ PushFits(n)
  BY DEF NoticeInvariant, NoticeShape
<1>2. push' \in [Notices -> PushRows] /\ push'[n] = p /\ \A m \in Notices \ {n} : push'[m] = push[m]
  BY <1>1
<1>3. NoticeShape'
  BY <1>2 DEF NoticeInvariant, NoticeShape
<1>4. TellersFit' /\ OneAuthor'
  BY <1>1, <1>2 DEF NoticeInvariant, TellersFit, OneAuthor, TellerRows
<1>5. PushFits(n)'
  BY <1>1, <1>2 DEF PushFits
<1>6. ASSUME NEW m \in Notices \ {n} PROVE PushFits(m)'
  <2>1. PushFits(m) /\ push'[m] = push[m]
    BY <1>2 DEF NoticeInvariant
  <2> QED BY <2>1 DEF PushFits
<1>7. BadgeFollows'
  BY DEF NoticeInvariant, BadgeFollows, Unread
<1> QED BY <1>3, <1>4, <1>5, <1>6, <1>7 DEF NoticeInvariant

LEMMA KeepsWithListDevices ==
    ASSUME NoticeInvariant, NEW n \in Notices, ListDevices(n)
    PROVE  NoticeInvariant'
<1>1. push \in [Notices -> PushRows] /\ PushFits(n) /\ answered \subseteq Notices
      /\ got \in [PushDevices -> [Notices -> Nat]] /\ push[n].step = "queued"
      /\ UNCHANGED <<notice, teller, badge, owner, pushOn, got, answered, offBeat>>
  BY DEF NoticeInvariant, NoticeShape, ListDevices
<1>2. PICK old \in PushRows : old = push[n]
  BY <1>1
<1>3. PICK step \in {"listed", "done"} : step = IF pushOn /\ Own # {} THEN "listed" ELSE "done"
  OBVIOUS
<1>4. PICK to \in SUBSET PushDevices : to = IF pushOn THEN Own ELSE {}
  BY DEF Own
<1>5. PICK p \in PushRows : p = [old EXCEPT !.step = step, !.to = to] /\ p.step = step /\ p.tries = old.tries
  <2>1. [old EXCEPT !.step = step, !.to = to] \in PushRows /\ [old EXCEPT !.step = step, !.to = to].step = step
        /\ [old EXCEPT !.step = step, !.to = to].tries = old.tries
    BY DEF PushRows
  <2> QED BY <2>1
<1>6. push' = [push EXCEPT ![n] = p]
  BY <1>2, <1>3, <1>4, <1>5 DEF ListDevices
<1>7. n \notin answered' /\ (p.step \in {"queued", "listed"} => p.tries <= MaxRetries)
      /\ \A d \in PushDevices : got'[d][n] <= p.tries + (IF n \in answered' THEN 1 ELSE 0)
  BY <1>1, <1>2, <1>5 DEF PushFits
<1>8. /\ got' \in [PushDevices -> [Notices -> Nat]] /\ answered' \subseteq Notices /\ push[n].step # "none"
      /\ \A d \in PushDevices, m \in Notices \ {n} : got'[d][m] = got[d][m]
      /\ \A m \in Notices \ {n} : m \in answered' <=> m \in answered
      /\ p.step # "none"
  BY <1>1, <1>5
<1> QED BY <1>1, <1>6, <1>7, <1>8, KeepsWithTask

\* What is sent reaches the devices that were listed, each once.
LEMMA ReachesOnce ==
    ASSUME NoticeInvariant, NEW n \in Notices, Reaches(n)
    PROVE  /\ got' \in [PushDevices -> [Notices -> Nat]]
           /\ \A d \in PushDevices : /\ got'[d][n] <= got[d][n] + 1
                                     /\ \A m \in Notices \ {n} : got'[d][m] = got[d][m]
<1>1. got \in [PushDevices -> [Notices -> Nat]]
  BY DEF NoticeInvariant, NoticeShape
<1>2. \A d \in PushDevices : got[d] \in [Notices -> Nat] /\ got[d][n] \in Nat
  BY <1>1
<1>3. ASSUME NEW d \in PushDevices
      PROVE  /\ got'[d] \in [Notices -> Nat] /\ got'[d][n] <= got[d][n] + 1
             /\ \A m \in Notices \ {n} : got'[d][m] = got[d][m]
  <2>1. PICK g \in [Notices -> Nat] : g = got[d] /\ g[n] \in Nat
    BY <1>2
  <2>2. got'[d] = IF d \in push[n].to THEN [g EXCEPT ![n] = g[n] + 1] ELSE g
    BY <2>1 DEF Reaches
  <2> QED BY <2>1, <2>2
<1>4. got' \in [PushDevices -> [Notices -> Nat]]
  <2>1. DOMAIN got' = PushDevices /\ got' = [d \in PushDevices |-> got'[d]]
    BY DEF Reaches
  <2> QED BY <1>3, <2>1
<1> QED BY <1>3, <1>4

LEMMA KeepsWithPostPush ==
    ASSUME NoticeInvariant, NEW n \in Notices, PostPush(n)
    PROVE  NoticeInvariant'
<1>1. push \in [Notices -> PushRows] /\ PushFits(n) /\ answered \subseteq Notices /\ push[n].step = "listed"
      /\ got \in [PushDevices -> [Notices -> Nat]]
      /\ UNCHANGED <<notice, teller, badge, owner, pushOn, offBeat>>
  BY DEF NoticeInvariant, NoticeShape, PostPush
<1>2. PICK old \in PushRows : old = push[n]
  BY <1>1
<1>3. PICK p \in PushRows : p = [old EXCEPT !.step = "done"] /\ p.step = "done" /\ p.tries = old.tries
  <2>1. [old EXCEPT !.step = "done"] \in PushRows /\ [old EXCEPT !.step = "done"].step = "done"
        /\ [old EXCEPT !.step = "done"].tries = old.tries
    BY DEF PushRows
  <2> QED BY <2>1
<1>4. push' = [push EXCEPT ![n] = p]
  BY <1>2, <1>3 DEF PostPush
<1>5. answered' = answered \cup {n} /\ n \notin answered
  BY <1>1 DEF PostPush, PushFits
<1>6. /\ got' \in [PushDevices -> [Notices -> Nat]]
      /\ \A d \in PushDevices : /\ got'[d][n] <= got[d][n] + 1
                                /\ \A m \in Notices \ {n} : got'[d][m] = got[d][m]
  BY ReachesOnce DEF PostPush
<1>7. \A d \in PushDevices : got'[d][n] <= p.tries + (IF n \in answered' THEN 1 ELSE 0)
  <2>1. \A d \in PushDevices : got[d][n] <= old.tries /\ got[d][n] \in Nat /\ got'[d][n] \in Nat /\ old.tries \in Nat
    BY <1>1, <1>2, <1>5, <1>6 DEF PushFits, PushRows
  <2> QED BY <1>3, <1>5, <1>6, <2>1
<1>8. /\ answered' \subseteq Notices /\ push[n].step # "none" /\ p.step # "none"
      /\ \A d \in PushDevices, m \in Notices \ {n} : got'[d][m] = got[d][m]
      /\ \A m \in Notices \ {n} : m \in answered' <=> m \in answered
      /\ p.step # "done" => n \notin answered'
      /\ p.step \in {"queued", "listed"} => p.tries <= MaxRetries
  BY <1>1, <1>3, <1>5, <1>6
<1> QED BY <1>1, <1>4, <1>6, <1>7, <1>8, KeepsWithTask

LEMMA KeepsWithPostFails ==
    ASSUME NoticeInvariant, NEW n \in Notices, NEW sent \in BOOLEAN, PostFails(n, sent)
    PROVE  NoticeInvariant'
<1>1. push \in [Notices -> PushRows] /\ PushFits(n) /\ answered \subseteq Notices /\ push[n].step = "listed"
      /\ got \in [PushDevices -> [Notices -> Nat]] /\ MaxRetries \in Nat
      /\ UNCHANGED <<notice, teller, badge, owner, pushOn, answered, offBeat>>
  BY UnreadIsCounted DEF NoticeInvariant, NoticeShape, PostFails
<1>2. PICK old \in PushRows : old = push[n]
  BY <1>1
<1>3. old.tries <= MaxRetries /\ old.tries \in Nat /\ n \notin answered /\ n \notin answered'
      /\ \A d \in PushDevices : got[d][n] <= old.tries
  BY <1>1, <1>2 DEF PushFits, PushRows
<1>4. PICK p \in PushRows :
        /\ p = [step |-> IF old.tries < MaxRetries THEN "queued" ELSE "done", tries |-> old.tries + 1, to |-> {}]
        /\ p.step \in {"queued", "done"} /\ p.tries = old.tries + 1 /\ (p.step = "queued" => old.tries < MaxRetries)
  <2>1. old.tries + 1 \in 0..(MaxRetries + 1)
    BY <1>1, <1>3
  <2>2. PICK step \in {"queued", "done"} : step = IF old.tries < MaxRetries THEN "queued" ELSE "done"
    OBVIOUS
  <2>3. [step |-> step, tries |-> old.tries + 1, to |-> {}] \in PushRows
    BY <2>1 DEF PushRows
  <2>4. step = "queued" => old.tries < MaxRetries
    BY <2>2
  <2> QED BY <2>2, <2>3, <2>4
<1>5. push' = [push EXCEPT ![n] = p]
  BY <1>2, <1>4 DEF PostFails, Again
<1>6. /\ got' \in [PushDevices -> [Notices -> Nat]]
      /\ \A d \in PushDevices : /\ got'[d][n] <= got[d][n] + 1
                                /\ \A m \in Notices \ {n} : got'[d][m] = got[d][m]
  <2>1. CASE sent
    BY <2>1, ReachesOnce DEF PostFails
  <2>2. CASE ~sent
    BY <1>1, <2>2 DEF PostFails
  <2> QED BY <2>1, <2>2
<1>7. \A d \in PushDevices : got'[d][n] <= p.tries + (IF n \in answered' THEN 1 ELSE 0)
  <2>1. \A d \in PushDevices : got[d][n] \in Nat /\ got'[d][n] \in Nat
    BY <1>1, <1>6
  <2> QED BY <1>3, <1>4, <1>6, <2>1
<1>8. /\ answered' \subseteq Notices /\ push[n].step # "none" /\ p.step # "none"
      /\ \A d \in PushDevices, m \in Notices \ {n} : got'[d][m] = got[d][m]
      /\ \A m \in Notices \ {n} : m \in answered' <=> m \in answered
      /\ p.step # "done" => n \notin answered'
      /\ p.step \in {"queued", "listed"} => p.tries <= MaxRetries
  BY <1>1, <1>3, <1>4, <1>6
<1> QED BY <1>1, <1>5, <1>6, <1>7, <1>8, KeepsWithTask

-----------------------------------------------------------------------------
LEMMA NotificationsBegin == NotificationsInit => NoticeInvariant
<1> SUFFICES ASSUME NotificationsInit PROVE NoticeInvariant
  OBVIOUS
<1> USE DEF NotificationsInit
<1>1. 0 \in 0..Cardinality(Notices) /\ 0 \in 0..(MaxRetries + 1)
  BY UnreadIsCounted
<1>2. IdleTeller \in TellerRows /\ NoPush \in PushRows
  BY <1>1 DEF IdleTeller, TellerRows, NoPush, PushRows
<1>3. NoticeShape
  BY <1>1, <1>2 DEF NoticeShape, NoticeStates
<1>4. TellersFit /\ OneAuthor
  BY DEF TellersFit, OneAuthor, IdleTeller
<1>5. \A n \in Notices : PushFits(n)
  BY DEF PushFits, NoPush
<1>6. BadgeFollows
  <2>1. Unread = {}
    BY DEF Unread
  <2> QED BY <2>1, FS_EmptySet DEF BadgeFollows
<1> QED BY <1>3, <1>4, <1>5, <1>6 DEF NoticeInvariant

LEMMA NotificationsStep == NoticeInvariant /\ [NotificationsNext]_noticeVars => NoticeInvariant'
<1> SUFFICES ASSUME NoticeInvariant, [NotificationsNext]_noticeVars PROVE NoticeInvariant'
  OBVIOUS
<1>1. CASE UNCHANGED noticeVars
  BY <1>1 DEF noticeVars, NoticeInvariant, NoticeShape, TellersFit, OneAuthor, PushFits, BadgeFollows, Unread
<1>2. CASE ClearAll
  BY <1>2, KeepsWithClearAll
<1>3. CASE SetPreference
  BY <1>3 DEF SetPreference, NoticeInvariant, NoticeShape, TellersFit, OneAuthor, PushFits, BadgeFollows, Unread
<1>4. ASSUME NEW d \in PushDevices, NEW who \in {"user", "other", "nobody"}, RegisterDevice(d, who)
      PROVE  NoticeInvariant'
  BY <1>4 DEF RegisterDevice, NoticeInvariant, NoticeShape, TellersFit, OneAuthor, PushFits, BadgeFollows, Unread
<1>5. ASSUME NEW x \in Tellers, Commit(x) \/ Rollback(x) PROVE NoticeInvariant'
  BY <1>5, KeepsWithEndOfTransaction
<1>6. ASSUME NEW x \in Tellers, CountUnread(x) \/ SendCount(x) \/ SendFails(x) \/ TellerDies(x)
      PROVE  NoticeInvariant'
  BY <1>6, KeepsWithNumber
<1>7. ASSUME NEW x \in Tellers, MarkAllRead(x) PROVE NoticeInvariant'
  BY <1>7, KeepsWithReading DEF MarkAllRead
<1>8. ASSUME NEW x \in Tellers, NEW n \in Notices, MarkRead(x, n) PROVE NoticeInvariant'
  <2>1. {n} \subseteq Unread
    BY <1>8 DEF MarkRead
  <2> QED BY <1>8, <2>1, KeepsWithReading DEF MarkRead
<1>9. ASSUME NEW x \in Tellers, NEW n \in Notices, CreateNotice(x, n) PROVE NoticeInvariant'
  BY <1>9, KeepsWithCreateNotice
<1>10. ASSUME NEW x \in Tellers, NEW reached \in BOOLEAN, QueuePush(x, reached) PROVE NoticeInvariant'
  BY <1>10, KeepsWithQueuePush
<1>11. ASSUME NEW n \in Notices, ListDevices(n) \/ PostPush(n) PROVE NoticeInvariant'
  BY <1>11, KeepsWithListDevices, KeepsWithPostPush
<1>12. ASSUME NEW n \in Notices, NEW sent \in BOOLEAN, PostFails(n, sent) PROVE NoticeInvariant'
  BY <1>12, KeepsWithPostFails
<1> QED BY <1>1, <1>2, <1>3, <1>4, <1>5, <1>6, <1>7, <1>8, <1>9, <1>10, <1>11, <1>12 DEF NotificationsNext

\* For any number of notices, requests and devices: nothing is pushed that was rolled back, a
\* device hears again only after a failure, and the badge follows the unread rows unless a number
\* was lost or overtaken.
THEOREM NotificationsStaySafe == NotificationsSpec => []NotificationsSafe
<1>1. NotificationsSpec => []NoticeInvariant
  BY NotificationsBegin, NotificationsStep, PTL DEF NotificationsSpec
<1>2. NoticeInvariant => NotificationsSafe
  <2> SUFFICES ASSUME NoticeInvariant PROVE NotificationsSafe
    OBVIOUS
  <2>1. NotificationsTypeOK
    BY DEF NoticeInvariant, NoticeShape, NoticeStates, PushRows, TellerRows, PushFits, NotificationsTypeOK
  <2>2. PushedOnce
    BY DEF NoticeInvariant, PushFits, PushedOnce
  <2>3. PushedWasKept
    <3> SUFFICES ASSUME NEW d \in PushDevices, NEW n \in Notices, got[d][n] > 0
                 PROVE  notice[n] \notin {"none", "open", "undone"}
      BY DEF PushedWasKept
    <3>1. PushFits(n) /\ got[d][n] \in Nat
      BY DEF NoticeInvariant, NoticeShape
    <3>2. push[n].step # "none"
      BY <3>1 DEF PushFits
    <3> QED BY <3>1, <3>2 DEF PushFits, Kept
  <2> QED BY <2>1, <2>2, <2>3 DEF NoticeInvariant, NotificationsSafe
<1> QED BY <1>1, <1>2, PTL

-----------------------------------------------------------------------------
(* Reminders. *)

VisitRows == [waiting : BOOLEAN, worker : BOOLEAN, ahead : {"far", "hour", "past"}, sent : BOOLEAN,
              moves : 0..MaxMoves]

ReminderShape ==
    /\ visit \in VisitRows
    /\ listed \in [ReminderRuns -> {None} \cup 0..MaxMoves]
    /\ reminders \in [0..MaxMoves -> Nat]

Listing(m) == {j \in ReminderRuns : listed[j] = m}

\* No run has listed a time that is still to come, and nobody was reminded of it; the present
\* time is reminded of once, by the run that marks it; a time of the past at most once more by
\* each run that still lists it.
RemindersFit(m) ==
    /\ m > visit.moves => reminders[m] = 0 /\ Listing(m) = {}
    /\ m = visit.moves => reminders[m] <= 1 /\ (~visit.sent => reminders[m] = 0)
    /\ m < visit.moves => reminders[m] + Cardinality(Listing(m)) <= 1 + Cardinality(ReminderRuns)

ReminderInvariant ==
    /\ ReminderShape
    /\ \A m \in 0..MaxMoves : RemindersFit(m)
    /\ SentWasReminded

-----------------------------------------------------------------------------
LEMMA ListingsAreCounted ==
    /\ MaxMoves \in Nat /\ Cardinality(ReminderRuns) \in Nat
    /\ \A m : /\ IsFiniteSet(Listing(m)) /\ Cardinality(Listing(m)) \in Nat
              /\ Cardinality(Listing(m)) <= Cardinality(ReminderRuns)
<1>1. IsFiniteSet(ReminderRuns) /\ MaxMoves \in Nat
  BY RemindersAssumption
<1>2. ASSUME NEW m PROVE /\ IsFiniteSet(Listing(m)) /\ Cardinality(Listing(m)) \in Nat
                         /\ Cardinality(Listing(m)) <= Cardinality(ReminderRuns)
  <2>1. Listing(m) \subseteq ReminderRuns
    BY DEF Listing
  <2> QED BY <1>1, <2>1, FS_Subset, FS_CardinalityType
<1> QED BY <1>1, <1>2, FS_CardinalityType

LEMMA KeepsWithListVisit ==
    ASSUME ReminderInvariant, NEW j \in ReminderRuns, ListVisit(j)
    PROVE  ReminderInvariant'
<1>1. /\ visit \in VisitRows /\ listed \in [ReminderRuns -> {None} \cup 0..MaxMoves]
      /\ listed[j] = None /\ UNCHANGED <<visit, reminders>>
  BY DEF ReminderInvariant, ReminderShape, ListVisit
<1>2. visit.moves \in 0..MaxMoves /\ visit.moves \in Nat
  BY <1>1 DEF VisitRows
<1>3. listed' = [listed EXCEPT ![j] = visit.moves] /\ listed' \in [ReminderRuns -> {None} \cup 0..MaxMoves]
  BY <1>1, <1>2 DEF ListVisit
<1>4. ReminderShape'
  BY <1>1, <1>3 DEF ReminderInvariant, ReminderShape
<1>5. ASSUME NEW m \in 0..MaxMoves PROVE RemindersFit(m)'
  <2>1. RemindersFit(m)
    BY DEF ReminderInvariant
  <2>2. m # visit.moves => Listing(m)' = Listing(m)
    BY <1>1, <1>2, <1>3 DEF Listing, None
  <2> QED BY <1>1, <1>2, <2>1, <2>2 DEF RemindersFit
<1>6. SentWasReminded'
  BY <1>1 DEF ReminderInvariant, SentWasReminded
<1> QED BY <1>4, <1>5, <1>6 DEF ReminderInvariant

LEMMA KeepsWithRemind ==
    ASSUME ReminderInvariant, NEW j \in ReminderRuns, Remind(j)
    PROVE  ReminderInvariant'
<1>1. /\ visit \in VisitRows /\ listed \in [ReminderRuns -> {None} \cup 0..MaxMoves]
      /\ reminders \in [0..MaxMoves -> Nat]
      /\ listed[j] # None /\ listed' = [listed EXCEPT ![j] = None]
  BY DEF ReminderInvariant, ReminderShape, Remind
<1>2. visit.moves \in 0..MaxMoves /\ visit.sent \in BOOLEAN /\ visit.moves \in Nat /\ MaxMoves \in Nat
  BY <1>1, ListingsAreCounted DEF VisitRows
<1>3. visit' \in VisitRows /\ visit'.sent /\ visit'.moves = visit.moves
  <2>1. PICK v \in VisitRows : v = visit
    BY <1>1
  <2>2. [v EXCEPT !.sent = TRUE] \in VisitRows /\ [v EXCEPT !.sent = TRUE].sent
        /\ [v EXCEPT !.sent = TRUE].moves = v.moves
    BY DEF VisitRows
  <2> QED BY <2>1, <2>2 DEF Remind
<1>4. PICK t \in 0..MaxMoves : t = listed[j]
  BY <1>1
<1>5. t <= visit.moves
  <2>1. RemindersFit(t) /\ j \in Listing(t)
    BY <1>4 DEF ReminderInvariant, Listing
  <2> QED BY <1>2, <2>1 DEF RemindersFit
<1>6. reminders' = IF ~visit.sent THEN [reminders EXCEPT ![t] = reminders[t] + 1] ELSE reminders
  BY <1>4 DEF Remind, Claimed
<1>7. reminders' \in [0..MaxMoves -> Nat] /\ reminders[t] \in Nat
  BY <1>1, <1>6
<1>8. listed' \in [ReminderRuns -> {None} \cup 0..MaxMoves]
  BY <1>1
<1>9. ReminderShape'
  BY <1>3, <1>7, <1>8 DEF ReminderShape
<1>10. ASSUME NEW m \in 0..MaxMoves PROVE RemindersFit(m)'
  <2>1. RemindersFit(m)
    BY DEF ReminderInvariant
  <2>2. m \in Nat /\ m # None
    BY <1>2 DEF None
  <2>3. CASE m = t
    <3>1. Listing(m)' = Listing(m) \ {j} /\ j \in Listing(m)
      BY <1>1, <1>4, <2>2, <2>3 DEF Listing
    <3>2. Cardinality(Listing(m)') = Cardinality(Listing(m)) - 1
      BY <3>1, ListingsAreCounted, FS_RemoveElement
    <3>3. Cardinality(Listing(m)) \in Nat /\ Cardinality(ReminderRuns) \in Nat
      BY ListingsAreCounted
    <3>4. reminders'[m] = IF ~visit.sent THEN reminders[m] + 1 ELSE reminders[m]
      BY <1>1, <1>6, <2>3
    <3> QED BY <1>2, <1>3, <1>5, <1>7, <2>1, <2>3, <3>2, <3>3, <3>4 DEF RemindersFit
  <2>4. CASE m # t
    <3>1. Listing(m)' = Listing(m) /\ reminders'[m] = reminders[m]
      BY <1>1, <1>4, <1>6, <2>2, <2>4 DEF Listing
    <3> QED BY <1>2, <1>3, <2>1, <3>1 DEF RemindersFit
  <2> QED BY <2>3, <2>4
<1>11. SentWasReminded'
  <2>1. CASE visit.sent
    BY <1>3, <1>6, <2>1 DEF ReminderInvariant, SentWasReminded
  <2>2. CASE ~visit.sent
    <3>1. reminders'[t] > 0 /\ t \in 0..visit'.moves
      BY <1>1, <1>2, <1>3, <1>5, <1>6, <1>7, <2>2
    <3> QED BY <3>1 DEF SentWasReminded
  <2> QED BY <2>1, <2>2
<1> QED BY <1>9, <1>10, <1>11 DEF ReminderInvariant

\* The session changes, but neither its time nor its mark.
LEMMA KeepsWithVisit ==
    ASSUME ReminderInvariant, visit' \in VisitRows, visit'.sent = visit.sent, visit'.moves = visit.moves,
           UNCHANGED <<listed, reminders>>
    PROVE  ReminderInvariant'
<1>1. ReminderShape'
  BY DEF ReminderInvariant, ReminderShape
<1>2. \A m \in 0..MaxMoves : RemindersFit(m)'
  BY DEF ReminderInvariant, RemindersFit, Listing
<1>3. SentWasReminded'
  BY DEF ReminderInvariant, SentWasReminded
<1> QED BY <1>1, <1>2, <1>3 DEF ReminderInvariant

LEMMA KeepsWithEditVisit ==
    ASSUME ReminderInvariant, NEW ahead \in {"far", "hour"}, NEW moving \in BOOLEAN, EditVisit(ahead, moving)
    PROVE  ReminderInvariant'
<1>1. visit \in VisitRows /\ UNCHANGED <<listed, reminders>>
  BY DEF ReminderInvariant, ReminderShape, EditVisit
<1>2. PICK v \in VisitRows : v = visit /\ v.moves \in 0..MaxMoves
  BY <1>1 DEF VisitRows
<1>3. CASE ~moving
  BY <1>1, <1>3, KeepsWithVisit DEF EditVisit
<1>4. CASE moving
  <2>1. v.moves < MaxMoves /\ MaxMoves \in Nat
    BY <1>2, <1>4, ListingsAreCounted DEF EditVisit
  <2>2. PICK n \in 0..MaxMoves : n = v.moves + 1
    BY <1>2, <2>1
  <2>3. visit' = [v EXCEPT !.ahead = ahead, !.sent = FALSE, !.moves = n]
    BY <1>2, <1>4, <2>2 DEF EditVisit
  <2>4. /\ [v EXCEPT !.ahead = ahead, !.sent = FALSE, !.moves = n] \in VisitRows
        /\ [v EXCEPT !.ahead = ahead, !.sent = FALSE, !.moves = n].sent = FALSE
        /\ [v EXCEPT !.ahead = ahead, !.sent = FALSE, !.moves = n].moves = n
    BY DEF VisitRows
  <2>5. visit' \in VisitRows /\ ~visit'.sent /\ visit'.moves = n
    BY <2>3, <2>4
  <2>6. ReminderShape'
    BY <1>1, <2>5 DEF ReminderInvariant, ReminderShape
  <2>7. ASSUME NEW m \in 0..MaxMoves PROVE RemindersFit(m)'
    <3>1. RemindersFit(m) /\ reminders[m] \in Nat
      BY DEF ReminderInvariant, ReminderShape
    <3>2. Listing(m)' = Listing(m)
      BY <1>1 DEF Listing
    <3>3. /\ Cardinality(Listing(m)) \in Nat /\ Cardinality(ReminderRuns) \in Nat
          /\ Cardinality(Listing(m)) <= Cardinality(ReminderRuns)
      BY ListingsAreCounted
    <3> QED BY <1>1, <1>2, <2>1, <2>2, <2>5, <3>1, <3>2, <3>3 DEF RemindersFit
  <2>8. SentWasReminded'
    BY <2>5 DEF SentWasReminded
  <2> QED BY <2>6, <2>7, <2>8 DEF ReminderInvariant
<1> QED BY <1>3, <1>4

LEMMA RemindersBegin == RemindersInit => ReminderInvariant
<1> SUFFICES ASSUME RemindersInit PROVE ReminderInvariant
  OBVIOUS
<1> USE DEF RemindersInit
<1>1. 0 \in 0..MaxMoves /\ MaxMoves \in Nat
  BY ListingsAreCounted
<1>2. ReminderShape
  BY <1>1 DEF ReminderShape, VisitRows
<1>3. ASSUME NEW m \in 0..MaxMoves PROVE RemindersFit(m)
  <2>1. Listing(m) = {}
    BY DEF Listing, None
  <2> QED BY <2>1 DEF RemindersFit
<1>4. SentWasReminded
  BY DEF SentWasReminded
<1> QED BY <1>2, <1>3, <1>4 DEF ReminderInvariant

LEMMA RemindersStep == ReminderInvariant /\ [RemindersNext]_reminderVars => ReminderInvariant'
<1> SUFFICES ASSUME ReminderInvariant, [RemindersNext]_reminderVars PROVE ReminderInvariant'
  OBVIOUS
<1>1. PICK v \in VisitRows : v = visit
  BY DEF ReminderInvariant, ReminderShape
<1>2. CASE UNCHANGED reminderVars
  BY <1>1, <1>2, KeepsWithVisit DEF reminderVars
<1>3. CASE ChangeWorker
  <2>1. /\ [v EXCEPT !.worker = ~v.worker] \in VisitRows
        /\ [v EXCEPT !.worker = ~v.worker].sent = v.sent
        /\ [v EXCEPT !.worker = ~v.worker].moves = v.moves
    BY DEF VisitRows
  <2>2. visit' = [v EXCEPT !.worker = ~v.worker] /\ UNCHANGED <<listed, reminders>>
    BY <1>1, <1>3 DEF ChangeWorker
  <2> QED BY <1>1, <2>1, <2>2, KeepsWithVisit
<1>4. CASE CancelVisit
  <2>1. /\ [v EXCEPT !.waiting = FALSE] \in VisitRows
        /\ [v EXCEPT !.waiting = FALSE].sent = v.sent
        /\ [v EXCEPT !.waiting = FALSE].moves = v.moves
    BY DEF VisitRows
  <2>2. visit' = [v EXCEPT !.waiting = FALSE] /\ UNCHANGED <<listed, reminders>>
    BY <1>1, <1>4 DEF CancelVisit
  <2> QED BY <1>1, <2>1, <2>2, KeepsWithVisit
<1>5. CASE ComeCloser
  <2>1. PICK ahead \in {"hour", "past"} : ahead = IF v.ahead = "far" THEN "hour" ELSE "past"
    OBVIOUS
  <2>2. /\ [v EXCEPT !.ahead = ahead] \in VisitRows
        /\ [v EXCEPT !.ahead = ahead].sent = v.sent
        /\ [v EXCEPT !.ahead = ahead].moves = v.moves
    BY DEF VisitRows
  <2>3. visit' = [v EXCEPT !.ahead = ahead] /\ UNCHANGED <<listed, reminders>>
    BY <1>1, <1>5, <2>1 DEF ComeCloser
  <2> QED BY <1>1, <2>2, <2>3, KeepsWithVisit
<1>6. ASSUME NEW j \in ReminderRuns, ListVisit(j) \/ Remind(j) PROVE ReminderInvariant'
  BY <1>6, KeepsWithListVisit, KeepsWithRemind
<1>7. ASSUME NEW ahead \in {"far", "hour"}, NEW moving \in BOOLEAN, EditVisit(ahead, moving)
      PROVE  ReminderInvariant'
  BY <1>7, KeepsWithEditVisit
<1> QED BY <1>2, <1>3, <1>4, <1>5, <1>6, <1>7 DEF RemindersNext

\* For any number of overlapping runs and any bound on the moves: the customer is reminded of a
\* time once, once more at most by each run that had listed it before the session was moved, and
\* a session marked as reminded was the subject of a reminder.
THEOREM RemindersStaySafe == RemindersSpec => []RemindersSafe
<1>1. RemindersSpec => []ReminderInvariant
  BY RemindersBegin, RemindersStep, PTL DEF RemindersSpec
<1>2. ReminderInvariant => RemindersSafe
  <2> SUFFICES ASSUME ReminderInvariant PROVE RemindersSafe
    OBVIOUS
  <2>1. ASSUME NEW m \in 0..MaxMoves
        PROVE  reminders[m] <= IF m = visit.moves THEN 1 ELSE 1 + Cardinality(ReminderRuns)
    <3>1. /\ RemindersFit(m) /\ reminders[m] \in Nat /\ visit.moves \in Nat /\ m \in Nat
          /\ Cardinality(Listing(m)) \in Nat /\ Cardinality(ReminderRuns) \in Nat
      BY ListingsAreCounted DEF ReminderInvariant, ReminderShape, VisitRows
    <3> QED BY <3>1 DEF RemindersFit
  <2> QED BY <2>1 DEF ReminderInvariant, RemindersSafe, RemindedOnce
<1> QED BY <1>1, <1>2, PTL

-----------------------------------------------------------------------------
(* The cache of the catalogue. *)

WriterStages == {"NONE", "COMMITTED", "UNSET", "DONE", "DIED"}
ReaderRows == [stage : {"NONE", "MISSED", "READ", "ANSWERED"}, key : Versions, value : Int]

CacheShape ==
    /\ content \in Nat /\ version \in {Nothing} \cup 2..MaxVersion
    /\ entries \in [Versions -> Int]
    /\ writer \in [Writers -> WriterStages]
    /\ reader \in [CacheReaders -> ReaderRows]
    /\ rewound \in BOOLEAN

\* A save that will raise the version it has seen committed: one that has found no version
\* raises it only while there is none.
WillBump ==
    \/ \E w \in Writers : writer[w] \in {"COMMITTED", "DIED"}
    \/ version = Nothing /\ \E w \in Writers : writer[w] = "UNSET"

\* What is stored, or about to be, under the current version is what is committed.
CurrentIsFresh ==
    \/ WillBump
    \/ /\ entries[Current] \in {Nothing, content}
       /\ \A r \in CacheReaders :
              reader[r].stage = "READ" /\ reader[r].key = Current => reader[r].value = content

\* Nothing is stored or read under a version that is still to come.
NothingAhead ==
    /\ \A v \in Versions : v > Current => entries[v] = Nothing
    /\ \A r \in CacheReaders : reader[r].key <= Current

CacheInvariant == CacheShape /\ (rewound \/ (CurrentIsFresh /\ NothingAhead))

-----------------------------------------------------------------------------
LEMMA CurrentIsVersion ==
    ASSUME CacheInvariant
    PROVE  Current \in Versions /\ MaxVersion \in Nat /\ Current \in Nat
BY CacheAssumption DEF CacheInvariant, CacheShape, Current, Versions, Nothing

LEMMA KeepsWithSaveRow ==
    ASSUME CacheInvariant, NEW w \in Writers, SaveRow(w)
    PROVE  CacheInvariant'
<1>1. CacheShape'
  BY DEF CacheInvariant, CacheShape, SaveRow, InvalidateCache, WriterStages
<1>2. WillBump'
  BY DEF CacheInvariant, CacheShape, SaveRow, InvalidateCache, WillBump
<1>3. NothingAhead => NothingAhead'
  BY DEF NothingAhead, SaveRow, Current
<1>4. CurrentIsFresh' /\ rewound' = rewound
  BY <1>2 DEF CurrentIsFresh, SaveRow
<1> QED BY <1>1, <1>3, <1>4 DEF CacheInvariant

\* The version rises: nothing was stored under the new one.
LEMMA KeepsWithNewVersion ==
    ASSUME CacheInvariant, writer' \in [Writers -> WriterStages], version' \in 2..MaxVersion, version' > Current,
           rewound' = rewound, UNCHANGED <<content, entries, reader>>
    PROVE  CacheInvariant'
<1>1. CacheShape'
  BY DEF CacheInvariant, CacheShape
<1>2. Current' = version' /\ version' \in Versions /\ Current \in Nat
  BY CacheAssumption, CurrentIsVersion DEF Current, Nothing, Versions
<1>3. NothingAhead => NothingAhead'
  <2>1. /\ Current \in Nat /\ Current' \in Nat /\ Current' > Current
        /\ \A v \in Versions : v \in Nat
        /\ \A r \in CacheReaders : reader[r].key \in Nat /\ reader'[r].key = reader[r].key
    BY <1>2, CurrentIsVersion DEF CacheInvariant, CacheShape, ReaderRows, Versions
  <2> QED BY <2>1 DEF NothingAhead
<1>4. NothingAhead => CurrentIsFresh'
  <2> SUFFICES ASSUME NothingAhead PROVE CurrentIsFresh'
    OBVIOUS
  <2>1. entries'[version'] = Nothing
    BY <1>2 DEF NothingAhead
  <2>2. \A r \in CacheReaders : reader'[r].key # version'
    BY <1>2 DEF NothingAhead, CacheInvariant, CacheShape, ReaderRows, Versions
  <2> QED BY <1>2, <2>1, <2>2 DEF CurrentIsFresh
<1> QED BY <1>1, <1>3, <1>4 DEF CacheInvariant

LEMMA KeepsWithBumpVersion ==
    ASSUME CacheInvariant, NEW w \in Writers, BumpVersion(w)
    PROVE  CacheInvariant'
<1>1. writer \in [Writers -> WriterStages] /\ version \in {Nothing} \cup 2..MaxVersion /\ MaxVersion \in Nat
  BY CacheAssumption DEF CacheInvariant, CacheShape
<1>2. writer' \in [Writers -> WriterStages] /\ UNCHANGED <<content, entries, reader, rewound>>
  BY <1>1 DEF BumpVersion, WriterStages
<1>3. CASE version = Nothing
  <2>1. version' = version /\ writer'[w] = "UNSET"
    BY <1>1, <1>3 DEF BumpVersion
  <2>2. WillBump'
    BY <1>3, <2>1 DEF WillBump
  <2>3. CacheShape'
    BY <1>2, <2>1 DEF CacheInvariant, CacheShape
  <2>4. NothingAhead => NothingAhead'
    BY <1>2, <2>1 DEF NothingAhead, Current
  <2> QED BY <1>2, <2>2, <2>3, <2>4 DEF CacheInvariant, CurrentIsFresh
<1>4. CASE version # Nothing
  <2>1. version' = version + 1 /\ version' \in 2..MaxVersion /\ version' > Current
    BY <1>1, <1>4 DEF BumpVersion, Current
  <2> QED BY <1>2, <2>1, KeepsWithNewVersion
<1> QED BY <1>3, <1>4

LEMMA KeepsWithSetVersion ==
    ASSUME CacheInvariant, NEW w \in Writers, SetVersion(w)
    PROVE  CacheInvariant'
<1>1. /\ writer \in [Writers -> WriterStages] /\ version \in {Nothing} \cup 2..MaxVersion
      /\ MaxVersion \in Nat /\ MaxVersion > 1 /\ rewound \in BOOLEAN
  BY CacheAssumption DEF CacheInvariant, CacheShape
<1>2. /\ writer' \in [Writers -> WriterStages] /\ version' = 2 /\ 2 \in 2..MaxVersion
      /\ UNCHANGED <<content, entries, reader>> /\ rewound' = (rewound \/ version > 2)
  BY <1>1 DEF SetVersion, WriterStages
<1>3. CASE version = Nothing
  <2>1. Current = 1 /\ rewound' = rewound
    BY <1>1, <1>2, <1>3 DEF Current, Nothing
  <2> QED BY <1>2, <2>1, KeepsWithNewVersion
<1>4. CASE version = 2
  <2>1. rewound' = rewound /\ Current' = Current
    BY <1>1, <1>2, <1>4 DEF Current, Nothing
  <2>2. CacheShape'
    BY <1>2, <2>1 DEF CacheInvariant, CacheShape
  <2>3. WillBump => WillBump'
    <3>1. \A v \in Writers : writer[v] \in {"COMMITTED", "DIED"} => writer'[v] = writer[v]
      BY <1>1 DEF SetVersion
    <3> QED BY <1>4, <3>1 DEF WillBump, Nothing
  <2>4. (CurrentIsFresh => CurrentIsFresh') /\ (NothingAhead => NothingAhead')
    BY <1>2, <2>1, <2>3 DEF CurrentIsFresh, NothingAhead
  <2> QED BY <2>1, <2>2, <2>4 DEF CacheInvariant
<1>5. CASE version > 2
  BY <1>2, <1>5 DEF CacheInvariant, CacheShape
<1> QED BY <1>1, <1>3, <1>4, <1>5

LEMMA KeepsWithProcessDies ==
    ASSUME CacheInvariant, NEW w \in Writers, ProcessDies(w)
    PROVE  CacheInvariant'
<1>1. writer \in [Writers -> WriterStages] /\ writer' \in [Writers -> WriterStages] /\ writer'[w] = "DIED"
  BY DEF CacheInvariant, CacheShape, ProcessDies, WriterStages
<1>2. WillBump'
  BY <1>1 DEF WillBump
<1>3. CacheShape' /\ (NothingAhead => NothingAhead')
  BY <1>1 DEF CacheInvariant, CacheShape, NothingAhead, Current, ProcessDies
<1>4. CurrentIsFresh' /\ rewound' = rewound
  BY <1>2 DEF CurrentIsFresh, ProcessDies
<1> QED BY <1>3, <1>4 DEF CacheInvariant

\* A request goes on; what it stores under the current version is fresh.
LEMMA KeepsWithReader ==
    ASSUME CacheInvariant, NEW r \in CacheReaders, NEW row \in ReaderRows, reader' = [reader EXCEPT ![r] = row],
           ~rewound => row.key <= Current,
           ~rewound /\ row.stage = "READ" /\ row.key = Current => row.value = content \/ WillBump,
           NEW v \in Versions, NEW value \in Int, entries' = [entries EXCEPT ![v] = value],
           ~rewound /\ v > Current => value = Nothing,
           ~rewound /\ v = Current => value \in {Nothing, content} \/ WillBump,
           UNCHANGED <<content, version, writer, rewound>>
    PROVE  CacheInvariant'
<1>1. CacheShape'
  BY DEF CacheInvariant, CacheShape
<1>2. Current' = Current /\ WillBump' = WillBump /\ Current \in Versions
  BY CurrentIsVersion DEF Current, WillBump
<1>3. ~rewound => NothingAhead'
  BY <1>2 DEF CacheInvariant, CacheShape, NothingAhead
<1>4. ~rewound => CurrentIsFresh'
  BY <1>2 DEF CacheInvariant, CacheShape, CurrentIsFresh
<1> QED BY <1>1, <1>3, <1>4 DEF CacheInvariant

LEMMA KeepsWithCached ==
    ASSUME CacheInvariant, NEW r \in CacheReaders, LookUp(r) \/ ReadRows(r) \/ StoreEntry(r)
    PROVE  CacheInvariant'
<1>1. /\ reader \in [CacheReaders -> ReaderRows] /\ entries \in [Versions -> Int] /\ content \in Nat
      /\ Current \in Versions /\ Current \in Nat /\ MaxVersion \in Nat
  BY CurrentIsVersion DEF CacheInvariant, CacheShape
<1>2. PICK old \in ReaderRows : old = reader[r] /\ old.key \in Versions /\ old.value \in Int
  BY <1>1 DEF ReaderRows
<1>3. ~rewound => old.key <= Current
  BY <1>2 DEF CacheInvariant, NothingAhead
<1>4. entries = [entries EXCEPT ![Current] = entries[Current]] /\ entries[Current] \in Int
  BY <1>1
<1>5. ~rewound => entries[Current] \in {Nothing, content} \/ WillBump
  BY DEF CacheInvariant, CurrentIsFresh
<1>6. CASE LookUp(r)
  <2>1. PICK stage \in {"MISSED", "ANSWERED"} : stage = IF entries[Current] = Nothing THEN "MISSED" ELSE "ANSWERED"
    OBVIOUS
  <2>2. PICK row \in ReaderRows : /\ row = [stage |-> stage, key |-> Current, value |-> entries[Current]]
                                  /\ row.stage # "READ" /\ row.key = Current
    <3>1. [stage |-> stage, key |-> Current, value |-> entries[Current]] \in ReaderRows
      BY <1>1, <1>4 DEF ReaderRows
    <3> QED BY <3>1
  <2>3. reader' = [reader EXCEPT ![r] = row] /\ UNCHANGED <<content, version, entries, writer, rewound>>
    BY <1>6, <2>1, <2>2 DEF LookUp
  <2>4. row.key <= Current
    BY <1>1, <2>2
  <2>5. entries' = [entries EXCEPT ![Current] = entries[Current]] /\ ~(Current > Current)
    BY <1>1, <1>4, <2>3
  <2> QED BY <1>1, <1>4, <1>5, <2>2, <2>3, <2>4, <2>5, KeepsWithReader
<1>7. CASE ReadRows(r)
  <2>1. PICK row \in ReaderRows : /\ row = [stage |-> "READ", key |-> old.key, value |-> content]
                                  /\ row.key = old.key /\ row.value = content
    <3>1. [stage |-> "READ", key |-> old.key, value |-> content] \in ReaderRows
      BY <1>1, <1>2 DEF ReaderRows
    <3> QED BY <3>1
  <2>2. reader' = [reader EXCEPT ![r] = row] /\ UNCHANGED <<content, version, entries, writer, rewound>>
    BY <1>1, <1>2, <1>7, <2>1 DEF ReadRows, ReaderRows
  <2>3. entries' = [entries EXCEPT ![Current] = entries[Current]] /\ ~(Current > Current)
    BY <1>1, <1>4, <2>2
  <2> QED BY <1>1, <1>3, <1>4, <1>5, <2>1, <2>2, <2>3, KeepsWithReader
<1>8. CASE StoreEntry(r)
  <2>1. PICK row \in ReaderRows : /\ row = [stage |-> "ANSWERED", key |-> old.key, value |-> old.value]
                                  /\ row.key = old.key /\ row.stage # "READ"
    <3>1. [stage |-> "ANSWERED", key |-> old.key, value |-> old.value] \in ReaderRows
      BY <1>2 DEF ReaderRows
    <3> QED BY <3>1
  <2>2. /\ reader' = [reader EXCEPT ![r] = row] /\ UNCHANGED <<content, version, writer, rewound>>
        /\ entries' = [entries EXCEPT ![old.key] = old.value]
    <3>1. [old EXCEPT !.stage = "ANSWERED"] = row
      BY <2>1 DEF ReaderRows
    <3>2. reader' = [reader EXCEPT ![r] = row]
      BY <1>1, <1>2, <1>8, <3>1 DEF StoreEntry
    <3> QED BY <1>2, <1>8, <3>2 DEF StoreEntry, StoreKey
  <2>3. ~rewound /\ old.key = Current => old.value \in {Nothing, content} \/ WillBump
    BY <1>2, <1>8 DEF StoreEntry, CacheInvariant, CurrentIsFresh
  <2>4. ~rewound => ~(old.key > Current)
    BY <1>1, <1>2, <1>3 DEF Versions
  <2> QED BY <1>2, <1>3, <2>1, <2>2, <2>3, <2>4, KeepsWithReader
<1> QED BY <1>6, <1>7, <1>8

LEMMA KeepsWithEntryExpires ==
    ASSUME CacheInvariant, NEW v \in Versions, EntryExpires(v)
    PROVE  CacheInvariant'
<1>1. CacheShape'
  BY DEF CacheInvariant, CacheShape, EntryExpires, Nothing
<1>2. Current' = Current /\ WillBump' = WillBump /\ Current \in Versions
  BY CurrentIsVersion DEF Current, WillBump, EntryExpires
<1>3. (NothingAhead => NothingAhead') /\ (CurrentIsFresh => CurrentIsFresh')
  BY <1>2 DEF CacheInvariant, CacheShape, NothingAhead, CurrentIsFresh, EntryExpires
<1> QED BY <1>1, <1>3 DEF CacheInvariant, EntryExpires

LEMMA CacheBegins == CacheInit => CacheInvariant
<1> SUFFICES ASSUME CacheInit PROVE CacheInvariant
  OBVIOUS
<1> USE DEF CacheInit
<1>1. MaxVersion \in Nat /\ MaxVersion > 1 /\ 1 \in Versions /\ Nothing \in Int /\ Current \in {1, 2}
  BY CacheAssumption DEF Versions, Nothing, Current
<1>2. CacheShape
  <2>1. [stage |-> "NONE", key |-> 1, value |-> Nothing] \in ReaderRows
    BY <1>1 DEF ReaderRows
  <2>2. "NONE" \in WriterStages /\ 2 \in 2..MaxVersion
    BY <1>1 DEF WriterStages
  <2> QED BY <1>1, <2>1, <2>2 DEF CacheShape
<1>3. CurrentIsFresh /\ NothingAhead
  <2>1. Current \in Versions
    BY <1>1 DEF Versions
  <2> QED BY <1>1, <2>1 DEF CurrentIsFresh, NothingAhead
<1> QED BY <1>2, <1>3 DEF CacheInvariant

LEMMA CacheStep == CacheInvariant /\ [CacheNext]_cacheVars => CacheInvariant'
<1> SUFFICES ASSUME CacheInvariant, [CacheNext]_cacheVars PROVE CacheInvariant'
  OBVIOUS
<1>1. CASE UNCHANGED cacheVars
  BY <1>1 DEF cacheVars, CacheInvariant, CacheShape, CurrentIsFresh, WillBump, NothingAhead, Current
<1>2. ASSUME NEW w \in Writers, SaveRow(w) \/ BumpVersion(w) \/ SetVersion(w) \/ ProcessDies(w)
      PROVE  CacheInvariant'
  BY <1>2, KeepsWithSaveRow, KeepsWithBumpVersion, KeepsWithSetVersion, KeepsWithProcessDies
<1>3. ASSUME NEW r \in CacheReaders, LookUp(r) \/ ReadRows(r) \/ StoreEntry(r) PROVE CacheInvariant'
  BY <1>3, KeepsWithCached
<1>4. ASSUME NEW v \in Versions, EntryExpires(v) PROVE CacheInvariant'
  BY <1>4, KeepsWithEntryExpires
<1> QED BY <1>1, <1>2, <1>3, <1>4 DEF CacheNext

\* For any number of saves, requests and versions: the entry under the current version is what is
\* committed, unless a commit has not been followed by its bump or a late bump put the version back.
THEOREM EntriesStayFresh == CacheSpec => []EntryIsFresh
<1>1. CacheSpec => []CacheInvariant
  BY CacheBegins, CacheStep, PTL DEF CacheSpec
<1>2. CacheInvariant => EntryIsFresh
  BY DEF CacheInvariant, CurrentIsFresh, WillBump, EntryIsFresh, Unfinished
<1> QED BY <1>1, <1>2, PTL

-----------------------------------------------------------------------------
(* The catalogue and its images. *)

Icons == Edits \cup {FirstIcon, NoIcon}
ServiceRows == [icon : Icons, images : SUBSET Nat, primaries : SUBSET Nat, created : BOOLEAN]
ChangeRows == [icon : {"KEEP", "NEW", "REMOVE"}, drop : SUBSET Nat, add : 0..1, primary : Nat]
EditStages == {"NONE", "LOADED", "SAVED", "ICON_DONE", "COMMITTED", "DONE", "FAILED"}
EditRows == [stage : EditStages, change : ChangeRows, seen : ServiceRows, work : ServiceRows]

CatalogueShape ==
    /\ service \in ServiceRows /\ nextImage \in Nat
    /\ cloud \in [icons : SUBSET Icons, images : SUBSET Nat]
    /\ edit \in [Edits -> EditRows]
    /\ torn \subseteq Nat /\ overlapped \in BOOLEAN

\* A row has at most one primary image, and it is one of its images.
RowIsSound(row) == row.primaries \subseteq row.images /\ \A i, j \in row.primaries : i = j

\* Nothing is edited before the service is there.
CreatedFirst ==
    ~service.created => service = NoService /\ \A e \in Edits : edit[e].stage = "NONE"

OneWorks == \A e, f \in Working : e = f

\* The transaction at work would commit a sound row whose files are there; the image it picks
\* stays, unless the service is no longer the one it was validated against.
WorkIsSound ==
    \A e \in Working :
        /\ edit[e].work.created /\ RowIsSound(edit[e].work)
        /\ edit[e].work.images \subseteq cloud.images \cup torn

PickIsKept ==
    \A e \in Edits :
        LET pick == edit[e].change.primary
        IN  /\ edit[e].stage = "LOADED" /\ pick # 0 => pick \in edit[e].seen.images \ edit[e].change.drop
            /\ e \in Working /\ edit[e].seen = service /\ pick # 0 =>
                  pick \in edit[e].work.images \ edit[e].change.drop

\* The icon an edit uploads is shown to nobody before it is committed.
IconsAreNew ==
    \A e \in Edits :
        edit[e].stage \notin {"COMMITTED", "DONE"} =>
            service.icon # e /\ \A f \in Edits : edit[f].seen.icon # e

IconToCommit ==
    \A e \in Edits :
        LET icon == edit[e].work.icon
            sort == edit[e].change.icon
        IN  /\ edit[e].stage = "SAVED" => icon = edit[e].seen.icon
            /\ edit[e].stage = "ICON_DONE" =>
                  /\ sort = "NEW" => icon = e /\ e \in cloud.icons
                  /\ sort = "REMOVE" => icon = NoIcon
                  /\ sort = "KEEP" => icon = edit[e].seen.icon

\* What an edit will destroy is not shown, unless an edit wrote it back.
DestroysTheOld ==
    ~overlapped =>
        \A e \in Edits : edit[e].stage = "COMMITTED" =>
            edit[e].seen.icon # service.icon \/ service.icon = NoIcon

CatalogueInvariant ==
    /\ CatalogueShape
    /\ RowIsSound(service) /\ CreatedFirst /\ OneWorks /\ WorkIsSound /\ PickIsKept
    /\ IconsAreNew /\ IconToCommit /\ DestroysTheOld
    /\ PrimaryKept /\ IconExists /\ ImagesExist

-----------------------------------------------------------------------------
LEMMA EmptyRow == NoService \in ServiceRows /\ NoEdit \in EditRows
<1>1. NoService \in ServiceRows
  BY DEF NoService, ServiceRows, Icons
<1>2. Keep \in ChangeRows
  BY DEF Keep, ChangeRows
<1> QED BY <1>1, <1>2 DEF NoEdit, EditRows, EditStages

\* What becomes primary is an image of the service; an edit that found images leaves one.
LEMMA PrimariesOfSound ==
    ASSUME NEW e \in Edits, edit[e].work \in ServiceRows, RowIsSound(edit[e].work),
           edit[e].seen \in ServiceRows, edit[e].change.primary \in Nat, FirstIsThere(e)
    PROVE  LET new == PrimariesOf(e)
               picked == edit[e].change.primary
           IN  /\ new \in SUBSET Nat /\ new \subseteq edit[e].work.images /\ \A i, j \in new : i = j
               /\ (picked = 0 \/ picked \in edit[e].work.images) /\ edit[e].seen.images # {} => new # {}
<1> DEFINE work == edit[e].work
           picked == edit[e].change.primary
<1>1. work.images \subseteq Nat /\ work.primaries \subseteq work.images
      /\ \A i, j \in work.primaries : i = j
  BY DEF ServiceRows, RowIsSound
<1>2. CASE picked # 0
  <2>1. PrimariesOf(e) = {picked} \cap work.images
    BY <1>2 DEF PrimariesOf
  <2> QED BY <1>1, <1>2, <2>1
<1>3. CASE TakesFirst(e)
  <2>1. PrimariesOf(e) = {FirstLoaded(edit[e].seen)} /\ picked = 0
    BY <1>3 DEF PrimariesOf, TakesFirst
  <2>2. FirstLoaded(edit[e].seen) \in work.images
    BY <1>3 DEF FirstIsThere
  <2> QED BY <1>1, <2>1, <2>2
<1>4. CASE picked = 0 /\ ~TakesFirst(e)
  <2>1. PrimariesOf(e) = work.primaries
    BY <1>4 DEF PrimariesOf
  <2>2. edit[e].seen.images # {} => work.primaries # {}
    BY <1>4 DEF TakesFirst
  <2> QED BY <1>1, <2>1, <2>2
<1>5. TakesFirst(e) => picked = 0
  BY DEF TakesFirst
<1> QED BY <1>2, <1>3, <1>4, <1>5

\* Nobody commits: the primary image is as it was.
LEMMA PrimaryStays ==
    ASSUME PrimaryKept, service' = service, overlapped' = overlapped,
           Committed' = Committed, \A f \in Committed : edit'[f].seen = edit[f].seen
    PROVE  PrimaryKept'
BY DEF PrimaryKept

-----------------------------------------------------------------------------
LEMMA KeepsWithCreateService ==
    ASSUME CatalogueAssumption, CatalogueInvariant, NEW count \in 0..2, NEW fails \in BOOLEAN,
           CreateService(count, fails)
    PROVE  CatalogueInvariant'
<1> USE DEF CatalogueInvariant
<1>1. /\ ~service.created /\ service = NoService /\ nextImage' = nextImage + count
      /\ edit' = edit /\ torn' = torn /\ overlapped' = overlapped
      /\ nextImage \in Nat /\ nextImage' \in Nat
      /\ \A e \in Edits : edit[e].stage = "NONE"
  BY DEF CreateService, CreatedFirst, CatalogueShape
<1>2. PICK new : new = (nextImage + 1)..(nextImage + count)
  OBVIOUS
<1>3. /\ new \subseteq Nat /\ (count = 0 => new = {}) /\ (count # 0 => nextImage + 1 \in new)
      /\ new = (nextImage + 1)..nextImage'
  BY <1>1, <1>2
<1>4. /\ cloud' = [icons |-> cloud.icons \cup {FirstIcon}, images |-> cloud.images \cup new]
      /\ \/ service' = service
         \/ service' = [icon |-> FirstIcon, created |-> TRUE, images |-> new,
                        primaries |-> IF count = 0 THEN {} ELSE {nextImage + 1}]
  BY <1>2, <1>3 DEF CreateService
<1>5. PICK first : first = (IF count = 0 THEN {} ELSE {nextImage + 1})
  OBVIOUS
<1>6. /\ first \subseteq new /\ (new # {} => first # {}) /\ \A i, j \in first : i = j
  BY <1>3, <1>5
<1>7. /\ cloud' \in [icons : SUBSET Icons, images : SUBSET Nat]
      /\ cloud'.icons = cloud.icons \cup {FirstIcon} /\ cloud'.images = cloud.images \cup new
  BY <1>3, <1>4 DEF CatalogueShape, Icons
<1>8. /\ service' \in ServiceRows
      /\ \/ service' = service
         \/ /\ service'.icon = FirstIcon /\ service'.created
            /\ service'.images = new /\ service'.primaries = first
  <2>1. service \in ServiceRows /\ FirstIcon \in Icons /\ first \in SUBSET Nat /\ new \in SUBSET Nat
    BY <1>3, <1>6 DEF CatalogueShape, Icons
  <2>2. PICK row \in ServiceRows :
          /\ row = [icon |-> FirstIcon, created |-> TRUE, images |-> new, primaries |-> first]
          /\ row.icon = FirstIcon /\ row.created /\ row.images = new /\ row.primaries = first
    <3>1. [icon |-> FirstIcon, created |-> TRUE, images |-> new, primaries |-> first] \in ServiceRows
      BY <2>1 DEF ServiceRows
    <3> QED BY <3>1
  <2>3. service' = service \/ service' = row
    BY <1>4, <1>5, <2>2
  <2> QED BY <2>1, <2>2, <2>3
<1>9. NoService.icon = NoIcon /\ NoService.images = {} /\ NoService.primaries = {}
  BY DEF NoService
<1>10. CatalogueShape'
  BY <1>1, <1>7, <1>8 DEF CatalogueShape
<1>11. RowIsSound(service)' /\ CreatedFirst'
  BY <1>1, <1>6, <1>8, <1>9 DEF RowIsSound, CreatedFirst
<1>12. Working' = {}
  BY <1>1 DEF Working
<1>13. OneWorks' /\ WorkIsSound'
  BY <1>12 DEF OneWorks, WorkIsSound
<1>14. PickIsKept' /\ IconToCommit' /\ DestroysTheOld'
  BY <1>1, <1>12 DEF PickIsKept, IconToCommit, DestroysTheOld
<1>15. IconsAreNew'
  <2>1. service'.icon \notin Edits
    BY <1>1, <1>8, <1>9 DEF CatalogueAssumption
  <2> QED BY <1>1, <2>1 DEF IconsAreNew
<1>16. PrimaryKept' /\ IconExists' /\ ImagesExist'
  BY <1>1, <1>6, <1>7, <1>8, <1>9 DEF PrimaryKept, IconExists, ImagesExist, Committed
<1> QED BY <1>10, <1>11, <1>13, <1>14, <1>15, <1>16

\* What a step of edit e makes of it.
Becomes(e, stage, change, seen, work) ==
    /\ edit' \in [Edits -> EditRows]
    /\ edit'[e].stage = stage /\ edit'[e].change = change
    /\ edit'[e].seen = seen /\ edit'[e].work = work
    /\ \A f \in Edits : f # e => edit'[f] = edit[f]

LEMMA StageBecomes ==
    ASSUME NEW e \in Edits, edit \in [Edits -> EditRows], NEW stage \in EditStages,
           edit' = [edit EXCEPT ![e].stage = stage]
    PROVE  Becomes(e, stage, edit[e].change, edit[e].seen, edit[e].work)
BY DEF Becomes, EditRows

\* The fields of an edit, and of the rows in it.
LEMMA OfEdit ==
    ASSUME CatalogueInvariant, NEW e \in Edits
    PROVE  /\ edit \in [Edits -> EditRows] /\ edit[e] \in EditRows
           /\ edit[e].change \in ChangeRows /\ edit[e].seen \in ServiceRows /\ edit[e].work \in ServiceRows
           /\ edit[e].stage \in EditStages
BY DEF CatalogueInvariant, CatalogueShape, EditRows

\* What is known of an edit at work.
LEMMA OfWork ==
    ASSUME CatalogueInvariant, NEW e \in Edits, edit[e].stage \in {"SAVED", "ICON_DONE"}
    PROVE  /\ e \in Working /\ \A f \in Working : f = e
           /\ service.created
           /\ edit[e].work.created
           /\ RowIsSound(edit[e].work) /\ edit[e].work.images \subseteq cloud.images \cup torn
BY DEF CatalogueInvariant, Working, OneWorks, WorkIsSound, CreatedFirst

LEMMA KeepsWithLoadService ==
    ASSUME CatalogueAssumption, CatalogueInvariant, NEW e \in Edits, NEW c \in Changes, LoadService(e, c)
    PROVE  CatalogueInvariant'
<1> USE DEF CatalogueInvariant
<1>1. /\ service' = service /\ nextImage' = nextImage /\ cloud' = cloud /\ torn' = torn
      /\ overlapped' = overlapped /\ service.created /\ edit[e].stage = "NONE" /\ ValidChange(c)
  BY DEF LoadService
<1>2. c \in ChangeRows
  BY DEF Changes, ChangeRows, CatalogueShape, ServiceRows
<1>3. Becomes(e, "LOADED", c, service, NoService)
  <2>1. NoEdit \in EditRows /\ NoEdit.work = NoService /\ service \in ServiceRows
    BY EmptyRow DEF NoEdit, CatalogueShape
  <2>2. [NoEdit EXCEPT !.stage = "LOADED", !.change = c, !.seen = service] \in EditRows
    BY <1>2, <2>1 DEF EditRows, EditStages
  <2> QED BY <2>1, <2>2, OfEdit DEF LoadService, Becomes, EditRows
<1>4. CatalogueShape'
  BY <1>1, <1>3 DEF CatalogueShape, Becomes
<1>5. Working' = Working /\ e \notin Working
  BY <1>1, <1>3 DEF Working, Becomes
<1>6. RowIsSound(service)' /\ CreatedFirst' /\ OneWorks' /\ PrimaryKept' /\ IconExists' /\ ImagesExist'
  <2>1. Committed' = Committed /\ \A f \in Committed : edit'[f].seen = edit[f].seen
    BY <1>1, <1>3 DEF Committed, Becomes
  <2> QED BY <1>1, <1>5, <2>1, PrimaryStays DEF RowIsSound, CreatedFirst, OneWorks, IconExists, ImagesExist
<1>7. WorkIsSound'
  <2>1. \A f \in Working : edit'[f] = edit[f]
    BY <1>3, <1>5 DEF Working, Becomes
  <2> QED BY <1>1, <1>5, <2>1 DEF WorkIsSound, RowIsSound
<1>8. PickIsKept'
  BY <1>1, <1>3, <1>5 DEF PickIsKept, Becomes, ValidChange
<1>9. IconsAreNew'
  BY <1>1, <1>3 DEF IconsAreNew, Becomes
<1>10. IconToCommit' /\ DestroysTheOld'
  BY <1>1, <1>3 DEF IconToCommit, DestroysTheOld, Becomes
<1> QED BY <1>4, <1>6, <1>7, <1>8, <1>9, <1>10

LEMMA KeepsWithSaveService ==
    ASSUME CatalogueInvariant, NEW e \in Edits, SaveService(e)
    PROVE  CatalogueInvariant'
<1> USE DEF CatalogueInvariant
<1>1. /\ service' = service /\ nextImage' = nextImage /\ cloud' = cloud /\ torn' = torn
      /\ overlapped' = overlapped /\ edit[e].stage = "LOADED" /\ Working = {}
  BY DEF SaveService
<1>2. service \in ServiceRows /\ edit[e].seen.icon \in Icons
  BY OfEdit DEF CatalogueShape, ServiceRows
<1>3. PICK work \in ServiceRows :
        /\ work = [service EXCEPT !.icon = edit[e].seen.icon]
        /\ work.icon = edit[e].seen.icon /\ work.images = service.images
        /\ work.primaries = service.primaries /\ work.created = service.created
  <2>1. PICK icon \in Icons : icon = edit[e].seen.icon
    BY <1>2
  <2>2. /\ [service EXCEPT !.icon = icon] \in ServiceRows
        /\ [service EXCEPT !.icon = icon].icon = icon
        /\ [service EXCEPT !.icon = icon].images = service.images
        /\ [service EXCEPT !.icon = icon].primaries = service.primaries
        /\ [service EXCEPT !.icon = icon].created = service.created
    BY <1>2 DEF ServiceRows
  <2> QED BY <2>1, <2>2
<1>4. Becomes(e, "SAVED", edit[e].change, edit[e].seen, work)
  <2>1. edit' = [edit EXCEPT ![e].stage = "SAVED", ![e].work = work]
    BY <1>3 DEF SaveService
  <2> QED BY <2>1, OfEdit DEF Becomes, EditRows, EditStages
<1>5. Working' = {e}
  BY <1>1, <1>4 DEF Working, Becomes
<1>6. CatalogueShape'
  BY <1>1, <1>4 DEF CatalogueShape, Becomes
<1>7. RowIsSound(service)' /\ OneWorks' /\ PrimaryKept' /\ IconExists' /\ ImagesExist'
  <2>1. Committed' = Committed /\ \A f \in Committed : edit'[f].seen = edit[f].seen
    BY <1>1, <1>4 DEF Committed, Becomes
  <2> QED BY <1>1, <1>5, <2>1, PrimaryStays DEF RowIsSound, OneWorks, IconExists, ImagesExist
<1>8. CreatedFirst'
  BY <1>1, <1>4 DEF CreatedFirst, Becomes
<1>9. WorkIsSound'
  <2>1. work.created /\ RowIsSound(work) /\ work.images \subseteq cloud.images \cup torn
    BY <1>1, <1>3 DEF RowIsSound, ImagesExist, CreatedFirst
  <2> QED BY <1>1, <1>4, <1>5, <2>1 DEF WorkIsSound, Becomes, RowIsSound
<1>10. PickIsKept'
  <2>1. work.images = service.images
    BY <1>3
  <2> QED BY <1>1, <1>4, <1>5, <2>1 DEF PickIsKept, Becomes
<1>11. IconsAreNew'
  BY <1>1, <1>4 DEF IconsAreNew, Becomes
<1>12. IconToCommit' /\ DestroysTheOld'
  <2>1. work.icon = edit[e].seen.icon
    BY <1>3
  <2> QED BY <1>1, <1>4, <2>1 DEF IconToCommit, DestroysTheOld, Becomes
<1> QED BY <1>6, <1>7, <1>8, <1>9, <1>10, <1>11, <1>12

LEMMA KeepsWithSaveIcon ==
    ASSUME CatalogueAssumption, CatalogueInvariant, NEW e \in Edits, SaveIcon(e)
    PROVE  CatalogueInvariant'
<1> USE DEF CatalogueInvariant
<1> DEFINE sort == edit[e].change.icon
<1>1. /\ service' = service /\ nextImage' = nextImage /\ torn' = torn
      /\ overlapped' = overlapped /\ edit[e].stage = "SAVED"
  BY DEF SaveIcon
<1>2. /\ e \in Working /\ (\A f \in Working : f = e) /\ service.created /\ edit[e].work.created
      /\ RowIsSound(edit[e].work) /\ edit[e].work.images \subseteq cloud.images \cup torn
  BY <1>1, OfWork
<1>3. PICK new \in Icons :
        /\ new = (CASE sort = "NEW" -> e [] sort = "REMOVE" -> NoIcon [] sort = "KEEP" -> edit[e].work.icon)
        /\ sort = "NEW" => new = e
        /\ sort = "REMOVE" => new = NoIcon
        /\ sort = "KEEP" => new = edit[e].seen.icon
  <2>1. edit[e].work.icon = edit[e].seen.icon /\ edit[e].work.icon \in Icons
    BY <1>1, OfEdit DEF IconToCommit, ServiceRows
  <2>2. sort \in {"KEEP", "NEW", "REMOVE"}
    BY OfEdit DEF ChangeRows
  <2> QED BY <2>1, <2>2 DEF Icons
<1>4. PICK work \in ServiceRows :
        /\ work = [edit[e].work EXCEPT !.icon = new]
        /\ work.icon = new /\ work.images = edit[e].work.images /\ work.primaries = edit[e].work.primaries
        /\ work.created = edit[e].work.created
  <2>1. PICK old \in ServiceRows : old = edit[e].work
    BY OfEdit
  <2>2. /\ [old EXCEPT !.icon = new] \in ServiceRows
        /\ [old EXCEPT !.icon = new].icon = new
        /\ [old EXCEPT !.icon = new].images = old.images
        /\ [old EXCEPT !.icon = new].primaries = old.primaries
        /\ [old EXCEPT !.icon = new].created = old.created
    BY DEF ServiceRows
  <2> QED BY <2>1, <2>2
<1>5. Becomes(e, "ICON_DONE", edit[e].change, edit[e].seen, work)
  <2>1. edit' = [edit EXCEPT ![e].stage = "ICON_DONE", ![e].work.icon = new]
    BY <1>3 DEF SaveIcon
  <2>2. [edit[e].work EXCEPT !.icon = new] = work
    BY <1>4
  <2> QED BY <2>1, <2>2, OfEdit DEF Becomes, EditRows, EditStages
<1>6. /\ cloud' \in [icons : SUBSET Icons, images : SUBSET Nat]
      /\ cloud.icons \subseteq cloud'.icons /\ cloud'.images = cloud.images
      /\ sort = "NEW" => e \in cloud'.icons
  <2>1. CASE sort = "NEW"
    <3>1. cloud' = [cloud EXCEPT !.icons = cloud.icons \cup {e}]
      BY <2>1 DEF SaveIcon, IconFiles
    <3> QED BY <3>1 DEF CatalogueShape, Icons
  <2>2. CASE sort # "NEW"
    BY <2>2 DEF SaveIcon, CatalogueShape
  <2> QED BY <2>1, <2>2
<1>7. Working' = Working
  BY <1>1, <1>2, <1>5 DEF Working, Becomes
<1>8. CatalogueShape'
  BY <1>1, <1>5, <1>6 DEF CatalogueShape, Becomes
<1>9. RowIsSound(service)' /\ OneWorks' /\ PrimaryKept' /\ IconExists' /\ ImagesExist' /\ CreatedFirst'
  <2>1. Committed' = Committed /\ \A f \in Committed : edit'[f].seen = edit[f].seen
    BY <1>1, <1>5 DEF Committed, Becomes
  <2> QED BY <1>1, <1>2, <1>6, <1>7, <2>1, PrimaryStays
          DEF RowIsSound, OneWorks, IconExists, ImagesExist, CreatedFirst
<1>10. WorkIsSound'
  <2>1. RowIsSound(work) /\ work.images \subseteq cloud'.images \cup torn
    BY <1>2, <1>4, <1>6 DEF RowIsSound
  <2>2. work.created
    BY <1>2, <1>4
  <2>3. edit'[e].work = work
    BY <1>5 DEF Becomes
  <2> QED BY <1>1, <1>2, <1>7, <2>1, <2>2, <2>3 DEF WorkIsSound, RowIsSound
<1>11. PickIsKept'
  <2>1. work.images = edit[e].work.images
    BY <1>4
  <2> QED BY <1>1, <1>2, <1>5, <1>7, <2>1 DEF PickIsKept, Becomes
<1>12. IconsAreNew'
  BY <1>1, <1>5 DEF IconsAreNew, Becomes
<1>13. IconToCommit'
  <2>1. \A f \in Edits : f # e => edit[f].stage \notin {"SAVED", "ICON_DONE"}
    BY <1>2 DEF Working
  <2>2. work.icon = new
    BY <1>4
  <2>3. /\ sort = "NEW" => new = e /\ e \in cloud'.icons
        /\ sort = "REMOVE" => new = NoIcon
        /\ sort = "KEEP" => new = edit[e].seen.icon
    BY <1>3, <1>6
  <2> QED BY <1>5, <2>1, <2>2, <2>3 DEF IconToCommit, Becomes
<1>14. DestroysTheOld'
  BY <1>1, <1>5 DEF DestroysTheOld, Becomes
<1> QED BY <1>8, <1>9, <1>10, <1>11, <1>12, <1>13, <1>14

\* A step on the images of the transaction at work.
WorksOnImages(e, change, work) ==
    /\ edit[e].stage = "ICON_DONE" /\ service' = service /\ torn' = torn /\ overlapped' = overlapped
    /\ nextImage' \in Nat
    /\ Becomes(e, "ICON_DONE", change, edit[e].seen, work)
    /\ change.icon = edit[e].change.icon /\ change.primary = edit[e].change.primary
    /\ change.drop \subseteq edit[e].change.drop
    /\ work.icon = edit[e].work.icon /\ work.created /\ RowIsSound(work)
    /\ \A i \in edit[e].work.images : i \in work.images \/ i \in edit[e].change.drop
    /\ cloud' \in [icons : SUBSET Icons, images : SUBSET Nat] /\ cloud'.icons = cloud.icons
    /\ work.images \subseteq cloud'.images \cup torn

LEMMA KeepsWithWork ==
    ASSUME CatalogueInvariant, NEW e \in Edits, NEW change \in ChangeRows, NEW work \in ServiceRows,
           WorksOnImages(e, change, work)
    PROVE  CatalogueInvariant'
<1> USE DEF CatalogueInvariant, WorksOnImages
<1>1. e \in Working /\ (\A f \in Working : f = e) /\ service.created
  BY OfWork
<1>2. Working' = Working
  BY <1>1 DEF Working, Becomes
<1>3. CatalogueShape'
  BY DEF CatalogueShape, Becomes
<1>4. RowIsSound(service)' /\ OneWorks' /\ PrimaryKept' /\ IconExists' /\ ImagesExist' /\ CreatedFirst'
  <2>1. Committed' = Committed /\ \A f \in Committed : edit'[f].seen = edit[f].seen
    BY DEF Committed, Becomes
  <2> QED BY <1>1, <1>2, <2>1, PrimaryStays DEF RowIsSound, OneWorks, IconExists, ImagesExist, CreatedFirst
<1>5. WorkIsSound'
  BY <1>1, <1>2 DEF WorkIsSound, Becomes, RowIsSound
<1>6. PickIsKept'
  <2>1. ASSUME edit[e].seen = service, change.primary # 0
        PROVE  change.primary \in work.images \ change.drop
    BY <1>1, <2>1 DEF PickIsKept
  <2> QED BY <1>1, <1>2, <2>1 DEF PickIsKept, Becomes
<1>7. IconsAreNew'
  BY DEF IconsAreNew, Becomes
<1>8. IconToCommit'
  <2>1. \A f \in Edits : f # e => edit[f].stage \notin {"SAVED", "ICON_DONE"}
    BY <1>1 DEF Working
  <2> QED BY <2>1 DEF IconToCommit, Becomes
<1>9. DestroysTheOld'
  BY DEF DestroysTheOld, Becomes
<1> QED BY <1>3, <1>4, <1>5, <1>6, <1>7, <1>8, <1>9

LEMMA KeepsWithDeleteImage ==
    ASSUME CatalogueInvariant, NEW e \in Edits, NEW i \in edit[e].change.drop, DeleteServiceImage(e, i)
    PROVE  CatalogueInvariant'
<1>1. PICK old \in ServiceRows, was \in ChangeRows :
        /\ old = edit[e].work /\ was = edit[e].change
        /\ old.created /\ RowIsSound(old) /\ old.images \subseteq cloud.images \cup torn
  BY OfEdit, OfWork DEF DeleteServiceImage
<1>2. PICK images \in SUBSET Nat, primaries \in SUBSET Nat, drop \in SUBSET Nat :
        /\ images = old.images \ {i} /\ primaries = old.primaries \ {i} /\ drop = was.drop \ {i}
  BY <1>1 DEF ServiceRows, ChangeRows
<1>3. PICK change \in ChangeRows :
        /\ change = [was EXCEPT !.drop = drop]
        /\ change.icon = was.icon /\ change.primary = was.primary /\ change.drop = drop
  <2>1. /\ [was EXCEPT !.drop = drop] \in ChangeRows
        /\ [was EXCEPT !.drop = drop].icon = was.icon
        /\ [was EXCEPT !.drop = drop].primary = was.primary
        /\ [was EXCEPT !.drop = drop].drop = drop
    BY DEF ChangeRows
  <2> QED BY <2>1
<1>4. PICK work \in ServiceRows :
        /\ work = [old EXCEPT !.images = images, !.primaries = primaries]
        /\ work.icon = old.icon /\ work.created = old.created
        /\ work.images = images /\ work.primaries = primaries
  <2>1. /\ [old EXCEPT !.images = images, !.primaries = primaries] \in ServiceRows
        /\ [old EXCEPT !.images = images, !.primaries = primaries].icon = old.icon
        /\ [old EXCEPT !.images = images, !.primaries = primaries].images = images
        /\ [old EXCEPT !.images = images, !.primaries = primaries].primaries = primaries
        /\ [old EXCEPT !.images = images, !.primaries = primaries].created = old.created
    BY DEF ServiceRows
  <2> QED BY <2>1
<1>5. edit[e].stage = "ICON_DONE"
  BY DEF DeleteServiceImage
<1>6. Becomes(e, "ICON_DONE", change, edit[e].seen, work)
  <2>1. edit' = [edit EXCEPT ![e].change.drop = drop, ![e].work.images = images,
                             ![e].work.primaries = primaries]
    BY <1>1, <1>2 DEF DeleteServiceImage, RowsWithout
  <2>2. [edit[e].change EXCEPT !.drop = drop] = change
    BY <1>1, <1>3
  <2>3. [edit[e].work EXCEPT !.images = images, !.primaries = primaries] = work
    BY <1>1, <1>4
  <2> QED BY <1>5, <2>1, <2>2, <2>3, OfEdit DEF Becomes, EditRows
<1>7. /\ cloud' \in [icons : SUBSET Icons, images : SUBSET Nat]
      /\ cloud'.icons = cloud.icons /\ images \subseteq cloud'.images \cup torn
  <2>1. CASE i \in old.images
    <3>1. cloud' = [cloud EXCEPT !.images = cloud.images \ {i}]
      BY <1>1, <2>1 DEF DeleteServiceImage
    <3> QED BY <1>1, <1>2, <3>1 DEF CatalogueInvariant, CatalogueShape
  <2>2. CASE i \notin old.images
    BY <1>1, <1>2, <2>2 DEF DeleteServiceImage, CatalogueInvariant, CatalogueShape
  <2> QED BY <2>1, <2>2
<1>8. RowIsSound(work)
  BY <1>1, <1>2, <1>4 DEF RowIsSound
<1>9. service' = service /\ torn' = torn /\ overlapped' = overlapped /\ nextImage' \in Nat
  BY DEF DeleteServiceImage, CatalogueInvariant, CatalogueShape
<1>10. WorksOnImages(e, change, work)
  BY <1>1, <1>2, <1>3, <1>4, <1>5, <1>6, <1>7, <1>8, <1>9 DEF WorksOnImages
<1> QED BY <1>10, KeepsWithWork

LEMMA KeepsWithSaveImage ==
    ASSUME CatalogueInvariant, NEW e \in Edits, SaveServiceImage(e)
    PROVE  CatalogueInvariant'
<1>1. PICK old \in ServiceRows, was \in ChangeRows :
        /\ old = edit[e].work /\ was = edit[e].change
        /\ old.created /\ RowIsSound(old) /\ old.images \subseteq cloud.images \cup torn
  BY OfEdit, OfWork DEF SaveServiceImage
<1>2. PICK images \in SUBSET Nat, add \in 0..1, i \in Nat :
        i = nextImage' /\ images = old.images \cup {i} /\ add = was.add - 1
  <2>1. nextImage' = nextImage + 1 /\ nextImage \in Nat /\ was.add > 0 /\ was.add \in 0..1
    BY <1>1 DEF SaveServiceImage, CatalogueInvariant, CatalogueShape, ChangeRows
  <2>2. was.add - 1 \in 0..1 /\ nextImage' \in Nat
    BY <2>1
  <2> QED BY <1>1, <2>2 DEF ServiceRows
<1>3. PICK change \in ChangeRows :
        /\ change = [was EXCEPT !.add = add]
        /\ change.icon = was.icon /\ change.primary = was.primary /\ change.drop = was.drop
  <2>1. /\ [was EXCEPT !.add = add] \in ChangeRows
        /\ [was EXCEPT !.add = add].icon = was.icon
        /\ [was EXCEPT !.add = add].primary = was.primary
        /\ [was EXCEPT !.add = add].drop = was.drop
    BY DEF ChangeRows
  <2> QED BY <2>1
<1>4. PICK work \in ServiceRows :
        /\ work = [old EXCEPT !.images = images]
        /\ work.icon = old.icon /\ work.created = old.created
        /\ work.images = images /\ work.primaries = old.primaries
  <2>1. /\ [old EXCEPT !.images = images] \in ServiceRows
        /\ [old EXCEPT !.images = images].icon = old.icon
        /\ [old EXCEPT !.images = images].images = images
        /\ [old EXCEPT !.images = images].primaries = old.primaries
        /\ [old EXCEPT !.images = images].created = old.created
    BY DEF ServiceRows
  <2> QED BY <2>1
<1>5. edit[e].stage = "ICON_DONE"
  BY DEF SaveServiceImage
<1>6. Becomes(e, "ICON_DONE", change, edit[e].seen, work)
  <2>1. edit' = [edit EXCEPT ![e].change.add = add, ![e].work.images = images]
    BY <1>1, <1>2 DEF SaveServiceImage
  <2>2. [edit[e].change EXCEPT !.add = add] = change
    BY <1>1, <1>3
  <2>3. [edit[e].work EXCEPT !.images = images] = work
    BY <1>1, <1>4
  <2> QED BY <1>5, <2>1, <2>2, <2>3, OfEdit DEF Becomes, EditRows
<1>7. /\ cloud' \in [icons : SUBSET Icons, images : SUBSET Nat]
      /\ cloud'.icons = cloud.icons /\ images \subseteq cloud'.images \cup torn
  <2>1. cloud' = [cloud EXCEPT !.images = cloud.images \cup {i}]
    BY <1>2 DEF SaveServiceImage
  <2> QED BY <1>1, <1>2, <2>1 DEF CatalogueInvariant, CatalogueShape
<1>8. RowIsSound(work)
  BY <1>1, <1>2, <1>4 DEF RowIsSound
<1>9. service' = service /\ torn' = torn /\ overlapped' = overlapped /\ nextImage' \in Nat
  BY <1>2 DEF SaveServiceImage
<1>10. WorksOnImages(e, change, work)
  BY <1>1, <1>2, <1>3, <1>4, <1>5, <1>6, <1>7, <1>8, <1>9 DEF WorksOnImages
<1> QED BY <1>10, KeepsWithWork

LEMMA KeepsWithCommitEdit ==
    ASSUME CatalogueAssumption, CatalogueInvariant, NEW e \in Edits, CommitEdit(e)
    PROVE  CatalogueInvariant'
<1> USE DEF CatalogueInvariant
<1> DEFINE sort == edit[e].change.icon
           picked == edit[e].change.primary
<1>1. /\ nextImage' = nextImage /\ cloud' = cloud /\ torn' = torn
      /\ overlapped' = (overlapped \/ service # edit[e].seen)
      /\ edit[e].stage = "ICON_DONE" /\ overlapped \in BOOLEAN /\ overlapped' \in BOOLEAN
  BY DEF CommitEdit, CatalogueShape
<1>2. PICK old \in ServiceRows :
        /\ old = edit[e].work /\ old.created
        /\ RowIsSound(old) /\ old.images \subseteq cloud.images \cup torn
  BY <1>1, OfEdit, OfWork
<1>3. e \in Working /\ (\A f \in Working : f = e) /\ service.created
  BY <1>1, OfWork
<1>4. PICK primaries \in SUBSET Nat :
        /\ primaries = PrimariesOf(e)
        /\ primaries \subseteq old.images /\ \A i, j \in primaries : i = j
        /\ (picked = 0 \/ picked \in old.images) /\ edit[e].seen.images # {} => primaries # {}
  <2>1. picked \in Nat /\ edit[e].seen \in ServiceRows /\ FirstIsThere(e)
    BY OfEdit DEF ChangeRows, CommitEdit
  <2> QED BY <1>2, <2>1, PrimariesOfSound
<1>5. /\ service' \in ServiceRows /\ service'.icon = old.icon /\ service'.images = old.images
      /\ service'.primaries = primaries /\ service'.created = old.created
  <2>1. service' = [old EXCEPT !.primaries = primaries]
    BY <1>2, <1>4 DEF CommitEdit
  <2> QED BY <2>1 DEF ServiceRows
<1>6. PICK stage \in {"DONE", "COMMITTED"} :
        /\ stage = (IF sort = "KEEP" THEN "DONE" ELSE "COMMITTED")
        /\ Becomes(e, stage, edit[e].change, edit[e].seen, old)
  <2>1. PICK stage \in {"DONE", "COMMITTED"} : stage = (IF sort = "KEEP" THEN "DONE" ELSE "COMMITTED")
    OBVIOUS
  <2>2. edit' = [edit EXCEPT ![e].stage = stage]
    BY <2>1 DEF CommitEdit
  <2>3. stage \in EditStages
    BY DEF EditStages
  <2>4. Becomes(e, stage, edit[e].change, edit[e].seen, edit[e].work)
    BY <2>2, <2>3, OfEdit, StageBecomes
  <2> QED BY <1>2, <2>1, <2>4
<1>7. Working' = {}
  BY <1>3, <1>6 DEF Working, Becomes
<1>8. CatalogueShape'
  BY <1>1, <1>5, <1>6 DEF CatalogueShape, Becomes
<1>9. RowIsSound(service)' /\ OneWorks' /\ WorkIsSound' /\ ImagesExist'
  BY <1>1, <1>2, <1>4, <1>5, <1>7 DEF RowIsSound, OneWorks, WorkIsSound, ImagesExist
<1>10. CreatedFirst'
  BY <1>2, <1>5 DEF CreatedFirst
<1>11. PickIsKept'
  BY <1>6, <1>7 DEF PickIsKept, Becomes
<1>12. /\ sort = "NEW" => old.icon = e /\ e \in cloud.icons
       /\ sort = "REMOVE" => old.icon = NoIcon
       /\ sort = "KEEP" => old.icon = edit[e].seen.icon
       /\ sort \in {"KEEP", "NEW", "REMOVE"}
  BY <1>1, <1>2, OfEdit DEF IconToCommit, ChangeRows
<1>13. IconsAreNew'
  <2> SUFFICES ASSUME NEW g \in Edits, edit'[g].stage \notin {"COMMITTED", "DONE"}
               PROVE  service'.icon # g /\ \A f \in Edits : edit'[f].seen.icon # g
    BY DEF IconsAreNew
  <2>1. g # e /\ edit'[g] = edit[g]
    BY <1>6 DEF Becomes
  <2>2. \A f \in Edits : edit[f].seen.icon # g
    BY <2>1 DEF IconsAreNew
  <2>3. \A f \in Edits : edit'[f].seen = edit[f].seen
    BY <1>6 DEF Becomes
  <2>4. old.icon # g
    BY <1>12, <2>1, <2>2 DEF CatalogueAssumption
  <2> QED BY <1>5, <2>2, <2>3, <2>4
<1>14. IconToCommit'
  BY <1>3, <1>6, <1>7 DEF IconToCommit, Becomes, Working
<1>15. DestroysTheOld'
  <2> SUFFICES ASSUME ~overlapped', NEW f \in Edits, edit'[f].stage = "COMMITTED"
               PROVE  edit'[f].seen.icon # service'.icon \/ service'.icon = NoIcon
    BY DEF DestroysTheOld
  <2>1. ~overlapped /\ service = edit[e].seen
    BY <1>1
  <2>2. edit[e].seen.icon # e /\ edit[f].seen.icon # e
    BY <1>1 DEF IconsAreNew
  <2>3. edit'[f].seen = edit[f].seen
    BY <1>6 DEF Becomes
  <2>4. CASE f = e
    BY <1>5, <1>6, <1>12, <2>2, <2>4 DEF Becomes
  <2>5. CASE f # e
    <3>1. edit[f].seen.icon # service.icon \/ service.icon = NoIcon
      BY <1>6, <2>1, <2>5 DEF Becomes, DestroysTheOld
    <3> QED BY <1>5, <1>12, <2>1, <2>2, <2>3, <3>1
  <2> QED BY <2>4, <2>5
<1>16. PrimaryKept'
  <2> SUFFICES ASSUME ~overlapped'
               PROVE  /\ Committed' # {}
                      /\ \A f \in Committed' : edit'[f].seen.images # {} => primaries # {}
    BY <1>5 DEF PrimaryKept
  <2>1. service = edit[e].seen /\ ~overlapped
    BY <1>1
  <2>2. picked = 0 \/ picked \in old.images
    BY <1>2, <1>3, <2>1 DEF PickIsKept
  <2>3. CASE edit[e].seen.images # {}
    BY <1>4, <1>6, <2>2, <2>3 DEF Committed, Becomes
  <2>4. CASE edit[e].seen.images = {}
    <3>1. service.primaries = {}
      BY <2>1, <2>4 DEF RowIsSound
    <3>2. \A f \in Committed : edit[f].seen.images = {}
      BY <2>1, <3>1 DEF PrimaryKept
    <3> QED BY <1>6, <2>4, <3>2 DEF Committed, Becomes
  <2> QED BY <2>3, <2>4
<1>17. IconExists'
  <2> SUFFICES ASSUME ~overlapped' PROVE old.icon \in cloud.icons \cup {NoIcon}
    BY <1>1, <1>5 DEF IconExists
  <2>1. ~overlapped /\ service = edit[e].seen
    BY <1>1
  <2> QED BY <1>12, <2>1 DEF IconExists
<1> QED BY <1>8, <1>9, <1>10, <1>11, <1>13, <1>14, <1>15, <1>16, <1>17

LEMMA KeepsWithRollBackEdit ==
    ASSUME CatalogueInvariant, NEW e \in Edits, RollBackEdit(e)
    PROVE  CatalogueInvariant'
<1> USE DEF CatalogueInvariant
<1>1. /\ service' = service /\ nextImage' = nextImage /\ cloud' = cloud /\ overlapped' = overlapped
      /\ torn' = torn \cup (service.images \ cloud.images)
      /\ edit[e].stage \in {"SAVED", "ICON_DONE"}
  BY DEF RollBackEdit, Working
<1>2. (\A f \in Working : f = e) /\ service.created
  BY <1>1, OfWork
<1>3. Becomes(e, "FAILED", edit[e].change, edit[e].seen, edit[e].work)
  <2>1. "FAILED" \in EditStages
    BY DEF EditStages
  <2> QED BY <2>1, OfEdit, StageBecomes DEF RollBackEdit
<1>4. Working' = {}
  BY <1>2, <1>3 DEF Working, Becomes
<1>5. CatalogueShape'
  BY <1>1, <1>3 DEF CatalogueShape, Becomes, ServiceRows
<1>6. /\ RowIsSound(service)' /\ OneWorks' /\ WorkIsSound' /\ ImagesExist' /\ CreatedFirst'
      /\ PrimaryKept' /\ IconExists'
  <2>1. Committed' = Committed /\ \A f \in Committed : edit'[f].seen = edit[f].seen
    BY <1>1, <1>3 DEF Committed, Becomes
  <2> QED BY <1>1, <1>2, <1>4, <2>1, PrimaryStays
          DEF RowIsSound, OneWorks, WorkIsSound, ImagesExist, CreatedFirst, IconExists
<1>7. PickIsKept' /\ IconsAreNew' /\ IconToCommit' /\ DestroysTheOld'
  <2>1. PickIsKept'
    BY <1>1, <1>3, <1>4 DEF PickIsKept, Becomes
  <2>2. IconsAreNew'
    BY <1>1, <1>3 DEF IconsAreNew, Becomes
  <2>3. IconToCommit'
    BY <1>1, <1>3, <1>4 DEF IconToCommit, Becomes, Working
  <2>4. DestroysTheOld'
    BY <1>1, <1>3 DEF DestroysTheOld, Becomes
  <2> QED BY <2>1, <2>2, <2>3, <2>4
<1> QED BY <1>5, <1>6, <1>7

LEMMA KeepsWithDeleteCloudinaryUrl ==
    ASSUME CatalogueInvariant, NEW e \in Edits, NEW fails \in BOOLEAN, DeleteCloudinaryUrl(e, fails)
    PROVE  CatalogueInvariant'
<1> USE DEF CatalogueInvariant
<1>1. /\ service' = service /\ nextImage' = nextImage /\ torn' = torn /\ overlapped' = overlapped
      /\ edit[e].stage = "COMMITTED"
  BY DEF DeleteCloudinaryUrl
<1>2. /\ cloud' \in [icons : SUBSET Icons, images : SUBSET Nat]
      /\ cloud'.images = cloud.images /\ cloud.icons \subseteq cloud'.icons \cup {edit[e].seen.icon}
  <2>1. CASE fails
    BY <2>1 DEF DeleteCloudinaryUrl, CatalogueShape
  <2>2. CASE ~fails
    <3>1. cloud' = [cloud EXCEPT !.icons = cloud.icons \ {edit[e].seen.icon}]
      BY <2>2 DEF DeleteCloudinaryUrl
    <3> QED BY <3>1 DEF CatalogueShape
  <2> QED BY <2>1, <2>2
<1>3. Becomes(e, "DONE", edit[e].change, edit[e].seen, edit[e].work)
  <2>1. "DONE" \in EditStages
    BY DEF EditStages
  <2> QED BY <2>1, OfEdit, StageBecomes DEF DeleteCloudinaryUrl
<1>4. Working' = Working /\ e \notin Working
  BY <1>1, <1>3 DEF Working, Becomes
<1>5. CatalogueShape'
  BY <1>1, <1>2, <1>3 DEF CatalogueShape, Becomes
<1>6. RowIsSound(service)' /\ OneWorks' /\ ImagesExist' /\ PrimaryKept'
  <2>1. Committed' = Committed /\ \A f \in Committed : edit'[f].seen = edit[f].seen
    BY <1>1, <1>3 DEF Committed, Becomes
  <2> QED BY <1>1, <1>2, <1>4, <2>1, PrimaryStays DEF RowIsSound, OneWorks, ImagesExist
<1>7. CreatedFirst'
  BY <1>1, <1>3 DEF CreatedFirst, Becomes
<1>8. WorkIsSound'
  <2>1. \A f \in Working : edit'[f] = edit[f]
    BY <1>3, <1>4 DEF Working, Becomes
  <2> QED BY <1>1, <1>2, <1>4, <2>1 DEF WorkIsSound, RowIsSound
<1>9. PickIsKept'
  BY <1>1, <1>3, <1>4 DEF PickIsKept, Becomes
<1>10. IconsAreNew'
  BY <1>1, <1>3 DEF IconsAreNew, Becomes
<1>11. IconToCommit'
  <2>1. ASSUME NEW f \in Edits, edit[f].stage = "ICON_DONE", edit[f].change.icon = "NEW"
        PROVE  f \in cloud'.icons
    <3>1. f \in cloud.icons
      BY <2>1 DEF IconToCommit
    <3>2. edit[e].seen.icon # f
      BY <2>1 DEF IconsAreNew
    <3> QED BY <1>2, <3>1, <3>2
  <2> QED BY <1>1, <1>3, <2>1 DEF IconToCommit, Becomes
<1>12. DestroysTheOld'
  BY <1>1, <1>3 DEF DestroysTheOld, Becomes
<1>13. IconExists'
  BY <1>1, <1>2 DEF IconExists, DestroysTheOld
<1> QED BY <1>5, <1>6, <1>7, <1>8, <1>9, <1>10, <1>11, <1>12, <1>13

-----------------------------------------------------------------------------
LEMMA CatalogueBegins == CatalogueInit => CatalogueInvariant
<1> SUFFICES ASSUME CatalogueInit PROVE CatalogueInvariant
  OBVIOUS
<1>1. /\ service = NoService /\ NoService.images = {} /\ NoService.primaries = {} /\ NoService.icon = NoIcon
      /\ ~NoService.created
      /\ \A e \in Edits : edit[e] = NoEdit /\ edit[e].stage = "NONE" /\ edit[e].seen = NoService
  BY DEF CatalogueInit, NoService, NoEdit
<1>2. CatalogueShape
  BY EmptyRow DEF CatalogueInit, CatalogueShape
<1>3. Working = {}
  BY <1>1 DEF Working
<1>4. RowIsSound(service) /\ CreatedFirst /\ OneWorks /\ WorkIsSound
  BY <1>1, <1>3 DEF RowIsSound, CreatedFirst, OneWorks, WorkIsSound
<1>5. PickIsKept /\ IconToCommit /\ DestroysTheOld
  BY <1>1, <1>3 DEF PickIsKept, IconToCommit, DestroysTheOld
<1>6. PrimaryKept /\ IconExists /\ ImagesExist
  BY <1>1 DEF PrimaryKept, IconExists, ImagesExist, Committed
<1>7. IconsAreNew
  BY <1>1, CatalogueAssumption DEF IconsAreNew, CatalogueAssumption
<1> QED BY <1>2, <1>4, <1>5, <1>6, <1>7 DEF CatalogueInvariant

LEMMA CatalogueStep == CatalogueInvariant /\ [CatalogueNext]_catalogueVars => CatalogueInvariant'
<1> SUFFICES ASSUME CatalogueInvariant, [CatalogueNext]_catalogueVars PROVE CatalogueInvariant'
  OBVIOUS
<1> USE CatalogueAssumption
<1>1. CASE UNCHANGED catalogueVars
  BY <1>1 DEF catalogueVars, CatalogueInvariant, CatalogueShape, RowIsSound, CreatedFirst, OneWorks, WorkIsSound,
              PickIsKept, IconsAreNew, IconToCommit, DestroysTheOld, PrimaryKept, IconExists, ImagesExist, Working,
              Committed
<1>2. ASSUME NEW count \in 0..2, NEW fails \in BOOLEAN, CreateService(count, fails) PROVE CatalogueInvariant'
  BY <1>2, KeepsWithCreateService
<1>3. ASSUME NEW e \in Edits,
             \/ \E c \in Changes : LoadService(e, c)
             \/ SaveService(e) \/ SaveIcon(e)
             \/ \E i \in edit[e].change.drop : DeleteServiceImage(e, i)
             \/ SaveServiceImage(e) \/ CommitEdit(e) \/ RollBackEdit(e)
             \/ \E fails \in BOOLEAN : DeleteCloudinaryUrl(e, fails)
      PROVE  CatalogueInvariant'
  BY <1>3, KeepsWithLoadService, KeepsWithSaveService, KeepsWithSaveIcon, KeepsWithDeleteImage,
     KeepsWithSaveImage, KeepsWithCommitEdit, KeepsWithRollBackEdit, KeepsWithDeleteCloudinaryUrl
<1> QED BY <1>1, <1>2, <1>3 DEF CatalogueNext

\* For any number of edits at once and of images: the service has one primary image of its
\* own at most, and its icon and images are files that are there, unless edits crossed or
\* were rolled back after they had destroyed one.
THEOREM CatalogueStaysSafe == CatalogueSpec => []CatalogueSafe
<1>1. CatalogueSpec => []CatalogueInvariant
  BY CatalogueBegins, CatalogueStep, PTL DEF CatalogueSpec
<1>2. CatalogueInvariant => CatalogueSafe
  BY SameIsOne DEF CatalogueInvariant, RowIsSound, CatalogueSafe, OnePrimary
<1> QED BY <1>1, <1>2, PTL

-----------------------------------------------------------------------------
(* Addresses. *)

Spots == AddressRequests \cup {Made}
AddressRows == [exists : BOOLEAN, active : BOOLEAN, default : BOOLEAN, where : Spots]
LoadingKinds == {"EDIT", "MOVE", "DELETE", "DEFAULT", "BOOK"}
AddressKinds == LoadingKinds \cup {"NONE", "CREATE", "ENDED"}
Marking == {"WRITTEN", "LOCKED", "CLEARED"}
AddressStages == Marking \cup {"NONE", "LOADED", "COUNTED", "CHECKED", "DELETED", "ENDED"}
RowsOfWork == UNION {[S -> AddressRows] : S \in SUBSET Places}
RequestsOfAddresses ==
    [kind : AddressKinds, stage : AddressStages, on : SUBSET Places, seen : AddressRows,
     default : BOOLEAN, work : RowsOfWork, listed : SUBSET Places, mark : SUBSET Places]

AddressShape ==
    /\ address \in [Places -> AddressRows]
    /\ requested \in [AddressRequests -> RequestsOfAddresses]
    /\ bookings \subseteq [to : Places, where : Spots]
    /\ crossed \subseteq Places

\* A row is held by one transaction.
HeldApart == \A r, x \in AddressRequests : r # x => Held(r) \cap Held(x) = {}

\* A row that is there stays, and only such a row is active.
RowsStay ==
    /\ \A p \in Places : address[p].active => address[p].exists
    /\ \A b \in bookings : address[b.to].exists

\* A row of a transaction leaves the address where it is, unless it moves it or is an old one.
RowFits(x, q, row) ==
    /\ row.active => row.exists
    /\ address[q].exists =>
           /\ row.exists
           /\ \/ row.where = address[q].where
              \/ q \in x.on /\ (x.kind = "MOVE" \/ address[q] # x.seen)

\* What a request has loaded was in use. A creation that is not the first holds an active
\* address as it is; what is to be the default is active in the transaction that will mark it,
\* unless it was only asked for.
RequestFits(x) ==
    /\ x.kind \in {"NONE", "ENDED"} => x.stage = x.kind /\ x.on = {} /\ DOMAIN x.work = {}
    /\ x.kind \in LoadingKinds => x.seen.active /\ x.seen.exists /\ \A p \in x.on : address[p].exists
    /\ x.kind = "CREATE" => x.on = {}
    /\ x.kind = "DELETE" => x.on # {}
    /\ \A p, q \in x.on : p = q
    /\ x.stage = "DELETED" => x.kind = "DELETE"
    /\ x.kind = "DEFAULT" => \A q \in DOMAIN x.work : x.work[q].active
    /\ x.stage \in {"LOADED", "CHECKED"} => DOMAIN x.work = {}
    /\ x.stage = "COUNTED" =>
           /\ \A q \in DOMAIN x.work : x.work[q] = address[q]
           /\ x.default \/ \E q \in DOMAIN x.work : x.work[q].active
    /\ x.stage \in Marking =>
           \A m \in x.mark : \/ m \in DOMAIN x.work /\ x.work[m].active
                             \/ x.kind = "DEFAULT" /\ m \in x.on
    /\ \A q \in DOMAIN x.work : RowFits(x, q, x.work[q])

\* A move that was allowed and is not committed: bookings made since are known.
MovesAreSeen ==
    \A r \in AddressRequests, b \in bookings :
        requested[r].kind = "MOVE" /\ requested[r].stage # "LOADED" /\ b.to \in requested[r].on => b.to \in crossed

AddressInvariant ==
    /\ AddressShape /\ HeldApart /\ RowsStay /\ MovesAreSeen
    /\ \A r \in AddressRequests : RequestFits(requested[r])
    /\ SomeDefault /\ PlaceOfBookingStays

-----------------------------------------------------------------------------
LEMMA OfRequest ==
    ASSUME AddressShape, NEW r \in AddressRequests
    PROVE  LET x == requested[r]
           IN  /\ x \in RequestsOfAddresses /\ x.kind \in AddressKinds /\ x.stage \in AddressStages
               /\ x.on \in SUBSET Places /\ x.seen \in AddressRows /\ x.default \in BOOLEAN
               /\ x.work \in RowsOfWork /\ x.listed \in SUBSET Places /\ x.mark \in SUBSET Places
               /\ Held(r) \subseteq Places /\ x.work \in [Held(r) -> AddressRows]
<1>1. requested[r] \in RequestsOfAddresses
  BY DEF AddressShape
<1>2. requested[r].work \in RowsOfWork
  BY <1>1 DEF RequestsOfAddresses
<1>3. PICK S \in SUBSET Places : requested[r].work \in [S -> AddressRows]
  BY <1>2 DEF RowsOfWork
<1>4. S = Held(r)
  BY <1>3 DEF Held
<1> QED BY <1>1, <1>2, <1>3, <1>4 DEF RequestsOfAddresses

LEMMA NoRequestIs ==
    /\ NoAddress \in AddressRows /\ ~NoAddress.active /\ ~NoAddress.exists
    /\ NoRows \in RowsOfWork /\ DOMAIN NoRows = {}
    /\ NoRequest \in RequestsOfAddresses /\ NoRequest.kind = "NONE" /\ NoRequest.stage = "NONE"
    /\ NoRequest.on = {} /\ NoRequest.work = NoRows /\ NoRequest.mark = {}
    /\ Ended \in RequestsOfAddresses /\ Ended.kind = "ENDED" /\ Ended.stage = "ENDED"
    /\ Ended.on = {} /\ Ended.work = NoRows
<1>1. NoAddress \in AddressRows /\ ~NoAddress.active /\ ~NoAddress.exists
  BY DEF NoAddress, AddressRows, Spots
<1>2. NoRows \in [{} -> AddressRows] /\ DOMAIN NoRows = {}
  BY DEF NoRows
<1>3. NoRows \in RowsOfWork
  BY <1>2 DEF RowsOfWork
<1>4. /\ NoRequest \in RequestsOfAddresses /\ NoRequest.kind = "NONE" /\ NoRequest.stage = "NONE"
      /\ NoRequest.on = {} /\ NoRequest.work = NoRows /\ NoRequest.mark = {}
  BY <1>1, <1>3 DEF NoRequest, RequestsOfAddresses, AddressKinds, AddressStages
<1>5. /\ Ended \in RequestsOfAddresses /\ Ended.kind = "ENDED" /\ Ended.stage = "ENDED"
      /\ Ended.on = {} /\ Ended.work = NoRows
  BY <1>4 DEF Ended, RequestsOfAddresses, AddressKinds, AddressStages
<1> QED BY <1>1, <1>2, <1>3, <1>4, <1>5

LEMMA ViewIs ==
    ASSUME AddressShape, NEW r \in AddressRequests, NEW p \in Places
    PROVE  /\ View(r)[p] \in AddressRows
           /\ p \in Held(r) => View(r)[p] = requested[r].work[p]
           /\ p \notin Held(r) => View(r)[p] = address[p]
BY OfRequest DEF View, AddressShape

LEMMA WithIs ==
    ASSUME AddressShape, NEW r \in AddressRequests, NEW p \in Places, NEW row \in AddressRows
    PROVE  /\ With(r, p, row) \in RowsOfWork /\ DOMAIN With(r, p, row) = Held(r) \cup {p}
           /\ With(r, p, row)[p] = row
           /\ \A q \in Held(r) : q # p => With(r, p, row)[q] = requested[r].work[q]
<1>1. With(r, p, row) \in [Held(r) \cup {p} -> AddressRows]
  BY OfRequest DEF With
<1>2. Held(r) \cup {p} \in SUBSET Places
  BY OfRequest
<1>3. With(r, p, row) \in RowsOfWork
  BY <1>1, <1>2 DEF RowsOfWork
<1> QED BY <1>1, <1>3 DEF With

\* An open request has a kind, and a move that is past its check is known to its bookings.
LEMMA OpenRequest ==
    ASSUME AddressInvariant, NEW r \in AddressRequests
    PROVE  /\ RequestFits(requested[r]) /\ AddressShape
           /\ requested[r].stage \notin {"NONE", "ENDED"} => requested[r].kind \notin {"NONE", "ENDED"}
           /\ requested[r].kind = "MOVE" /\ requested[r].stage # "LOADED" =>
                  \A b \in bookings : b.to \in requested[r].on => b.to \in crossed
BY DEF AddressInvariant, MovesAreSeen, RequestFits

\* A row as the transaction sees it, but for the mark.
LEMMA ViewFits ==
    ASSUME AddressInvariant, NEW r \in AddressRequests, NEW q \in Places, NEW row \in AddressRows,
           row.exists = View(r)[q].exists, row.active = View(r)[q].active, row.where = View(r)[q].where
    PROVE  RowFits(requested[r], q, row)
<1>1. CASE q \in Held(r)
  <2>1. RowFits(requested[r], q, requested[r].work[q])
    BY <1>1 DEF AddressInvariant, RequestFits, Held
  <2> QED BY <1>1, <2>1, ViewIs DEF RowFits, AddressInvariant
<1>2. CASE q \notin Held(r)
  BY <1>2, ViewIs DEF RowFits, AddressInvariant, RowsStay
<1> QED BY <1>1, <1>2

LEMMA WithFits ==
    ASSUME AddressInvariant, NEW r \in AddressRequests, NEW p \in Places, NEW row \in AddressRows,
           RowFits(requested[r], p, row)
    PROVE  \A q \in DOMAIN With(r, p, row) : RowFits(requested[r], q, With(r, p, row)[q])
<1>1. \A q \in Held(r) : RowFits(requested[r], q, requested[r].work[q])
  BY DEF AddressInvariant, RequestFits, Held
<1>2. /\ DOMAIN With(r, p, row) = Held(r) \cup {p} /\ With(r, p, row)[p] = row
      /\ \A q \in Held(r) : q # p => With(r, p, row)[q] = requested[r].work[q]
  BY WithIs, OpenRequest
<1> QED BY <1>1, <1>2

\* What other transactions hold is theirs.
LEMMA NotTaken ==
    ASSUME AddressInvariant, NEW r \in AddressRequests, NEW p \in Places, p \notin HeldByOthers(r)
    PROVE  (Held(r) \cup {p}) \cap HeldByOthers(r) = {} /\ Held(r) \cap HeldByOthers(r) = {}
BY DEF AddressInvariant, HeldApart, HeldByOthers

-----------------------------------------------------------------------------
\* A request takes another form; nothing is committed.
LEMMA KeepsWithRequest ==
    ASSUME AddressInvariant, NEW r \in AddressRequests, NEW x \in RequestsOfAddresses,
           requested' = [requested EXCEPT ![r] = x], UNCHANGED <<address, bookings, crossed>>,
           RequestFits(x), DOMAIN x.work \cap HeldByOthers(r) = {},
           x.kind = "MOVE" /\ x.stage # "LOADED" => \A b \in bookings : b.to \in x.on => b.to \in crossed
    PROVE  AddressInvariant'
<1> USE DEF AddressInvariant
<1>1. /\ requested' \in [AddressRequests -> RequestsOfAddresses] /\ requested'[r] = x
      /\ \A y \in AddressRequests : y # r => requested'[y] = requested[y]
  BY DEF AddressShape
<1>2. AddressShape' /\ RowsStay' /\ SomeDefault' /\ PlaceOfBookingStays'
  BY <1>1 DEF AddressShape, RowsStay, SomeDefault, PlaceOfBookingStays, ActiveIn, DefaultsIn
<1>3. HeldApart'
  BY <1>1 DEF HeldApart, Held, HeldByOthers
<1>4. MovesAreSeen'
  BY <1>1 DEF MovesAreSeen
<1>5. ASSUME NEW y \in AddressRequests PROVE RequestFits(requested[y])'
  <2>1. CASE y = r
    BY <1>1, <2>1 DEF RequestFits, RowFits
  <2>2. CASE y # r
    <3>1. RequestFits(requested[y]) /\ requested'[y] = requested[y]
      BY <1>1, <2>2
    <3> QED BY <3>1 DEF RequestFits, RowFits
  <2> QED BY <2>1, <2>2
<1> QED BY <1>2, <1>3, <1>4, <1>5

LEMMA KeepsWithContinue ==
    ASSUME AddressInvariant, NEW r \in AddressRequests, NEW stage \in AddressStages \ {"LOADED", "NONE", "ENDED"},
           NEW work \in RowsOfWork, NEW found \in SUBSET Places, NEW mark \in SUBSET Places,
           Continue(r, stage, work, found, mark), requested[r].kind \notin {"NONE", "ENDED"},
           DOMAIN work \cap HeldByOthers(r) = {},
           stage = "DELETED" => requested[r].kind = "DELETE",
           requested[r].kind = "DEFAULT" => \A q \in DOMAIN work : work[q].active,
           stage = "CHECKED" => DOMAIN work = {},
           stage = "COUNTED" => /\ \A q \in DOMAIN work : work[q] = address[q]
                                /\ requested[r].default \/ \E q \in DOMAIN work : work[q].active,
           stage \in Marking => \A m \in mark : \/ m \in DOMAIN work /\ work[m].active
                                                \/ requested[r].kind = "DEFAULT" /\ m \in requested[r].on,
           \A q \in DOMAIN work : RowFits(requested[r], q, work[q]),
           requested[r].kind = "MOVE" => \A b \in bookings : b.to \in requested[r].on => b.to \in crossed
    PROVE  AddressInvariant'
<1>1. PICK old \in RequestsOfAddresses : old = requested[r]
  BY OfRequest DEF AddressInvariant
<1>2. PICK x \in RequestsOfAddresses :
        /\ x = [old EXCEPT !.stage = stage, !.work = work, !.listed = found, !.mark = mark]
        /\ x.stage = stage /\ x.work = work /\ x.listed = found /\ x.mark = mark
        /\ x.kind = old.kind /\ x.on = old.on /\ x.seen = old.seen /\ x.default = old.default
  <2>1. LET x == [old EXCEPT !.stage = stage, !.work = work, !.listed = found, !.mark = mark]
        IN  /\ x \in RequestsOfAddresses
            /\ x.stage = stage /\ x.work = work /\ x.listed = found /\ x.mark = mark
            /\ x.kind = old.kind /\ x.on = old.on /\ x.seen = old.seen /\ x.default = old.default
    BY DEF RequestsOfAddresses
  <2> QED BY <2>1
<1>3. requested' = [requested EXCEPT ![r] = x] /\ UNCHANGED <<address, bookings, crossed>>
  BY <1>1, <1>2 DEF Continue
<1>4. RequestFits(x)
  <2>1. RequestFits(old)
    BY <1>1 DEF AddressInvariant
  <2>2. \A q \in DOMAIN work : RowFits(x, q, work[q])
    BY <1>1, <1>2 DEF RowFits
  <2> QED BY <1>1, <1>2, <2>1, <2>2 DEF RequestFits
<1> QED BY <1>1, <1>2, <1>3, <1>4, KeepsWithRequest

\* A transaction is committed.
LEMMA KeepsWithCommitted ==
    ASSUME AddressInvariant, NEW r \in AddressRequests, NEW work \in RowsOfWork, NEW missed \in BOOLEAN,
           CommitRows(r, work, missed), DOMAIN work \cap HeldByOthers(r) = {},
           \A q \in DOMAIN work : RowFits(requested[r], q, work[q]),
           requested[r].kind = "MOVE" => requested[r].stage # "LOADED",
           SomeDefault'
    PROVE  AddressInvariant'
<1> USE DEF AddressInvariant
<1>1. /\ requested' = [requested EXCEPT ![r] = Ended]
      /\ address' = [p \in Places |-> IF p \in DOMAIN work THEN work[p] ELSE address[p]]
      /\ crossed' = crossed \cup {p \in requested[r].on : missed \/ address[p] # requested[r].seen}
      /\ bookings' = bookings
  BY DEF CommitRows
<1>2. DOMAIN work \subseteq Places /\ work \in [DOMAIN work -> AddressRows]
  BY DEF RowsOfWork
<1>3. /\ \A p \in Places : p \in DOMAIN work => address'[p] = work[p]
      /\ \A p \in Places : p \notin DOMAIN work => address'[p] = address[p]
      /\ address' \in [Places -> AddressRows]
  BY <1>1, <1>2 DEF AddressShape
<1>4. /\ requested' \in [AddressRequests -> RequestsOfAddresses] /\ requested'[r] = Ended
      /\ \A y \in AddressRequests : y # r => requested'[y] = requested[y]
  BY <1>1, NoRequestIs DEF AddressShape
<1>5. AddressShape'
  BY <1>1, <1>3, <1>4, OfRequest DEF AddressShape
<1>6. \A p \in Places : address[p].exists => address'[p].exists
  BY <1>3 DEF RowFits
<1>7. RowsStay'
  <2>1. \A p \in Places : address'[p].active => address'[p].exists
    BY <1>3 DEF RowFits, RowsStay
  <2>2. \A b \in bookings : b.to \in Places
    BY DEF AddressShape
  <2> QED BY <1>1, <1>6, <2>1, <2>2 DEF RowsStay
<1>8. HeldApart'
  BY <1>4, NoRequestIs DEF HeldApart, Held
<1>9. MovesAreSeen'
  BY <1>1, <1>4, NoRequestIs DEF MovesAreSeen
<1>10. ASSUME NEW y \in AddressRequests PROVE RequestFits(requested[y])'
  <2>1. CASE y = r
    BY <1>4, <2>1, NoRequestIs DEF RequestFits, RowFits, LoadingKinds, Marking
  <2>2. CASE y # r
    <3>1. RequestFits(requested[y]) /\ requested'[y] = requested[y]
      BY <1>4, <2>2
    <3>2. \A q \in Held(y) : q \in Places /\ q \notin DOMAIN work /\ address'[q] = address[q]
      BY <1>3, <2>2, OfRequest DEF HeldByOthers
    <3>3. \A q \in DOMAIN requested'[y].work : q \in Places /\ address'[q] = address[q]
      BY <3>1, <3>2 DEF Held
    <3>4. \A p \in requested[y].on : p \in Places
      BY OfRequest
    <3> QED BY <1>6, <3>1, <3>3, <3>4 DEF RequestFits, RowFits
  <2> QED BY <2>1, <2>2
<1>11. PlaceOfBookingStays'
  <2> SUFFICES ASSUME NEW b \in bookings, b.to \notin crossed' PROVE address'[b.to].where = b.where
    BY <1>1 DEF PlaceOfBookingStays
  <2>1. b.to \in Places /\ b.to \notin crossed /\ address[b.to].where = b.where /\ address[b.to].exists
    BY <1>1 DEF PlaceOfBookingStays, RowsStay, AddressShape
  <2>2. b.to \in requested[r].on => address[b.to] = requested[r].seen /\ requested[r].kind # "MOVE"
    BY <1>1, <2>1 DEF MovesAreSeen
  <2> QED BY <1>3, <2>1, <2>2 DEF RowFits
<1> QED BY <1>5, <1>7, <1>8, <1>9, <1>10, <1>11

\* Nothing a commit does takes the default away, unless it writes the row that has it.
LEMMA DefaultStays ==
    ASSUME AddressInvariant, NEW r \in AddressRequests, NEW work \in RowsOfWork, NEW missed \in BOOLEAN,
           CommitRows(r, work, missed),
           crossed' = {} /\ ActiveIn(address') # {} => ActiveIn(address) # {},
           \A q \in DOMAIN work : crossed' = {} /\ IsDefault(address[q]) => IsDefault(work[q])
    PROVE  SomeDefault'
<1>1. /\ address' = [p \in Places |-> IF p \in DOMAIN work THEN work[p] ELSE address[p]]
      /\ crossed \subseteq crossed'
  BY DEF CommitRows
<1>2. SUFFICES ASSUME crossed' = {}, ActiveIn(address') # {} PROVE DefaultsIn(address') # {}
  BY DEF SomeDefault
<1>3. PICK d \in Places : IsDefault(address[d])
  BY <1>1, <1>2 DEF AddressInvariant, SomeDefault, DefaultsIn
<1>4. IsDefault(address'[d])
  BY <1>1, <1>2, <1>3
<1> QED BY <1>4 DEF DefaultsIn

-----------------------------------------------------------------------------
LEMMA KeepsWithBegin ==
    ASSUME AddressInvariant, NEW r \in AddressRequests, NEW sort \in LoadingKinds \cup {"CREATE"},
           NEW on \in SUBSET Places, NEW seen \in AddressRows, NEW default \in BOOLEAN, NEW found \in SUBSET Places,
           Begin(r, sort, on, seen, default, found),
           sort = "CREATE" => on = {}, sort = "DELETE" => on # {}, \A p, q \in on : p = q,
           sort # "CREATE" => seen.active /\ seen.exists /\ \A p \in on : address[p].exists
    PROVE  AddressInvariant'
<1>1. PICK x \in RequestsOfAddresses :
        /\ x = [NoRequest EXCEPT !.kind = sort, !.stage = "LOADED", !.on = on, !.seen = seen,
                                 !.default = default, !.listed = found]
        /\ x.kind = sort /\ x.stage = "LOADED" /\ x.on = on /\ x.seen = seen /\ x.work = NoRows
  <2>1. LET x == [NoRequest EXCEPT !.kind = sort, !.stage = "LOADED", !.on = on, !.seen = seen,
                                   !.default = default, !.listed = found]
        IN  /\ x \in RequestsOfAddresses
            /\ x.kind = sort /\ x.stage = "LOADED" /\ x.on = on /\ x.seen = seen /\ x.work = NoRows
    BY NoRequestIs DEF RequestsOfAddresses, AddressKinds, AddressStages
  <2> QED BY <2>1
<1>2. requested' = [requested EXCEPT ![r] = x] /\ UNCHANGED <<address, bookings, crossed>>
  BY <1>1 DEF Begin
<1>3. RequestFits(x) /\ DOMAIN x.work \cap HeldByOthers(r) = {}
  BY <1>1, NoRequestIs DEF RequestFits, LoadingKinds, Marking
<1> QED BY <1>1, <1>2, <1>3, KeepsWithRequest

LEMMA KeepsWithLoadAddress ==
    ASSUME AddressInvariant, NEW r \in AddressRequests, NEW p \in Places, NEW sort \in LoadingKinds,
           NEW default \in BOOLEAN, LoadAddress(r, sort, p, default)
    PROVE  AddressInvariant'
<1>1. address[p] \in AddressRows /\ address[p].active /\ address[p].exists
  BY DEF AddressInvariant, AddressShape, RowsStay, LoadAddress
<1>2. Begin(r, sort, {p}, address[p], default, {}) /\ sort # "CREATE"
  BY DEF LoadAddress, LoadingKinds
<1> QED BY <1>1, <1>2, KeepsWithBegin

LEMMA KeepsWithListForCreate ==
    ASSUME AddressInvariant, NEW r \in AddressRequests, NEW default \in BOOLEAN, ListForCreate(r, default)
    PROVE  AddressInvariant'
<1>1. ActiveIn(address) \in SUBSET Places
  BY DEF ActiveIn
<1> QED BY <1>1, NoRequestIs, KeepsWithBegin DEF ListForCreate

LEMMA KeepsWithRefuse ==
    ASSUME AddressInvariant, NEW r \in AddressRequests, Refuse(r)
    PROVE  AddressInvariant'
<1>1. requested' = [requested EXCEPT ![r] = Ended] /\ UNCHANGED <<address, bookings, crossed>>
  BY DEF Refuse
<1>2. RequestFits(Ended) /\ DOMAIN Ended.work \cap HeldByOthers(r) = {}
  BY NoRequestIs DEF RequestFits, LoadingKinds, Marking
<1> QED BY <1>1, <1>2, NoRequestIs, KeepsWithRequest

LEMMA KeepsWithLockCustomer ==
    ASSUME AddressInvariant, NEW r \in AddressRequests, LockCustomer(r)
    PROVE  AddressInvariant'
<1>1. /\ Continue(r, "LOCKED", requested[r].work, ActiveIn(View(r)), MarkOf(r))
      /\ Ready(r, "DEFAULT", "LOADED") \/ requested[r].stage = "WRITTEN"
  BY DEF LockCustomer
<1>2. /\ requested[r].work \in RowsOfWork /\ ActiveIn(View(r)) \in SUBSET Places /\ MarkOf(r) \in SUBSET Places
      /\ "LOCKED" \in AddressStages \ {"LOADED", "NONE", "ENDED"}
  BY OfRequest, OpenRequest DEF ActiveIn, MarkOf, AddressStages, Marking
<1>3. /\ requested[r].kind = "DEFAULT" => \A q \in Held(r) : requested[r].work[q].active
      /\ \A q \in Held(r) : RowFits(requested[r], q, requested[r].work[q])
      /\ Held(r) \cap HeldByOthers(r) = {}
  BY OpenRequest DEF RequestFits, Held, AddressInvariant, HeldApart, HeldByOthers
<1>4. \A m \in MarkOf(r) : \/ m \in Held(r) /\ requested[r].work[m].active
                           \/ requested[r].kind = "DEFAULT" /\ m \in requested[r].on
  BY <1>1, OpenRequest DEF RequestFits, MarkOf, Ready, Marking, Held
<1>5. requested[r].kind = "MOVE" => \A b \in bookings : b.to \in requested[r].on => b.to \in crossed
  BY <1>1, OpenRequest DEF Ready
<1>6. requested[r].kind \notin {"NONE", "ENDED"}
  BY <1>1, OpenRequest DEF Ready
<1> QED BY <1>1, <1>2, <1>3, <1>4, <1>5, <1>6, KeepsWithContinue DEF Held

LEMMA KeepsWithClearDefaults ==
    ASSUME AddressInvariant, NEW r \in AddressRequests, ClearDefaults(r)
    PROVE  AddressInvariant'
<1>1. PICK cleared \in SUBSET Places : cleared = requested[r].listed \cap ActiveIn(View(r))
  BY DEF ActiveIn
<1>2. PICK work : work = [q \in Held(r) \cup cleared |->
                             IF q \in cleared THEN [View(r)[q] EXCEPT !.default = FALSE]
                             ELSE requested[r].work[q]]
  OBVIOUS
<1>3. /\ Continue(r, "CLEARED", work, {}, requested[r].mark)
      /\ requested[r].stage = "LOCKED" /\ requested[r].listed \cap HeldByOthers(r) = {}
  BY <1>1, <1>2 DEF ClearDefaults
<1>4. ASSUME NEW q \in cleared
      PROVE  /\ [View(r)[q] EXCEPT !.default = FALSE] \in AddressRows
             /\ [View(r)[q] EXCEPT !.default = FALSE].active
             /\ RowFits(requested[r], q, [View(r)[q] EXCEPT !.default = FALSE])
  <2>1. PICK old \in AddressRows : old = View(r)[q] /\ old.active
    BY <1>1, ViewIs, OpenRequest DEF ActiveIn
  <2>2. LET row == [old EXCEPT !.default = FALSE]
        IN  row \in AddressRows /\ row.exists = old.exists /\ row.active = old.active /\ row.where = old.where
    BY DEF AddressRows
  <2> QED BY <2>1, <2>2, ViewFits
<1>5. /\ Held(r) \subseteq Places /\ requested[r].work \in [Held(r) -> AddressRows]
      /\ requested[r].mark \in SUBSET Places
  BY OfRequest, OpenRequest
<1>6. DOMAIN work = Held(r) \cup cleared /\ work \in [Held(r) \cup cleared -> AddressRows]
  BY <1>2, <1>4, <1>5
<1>7. work \in RowsOfWork
  BY <1>5, <1>6 DEF RowsOfWork
<1>8. /\ \A q \in cleared : work[q].active /\ RowFits(requested[r], q, work[q])
      /\ \A q \in Held(r) : q \notin cleared => work[q] = requested[r].work[q]
  BY <1>2, <1>4
<1>9. /\ requested[r].kind = "DEFAULT" => \A q \in Held(r) : requested[r].work[q].active
      /\ \A q \in Held(r) : RowFits(requested[r], q, requested[r].work[q])
      /\ \A m \in requested[r].mark : \/ m \in Held(r) /\ requested[r].work[m].active
                                      \/ requested[r].kind = "DEFAULT" /\ m \in requested[r].on
  BY <1>3, OpenRequest DEF RequestFits, Held, Marking
<1>10. DOMAIN work \cap HeldByOthers(r) = {}
  BY <1>1, <1>3, <1>6 DEF AddressInvariant, HeldApart, HeldByOthers
<1>11. requested[r].kind = "MOVE" => \A b \in bookings : b.to \in requested[r].on => b.to \in crossed
  BY <1>3, OpenRequest
<1>12. "CLEARED" \in AddressStages \ {"LOADED", "NONE", "ENDED"} /\ {} \in SUBSET Places
  BY DEF AddressStages, Marking
<1>13. \A m \in requested[r].mark : \/ m \in DOMAIN work /\ work[m].active
                                    \/ requested[r].kind = "DEFAULT" /\ m \in requested[r].on
  BY <1>6, <1>8, <1>9
<1>14. /\ requested[r].kind = "DEFAULT" => \A q \in DOMAIN work : work[q].active
       /\ \A q \in DOMAIN work : RowFits(requested[r], q, work[q])
  BY <1>6, <1>8, <1>9
<1>15. requested[r].kind \notin {"NONE", "ENDED"}
  BY <1>3, OpenRequest
<1> QED BY <1>3, <1>5, <1>7, <1>10, <1>11, <1>12, <1>13, <1>14, <1>15, KeepsWithContinue

LEMMA KeepsWithSaveDefault ==
    ASSUME AddressInvariant, NEW r \in AddressRequests, NEW p \in Places, SaveDefault(r, p)
    PROVE  AddressInvariant'
<1>1. PICK old \in AddressRows : old = View(r)[p]
  BY ViewIs, OpenRequest
<1>2. PICK row \in AddressRows :
        /\ row = [old EXCEPT !.default = TRUE] /\ row.default
        /\ row.exists = old.exists /\ row.active = old.active /\ row.where = old.where
  <2>1. LET row == [old EXCEPT !.default = TRUE]
        IN  /\ row \in AddressRows /\ row.default
            /\ row.exists = old.exists /\ row.active = old.active /\ row.where = old.where
    BY DEF AddressRows
  <2> QED BY <2>1
<1>3. /\ CommitRows(r, With(r, p, row), FALSE) /\ requested[r].stage = "CLEARED"
      /\ p \in requested[r].mark /\ p \notin HeldByOthers(r)
  BY <1>1, <1>2 DEF SaveDefault
<1>4. /\ With(r, p, row) \in RowsOfWork /\ DOMAIN With(r, p, row) = Held(r) \cup {p}
      /\ With(r, p, row)[p] = row
  BY WithIs, OpenRequest
<1>5. \A q \in DOMAIN With(r, p, row) : RowFits(requested[r], q, With(r, p, row)[q])
  BY <1>1, <1>2, ViewFits, WithFits
<1>6. SomeDefault'
  <2>1. address'[p] = row
    BY <1>3, <1>4 DEF CommitRows
  <2>2. CASE row.active
    BY <1>2, <2>1, <2>2 DEF SomeDefault, DefaultsIn, IsDefault
  <2>3. CASE ~row.active
    <3>1. p \notin Held(r) \/ ~requested[r].work[p].active
      BY <1>1, <1>2, <2>3, ViewIs, OpenRequest
    <3>2. requested[r].kind = "DEFAULT" /\ p \in requested[r].on
      BY <1>3, <3>1, OpenRequest DEF RequestFits, Marking, Held
    <3>3. p \notin Held(r) /\ requested[r].seen.active
      BY <3>1, <3>2, OpenRequest DEF RequestFits, LoadingKinds, Held
    <3>4. ~address[p].active
      BY <1>1, <1>2, <2>3, <3>3, ViewIs, OpenRequest
    <3>5. p \in crossed'
      BY <1>3, <3>2, <3>3, <3>4 DEF CommitRows
    <3> QED BY <3>5 DEF SomeDefault
  <2> QED BY <2>2, <2>3
<1> QED BY <1>3, <1>4, <1>5, <1>6, NotTaken, KeepsWithCommitted

LEMMA KeepsWithIsFirst ==
    ASSUME AddressInvariant, NEW r \in AddressRequests, IsFirst(r)
    PROVE  AddressInvariant'
<1>1. /\ requested[r].kind = "CREATE" /\ requested[r].stage = "LOADED" /\ Held(r) = {}
  BY OpenRequest DEF IsFirst, Ready, RequestFits, Held
<1>2. ASSUME NEW q \in (requested[r].listed \cap ActiveIn(View(r))) \ HeldByOthers(r),
             Continue(r, "COUNTED", LockListed(r, q), {}, {})
      PROVE  AddressInvariant'
  <2>1. q \in Places /\ View(r)[q] = address[q] /\ address[q] \in AddressRows /\ address[q].active /\ q \notin HeldByOthers(r)
    BY <1>1, <1>2, ViewIs, OpenRequest DEF ActiveIn
  <2>2. /\ With(r, q, address[q]) \in RowsOfWork /\ DOMAIN With(r, q, address[q]) = Held(r) \cup {q}
        /\ With(r, q, address[q])[q] = address[q]
    BY <2>1, WithIs, OpenRequest
  <2>6. LockListed(r, q) = With(r, q, address[q])
    BY <2>1 DEF LockListed
  <2>7. PICK work : work = LockListed(r, q)
    OBVIOUS
  <2>5. work \in RowsOfWork /\ work = LockListed(r, q) /\ DOMAIN work = {q} /\ work[q] = address[q]
    BY <1>1, <2>2, <2>6, <2>7
  <2>3. RowFits(requested[r], q, work[q])
    BY <2>1, <2>5, ViewFits
  <2>4. "COUNTED" \in AddressStages \ {"LOADED", "NONE", "ENDED"} /\ {} \in SUBSET Places /\ "COUNTED" \notin Marking
    BY DEF AddressStages, Marking
  <2> QED BY <1>1, <1>2, <2>1, <2>3, <2>4, <2>5, KeepsWithContinue
<1>3. CASE /\ requested' = [requested EXCEPT ![r].stage = "COUNTED", ![r].default = TRUE, ![r].listed = {}]
           /\ UNCHANGED <<address, bookings, crossed>>
  <2>1. PICK old \in RequestsOfAddresses : old = requested[r]
    BY OfRequest, OpenRequest
  <2>2. PICK x \in RequestsOfAddresses :
          /\ x = [old EXCEPT !.stage = "COUNTED", !.default = TRUE, !.listed = {}]
          /\ x.stage = "COUNTED" /\ x.default /\ x.kind = old.kind /\ x.on = old.on /\ x.work = old.work
    <3>1. LET x == [old EXCEPT !.stage = "COUNTED", !.default = TRUE, !.listed = {}]
          IN  /\ x \in RequestsOfAddresses
              /\ x.stage = "COUNTED" /\ x.default /\ x.kind = old.kind /\ x.on = old.on /\ x.work = old.work
      BY DEF RequestsOfAddresses, AddressStages
    <3> QED BY <3>1
  <2>3. requested' = [requested EXCEPT ![r] = x]
    BY <1>3, <2>1, <2>2
  <2>4. RequestFits(x) /\ DOMAIN x.work = {} /\ x.kind = "CREATE"
    BY <1>1, <2>1, <2>2, OpenRequest DEF RequestFits, Held, LoadingKinds, Marking
  <2> QED BY <1>3, <2>3, <2>4, KeepsWithRequest
<1> QED BY <1>2, <1>3 DEF IsFirst

LEMMA KeepsWithCreate ==
    ASSUME AddressInvariant, NEW r \in AddressRequests, NEW p \in Places, Create(r, p)
    PROVE  AddressInvariant'
<1>1. PICK row \in AddressRows :
        /\ row = [NoAddress EXCEPT !.exists = TRUE, !.active = TRUE] /\ row.exists /\ row.active
  <2>1. LET row == [NoAddress EXCEPT !.exists = TRUE, !.active = TRUE]
        IN  row \in AddressRows /\ row.exists /\ row.active
    BY NoRequestIs DEF AddressRows
  <2> QED BY <2>1
<1>9. PICK work : work = With(r, p, row)
  OBVIOUS
<1>10. /\ With(r, p, row) \in RowsOfWork /\ DOMAIN With(r, p, row) = Held(r) \cup {p} /\ With(r, p, row)[p] = row
       /\ \A q \in Held(r) : q # p => With(r, p, row)[q] = requested[r].work[q]
  BY WithIs, OpenRequest
<1>2. /\ work \in RowsOfWork /\ work = With(r, p, row) /\ DOMAIN work = Held(r) \cup {p} /\ work[p] = row
      /\ \A q \in Held(r) : q # p => work[q] = requested[r].work[q]
  BY <1>9, <1>10
<1>3. /\ requested[r].kind = "CREATE" /\ requested[r].stage = "COUNTED" /\ ~address[p].exists /\ p \notin HeldByOthers(r)
      /\ IF requested[r].default THEN Continue(r, "WRITTEN", work, {}, {p}) ELSE CommitRows(r, work, FALSE)
  BY <1>1, <1>2 DEF Create, Ready
<1>4. RowFits(requested[r], p, row)
  BY <1>1, <1>3 DEF RowFits
<1>5. \A q \in DOMAIN work : RowFits(requested[r], q, work[q])
  BY <1>2, <1>4, WithFits
<1>6. DOMAIN work \cap HeldByOthers(r) = {}
  BY <1>2, <1>3, NotTaken
<1>7. CASE requested[r].default
  <2>1. "WRITTEN" \in AddressStages \ {"LOADED", "NONE", "ENDED"} /\ {} \in SUBSET Places /\ {p} \in SUBSET Places
    BY DEF AddressStages, Marking
  <2>2. Continue(r, "WRITTEN", work, {}, {p})
    BY <1>3, <1>7
  <2>3. \A m \in {p} : m \in DOMAIN work /\ work[m].active
    BY <1>1, <1>2
  <2> QED BY <1>2, <1>3, <1>5, <1>6, <2>1, <2>2, <2>3, KeepsWithContinue
<1>8. CASE ~requested[r].default
  <2>1. CommitRows(r, work, FALSE)
    BY <1>3, <1>8
  <2>2. /\ \A q \in Held(r) : requested[r].work[q] = address[q]
        /\ \E q \in Held(r) : requested[r].work[q].active
    BY <1>3, <1>8, OpenRequest DEF RequestFits, Held
  <2>3. ActiveIn(address) # {}
    BY <2>2, OfRequest, OpenRequest DEF ActiveIn
  <2>4. ~address[p].active
    BY <1>3 DEF AddressInvariant, RowsStay
  <2>5. \A q \in DOMAIN work : IsDefault(address[q]) => IsDefault(work[q])
    BY <1>2, <2>2, <2>4 DEF IsDefault
  <2>6. SomeDefault'
    BY <1>2, <2>1, <2>3, <2>5, DefaultStays
  <2> QED BY <1>2, <1>3, <1>5, <1>6, <2>1, <2>6, KeepsWithCommitted
<1> QED BY <1>7, <1>8, OfRequest, OpenRequest

LEMMA KeepsWithDeleteAddress ==
    ASSUME AddressInvariant, NEW r \in AddressRequests, NEW p \in Places, Delete(r, p)
    PROVE  AddressInvariant'
<1>1. PICK old \in AddressRows : old = address[p]
  BY OpenRequest DEF AddressShape
<1>2. PICK row \in AddressRows :
        /\ row = [old EXCEPT !.active = FALSE, !.default = FALSE] /\ ~row.active
        /\ row.exists = old.exists /\ row.where = old.where
  <2>1. LET row == [old EXCEPT !.active = FALSE, !.default = FALSE]
        IN  row \in AddressRows /\ ~row.active /\ row.exists = old.exists /\ row.where = old.where
    BY DEF AddressRows
  <2> QED BY <2>1
<1>11. PICK work : work = With(r, p, row)
  OBVIOUS
<1>3. work \in RowsOfWork /\ work = With(r, p, row) /\ DOMAIN work = Held(r) \cup {p} /\ work[p] = row
  BY <1>11, WithIs, OpenRequest
<1>4. /\ requested[r].kind = "DELETE" /\ requested[r].stage = "LOADED" /\ p \in requested[r].on /\ p \notin HeldByOthers(r)
      /\ IF requested[r].seen.default THEN Continue(r, "DELETED", work, ActiveIn(address) \ {p}, {})
         ELSE CommitRows(r, work, FALSE)
  BY <1>1, <1>2, <1>3 DEF Delete, Ready
<1>5. Held(r) = {}
  BY <1>4, OpenRequest DEF RequestFits, Held
<1>6. RowFits(requested[r], p, row)
  BY <1>1, <1>2 DEF RowFits
<1>7. \A q \in DOMAIN work : RowFits(requested[r], q, work[q])
  BY <1>3, <1>6, WithFits
<1>8. DOMAIN work \cap HeldByOthers(r) = {}
  BY <1>3, <1>4, NotTaken
<1>9. CASE requested[r].seen.default
  <2>1. /\ "DELETED" \in AddressStages \ {"LOADED", "NONE", "ENDED"} /\ {} \in SUBSET Places
        /\ ActiveIn(address) \ {p} \in SUBSET Places /\ "DELETED" \notin Marking
    BY DEF AddressStages, Marking, ActiveIn
  <2>2. Continue(r, "DELETED", work, ActiveIn(address) \ {p}, {})
    BY <1>4, <1>9
  <2> QED BY <1>3, <1>4, <1>7, <1>8, <2>1, <2>2, KeepsWithContinue
<1>10. CASE ~requested[r].seen.default
  <2>1. CommitRows(r, work, FALSE)
    BY <1>4, <1>10
  <2>2. address' = [q \in Places |-> IF q = p THEN row ELSE address[q]]
    BY <1>3, <1>5, <2>1 DEF CommitRows
  <2>3. ActiveIn(address') \subseteq ActiveIn(address)
    BY <1>2, <2>2 DEF ActiveIn
  <2>4. crossed' = {} => ~IsDefault(address[p])
    BY <1>4, <1>10, <2>1 DEF CommitRows, IsDefault
  <2>5. SomeDefault'
    BY <1>3, <1>5, <2>1, <2>3, <2>4, DefaultStays
  <2> QED BY <1>3, <1>4, <1>7, <1>8, <2>1, <2>5, KeepsWithCommitted
<1> QED BY <1>9, <1>10, OfRequest, OpenRequest DEF AddressRows

LEMMA KeepsWithReplace ==
    ASSUME AddressInvariant, NEW r \in AddressRequests, Replace(r)
    PROVE  AddressInvariant'
<1>1. /\ requested[r].stage = "DELETED" /\ Held(r) \cap HeldByOthers(r) = {}
      /\ \A q \in Held(r) : RowFits(requested[r], q, requested[r].work[q])
      /\ requested[r].work \in RowsOfWork
  BY OpenRequest, OfRequest DEF Replace, RequestFits, Held, AddressInvariant, HeldApart, HeldByOthers
<1>2. ASSUME NEW q \in (requested[r].listed \cap ActiveIn(View(r))) \ HeldByOthers(r),
             Continue(r, "WRITTEN", With(r, q, View(r)[q]), {}, {q})
      PROVE  AddressInvariant'
  <2>1. q \in Places /\ View(r)[q] \in AddressRows /\ View(r)[q].active /\ q \notin HeldByOthers(r)
    BY <1>2, ViewIs, OpenRequest DEF ActiveIn
  <2>8. PICK work : work = With(r, q, View(r)[q])
    OBVIOUS
  <2>10. /\ With(r, q, View(r)[q]) \in RowsOfWork /\ DOMAIN With(r, q, View(r)[q]) = Held(r) \cup {q}
         /\ With(r, q, View(r)[q])[q] = View(r)[q]
         /\ \A p \in Held(r) : p # q => With(r, q, View(r)[q])[p] = requested[r].work[p]
    BY <2>1, WithIs, OpenRequest
  <2>2. /\ work \in RowsOfWork
        /\ work = With(r, q, View(r)[q]) /\ DOMAIN work = Held(r) \cup {q} /\ work[q] = View(r)[q]
        /\ \A p \in Held(r) : p # q => work[p] = requested[r].work[p]
    BY <2>8, <2>10
  <2>3. \A p \in DOMAIN work : RowFits(requested[r], p, work[p])
    BY <2>1, <2>2, ViewFits, WithFits
  <2>4. "WRITTEN" \in AddressStages \ {"LOADED", "NONE", "ENDED"} /\ {} \in SUBSET Places /\ {q} \in SUBSET Places
    BY <2>1 DEF AddressStages, Marking
  <2>5. DOMAIN work \cap HeldByOthers(r) = {}
    BY <2>1, <2>2, NotTaken
  <2>6. requested[r].kind = "DEFAULT" => \A p \in DOMAIN work : work[p].active
    BY <2>1, <2>2, OpenRequest DEF RequestFits, Held
  <2>7. requested[r].kind = "MOVE" => \A b \in bookings : b.to \in requested[r].on => b.to \in crossed
    BY <1>1, OpenRequest
  <2>9. requested[r].kind \notin {"NONE", "ENDED"}
    BY <1>1, OpenRequest
  <2> QED BY <1>2, <2>1, <2>2, <2>3, <2>4, <2>5, <2>6, <2>7, <2>9, KeepsWithContinue
<1>3. CASE CommitRows(r, requested[r].work, ActiveIn(View(r)) # {}) /\ requested[r].on # {}
  <2>1. PICK missed \in BOOLEAN : missed = (ActiveIn(View(r)) # {}) /\ CommitRows(r, requested[r].work, missed)
    BY <1>3
  <2>2. address' = View(r)
    BY <1>3 DEF CommitRows, View, Held
  <2>3. crossed' = {} => ~missed
    BY <1>3, <2>1 DEF CommitRows
  <2>4. SomeDefault'
    BY <2>1, <2>2, <2>3 DEF SomeDefault
  <2> QED BY <1>1, <2>1, <2>4, KeepsWithCommitted DEF Held
<1>4. requested[r].on # {}
  BY <1>1, OpenRequest DEF RequestFits
<1> QED BY <1>2, <1>3, <1>4 DEF Replace

LEMMA KeepsWithCheckMove ==
    ASSUME AddressInvariant, NEW r \in AddressRequests, NEW p \in Places, CheckMove(r, p)
    PROVE  AddressInvariant'
<1>1. /\ requested[r].kind = "MOVE" /\ requested[r].stage = "LOADED" /\ Continue(r, "CHECKED", NoRows, {}, {})
      /\ requested[r].on \subseteq Places /\ p \in requested[r].on /\ \A b \in bookings : b.to # p
  BY OfRequest, OpenRequest DEF CheckMove, Ready, MayMove, InUse
<1>2. PICK old \in RequestsOfAddresses : old = requested[r] /\ RequestFits(old)
  BY OfRequest, OpenRequest
<1>3. PICK x \in RequestsOfAddresses :
        /\ x = [old EXCEPT !.stage = "CHECKED", !.work = NoRows, !.listed = {}, !.mark = {}]
        /\ x.stage = "CHECKED" /\ x.work = NoRows /\ x.kind = old.kind /\ x.on = old.on /\ x.seen = old.seen
  <2>1. LET x == [old EXCEPT !.stage = "CHECKED", !.work = NoRows, !.listed = {}, !.mark = {}]
        IN  /\ x \in RequestsOfAddresses
            /\ x.stage = "CHECKED" /\ x.work = NoRows /\ x.kind = old.kind /\ x.on = old.on /\ x.seen = old.seen
    BY NoRequestIs DEF RequestsOfAddresses, AddressStages
  <2> QED BY <2>1
<1>4. requested' = [requested EXCEPT ![r] = x] /\ UNCHANGED <<address, bookings, crossed>>
  BY <1>1, <1>2, <1>3 DEF Continue
<1>5. RequestFits(x) /\ DOMAIN x.work \cap HeldByOthers(r) = {}
  BY <1>1, <1>2, <1>3, NoRequestIs DEF RequestFits, LoadingKinds, Marking
<1>6. \A q \in x.on : q = p
  BY <1>1, <1>2, <1>3 DEF RequestFits
<1> QED BY <1>1, <1>4, <1>5, <1>6, KeepsWithRequest

LEMMA KeepsWithPatch ==
    ASSUME AddressInvariant, NEW r \in AddressRequests, NEW p \in Places, Patch(r, p)
    PROVE  AddressInvariant'
<1>1. /\ \/ requested[r].kind = "EDIT" /\ requested[r].stage = "LOADED"
         \/ requested[r].kind = "MOVE" /\ requested[r].stage = "CHECKED"
      /\ p \in requested[r].on /\ p \notin HeldByOthers(r)
  BY DEF Patch, Ready
<1>2. Held(r) = {}
  BY <1>1, OpenRequest DEF RequestFits, Held
<1>3. PICK seen \in AddressRows : seen = requested[r].seen /\ seen.active /\ seen.exists
  BY <1>1, OfRequest, OpenRequest DEF RequestFits, LoadingKinds
<1>4. PICK row \in AddressRows :
        /\ row = Written(r) /\ row.active /\ row.exists /\ row.default = seen.default
        /\ requested[r].kind = "EDIT" => row.where = seen.where
  <2>1. CASE requested[r].kind = "MOVE"
    <3>1. LET row == [seen EXCEPT !.where = r]
          IN row \in AddressRows /\ row.active /\ row.exists /\ row.default = seen.default
      BY <1>3 DEF AddressRows, Spots
    <3>2. Written(r) = [seen EXCEPT !.where = r]
      BY <1>3, <2>1 DEF Written
    <3> QED BY <2>1, <3>1, <3>2
  <2>2. CASE requested[r].kind = "EDIT"
    <3>1. Written(r) = [seen EXCEPT !.where = seen.where]
      BY <1>3, <2>2 DEF Written
    <3>2. [seen EXCEPT !.where = seen.where] = seen
      BY DEF AddressRows
    <3> QED BY <1>3, <3>1, <3>2
  <2> QED BY <1>1, <2>1, <2>2
<1>5. RowFits(requested[r], p, row)
  BY <1>1, <1>3, <1>4 DEF RowFits
<1>13. PICK work : work = With(r, p, row)
  OBVIOUS
<1>14. With(r, p, row) \in RowsOfWork /\ DOMAIN With(r, p, row) = Held(r) \cup {p} /\ With(r, p, row)[p] = row
  BY WithIs, OpenRequest
<1>6. work \in RowsOfWork /\ work = With(r, p, row) /\ DOMAIN work = {p} /\ work[p] = row
  BY <1>2, <1>13, <1>14
<1>7. \A q \in DOMAIN work : RowFits(requested[r], q, work[q])
  BY <1>5, <1>6
<1>8. DOMAIN work \cap HeldByOthers(r) = {}
  BY <1>1, <1>6
<1>9. IF requested[r].default THEN Continue(r, "WRITTEN", work, {}, {p}) ELSE CommitRows(r, work, FALSE)
  BY <1>4, <1>6 DEF Patch
<1>10. requested[r].kind = "MOVE" => \A b \in bookings : b.to \in requested[r].on => b.to \in crossed
  BY <1>1, OpenRequest
<1>11. CASE requested[r].default
  <2>1. "WRITTEN" \in AddressStages \ {"LOADED", "NONE", "ENDED"} /\ {} \in SUBSET Places /\ {p} \in SUBSET Places
    BY DEF AddressStages, Marking
  <2>2. Continue(r, "WRITTEN", work, {}, {p})
    BY <1>9, <1>11
  <2>3. \A m \in {p} : m \in DOMAIN work /\ work[m].active
    BY <1>4, <1>6
  <2> QED BY <1>1, <1>6, <1>7, <1>8, <1>10, <2>1, <2>2, <2>3, KeepsWithContinue
<1>12. CASE ~requested[r].default
  <2>1. CommitRows(r, work, FALSE)
    BY <1>9, <1>12
  <2>2. crossed' = {} => address[p] = seen
    BY <1>1, <1>3, <2>1 DEF CommitRows
  <2>3. crossed' = {} => ActiveIn(address) # {}
    BY <1>3, <2>2 DEF ActiveIn
  <2>4. \A q \in DOMAIN work : crossed' = {} /\ IsDefault(address[q]) => IsDefault(work[q])
    BY <1>4, <1>6, <2>2 DEF IsDefault
  <2>5. SomeDefault'
    BY <1>6, <2>1, <2>3, <2>4, DefaultStays
  <2> QED BY <1>1, <1>6, <1>7, <1>8, <2>1, <2>5, KeepsWithCommitted
<1> QED BY <1>11, <1>12, OfRequest, OpenRequest

LEMMA KeepsWithBook ==
    ASSUME AddressInvariant, NEW r \in AddressRequests, NEW p \in Places, Book(r, p)
    PROVE  AddressInvariant'
<1> USE DEF AddressInvariant
<1>1. PICK made : made = [to |-> p, where |-> requested[r].seen.where]
  OBVIOUS
<1>2. /\ requested[r].kind = "BOOK" /\ requested[r].stage = "LOADED" /\ p \in requested[r].on
      /\ bookings' = bookings \cup {made} /\ address' = address
      /\ requested' = [requested EXCEPT ![r] = Ended]
      /\ crossed' = IF address[p].where # requested[r].seen.where \/ BeingMoved(p) THEN crossed \cup {p} ELSE crossed
  BY <1>1 DEF Book, Ready
<1>3. /\ requested' \in [AddressRequests -> RequestsOfAddresses] /\ requested'[r] = Ended
      /\ \A y \in AddressRequests : y # r => requested'[y] = requested[y]
  BY <1>2, NoRequestIs DEF AddressShape
<1>4. made \in [to : Places, where : Spots] /\ made.to = p /\ made.where = requested[r].seen.where
  BY <1>1, OfRequest DEF AddressRows
<1>5. address[p].exists
  BY <1>2 DEF RequestFits, LoadingKinds
<1>6. crossed' \subseteq Places /\ crossed \subseteq crossed'
  BY <1>2 DEF AddressShape
<1>7. AddressShape'
  BY <1>2, <1>3, <1>4, <1>6 DEF AddressShape
<1>8. HeldApart'
  BY <1>3, NoRequestIs DEF HeldApart, Held
<1>9. RowsStay'
  BY <1>2, <1>4, <1>5 DEF RowsStay
<1>10. ASSUME NEW y \in AddressRequests PROVE RequestFits(requested[y])'
  <2>1. CASE y = r
    BY <1>3, <2>1, NoRequestIs DEF RequestFits, RowFits, LoadingKinds, Marking
  <2>2. CASE y # r
    <3>1. RequestFits(requested[y]) /\ requested'[y] = requested[y]
      BY <1>3, <2>2
    <3> QED BY <1>2, <3>1 DEF RequestFits, RowFits
  <2> QED BY <2>1, <2>2
<1>11. ASSUME NEW y \in AddressRequests, NEW b \in bookings', requested'[y].kind = "MOVE",
              requested'[y].stage # "LOADED", b.to \in requested'[y].on
       PROVE  b.to \in crossed'
  <2>1. y # r /\ requested'[y] = requested[y]
    BY <1>3, <1>11, NoRequestIs
  <2>2. CASE b \in bookings
    BY <1>6, <1>11, <2>1, <2>2 DEF MovesAreSeen
  <2>3. CASE b = made
    BY <1>2, <1>4, <1>11, <2>1, <2>3 DEF BeingMoved
  <2> QED BY <1>2, <2>2, <2>3
<1>12. MovesAreSeen'
  BY <1>11 DEF MovesAreSeen
<1>13. PlaceOfBookingStays'
  BY <1>2, <1>4, <1>6 DEF PlaceOfBookingStays
<1>14. SomeDefault'
  BY <1>2, <1>6 DEF SomeDefault, ActiveIn, DefaultsIn
<1> QED BY <1>7, <1>8, <1>9, <1>10, <1>12, <1>13, <1>14

LEMMA KeepsWithEndBooking ==
    ASSUME AddressInvariant, NEW b \in bookings, EndBooking(b)
    PROVE  AddressInvariant'
<1> USE DEF AddressInvariant
<1>1. bookings' \subseteq bookings /\ UNCHANGED <<address, requested, crossed>>
  BY DEF EndBooking
<1>2. AddressShape' /\ HeldApart' /\ RowsStay' /\ MovesAreSeen' /\ SomeDefault' /\ PlaceOfBookingStays'
  BY <1>1 DEF AddressShape, HeldApart, Held, RowsStay, MovesAreSeen, SomeDefault, ActiveIn, DefaultsIn,
              PlaceOfBookingStays
<1>3. \A y \in AddressRequests : RequestFits(requested[y])'
  BY <1>1 DEF RequestFits, RowFits
<1> QED BY <1>2, <1>3

LEMMA AddressesBegin == AddressesInit => AddressInvariant
<1> SUFFICES ASSUME AddressesInit PROVE AddressInvariant
  OBVIOUS
<1>1. /\ \A r \in AddressRequests : requested[r] = NoRequest
      /\ requested \in [AddressRequests -> RequestsOfAddresses] /\ bookings = {} /\ crossed = {}
  BY NoRequestIs DEF AddressesInit
<1>2. PICK some \in SUBSET Places, first \in Places :
        /\ some # {} => first \in some
        /\ address = [p \in Places |->
              IF p \in some THEN [exists |-> TRUE, active |-> TRUE, default |-> p = first, where |-> Made]
              ELSE NoAddress]
  BY DEF AddressesInit
<1>3. address \in [Places -> AddressRows]
  BY <1>2, NoRequestIs DEF AddressRows, Spots
<1>4. \A p \in Places : address[p].active => address[p].exists
  BY <1>2, NoRequestIs
<1>5. SomeDefault
  <2>1. some = {} => ActiveIn(address) = {}
    BY <1>2, NoRequestIs DEF ActiveIn
  <2>2. some # {} => IsDefault(address[first])
    BY <1>2 DEF IsDefault
  <2> QED BY <2>1, <2>2 DEF SomeDefault, DefaultsIn
<1>6. \A r \in AddressRequests : RequestFits(requested[r]) /\ Held(r) = {}
  BY <1>1, NoRequestIs DEF RequestFits, LoadingKinds, Marking, Held
<1>7. HeldApart /\ MovesAreSeen /\ RowsStay /\ PlaceOfBookingStays
  BY <1>1, <1>4, <1>6 DEF HeldApart, MovesAreSeen, RowsStay, PlaceOfBookingStays
<1> QED BY <1>1, <1>3, <1>5, <1>6, <1>7 DEF AddressInvariant, AddressShape

LEMMA AddressesStep == AddressInvariant /\ [AddressesNext]_addressVars => AddressInvariant'
<1> SUFFICES ASSUME AddressInvariant, [AddressesNext]_addressVars PROVE AddressInvariant'
  OBVIOUS
<1>1. CASE UNCHANGED addressVars
  BY <1>1 DEF addressVars, AddressInvariant, AddressShape, HeldApart, Held, RowsStay, MovesAreSeen, RequestFits,
              RowFits, SomeDefault, PlaceOfBookingStays, DefaultsIn, ActiveIn
<1>2. ASSUME NEW b \in bookings, EndBooking(b) PROVE AddressInvariant'
  BY <1>2, KeepsWithEndBooking
<1>3. ASSUME NEW r \in AddressRequests, NEW p \in Places, NEW default \in BOOLEAN,
             \/ \E sort \in {"EDIT", "MOVE"} : LoadAddress(r, sort, p, default)
             \/ \E sort \in {"DELETE", "DEFAULT", "BOOK"} : LoadAddress(r, sort, p, FALSE)
      PROVE  AddressInvariant'
  BY <1>3, KeepsWithLoadAddress DEF LoadingKinds
<1>4. ASSUME NEW r \in AddressRequests,
             \/ \E default \in BOOLEAN : ListForCreate(r, default)
             \/ IsFirst(r) \/ Replace(r) \/ LockCustomer(r) \/ ClearDefaults(r) \/ Refuse(r)
      PROVE  AddressInvariant'
  BY <1>4, KeepsWithListForCreate, KeepsWithIsFirst, KeepsWithReplace, KeepsWithLockCustomer,
     KeepsWithClearDefaults, KeepsWithRefuse
<1>5. ASSUME NEW r \in AddressRequests, NEW p \in Places,
             \/ Create(r, p) \/ Delete(r, p) \/ SaveDefault(r, p)
             \/ CheckMove(r, p) \/ Patch(r, p) \/ Book(r, p)
      PROVE  AddressInvariant'
  BY <1>5, KeepsWithCreate, KeepsWithDeleteAddress, KeepsWithSaveDefault, KeepsWithCheckMove, KeepsWithPatch, KeepsWithBook
<1> QED BY <1>1, <1>2, <1>3, <1>4, <1>5 DEF AddressesNext

\* For any set of addresses and any number of requests: a customer with addresses has a
\* default, and the place of an open booking stays, whatever the requests have read before
\* they write, but for what `crossed` tells.
THEOREM AddressesStaySafe == AddressesSpec => []AddressesSafe
<1>1. AddressesSpec => []AddressInvariant
  BY AddressesBegin, AddressesStep, PTL DEF AddressesSpec
<1>2. AddressInvariant => AddressesSafe
  BY DEF AddressInvariant, AddressesSafe
<1> QED BY <1>1, <1>2, PTL

-----------------------------------------------------------------------------
(* The assistant. *)

Senders == Utterances \cup {"none"}
Attempts == [of : Senders, number : Nat]
TurnRows == [status : {"NONE", "RUNNING", "FAILED", "SUCCEEDED"}, number : Nat, late : BOOLEAN]
DraftRows == [status : {"NONE", "AWAITING", "CONFIRMED", "CANCELLED"}, by : Senders, late : BOOLEAN, number : Nat]
CachedRows == [by : Attempts, accept : BOOLEAN, number : Nat]
BookedRows == [number : Nat, from : Senders, by : Utterances]
CallRows == [by : Attempts, from : Attempts, accept : BOOLEAN, number : Nat, took : Nat]

\* The turns: one at a time, each known by its message, and answered in its last attempt.
TurnsShape ==
    /\ conversation \in {"ACTIVE", "CLOSED", "DELETED"}
    /\ written \in Seq(Utterances) /\ clear \subseteq Utterances
    /\ turn \in [Utterances -> TurnRows]
    /\ atWork \subseteq Attempts /\ \A a \in atWork : a.of \in Utterances
    /\ replies \in Seq(Attempts) /\ \A i \in DOMAIN replies : replies[i].of \in Utterances

OneTurn ==
    /\ \A m, n \in Running : m = n
    /\ conversation = "DELETED" => Running = {} /\ written = <<>>

TurnsKnown ==
    /\ \A m \in Utterances : Known(m) <=> turn[m].number > 0
    /\ conversation # "DELETED" => \A a \in atWork : a.number <= turn[a.of].number

\* A message that was answered gets no further attempt.
AnsweredStays ==
    \A i \in DOMAIN replies :
        turn[replies[i].of].number = replies[i].number /\ turn[replies[i].of].status = "SUCCEEDED"

TurnsInvariant == TurnsShape /\ OneTurn /\ TurnsKnown /\ AnsweredStays

\* A message has one row, and the turn that runs is of the last one.
OneRow == \A i, j \in DOMAIN written : written[i] = written[j] => i = j

RunningIsLast ==
    \A m \in Running : Len(written) \in DOMAIN written /\ written[Len(written)] = m

\* Answers are of answered messages, and were given in the order of these.
RepliesKnown ==
    /\ \A i \in DOMAIN replies : replies[i].of \in Answered /\ Known(replies[i].of)
    /\ \A m \in Answered : \E i \in DOMAIN replies : replies[i].of = m

RepliesOrdered ==
    \A i, j \in DOMAIN replies : i < j => Position(replies[i].of) < Position(replies[j].of)

OrderInvariant == OneRow /\ RunningIsLast /\ RepliesKnown /\ RepliesOrdered

\* The draft of a booking: what was booked is older than a draft that awaits its answer.
BookingInvariant ==
    /\ draft \in DraftRows /\ booked \in Seq(BookedRows)
    /\ \A i \in DOMAIN booked :
          /\ booked[i].number <= draft.number
          /\ draft.status = "AWAITING" => booked[i].number < draft.number
    /\ BookedAsAgreed

\* A call got a draft of another attempt, not later than the one it deleted; no draft that
\* was deleted is still there.
CallSound(call) ==
    /\ call.number <= cached.number /\ call.took <= cached.number
    /\ cached.by.of # "none" => call.took < cached.number
    /\ call.number > 0 => call.from # call.by
    /\ call.took > 0 => call.number > 0 /\ call.number <= call.took

\* The cached draft: each call, and what each one did, has deleted a draft of its own.
CachedInvariant ==
    /\ target \in [open : BOOLEAN, provided : BOOLEAN]
    /\ cached \in CachedRows
    /\ cached.by.of # "none" => cached.number > 0
    /\ acts \in Seq(CallRows) /\ confirming \in [ToolCalls -> CallRows]
    /\ \A c \in ToolCalls : CallSound(confirming[c])
    /\ \A i \in DOMAIN acts : acts[i].took > 0 /\ CallSound(acts[i])
    /\ \A c, d \in ToolCalls : confirming[c].took > 0 /\ confirming[c].took = confirming[d].took => c = d
    /\ \A c \in ToolCalls, i \in DOMAIN acts : confirming[c].took # acts[i].took
    /\ ActedOnce

AssistantInvariant == TurnsInvariant /\ OrderInvariant /\ BookingInvariant /\ CachedInvariant

-----------------------------------------------------------------------------
(* Sequences that grow *)

LEMMA Appended ==
    ASSUME NEW S, NEW s \in Seq(S), NEW x \in S
    PROVE  /\ Append(s, x) \in Seq(S) /\ Len(Append(s, x)) = Len(s) + 1 /\ Len(s) \in Nat
           /\ DOMAIN s = 1..Len(s) /\ DOMAIN Append(s, x) = 1..(Len(s) + 1)
           /\ \A i \in DOMAIN s : Append(s, x)[i] = s[i] /\ i < Len(s) + 1
           /\ Append(s, x)[Len(s) + 1] = x
           /\ \A i \in DOMAIN Append(s, x) : i \in DOMAIN s \/ i = Len(s) + 1
OBVIOUS

LEMMA RowsOf ==
    ASSUME NEW S, NEW s \in Seq(S)
    PROVE  \A i \in DOMAIN s : s[i] \in S
OBVIOUS

LEMMA AppendedRange ==
    ASSUME NEW S, NEW s \in Seq(S), NEW x \in S
    PROVE  Range(Append(s, x)) = Range(s) \cup {x}
<1>1. \A i \in DOMAIN s : i \in DOMAIN Append(s, x) /\ Append(s, x)[i] = s[i]
  BY Appended
<1>2. /\ Len(s) + 1 \in DOMAIN Append(s, x) /\ Append(s, x)[Len(s) + 1] = x
      /\ \A i \in DOMAIN Append(s, x) : i \in DOMAIN s \/ i = Len(s) + 1
  BY Appended
<1> QED BY <1>1, <1>2 DEF Range

LEMMA EmptyRange == Range(<<>>) = {} /\ \A S : <<>> \in Seq(S)
BY DEF Range

LEMMA EmptyRows ==
    /\ Attempt("none", 0) \in Attempts /\ Attempt("none", 0).of = "none"
    /\ NoCached \in CachedRows /\ NoDraft \in DraftRows
    /\ NoCached.number = 0 /\ NoDraft.number = 0 /\ NoCached.by.of = "none"
    /\ NoCall \in CallRows /\ NoCall.number = 0 /\ NoCall.took = 0
<1>1. Attempt("none", 0) \in Attempts /\ Attempt("none", 0).of = "none"
  BY DEF Attempt, Attempts, Senders
<1>2. NoCached \in CachedRows /\ NoCached.number = 0 /\ NoCached.by.of = "none"
  BY <1>1 DEF NoCached, CachedRows
<1>3. NoDraft \in DraftRows /\ NoDraft.number = 0
  BY DEF NoDraft, DraftRows, Senders
<1>4. NoCached.by = Attempt("none", 0)
  BY DEF NoCached
<1>5. NoCall \in CallRows /\ NoCall.number = 0 /\ NoCall.took = 0
  BY <1>1, <1>4 DEF NoCall, CallRows
<1> QED BY <1>1, <1>2, <1>3, <1>5

-----------------------------------------------------------------------------
(* Turns *)

LEMMA TurnFields ==
    ASSUME TurnsShape, NEW m \in Utterances
    PROVE  turn[m] \in TurnRows /\ turn[m].number \in Nat /\ turn[m].late \in BOOLEAN
BY DEF TurnsShape, TurnRows

LEMMA BookingFrame ==
    ASSUME BookingInvariant, draft' = draft, booked' = booked, clear \subseteq clear'
    PROVE  BookingInvariant'
BY DEF BookingInvariant, BookedAsAgreed

LEMMA CallFields ==
    ASSUME CachedInvariant
    PROVE  /\ cached.number \in Nat /\ cached.by \in Attempts /\ cached.accept \in BOOLEAN
           /\ \A c \in ToolCalls : /\ confirming[c] \in CallRows
                                  /\ confirming[c].number \in Nat /\ confirming[c].took \in Nat
           /\ \A i \in DOMAIN acts : acts[i].number \in Nat /\ acts[i].took \in Nat
<1>1. \A i \in DOMAIN acts : acts[i] \in CallRows
  BY RowsOf DEF CachedInvariant
<1> QED BY <1>1 DEF CachedInvariant, CallRows, CachedRows

LEMMA NoCallSound ==
    ASSUME CachedInvariant
    PROVE  CallSound(NoCall)
<1>1. cached.number \in Nat
  BY CallFields
<1> QED BY <1>1, EmptyRows DEF CachedInvariant, CallSound

\* Calls may end; nothing else changes.
LEMMA CachedWithEnds ==
    ASSUME CachedInvariant, target' = target, cached' = cached, acts' = acts,
           confirming' \in [ToolCalls -> CallRows],
           \A c \in ToolCalls : confirming'[c] = confirming[c] \/ confirming'[c] = NoCall
    PROVE  CachedInvariant'
<1> USE DEF CachedInvariant
<1>1. \A call : CallSound(call)' <=> CallSound(call')
  BY DEF CallSound
<1>2. \A c \in ToolCalls : CallSound(confirming[c])'
  BY NoCallSound DEF CallSound
<1>3. \A i \in DOMAIN acts' : acts'[i].took > 0 /\ CallSound(acts[i])'
  BY DEF CallSound
<1>4. NoCall.took = 0
  BY EmptyRows
<1>5. \A c, d \in ToolCalls :
          confirming'[c].took > 0 /\ confirming'[c].took = confirming'[d].took => c = d
  BY <1>4
<1>6. \A c \in ToolCalls, i \in DOMAIN acts' : confirming'[c].took # acts'[i].took
  BY <1>4, CallFields
<1> QED BY <1>2, <1>3, <1>5, <1>6 DEF ActedOnce

LEMMA CachedFrame ==
    ASSUME CachedInvariant, target' = target, cached' = cached, acts' = acts, confirming' = confirming
    PROVE  CachedInvariant'
BY CachedWithEnds DEF CachedInvariant

LEMMA TurnsFrame ==
    ASSUME TurnsInvariant, OrderInvariant, UNCHANGED turnVars
    PROVE  TurnsInvariant' /\ OrderInvariant'
<1>1. TurnsInvariant'
  BY DEF TurnsInvariant, turnVars, TurnsShape, OneTurn, TurnsKnown, AnsweredStays, Running, Known
<1>2. \A m : Position(m)' = Position(m) /\ (Known(m)' <=> Known(m))
  BY DEF Position, Known, turnVars
<1>3. OrderInvariant'
  BY <1>2 DEF OrderInvariant, turnVars, OneRow, RunningIsLast, RepliesKnown, RepliesOrdered, Answered, Running
<1> QED BY <1>1, <1>3

LEMMA TurnsWithClaimRun ==
    ASSUME TurnsInvariant, NEW m \in Utterances, NEW agrees \in BOOLEAN, ClaimRun(m, agrees)
    PROVE  TurnsInvariant'
<1> USE DEF TurnsInvariant
<1>1. /\ conversation' = conversation /\ conversation = "ACTIVE" /\ replies' = replies
      /\ turn[m].status # "SUCCEEDED"
  BY DEF ClaimRun
<1>2. PICK number \in Nat : number = turn[m].number + 1 /\ number > 0
  BY TurnFields
<1>3. /\ turn' \in [Utterances -> TurnRows]
      /\ turn'[m].status = "RUNNING" /\ turn'[m].number = number
      /\ \A n \in Utterances : n # m =>
            /\ turn'[n].number = turn[n].number /\ turn'[n].status # "RUNNING"
            /\ turn[n].status = "SUCCEEDED" => turn'[n].status = "SUCCEEDED"
  <2>1. ASSUME NEW n \in Utterances
        PROVE  /\ ClaimedTurn(m)[n] \in TurnRows
               /\ n = m => ClaimedTurn(m)[n].status = "RUNNING" /\ ClaimedTurn(m)[n].number = number
               /\ n # m => /\ ClaimedTurn(m)[n].number = turn[n].number
                           /\ ClaimedTurn(m)[n].status # "RUNNING"
                           /\ turn[n].status = "SUCCEEDED" => ClaimedTurn(m)[n].status = "SUCCEEDED"
    <3>1. PICK row \in TurnRows : row = turn[n]
      BY TurnFields
    <3>2. CASE n = m
      BY <1>2, <3>2 DEF ClaimedTurn, TurnRows
    <3>3. CASE n # m /\ n \in Running
      <4>1. ClaimedTurn(m)[n] = [row EXCEPT !.status = "FAILED"] /\ row.status = "RUNNING"
        BY <3>1, <3>3 DEF ClaimedTurn, Running
      <4> QED BY <3>1, <3>3, <4>1 DEF TurnRows
    <3>4. CASE n # m /\ n \notin Running
      <4>1. ClaimedTurn(m)[n] = row /\ row.status # "RUNNING"
        BY <3>1, <3>4 DEF ClaimedTurn, Running
      <4> QED BY <3>1, <3>4, <4>1
    <3> QED BY <3>2, <3>3, <3>4
  <2>2. ClaimedTurn(m) \in [Utterances -> TurnRows]
    BY <2>1 DEF ClaimedTurn
  <2>3. turn' = ClaimedTurn(m)
    BY DEF ClaimRun
  <2> QED BY <2>1, <2>2, <2>3
<1>4. /\ written' \in Seq(Utterances) /\ clear' \subseteq Utterances
      /\ Range(written') = Range(written) \cup {m}
  <2>1. CASE Known(m)
    BY <2>1 DEF ClaimRun, Known, TurnsShape
  <2>2. CASE ~Known(m)
    <3>1. written' = Append(written, m) /\ written \in Seq(Utterances)
      BY <2>2 DEF ClaimRun, TurnsShape
    <3> QED BY <3>1, Appended, AppendedRange DEF ClaimRun, TurnsShape
  <2> QED BY <2>1, <2>2
<1>5. PICK a \in Attempts : a = Attempt(m, number) /\ a.of = m /\ a.number = number
  <2>1. Attempt(m, number) \in Attempts /\ Attempt(m, number).of = m /\ Attempt(m, number).number = number
    BY <1>2 DEF Attempt, Attempts, Senders
  <2> QED BY <2>1
<1>6. atWork' = atWork \cup {a}
  BY <1>2, <1>5 DEF ClaimRun
<1>7. TurnsShape'
  BY <1>1, <1>3, <1>4, <1>5, <1>6 DEF TurnsShape
<1>8. OneTurn'
  BY <1>1, <1>3 DEF OneTurn, Running
<1>9. TurnsKnown'
  <2>1. ASSUME NEW n \in Utterances PROVE Known(n)' <=> turn'[n].number > 0
    BY <1>2, <1>3, <1>4 DEF TurnsKnown, Known
  <2>2. ASSUME NEW b \in atWork PROVE b.number <= turn'[b.of].number
    <3>1. b.of \in Utterances /\ b.number \in Nat /\ b.number <= turn[b.of].number /\ turn[b.of].number \in Nat
      BY <1>1, TurnFields DEF TurnsShape, TurnsKnown, Attempts
    <3> QED BY <1>2, <1>3, <3>1
  <2>3. a.number <= turn'[a.of].number
    BY <1>3, <1>5
  <2> QED BY <1>6, <2>1, <2>2, <2>3 DEF TurnsKnown
<1>10. AnsweredStays'
  <2>1. \A i \in DOMAIN replies : replies[i].of \in Utterances /\ replies[i].of # m
    BY <1>1 DEF TurnsShape, AnsweredStays
  <2> QED BY <1>1, <1>3, <2>1 DEF AnsweredStays
<1> QED BY <1>7, <1>8, <1>9, <1>10

\* A step that ends or outdates the turn of m, and at most ends one attempt.
EndsTurn(m, row) ==
    /\ conversation' = conversation /\ written' = written /\ clear' = clear
    /\ atWork' \subseteq atWork
    /\ turn' = [turn EXCEPT ![m] = row]
    /\ row.number = turn[m].number
    /\ row.status = "RUNNING" => turn[m].status = "RUNNING"
    /\ turn[m].status = "SUCCEEDED" => row.status = "SUCCEEDED"

LEMMA TurnsWithEnd ==
    ASSUME TurnsInvariant, NEW m \in Utterances, NEW row \in TurnRows, EndsTurn(m, row),
           \/ replies' = replies
           \/ \E a \in atWork : /\ replies' = Append(replies, a) /\ a.of = m
                                /\ row.status = "SUCCEEDED" /\ row.number = a.number
    PROVE  TurnsInvariant'
<1> USE DEF TurnsInvariant
<1>1. /\ turn' \in [Utterances -> TurnRows] /\ turn'[m] = row
      /\ \A n \in Utterances : n # m => turn'[n] = turn[n]
      /\ \A n \in Utterances : turn'[n].number = turn[n].number
  BY DEF EndsTurn, TurnsShape
<1>2. Running' \subseteq Running
  BY <1>1 DEF Running, EndsTurn
<1>3. /\ replies' \in Seq(Attempts)
      /\ \A i \in DOMAIN replies' :
            /\ replies'[i].of \in Utterances
            /\ turn'[replies'[i].of].number = replies'[i].number
            /\ turn'[replies'[i].of].status = "SUCCEEDED"
  <2>1. ASSUME NEW i \in DOMAIN replies
        PROVE  /\ replies[i].of \in Utterances
               /\ turn'[replies[i].of].number = replies[i].number
               /\ turn'[replies[i].of].status = "SUCCEEDED"
    BY <1>1 DEF TurnsShape, AnsweredStays, EndsTurn
  <2>2. CASE replies' = replies
    BY <2>1, <2>2 DEF TurnsShape
  <2>3. ASSUME NEW a \in atWork, replies' = Append(replies, a), a.of = m,
               row.status = "SUCCEEDED", row.number = a.number
        PROVE  <1>3!1 /\ <1>3!2
    <3>1. a \in Attempts /\ replies \in Seq(Attempts)
      BY DEF TurnsShape
    <3>2. /\ replies' \in Seq(Attempts)
          /\ \A i \in DOMAIN replies : replies'[i] = replies[i]
          /\ replies'[Len(replies) + 1] = a
          /\ \A i \in DOMAIN replies' : i \in DOMAIN replies \/ i = Len(replies) + 1
      BY <2>3, <3>1, Appended
    <3> QED BY <1>1, <2>1, <2>3, <3>2
  <2> QED BY <2>2, <2>3
<1>4. TurnsShape'
  BY <1>1, <1>3 DEF TurnsShape, EndsTurn
<1>5. OneTurn'
  BY <1>2 DEF OneTurn, EndsTurn
<1>6. TurnsKnown'
  BY <1>1 DEF TurnsKnown, EndsTurn, Known, TurnsShape
<1>7. AnsweredStays'
  BY <1>3 DEF AnsweredStays
<1> QED BY <1>4, <1>5, <1>6, <1>7

LEMMA StatusRow ==
    ASSUME NEW r \in TurnRows, NEW s \in {"NONE", "RUNNING", "FAILED", "SUCCEEDED"}
    PROVE  /\ [r EXCEPT !.status = s] \in TurnRows
           /\ [r EXCEPT !.status = s].status = s
           /\ [r EXCEPT !.status = s].number = r.number
BY DEF TurnRows

LEMMA StatusSet ==
    ASSUME TurnsShape, NEW m \in Utterances, NEW s \in {"NONE", "RUNNING", "FAILED", "SUCCEEDED"},
           turn' = [turn EXCEPT ![m].status = s]
    PROVE  \E row \in TurnRows : /\ turn' = [turn EXCEPT ![m] = row]
                                 /\ row.status = s /\ row.number = turn[m].number
<1>1. PICK r \in TurnRows : r = turn[m]
  BY TurnFields
<1>2. PICK row \in TurnRows : row = [r EXCEPT !.status = s] /\ row.status = s /\ row.number = r.number
  BY StatusRow
<1>3. turn' = [turn EXCEPT ![m] = row]
  BY <1>1, <1>2
<1> QED BY <1>1, <1>2, <1>3

LEMMA TurnsWithLease ==
    ASSUME TurnsInvariant, NEW m \in Utterances, LeasePasses(m) \/ ExpireRun(m)
    PROVE  TurnsInvariant'
<1>1. m \in Running /\ turn[m].status = "RUNNING" /\ TurnsShape
  BY DEF LeasePasses, ExpireRun, Running, TurnsInvariant
<1>2. CASE LeasePasses(m)
  <2>1. PICK r \in TurnRows : r = turn[m]
    BY <1>1, TurnFields
  <2>2. PICK row \in TurnRows : row = [r EXCEPT !.late = TRUE] /\ row.status = r.status /\ row.number = r.number
    <3>1. /\ [r EXCEPT !.late = TRUE] \in TurnRows
          /\ [r EXCEPT !.late = TRUE].status = r.status /\ [r EXCEPT !.late = TRUE].number = r.number
      BY DEF TurnRows
    <3> QED BY <3>1
  <2>3. EndsTurn(m, row) /\ replies' = replies
    BY <1>1, <1>2, <2>1, <2>2 DEF LeasePasses, EndsTurn
  <2> QED BY <2>3, TurnsWithEnd
<1>3. CASE ExpireRun(m)
  <2>1. PICK row \in TurnRows : /\ turn' = [turn EXCEPT ![m] = row]
                                /\ row.status = "FAILED" /\ row.number = turn[m].number
    BY <1>1, <1>3, StatusSet DEF ExpireRun
  <2>2. EndsTurn(m, row) /\ replies' = replies
    BY <1>1, <1>3, <2>1 DEF ExpireRun, EndsTurn
  <2> QED BY <2>2, TurnsWithEnd
<1> QED BY <1>2, <1>3

LEMMA TurnsWithAttempt ==
    ASSUME TurnsInvariant, NEW a \in atWork, Complete(a) \/ Fail(a) \/ AttemptDies(a)
    PROVE  TurnsInvariant'
<1>1. /\ a.of \in Utterances /\ TurnsShape /\ turn[a.of] \in TurnRows
      /\ conversation' = conversation /\ written' = written /\ clear' = clear /\ atWork' \subseteq atWork
  BY TurnFields DEF Complete, Fail, AttemptDies, TurnsInvariant, TurnsShape
<1>2. CASE turn' = turn /\ replies' = replies
  <2>1. EndsTurn(a.of, turn[a.of])
    BY <1>1, <1>2 DEF EndsTurn, TurnsShape
  <2> QED BY <1>1, <1>2, <2>1, TurnsWithEnd
<1>3. ASSUME StillMine(a), NEW s \in {"SUCCEEDED", "FAILED"}, turn' = [turn EXCEPT ![a.of].status = s],
             replies' = replies \/ (s = "SUCCEEDED" /\ replies' = Append(replies, a))
      PROVE  TurnsInvariant'
  <2>1. PICK row \in TurnRows : /\ turn' = [turn EXCEPT ![a.of] = row]
                                /\ row.status = s /\ row.number = turn[a.of].number
    <3>1. PICK m \in Utterances : m = a.of
      BY <1>1
    <3>2. turn' = [turn EXCEPT ![m].status = s]
      BY <1>3, <3>1
    <3>3. s \in {"NONE", "RUNNING", "FAILED", "SUCCEEDED"}
      OBVIOUS
    <3> QED BY <1>1, <3>1, <3>2, <3>3, StatusSet
  <2>2. EndsTurn(a.of, row)
    BY <1>1, <1>3, <2>1 DEF StillMine, EndsTurn
  <2>3. row.number = a.number
    BY <1>3, <2>1 DEF StillMine
  <2> QED BY <1>1, <1>3, <2>1, <2>2, <2>3, TurnsWithEnd
<1>4. \/ turn' = turn /\ replies' = replies
      \/ StillMine(a) /\ turn' = [turn EXCEPT ![a.of].status = "SUCCEEDED"] /\ replies' = Append(replies, a)
      \/ StillMine(a) /\ turn' = [turn EXCEPT ![a.of].status = "FAILED"] /\ replies' = replies
  BY DEF Complete, Fail, AttemptDies
<1> QED BY <1>2, <1>3, <1>4

-----------------------------------------------------------------------------
(* The order of the answers *)

LEMMA PositionOf ==
    ASSUME written \in Seq(Utterances), OneRow, NEW i \in DOMAIN written
    PROVE  Position(written[i]) = i /\ Known(written[i])
BY DEF OneRow, Position, Known, Range

LEMMA KnownHasPosition ==
    ASSUME written \in Seq(Utterances), OneRow, NEW m, Known(m)
    PROVE  /\ Position(m) \in DOMAIN written /\ written[Position(m)] = m
           /\ Position(m) \in 1..Len(written)
<1>1. PICK i \in DOMAIN written : written[i] = m
  BY DEF Known, Range
<1>2. Position(m) = i
  BY <1>1, PositionOf
<1> QED BY <1>1, <1>2

LEMMA OrderFrame ==
    ASSUME TurnsShape, OrderInvariant, written' = written, replies' = replies, turn' \in [Utterances -> TurnRows],
           \A m \in Utterances : /\ turn'[m].status = "RUNNING" => turn[m].status = "RUNNING"
                                 /\ turn'[m].status = "SUCCEEDED" <=> turn[m].status = "SUCCEEDED"
    PROVE  OrderInvariant'
<1>1. Running' \subseteq Running /\ Answered' = Answered
  BY DEF Running, Answered
<1>2. \A m : Position(m)' = Position(m) /\ (Known(m)' <=> Known(m))
  BY DEF Position, Known
<1> QED BY <1>1, <1>2 DEF OrderInvariant, OneRow, RunningIsLast, RepliesOrdered, RepliesKnown

\* A message that is claimed is the last one; the rows before it stay where they are.
LEMMA OrderWithClaimRun ==
    ASSUME TurnsShape, OrderInvariant, NEW m \in Utterances, NEW agrees \in BOOLEAN, ClaimRun(m, agrees)
    PROVE  OrderInvariant'
<1> USE DEF OrderInvariant
<1>1. written \in Seq(Utterances) /\ replies' = replies /\ Len(written) \in Nat
  BY DEF ClaimRun, TurnsShape
<1>2. Answered' = Answered /\ Running' \subseteq {m}
  <2>1. turn' = ClaimedTurn(m) /\ turn[m].status # "SUCCEEDED" /\ turn \in [Utterances -> TurnRows]
    BY DEF ClaimRun, TurnsShape
  <2>2. ASSUME NEW n \in Utterances
        PROVE  /\ turn'[n].status = "SUCCEEDED" <=> turn[n].status = "SUCCEEDED"
               /\ n # m => turn'[n].status # "RUNNING"
    <3>1. PICK row \in TurnRows : row = turn[n]
      BY <2>1
    <3>2. CASE n = m
      BY <2>1, <3>2 DEF ClaimedTurn
    <3>3. CASE n # m /\ n \in Running
      <4>1. turn'[n] = [row EXCEPT !.status = "FAILED"] /\ row.status = "RUNNING"
        BY <2>1, <3>1, <3>3 DEF ClaimedTurn, Running
      <4> QED BY <3>1, <3>3, <4>1 DEF TurnRows
    <3>4. CASE n # m /\ n \notin Running
      <4>1. turn'[n] = row /\ row.status # "RUNNING"
        BY <2>1, <3>1, <3>4 DEF ClaimedTurn, Running
      <4> QED BY <3>1, <3>4, <4>1
    <3> QED BY <3>2, <3>3, <3>4
  <2> QED BY <2>2 DEF Answered, Running
<1>3. CASE Known(m)
  <2>1. written' = written /\ ~(Position(m) < Len(written))
    BY <1>3 DEF ClaimRun, Outdated
  <2>2. Position(m) = Len(written) /\ Len(written) \in DOMAIN written /\ written[Len(written)] = m
    BY <1>1, <1>3, <2>1, KnownHasPosition
  <2>3. \A n : Position(n)' = Position(n) /\ (Known(n)' <=> Known(n))
    BY <2>1 DEF Position, Known
  <2> QED BY <1>1, <1>2, <2>1, <2>2, <2>3 DEF OneRow, RunningIsLast, RepliesOrdered, RepliesKnown
<1>4. CASE ~Known(m)
  <2>1. written' = Append(written, m)
    BY <1>4 DEF ClaimRun
  <2>2. /\ written' \in Seq(Utterances) /\ Len(written') = Len(written) + 1
        /\ DOMAIN written' = 1..(Len(written) + 1) /\ DOMAIN written = 1..Len(written)
        /\ \A i \in DOMAIN written : written'[i] = written[i] /\ i < Len(written) + 1
        /\ written'[Len(written) + 1] = m
        /\ \A i \in DOMAIN written' : i \in DOMAIN written \/ i = Len(written) + 1
    BY <1>1, <2>1, Appended
  <2>3. \A i \in DOMAIN written : written[i] # m
    BY <1>4 DEF Known, Range
  <2>4. OneRow'
    BY <2>2, <2>3 DEF OneRow
  <2>5. ASSUME NEW n, Known(n) PROVE Known(n)' /\ Position(n)' = Position(n)
    <3>1. PICK i \in DOMAIN written : i = Position(n) /\ written[i] = n
      BY <1>1, <2>5, KnownHasPosition
    <3>2. i \in DOMAIN written' /\ written'[i] = n
      BY <2>2, <3>1
    <3>3. \A j \in DOMAIN written' : written'[j] = n => j = i
      BY <2>4, <3>2 DEF OneRow
    <3> QED BY <3>1, <3>2, <3>3 DEF Known, Range, Position
  <2>6. RunningIsLast'
    BY <1>1, <1>2, <2>2 DEF RunningIsLast
  <2>7. RepliesKnown' /\ RepliesOrdered'
    BY <1>1, <1>2, <2>5 DEF RepliesKnown, RepliesOrdered
  <2> QED BY <2>4, <2>6, <2>7
<1> QED BY <1>3, <1>4

\* The turn that is answered is that of the last message.
LEMMA OrderWithComplete ==
    ASSUME TurnsShape, OrderInvariant, NEW a \in atWork, StillMine(a), written' = written,
           replies' = Append(replies, a), turn' = [turn EXCEPT ![a.of].status = "SUCCEEDED"]
    PROVE  OrderInvariant'
<1> USE DEF OrderInvariant
<1>1. /\ a \in Attempts /\ a.of \in Utterances /\ a.of \in Running /\ replies \in Seq(Attempts)
      /\ written \in Seq(Utterances) /\ Len(written) \in Nat
  BY DEF TurnsShape, StillMine, Running
<1>2. Answered' = Answered \cup {a.of} /\ Running' \subseteq Running
  <2>1. PICK m \in Utterances : m = a.of
    BY <1>1
  <2>2. PICK row \in TurnRows : turn' = [turn EXCEPT ![m] = row] /\ row.status = "SUCCEEDED"
    <3>1. turn' = [turn EXCEPT ![m].status = "SUCCEEDED"]
      BY <2>1
    <3>2. "SUCCEEDED" \in {"NONE", "RUNNING", "FAILED", "SUCCEEDED"}
      OBVIOUS
    <3> QED BY <3>1, <3>2, StatusSet
  <2> QED BY <2>1, <2>2 DEF Answered, Running, TurnsShape
<1>3. /\ DOMAIN replies' = 1..(Len(replies) + 1) /\ DOMAIN replies = 1..Len(replies) /\ Len(replies) \in Nat
      /\ \A i \in DOMAIN replies : replies'[i] = replies[i] /\ i < Len(replies) + 1
      /\ replies'[Len(replies) + 1] = a
      /\ \A i \in DOMAIN replies' : i \in DOMAIN replies \/ i = Len(replies) + 1
  BY <1>1, Appended
<1>4. \A m : Position(m)' = Position(m) /\ (Known(m)' <=> Known(m))
  BY DEF Position, Known
<1>5. Known(a.of) /\ Position(a.of) = Len(written)
  BY <1>1, PositionOf DEF RunningIsLast
<1>6. ASSUME NEW i \in DOMAIN replies PROVE Position(replies[i].of) < Position(a.of)
  <2>1. replies[i].of \in Answered /\ Known(replies[i].of)
    BY DEF RepliesKnown
  <2>2. replies[i].of # a.of
    BY <1>1, <2>1 DEF Answered, Running
  <2>3. PICK p \in 1..Len(written) : p = Position(replies[i].of) /\ written[p] = replies[i].of
    BY <1>1, <2>1, KnownHasPosition
  <2>4. written[Len(written)] = a.of
    BY <1>1 DEF RunningIsLast
  <2> QED BY <1>1, <1>5, <2>2, <2>3, <2>4
<1>7. RepliesKnown'
  BY <1>2, <1>3, <1>4, <1>5 DEF RepliesKnown
<1>8. RepliesOrdered'
  <2>1. ASSUME NEW i \in DOMAIN replies', NEW j \in DOMAIN replies', i < j
        PROVE  Position(replies'[i].of) < Position(replies'[j].of)
    <3>1. i \in DOMAIN replies
      BY <1>3, <2>1
    <3>2. CASE j \in DOMAIN replies
      BY <1>3, <2>1, <3>1, <3>2 DEF RepliesOrdered
    <3>3. CASE j = Len(replies) + 1
      BY <1>3, <1>6, <3>1, <3>3
    <3> QED BY <1>3, <3>2, <3>3
  <2> QED BY <1>4, <2>1 DEF RepliesOrdered
<1>9. OneRow' /\ RunningIsLast'
  BY <1>2 DEF OneRow, RunningIsLast
<1> QED BY <1>7, <1>8, <1>9

LEMMA OrderWithTurns ==
    ASSUME TurnsShape, OrderInvariant,
           \/ \E m \in Utterances : LeasePasses(m) \/ ExpireRun(m)
           \/ \E a \in atWork : Complete(a) \/ Fail(a) \/ AttemptDies(a)
    PROVE  OrderInvariant'
<1>1. CASE \E m \in Utterances : LeasePasses(m)
  <2>1. PICK m \in Utterances : LeasePasses(m)
    BY <1>1
  <2>2. PICK r \in TurnRows : r = turn[m] /\ r.status = "RUNNING"
    BY <2>1, TurnFields DEF LeasePasses, Running
  <2>3. PICK row \in TurnRows : row = [r EXCEPT !.late = TRUE] /\ row.status = r.status
    <3>1. [r EXCEPT !.late = TRUE] \in TurnRows /\ [r EXCEPT !.late = TRUE].status = r.status
      BY DEF TurnRows
    <3> QED BY <3>1
  <2>4. turn' = [turn EXCEPT ![m] = row] /\ written' = written /\ replies' = replies
    BY <2>1, <2>2, <2>3 DEF LeasePasses
  <2> QED BY <2>2, <2>3, <2>4, OrderFrame DEF TurnsShape
<1>2. ASSUME NEW m \in Utterances, turn[m].status = "RUNNING", turn' = [turn EXCEPT ![m].status = "FAILED"],
             written' = written, replies' = replies
      PROVE  OrderInvariant'
  <2>1. PICK row \in TurnRows : turn' = [turn EXCEPT ![m] = row] /\ row.status = "FAILED"
    <3>1. "FAILED" \in {"NONE", "RUNNING", "FAILED", "SUCCEEDED"}
      OBVIOUS
    <3> QED BY <1>2, <3>1, StatusSet
  <2> QED BY <1>2, <2>1, OrderFrame DEF TurnsShape
<1>3. CASE \E m \in Utterances : ExpireRun(m)
  BY <1>2, <1>3 DEF ExpireRun, Running
<1>4. ASSUME NEW a \in atWork, Complete(a) \/ Fail(a) \/ AttemptDies(a) PROVE OrderInvariant'
  <2>1. a.of \in Utterances /\ written' = written
    BY <1>4 DEF TurnsShape, Complete, Fail, AttemptDies
  <2>2. \/ turn' = turn /\ replies' = replies
        \/ StillMine(a) /\ turn' = [turn EXCEPT ![a.of].status = "SUCCEEDED"] /\ replies' = Append(replies, a)
        \/ StillMine(a) /\ turn' = [turn EXCEPT ![a.of].status = "FAILED"] /\ replies' = replies
    BY <1>4 DEF Complete, Fail, AttemptDies
  <2>3. CASE turn' = turn /\ replies' = replies
    BY <2>1, <2>3, OrderFrame DEF TurnsShape
  <2>4. CASE StillMine(a) /\ turn' = [turn EXCEPT ![a.of].status = "SUCCEEDED"] /\ replies' = Append(replies, a)
    BY <2>1, <2>4, OrderWithComplete
  <2>5. CASE StillMine(a) /\ turn' = [turn EXCEPT ![a.of].status = "FAILED"] /\ replies' = replies
    BY <1>2, <2>1, <2>5 DEF StillMine
  <2> QED BY <2>2, <2>3, <2>4, <2>5
<1> QED BY <1>1, <1>3, <1>4

\* From the message of the answer i on, by the rows, are the answers from i on.
LEMMA SinceIsAnsweredFrom ==
    ASSUME TurnsShape, OrderInvariant, NEW i \in DOMAIN replies
    PROVE  Since(replies[i].of) = AnsweredFrom(i)
<1>1. /\ DOMAIN replies = 1..Len(replies) /\ Len(replies) \in Nat
  BY DEF TurnsShape
<1>2. ASSUME NEW j \in DOMAIN replies PROVE replies[j].of \in Answered /\ Position(replies[j].of) \in Nat
  <2>1. replies[j].of \in Answered /\ Known(replies[j].of)
    BY DEF OrderInvariant, RepliesKnown
  <2>2. Position(replies[j].of) \in 1..Len(written) /\ Len(written) \in Nat
    BY <2>1, KnownHasPosition DEF OrderInvariant, TurnsShape
  <2> QED BY <2>1, <2>2
<1>3. ASSUME NEW j \in DOMAIN replies
      PROVE  Position(replies[j].of) >= Position(replies[i].of) <=> j >= i
  <2>1. CASE j < i
    BY <1>1, <1>2, <2>1 DEF OrderInvariant, RepliesOrdered
  <2>2. CASE i < j
    BY <1>1, <1>2, <2>2 DEF OrderInvariant, RepliesOrdered
  <2>3. CASE i = j
    BY <1>1, <1>2, <2>3
  <2> QED BY <1>1, <2>1, <2>2, <2>3
<1>4. \A m \in Answered : \E j \in DOMAIN replies : replies[j].of = m
  BY DEF OrderInvariant, RepliesKnown
<1> QED BY <1>2, <1>3, <1>4 DEF Since, AnsweredFrom

LEMMA HistoryIsSeen ==
    ASSUME TurnsShape, OrderInvariant
    PROVE  HistoryAsSeen
<1>1. \A i \in DOMAIN replies : Since(replies[i].of) = AnsweredFrom(i)
  BY SinceIsAnsweredFrom
<1>2. /\ \A i \in DOMAIN replies : replies[i].of \in Answered
      /\ \A m \in Answered : \E i \in DOMAIN replies : replies[i].of = m
  BY DEF OrderInvariant, RepliesKnown
<1>3. History = {replies[k].of : k \in {i \in DOMAIN replies : Fits(AnsweredFrom(i))}}
  BY <1>1, <1>2 DEF History
<1> QED BY <1>3 DEF HistoryAsSeen, OrderInvariant, RepliesOrdered

-----------------------------------------------------------------------------
LEMMA KeepsWithClose ==
    ASSUME AssistantInvariant, CloseOrReopen
    PROVE  AssistantInvariant'
<1>1. TurnsInvariant'
  BY DEF AssistantInvariant, CloseOrReopen, TurnsInvariant, TurnsShape, OneTurn, TurnsKnown, AnsweredStays,
         Running, Known
<1>2. draft' = draft /\ booked' = booked /\ clear' = clear
      /\ target' = target /\ cached' = cached /\ acts' = acts /\ confirming' = confirming
  BY DEF CloseOrReopen, bookingDraftVars, cachedVars
<1>3. OrderInvariant'
  BY OrderFrame DEF AssistantInvariant, CloseOrReopen, TurnsInvariant, TurnsShape
<1> QED BY <1>1, <1>2, <1>3, BookingFrame, CachedFrame DEF AssistantInvariant

\* Nothing was said and no booking is drafted; tools that hang may still be at work.
Blank ==
    /\ written = <<>> /\ clear = {} /\ replies = <<>> /\ draft = NoDraft /\ booked = <<>>
    /\ turn = [m \in Utterances |-> [status |-> "NONE", number |-> 0, late |-> FALSE]]
    /\ conversation \in {"ACTIVE", "DELETED"} /\ (conversation = "DELETED" \/ atWork = {})
    /\ atWork \subseteq Attempts /\ \A a \in atWork : a.of \in Utterances

LEMMA BlankIsSound == Blank => TurnsInvariant /\ OrderInvariant /\ BookingInvariant
<1> SUFFICES ASSUME Blank PROVE TurnsInvariant /\ OrderInvariant /\ BookingInvariant
  OBVIOUS
<1>1. /\ turn \in [Utterances -> TurnRows]
      /\ \A m \in Utterances : turn[m].status = "NONE" /\ turn[m].number = 0
  BY DEF Blank, TurnRows
<1>2. /\ written \in Seq(Utterances) /\ replies \in Seq(Attempts) /\ booked \in Seq(BookedRows)
      /\ Range(written) = {} /\ DOMAIN replies = {} /\ DOMAIN booked = {}
  BY EmptyRange DEF Blank
<1>3. Running = {}
  BY <1>1 DEF Running
<1>4. TurnsInvariant
  BY <1>1, <1>2, <1>3 DEF Blank, TurnsInvariant, TurnsShape, OneTurn, TurnsKnown, AnsweredStays, Known
<1>5. BookingInvariant
  BY <1>2, EmptyRows DEF Blank, BookingInvariant, BookedAsAgreed
<1>6. OrderInvariant
  <2>1. DOMAIN written = {} /\ Answered = {}
    BY <1>1 DEF Blank, Answered
  <2> QED BY <1>2, <1>3, <2>1 DEF OrderInvariant, OneRow, RunningIsLast, RepliesKnown, RepliesOrdered
<1> QED BY <1>4, <1>5, <1>6

LEMMA AssistantBegins == AssistantInit => AssistantInvariant
<1> SUFFICES ASSUME AssistantInit PROVE AssistantInvariant
  OBVIOUS
<1>1. Blank
  BY DEF AssistantInit, Blank
<1>2. acts \in Seq(CallRows) /\ DOMAIN acts = {}
  BY EmptyRange DEF AssistantInit
<1>3. confirming \in [ToolCalls -> CallRows] /\ \A c \in ToolCalls : confirming[c] = NoCall
  BY EmptyRows DEF AssistantInit
<1>4. cached \in CachedRows /\ cached.number = 0 /\ cached.by.of = "none"
  BY EmptyRows DEF AssistantInit
<1>5. \A c \in ToolCalls : CallSound(confirming[c])
  BY <1>3, <1>4, EmptyRows DEF CallSound
<1>6. target \in [open : BOOLEAN, provided : BOOLEAN]
  BY DEF AssistantInit
<1>7. CachedInvariant
  BY <1>2, <1>3, <1>4, <1>5, <1>6, EmptyRows DEF CachedInvariant, ActedOnce
<1> QED BY <1>1, <1>7, BlankIsSound DEF AssistantInvariant

LEMMA KeepsWithDelete ==
    ASSUME AssistantInvariant, DeleteConversation
    PROVE  AssistantInvariant'
<1>1. Blank'
  BY DEF DeleteConversation, Blank, AssistantInvariant, TurnsInvariant, TurnsShape
<1>2. TurnsInvariant' /\ OrderInvariant' /\ BookingInvariant'
  BY <1>1, BlankIsSound, PTL
<1>3. CachedInvariant'
  BY CachedFrame DEF DeleteConversation, AssistantInvariant, cachedVars
<1> QED BY <1>2, <1>3 DEF AssistantInvariant

-----------------------------------------------------------------------------
(* Drafts of bookings *)

LEMMA BookingSteps ==
    ASSUME TurnsShape, BookingInvariant, NEW a \in atWork,
           PrepareBooking(a) \/ ConfirmBooking(a) \/ DiscardBookingDraft(a)
    PROVE  BookingInvariant'
<1> USE DEF BookingInvariant
<1>1. a.of \in Utterances /\ draft \in DraftRows /\ draft.number \in Nat
      /\ clear' = clear
  BY DEF TurnsShape, DraftRows, PrepareBooking, ConfirmBooking, DiscardBookingDraft, turnVars
<1>2. \A i \in DOMAIN booked : booked[i].number \in Nat
  <2>1. \A i \in DOMAIN booked : booked[i] \in BookedRows
    BY RowsOf
  <2> QED BY <2>1 DEF BookedRows
<1>3. CASE PrepareBooking(a)
  <2>1. /\ draft' \in DraftRows /\ draft'.number = draft.number + 1 /\ booked' = booked
    BY <1>1, <1>3 DEF PrepareBooking, DraftRows, Senders
  <2> QED BY <1>1, <1>2, <2>1 DEF BookedAsAgreed
<1>4. CASE DiscardBookingDraft(a)
  <2>1. /\ draft' \in DraftRows /\ draft'.number = draft.number /\ draft'.status = "CANCELLED" /\ booked' = booked
    BY <1>1, <1>4 DEF DiscardBookingDraft, DraftRows
  <2> QED BY <1>1, <1>2, <2>1 DEF BookedAsAgreed
<1>5. CASE ConfirmBooking(a)
  <2>1. /\ draft' \in DraftRows /\ draft'.number = draft.number /\ draft'.status = "CONFIRMED"
        /\ draft.status = "AWAITING" /\ a.of \in clear
    BY <1>1, <1>5 DEF ConfirmBooking, Confirmed, MayConfirm, DraftRows
  <2>2. PICK row \in BookedRows :
          /\ row = [number |-> draft.number, from |-> draft.by, by |-> a.of]
          /\ row.number = draft.number /\ row.by = a.of
    <3>1. [number |-> draft.number, from |-> draft.by, by |-> a.of] \in BookedRows
      BY <1>1 DEF BookedRows, DraftRows
    <3> QED BY <3>1
  <2>3. booked' = Append(booked, row) /\ booked \in Seq(BookedRows)
    BY <1>5, <2>2 DEF ConfirmBooking
  <2>4. /\ booked' \in Seq(BookedRows) /\ Len(booked) \in Nat
        /\ \A i \in DOMAIN booked : booked'[i] = booked[i] /\ i < Len(booked) + 1 /\ i \in Nat
        /\ booked'[Len(booked) + 1] = row
        /\ \A i \in DOMAIN booked' : i \in DOMAIN booked \/ i = Len(booked) + 1
    BY <2>3, Appended
  <2>5. \A i \in DOMAIN booked : booked[i].number < draft.number
    BY <2>1
  <2>6. BookedAsAgreed'
    <3>1. ASSUME NEW i \in DOMAIN booked', NEW j \in DOMAIN booked', i < j
          PROVE  booked'[i].number < booked'[j].number
      <4>1. CASE j \in DOMAIN booked
        BY <2>4, <3>1, <4>1 DEF BookedAsAgreed
      <4>2. CASE j = Len(booked) + 1
        BY <2>2, <2>4, <2>5, <3>1, <4>2
      <4> QED BY <2>4, <4>1, <4>2
    <3>2. \A i \in DOMAIN booked' : booked'[i].by \in clear'
      BY <1>1, <2>1, <2>2, <2>4 DEF BookedAsAgreed
    <3> QED BY <3>1, <3>2 DEF BookedAsAgreed
  <2> QED BY <1>1, <1>2, <2>1, <2>2, <2>4, <2>5, <2>6
<1> QED BY <1>3, <1>4, <1>5

-----------------------------------------------------------------------------
(* Drafts in the cache *)

LEMMA EmptiedRow ==
    ASSUME cached \in CachedRows
    PROVE  Emptied \in CachedRows /\ Emptied.by.of = "none" /\ Emptied.number = cached.number
BY EmptyRows DEF CachedRows, Emptied

\* A draft that expires, or is deleted by a call, leaves its number.
LEMMA CachedWithExpiry ==
    ASSUME CachedInvariant, cached' = Emptied, target' = target, acts' = acts, confirming' = confirming
    PROVE  CachedInvariant'
<1> USE DEF CachedInvariant
<1>1. cached' \in CachedRows /\ cached'.by.of = "none" /\ cached'.number = cached.number
  BY EmptiedRow
<1>2. \A c \in ToolCalls : CallSound(confirming[c])'
  BY <1>1 DEF CallSound
<1>3. \A i \in DOMAIN acts' : acts'[i].took > 0 /\ CallSound(acts[i])'
  BY <1>1 DEF CallSound
<1> QED BY <1>1, <1>2, <1>3 DEF ActedOnce

LEMMA CachedWithPrepare ==
    ASSUME TurnsShape, CachedInvariant, NEW a \in atWork, NEW accept \in BOOLEAN, Prepare(a, accept)
    PROVE  CachedInvariant'
<1> USE DEF CachedInvariant
<1>1. cached.number \in Nat /\ a \in Attempts
  BY CallFields DEF TurnsShape
<1>2. /\ cached' \in CachedRows /\ cached'.number = cached.number + 1 /\ acts' = acts /\ target' = target
      /\ confirming' = confirming
  BY <1>1 DEF Prepare, CachedRows
<1>3. \A c \in ToolCalls : CallSound(confirming[c])'
  BY <1>1, <1>2, CallFields DEF CallSound
<1>4. \A i \in DOMAIN acts' : acts'[i].took > 0 /\ CallSound(acts[i])'
  BY <1>1, <1>2, CallFields DEF CallSound
<1>5. cached'.number > 0
  BY <1>1, <1>2
<1> QED BY <1>2, <1>3, <1>4, <1>5 DEF ActedOnce

LEMMA CachedWithFetch ==
    ASSUME TurnsShape, CachedInvariant, NEW a \in atWork, NEW c \in ToolCalls, FetchDraft(a, c)
    PROVE  CachedInvariant'
<1> USE DEF CachedInvariant
<1>1. /\ cached.number \in Nat /\ cached.by \in Attempts /\ cached.accept \in BOOLEAN /\ a \in Attempts
      /\ cached.by.of # "none" /\ cached.by # a /\ cached.number > 0
  BY CallFields DEF TurnsShape, FetchDraft
<1>2. PICK call \in CallRows :
        /\ call = [by |-> a, from |-> cached.by, accept |-> cached.accept, number |-> cached.number, took |-> 0]
        /\ call.number = cached.number /\ call.took = 0 /\ call.from # call.by
  <2>1. [by |-> a, from |-> cached.by, accept |-> cached.accept, number |-> cached.number, took |-> 0]
          \in CallRows
    BY <1>1 DEF CallRows
  <2> QED BY <1>1, <2>1
<1>3. /\ confirming' = [confirming EXCEPT ![c] = call]
      /\ target' = target /\ cached' = cached /\ acts' = acts
  BY <1>2 DEF FetchDraft
<1>4. /\ confirming' \in [ToolCalls -> CallRows] /\ confirming'[c] = call
      /\ \A d \in ToolCalls : d # c => confirming'[d] = confirming[d]
  BY <1>3
<1>5. \A d \in ToolCalls : CallSound(confirming[d])'
  <2>1. CallSound(confirming[c])'
    BY <1>1, <1>2, <1>3, <1>4 DEF CallSound
  <2>2. ASSUME NEW d \in ToolCalls, d # c PROVE CallSound(confirming[d])'
    BY <1>3, <1>4, <2>2 DEF CallSound
  <2> QED BY <2>1, <2>2
<1>6. \A i \in DOMAIN acts' : acts'[i].took > 0 /\ CallSound(acts[i])'
  BY <1>3 DEF CallSound
<1>7. \A d, e \in ToolCalls :
          confirming'[d].took > 0 /\ confirming'[d].took = confirming'[e].took => d = e
  BY <1>2, <1>4
<1>8. \A d \in ToolCalls, i \in DOMAIN acts' : confirming'[d].took # acts'[i].took
  BY <1>2, <1>3, <1>4
<1> QED BY <1>3, <1>4, <1>5, <1>6, <1>7, <1>8 DEF ActedOnce

LEMMA CachedWithTake ==
    ASSUME CachedInvariant, NEW c \in ToolCalls, TakeDraft(c)
    PROVE  CachedInvariant'
<1> USE DEF CachedInvariant
<1>1. target' = target /\ acts' = acts
  BY DEF TakeDraft
<1>2. CASE cached.by.of = "none"
  <2>1. confirming' = [confirming EXCEPT ![c] = NoCall] /\ cached' = cached
    BY <1>2 DEF TakeDraft
  <2> QED BY <1>1, <2>1, CachedWithEnds, EmptyRows
<1>3. CASE cached.by.of # "none"
  <2>1. PICK old \in CallRows : old = confirming[c] /\ old.number > 0 /\ old.took = 0
    BY CallFields DEF TakeDraft
  <2>2. cached.number \in Nat /\ cached.number > 0
    BY <1>3, CallFields
  <2>3. PICK call \in CallRows :
          /\ call = [old EXCEPT !.took = cached.number]
          /\ call.took = cached.number /\ call.number = old.number
          /\ call.from = old.from /\ call.by = old.by
    <3>1. [old EXCEPT !.took = cached.number] \in CallRows
      BY <2>2 DEF CallRows
    <3> QED BY <3>1 DEF CallRows
  <2>4. confirming' = [confirming EXCEPT ![c] = call] /\ cached' = Emptied
    BY <1>3, <2>1, <2>3 DEF TakeDraft
  <2>5. /\ confirming' \in [ToolCalls -> CallRows] /\ confirming'[c] = call
        /\ \A d \in ToolCalls : d # c => confirming'[d] = confirming[d]
    BY <2>4
  <2>6. cached' \in CachedRows /\ cached'.by.of = "none" /\ cached'.number = cached.number
    BY <2>4, EmptiedRow
  <2>7. \A d \in ToolCalls : CallSound(confirming[d])'
    <3>1. CallSound(old)
      BY <2>1
    <3>2. old.number \in Nat
      BY DEF CallRows
    <3>3. CallSound(confirming[c])'
      BY <2>1, <2>2, <2>3, <2>5, <2>6, <3>1, <3>2 DEF CallSound
    <3>4. ASSUME NEW d \in ToolCalls, d # c PROVE CallSound(confirming[d])'
      BY <2>5, <2>6, <3>4 DEF CallSound
    <3> QED BY <3>3, <3>4
  <2>8. \A i \in DOMAIN acts' : acts'[i].took > 0 /\ CallSound(acts[i])'
    BY <1>1, <2>6 DEF CallSound
  <2>9. \A d \in ToolCalls : confirming[d].took < cached.number /\ confirming[d].took \in Nat
    BY <1>3, CallFields DEF CallSound
  <2>10. \A i \in DOMAIN acts : acts[i].took < cached.number /\ acts[i].took \in Nat
    BY <1>3, CallFields DEF CallSound
  <2>11. \A d, e \in ToolCalls :
           confirming'[d].took > 0 /\ confirming'[d].took = confirming'[e].took => d = e
    <3>1. \A d \in ToolCalls : d # c => confirming'[d].took = confirming[d].took /\ confirming[d].took # call.took
      BY <2>2, <2>3, <2>5, <2>9
    <3>2. confirming'[c].took = call.took
      BY <2>5
    <3> QED BY <3>1, <3>2
  <2>12. \A d \in ToolCalls, i \in DOMAIN acts' : confirming'[d].took # acts'[i].took
    <3>1. \A i \in DOMAIN acts : acts[i].took # call.took
      BY <2>2, <2>3, <2>10
    <3>2. ASSUME NEW d \in ToolCalls, NEW i \in DOMAIN acts PROVE confirming'[d].took # acts[i].took
      <4>1. CASE d = c
        BY <2>5, <3>1, <4>1
      <4>2. CASE d # c
        BY <2>5, <4>2
      <4> QED BY <4>1, <4>2
    <3> QED BY <1>1, <3>2
  <2> QED BY <1>1, <2>5, <2>6, <2>7, <2>8, <2>11, <2>12 DEF ActedOnce
<1> QED BY <1>2, <1>3

LEMMA CachedWithCarryOut ==
    ASSUME CachedInvariant, NEW c \in ToolCalls, NEW possible \in BOOLEAN, CarryOut(c, possible)
    PROVE  CachedInvariant'
<1> USE DEF CachedInvariant
<1>1. confirming' = [confirming EXCEPT ![c] = NoCall] /\ cached' = cached
  BY DEF CarryOut
<1>2. CASE ~possible
  BY <1>1, <1>2, CachedWithEnds, EmptyRows DEF CarryOut
<1>3. CASE possible
  <2>1. PICK call \in CallRows : call = confirming[c] /\ call.took > 0 /\ call.took \in Nat
    BY CallFields DEF CarryOut
  <2>2. acts' = Append(acts, call) /\ target' = [target EXCEPT !.open = FALSE]
    BY <1>3, <2>1 DEF CarryOut
  <2>3. /\ acts' \in Seq(CallRows) /\ Len(acts) \in Nat /\ DOMAIN acts = 1..Len(acts)
        /\ \A i \in DOMAIN acts : acts'[i] = acts[i]
        /\ acts'[Len(acts) + 1] = call
        /\ \A i \in DOMAIN acts' : i \in DOMAIN acts \/ i = Len(acts) + 1
    BY <2>2, Appended
  <2>4. /\ confirming' \in [ToolCalls -> CallRows] /\ confirming'[c] = NoCall
        /\ \A d \in ToolCalls : d # c => confirming'[d] = confirming[d]
    BY <1>1, EmptyRows
  <2>5. NoCall.took = 0
    BY EmptyRows
  <2>6. \A d \in ToolCalls : CallSound(confirming[d])'
    <3>1. \A d \in ToolCalls : CallSound(confirming'[d])
      BY <2>4, NoCallSound
    <3> QED BY <1>1, <3>1 DEF CallSound
  <2>7. \A i \in DOMAIN acts' : acts'[i].took > 0 /\ CallSound(acts[i])'
    <3>1. \A i \in DOMAIN acts' : acts'[i].took > 0 /\ CallSound(acts'[i])
      BY <2>1, <2>3
    <3> QED BY <1>1, <3>1 DEF CallSound
  <2>8. \A d, e \in ToolCalls :
          confirming'[d].took > 0 /\ confirming'[d].took = confirming'[e].took => d = e
    BY <2>4, <2>5
  <2>9. \A d \in ToolCalls, i \in DOMAIN acts' : confirming'[d].took # acts'[i].took
    <3>1. ASSUME NEW d \in ToolCalls, NEW i \in DOMAIN acts', d # c PROVE confirming'[d].took # acts'[i].took
      <4>1. CASE i \in DOMAIN acts
        BY <2>3, <2>4, <3>1, <4>1
      <4>2. CASE i = Len(acts) + 1
        BY <2>1, <2>3, <2>4, <3>1, <4>2
      <4> QED BY <2>3, <4>1, <4>2
    <3>2. \A i \in DOMAIN acts' : confirming'[c].took # acts'[i].took
      BY <2>1, <2>3, <2>4, <2>5
    <3> QED BY <3>1, <3>2
  <2>10. ActedOnce'
    <3>1. \A i \in DOMAIN acts : acts[i].took # call.took
      BY <2>1
    <3>2. ASSUME NEW i \in DOMAIN acts', NEW j \in DOMAIN acts', acts'[i].took = acts'[j].took
          PROVE  i = j
      BY <2>3, <3>1, <3>2 DEF ActedOnce
    <3>3. call.number <= call.took /\ call.from # call.by
      BY <2>1 DEF CallSound
    <3>4. \A i \in DOMAIN acts' : acts'[i].number <= acts'[i].took /\ acts'[i].from # acts'[i].by
      BY <2>3, <3>3 DEF ActedOnce
    <3> QED BY <3>2, <3>4 DEF ActedOnce
  <2>11. target' \in [open : BOOLEAN, provided : BOOLEAN]
    BY <2>2
  <2> QED BY <1>1, <2>3, <2>4, <2>6, <2>7, <2>8, <2>9, <2>10, <2>11
<1> QED BY <1>2, <1>3

\* The tools that prepare something, and the calls that do it.
LEMMA PreparingTools ==
    ASSUME NEW a,
           \/ PrepareCancel(a) \/ PrepareAddress(a) \/ PrepareInvitationResponse(a)
           \/ PreparePreferredResponse(a) \/ PrepareCheckOut(a) \/ PrepareComplaint(a)
    PROVE  \E accept \in BOOLEAN : Prepare(a, accept)
BY DEF PrepareCancel, PrepareAddress, PrepareCheckOut, PrepareComplaint, PrepareInvitationResponse,
       PreparePreferredResponse

LEMMA ConfirmingTools ==
    ASSUME CachedInvariant, NEW c,
           \/ ConfirmCancel(c) \/ ConfirmAddress(c) \/ ConfirmInvitationResponse(c)
           \/ ConfirmPreferredResponse(c) \/ ConfirmCheckOut(c) \/ ConfirmComplaint(c)
    PROVE  \E possible \in BOOLEAN : CarryOut(c, possible)
<1>1. target.open \in BOOLEAN /\ target.provided \in BOOLEAN /\ CanAnswer(confirming[c].accept) \in BOOLEAN
  BY DEF CachedInvariant, CanAnswer
<1>2. (target.open /\ target.provided) \in BOOLEAN
  BY <1>1
<1>3. CASE ConfirmCancel(c) \/ ConfirmAddress(c) \/ ConfirmComplaint(c)
  BY <1>1, <1>3 DEF ConfirmCancel, ConfirmAddress, ConfirmComplaint
<1>4. CASE ConfirmInvitationResponse(c) \/ ConfirmPreferredResponse(c) \/ ConfirmCheckOut(c)
  BY <1>1, <1>2, <1>4 DEF ConfirmInvitationResponse, ConfirmPreferredResponse, ConfirmCheckOut
<1> QED BY <1>3, <1>4

-----------------------------------------------------------------------------
LEMMA KeepsWithTurns ==
    ASSUME AssistantInvariant,
           \/ \E m \in Utterances : \/ \E agrees \in BOOLEAN : ClaimRun(m, agrees)
                                    \/ LeasePasses(m) \/ ExpireRun(m)
           \/ \E a \in atWork : Complete(a) \/ Fail(a) \/ AttemptDies(a)
    PROVE  AssistantInvariant'
<1> USE DEF AssistantInvariant
<1>1. TurnsInvariant'
  BY TurnsWithClaimRun, TurnsWithLease, TurnsWithAttempt
<1>2. draft' = draft /\ booked' = booked /\ clear \subseteq clear'
  BY DEF ClaimRun, LeasePasses, ExpireRun, Complete, Fail, AttemptDies, bookingDraftVars
<1>3. CachedInvariant'
  <2>1. CASE \E a \in atWork : AttemptDies(a)
    <3>1. PICK a \in atWork : AttemptDies(a)
      BY <2>1
    <3>2. /\ confirming' \in [ToolCalls -> CallRows]
          /\ \A c \in ToolCalls : confirming'[c] = confirming[c] \/ confirming'[c] = NoCall
      BY <3>1, EmptyRows DEF AttemptDies, CachedInvariant
    <3> QED BY <3>1, <3>2, CachedWithEnds DEF AttemptDies
  <2>2. CASE UNCHANGED cachedVars
    BY <2>2, CachedFrame DEF cachedVars
  <2> QED BY <2>1, <2>2 DEF ClaimRun, LeasePasses, ExpireRun, Complete, Fail
<1>4. OrderInvariant'
  BY OrderWithClaimRun, OrderWithTurns DEF TurnsInvariant
<1> QED BY <1>1, <1>2, <1>3, <1>4, BookingFrame

LEMMA KeepsWithBookings ==
    ASSUME AssistantInvariant, NEW a \in atWork,
           PrepareBooking(a) \/ ConfirmBooking(a) \/ DiscardBookingDraft(a)
    PROVE  AssistantInvariant'
<1> USE DEF AssistantInvariant
<1>1. UNCHANGED turnVars /\ target' = target /\ cached' = cached /\ acts' = acts /\ confirming' = confirming
  BY DEF PrepareBooking, ConfirmBooking, DiscardBookingDraft, cachedVars
<1>2. BookingInvariant'
  BY BookingSteps DEF TurnsInvariant
<1> QED BY <1>1, <1>2, TurnsFrame, CachedFrame

LEMMA KeepsWithTools ==
    ASSUME AssistantInvariant,
           \/ \E a \in atWork : \/ \E accept \in BOOLEAN : Prepare(a, accept)
                               \/ \E c \in ToolCalls : FetchDraft(a, c)
           \/ \E c \in ToolCalls : TakeDraft(c) \/ \E possible \in BOOLEAN : CarryOut(c, possible)
    PROVE  AssistantInvariant'
<1> USE DEF AssistantInvariant
<1>1. UNCHANGED turnVars /\ draft' = draft /\ booked' = booked /\ clear' = clear
  BY DEF Prepare, FetchDraft, TakeDraft, CarryOut, bookingDraftVars, turnVars
<1>2. CachedInvariant'
  BY CachedWithPrepare, CachedWithFetch, CachedWithTake, CachedWithCarryOut DEF TurnsInvariant
<1> QED BY <1>1, <1>2, TurnsFrame, BookingFrame

LEMMA KeepsWithOthers ==
    ASSUME AssistantInvariant, DraftExpires \/ TargetChanges
    PROVE  AssistantInvariant'
<1> USE DEF AssistantInvariant
<1>1. UNCHANGED turnVars /\ clear' = clear
  BY DEF DraftExpires, TargetChanges, turnVars
<1>2. CASE TargetChanges
  <2>1. /\ target' \in [open : BOOLEAN, provided : BOOLEAN]
        /\ cached' = cached /\ acts' = acts /\ confirming' = confirming
        /\ draft' = draft /\ booked' = booked
    BY <1>2 DEF TargetChanges, bookingDraftVars
  <2>2. CachedInvariant'
    BY <2>1 DEF CachedInvariant, ActedOnce, CallSound
  <2> QED BY <1>1, <2>1, <2>2, TurnsFrame, BookingFrame
<1>3. CASE UNCHANGED cachedVars /\ draft' = [draft EXCEPT !.late = TRUE] /\ booked' = booked
  <2>1. draft' \in DraftRows /\ draft'.number = draft.number /\ draft'.status = draft.status
    BY <1>3 DEF BookingInvariant, DraftRows
  <2>2. BookingInvariant'
    BY <1>1, <1>3, <2>1 DEF BookingInvariant, BookedAsAgreed
  <2> QED BY <1>1, <1>3, <2>2, TurnsFrame, CachedFrame DEF cachedVars
<1>4. CASE /\ UNCHANGED bookingDraftVars /\ target' = target /\ acts' = acts /\ confirming' = confirming
           /\ cached' = Emptied
  BY <1>1, <1>4, TurnsFrame, BookingFrame, CachedWithExpiry DEF bookingDraftVars
<1> QED BY <1>2, <1>3, <1>4 DEF DraftExpires, Emptied

LEMMA AssistantStep == AssistantInvariant /\ [AssistantNext]_assistantVars => AssistantInvariant'
<1> SUFFICES ASSUME AssistantInvariant, [AssistantNext]_assistantVars PROVE AssistantInvariant'
  OBVIOUS
<1>1. CASE UNCHANGED assistantVars
  <2>1. UNCHANGED turnVars /\ UNCHANGED bookingDraftVars /\ UNCHANGED cachedVars
    BY <1>1 DEF assistantVars, turnVars, bookingDraftVars, cachedVars
  <2> QED BY <2>1, TurnsFrame, BookingFrame, CachedFrame
          DEF AssistantInvariant, turnVars, bookingDraftVars, cachedVars
<1>2. CASE AssistantNext
  <2>1. ASSUME NEW a \in atWork,
               \/ PrepareCancel(a) \/ PrepareAddress(a) \/ PrepareInvitationResponse(a)
               \/ PreparePreferredResponse(a) \/ PrepareCheckOut(a) \/ PrepareComplaint(a)
        PROVE  AssistantInvariant'
    BY <2>1, PreparingTools, KeepsWithTools
  <2>2. ASSUME NEW c \in ToolCalls,
               \/ ConfirmCancel(c) \/ ConfirmAddress(c) \/ ConfirmInvitationResponse(c)
               \/ ConfirmPreferredResponse(c) \/ ConfirmCheckOut(c) \/ ConfirmComplaint(c)
        PROVE  AssistantInvariant'
    BY <2>2, ConfirmingTools, KeepsWithTools DEF AssistantInvariant
  <2>3. ASSUME NEW c \in ToolCalls, TakeDraft(c) \/ \E a \in atWork : FetchDraft(a, c)
        PROVE  AssistantInvariant'
    BY <2>3, KeepsWithTools
  <2> QED BY <1>2, <2>1, <2>2, <2>3, KeepsWithTurns, KeepsWithBookings, KeepsWithClose, KeepsWithDelete,
             KeepsWithOthers
          DEF AssistantNext
<1> QED BY <1>1, <1>2

\* At most one turn is running.
LEMMA OneIsRunning == (\A m, n \in Running : m = n) => Cardinality(Running) <= 1
<1> SUFFICES ASSUME \A m, n \in Running : m = n PROVE Cardinality(Running) <= 1
  OBVIOUS
<1>1. CASE Running = {}
  BY <1>1, FS_EmptySet
<1>2. CASE Running # {}
  <2>1. PICK x \in Running : Running = {x}
    BY <1>2
  <2>2. Cardinality({x}) = 1
    BY FS_Singleton
  <2> QED BY <2>1, <2>2
<1> QED BY <1>1, <1>2

\* For any messages, attempts, drafts, calls and lengths: a conversation has one turn at a
\* time, the answer kept is that of the last attempt, what the model is told is the end of the
\* conversation as it was answered, a quote is booked once and as agreed, and whatever is done
\* from a draft has used up a draft of its own, of another attempt.
THEOREM AssistantStaysSafe == AssistantSpec => []AssistantSafe
<1>1. AssistantInit => AssistantInvariant
  BY AssistantBegins
<1>2. AssistantSpec => []AssistantInvariant
  BY <1>1, AssistantStep, PTL DEF AssistantSpec
<1>3. AssistantInvariant => AssistantSafe
  BY OneIsRunning, HistoryIsSeen DEF AssistantInvariant, TurnsInvariant, OneTurn, TurnsKnown, AnsweredStays, BookingInvariant,
     CachedInvariant, AssistantSafe, AssistantTypeOK, AnswerOfLastAttempt
<1> QED BY <1>2, <1>3, PTL
=============================================================================
