------------------------------ MODULE Profiles -------------------------------
(***************************************************************************)
(* The profile of one worker: the worker edits and submits it, admins      *)
(* approve, reject, suspend or withdraw it, and each change of its status  *)
(* is announced.  apps/authentication/views.py, serializers.py,            *)
(* worker_profile.py and apps/notifications/signals.py.                    *)
(*                                                                         *)
(* A submission runs under the lock of the profile.  An edit reads the     *)
(* profile without a lock and saves every column.  A review checks the     *)
(* status it has read, then locks the profile and does not check again.    *)
(***************************************************************************)
EXTENDS Integers, FiniteSets

CONSTANT Clerks     \* requests in flight, of the worker or of admins

VARIABLES
    profile,    \* status, whether there is an approver, a reason, marked fields
    complete,   \* get_worker_profile_completeness: nothing is missing
    clerk,      \* for each request, its next step and what it has read
    submitted,  \* a complete profile was submitted once
    told,       \* the worker's last notice about the status
    asked,      \* the admins know of the profile that waits
    reverted    \* an edit was saved over a status it had not read

profileVars == <<profile, complete, clerk, submitted, told, asked, reverted>>

Statuses == {"DRAFT", "PENDING", "ACTIVE", "REJECTED", "SUSPENDED"}
ByAdmin == {"DRAFT", "ACTIVE", "REJECTED", "SUSPENDED"}

Row(status, approved, reason, fields) ==
    [status |-> status, approved |-> approved, reason |-> reason, fields |-> fields]

NoClerk == [op |-> "idle", row |-> Row("DRAFT", FALSE, FALSE, FALSE), old |-> "DRAFT"]

-----------------------------------------------------------------------------
(* Notices, sent by the signals around a save when the status it found     *)
(* before differs from the one it writes.                                  *)

Announce(old, new) ==
    /\ told' = IF old # new /\ new \in {"ACTIVE", "REJECTED"} THEN new ELSE told
    /\ asked' = (new = "PENDING" /\ (asked \/ old # new))

-----------------------------------------------------------------------------
(* The worker.                                                             *)

StartEdit(x) ==
    /\ clerk[x].op = "idle"
    /\ clerk' = [clerk EXCEPT ![x] = [op |-> "edit", row |-> profile, old |-> "DRAFT"]]
    /\ UNCHANGED <<profile, complete, submitted, told, asked, reverted>>

\* The signal reads the status once more before the save.
BeforeSave(x) ==
    /\ clerk[x].op = "edit"
    /\ clerk' = [clerk EXCEPT ![x].op = "save", ![x].old = profile.status]
    /\ UNCHANGED <<profile, complete, submitted, told, asked, reverted>>

\* Editing a rejected profile makes it a draft again.
Edited(row) == IF row.status = "REJECTED" THEN Row("DRAFT", row.approved, FALSE, FALSE) ELSE row

\* Fields and documents may be filled in or emptied.
SaveEdit(x, full) ==
    /\ clerk[x].op = "save"
    /\ profile' = Edited(clerk[x].row)
    /\ complete' = full
    /\ Announce(clerk[x].old, profile'.status)
    /\ reverted' = (reverted \/ profile.status # clerk[x].row.status)
    /\ clerk' = [clerk EXCEPT ![x] = NoClerk] /\ UNCHANGED submitted

\* A service or an area of the profile is taken out of use.
BecomeIncomplete ==
    /\ complete /\ complete' = FALSE
    /\ UNCHANGED <<profile, clerk, submitted, told, asked, reverted>>

\* Status and reason are saved; the marked fields stay.
Submit ==
    /\ profile.status = "DRAFT" /\ complete
    /\ profile' = [profile EXCEPT !.status = "PENDING", !.reason = FALSE]
    /\ submitted' = TRUE /\ Announce("DRAFT", "PENDING")
    /\ UNCHANGED <<complete, clerk, reverted>>

-----------------------------------------------------------------------------
(* Admins.                                                                 *)

\* Mutant: any profile that is not active may be activated.
MayBecome_Any(current, target) ==
    \/ target = "ACTIVE" /\ current # "ACTIVE"
    \/ target = "REJECTED" /\ current = "PENDING"
    \/ target \in {"SUSPENDED", "DRAFT"} /\ current = "ACTIVE"

MayBecome(current, target) ==
    \/ target = "ACTIVE" /\ current \in {"PENDING", "SUSPENDED"}
    \/ target = "REJECTED" /\ current = "PENDING"
    \/ target \in {"SUSPENDED", "DRAFT"} /\ current = "ACTIVE"

\* A rejection names fields, a withdrawal may.
Decided(target, fields) ==
    Row(target, target = "ACTIVE", target # "ACTIVE", target \in {"REJECTED", "DRAFT"} /\ fields)

StartReview(x, target, fields) ==
    /\ clerk[x].op = "idle" /\ MayBecome(profile.status, target)
    /\ target = "REJECTED" => fields
    /\ target \in {"ACTIVE", "SUSPENDED"} => ~fields
    /\ clerk' = [clerk EXCEPT ![x] = [op |-> "review", old |-> "DRAFT",
                                      row |-> Decided(target, fields)]]
    /\ UNCHANGED <<profile, complete, submitted, told, asked, reverted>>

Review(x) ==
    /\ clerk[x].op = "review"
    /\ profile' = clerk[x].row /\ Announce(profile.status, clerk[x].row.status)
    /\ clerk' = [clerk EXCEPT ![x] = NoClerk] /\ UNCHANGED <<complete, submitted, reverted>>

-----------------------------------------------------------------------------
\* A registration creates an empty draft.
ProfilesInit ==
    /\ profile = Row("DRAFT", FALSE, FALSE, FALSE) /\ complete = FALSE
    /\ clerk = [x \in Clerks |-> NoClerk]
    /\ submitted = FALSE /\ told = "NONE" /\ asked = FALSE /\ reverted = FALSE

ProfilesNext ==
    \/ Submit \/ BecomeIncomplete
    \/ \E x \in Clerks :
           \/ StartEdit(x) \/ BeforeSave(x) \/ Review(x)
           \/ \E full \in BOOLEAN : SaveEdit(x, full)
           \/ \E target \in ByAdmin, fields \in BOOLEAN : StartReview(x, target, fields)

ProfilesSpec == ProfilesInit /\ [][ProfilesNext]_profileVars

-----------------------------------------------------------------------------
ProfilesTypeOK ==
    /\ profile \in [status : Statuses, approved : BOOLEAN, reason : BOOLEAN, fields : BOOLEAN]
    /\ complete \in BOOLEAN /\ submitted \in BOOLEAN /\ asked \in BOOLEAN /\ reverted \in BOOLEAN
    /\ told \in {"NONE", "ACTIVE", "REJECTED"}
    /\ \A x \in Clerks : clerk[x].op \in {"idle", "edit", "save", "review"}

\* A profile has an approver exactly while it is active, also after edits that were
\* saved over a review and reviews that overtook one another.
ApprovedIffActive == profile.approved <=> profile.status = "ACTIVE"

\* A rejection keeps its reason and its fields until the worker edits; a profile that
\* waits or is active has no reason left over.
ReasonFits ==
    /\ profile.status = "REJECTED" => profile.reason /\ profile.fields
    /\ profile.status \in {"PENDING", "ACTIVE"} => ~profile.reason

\* No profile becomes active, or is turned down, that was not submitted complete at
\* least once, although a review does not look at the status again under the lock.
ReviewedWasSubmitted == profile.status # "DRAFT" => submitted

\* The worker's last notice is the decision in force, and a profile that waits has
\* been announced to the admins: unless an edit put back a status it had read before.
Informed ==
    reverted \/ /\ profile.status \in {"ACTIVE", "REJECTED"} => told = profile.status
                /\ profile.status = "PENDING" => asked

\* Only what was submitted is reviewed, and the approver, the reason and the notices fit
\* the status, although edits and reviews write from what they read before.
ProfilesSafe ==
    /\ ProfilesTypeOK
    /\ ApprovedIffActive
    /\ ReasonFits
    /\ ReviewedWasSubmitted
    /\ Informed
=============================================================================
