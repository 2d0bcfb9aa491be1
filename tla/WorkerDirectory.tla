-------------------------- MODULE WorkerDirectory --------------------------
(***************************************************************************)
(* Where workers work and whose favourites they are: the working areas of  *)
(* apps/worker/serializers.py, saved as a whole by the worker, from two    *)
(* screens at once if he has them open; and the favourites of              *)
(* favorite_worker_service.py, counted by month.                           *)
(*                                                                         *)
(* A save locks nothing before it deletes: each of its statements sees     *)
(* what was committed when it began, and waits for the rows that another   *)
(* save has deleted or added.                                              *)
(***************************************************************************)
EXTENDS Integers, FiniteSets

CONSTANTS
    Crew,           \* workers
    Clients,        \* customers
    Wards,          \* areas
    ProvinceOf,     \* the province of each
    AreaSaves,      \* requests that save the areas of a worker
    LastMonth       \* bound on the months

Months == 1..LastMonth

ASSUME DirectoryAssumption ==
    /\ \A x \in AreaSaves : x[1] \in Crew
    /\ LastMonth \in Nat \ {0}

VARIABLES
    openWards,      \* areas in use
    working,        \* committed areas of each worker
    saving,         \* each save, in its transaction
    asked,          \* of each worker: what the last save asked for, and those committed while it ran
    onDuty,         \* workers whose profile is active
    served,         \* who has an accepted assignment with whom
    adding,         \* favourites inserted but not committed, with their month; 0: none
    favoured,       \* favourites, with the month they were made in; 0: not one
    counted,        \* monthly entries
    month

directoryVars ==
    <<openWards, working, saving, asked, onDuty, served, adding, favoured, counted, month>>

NoSave == [step |-> "idle", want |-> {}, seen |-> {}, dropped |-> {}, found |-> {}, added |-> {}, met |-> {}]

-----------------------------------------------------------------------------
(* Working areas.                                                          *)

OneProvince(wards) == Cardinality({ProvinceOf[a] : a \in wards}) = 1

\* A save is of one worker: its name is the pair of the two.
WorkerOf(x) == x[1]
Saving(w) == {x \in AreaSaves : WorkerOf(x) = w /\ saving[x].step # "idle"}
OtherRows(x) == Saving(WorkerOf(x)) \ {x}

FavouritesStay == UNCHANGED <<onDuty, served, adding, favoured, counted, month>>

\* Validated: areas in use, none twice, all of one province.
RequestAreas(x, want) ==
    /\ saving[x] = NoSave
    /\ want # {} /\ want \subseteq openWards /\ OneProvince(want)
    /\ saving' = [saving EXCEPT ![x] = [NoSave EXCEPT !.step = "checked", !.want = want]]
    /\ FavouritesStay /\ UNCHANGED <<openWards, working, asked>>

\* The DELETE looks for the other rows that are committed when it begins ...
BeginDelete(x) ==
    /\ saving[x].step = "checked"
    /\ saving' = [saving EXCEPT ![x].step = "deleting",
                                ![x].seen = working[WorkerOf(x)] \ saving[x].want]
    /\ FavouritesStay /\ UNCHANGED <<openWards, working, asked>>

\* Plausible bug: what was there before stays.
DropOthers_None(x) ==
    /\ saving[x].step = "deleting"
    /\ saving' = [saving EXCEPT ![x].step = "dropped"]
    /\ FavouritesStay /\ UNCHANGED <<openWards, working, asked>>

\* ... waits for those that another save has deleted, and deletes what is left of them;
\* rows committed in between it does not see.
DropOthers(x) ==
    /\ saving[x].step = "deleting"
    /\ \A y \in OtherRows(x) : saving[x].seen \cap saving[y].dropped = {}
    /\ saving' = [saving EXCEPT ![x].step = "dropped",
                                ![x].dropped = saving[x].seen \cap working[WorkerOf(x)]]
    /\ FavouritesStay /\ UNCHANGED <<openWards, working, asked>>

\* It sees what is committed, deleted by another save or not.
ReadExisting(x) ==
    /\ saving[x].step = "dropped"
    /\ saving' = [saving EXCEPT ![x].step = "read",
                                ![x].found = working[WorkerOf(x)] \cap saving[x].want]
    /\ FavouritesStay /\ UNCHANGED <<openWards, working, asked>>

\* A worker has an area once: what another save has committed since makes this one fail.
CreateMissing(x) ==
    LET new == saving[x].want \ saving[x].found IN
    /\ saving[x].step = "read"
    /\ \A y \in OtherRows(x) : new \cap (saving[y].added \cup saving[y].dropped) = {}
    /\ saving' = [saving EXCEPT ![x] = IF new \cap working[WorkerOf(x)] = {}
                                       THEN [@ EXCEPT !.step = "created", !.added = new] ELSE NoSave]
    /\ FavouritesStay /\ UNCHANGED <<openWards, working, asked>>

CommitAreas(x) ==
    LET w == WorkerOf(x) IN
    /\ saving[x].step = "created"
    /\ working' = [working EXCEPT ![w] = (@ \ saving[x].dropped) \cup saving[x].added]
    /\ asked' = [asked EXCEPT ![w] = {saving[x].want} \cup saving[x].met]
    /\ saving' = [y \in AreaSaves |->
                    IF y = x THEN NoSave
                    ELSE IF y \in OtherRows(x) /\ saving[y].step # "checked"
                    THEN [saving[y] EXCEPT !.met = @ \cup {saving[x].want}] ELSE saving[y]]
    /\ FavouritesStay /\ UNCHANGED openWards

\* Its process dies, or the database ends it because saves wait for each other.
RollBackAreas(x) ==
    /\ saving[x].step # "idle"
    /\ saving' = [saving EXCEPT ![x] = NoSave]
    /\ FavouritesStay /\ UNCHANGED <<openWards, working, asked>>

\* seed_areas takes an area out of use; workers keep it.
CloseWard(a) ==
    /\ a \in openWards /\ openWards' = openWards \ {a}
    /\ FavouritesStay /\ UNCHANGED <<working, saving, asked>>

-----------------------------------------------------------------------------
(* Favourites.                                                             *)

AreasStay == UNCHANGED <<openWards, working, saving, asked>>

IsActiveWorker(w) == w \in onDuty

\* add_favorite_worker: of somebody who was assigned to the customer.  A second request of
\* the same pair waits for the first one; one that finds the row changes nothing.
InsertFavorite(c, w) ==
    /\ IsActiveWorker(w) /\ <<c, w>> \in served
    /\ favoured[<<c, w>>] = 0 /\ adding[<<c, w>>] = 0
    /\ adding' = [adding EXCEPT ![<<c, w>>] = month]
    /\ AreasStay /\ UNCHANGED <<onDuty, served, favoured, counted, month>>

\* The entry is of the month in which the row was inserted.
CommitFavorite(c, w) ==
    LET made == adding[<<c, w>>] IN
    /\ made # 0
    /\ adding' = [adding EXCEPT ![<<c, w>>] = 0]
    /\ favoured' = [favoured EXCEPT ![<<c, w>>] = made]
    /\ counted' = counted \cup {<<c, w, made>>}
    /\ AreasStay /\ UNCHANGED <<onDuty, served, month>>

RollBackFavorite(c, w) ==
    /\ adding[<<c, w>>] # 0
    /\ adding' = [adding EXCEPT ![<<c, w>>] = 0]
    /\ AreasStay /\ UNCHANGED <<onDuty, served, favoured, counted, month>>

\* A row that is not committed is not seen; the entry stays.
RemoveFavorite(c, w) ==
    /\ favoured' = [favoured EXCEPT ![<<c, w>>] = 0]
    /\ AreasStay /\ UNCHANGED <<onDuty, served, adding, counted, month>>

\* An assignment of the worker to the customer begins, or is given up.
ServedChanges(c, w) ==
    /\ served' = IF <<c, w>> \in served THEN served \ {<<c, w>>} ELSE served \cup {<<c, w>>}
    /\ AreasStay /\ UNCHANGED <<onDuty, adding, favoured, counted, month>>

\* An admin suspends the profile, or takes it back.
StandingChanges(w) ==
    /\ onDuty' = IF w \in onDuty THEN onDuty \ {w} ELSE onDuty \cup {w}
    /\ AreasStay /\ UNCHANGED <<served, adding, favoured, counted, month>>

MonthPasses ==
    /\ month < LastMonth /\ month' = month + 1
    /\ AreasStay /\ UNCHANGED <<onDuty, served, adding, favoured, counted>>

-----------------------------------------------------------------------------
DirectoryInit ==
    /\ openWards = Wards /\ working = [w \in Crew |-> {}] /\ saving = [x \in AreaSaves |-> NoSave]
    /\ asked = [w \in Crew |-> {}] /\ onDuty = Crew /\ served = {}
    /\ adding = [p \in Clients \X Crew |-> 0] /\ favoured = [p \in Clients \X Crew |-> 0]
    /\ counted = {} /\ month = 1

DirectoryNext ==
    \/ \E x \in AreaSaves :
          \/ \E want \in SUBSET Wards : RequestAreas(x, want)
          \/ BeginDelete(x) \/ DropOthers(x) \/ ReadExisting(x) \/ CreateMissing(x)
          \/ CommitAreas(x) \/ RollBackAreas(x)
    \/ \E a \in Wards : CloseWard(a)
    \/ \E c \in Clients, w \in Crew :
          \/ InsertFavorite(c, w) \/ CommitFavorite(c, w) \/ RollBackFavorite(c, w)
          \/ RemoveFavorite(c, w) \/ ServedChanges(c, w)
    \/ \E w \in Crew : StandingChanges(w)
    \/ MonthPasses

-----------------------------------------------------------------------------
\* However the saves of a worker's areas overlap, nothing stays that neither the last one
\* nor any committed while it ran has asked for, and everything stays that all of these have
\* asked for: what was there before is gone, and no save undoes what it was told to keep.
\* So one that meets no other leaves exactly its areas, of one province.  (Saves that meet
\* and ask for areas of two provinces may leave both, or none at all.)
AreasAsAsked ==
    \A w \in Crew : asked[w] # {} =>
        /\ working[w] \subseteq UNION asked[w]
        /\ \A a \in Wards : (\A want \in asked[w] : a \in want) => a \in working[w]
        /\ \A want \in asked[w] : asked[w] = {want} => OneProvince(working[w])

\* Who is a favourite is counted in the month he was made one, although the month may end
\* before the request does, and the customer may take him back and make him one again.
CountedWhenMade ==
    \A p \in Clients \X Crew : favoured[p] # 0 => <<p[1], p[2], favoured[p]>> \in counted

\* Where a worker works is what he has asked for, and favourites are in their months.
DirectorySafe ==
    /\ AreasAsAsked
    /\ CountedWhenMade
=============================================================================
