------------------------------- MODULE Catalogue -------------------------------
(***************************************************************************)
(* One service of the catalogue, edited by several admins: its row, its    *)
(* images and the files Cloudinary keeps.  apps/services/serializers.py.   *)
(*                                                                         *)
(* An edit loads the service with its images and validates, then works in  *)
(* one transaction which saves the whole row first, and so holds its lock  *)
(* until it ends.  Cloudinary is called inside the transaction and is not  *)
(* rolled back with it.  Where an edit has to find a new primary image it  *)
(* looks in the list it has loaded, not at the rows.                       *)
(***************************************************************************)
EXTENDS Integers, FiniteSets, FiniteSetsExt

CONSTANTS
    Edits,              \* PATCH requests; each names the icon it uploads
    FirstIcon,          \* the icon the service is created with
    NoIcon,
    MaxImageRows        \* bound on the images ever added

\* An uploaded icon is a new file.
ASSUME CatalogueAssumption ==
    /\ MaxImageRows \in Nat
    /\ FirstIcon \notin Edits /\ NoIcon \notin Edits

VARIABLES
    service,        \* committed: icon, image rows, primary images
    nextImage,      \* sequence of the image rows
    cloud,          \* files Cloudinary keeps: icons, and images by their row's id
    edit,           \* edits, with the rows their transaction would commit
    torn,           \* images destroyed by an edit that was rolled back
    overlapped      \* an edit was committed over another it had not seen

catalogueVars == <<service, nextImage, cloud, edit, torn, overlapped>>

NoService == [icon |-> NoIcon, images |-> {}, primaries |-> {}, created |-> FALSE]
Keep == [icon |-> "KEEP", drop |-> {}, add |-> 0, primary |-> 0]
NoEdit == [stage |-> "NONE", change |-> Keep, seen |-> NoService, work |-> NoService]

Working == {e \in Edits : edit[e].stage \in {"SAVED", "ICON_DONE"}}
Committed == {e \in Edits : edit[e].stage \in {"COMMITTED", "DONE"}}

-----------------------------------------------------------------------------
\* Create: the first image is the primary one.  A failing upload leaves no row.
CreateService(count, fails) ==
    /\ ~service.created
    /\ nextImage + count <= MaxImageRows
    /\ cloud' = [icons |-> cloud.icons \cup {FirstIcon},
                  images |-> cloud.images \cup (nextImage + 1)..(nextImage + count)]
    /\ nextImage' = nextImage + count
    /\ service' = IF fails THEN service
                  ELSE [icon |-> FirstIcon, created |-> TRUE,
                        images |-> (nextImage + 1)..nextImage',
                        primaries |-> IF count = 0 THEN {} ELSE {nextImage + 1}]
    /\ UNCHANGED <<edit, torn, overlapped>>

\* The images to be deleted and the primary one are those of this service.
ValidChange(c) ==
    /\ c.drop \subseteq service.images
    /\ c.primary # 0 => c.primary \in service.images \ c.drop

\* get_object, which prefetches the images, and is_valid.
LoadService(e, c) ==
    /\ service.created
    /\ edit[e].stage = "NONE"
    /\ ValidChange(c)
    /\ edit' = [edit EXCEPT ![e] = [NoEdit EXCEPT !.stage = "LOADED", !.change = c, !.seen = service]]
    /\ UNCHANGED <<service, nextImage, cloud, torn, overlapped>>

\* instance.save() writes every field of what was loaded; the image rows are not touched.
SaveService(e) ==
    /\ edit[e].stage = "LOADED" /\ Working = {}
    /\ edit' = [edit EXCEPT ![e].stage = "SAVED",
                            ![e].work = [service EXCEPT !.icon = edit[e].seen.icon]]
    /\ UNCHANGED <<service, nextImage, cloud, torn, overlapped>>

\* The old icon goes after the commit.
IconFiles(e) == cloud.icons \cup {e}

SaveIcon(e) ==
    /\ edit[e].stage = "SAVED"
    /\ LET kind == edit[e].change.icon
           new == CASE kind = "NEW"    -> e
                    [] kind = "REMOVE" -> NoIcon
                    [] kind = "KEEP"   -> edit[e].work.icon
       IN  /\ edit' = [edit EXCEPT ![e].stage = "ICON_DONE", ![e].work.icon = new]
           /\ cloud' = IF kind = "NEW" THEN [cloud EXCEPT !.icons = IconFiles(e)] ELSE cloud
    /\ UNCHANGED <<service, nextImage, torn, overlapped>>

RowsWithout(images, i) == images \ {i}

\* One image after the other; one that is gone is passed over.
DeleteServiceImage(e, i) ==
    /\ edit[e].stage = "ICON_DONE" /\ i \in edit[e].change.drop
    /\ cloud' = IF i \in edit[e].work.images THEN [cloud EXCEPT !.images = @ \ {i}] ELSE cloud
    /\ edit' = [edit EXCEPT ![e].change.drop = @ \ {i},
                            ![e].work.images = RowsWithout(@, i),
                            ![e].work.primaries = @ \ {i}]
    /\ UNCHANGED <<service, nextImage, torn, overlapped>>

SaveServiceImage(e) ==
    /\ edit[e].stage = "ICON_DONE" /\ edit[e].change.drop = {}
    /\ edit[e].change.add > 0
    /\ nextImage < MaxImageRows
    /\ nextImage' = nextImage + 1
    /\ cloud' = [cloud EXCEPT !.images = @ \cup {nextImage'}]
    /\ edit' = [edit EXCEPT ![e].change.add = @ - 1, ![e].work.images = @ \cup {nextImage'}]
    /\ UNCHANGED <<service, torn, overlapped>>

\* images.first() of the prefetched list, which has the primary image first.
FirstLoaded(seen) == Min(IF seen.primaries # {} THEN seen.primaries ELSE seen.images)

\* No image was chosen and none is the primary one; nothing is done if none was loaded.
TakesFirst(e) ==
    /\ edit[e].change.primary = 0 /\ edit[e].work.primaries = {}
    /\ edit[e].seen.images # {}

\* Plausible bug: no image takes the place of a missing primary one.
PrimariesOf_NoNext(e) ==
    IF edit[e].change.primary # 0 THEN {edit[e].change.primary} \cap edit[e].work.images
    ELSE edit[e].work.primaries

\* The chosen image, if it is still there; else the first that was loaded, if none is.
PrimariesOf(e) ==
    IF edit[e].change.primary # 0 THEN {edit[e].change.primary} \cap edit[e].work.images
    ELSE IF TakesFirst(e) THEN {FirstLoaded(edit[e].seen)}
    ELSE edit[e].work.primaries

\* save(update_fields=...) raises for an image that is gone, also if this edit deleted it.
FirstIsThere(e) == TakesFirst(e) => FirstLoaded(edit[e].seen) \in edit[e].work.images

CommitEdit(e) ==
    /\ edit[e].stage = "ICON_DONE" /\ edit[e].change.drop = {} /\ edit[e].change.add = 0
    /\ FirstIsThere(e)
    /\ service' = [edit[e].work EXCEPT !.primaries = PrimariesOf(e)]
    /\ overlapped' = (overlapped \/ service # edit[e].seen)
    /\ edit' = [edit EXCEPT ![e].stage = IF edit[e].change.icon = "KEEP" THEN "DONE" ELSE "COMMITTED"]
    /\ UNCHANGED <<nextImage, cloud, torn>>

\* An upload or a deletion fails at Cloudinary, the first image is not there, or the
\* process stops.
RollBackEdit(e) ==
    /\ e \in Working
    /\ edit' = [edit EXCEPT ![e].stage = "FAILED"]
    /\ torn' = torn \cup (service.images \ cloud.images)
    /\ UNCHANGED <<service, nextImage, cloud, overlapped>>

\* on_commit; a failure is only logged.
DeleteCloudinaryUrl(e, fails) ==
    /\ edit[e].stage = "COMMITTED"
    /\ edit' = [edit EXCEPT ![e].stage = "DONE"]
    /\ cloud' = IF fails THEN cloud ELSE [cloud EXCEPT !.icons = @ \ {edit[e].seen.icon}]
    /\ UNCHANGED <<service, nextImage, torn, overlapped>>

Changes ==
    [icon : {"KEEP", "NEW", "REMOVE"}, drop : SUBSET service.images,
     add : 0..1, primary : service.images \cup {0}]

CatalogueInit ==
    /\ service = NoService /\ nextImage = 0 /\ cloud = [icons |-> {}, images |-> {}]
    /\ edit = [e \in Edits |-> NoEdit]
    /\ torn = {} /\ overlapped = FALSE

CatalogueNext ==
    \/ \E count \in 0..2, fails \in BOOLEAN : CreateService(count, fails)
    \/ \E e \in Edits :
        \/ \E c \in Changes : LoadService(e, c)
        \/ SaveService(e) \/ SaveIcon(e)
        \/ \E i \in edit[e].change.drop : DeleteServiceImage(e, i)
        \/ SaveServiceImage(e) \/ CommitEdit(e) \/ RollBackEdit(e)
        \/ \E fails \in BOOLEAN : DeleteCloudinaryUrl(e, fails)

CatalogueSpec == CatalogueInit /\ [][CatalogueNext]_catalogueVars

-----------------------------------------------------------------------------
\* At most one image is the primary one, and it is an image of the service, however
\* edits interleave: the second waits for the row the first has saved.
OnePrimary ==
    /\ Cardinality(service.primaries) <= 1
    /\ service.primaries \subseteq service.images

\* A service has a primary image from its creation on if it got images then, and in any
\* case once an edit that found images in it is committed, whatever is deleted since; the
\* first images added to an empty service have none.  Unless an edit chose an image that
\* another deleted after the choice was validated.
PrimaryKept ==
    ~overlapped =>
        /\ Committed = {} /\ service.images # {} => service.primaries # {}
        /\ \A e \in Committed : edit[e].seen.images # {} => service.primaries # {}

\* The icon shown is a file Cloudinary keeps, whatever fails; only an edit that writes
\* back the icon it had loaded before another replaced it can show a destroyed one.
IconExists == ~overlapped => service.icon \in cloud.icons \cup {NoIcon}

\* An image row without its file is left only by an edit that was rolled back after it
\* had destroyed the file, or belongs to an edit still at work.
ImagesExist == Working = {} => service.images \subseteq cloud.images \cup torn

\* A service has at most one primary image, keeps one once it is given, and its icon and
\* images exist as files, unless edits crossed or were rolled back after they had
\* destroyed one.
CatalogueSafe ==
    /\ OnePrimary
    /\ PrimaryKept
    /\ IconExists
    /\ ImagesExist
=============================================================================
