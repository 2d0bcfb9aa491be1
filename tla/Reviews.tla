------------------------------- MODULE Reviews -------------------------------
(***************************************************************************)
(* Reviews of one worker's sessions, and the worker's average rating.      *)
(* apps/reviews/review_service.py and views.py.                            *)
(*                                                                         *)
(* Every change is one transaction that locks its own review (or the       *)
(* assignment), computes the average from what is committed, and stores it *)
(* in the worker's profile, which it does not lock.  Images are uploaded   *)
(* inside the transaction; the old ones are destroyed after it.            *)
(*                                                                         *)
(* The worker's own edit of the profile reads the row without a lock and   *)
(* saves every column, the average it has read among them                  *)
(* (apps/authentication/views.py and serializers.py).                      *)
(***************************************************************************)
EXTENDS Integers, FiniteSets, Functions

CONSTANTS
    Sessions,           \* accepted assignments of the worker
    Ratings,
    ReviewImages,       \* images that may ever be uploaded
    MaxImages           \* REVIEW_MAX_IMAGES

ASSUME ReviewsAssumption ==
    /\ Ratings \subseteq 1..5 /\ Ratings # {} /\ IsFiniteSet(Sessions)
    /\ MaxImages \in Nat /\ IsFiniteSet(ReviewImages)

VARIABLES
    worked,         \* sessions that are COMPLETED
    review,         \* committed review of each session, or NoReview
    average,        \* WorkerProfile.average_rating, in hundredths
    changes,        \* transactions under way
    profileEdits,   \* averages read by edits of the profile under way
    overlapped,     \* the stored average was computed beside another change, or put back
                    \* by an edit after it had changed
    stored,         \* images Cloudinary keeps
    doomed          \* images to be destroyed, their rows gone

reviewVars == <<worked, review, average, changes, profileEdits, overlapped, stored, doomed>>

NoReview == [rating |-> 0, visible |-> FALSE, editable |-> FALSE, images |-> {}]

Reviewed == {s \in Sessions : review[s] # NoReview}
Busy == {x.session : x \in changes}

-----------------------------------------------------------------------------
\* The visible reviews, by their ratings.
ShownRatings(reviews) ==
    [s \in {t \in Sessions : reviews[t].visible} |-> reviews[s].rating]

\* Decimal('0.01'), half up; 0.00 without any.
Mean(rating) ==
    LET n == Cardinality(DOMAIN rating)
    IN  IF n = 0 THEN 0 ELSE (200 * SumFunction(rating) + n) \div (2 * n)

AverageOf(reviews) == Mean(ShownRatings(reviews))

WorkerReviewSummary == AverageOf(review)

\* Plausible bug: the average is computed before the review is saved.
Change_OldAverage(s, new, dropped) ==
    /\ s \notin Busy
    /\ changes' = {[x EXCEPT !.alone = FALSE] : x \in changes} \cup
           {[session |-> s, new |-> new, average |-> AverageOf(review),
             dropped |-> dropped, alone |-> changes = {}]}

\* A transaction: it sees what is committed and its own row.
Change(s, new, dropped) ==
    /\ s \notin Busy
    /\ changes' = {[x EXCEPT !.alone = FALSE] : x \in changes} \cup
           {[session |-> s, new |-> new, average |-> AverageOf([review EXCEPT ![s] = new]),
             dropped |-> dropped, alone |-> changes = {}]}

-----------------------------------------------------------------------------
(* Handlers.                                                               *)

ValidAssignment(s) == s \in worked /\ s \notin Reviewed

FreshImages == ReviewImages \ (stored \cup doomed \cup UNION {r.images : r \in {review[s] : s \in Sessions}})

\* The serializers count the images of one request.
UploadAccepted(images) == images \subseteq FreshImages /\ Cardinality(images) <= MaxImages

CreateReview(s, rating, images) ==
    /\ ValidAssignment(s)
    /\ UploadAccepted(images)
    /\ stored' = stored \cup images
    /\ Change(s, [rating |-> rating, visible |-> TRUE, editable |-> TRUE, images |-> images], {})
    /\ UNCHANGED <<worked, review, average, profileEdits, overlapped, doomed>>

CanEdit(s) == review[s].editable

\* The images that stay and the new ones together.
FitsReview(s, images, dropped) ==
    Cardinality(review[s].images \ dropped) + Cardinality(images) <= MaxImages

UpdateReview(s, rating, images, dropped) ==
    /\ s \in Reviewed /\ CanEdit(s)
    /\ dropped \subseteq review[s].images
    /\ UploadAccepted(images) /\ FitsReview(s, images, dropped)
    /\ stored' = stored \cup images
    /\ Change(s, [review[s] EXCEPT !.rating = rating, !.images = (@ \ dropped) \cup images], dropped)
    /\ UNCHANGED <<worked, review, average, profileEdits, overlapped, doomed>>

SetReviewVisibility(s, visible) ==
    /\ s \in Reviewed
    /\ Change(s, [review[s] EXCEPT !.visible = visible], {})
    /\ UNCHANGED <<worked, review, average, profileEdits, overlapped, stored, doomed>>

\* The average that was computed is stored whatever was committed since.
Commit(x) ==
    /\ x \in changes
    /\ changes' = changes \ {x}
    /\ review' = [review EXCEPT ![x.session] = x.new]
    /\ average' = x.average
    /\ overlapped' = ~x.alone
    /\ doomed' = doomed \cup x.dropped
    /\ UNCHANGED <<worked, profileEdits, stored>>

\* Any exception: nothing is committed, and what was uploaded is destroyed, unless
\* Cloudinary fails at that too.
RollBack(x, cleaned) ==
    /\ x \in changes
    /\ changes' = changes \ {x}
    /\ stored' = IF cleaned THEN stored \ (x.new.images \ review[x.session].images) ELSE stored
    /\ UNCHANGED <<worked, review, average, profileEdits, overlapped, doomed>>

\* After the commit; never, if the process stops before.
DestroyImages ==
    /\ doomed # {}
    /\ stored' = stored \ doomed
    /\ doomed' = {}
    /\ UNCHANGED <<worked, review, average, changes, profileEdits, overlapped>>

CompleteSession(s) ==
    /\ s \notin worked
    /\ worked' = worked \cup {s}
    /\ UNCHANGED <<review, average, changes, profileEdits, overlapped, stored, doomed>>

\* Thirty days after the first submission; an edit under way then still counts as before.
EditDeadline(s) ==
    /\ s \in Reviewed \ Busy /\ review[s].editable
    /\ review' = [review EXCEPT ![s].editable = FALSE]
    /\ UNCHANGED <<worked, average, changes, profileEdits, overlapped, stored, doomed>>

-----------------------------------------------------------------------------
(* The worker's edit of the profile (PATCH).                               *)

ReadProfile ==
    /\ profileEdits' = profileEdits \cup {average}
    /\ UNCHANGED <<worked, review, average, changes, overlapped, stored, doomed>>

\* instance.save() without update_fields.  Another edit may have read the same; one that
\* fails saves nothing.
SaveProfile(read, last) ==
    /\ read \in profileEdits
    /\ profileEdits' = IF last THEN profileEdits \ {read} ELSE profileEdits
    /\ average' = read
    /\ overlapped' = (overlapped \/ read # average)
    /\ UNCHANGED <<worked, review, changes, stored, doomed>>

-----------------------------------------------------------------------------
ReviewsInit ==
    /\ worked = {} /\ review = [s \in Sessions |-> NoReview]
    /\ average = 0 /\ changes = {} /\ profileEdits = {} /\ overlapped = FALSE
    /\ stored = {} /\ doomed = {}

ReviewsNext ==
    \/ \E s \in Sessions : CompleteSession(s) \/ EditDeadline(s)
    \/ \E s \in Sessions, rating \in Ratings, images \in SUBSET ReviewImages :
           \/ CreateReview(s, rating, images)
           \/ \E dropped \in SUBSET ReviewImages : UpdateReview(s, rating, images, dropped)
    \/ \E s \in Sessions, visible \in BOOLEAN : SetReviewVisibility(s, visible)
    \/ \E x \in changes, cleaned \in BOOLEAN : Commit(x) \/ RollBack(x, cleaned)
    \/ DestroyImages
    \/ ReadProfile \/ \E read \in profileEdits, last \in BOOLEAN : SaveProfile(read, last)

ReviewsSpec == ReviewsInit /\ [][ReviewsNext]_reviewVars

-----------------------------------------------------------------------------
\* The shape of the state; an average, whatever is under way, is between 0.00 and 5.00.
ReviewsTypeOK ==
    /\ worked \subseteq Sessions
    /\ \A s \in Sessions :
           /\ review[s].rating \in Ratings \cup {0} /\ review[s].visible \in BOOLEAN
           /\ review[s].images \subseteq ReviewImages
    /\ average \in 0..500 /\ profileEdits \subseteq 0..500 /\ overlapped \in BOOLEAN
    /\ \A x \in changes : x.session \in Sessions /\ x.average \in 0..500
    /\ stored \subseteq ReviewImages /\ doomed \subseteq ReviewImages

\* The stored average is what the summary of the visible reviews says, except after
\* changes that overlapped or an edit of the profile that had read an earlier one, both
\* until the next change that runs alone.
AverageIsSummary ==
    ~overlapped /\ changes = {} => average = WorkerReviewSummary

\* No review ever shows an image that is gone, within its limit, and no two share
\* one, whatever is rolled back and whenever the old images are destroyed.
ImagesKept ==
    \A s \in Reviewed :
        /\ review[s].images \subseteq stored \ doomed
        /\ Cardinality(review[s].images) <= MaxImages
        /\ \A t \in Reviewed \ {s} : review[s].images \cap review[t].images = {}

\* A session is reviewed once and only after the work, a review is never lost, and
\* the customer's words stay as they are once the thirty days are over.
ReviewStays ==
    [][\A s \in Sessions :
           /\ s \in Reviewed => s \in Reviewed'
           /\ s \in Reviewed' => s \in worked
           /\ s \in Reviewed /\ ~review[s].editable =>
                  /\ review'[s].rating = review[s].rating
                  /\ review'[s].images = review[s].images]_reviewVars

\* The stored average follows the reviews, their images exist, and a review is neither
\* lost nor rewritten after its time, whatever transactions overlap or roll back and
\* whatever edits of the profile are saved between them.
ReviewsSafe ==
    /\ [](ReviewsTypeOK /\ AverageIsSummary /\ ImagesKept)
    /\ ReviewStays
=============================================================================
