------------------------- MODULE MCBookingLifecycle -------------------------
(***************************************************************************)
(* Instances of BookingLifecycle for TLC.                                  *)
(***************************************************************************)
EXTENDS BookingLifecycle, TLC

\* Workers are interchangeable; sessions too.  For safety runs only.
Symmetry == Permutations(Workers) \cup Permutations(Sessions)
=============================================================================
