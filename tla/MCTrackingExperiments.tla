----------------------- MODULE MCTrackingExperiments -----------------------
(* TrackingExperiments; the workers are alike. *)
EXTENDS TrackingExperiments, TLC

WorkersAlike == Permutations(Workers)
=============================================================================
