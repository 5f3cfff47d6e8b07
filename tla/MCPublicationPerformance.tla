---------------------- MODULE MCPublicationPerformance ----------------------
(* Two publications, one of them written back; hourly runs and the daily   *)
(* run.                                                                     *)
EXTENDS PublicationPerformance

=============================================================================
