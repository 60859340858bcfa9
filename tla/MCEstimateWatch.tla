--------------------------- MODULE MCEstimateWatch ---------------------------
(* Two builds and five steps of the compiler: a build that is replaced while   *)
(* it is estimated and comes back, with a half-written or a locked file        *)
(* between two polls.                                                          *)
EXTENDS EstimateWatch
=============================================================================
