--------------------------- MODULE MCNetworkSampler ---------------------------
(* Instances of NetworkSampler for TLC.                                    *)
EXTENDS NetworkSampler
=============================================================================
