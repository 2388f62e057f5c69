--------------------------- MODULE MCProcessSampler ---------------------------
(* Instances of ProcessSampler for TLC.                                    *)
EXTENDS ProcessSampler
=============================================================================
