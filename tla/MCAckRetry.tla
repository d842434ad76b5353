----------------------------- MODULE MCAckRetry -----------------------------
(* Instances of AckRetry for TLC; the .cfg files give the constants.       *)
EXTENDS AckRetry
=============================================================================
