---------------------------- MODULE MCBatchClient ---------------------------
(* BatchClient for TLC.                                                    *)
EXTENDS BatchClient
=============================================================================
