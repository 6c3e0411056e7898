----------------------------- MODULE MCTransfer -----------------------------
(* A file of three chunks: a first one, one in the middle, and a last one.  *)
EXTENDS Transfer
=============================================================================
