----------------------------- MODULE MCRateLimit -----------------------------
(***************************************************************************)
(* RateLimit with interchangeable requests and addresses.                  *)
(***************************************************************************)
EXTENDS RateLimit, TLC

MCSymmetry == Permutations(Requests) \cup Permutations(Addresses)
=============================================================================
