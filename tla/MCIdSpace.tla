---------------------------- MODULE MCIdSpace ----------------------------
(***************************************************************************)
(* IdSpace with two calls, two transactions and a sequence that ends at    *)
(* three, so that calls on both sides of a transaction race, retry twice,  *)
(* give up, and run into the end of the sequence.  Two calls because every *)
(* invariant is proved for any number of them and a leads-to formula for   *)
(* each call leaves no room for more.                                      *)
(***************************************************************************)
EXTENDS IdSpace
=============================================================================
