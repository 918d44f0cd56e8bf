----------------------------- MODULE MCAccounts -----------------------------
(***************************************************************************)
(* Accounts on small instances.  A tick is half a day: sessions last       *)
(* three of them (30 days in the code) and are not renewed twice in a day. *)
(***************************************************************************)
EXTENDS Accounts, TLC

CONSTANTS ann, bob

Names == Permutations(Users)
=============================================================================
