----------------------------- MODULE MCAccounts -----------------------------
(***************************************************************************)
(* Instances of Accounts for TLC: tokens and requests are interchangeable, *)
(* and so are passwords.                                                    *)
(***************************************************************************)
EXTENDS Accounts, TLC

Symmetry == Permutations(Token) \cup Permutations(Req) \cup Permutations(Password)
=============================================================================
