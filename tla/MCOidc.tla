-------------------------------- MODULE MCOidc --------------------------------
EXTENDS Oidc, TLC

\* Requests and codes are interchangeable.
Symmetry == Permutations(Req) \cup Permutations(Code)
=============================================================================
