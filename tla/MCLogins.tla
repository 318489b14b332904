------------------------------- MODULE MCLogins -------------------------------
(***************************************************************************)
(* Logins through other providers, and those that a group of applications  *)
(* shares, side by side: a behaviour is one of the module that part names, *)
(* with the other at rest.  Init, Next and Spec without a prefix are those *)
(* of SessionGroups.                                                       *)
(***************************************************************************)
EXTENDS SessionGroups, TLC

CONSTANTS User, Provider, MaxChanges, MaxErrors

VARIABLES
  part,
  users, social, merge, req, changes, drawn, links, overlap, undone, wrong

S == INSTANCE SocialLogin

ASSUME LoginsAssumption == SessionGroupsAssumption /\ S!SocialLoginAssumption

\* The two share served and errors.
socialVars == <<users, social, merge, req, changes, drawn, links, overlap, undone, wrong>>
groupVars ==
  <<group, members, sessionState, tokens, work, queue, scan, made, edits, restarts,
    history>>

Parts == {"social", "groups"}
\* Social logins that are not run are nothing but None.
AllInit ==
  /\ part \in Parts /\ Init
  /\ IF part = "social" THEN S!Init ELSE
       users = None /\ social = None /\ merge = None /\ req = None /\
       changes = None /\ drawn = None /\ links = None /\ overlap = None /\
       undone = None /\ wrong = None

SocialLogin == part = "social" /\ S!Next /\ UNCHANGED <<part, groupVars>>
SessionGroups == part = "groups" /\ Next /\ UNCHANGED <<part, socialVars>>
AllNext == SocialLogin \/ SessionGroups

AllSpec == AllInit /\ [][AllNext]_<<part, socialVars, vars>>

Symmetry == Permutations(Req) \cup Permutations(User)

\* The owner of an account, and nobody else, keeps a way in, but for the overlaps
\* named there (social/service.go:195, 640, 1020).
OwnersIn == part = "social" => S!OwnersIn
=============================================================================
