------------------------------- MODULE MCAccess -------------------------------
(***************************************************************************)
(* Who has access to what, and the watch that is kept on logins, side by   *)
(* side: a behaviour is one of the module that part names, with the others *)
(* at rest.                                                                *)
(* Init, Next and Spec without a prefix are those of Oidc.                 *)
(***************************************************************************)
EXTENDS Oidc, Sequences, TLC

CONSTANTS
  Role, System, Perm, Rule, Allow, Matching,
  User, Address, Agent, CountryOf, Checks, Notify, SessionWindow, Limit,
  BruteForceThreshold, HoursPerTick, MaxTime

VARIABLES
  part,
  roles, perms, assigned, cache, rows, ruleCache, cacheReq, raced, roleless,
  now, logged, channel, failures, logins, mailing, emitted, mails

C == INSTANCE AccessCaches WITH req <- cacheReq
N == INSTANCE Anomaly WITH MaxRequests <- MaxRequests - 1, req <- logins, rows <- logged

ASSUME AccessAssumption ==
  OidcAssumption /\ C!AccessCachesAssumption /\ N!AnomalyAssumption

\* All of them use served and errors.
oidcVars ==
  <<client, codes, signedIn, sessions, made, granted, handed, blacklist, key, keyMu, req,
    history>>
cacheVars ==
  <<roles, perms, assigned, cache, rows, ruleCache, cacheReq, raced, roleless>>
watchVars == <<now, logged, channel, failures, logins, mailing, emitted, mails>>

Parts == {"oidc", "caches", "watch"}
\* A watch that is not run is nothing but None.
AllInit ==
  /\ part \in Parts
  /\ Init /\ C!Init
  /\ IF part = "watch" THEN N!Init ELSE
       now = None /\ logged = None /\ channel = None /\ failures = None /\
       logins = None /\ mailing = None /\ emitted = None /\ mails = None

Oidc == part = "oidc" /\ Next /\ UNCHANGED <<part, cacheVars, watchVars>>
AccessCaches == part = "caches" /\ C!Next /\ UNCHANGED <<part, oidcVars, watchVars>>
Anomaly == part = "watch" /\ N!Next /\ UNCHANGED <<part, oidcVars, cacheVars>>
AllNext == Oidc \/ AccessCaches \/ Anomaly

AllSpec == AllInit /\ [][AllNext]_<<part, vars, cacheVars, watchVars>>

Symmetry == Permutations(Req) \cup Permutations(User)

\* Every address is in a country of its own.
Country == [a \in Address |-> a]

\* Cached permissions and rules decide as the rows do (rbac/service.go:77,
\* geoip/ip_rules.go:203), and a failed change of role leaves the old one.
AccessCurrent == part = "caches" => C!AccessCurrent

\* What is new to a user is reported and what is known is not (log/anomaly.go:307).
NoveltyReported == part = "watch" => N!NoveltyReported
=============================================================================
