----------------------------- MODULE SessionGroups -----------------------------
(***************************************************************************)
(* One group of applications (internal/sessiongroup, internal/sso) and one *)
(* person with a session or more in each: signing in to a peer with an SSO *)
(* token, and the end of the person's sessions in the peers when a session *)
(* ends, by a logout, by the console or because it expired.                *)
(*                                                                         *)
(* A worker is a request, the goroutine a logout leaves behind, the        *)
(* listener for expired keys or the scanner.  It takes one step for every  *)
(* application it revokes the sessions of; Sessions has the commands such  *)
(* a step consists of.                                                     *)
(***************************************************************************)
EXTENDS Naturals, FiniteSets, Sequences

CONSTANTS
  App,          \* applications that may be in the group
  Account,      \* those the person has an account in
  Req,          \* slots for requests being served at the same time
  Token,        \* SSO tokens, each issued once
  Detectors,    \* of expired keys: the scanner, and the listener when Redis notifies
  MaxSessions,  \* bound: sessions created
  MaxRequests,  \* bound: requests served
  MaxEvents,    \* bound: changes of the group, restarts and commands that fail
  None          \* nothing

Listener == "listener"
Scanner == "scanner"

\* What the code lets the constants be.
SessionGroupsAssumption ==
  /\ Account \subseteq App /\ None \notin App \cup Token
  /\ IsFiniteSet(Req) /\ Detectors \subseteq {Listener, Scanner}
  /\ Req \cap {Listener, Scanner} = {}
  /\ MaxSessions \in Nat /\ MaxRequests \in Nat /\ MaxEvents \in Nat

Worker == Req \cup Detectors
Session == 1..MaxSessions

VARIABLES
  group,      \* the row of session_groups
  members,    \* the rows of session_group_apps
  app,        \* the application of every session
  live,       \* sessions whose hash exists
  meta,       \* sessions whose session_meta key exists
  refreshed,  \* sessions that were refreshed
  tokens,     \* the sso:token keys
  work,       \* the state of every worker
  queue,      \* expired keys announced to the listener
  seen,       \* keys the scanner was given and has not looked at
  found,      \* keys the scanner found to be expired
  made, served, edits, restarts, errors,  \* sessions, requests, ... so far
  honoured,   \* history: sessions each SSO token has led to
  fate,       \* history: how each session ended
  due,        \* history: sessions that ought to end
  heeded      \* history: sessions whose announcement reached the peers

history == <<honoured, fate, due, heeded>>
bounds == <<made, served, edits, restarts, errors>>
sessionState == <<app, live, meta, refreshed>>
scan == <<seen, found>>
vars == <<group, members, sessionState, tokens, work, queue, scan, bounds, history>>

Steps == {"idle", "delete", "validate", "create", "should", "group", "peers", "drop"}
Idle == [pc |-> "idle", app |-> None, token |-> None, session |-> 0,
         forced |-> FALSE, peers |-> {}]

Init ==
  /\ group = [exists |-> TRUE, global |-> TRUE] /\ members = App
  /\ app = [s \in Session |-> None] /\ live = {} /\ meta = {} /\ refreshed = {}
  /\ tokens = [t \in Token |-> "unissued"]
  /\ work = [w \in Worker |-> Idle]
  /\ queue = <<>> /\ seen = {} /\ found = {}
  /\ made = 0 /\ served = 0 /\ edits = 0 /\ restarts = 0 /\ errors = 0
  /\ honoured = [t \in Token |-> 0] /\ due = {} /\ heeded = {}
  /\ fate = [s \in Session |-> ""]

-----------------------------------------------------------------------------
At(w, step) == work[w].pc = step
Serve == served < MaxRequests /\ served' = served + 1
Begin(r, first) ==
  /\ At(r, "idle") /\ Serve
  /\ work' = [work EXCEPT ![r] = first]
  /\ UNCHANGED <<made, edits, restarts>>
Goto(w, step) ==
  work' = [work EXCEPT ![w] = IF step = "idle" THEN Idle ELSE [@ EXCEPT !.pc = step]]
Event == edits + restarts + errors < MaxEvents
Miss == Event /\ errors' = errors + 1
Fails ==
  /\ Miss
  /\ UNCHANGED <<made, served, edits, restarts>>

OfApp(a) == {s \in live : app[s] = a}
Ended(set, how) == [s \in Session |-> IF s \in set THEN how ELSE fate[s]]

\* Applications whose sessions end with those of a.
Peers(a) == IF group.exists /\ a \in members THEN members \ {a} ELSE {}
Follow(a) == IF group.global THEN UNION {OfApp(b) : b \in Peers(a) \cap Account} ELSE {}

\* A new session in a, and its metadata key when that command succeeds.
NewSession(a, withMeta) ==
  LET s == made + 1 IN
  /\ made < MaxSessions /\ made' = s
  /\ app' = [app EXCEPT ![s] = a] /\ live' = live \cup {s}
  /\ meta' = IF withMeta THEN meta \cup {s} ELSE meta
  /\ UNCHANGED <<refreshed, edits, restarts>>
  /\ IF withMeta THEN UNCHANGED errors ELSE Event /\ errors' = errors + 1

\* A sign-in with a password or otherwise.
CreateSession(a, withMeta) ==
  /\ NewSession(a, withMeta) /\ Serve
  /\ UNCHANGED <<group, members, tokens, work, queue, scan, history>>

RefreshSession(s) ==
  /\ s \in live \ refreshed /\ refreshed' = refreshed \cup {s}
  /\ Serve /\ UNCHANGED <<made, edits, restarts, errors>>
  /\ UNCHANGED <<group, members, app, live, meta, tokens, work, queue, scan, history>>

-----------------------------------------------------------------------------
(* Single sign-on. *)

IssueToken(t) ==
  /\ tokens[t] = "unissued" /\ group.exists
  /\ \E s \in live : app[s] \in members
  /\ tokens' = [tokens EXCEPT ![t] = "live"]
  /\ Serve /\ UNCHANGED <<made, edits, restarts, errors>>
  /\ UNCHANGED <<group, members, sessionState, work, queue, scan, history>>

\* GetSSOToken has found the token.
Exchange(r, t, target) ==
  /\ tokens[t] = "live"
  /\ Begin(r, [Idle EXCEPT !.pc = "delete", !.app = target, !.token = t])
  /\ UNCHANGED <<group, members, sessionState, tokens, queue, scan, errors, history>>

\* Mutant of Consumed: the token is left to expire.
ConsumedInTime(r) == tokens

Consumed(r) == [tokens EXCEPT ![work[r].token] = "spent"]

\* A failure is only logged.
DeleteSSOToken(r) ==
  /\ At(r, "delete") /\ Goto(r, "validate")
  /\ \/ tokens' = Consumed(r) /\ UNCHANGED bounds
     \/ Fails /\ UNCHANGED tokens
  /\ UNCHANGED <<group, members, sessionState, queue, scan, history>>

ValidateTarget(r) ==
  /\ At(r, "validate")
  /\ Goto(r, IF work[r].app \in members \cap Account THEN "create" ELSE "idle")
  /\ UNCHANGED <<group, members, sessionState, tokens, queue, scan, bounds, history>>

CreateTargetSession(r) ==
  /\ At(r, "create") /\ Goto(r, "idle")
  /\ \/ /\ \E withMeta \in BOOLEAN : NewSession(work[r].app, withMeta)
        /\ UNCHANGED served
        /\ honoured' = [honoured EXCEPT ![work[r].token] = @ + 1]
     \/ Fails /\ UNCHANGED <<sessionState, honoured>>
  /\ UNCHANGED <<group, members, tokens, queue, scan, fate, due, heeded>>

SSOTokenExpires(t) ==
  /\ tokens[t] = "live" /\ tokens' = [tokens EXCEPT ![t] = "spent"]
  /\ UNCHANGED <<group, members, sessionState, work, queue, scan, bounds, history>>

-----------------------------------------------------------------------------
(* The end of one session, and what it does to the peers. *)

\* Mutant of MetaAfterDelete: the metadata key is left.
MetaAfterDeleteKept(s) == meta

MetaAfterDelete(s) == meta \ {s}

\* Whether the second command comes about nobody asks.
DeleteSession(s) ==
  /\ live' = live \ {s}
  /\ \/ meta' = MetaAfterDelete(s) /\ UNCHANGED <<errors, fate>>
     \/ Miss /\ fate' = [fate EXCEPT ![s] = "left"] /\ UNCHANGED meta

\* The goroutine that ends the sessions of the peers has the slot from here on, also
\* when the session could not be deleted.
LogoutUser(r, s) ==
  /\ s \in live
  /\ Begin(r, [Idle EXCEPT !.pc = "group", !.app = app[s]])
  /\ DeleteSession(s) \/ (Miss /\ UNCHANGED <<live, meta, fate>>)
  /\ due' = due \cup Follow(app[s])
  /\ UNCHANGED <<group, members, app, refreshed, tokens, queue, scan, honoured, heeded>>

SessionRevoke(r, s) ==
  /\ s \in live
  /\ Begin(r, [Idle EXCEPT !.pc = "group", !.app = app[s], !.forced = TRUE])
  /\ DeleteSession(s)
  /\ due' = due \cup Follow(app[s])
  /\ UNCHANGED <<group, members, app, refreshed, tokens, queue, scan, honoured, heeded>>

\* The metadata keys stay.
SessionRevokeAllForUser(r, a) ==
  /\ OfApp(a) # {}
  /\ Begin(r, [Idle EXCEPT !.pc = "group", !.app = a, !.forced = TRUE])
  /\ live' = live \ OfApp(a) /\ fate' = Ended(OfApp(a), "bulk")
  /\ due' = due \cup Follow(a)
  /\ UNCHANGED <<group, members, app, meta, refreshed, tokens, queue, scan, errors,
                 honoured, heeded>>

\* Mutant of Concerned: the test of the switch is the wrong way round.
ConcernedReversed(w) ==
  IF ~ group.global \/ work[w].forced THEN Peers(work[w].app) ELSE {}

\* The console does not ask whether the group has a global logout.
Concerned(w) ==
  IF group.global \/ work[w].forced THEN Peers(work[w].app) ELSE {}

GetAppsInSessionGroup(w) ==
  /\ At(w, "group")
  /\ work' = [work EXCEPT ![w] = IF Concerned(w) = {} THEN Idle
                ELSE [@ EXCEPT !.pc = "peers", !.peers = Concerned(w)]]
  /\ UNCHANGED <<group, members, sessionState, tokens, queue, scan, bounds, history>>

Rest(w, b) == work[w].peers \ {b}

\* A failure is logged, and the other peers are dealt with all the same.
RevokeAllUserSessions(w) ==
  /\ At(w, "peers")
  /\ \E b \in work[w].peers :
       /\ work' = [work EXCEPT ![w] = IF Rest(w, b) = {} THEN Idle
                     ELSE [@ EXCEPT !.peers = Rest(w, b)]]
       /\ LET ended == IF b \in Account THEN OfApp(b) ELSE {} IN
          \/ /\ live' = live \ ended /\ fate' = Ended(ended, "bulk")
             /\ heeded' = IF w = Listener /\ ended # {}
                          THEN heeded \cup {work[w].session} ELSE heeded
             /\ UNCHANGED bounds
          \/ b \in Account /\ Fails /\ UNCHANGED <<live, fate, heeded>>
  /\ UNCHANGED <<group, members, app, meta, refreshed, tokens, queue, scan, honoured, due>>

-----------------------------------------------------------------------------
(* Expiry. *)

\* The metadata key has the TTL the session was created with; the hash has it too
\* unless a refresh has set it anew.
MetaExpires(s) ==
  /\ s \in meta /\ meta' = meta \ {s}
  /\ live' = IF s \in refreshed THEN live ELSE live \ {s}
  /\ fate' = Ended({s} \cap (live \ refreshed), "expired")
  /\ due' = IF s \in live \ refreshed THEN due \cup Follow(app[s]) ELSE due
  /\ queue' = IF Listener \in Detectors THEN Append(queue, s) ELSE queue
  /\ UNCHANGED <<group, members, app, refreshed, tokens, work, scan, bounds, honoured,
                 heeded>>

\* Nothing is announced: the metadata key has expired before, or never was.
HashExpires(s) ==
  /\ s \in live \ meta /\ live' = live \ {s}
  /\ UNCHANGED <<group, members, app, meta, refreshed, tokens, work, queue, scan,
                 bounds, history>>

HandleExpiredKey(w, s) ==
  /\ At(w, "idle")
  /\ work' = [work EXCEPT ![w] =
                [Idle EXCEPT !.pc = "should", !.app = app[s], !.session = s]]

ListenForKeyExpirations ==
  /\ queue # <<>> /\ HandleExpiredKey(Listener, Head(queue))
  /\ queue' = Tail(queue)
  /\ UNCHANGED <<group, members, sessionState, tokens, scan, bounds, history>>

ShouldRevokeGroupSessions(w) ==
  /\ At(w, "should")
  /\ Goto(w, IF group.global /\ Peers(work[w].app) # {} THEN "group" ELSE "idle")
  /\ UNCHANGED <<group, members, sessionState, tokens, queue, scan, bounds, history>>

\* SCAN returns keys that have not expired.
ScanKeys ==
  /\ Scanner \in Detectors /\ At(Scanner, "idle") /\ seen = {} /\ found = {} /\ meta # {}
  /\ seen' = meta
  /\ UNCHANGED <<group, members, sessionState, tokens, work, queue, found, bounds,
                 history>>

\* The TTL of a key that is gone is negative.
ReadTTL(s) ==
  /\ s \in seen /\ seen' = seen \ {s}
  /\ found' = IF s \in meta THEN found ELSE found \cup {s}
  /\ UNCHANGED <<group, members, sessionState, tokens, work, queue, bounds, history>>

ScanForExpiredSessions(s) ==
  /\ seen = {} /\ s \in found /\ found' = found \ {s}
  /\ HandleExpiredKey(Scanner, s)
  /\ UNCHANGED <<group, members, sessionState, tokens, queue, seen, bounds, history>>

\* The process ends and is started again.  What Redis announces meanwhile, and what
\* the goroutines had left to do, is lost.
Restart ==
  /\ Event /\ restarts' = restarts + 1
  /\ work' = [w \in Worker |-> Idle] /\ queue' = <<>> /\ seen' = {} /\ found' = {}
  /\ UNCHANGED <<group, members, sessionState, tokens, made, served, edits, errors,
                 history>>

-----------------------------------------------------------------------------
(* The console's changes of the group. *)

Edit ==
  /\ Event /\ edits' = edits + 1
  /\ UNCHANGED <<sessionState, tokens, queue, scan, made, served, restarts, errors,
                 history>>

SessionGroupCreate ==
  /\ ~ group.exists /\ Edit
  /\ \E global \in BOOLEAN : group' = [exists |-> TRUE, global |-> global]
  /\ UNCHANGED <<members, work>>

SessionGroupUpdate ==
  /\ group.exists /\ Edit
  /\ group' = [group EXCEPT !.global = ~ @]
  /\ UNCHANGED <<members, work>>

\* An application is in one group at most.
SessionGroupAddApp(a) ==
  /\ group.exists /\ a \notin members /\ Edit
  /\ members' = members \cup {a}
  /\ UNCHANGED <<group, work>>

SessionGroupRemoveApp(a) ==
  /\ a \in members /\ Edit
  /\ members' = members \ {a}
  /\ UNCHANGED <<group, work>>

\* The memberships, then the group.
SessionGroupDelete(r) ==
  /\ group.exists /\ At(r, "idle") /\ Edit
  /\ members' = {} /\ Goto(r, "drop")
  /\ UNCHANGED group

\* The foreign key of a membership added meanwhile keeps the group.
DropGroup(r) ==
  /\ At(r, "drop") /\ Goto(r, "idle")
  /\ \/ members = {} /\ group' = [group EXCEPT !.exists = FALSE] /\ UNCHANGED bounds
     \/ members # {} /\ UNCHANGED <<group, bounds>>
     \/ Fails /\ UNCHANGED group
  /\ UNCHANGED <<members, sessionState, tokens, queue, scan, history>>

Revocation(w) == GetAppsInSessionGroup(w) \/ RevokeAllUserSessions(w)
Expiry(w) == ShouldRevokeGroupSessions(w) \/ Revocation(w)
Scan == ScanKeys \/ \E s \in Session : ReadTTL(s) \/ ScanForExpiredSessions(s)

Next ==
  \/ \E a \in Account, withMeta \in BOOLEAN : CreateSession(a, withMeta)
  \/ \E s \in Session : RefreshSession(s) \/ MetaExpires(s) \/ HashExpires(s)
  \/ \E t \in Token : IssueToken(t) \/ SSOTokenExpires(t)
  \/ \E r \in Req :
       \/ \E t \in Token, a \in App : Exchange(r, t, a)
       \/ DeleteSSOToken(r) \/ ValidateTarget(r) \/ CreateTargetSession(r)
       \/ \E s \in Session : LogoutUser(r, s) \/ SessionRevoke(r, s)
       \/ \E a \in Account : SessionRevokeAllForUser(r, a)
       \/ SessionGroupDelete(r) \/ DropGroup(r)
  \/ \E w \in Worker : Expiry(w)
  \/ ListenForKeyExpirations
  \/ Scan
  \/ SessionGroupCreate \/ SessionGroupUpdate
  \/ \E a \in App : SessionGroupAddApp(a) \/ SessionGroupRemoveApp(a)
  \/ Restart

\* Goroutines that can run do.
Fairness ==
  /\ \A w \in Worker : WF_vars(Expiry(w))
  /\ WF_vars(ListenForKeyExpirations)
  /\ WF_vars(Scan)

Spec == Init /\ [][Next]_vars /\ Fairness

-----------------------------------------------------------------------------
(* Properties. *)

\* The variables have their types, and only sessions that were made are anywhere.
TypeOK ==
  /\ group \in [exists : BOOLEAN, global : BOOLEAN] /\ members \subseteq App
  /\ members # {} => group.exists
  /\ app \in [Session -> Account \cup {None}]
  /\ live \cup meta \cup refreshed \cup due \cup heeded \subseteq 1..made
  /\ fate \in [Session -> {"", "bulk", "expired", "left"}]
  /\ tokens \in [Token -> {"unissued", "live", "spent"}]
  /\ \A w \in Worker :
       /\ work[w].pc \in Steps /\ work[w].peers \subseteq App
       /\ work[w].app \in App \cup {None} /\ work[w].token \in Token \cup {None}
  /\ queue \in Seq(Session) /\ seen \cup found \subseteq 1..made
  /\ made <= MaxSessions /\ served <= MaxRequests /\ edits + restarts + errors <= MaxEvents

\* Every SSO token is exchanged as a one-time token: only requests that read it
\* before the first of them deleted it get a session for it (sso/handler.go:180).
Exchanging(t) == {r \in Req : work[r].token = t}
OTT == INSTANCE OneTimeToken WITH
  state <- tokens, readers <- [t \in Token |-> Cardinality(Exchanging(t))],
  unsafe <- errors > 0
SSOTokensAreOneTime == OTT!Spec

\* An announced expiry ends the sessions of the peers only if the session was not
\* ended by a logout before; a session that was refreshed, one that was deleted with
\* all of its account and one whose metadata key was left by a deletion are announced
\* although they live on, or ended earlier (redis.go:290, 346-352, 396).
AnnouncedWhenOver ==
  /\ TypeOK
  /\ \A s \in heeded : s \in refreshed \/ fate[s] # ""

\* A logout, a revocation or an expiry in one application of a group with a global
\* logout ends the sessions the person has in the others by then, unless the group
\* is edited, the process restarted or a command fails meanwhile
\* (user/service.go:413, sessiongroup/revoke.go:37, expiry.go:151).
GroupLogoutCompletes ==
  \A s \in Session :
    s \in due ~> (s \notin live \/ edits > 0 \/ restarts > 0 \/ errors > 0)
=============================================================================
