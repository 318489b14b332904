---------------------------- MODULE LoginsProofs ----------------------------
(***************************************************************************)
(* What SessionGroups and SocialLogin promise, the two that MCLogins       *)
(* composes.                                                               *)
(*                                                                         *)
(* SessionGroups, for any number of applications, requests, sessions and   *)
(* tokens: the sessions of the peers end because of an announcement only   *)
(* when it is about a session that is over, and SSO tokens implement       *)
(* OneTimeToken.  Spec without a prefix is that of SessionGroups.          *)
(***************************************************************************)
EXTENDS MCLogins, FiniteSetTheorems, TLAPS

\* The state of a worker, and what it can carry at each step.
Work == [pc : Steps, app : App \cup {None}, token : Token \cup {None},
         session : Session \cup {0}, forced : BOOLEAN, peers : SUBSET App]
Exchanges == {"delete", "validate", "create"}
Fits(q) ==
  /\ q.token # None <=> q.pc \in Exchanges
  /\ q.pc = "create" => q.app \in Account

Counted ==
  /\ made \in Nat /\ served \in Nat /\ edits \in Nat /\ restarts \in Nat /\ errors \in Nat
Base ==
  /\ TypeOK /\ Counted
  /\ work \in [Worker -> Work] /\ \A w \in Worker : Fits(work[w])
  /\ \A i \in 1 .. Len(queue) : queue[i] \in 1 .. made
  /\ queue = <<>> \/ Listener \in Detectors
  /\ seen \cup found = {} \/ Scanner \in Detectors

\* A session that has expired, was refreshed, was deleted with all of its account, or was
\* deleted and has kept its metadata key.
Over(s) == s \in refreshed \/ fate[s] # ""
OverNext(s) == s \in refreshed' \/ fate'[s] # ""
Hears == Listener \in Detectors /\ ~ At(Listener, "idle")
\* The listener, if anything, goes on with what it heard.
Heard == Hears' => Hears /\ work'[Listener].session = work[Listener].session
\* What is announced, and what will be when its metadata key expires, is about one.
Announced ==
  /\ \A s \in (meta \ live) \cup heeded : Over(s)
  /\ \A i \in 1 .. Len(queue) : Over(queue[i])
  /\ Hears => work[Listener].session \in 1 .. made /\ Over(work[Listener].session)

\* A request that exchanges a token has read it, and goes on once it has spent it.
Spent(r) == tokens[work[r].token] = "spent" \/ errors > 0
Reading ==
  /\ honoured \in [Token -> Nat]
  /\ \A r \in Req : work[r].token # None =>
       /\ tokens[work[r].token] # "unissued"
       /\ work[r].pc \in {"validate", "create"} => Spent(r)

Inv == Base /\ Announced /\ Reading

-----------------------------------------------------------------------------
(* What a step does to its worker.                                         *)

Same(w) == \A v \in Worker \ {w} : work'[v] = work[v]
\* A worker is idle again, or went on with what it carries.
Finished(w) == Same(w) /\ work'[w] = Idle
Went(w, step) ==
  /\ Same(w) /\ work'[w].pc = step /\ work'[w].app = work[w].app
  /\ work'[w].token = work[w].token /\ work'[w].session = work[w].session
Typed ==
  /\ work' \in [Worker -> Work] /\ \A w \in Worker : Fits(work'[w])

LEMMA Zero ==
  ASSUME SessionGroupsAssumption
  PROVE  /\ Idle \in Work /\ Fits(Idle) /\ Idle.pc = "idle" /\ Idle.token = None
         /\ Idle.app = None /\ Idle.session = 0 /\ Idle.peers = {}
  BY DEF SessionGroupsAssumption, Idle, Work, Fits, Exchanges, Steps

LEMMA Workers ==
  ASSUME SessionGroupsAssumption
  PROVE  /\ Req \subseteq Worker
         /\ Listener \in Detectors => Listener \in Worker
         /\ \A r \in Req : r # Listener /\ r # Scanner /\ r \notin Detectors
         /\ Listener # Scanner
         /\ \A w \in Worker : w \in Req \/ w \in Detectors
  BY DEF SessionGroupsAssumption, Worker, Listener, Scanner

LEMMA Slot ==
  ASSUME Base, NEW w \in Worker, NEW q \in Work, Fits(q), work' = [work EXCEPT ![w] = q]
  PROVE  Typed /\ Same(w) /\ work'[w] = q
  BY DEF Base, Typed, Same

LEMMA SlotEnds ==
  ASSUME SessionGroupsAssumption, Base, NEW w \in Worker, Goto(w, "idle")
  PROVE  Typed /\ Finished(w)
<1>1. work' = [work EXCEPT ![w] = Idle]
  BY DEF Goto
<1> QED
  BY <1>1, Zero, Slot DEF Finished

LEMMA SlotGoes ==
  ASSUME SessionGroupsAssumption, Base, NEW w \in Worker, NEW step \in Steps \ {"idle"},
         Goto(w, step), work[w].pc \in Exchanges <=> step \in Exchanges,
         step = "create" => work[w].app \in Account
  PROVE  Typed /\ Went(w, step)
<1> DEFINE q == [work[w] EXCEPT !.pc = step]
<1>1. work' = [work EXCEPT ![w] = q]
  BY DEF Goto
<1>2. work[w] \in Work /\ Fits(work[w])
  BY DEF Base
<1>3. /\ q \in Work /\ q.pc = step /\ q.app = work[w].app /\ q.token = work[w].token
      /\ q.session = work[w].session
  BY <1>2 DEF Work
<1>4. Fits(q)
  BY <1>2, <1>3 DEF Fits
<1> HIDE DEF q
<1> QED
  BY <1>1, <1>3, <1>4, Slot DEF Went

\* A new task of an idle worker.
LEMMA SlotTakes ==
  ASSUME SessionGroupsAssumption, Base, NEW w \in Worker, NEW step \in Steps \ Exchanges,
         NEW a \in App \cup {None}, NEW forced \in BOOLEAN, NEW s \in Session \cup {0},
         work' = [work EXCEPT ![w] = [Idle EXCEPT !.pc = step, !.app = a, !.forced = forced,
                                                  !.session = s]]
  PROVE  Typed /\ Same(w) /\ work'[w].pc = step /\ work'[w].token = None /\ work'[w].session = s
<1> DEFINE q == [Idle EXCEPT !.pc = step, !.app = a, !.forced = forced, !.session = s]
<1>1. /\ q \in Work /\ q.pc = step /\ q.token = None /\ q.session = s
  BY Zero DEF Idle, Work
<1>2. Fits(q)
  BY <1>1 DEF Fits, Exchanges
<1>3. work' = [work EXCEPT ![w] = q]
  OBVIOUS
<1> HIDE DEF q
<1> QED
  BY <1>1, <1>2, <1>3, Slot

-----------------------------------------------------------------------------
(* The type invariant, in parts that a step may leave alone.               *)

GroupOK ==
  /\ group \in [exists : BOOLEAN, global : BOOLEAN] /\ members \subseteq App
  /\ members # {} => group.exists
SessionsOK ==
  /\ app \in [Session -> Account \cup {None}]
  /\ live \cup meta \cup refreshed \cup due \cup heeded \subseteq 1 .. made
  /\ fate \in [Session -> {"", "bulk", "expired", "left"}]
  /\ seen \cup found \subseteq 1 .. made
  /\ seen \cup found = {} \/ Scanner \in Detectors
QueueOK ==
  /\ queue \in Seq(Session)
  /\ \A i \in 1 .. Len(queue) : queue[i] \in 1 .. made
  /\ queue = <<>> \/ Listener \in Detectors
BoundsOK ==
  /\ Counted
  /\ made <= MaxSessions /\ served <= MaxRequests /\ edits + restarts + errors <= MaxEvents

LEMMA Pieces ==
  Base <=> /\ GroupOK /\ SessionsOK /\ QueueOK /\ BoundsOK
           /\ tokens \in [Token -> {"unissued", "live", "spent"}]
           /\ work \in [Worker -> Work] /\ \A w \in Worker : Fits(work[w])
  BY DEF Base, TypeOK, GroupOK, SessionsOK, QueueOK, BoundsOK, Work

LEMMA PiecesNext ==
  Base' <=> /\ GroupOK' /\ SessionsOK' /\ QueueOK' /\ BoundsOK'
            /\ tokens' \in [Token -> {"unissued", "live", "spent"}]
            /\ Typed
  BY DEF Base, TypeOK, GroupOK, SessionsOK, QueueOK, BoundsOK, Work, Typed, Counted, Fits,
     Exchanges

LEMMA Made ==
  ASSUME SessionGroupsAssumption, Base
  PROVE  made \in Nat /\ made <= MaxSessions /\ made >= made /\ 1 .. made \subseteq Session
<1>1. made \in Nat /\ made <= MaxSessions /\ MaxSessions \in Nat
  BY DEF SessionGroupsAssumption, Base, TypeOK, Counted
<1>2. \A i \in 1 .. made : i \in 1 .. MaxSessions
  BY <1>1
<1> QED
  BY <1>1, <1>2 DEF Session

LEMMA BoundsStay ==
  ASSUME Base, UNCHANGED bounds
  PROVE  BoundsOK' /\ errors' = errors /\ made' = made
  BY Pieces DEF BoundsOK, bounds, Counted

LEMMA FailsBounds ==
  ASSUME SessionGroupsAssumption, Base, Fails
  PROVE  BoundsOK' /\ errors' = errors + 1 /\ errors' > 0 /\ made' = made
  BY Pieces DEF BoundsOK, Fails, Miss, Event, Counted, SessionGroupsAssumption

LEMMA ServeBounds ==
  ASSUME SessionGroupsAssumption, Base, Serve, made' = made, edits' = edits,
         restarts' = restarts, errors' = errors \/ Miss
  PROVE  BoundsOK'
<1>1. /\ BoundsOK /\ served' = served + 1 /\ served < MaxRequests
      /\ MaxRequests \in Nat /\ MaxEvents \in Nat
  BY Pieces DEF Serve, SessionGroupsAssumption
<1>2. CASE errors' = errors
  BY <1>1, <1>2 DEF BoundsOK, Counted
<1>3. CASE Miss
  BY <1>1, <1>3 DEF BoundsOK, Counted, Miss, Event
<1> QED
  BY <1>2, <1>3

-----------------------------------------------------------------------------
(* What a step does to the tokens and to the requests that exchange them.  *)

Readers(t) == Cardinality(Exchanging(t))

LEMMA ReadersType ==
  ASSUME SessionGroupsAssumption, NEW t
  PROVE  Readers(t) \in Nat
<1>1. IsFiniteSet(Exchanging(t))
  BY FS_Subset DEF SessionGroupsAssumption, Exchanging
<1> QED
  BY <1>1, FS_CardinalityType DEF Readers

\* A worker that carries no token changes no reader.
LEMMA ReadersStay ==
  ASSUME \A r \in Req : work'[r].token = work[r].token, NEW t
  PROVE  Readers(t)' = Readers(t)
  BY DEF Readers, Exchanging

LEMMA ReadersRise ==
  ASSUME SessionGroupsAssumption, NEW r \in Req, Same(r), work[r].token = None,
         work'[r].token \in Token, NEW t \in Token
  PROVE  Readers(t)' = IF t = work'[r].token THEN Readers(t) + 1 ELSE Readers(t)
<1> DEFINE A == {q \in Req : work[q].token = t}
           T == {q \in Req : work'[q].token = t}
<1>0. Readers(t) = Cardinality(A) /\ Readers(t)' = Cardinality(T)
  BY DEF Readers, Exchanging
<1>1. IsFiniteSet(A) /\ r \notin A
  BY FS_Subset DEF SessionGroupsAssumption
<1>2. CASE t = work'[r].token
  <2>1. T = A \cup {r}
    BY <1>2, Workers DEF Same, SessionGroupsAssumption
  <2> HIDE DEF A, T
  <2>2. Cardinality(T) = Cardinality(A) + 1
    BY <1>1, <2>1, FS_AddElement
  <2> QED
    BY <1>0, <1>2, <2>2
<1>3. CASE t # work'[r].token
  <2>1. T = A
    BY <1>1, <1>3, Workers DEF Same, SessionGroupsAssumption
  <2> HIDE DEF A, T
  <2> QED
    BY <1>0, <1>3, <2>1
<1> QED
  BY <1>2, <1>3

LEMMA ReadersFall ==
  ASSUME SessionGroupsAssumption, NEW r \in Req, Same(r), work'[r].token = None,
         work[r].token \in Token, NEW t \in Token
  PROVE  /\ Readers(t)' = IF t = work[r].token THEN Readers(t) - 1 ELSE Readers(t)
         /\ t = work[r].token => Readers(t) > 0
<1> DEFINE A == {q \in Req : work[q].token = t}
           T == {q \in Req : work'[q].token = t}
<1>0. Readers(t) = Cardinality(A) /\ Readers(t)' = Cardinality(T)
  BY DEF Readers, Exchanging
<1>1. IsFiniteSet(A) /\ r \notin T
  BY FS_Subset DEF SessionGroupsAssumption
<1>2. CASE t = work[r].token
  <2>1. T = A \ {r} /\ r \in A
    BY <1>2, Workers DEF Same, SessionGroupsAssumption
  <2>2. IsFiniteSet(T)
    BY <1>1, <2>1, FS_Subset
  <2> HIDE DEF A, T
  <2>3. Cardinality(T) = Cardinality(A) - 1
    BY <1>1, <2>1, FS_RemoveElement
  <2>4. Cardinality(T) \in Nat /\ Cardinality(A) \in Nat
    BY <1>1, <2>2, FS_CardinalityType
  <2> QED
    BY <1>0, <1>2, <2>3, <2>4
<1>3. CASE t # work[r].token
  <2>1. T = A
    BY <1>1, <1>3, Workers DEF Same, SessionGroupsAssumption
  <2> HIDE DEF A, T
  <2> QED
    BY <1>0, <1>3, <2>1
<1> QED
  BY <1>2, <1>3

-----------------------------------------------------------------------------
(* Steps that leave tokens, or announcements, as they are.                 *)

LEMMA Aside ==
  ASSUME SessionGroupsAssumption, Base, Reading, tokens' = tokens, honoured' = honoured,
         \A r \in Req : /\ work'[r].token = work[r].token
                        /\ work[r].token # None => work'[r].pc = work[r].pc,
         errors' = errors \/ errors' = errors + 1
  PROVE  Reading' /\ [OTT!Next]_(OTT!vars)
<1>1. errors \in Nat
  BY DEF Base, Counted
<1>2. errors > 0 => errors' > 0
  BY <1>1
<1>3. Reading'
  BY <1>2 DEF Reading, Spent
<1>4. [t \in Token |-> Cardinality(Exchanging(t))]' = [t \in Token |-> Cardinality(Exchanging(t))]
  <2>1. \A t \in Token : Readers(t)' = Readers(t)
    BY ReadersStay
  <2> QED
    BY <2>1 DEF Readers
<1>5. CASE errors' = errors
  <2>1. (errors > 0)' = (errors > 0)
    BY <1>5
  <2> QED
    BY <1>3, <1>4, <2>1 DEF OTT!vars
<1>6. CASE errors' = errors + 1
  <2>1. (errors > 0)' = TRUE
    BY <1>1, <1>6
  <2> QED
    BY <1>3, <1>4, <2>1 DEF OTT!Next, OTT!SpendFails
<1> QED
  BY <1>5, <1>6

LEMMA AnnouncedKept ==
  ASSUME Base, Announced,
         \A s \in 1 .. made : Over(s) => OverNext(s),
         \A s \in meta' \ live' : s \in meta \ live \/ OverNext(s),
         \A s \in heeded' : s \in heeded \/ OverNext(s)
                            \/ (Hears /\ s = work[Listener].session),
         \A i \in 1 .. Len(queue') : queue'[i] \in 1 .. made' /\ OverNext(queue'[i]),
         Hears' => work'[Listener].session \in 1 .. made' /\ OverNext(work'[Listener].session)
  PROVE  Announced'
<1>1. meta \cup heeded \subseteq 1 .. made
  BY DEF Base, TypeOK
<1>2. \A s \in meta' \ live' : OverNext(s)
  BY <1>1 DEF Announced
<1>3. \A s \in heeded' : OverNext(s)
  BY <1>1 DEF Announced
<1> QED
  BY <1>2, <1>3 DEF Announced, Over, OverNext

\* What the listener hears of stays, if it goes on with it.
LEMMA Listening ==
  ASSUME NEW w \in Worker, Same(w),
         \/ w # Listener
         \/ work'[w].pc = "idle"
         \/ work[w].pc # "idle" /\ work'[w].session = work[w].session
  PROVE  Heard
  BY DEF Heard, Hears, At, Same, Worker

LEMMA ListenerStays ==
  ASSUME Base, Announced, Heard, made' >= made, made' \in Nat,
         \A s \in 1 .. made : Over(s) => OverNext(s)
  PROVE  Hears' => work'[Listener].session \in 1 .. made' /\ OverNext(work'[Listener].session)
<1>1. made \in Nat
  BY DEF Base, Counted
<1>2. \A s \in 1 .. made : s \in 1 .. made'
  BY <1>1
<1>3. Hears => work[Listener].session \in 1 .. made /\ Over(work[Listener].session)
  BY DEF Announced
<1> QED
  BY <1>2, <1>3 DEF Heard

LEMMA QueueStays ==
  ASSUME Base, Announced, queue' = queue, made' >= made, made' \in Nat,
         \A s \in 1 .. made : Over(s) => OverNext(s)
  PROVE  QueueOK' /\ \A i \in 1 .. Len(queue') : queue'[i] \in 1 .. made' /\ OverNext(queue'[i])
<1>1. /\ made \in Nat /\ queue \in Seq(Session)
      /\ \A i \in 1 .. Len(queue) : queue[i] \in 1 .. made
      /\ queue = <<>> \/ Listener \in Detectors
  BY DEF Base, Counted, TypeOK
<1>2. \A i \in 1 .. Len(queue') : queue'[i] \in 1 .. made' /\ OverNext(queue'[i])
  BY <1>1 DEF Announced
<1> QED
  BY <1>1, <1>2 DEF QueueOK

\* All of these, when a step changes neither sessions nor announcements.
LEMMA Still ==
  ASSUME SessionGroupsAssumption, Base, Announced, UNCHANGED <<sessionState, queue, fate, heeded>>,
         made' = made, Heard
  PROVE  Announced' /\ QueueOK'
<1>1. /\ app' = app /\ live' = live /\ meta' = meta /\ refreshed' = refreshed /\ fate' = fate
      /\ heeded' = heeded /\ queue' = queue
  BY DEF sessionState
<1>2. \A s \in 1 .. made : Over(s) => OverNext(s)
  BY <1>1 DEF Over, OverNext
<1>3. made' >= made /\ made' \in Nat
  BY DEF Base, Counted
<1>4. QueueOK' /\ \A i \in 1 .. Len(queue') : queue'[i] \in 1 .. made' /\ OverNext(queue'[i])
  BY <1>1, <1>2, <1>3, QueueStays
<1>5. Hears' => work'[Listener].session \in 1 .. made' /\ OverNext(work'[Listener].session)
  BY <1>2, <1>3, ListenerStays
<1>6. Announced'
  BY <1>1, <1>2, <1>4, <1>5, AnnouncedKept
<1> QED
  BY <1>4, <1>6

-----------------------------------------------------------------------------
(* Sessions.                                                               *)

\* A new session, of a sign-in or an exchange.
LEMMA NewSessionSteps ==
  ASSUME SessionGroupsAssumption, Base, Announced, NEW a \in Account, NEW withMeta \in BOOLEAN,
         NewSession(a, withMeta), queue' = queue, seen' = seen, found' = found,
         fate' = fate, due' = due, heeded' = heeded,
         Heard
  PROVE  /\ SessionsOK' /\ QueueOK' /\ Announced'
         /\ made' \in Nat /\ made' <= MaxSessions /\ edits' = edits /\ restarts' = restarts
         /\ errors' = errors \/ (errors' = errors + 1 /\ edits + restarts + errors < MaxEvents)
<1>1. /\ made' = made + 1 /\ made < MaxSessions /\ app' = [app EXCEPT ![made + 1] = a]
      /\ live' = live \cup {made + 1}
      /\ meta' = IF withMeta THEN meta \cup {made + 1} ELSE meta
      /\ refreshed' = refreshed /\ edits' = edits /\ restarts' = restarts
      /\ errors' = errors \/ (errors' = errors + 1 /\ edits + restarts + errors < MaxEvents)
  BY DEF NewSession, Event
<1>2. made \in Nat /\ made' \in Nat /\ made' <= MaxSessions /\ made' >= made
  BY <1>1, Made DEF SessionGroupsAssumption
<1>3. SessionsOK'
  <2>1. /\ app' \in [Session -> Account \cup {None}]
        /\ fate' \in [Session -> {"", "bulk", "expired", "left"}]
    BY <1>1 DEF Base, TypeOK
  <2>2. 1 .. made \subseteq 1 .. made' /\ made + 1 \in 1 .. made'
    BY <1>1, <1>2
  <2>3. /\ live \cup meta \cup refreshed \cup due \cup heeded \subseteq 1 .. made
        /\ seen \cup found \subseteq 1 .. made
        /\ seen \cup found = {} \/ Scanner \in Detectors
    BY DEF Base, TypeOK
  <2> QED
    BY <1>1, <2>1, <2>2, <2>3 DEF SessionsOK
<1>4. \A s \in 1 .. made : Over(s) => OverNext(s)
  BY <1>1 DEF Over, OverNext
<1>5. QueueOK' /\ \A i \in 1 .. Len(queue') : queue'[i] \in 1 .. made' /\ OverNext(queue'[i])
  BY <1>2, <1>4, QueueStays
<1>6. Hears' => work'[Listener].session \in 1 .. made' /\ OverNext(work'[Listener].session)
  BY <1>2, <1>4, ListenerStays
<1>7. Announced'
  BY <1>1, <1>4, <1>5, <1>6, AnnouncedKept
<1> QED
  BY <1>1, <1>2, <1>3, <1>5, <1>7

LEMMA CreateSessionKeeps ==
  ASSUME SessionGroupsAssumption, Inv, NEW a \in Account, NEW withMeta \in BOOLEAN,
         CreateSession(a, withMeta)
  PROVE  Inv' /\ [OTT!Next]_(OTT!vars)
<1>1. /\ group' = group /\ members' = members /\ tokens' = tokens /\ work' = work
      /\ queue' = queue /\ seen' = seen /\ found' = found /\ honoured' = honoured
      /\ fate' = fate /\ due' = due /\ heeded' = heeded
      /\ served < MaxRequests /\ served' = served + 1 /\ NewSession(a, withMeta)
  BY DEF CreateSession, Serve, scan, history
<1>2. /\ SessionsOK' /\ QueueOK' /\ Announced'
      /\ made' \in Nat /\ made' <= MaxSessions /\ edits' = edits /\ restarts' = restarts
      /\ errors' = errors \/ (errors' = errors + 1 /\ edits + restarts + errors < MaxEvents)
  BY <1>1, NewSessionSteps DEF Inv, Heard, Hears, At
<1>3. BoundsOK'
  BY <1>1, <1>2, Pieces DEF Inv, BoundsOK, Counted, SessionGroupsAssumption
<1>4. Base'
  BY <1>1, <1>2, <1>3, Pieces, PiecesNext DEF Inv, GroupOK, Typed
<1>5. Reading' /\ [OTT!Next]_(OTT!vars)
  BY <1>1, <1>2, Aside DEF Inv
<1> QED
  BY <1>2, <1>4, <1>5 DEF Inv

LEMMA RefreshSessionKeeps ==
  ASSUME SessionGroupsAssumption, Inv, NEW s \in Session, RefreshSession(s)
  PROVE  Inv' /\ [OTT!Next]_(OTT!vars)
<1>1. /\ group' = group /\ members' = members /\ tokens' = tokens /\ work' = work
      /\ queue' = queue /\ seen' = seen /\ found' = found /\ honoured' = honoured
      /\ fate' = fate /\ due' = due /\ heeded' = heeded /\ app' = app /\ live' = live
      /\ meta' = meta /\ made' = made /\ edits' = edits /\ restarts' = restarts
      /\ errors' = errors /\ Serve /\ s \in live /\ refreshed' = refreshed \cup {s}
  BY DEF RefreshSession, scan, history
<1>2. SessionsOK'
  BY ZenonT(60), <1>1, Pieces DEF Inv, SessionsOK
<1>3. \A x \in 1 .. made : Over(x) => OverNext(x)
  BY <1>1 DEF Over, OverNext
<1>4. made' \in Nat /\ made' >= made
  BY <1>1, Made DEF Inv
<1>5. QueueOK' /\ \A i \in 1 .. Len(queue') : queue'[i] \in 1 .. made' /\ OverNext(queue'[i])
  BY <1>1, <1>3, <1>4, QueueStays DEF Inv
<1>6. Hears' => work'[Listener].session \in 1 .. made' /\ OverNext(work'[Listener].session)
  BY <1>1, <1>3, <1>4, ListenerStays DEF Inv, Heard, Hears, At
<1>7. Announced'
  BY <1>1, <1>3, <1>5, <1>6, AnnouncedKept DEF Inv
<1>8. BoundsOK'
  BY <1>1, ServeBounds DEF Inv
<1>9. Base'
  BY <1>1, <1>2, <1>5, <1>8, Pieces, PiecesNext DEF Inv, GroupOK, Typed
<1>10. Reading' /\ [OTT!Next]_(OTT!vars)
  BY <1>1, Aside DEF Inv
<1> QED
  BY <1>7, <1>9, <1>10 DEF Inv

-----------------------------------------------------------------------------
(* Single sign-on.                                                         *)

LEMMA NoReaderMoves ==
  ASSUME \A r \in Req : work'[r].token = work[r].token
  PROVE  [t \in Token |-> Cardinality(Exchanging(t))]' =
           [t \in Token |-> Cardinality(Exchanging(t))]
<1>1. \A t \in Token : Readers(t)' = Readers(t)
  BY ReadersStay
<1> QED
  BY <1>1 DEF Readers

\* Another request's reading is as good as it was, whatever happens to the tokens.
LEMMA OthersRead ==
  ASSUME Base, Reading, NEW r \in Req, Same(r), honoured' \in [Token -> Nat],
         \A t \in Token : /\ tokens[t] # "unissued" => tokens'[t] # "unissued"
                          /\ tokens[t] = "spent" => tokens'[t] = "spent",
         errors' \in {errors, errors + 1},
         work'[r].token # None =>
           /\ tokens'[work'[r].token] # "unissued"
           /\ work'[r].pc \in {"validate", "create"} =>
                tokens'[work'[r].token] = "spent" \/ errors' > 0
  PROVE  Reading'
<1>1. errors > 0 => errors' > 0
  BY DEF Base, Counted
<1>2. ASSUME NEW q \in Req, work'[q].token # None
      PROVE  /\ tokens'[work'[q].token] # "unissued"
             /\ work'[q].pc \in {"validate", "create"} =>
                  tokens'[work'[q].token] = "spent" \/ errors' > 0
  <2>1. CASE q = r
    BY <1>2, <2>1
  <2>2. CASE q # r
    <3>1. work'[q] = work[q] /\ work[q].token \in Token
      BY <1>2, <2>2 DEF Same, Worker, Base, Work
    <3> QED
      BY <1>1, <1>2, <3>1 DEF Reading, Spent
  <2> QED
    BY <2>1, <2>2
<1> QED
  BY <1>2 DEF Reading, Spent

LEMMA Reads ==
  ASSUME SessionGroupsAssumption, Base, Reading, NEW r \in Req, Same(r), NEW t \in Token,
         work[r].token = None, work'[r].token = t, work'[r].pc = "delete",
         tokens[t] = "live", UNCHANGED <<tokens, honoured, errors>>
  PROVE  Reading' /\ [OTT!Next]_(OTT!vars)
<1>1. Reading'
  BY OthersRead DEF Reading
<1>2. \A u \in Token : Readers(u)' = IF u = t THEN Readers(u) + 1 ELSE Readers(u)
  BY ReadersRise
<1>3. [u \in Token |-> Cardinality(Exchanging(u))]' =
        [[u \in Token |-> Cardinality(Exchanging(u))] EXCEPT ![t] = @ + 1]
  BY <1>2 DEF Readers
<1>4. (errors > 0)' = (errors > 0)
  OBVIOUS
<1>5. OTT!Read(t)
  BY <1>3, <1>4 DEF OTT!Read
<1> QED
  BY <1>1, <1>5 DEF OTT!Next

\* A reader that goes away.
LEMMA ReaderLeaves ==
  ASSUME SessionGroupsAssumption, Base, NEW r \in Req, Finished(r), NEW t \in Token,
         work[r].token = t
  PROVE  /\ [u \in Token |-> Cardinality(Exchanging(u))]' =
              [[u \in Token |-> Cardinality(Exchanging(u))] EXCEPT ![t] = @ - 1]
         /\ Cardinality(Exchanging(t)) > 0
<1>1. Same(r) /\ work'[r].token = None
  BY Zero DEF Finished
<1>2. \A u \in Token : /\ Readers(u)' = IF u = t THEN Readers(u) - 1 ELSE Readers(u)
                       /\ u = t => Readers(u) > 0
  BY <1>1, ReadersFall
<1> QED
  BY <1>2 DEF Readers

\* Failures are counted and never forgotten.
LEMMA Marks ==
  ASSUME Base, errors' \in {errors, errors + 1}
  PROVE  (errors > 0)' \in {errors > 0, TRUE}
<1>1. errors \in Nat
  BY DEF Base, Counted
<1>2. CASE errors' = errors
  <2>1. (errors > 0)' = (errors > 0)
    BY <1>2
  <2> QED
    BY <2>1
<1>3. CASE errors' = errors + 1
  <2>1. (errors > 0)' = TRUE
    BY <1>1, <1>3
  <2> QED
    BY <2>1
<1> QED
  BY <1>2, <1>3

LEMMA Refused ==
  ASSUME SessionGroupsAssumption, Base, Reading, NEW r \in Req, Finished(r), NEW t \in Token,
         work[r].token = t, UNCHANGED <<tokens, honoured>>, errors' \in {errors, errors + 1}
  PROVE  Reading' /\ [OTT!Next]_(OTT!vars)
<1>1. Reading'
  BY OthersRead, Zero DEF Finished, Reading
<1>2. (errors > 0)' \in {errors > 0, TRUE}
  BY Marks
<1>3. OTT!Refuse(t)
  BY <1>2, ReaderLeaves DEF OTT!Refuse
<1> QED
  BY <1>1, <1>3 DEF OTT!Next

LEMMA Honoured ==
  ASSUME SessionGroupsAssumption, Base, Reading, NEW r \in Req, Finished(r), NEW t \in Token,
         work[r].token = t, work[r].pc = "create", UNCHANGED tokens,
         honoured' = [honoured EXCEPT ![t] = @ + 1], errors' \in {errors, errors + 1}
  PROVE  Reading' /\ [OTT!Next]_(OTT!vars)
<1>1. honoured' \in [Token -> Nat]
  <2>1. honoured \in [Token -> Nat]
    BY DEF Reading
  <2>2. honoured[t] + 1 \in Nat
    BY <2>1
  <2> QED
    BY <2>1, <2>2
<1>2. Reading'
  BY <1>1, OthersRead, Zero DEF Finished
<1>3. (errors > 0)' \in {errors > 0, TRUE}
  BY Marks
<1>4. t # None
  BY DEF SessionGroupsAssumption
<1>5. tokens[t] = "spent" \/ errors > 0
  BY <1>4 DEF Reading, Spent
<1>6. OTT!Honour(t)
  BY <1>3, <1>5, ReaderLeaves DEF OTT!Honour
<1> QED
  BY <1>2, <1>6 DEF OTT!Next

\* A token is spent, or was already, by the request that read it or by its expiry.
LEMMA Spends ==
  ASSUME SessionGroupsAssumption, Base, Reading, NEW t \in Token,
         tokens[t] # "unissued", tokens' = [tokens EXCEPT ![t] = "spent"],
         UNCHANGED <<honoured, errors>>, \A r \in Req : work'[r].token = work[r].token,
         \A r \in Req : work[r].token \notin {t, None} => work'[r].pc = work[r].pc
  PROVE  Reading' /\ [OTT!Next]_(OTT!vars)
<1>1. tokens \in [Token -> {"unissued", "live", "spent"}]
  BY DEF Base, TypeOK
<1>2. tokens'[t] = "spent" /\ \A u \in Token \ {t} : tokens'[u] = tokens[u]
  BY <1>1
<1>3. ASSUME NEW r \in Req, work'[r].token # None
      PROVE  /\ tokens'[work'[r].token] # "unissued"
             /\ work'[r].pc \in {"validate", "create"} =>
                  tokens'[work'[r].token] = "spent" \/ errors' > 0
  <2>1. work[r].token \in Token
    BY <1>3 DEF Worker, Base, Work
  <2>2. CASE work[r].token = t
    BY <1>2, <2>2
  <2>3. CASE work[r].token # t
    BY <1>2, <1>3, <2>1, <2>3 DEF Reading, Spent
  <2> QED
    BY <2>2, <2>3
<1>4. Reading'
  BY <1>3 DEF Reading, Spent
<1>5. (errors > 0)' = (errors > 0)
  OBVIOUS
<1>6. CASE tokens[t] = "live"
  <2>1. OTT!Spend(t)
    BY <1>5, <1>6, NoReaderMoves DEF OTT!Spend
  <2> QED
    BY <1>4, <2>1 DEF OTT!Next
<1>7. CASE tokens[t] = "spent"
  <2>1. tokens' = tokens
    BY <1>1, <1>7
  <2> QED
    BY <1>4, <1>5, <2>1, NoReaderMoves DEF OTT!vars
<1> QED
  BY <1>1, <1>6, <1>7

\* A request goes on although it could not spend its token.
LEMMA SpendingFails ==
  ASSUME SessionGroupsAssumption, Base, Reading, NEW r \in Req, Went(r, "validate"),
         UNCHANGED <<tokens, honoured>>, errors' = errors + 1
  PROVE  Reading' /\ [OTT!Next]_(OTT!vars)
<1>1. errors' > 0
  BY DEF Base, Counted
<1>2. Reading'
  BY <1>1, OthersRead DEF Went, Reading
<1>3. \A q \in Req : work'[q].token = work[q].token
  BY DEF Went, Same, Worker
<1>4. (errors > 0)' = TRUE
  BY <1>1
<1>5. OTT!SpendFails
  BY <1>3, <1>4, NoReaderMoves DEF OTT!SpendFails
<1> QED
  BY <1>2, <1>5 DEF OTT!Next

-----------------------------------------------------------------------------
(* Steps with the SSO tokens.                                              *)

LEMMA IssueTokenKeeps ==
  ASSUME SessionGroupsAssumption, Inv, NEW t \in Token, IssueToken(t)
  PROVE  Inv' /\ [OTT!Next]_(OTT!vars)
<1>1. /\ group' = group /\ members' = members /\ work' = work /\ sessionState' = sessionState
      /\ queue' = queue /\ seen' = seen /\ found' = found /\ honoured' = honoured
      /\ fate' = fate /\ due' = due /\ heeded' = heeded /\ made' = made /\ edits' = edits
      /\ restarts' = restarts /\ errors' = errors /\ Serve /\ tokens[t] = "unissued"
      /\ tokens' = [tokens EXCEPT ![t] = "live"]
  BY DEF IssueToken, scan, history
<1>2. app' = app /\ live' = live /\ meta' = meta /\ refreshed' = refreshed
  BY <1>1 DEF sessionState
<1>3. BoundsOK'
  BY <1>1, ServeBounds DEF Inv
<1>4. Announced' /\ QueueOK'
  BY <1>1, Still DEF Inv, Heard, Hears, At
<1>5. tokens \in [Token -> {"unissued", "live", "spent"}]
  BY DEF Inv, Base, TypeOK
<1>6. /\ tokens' \in [Token -> {"unissued", "live", "spent"}]
      /\ \A u \in Token \ {t} : tokens'[u] = tokens[u]
  BY <1>1, <1>5
<1>7. Base'
  BY <1>1, <1>2, <1>3, <1>4, <1>6, Pieces, PiecesNext DEF Inv, GroupOK, SessionsOK, Typed
<1>8. ASSUME NEW r \in Req, work[r].token # None
      PROVE  work[r].token \in Token \ {t}
  BY <1>1, <1>8 DEF Inv, Reading, Base, Work, Worker
<1>9. Reading'
  BY <1>1, <1>6, <1>8 DEF Inv, Reading, Spent
<1>10. [u \in Token |-> Cardinality(Exchanging(u))]' = [u \in Token |-> Cardinality(Exchanging(u))]
  BY <1>1, NoReaderMoves
<1>11. (errors > 0)' = (errors > 0)
  BY <1>1
<1>12. OTT!Issue(t)
  BY <1>1, <1>10, <1>11 DEF OTT!Issue
<1> QED
  BY <1>4, <1>7, <1>9, <1>12 DEF Inv, OTT!Next

LEMMA SSOTokenExpiresKeeps ==
  ASSUME SessionGroupsAssumption, Inv, NEW t \in Token, SSOTokenExpires(t)
  PROVE  Inv' /\ [OTT!Next]_(OTT!vars)
<1>1. /\ group' = group /\ members' = members /\ work' = work /\ sessionState' = sessionState
      /\ queue' = queue /\ seen' = seen /\ found' = found /\ honoured' = honoured
      /\ fate' = fate /\ due' = due /\ heeded' = heeded /\ bounds' = bounds
      /\ made' = made /\ errors' = errors
      /\ tokens[t] = "live" /\ tokens' = [tokens EXCEPT ![t] = "spent"]
  BY DEF SSOTokenExpires, scan, history, bounds
<1>2. app' = app /\ live' = live /\ meta' = meta /\ refreshed' = refreshed
  BY <1>1 DEF sessionState
<1>3. BoundsOK'
  BY <1>1, BoundsStay DEF Inv
<1>4. Announced' /\ QueueOK'
  BY <1>1, Still DEF Inv, Heard, Hears, At
<1>5. tokens' \in [Token -> {"unissued", "live", "spent"}]
  BY <1>1 DEF Inv, Base, TypeOK
<1>6. Base'
  BY <1>1, <1>2, <1>3, <1>4, <1>5, Pieces, PiecesNext DEF Inv, GroupOK, SessionsOK, Typed
<1>7. Reading' /\ [OTT!Next]_(OTT!vars)
  BY <1>1, Spends DEF Inv
<1> QED
  BY <1>4, <1>6, <1>7 DEF Inv

\* A request that takes a step and leaves the sessions alone.
LEMMA RequestKeeps ==
  ASSUME SessionGroupsAssumption, Inv, NEW r \in Req, Same(r), Typed, BoundsOK', made' = made,
         UNCHANGED <<group, members, sessionState, queue, seen, found, fate, due, heeded>>,
         tokens' \in [Token -> {"unissued", "live", "spent"}]
  PROVE  Base' /\ Announced'
<1>1. app' = app /\ live' = live /\ meta' = meta /\ refreshed' = refreshed
  BY DEF sessionState
<1>2. Heard
  BY Workers, Listening
<1>3. Announced' /\ QueueOK'
  BY <1>2, Still DEF Inv
<1>4. Base'
  BY <1>1, <1>3, Pieces, PiecesNext DEF Inv, GroupOK, SessionsOK
<1> QED
  BY <1>3, <1>4

\* An idle request carries no token, and one that exchanges carries one.
LEMMA Carries ==
  ASSUME SessionGroupsAssumption, Inv, NEW w \in Worker
  PROVE  /\ At(w, "idle") => work[w].token = None
         /\ work[w].pc \in Exchanges => work[w].token \in Token /\ work[w].token # None
         /\ work[w].pc \notin Exchanges => work[w].token = None
         /\ work[w] \in Work /\ Fits(work[w])
  BY DEF Inv, Base, Work, Fits, Exchanges, At

LEMMA ExchangeKeeps ==
  ASSUME SessionGroupsAssumption, Inv, NEW r \in Req, NEW t \in Token, NEW target \in App,
         Exchange(r, t, target)
  PROVE  Inv' /\ [OTT!Next]_(OTT!vars)
<1> DEFINE q == [Idle EXCEPT !.pc = "delete", !.app = target, !.token = t]
<1>1. /\ UNCHANGED <<group, members, sessionState, queue, seen, found, fate, due, heeded>>
      /\ tokens' = tokens /\ honoured' = honoured /\ work' = [work EXCEPT ![r] = q]
      /\ made' = made /\ edits' = edits /\ restarts' = restarts /\ errors' = errors
      /\ Serve /\ tokens[t] = "live" /\ At(r, "idle")
  BY DEF Exchange, Begin, scan, history
<1>2. q \in Work /\ q.pc = "delete" /\ q.token = t
  BY Zero DEF Idle, Work, Steps
<1>3. Fits(q)
  BY <1>2 DEF Fits, Exchanges, SessionGroupsAssumption
<1> HIDE DEF q
<1>4. r \in Worker
  BY Workers
<1>5. Typed /\ Same(r) /\ work'[r] = q
  BY <1>1, <1>2, <1>3, <1>4, Slot DEF Inv
<1>6. BoundsOK'
  BY <1>1, ServeBounds DEF Inv
<1>7. tokens' \in [Token -> {"unissued", "live", "spent"}]
  BY <1>1 DEF Inv, Base, TypeOK
<1>8. Base' /\ Announced'
  BY <1>1, <1>5, <1>6, <1>7, RequestKeeps
<1>9. Reading' /\ [OTT!Next]_(OTT!vars)
  BY <1>1, <1>2, <1>4, <1>5, Carries, Reads DEF Inv
<1> QED
  BY <1>8, <1>9 DEF Inv

LEMMA DeleteSSOTokenKeeps ==
  ASSUME SessionGroupsAssumption, Inv, NEW r \in Req, DeleteSSOToken(r)
  PROVE  Inv' /\ [OTT!Next]_(OTT!vars)
<1>1. /\ UNCHANGED <<group, members, sessionState, queue, seen, found, fate, due, heeded>>
      /\ honoured' = honoured /\ work[r].pc = "delete" /\ Goto(r, "validate")
      /\ \/ tokens' = [tokens EXCEPT ![work[r].token] = "spent"] /\ UNCHANGED bounds
         \/ Fails /\ UNCHANGED tokens
  BY DEF DeleteSSOToken, Consumed, At, scan, history
<1>2. r \in Worker
  BY Workers
<1>3. PICK t \in Token : work[r].token = t
  BY <1>1, <1>2, Carries DEF Exchanges
<1>4. t # None /\ tokens[t] # "unissued"
  BY <1>1, <1>2, <1>3, Carries DEF Exchanges, Inv, Reading
<1>5. Typed /\ Went(r, "validate")
  BY <1>1, <1>2, SlotGoes DEF Exchanges, Steps, Inv
<1>6. tokens \in [Token -> {"unissued", "live", "spent"}]
  BY DEF Inv, Base, TypeOK
<1>7. CASE tokens' = [tokens EXCEPT ![work[r].token] = "spent"] /\ UNCHANGED bounds
  <2>1. BoundsOK' /\ made' = made /\ errors' = errors
    BY <1>7, BoundsStay DEF Inv
  <2>2. tokens' \in [Token -> {"unissued", "live", "spent"}]
    BY <1>6, <1>7
  <2>3. Base' /\ Announced'
    BY <1>1, <1>5, <2>1, <2>2, RequestKeeps DEF Went
  <2>4. \A v \in Req : /\ work'[v].token = work[v].token
                       /\ work[v].token \notin {t, None} => work'[v].pc = work[v].pc
    BY <1>3, <1>5 DEF Went, Same, Worker
  <2>5. Reading' /\ [OTT!Next]_(OTT!vars)
    BY <1>1, <1>3, <1>4, <1>7, <2>1, <2>4, Spends DEF Inv
  <2> QED
    BY <2>3, <2>5 DEF Inv
<1>8. CASE Fails /\ UNCHANGED tokens
  <2>1. BoundsOK' /\ made' = made /\ errors' = errors + 1
    BY <1>8, FailsBounds DEF Inv
  <2>2. Base' /\ Announced'
    BY <1>1, <1>5, <1>6, <1>8, <2>1, RequestKeeps DEF Went
  <2>3. Reading' /\ [OTT!Next]_(OTT!vars)
    BY <1>1, <1>5, <1>8, <2>1, SpendingFails DEF Inv
  <2> QED
    BY <2>2, <2>3 DEF Inv
<1> QED
  BY <1>1, <1>7, <1>8

LEMMA ValidateTargetKeeps ==
  ASSUME SessionGroupsAssumption, Inv, NEW r \in Req, ValidateTarget(r)
  PROVE  Inv' /\ [OTT!Next]_(OTT!vars)
<1>1. /\ UNCHANGED <<group, members, sessionState, queue, seen, found, fate, due, heeded>>
      /\ honoured' = honoured /\ tokens' = tokens /\ bounds' = bounds
      /\ work[r].pc = "validate"
      /\ \/ Goto(r, "create") /\ work[r].app \in Account
         \/ Goto(r, "idle")
  BY DEF ValidateTarget, At, scan, history
<1>2. r \in Worker
  BY Workers
<1>3. PICK t \in Token : work[r].token = t
  BY <1>1, <1>2, Carries DEF Exchanges
<1>4. t # None
  BY DEF SessionGroupsAssumption
<1>5. tokens' \in [Token -> {"unissued", "live", "spent"}]
  BY <1>1 DEF Inv, Base, TypeOK
<1>6. BoundsOK' /\ made' = made /\ errors' = errors
  BY <1>1, BoundsStay DEF Inv
<1>7. CASE Goto(r, "create") /\ work[r].app \in Account
  <2>1. Typed /\ Went(r, "create")
    BY <1>1, <1>2, <1>7, SlotGoes DEF Exchanges, Steps, Inv
  <2>2. Base' /\ Announced'
    BY <1>1, <1>5, <1>6, <2>1, RequestKeeps DEF Went
  <2>3. tokens[t] = "spent" \/ errors > 0
    BY <1>1, <1>3, <1>4 DEF Inv, Reading, Spent
  <2>4. tokens[t] # "unissued"
    BY <1>3, <1>4 DEF Inv, Reading
  <2>5. Reading'
    BY <1>1, <1>3, <1>6, <2>1, <2>3, <2>4, OthersRead DEF Went, Inv, Reading
  <2>6. \A q \in Req : work'[q].token = work[q].token
    BY <2>1 DEF Went, Same, Worker
  <2>7. [u \in Token |-> Cardinality(Exchanging(u))]'
          = [u \in Token |-> Cardinality(Exchanging(u))]
    BY <2>6, NoReaderMoves
  <2>8. (errors > 0)' = (errors > 0)
    BY <1>6
  <2> QED
    BY <1>1, <2>2, <2>5, <2>7, <2>8 DEF Inv, OTT!vars
<1>8. CASE Goto(r, "idle")
  <2>1. Typed /\ Finished(r)
    BY <1>2, <1>8, SlotEnds DEF Inv
  <2>2. Base' /\ Announced'
    BY <1>1, <1>5, <1>6, <2>1, RequestKeeps DEF Finished
  <2>3. Reading' /\ [OTT!Next]_(OTT!vars)
    BY <1>1, <1>3, <1>6, <2>1, Refused DEF Inv
  <2> QED
    BY <2>2, <2>3 DEF Inv
<1> QED
  BY <1>1, <1>7, <1>8

LEMMA CreateTargetSessionKeeps ==
  ASSUME SessionGroupsAssumption, Inv, NEW r \in Req, CreateTargetSession(r)
  PROVE  Inv' /\ [OTT!Next]_(OTT!vars)
<1>1. /\ UNCHANGED <<group, members, queue, seen, found, fate, due, heeded>>
      /\ tokens' = tokens /\ work[r].pc = "create" /\ Goto(r, "idle")
      /\ \/ /\ \E withMeta \in BOOLEAN : NewSession(work[r].app, withMeta)
            /\ served' = served
            /\ honoured' = [honoured EXCEPT ![work[r].token] = @ + 1]
         \/ Fails /\ UNCHANGED <<sessionState, honoured>>
  BY DEF CreateTargetSession, At, scan
<1>2. r \in Worker
  BY Workers
<1>3. PICK t \in Token : work[r].token = t
  BY <1>1, <1>2, Carries DEF Exchanges
<1>4. work[r].app \in Account
  BY <1>1, <1>2, Carries DEF Fits
<1>5. tokens' \in [Token -> {"unissued", "live", "spent"}]
  BY <1>1 DEF Inv, Base, TypeOK
<1>6. Typed /\ Finished(r) /\ Heard
  BY <1>1, <1>2, SlotEnds, Listening, Workers DEF Inv, Finished
<1>7. CASE /\ \E withMeta \in BOOLEAN : NewSession(work[r].app, withMeta)
           /\ served' = served
           /\ honoured' = [honoured EXCEPT ![work[r].token] = @ + 1]
  <2>1. /\ SessionsOK' /\ QueueOK' /\ Announced'
        /\ made' \in Nat /\ made' <= MaxSessions /\ edits' = edits /\ restarts' = restarts
        /\ errors' = errors \/ (errors' = errors + 1 /\ edits + restarts + errors < MaxEvents)
    BY <1>1, <1>4, <1>6, <1>7, NewSessionSteps DEF Inv
  <2>2. BoundsOK'
    BY <1>7, <2>1, Pieces DEF Inv, BoundsOK, Counted, SessionGroupsAssumption
  <2>3. Base'
    BY <1>1, <1>5, <1>6, <2>1, <2>2, Pieces, PiecesNext DEF Inv, GroupOK
  <2>4. Reading' /\ [OTT!Next]_(OTT!vars)
    BY <1>1, <1>3, <1>6, <1>7, <2>1, Honoured DEF Inv
  <2> QED
    BY <2>1, <2>3, <2>4 DEF Inv
<1>8. CASE Fails /\ UNCHANGED <<sessionState, honoured>>
  <2>1. BoundsOK' /\ made' = made /\ errors' = errors + 1
    BY <1>8, FailsBounds DEF Inv
  <2>2. Base' /\ Announced'
    BY <1>1, <1>5, <1>6, <1>8, <2>1, RequestKeeps DEF Finished
  <2>3. Reading' /\ [OTT!Next]_(OTT!vars)
    BY <1>1, <1>3, <1>6, <1>8, <2>1, Refused DEF Inv
  <2> QED
    BY <2>2, <2>3 DEF Inv
<1> QED
  BY <1>1, <1>7, <1>8

-----------------------------------------------------------------------------
(* Sessions that end.                                                      *)

\* The sessions of the peers are live ones.
LEMMA FollowLive ==
  ASSUME NEW a
  PROVE  Follow(a) \subseteq live /\ OfApp(a) \subseteq live
  BY DEF Follow, OfApp

\* Sessions end, and each that leaves its metadata key is marked, or was over.
LEMMA SessionsEnd ==
  ASSUME Base, Announced, app' = app, refreshed' = refreshed, made' = made,
         live' \subseteq live, meta' \subseteq meta, due' \subseteq due \cup live,
         heeded' \subseteq heeded \cup {s \in {work[Listener].session} : Hears},
         seen' \cup found' \subseteq seen \cup found \cup meta,
         seen' \cup found' = {} \/ Scanner \in Detectors,
         fate' \in [Session -> {"", "bulk", "expired", "left"}],
         \A s \in Session : fate[s] # "" => fate'[s] # "",
         1 .. made \subseteq Session
  PROVE  /\ SessionsOK'
         /\ \A s \in 1 .. made : Over(s) => OverNext(s)
         /\ \A s \in heeded' : s \in heeded \/ (Hears /\ s = work[Listener].session)
<1>1. /\ live \cup meta \cup refreshed \cup due \cup heeded \subseteq 1 .. made
      /\ seen \cup found \subseteq 1 .. made /\ app \in [Session -> Account \cup {None}]
      /\ Hears => work[Listener].session \in 1 .. made
  BY DEF Base, TypeOK, Announced
<1>2. SessionsOK'
  BY <1>1 DEF SessionsOK
<1>3. \A s \in 1 .. made : Over(s) => OverNext(s)
  BY DEF Over, OverNext
<1> QED
  BY <1>2, <1>3

\* The same, when nothing is announced meanwhile.
LEMMA QuietEnd ==
  ASSUME SessionGroupsAssumption, Base, Announced, Heard,
         app' = app, refreshed' = refreshed, made' = made, queue' = queue,
         live' \subseteq live, meta' \subseteq meta, due' \subseteq due \cup live,
         heeded' \subseteq heeded \cup {s \in {work[Listener].session} : Hears},
         seen' \cup found' \subseteq seen \cup found \cup meta,
         seen' \cup found' = {} \/ Scanner \in Detectors,
         fate' \in [Session -> {"", "bulk", "expired", "left"}],
         \A s \in Session : fate[s] # "" => fate'[s] # "",
         \A s \in meta' \ live' : s \in meta \ live \/ fate'[s] # ""
  PROVE  SessionsOK' /\ QueueOK' /\ Announced'
<1>0. made \in Nat /\ 1 .. made \subseteq Session
  BY Made
<1>1. made' \in Nat /\ made' >= made
  BY <1>0, Made, Zenon
<1>2. /\ SessionsOK'
      /\ \A s \in 1 .. made : Over(s) => OverNext(s)
      /\ \A s \in heeded' : s \in heeded \/ (Hears /\ s = work[Listener].session)
  BY <1>0, SessionsEnd
<1>3. QueueOK' /\ \A i \in 1 .. Len(queue') : queue'[i] \in 1 .. made' /\ OverNext(queue'[i])
  BY <1>1, <1>2, QueueStays
<1>4. Hears' => work'[Listener].session \in 1 .. made' /\ OverNext(work'[Listener].session)
  BY <1>1, <1>2, ListenerStays
<1>5. \A s \in meta' \ live' : s \in meta \ live \/ OverNext(s)
  BY DEF OverNext
<1>6. Announced'
  BY <1>2, <1>3, <1>4, <1>5, AnnouncedKept
<1> QED
  BY <1>2, <1>3, <1>6

\* A task that revokes the sessions of the peers of a.
LEMMA Task ==
  ASSUME SessionGroupsAssumption, NEW a \in App \cup {None}, NEW q,
         \/ q = [Idle EXCEPT !.pc = "group", !.app = a]
         \/ q = [Idle EXCEPT !.pc = "group", !.app = a, !.forced = TRUE]
  PROVE  q \in Work /\ Fits(q) /\ q.token = None
<1>1. q \in Work /\ q.pc = "group" /\ q.token = None
  BY Zero DEF Idle, Work, Steps
<1> QED
  BY <1>1 DEF Fits, Exchanges

\* Sessions end, and each that leaves its metadata key is marked, or was over.
Leaves ==
  /\ live' \subseteq live /\ meta' \subseteq meta
  /\ errors' = errors \/ Miss
  /\ fate' \in [Session -> {"", "bulk", "expired", "left"}]
  /\ \A x \in Session : fate[x] # "" => fate'[x] # ""
  /\ \A x \in meta' \ live' : x \in meta \ live \/ fate'[x] # ""

LEMMA DeletionMarks ==
  ASSUME Base, NEW s \in Session, DeleteSession(s)
  PROVE  Leaves
<1>1. fate \in [Session -> {"", "bulk", "expired", "left"}]
  BY DEF Base, TypeOK
<1>2. CASE live' = live \ {s} /\ meta' = meta \ {s} /\ errors' = errors /\ fate' = fate
  BY <1>1, <1>2 DEF Leaves
<1>3. CASE live' = live \ {s} /\ Miss /\ meta' = meta /\ fate' = [fate EXCEPT ![s] = "left"]
  <2>1. /\ fate' \in [Session -> {"", "bulk", "expired", "left"}] /\ fate'[s] # ""
        /\ \A x \in Session : fate[x] # "" => fate'[x] # ""
    BY <1>1, <1>3
  <2>2. \A x \in meta' \ live' : x \in meta \ live \/ x = s
    BY <1>3
  <2> QED
    BY <1>3, <2>1, <2>2 DEF Leaves
<1> QED
  BY <1>2, <1>3 DEF DeleteSession, MetaAfterDelete

\* What a logout or a revocation of one session has in common.
LEMMA OneEnds ==
  ASSUME SessionGroupsAssumption, Inv, NEW r \in Req, NEW q \in Work,
         Fits(q), q.token = None, Begin(r, q), Leaves, due' \subseteq due \cup live,
         UNCHANGED <<group, members, app, refreshed, tokens, queue, scan, honoured, heeded>>
  PROVE  Inv' /\ [OTT!Next]_(OTT!vars)
<1>1. /\ At(r, "idle") /\ Serve /\ work' = [work EXCEPT ![r] = q]
      /\ made' = made /\ edits' = edits /\ restarts' = restarts
      /\ seen' = seen /\ found' = found
  BY DEF Begin, scan
<1>2. r \in Worker
  BY Workers
<1>3. errors' = errors \/ errors' = errors + 1
  BY DEF Leaves, Miss
<1>5. Typed /\ Same(r) /\ work'[r].token = None
  BY <1>1, <1>2, Slot DEF Inv
<1>6. Heard
  BY <1>2, <1>5, Workers, Listening
<1>7. BoundsOK'
  BY <1>1, ServeBounds DEF Inv, Leaves
<1>8. /\ Base /\ Announced /\ app' = app /\ refreshed' = refreshed /\ queue' = queue
      /\ seen' \cup found' \subseteq seen \cup found \cup meta
      /\ seen' \cup found' = {} \/ Scanner \in Detectors
      /\ heeded' \subseteq heeded \cup {x \in {work[Listener].session} : Hears}
  BY <1>1 DEF Inv, Base
<1>9. SessionsOK' /\ QueueOK' /\ Announced'
  <2>1. /\ live' \subseteq live /\ meta' \subseteq meta
        /\ fate' \in [Session -> {"", "bulk", "expired", "left"}]
        /\ \A x \in Session : fate[x] # "" => fate'[x] # ""
        /\ \A x \in meta' \ live' : x \in meta \ live \/ fate'[x] # ""
    BY DEF Leaves
  <2> QED
    BY <1>1, <1>6, <1>8, <2>1, QuietEnd
<1>10. Base'
  BY <1>5, <1>7, <1>9, Pieces, PiecesNext DEF Inv, GroupOK
<1>11. work[r].token = None
  BY <1>1, <1>2, Carries
<1>12. \A v \in Req : /\ work'[v].token = work[v].token
                      /\ work[v].token # None => work'[v].pc = work[v].pc
  BY <1>5, <1>11 DEF Same, Worker
<1>13. Reading' /\ [OTT!Next]_(OTT!vars)
  BY <1>3, <1>12, Aside DEF Inv
<1> QED
  BY <1>9, <1>10, <1>13 DEF Inv

LEMMA LogoutUserKeeps ==
  ASSUME SessionGroupsAssumption, Inv, NEW r \in Req, NEW s \in Session, LogoutUser(r, s)
  PROVE  Inv' /\ [OTT!Next]_(OTT!vars)
<1> DEFINE q == [Idle EXCEPT !.pc = "group", !.app = app[s]]
<1>1. /\ app[s] \in App \cup {None}
      /\ fate \in [Session -> {"", "bulk", "expired", "left"}]
  BY DEF Inv, Base, TypeOK, SessionGroupsAssumption
<1>2. q \in Work /\ Fits(q) /\ q.token = None
  BY <1>1, Task
<1>3. /\ Begin(r, q) /\ due' \subseteq due \cup live
      /\ DeleteSession(s) \/ (Miss /\ live' = live /\ meta' = meta /\ fate' = fate)
      /\ UNCHANGED <<group, members, app, refreshed, tokens, queue, scan, honoured, heeded>>
  BY FollowLive DEF LogoutUser
<1>4. Leaves
  <2>1. CASE DeleteSession(s)
    BY <2>1, DeletionMarks DEF Inv
  <2>2. CASE Miss /\ live' = live /\ meta' = meta /\ fate' = fate
    BY <1>1, <2>2 DEF Leaves
  <2> QED
    BY <1>3, <2>1, <2>2
<1> QED
  BY <1>2, <1>3, <1>4, OneEnds

LEMMA SessionRevokeKeeps ==
  ASSUME SessionGroupsAssumption, Inv, NEW r \in Req, NEW s \in Session, SessionRevoke(r, s)
  PROVE  Inv' /\ [OTT!Next]_(OTT!vars)
<1> DEFINE q == [Idle EXCEPT !.pc = "group", !.app = app[s], !.forced = TRUE]
<1>1. app[s] \in App \cup {None}
  BY DEF Inv, Base, TypeOK, SessionGroupsAssumption
<1>2. q \in Work /\ Fits(q) /\ q.token = None
  BY <1>1, Task
<1>3. /\ Begin(r, q) /\ due' \subseteq due \cup live /\ DeleteSession(s)
      /\ UNCHANGED <<group, members, app, refreshed, tokens, queue, scan, honoured, heeded>>
  BY FollowLive DEF SessionRevoke
<1>4. Leaves
  BY <1>3, DeletionMarks DEF Inv
<1> QED
  BY <1>2, <1>3, <1>4, OneEnds

\* The sessions marked by a deletion in bulk.
LEMMA Marked ==
  ASSUME Base, NEW set \in SUBSET Session, NEW how \in {"bulk", "expired"},
         fate' = Ended(set, how)
  PROVE  /\ fate' \in [Session -> {"", "bulk", "expired", "left"}]
         /\ \A s \in Session : fate[s] # "" => fate'[s] # ""
         /\ \A s \in set : fate'[s] # ""
<1>1. fate \in [Session -> {"", "bulk", "expired", "left"}]
  BY DEF Base, TypeOK
<1> QED
  BY <1>1 DEF Ended

LEMMA SessionRevokeAllForUserKeeps ==
  ASSUME SessionGroupsAssumption, Inv, NEW r \in Req, NEW a \in Account,
         SessionRevokeAllForUser(r, a)
  PROVE  Inv' /\ [OTT!Next]_(OTT!vars)
<1> DEFINE q == [Idle EXCEPT !.pc = "group", !.app = a, !.forced = TRUE]
<1>1. /\ Begin(r, q)
      /\ live' = live \ OfApp(a) /\ fate' = Ended(OfApp(a), "bulk")
      /\ due' = due \cup Follow(a) /\ group' = group /\ members' = members /\ app' = app
      /\ meta' = meta /\ refreshed' = refreshed /\ tokens' = tokens /\ queue' = queue
      /\ seen' = seen /\ found' = found /\ honoured' = honoured /\ heeded' = heeded
      /\ errors' = errors
  BY DEF SessionRevokeAllForUser, scan
<1>2. /\ At(r, "idle") /\ Serve /\ work' = [work EXCEPT ![r] = q]
      /\ made' = made /\ edits' = edits /\ restarts' = restarts /\ errors' = errors
  BY <1>1 DEF Begin
<1>3. r \in Worker /\ a \in App
  BY Workers DEF SessionGroupsAssumption
<1>4. q \in Work /\ Fits(q) /\ q.token = None
  BY <1>3, Task
<1> HIDE DEF q
<1>5. Typed /\ Same(r) /\ work'[r].token = None
  BY <1>2, <1>3, <1>4, Slot DEF Inv
<1>6. Heard
  BY <1>3, <1>5, Workers, Listening
<1>7. BoundsOK'
  BY <1>2, ServeBounds DEF Inv
<1>8. OfApp(a) \in SUBSET Session
  BY FollowLive, Made DEF Inv, Base, TypeOK
<1>9. /\ fate' \in [Session -> {"", "bulk", "expired", "left"}]
      /\ \A s \in Session : fate[s] # "" => fate'[s] # ""
      /\ \A s \in OfApp(a) : fate'[s] # ""
  BY <1>1, <1>8, Marked DEF Inv
<1>10. seen \cup found = {} \/ Scanner \in Detectors
  BY DEF Inv, Base
<1>11. SessionsOK' /\ QueueOK' /\ Announced'
  BY <1>1, <1>2, <1>6, <1>9, <1>10, QuietEnd, FollowLive DEF Inv
<1>12. Base'
  BY <1>1, <1>5, <1>7, <1>11, Pieces, PiecesNext DEF Inv, GroupOK
<1>13. work[r].token = None
  BY <1>2, <1>3, Carries
<1>14. \A v \in Req : /\ work'[v].token = work[v].token
                      /\ work[v].token # None => work'[v].pc = work[v].pc
  BY <1>5, <1>13 DEF Same, Worker
<1>15. Reading' /\ [OTT!Next]_(OTT!vars)
  BY <1>1, <1>2, <1>14, Aside DEF Inv
<1> QED
  BY <1>11, <1>12, <1>15 DEF Inv

LEMMA HashExpiresKeeps ==
  ASSUME SessionGroupsAssumption, Inv, NEW s \in Session, HashExpires(s)
  PROVE  Inv' /\ [OTT!Next]_(OTT!vars)
<1>1. /\ s \in live \ meta /\ live' = live \ {s} /\ group' = group /\ members' = members
      /\ app' = app /\ meta' = meta /\ refreshed' = refreshed /\ tokens' = tokens
      /\ work' = work /\ queue' = queue /\ seen' = seen /\ found' = found /\ bounds' = bounds
      /\ honoured' = honoured /\ fate' = fate /\ due' = due /\ heeded' = heeded
  BY DEF HashExpires, scan, history
<1>2. Heard
  BY <1>1 DEF Heard, Hears, At
<1>3. BoundsOK' /\ made' = made /\ errors' = errors
  BY <1>1, BoundsStay DEF Inv
<1>4. /\ seen \cup found = {} \/ Scanner \in Detectors
      /\ fate \in [Session -> {"", "bulk", "expired", "left"}]
  BY DEF Inv, Base, TypeOK
<1>5. SessionsOK' /\ QueueOK' /\ Announced'
  BY <1>1, <1>2, <1>3, <1>4, QuietEnd DEF Inv
<1>6. Base'
  BY <1>1, <1>3, <1>5, Pieces, PiecesNext DEF Inv, GroupOK, Typed
<1>7. Reading' /\ [OTT!Next]_(OTT!vars)
  BY <1>1, <1>3, Aside DEF Inv
<1> QED
  BY <1>5, <1>6, <1>7 DEF Inv

LEMMA MetaExpiresKeeps ==
  ASSUME SessionGroupsAssumption, Inv, NEW s \in Session, MetaExpires(s)
  PROVE  Inv' /\ [OTT!Next]_(OTT!vars)
<1>1. /\ s \in meta /\ meta' = meta \ {s}
      /\ live' = IF s \in refreshed THEN live ELSE live \ {s}
      /\ fate' = Ended({s} \cap (live \ refreshed), "expired")
      /\ due' = IF s \in live \ refreshed THEN due \cup Follow(app[s]) ELSE due
      /\ queue' = IF Listener \in Detectors THEN Append(queue, s) ELSE queue
      /\ group' = group /\ members' = members /\ app' = app /\ refreshed' = refreshed
      /\ tokens' = tokens /\ work' = work /\ seen' = seen /\ found' = found /\ bounds' = bounds
      /\ honoured' = honoured /\ heeded' = heeded
  BY DEF MetaExpires, scan
<1>2. Heard
  BY <1>1 DEF Heard, Hears, At
<1>3. BoundsOK' /\ made' = made /\ errors' = errors
  BY <1>1, BoundsStay DEF Inv
<1>4. /\ seen \cup found = {} \/ Scanner \in Detectors
      /\ queue \in Seq(Session)
      /\ queue = <<>> \/ Listener \in Detectors
      /\ \A i \in 1 .. Len(queue) : queue[i] \in 1 .. made
      /\ meta \subseteq 1 .. made
  BY DEF Inv, Base, TypeOK
<1>5. /\ fate' \in [Session -> {"", "bulk", "expired", "left"}]
      /\ \A x \in Session : fate[x] # "" => fate'[x] # ""
      /\ \A x \in {s} \cap (live \ refreshed) : fate'[x] # ""
  BY <1>1, Marked DEF Inv
<1>6. 1 .. made \subseteq Session /\ made \in Nat /\ made' >= made
  BY <1>3, Made DEF Inv
<1>7. live' \subseteq live /\ due' \subseteq due \cup live
  BY <1>1, FollowLive
<1>8. /\ SessionsOK'
      /\ \A x \in 1 .. made : Over(x) => OverNext(x)
  BY <1>1, <1>3, <1>4, <1>5, <1>6, <1>7, SessionsEnd DEF Inv
<1>9. OverNext(s)
  <2>1. CASE s \in refreshed
    BY <1>1, <2>1 DEF OverNext
  <2>2. CASE s \in live \ refreshed
    BY <1>5, <2>2 DEF OverNext
  <2>3. CASE s \notin live
    <3>1. s \in 1 .. made /\ Over(s)
      BY <1>1, <1>4, <2>3 DEF Inv, Announced
    <3> QED
      BY <1>8, <3>1
  <2> QED
    BY <2>1, <2>2, <2>3
<1>10. \A i \in 1 .. Len(queue) : queue[i] \in 1 .. made /\ OverNext(queue[i])
  BY <1>4, <1>8 DEF Inv, Announced
<1>11. /\ QueueOK'
       /\ \A i \in 1 .. Len(queue') : queue'[i] \in 1 .. made' /\ OverNext(queue'[i])
  <2>1. CASE Listener \in Detectors
    <3>1. queue' = Append(queue, s)
      BY <1>1, <2>1
    <3>2. /\ queue' \in Seq(Session) /\ Len(queue') = Len(queue) + 1
          /\ \A i \in 1 .. Len(queue) : queue'[i] = queue[i]
          /\ queue'[Len(queue) + 1] = s /\ Len(queue) \in Nat
      BY <1>4, <3>1
    <3>3. \A i \in 1 .. Len(queue') : queue'[i] \in 1 .. made /\ OverNext(queue'[i])
      <4>1. ASSUME NEW i \in 1 .. Len(queue')
            PROVE  i \in 1 .. Len(queue) \/ i = Len(queue) + 1
        BY <3>2
      <4>2. s \in 1 .. made
        BY <1>1, <1>4
      <4> QED
        BY <1>9, <1>10, <3>2, <4>1, <4>2
    <3> QED
      BY <1>3, <2>1, <3>2, <3>3 DEF QueueOK
  <2>2. CASE Listener \notin Detectors
    <3>1. queue' = queue
      BY <1>1, <2>2
    <3> QED
      BY <1>3, <1>4, <1>10, <3>1 DEF QueueOK
  <2> QED
    BY <2>1, <2>2
<1>12. Hears' => work'[Listener].session \in 1 .. made' /\ OverNext(work'[Listener].session)
  BY <1>2, <1>3, <1>6, <1>8, ListenerStays DEF Inv
<1>13. \A x \in meta' \ live' : x \in meta \ live
  BY <1>1
<1>14. Announced'
  BY <1>1, <1>8, <1>11, <1>12, <1>13, AnnouncedKept DEF Inv
<1>15. Base'
  BY <1>1, <1>3, <1>8, <1>11, Pieces, PiecesNext DEF Inv, GroupOK, Typed
<1>16. Reading' /\ [OTT!Next]_(OTT!vars)
  BY <1>1, <1>3, Aside DEF Inv
<1> QED
  BY <1>14, <1>15, <1>16 DEF Inv

-----------------------------------------------------------------------------
(* Revocation, by whatever worker.                                         *)

\* A worker without a token, before and after, is none of the readers.
LEMMA Tokenless ==
  ASSUME SessionGroupsAssumption, NEW w \in Worker, Same(w), work[w].token = None,
         work'[w].token = None
  PROVE  \A r \in Req : /\ work'[r].token = work[r].token
                        /\ work[r].token # None => work'[r].pc = work[r].pc
  BY Workers DEF Same

\* A worker goes on with what it carries, or is idle again.
LEMMA WorkerStep ==
  ASSUME SessionGroupsAssumption, Inv, NEW w \in Worker, work[w].pc \notin Exchanges,
         ~ At(w, "idle"), NEW step \in Steps \ Exchanges, NEW set \in SUBSET App,
         \/ work' = [work EXCEPT ![w] = Idle]
         \/ work' = [work EXCEPT ![w] = [@ EXCEPT !.pc = step, !.peers = set]]
         \/ work' = [work EXCEPT ![w] = [@ EXCEPT !.pc = step]]
  PROVE  /\ Typed /\ Heard
         /\ \A r \in Req : /\ work'[r].token = work[r].token
                           /\ work[r].token # None => work'[r].pc = work[r].pc
<1>1. work[w] \in Work /\ Fits(work[w]) /\ work[w].token = None /\ work[w].pc # "idle"
  BY Carries DEF At
<1>2. CASE work' = [work EXCEPT ![w] = Idle]
  <2>1. Typed /\ Same(w) /\ work'[w] = Idle
    BY <1>2, Zero, Slot DEF Inv
  <2> QED
    BY <1>1, <2>1, Zero, Listening, Tokenless
<1>3. ASSUME NEW q \in Work, q.pc = step, q.token = work[w].token,
             q.session = work[w].session, work' = [work EXCEPT ![w] = q]
      PROVE  /\ Typed /\ Heard
             /\ \A r \in Req : /\ work'[r].token = work[r].token
                               /\ work[r].token # None => work'[r].pc = work[r].pc
  <2>1. Fits(q)
    BY <1>1, <1>3 DEF Fits, Exchanges
  <2>2. Typed /\ Same(w) /\ work'[w] = q
    BY <1>3, <2>1, Slot DEF Inv
  <2> QED
    BY <1>1, <1>3, <2>2, Listening, Tokenless
<1>4. CASE work' = [work EXCEPT ![w] = [@ EXCEPT !.pc = step, !.peers = set]]
  <2> DEFINE q == [work[w] EXCEPT !.pc = step, !.peers = set]
  <2>1. /\ q \in Work /\ q.pc = step /\ q.token = work[w].token
        /\ q.session = work[w].session /\ work' = [work EXCEPT ![w] = q]
    BY <1>1, <1>4 DEF Work
  <2> HIDE DEF q
  <2> QED
    BY <1>3, <2>1
<1>5. CASE work' = [work EXCEPT ![w] = [@ EXCEPT !.pc = step]]
  <2> DEFINE q == [work[w] EXCEPT !.pc = step]
  <2>1. /\ q \in Work /\ q.pc = step /\ q.token = work[w].token
        /\ q.session = work[w].session /\ work' = [work EXCEPT ![w] = q]
    BY <1>1, <1>5 DEF Work
  <2> HIDE DEF q
  <2> QED
    BY <1>3, <2>1
<1> QED
  BY <1>2, <1>4, <1>5

\* A step that changes the workers, and nothing of the sessions or the bounds.
LEMMA WorkKeeps ==
  ASSUME SessionGroupsAssumption, Inv, Typed, Heard, GroupOK', BoundsOK', made' = made,
         errors' \in {errors, errors + 1},
         UNCHANGED <<sessionState, tokens, queue, seen, found, history>>,
         \A r \in Req : /\ work'[r].token = work[r].token
                        /\ work[r].token # None => work'[r].pc = work[r].pc
  PROVE  Inv' /\ [OTT!Next]_(OTT!vars)
<1>1. /\ app' = app /\ live' = live /\ meta' = meta /\ refreshed' = refreshed
      /\ honoured' = honoured /\ fate' = fate /\ due' = due /\ heeded' = heeded
  BY DEF sessionState, history
<1>2. Announced' /\ QueueOK'
  BY <1>1, Still DEF Inv
<1>3. Base'
  BY <1>1, <1>2, Pieces, PiecesNext DEF Inv, SessionsOK
<1>4. Reading' /\ [OTT!Next]_(OTT!vars)
  BY <1>1, Aside DEF Inv
<1> QED
  BY <1>2, <1>3, <1>4 DEF Inv

LEMMA GetAppsKeeps ==
  ASSUME SessionGroupsAssumption, Inv, NEW w \in Worker, GetAppsInSessionGroup(w)
  PROVE  Inv' /\ [OTT!Next]_(OTT!vars)
<1>1. /\ work[w].pc = "group"
      /\ \/ work' = [work EXCEPT ![w] = Idle]
         \/ work' = [work EXCEPT ![w] = [@ EXCEPT !.pc = "peers", !.peers = Concerned(w)]]
      /\ group' = group /\ members' = members /\ bounds' = bounds
      /\ UNCHANGED <<sessionState, tokens, queue, seen, found, history>>
  BY DEF GetAppsInSessionGroup, At, scan
<1>2. Concerned(w) \subseteq App
  BY DEF Concerned, Peers, Inv, Base, TypeOK
<1>3. /\ Typed /\ Heard
      /\ \A r \in Req : /\ work'[r].token = work[r].token
                        /\ work[r].token # None => work'[r].pc = work[r].pc
  BY <1>1, <1>2, WorkerStep DEF At, Steps, Exchanges
<1>4. BoundsOK' /\ errors' = errors /\ made' = made
  BY <1>1, BoundsStay DEF Inv
<1>5. GroupOK'
  BY <1>1, Pieces DEF Inv, GroupOK
<1> QED
  BY <1>1, <1>3, <1>4, <1>5, WorkKeeps

LEMMA ShouldRevokeKeeps ==
  ASSUME SessionGroupsAssumption, Inv, NEW w \in Worker, ShouldRevokeGroupSessions(w)
  PROVE  Inv' /\ [OTT!Next]_(OTT!vars)
<1>1. /\ work[w].pc = "should"
      /\ \/ work' = [work EXCEPT ![w] = Idle]
         \/ work' = [work EXCEPT ![w] = [@ EXCEPT !.pc = "group"]]
      /\ group' = group /\ members' = members /\ bounds' = bounds
      /\ UNCHANGED <<sessionState, tokens, queue, seen, found, history>>
  BY DEF ShouldRevokeGroupSessions, Goto, At, scan
<1>2. /\ Typed /\ Heard
      /\ \A r \in Req : /\ work'[r].token = work[r].token
                        /\ work[r].token # None => work'[r].pc = work[r].pc
  BY <1>1, WorkerStep DEF At, Steps, Exchanges
<1>3. BoundsOK' /\ errors' = errors /\ made' = made
  BY <1>1, BoundsStay DEF Inv
<1>4. GroupOK'
  BY <1>1, Pieces DEF Inv, GroupOK
<1> QED
  BY <1>1, <1>2, <1>3, <1>4, WorkKeeps

LEMMA RevokeAllKeeps ==
  ASSUME SessionGroupsAssumption, Inv, NEW w \in Worker, RevokeAllUserSessions(w)
  PROVE  Inv' /\ [OTT!Next]_(OTT!vars)
<1>1. PICK b \in work[w].peers :
        /\ work' = [work EXCEPT ![w] = IF Rest(w, b) = {} THEN Idle
                      ELSE [@ EXCEPT !.peers = Rest(w, b)]]
        /\ LET ended == IF b \in Account THEN OfApp(b) ELSE {} IN
           \/ /\ live' = live \ ended /\ fate' = Ended(ended, "bulk")
              /\ heeded' = IF w = Listener /\ ended # {}
                           THEN heeded \cup {work[w].session} ELSE heeded
              /\ UNCHANGED bounds
           \/ b \in Account /\ Fails /\ UNCHANGED <<live, fate, heeded>>
  BY DEF RevokeAllUserSessions
<1>2. /\ work[w].pc = "peers" /\ group' = group /\ members' = members /\ app' = app
      /\ meta' = meta /\ refreshed' = refreshed /\ tokens' = tokens /\ queue' = queue
      /\ seen' = seen /\ found' = found /\ honoured' = honoured /\ due' = due
  BY DEF RevokeAllUserSessions, At, scan
<1>3. work[w] \in Work /\ Rest(w, b) \subseteq App
  BY Carries DEF Rest, Work
<1>4. \/ work' = [work EXCEPT ![w] = Idle]
      \/ work' = [work EXCEPT ![w] = [@ EXCEPT !.pc = "peers", !.peers = Rest(w, b)]]
  <2>1. [work[w] EXCEPT !.peers = Rest(w, b)]
          = [work[w] EXCEPT !.pc = "peers", !.peers = Rest(w, b)]
    BY <1>2, <1>3 DEF Work
  <2> QED
    BY <1>1, <2>1
<1>5. /\ Typed /\ Heard
      /\ \A r \in Req : /\ work'[r].token = work[r].token
                        /\ work[r].token # None => work'[r].pc = work[r].pc
  BY <1>2, <1>3, <1>4, WorkerStep DEF At, Steps, Exchanges
<1>6. /\ seen \cup found = {} \/ Scanner \in Detectors
      /\ fate \in [Session -> {"", "bulk", "expired", "left"}]
  BY DEF Inv, Base, TypeOK
<1> DEFINE ended == IF b \in Account THEN OfApp(b) ELSE {}
<1>7. CASE /\ live' = live \ ended /\ fate' = Ended(ended, "bulk")
           /\ heeded' = IF w = Listener /\ ended # {}
                        THEN heeded \cup {work[w].session} ELSE heeded
           /\ UNCHANGED bounds
  <2>1. BoundsOK' /\ errors' = errors /\ made' = made
    BY <1>7, BoundsStay DEF Inv
  <2>2. ended \in SUBSET Session /\ ended \subseteq live
    BY FollowLive, Made DEF Inv, Base, TypeOK
  <2> HIDE DEF ended
  <2>3. /\ fate' \in [Session -> {"", "bulk", "expired", "left"}]
        /\ \A s \in Session : fate[s] # "" => fate'[s] # ""
        /\ \A s \in ended : fate'[s] # ""
    BY <1>7, <2>2, Marked DEF Inv
  <2>4. w = Listener => Hears
    BY <1>2, Workers DEF Hears, At
  <2>5. heeded' \subseteq heeded \cup {s \in {work[Listener].session} : Hears}
    BY <1>7, <2>4
  <2>6. SessionsOK' /\ QueueOK' /\ Announced'
    BY <1>2, <1>5, <1>6, <1>7, <2>1, <2>2, <2>3, <2>5, QuietEnd DEF Inv
  <2>7. Base'
    BY <1>2, <1>5, <2>1, <2>6, Pieces, PiecesNext DEF Inv, GroupOK
  <2>8. Reading' /\ [OTT!Next]_(OTT!vars)
    BY <1>2, <1>5, <2>1, Aside DEF Inv
  <2> QED
    BY <2>6, <2>7, <2>8 DEF Inv
<1>8. CASE Fails /\ UNCHANGED <<live, fate, heeded>>
  <2>1. BoundsOK' /\ errors' = errors + 1 /\ made' = made
    BY <1>8, FailsBounds DEF Inv
  <2>2. GroupOK'
    BY <1>2, Pieces DEF Inv, GroupOK
  <2>3. UNCHANGED <<sessionState, tokens, queue, seen, found, history>>
    BY <1>2, <1>8 DEF sessionState, history
  <2> QED
    BY <1>5, <2>1, <2>2, <2>3, WorkKeeps
<1> QED
  BY <1>1, <1>7, <1>8

-----------------------------------------------------------------------------
(* Listening, scanning and restarts.                                       *)

\* A detector takes an expired key.
LEMMA Taken ==
  ASSUME SessionGroupsAssumption, Inv, NEW w \in Detectors, NEW s \in 1 .. made,
         HandleExpiredKey(w, s)
  PROVE  /\ Typed /\ Same(w) /\ work'[w].session = s
         /\ \A r \in Req : /\ work'[r].token = work[r].token
                           /\ work[r].token # None => work'[r].pc = work[r].pc
<1> DEFINE q == [Idle EXCEPT !.pc = "should", !.app = app[s], !.session = s]
<1>1. At(w, "idle") /\ work' = [work EXCEPT ![w] = q]
  BY DEF HandleExpiredKey
<1>2. w \in Worker /\ s \in Session
  BY Made DEF Worker, Inv
<1>3. app[s] \in App \cup {None}
  BY <1>2 DEF Inv, Base, TypeOK, SessionGroupsAssumption
<1>4. q \in Work /\ q.pc = "should" /\ q.token = None /\ q.session = s
  BY <1>2, <1>3, Zero DEF Idle, Work, Steps
<1>5. Fits(q)
  BY <1>4 DEF Fits, Exchanges
<1> HIDE DEF q
<1>6. Typed /\ Same(w) /\ work'[w] = q
  BY <1>1, <1>2, <1>4, <1>5, Slot DEF Inv
<1>7. work[w].token = None
  BY <1>1, <1>2, Carries
<1> QED
  BY <1>2, <1>4, <1>6, <1>7, Tokenless

LEMMA ListenKeeps ==
  ASSUME SessionGroupsAssumption, Inv, ListenForKeyExpirations
  PROVE  Inv' /\ [OTT!Next]_(OTT!vars)
<1>1. /\ queue # <<>> /\ HandleExpiredKey(Listener, Head(queue)) /\ queue' = Tail(queue)
      /\ group' = group /\ members' = members /\ tokens' = tokens /\ seen' = seen
      /\ found' = found /\ bounds' = bounds /\ app' = app /\ live' = live /\ meta' = meta
      /\ refreshed' = refreshed /\ honoured' = honoured /\ fate' = fate /\ due' = due
      /\ heeded' = heeded
  BY DEF ListenForKeyExpirations, scan, history, sessionState
<1>2. /\ queue \in Seq(Session)
      /\ queue = <<>> \/ Listener \in Detectors
      /\ \A i \in 1 .. Len(queue) : queue[i] \in 1 .. made /\ Over(queue[i])
  BY DEF Inv, Base, TypeOK, Announced
<1>3. /\ Len(queue) \in Nat /\ Len(queue) > 0 /\ Head(queue) = queue[1]
      /\ queue' \in Seq(Session) /\ Len(queue') = Len(queue) - 1
      /\ \A i \in 1 .. Len(queue') : queue'[i] = queue[i + 1]
  BY <1>1, <1>2
<1>4. Listener \in Detectors /\ queue[1] \in 1 .. made /\ Over(queue[1])
  BY <1>1, <1>2, <1>3
<1>5. /\ Typed /\ Same(Listener) /\ work'[Listener].session = queue[1]
      /\ \A r \in Req : /\ work'[r].token = work[r].token
                        /\ work[r].token # None => work'[r].pc = work[r].pc
  BY <1>1, <1>3, <1>4, Taken
<1>6. BoundsOK' /\ made' = made /\ errors' = errors
  BY <1>1, BoundsStay DEF Inv
<1>7. \A s \in 1 .. made : Over(s) => OverNext(s)
  BY <1>1 DEF Over, OverNext
<1>8. \A i \in 1 .. Len(queue') : i + 1 \in 1 .. Len(queue)
  BY <1>3
<1>9. \A i \in 1 .. Len(queue') : queue'[i] \in 1 .. made' /\ OverNext(queue'[i])
  BY <1>2, <1>3, <1>6, <1>7, <1>8
<1>10. work'[Listener].session \in 1 .. made' /\ OverNext(work'[Listener].session)
  BY <1>4, <1>5, <1>6, <1>7
<1>11. Announced'
  BY <1>1, <1>7, <1>9, <1>10, AnnouncedKept DEF Inv
<1>12. QueueOK'
  BY <1>3, <1>4, <1>9 DEF QueueOK
<1>13. Base'
  BY <1>1, <1>5, <1>6, <1>12, Pieces, PiecesNext DEF Inv, GroupOK, SessionsOK
<1>14. Reading' /\ [OTT!Next]_(OTT!vars)
  BY <1>1, <1>5, <1>6, Aside DEF Inv
<1> QED
  BY <1>11, <1>13, <1>14 DEF Inv

\* The scanner reads keys and remembers those that are gone.
LEMMA ScannerKeeps ==
  ASSUME SessionGroupsAssumption, Inv, Typed, Heard,
         seen' \cup found' \subseteq seen \cup found \cup meta,
         seen' \cup found' = {} \/ Scanner \in Detectors,
         UNCHANGED <<group, members, sessionState, tokens, queue, bounds, history>>,
         \A r \in Req : /\ work'[r].token = work[r].token
                        /\ work[r].token # None => work'[r].pc = work[r].pc
  PROVE  Inv' /\ [OTT!Next]_(OTT!vars)
<1>1. /\ app' = app /\ live' = live /\ meta' = meta /\ refreshed' = refreshed
      /\ honoured' = honoured /\ fate' = fate /\ due' = due /\ heeded' = heeded
  BY DEF sessionState, history
<1>2. BoundsOK' /\ made' = made /\ errors' = errors
  BY BoundsStay DEF Inv
<1>3. /\ live \cup meta \cup refreshed \cup due \cup heeded \subseteq 1 .. made
      /\ seen \cup found \subseteq 1 .. made /\ app \in [Session -> Account \cup {None}]
      /\ fate \in [Session -> {"", "bulk", "expired", "left"}]
  BY DEF Inv, Base, TypeOK
<1>4. seen' \cup found' \subseteq 1 .. made
  BY <1>3
<1>5. SessionsOK'
  BY <1>1, <1>2, <1>3, <1>4 DEF SessionsOK
<1>6. Announced' /\ QueueOK'
  BY <1>1, <1>2, Still DEF Inv
<1>7. Base'
  BY <1>2, <1>5, <1>6, Pieces, PiecesNext DEF Inv, GroupOK
<1>8. Reading' /\ [OTT!Next]_(OTT!vars)
  BY <1>1, <1>2, Aside DEF Inv
<1> QED
  BY <1>6, <1>7, <1>8 DEF Inv

LEMMA ScanKeysKeeps ==
  ASSUME SessionGroupsAssumption, Inv, ScanKeys
  PROVE  Inv' /\ [OTT!Next]_(OTT!vars)
<1>1. /\ Scanner \in Detectors /\ seen' = meta /\ found' = found /\ work' = work
      /\ UNCHANGED <<group, members, sessionState, tokens, queue, bounds, history>>
  BY DEF ScanKeys
<1>2. Typed /\ Heard
  BY <1>1 DEF Inv, Base, Typed, Heard, Hears, At
<1>3. seen' \cup found' \subseteq seen \cup found \cup meta
  BY <1>1
<1> QED
  BY <1>1, <1>2, <1>3, ScannerKeeps

LEMMA ReadTTLKeeps ==
  ASSUME SessionGroupsAssumption, Inv, NEW s \in Session, ReadTTL(s)
  PROVE  Inv' /\ [OTT!Next]_(OTT!vars)
<1>1. /\ s \in seen /\ seen' = seen \ {s} /\ work' = work
      /\ found' = found \/ found' = found \cup {s}
      /\ UNCHANGED <<group, members, sessionState, tokens, queue, bounds, history>>
  BY DEF ReadTTL
<1>2. Typed /\ Heard
  BY <1>1 DEF Inv, Base, Typed, Heard, Hears, At
<1>3. seen' \cup found' \subseteq seen \cup found \cup meta
  BY <1>1
<1>4. Scanner \in Detectors
  BY <1>1 DEF Inv, Base
<1> QED
  BY <1>1, <1>2, <1>3, <1>4, ScannerKeeps

LEMMA ScanForExpiredKeeps ==
  ASSUME SessionGroupsAssumption, Inv, NEW s \in Session, ScanForExpiredSessions(s)
  PROVE  Inv' /\ [OTT!Next]_(OTT!vars)
<1>1. /\ s \in found /\ found' = found \ {s} /\ seen' = seen /\ HandleExpiredKey(Scanner, s)
      /\ UNCHANGED <<group, members, sessionState, tokens, queue, bounds, history>>
  BY DEF ScanForExpiredSessions
<1>2. Scanner \in Detectors /\ s \in 1 .. made
  BY <1>1 DEF Inv, Base, TypeOK
<1>3. /\ Typed /\ Same(Scanner)
      /\ \A r \in Req : /\ work'[r].token = work[r].token
                        /\ work[r].token # None => work'[r].pc = work[r].pc
  BY <1>1, <1>2, Taken
<1>4. Heard
  BY <1>2, <1>3, Workers, Listening DEF Worker
<1>5. seen' \cup found' \subseteq seen \cup found \cup meta
  BY <1>1
<1> QED
  BY <1>1, <1>2, <1>3, <1>4, <1>5, ScannerKeeps

LEMMA RestartKeeps ==
  ASSUME SessionGroupsAssumption, Inv, Restart
  PROVE  Inv' /\ [OTT!Next]_(OTT!vars)
<1>1. /\ Event /\ restarts' = restarts + 1 /\ work' = [w \in Worker |-> Idle]
      /\ queue' = <<>> /\ seen' = {} /\ found' = {} /\ group' = group /\ members' = members
      /\ app' = app /\ live' = live /\ meta' = meta /\ refreshed' = refreshed
      /\ tokens' = tokens /\ made' = made /\ served' = served /\ edits' = edits
      /\ errors' = errors /\ honoured' = honoured /\ fate' = fate /\ due' = due
      /\ heeded' = heeded
  BY DEF Restart, sessionState, history
<1>2. Typed
  BY <1>1, Zero DEF Typed
<1>3. BoundsOK'
  BY <1>1, Pieces DEF Inv, BoundsOK, Event, Counted, SessionGroupsAssumption
<1>4. SessionsOK'
  BY <1>1, Pieces DEF Inv, SessionsOK
<1>5. QueueOK' /\ Len(queue') = 0
  BY <1>1 DEF QueueOK
<1>6. ~ Hears'
  BY <1>1, Zero, Workers DEF Hears, At
<1>7. \A s \in 1 .. made : Over(s) => OverNext(s)
  BY <1>1 DEF Over, OverNext
<1>8. Announced'
  BY <1>1, <1>5, <1>6, <1>7, AnnouncedKept DEF Inv
<1>9. Base'
  BY <1>1, <1>2, <1>3, <1>4, <1>5, Pieces, PiecesNext DEF Inv, GroupOK
<1>10. \A r \in Req : work'[r].token = None
  BY <1>1, Zero, Workers
<1>11. Reading'
  BY <1>1, <1>10 DEF Inv, Reading
<1>12. \A t \in Token : Exchanging(t)' = {}
  BY <1>10 DEF Exchanging, SessionGroupsAssumption
<1>13. [t \in Token |-> Cardinality(Exchanging(t))]' = [t \in Token |-> 0]
  BY <1>12, FS_EmptySet
<1>14. (errors > 0)' = (errors > 0)
  BY <1>1
<1>15. OTT!Restart
  BY <1>1, <1>13, <1>14 DEF OTT!Restart
<1> QED
  BY <1>8, <1>9, <1>11, <1>15 DEF Inv, OTT!Next

-----------------------------------------------------------------------------
(* The console's changes.                                                  *)

LEMMA EditBounds ==
  ASSUME SessionGroupsAssumption, Base, Edit
  PROVE  /\ BoundsOK' /\ errors' = errors /\ made' = made
         /\ UNCHANGED <<sessionState, tokens, queue, seen, found, history>>
<1>1. /\ Event /\ edits' = edits + 1 /\ made' = made /\ served' = served
      /\ restarts' = restarts /\ errors' = errors
      /\ UNCHANGED <<sessionState, tokens, queue, seen, found, history>>
  BY DEF Edit, scan
<1>2. BoundsOK'
  BY <1>1, Pieces DEF BoundsOK, Event, Counted, SessionGroupsAssumption
<1> QED
  BY <1>1, <1>2

LEMMA EditKeeps ==
  ASSUME SessionGroupsAssumption, Inv,
         \/ SessionGroupCreate
         \/ SessionGroupUpdate
         \/ \E a \in App : SessionGroupAddApp(a) \/ SessionGroupRemoveApp(a)
  PROVE  Inv' /\ [OTT!Next]_(OTT!vars)
<1>1. Edit /\ work' = work
  BY DEF SessionGroupCreate, SessionGroupUpdate, SessionGroupAddApp, SessionGroupRemoveApp
<1>2. GroupOK
  BY Pieces DEF Inv
<1>3. GroupOK'
  <2>1. CASE SessionGroupCreate
    BY <1>2, <2>1 DEF SessionGroupCreate, GroupOK
  <2>2. CASE SessionGroupUpdate
    BY <1>2, <2>2 DEF SessionGroupUpdate, GroupOK
  <2>3. ASSUME NEW a \in App, SessionGroupAddApp(a) \/ SessionGroupRemoveApp(a)
        PROVE  GroupOK'
    BY <1>2, <2>3 DEF SessionGroupAddApp, SessionGroupRemoveApp, GroupOK
  <2> QED
    BY <2>1, <2>2, <2>3
<1>4. Typed /\ Heard
  BY <1>1 DEF Inv, Base, Typed, Heard, Hears, At
<1> QED
  BY <1>1, <1>3, <1>4, EditBounds, WorkKeeps DEF Inv

LEMMA SessionGroupDeleteKeeps ==
  ASSUME SessionGroupsAssumption, Inv, NEW r \in Req, SessionGroupDelete(r)
  PROVE  Inv' /\ [OTT!Next]_(OTT!vars)
<1>1. /\ Edit /\ group' = group /\ members' = {} /\ Goto(r, "drop") /\ work[r].pc = "idle"
  BY DEF SessionGroupDelete, At
<1>2. r \in Worker
  BY Workers
<1>3. Typed /\ Went(r, "drop")
  BY <1>1, <1>2, SlotGoes DEF Inv, Steps, Exchanges
<1>4. Heard
  BY <1>2, <1>3, Workers, Listening DEF Went
<1>5. \A v \in Req : /\ work'[v].token = work[v].token
                     /\ work[v].token # None => work'[v].pc = work[v].pc
  BY <1>1, <1>2, <1>3, Carries, Tokenless DEF Went, At
<1>6. GroupOK'
  BY <1>1, Pieces DEF Inv, GroupOK
<1> QED
  BY <1>1, <1>3, <1>4, <1>5, <1>6, EditBounds, WorkKeeps DEF Inv

LEMMA DropGroupKeeps ==
  ASSUME SessionGroupsAssumption, Inv, NEW r \in Req, DropGroup(r)
  PROVE  Inv' /\ [OTT!Next]_(OTT!vars)
<1>1. /\ work[r].pc = "drop" /\ work' = [work EXCEPT ![r] = Idle] /\ members' = members
      /\ UNCHANGED <<sessionState, tokens, queue, seen, found, history>>
      /\ \/ members = {} /\ group' = [group EXCEPT !.exists = FALSE] /\ UNCHANGED bounds
         \/ UNCHANGED <<group, bounds>>
         \/ Fails /\ UNCHANGED group
  BY DEF DropGroup, Goto, At, scan
<1>2. r \in Worker
  BY Workers
<1>3. /\ Typed /\ Heard
      /\ \A v \in Req : /\ work'[v].token = work[v].token
                        /\ work[v].token # None => work'[v].pc = work[v].pc
  BY <1>1, <1>2, WorkerStep DEF At, Steps, Exchanges
<1>4. GroupOK'
  BY <1>1, Pieces DEF Inv, GroupOK
<1>5. BoundsOK' /\ errors' \in {errors, errors + 1} /\ made' = made
  BY <1>1, BoundsStay, FailsBounds DEF Inv
<1> QED
  BY <1>1, <1>3, <1>4, <1>5, WorkKeeps

-----------------------------------------------------------------------------
(* The invariant, and what it implies.                                     *)

LEMMA Starts ==
  ASSUME SessionGroupsAssumption, Init
  PROVE  Inv /\ OTT!Init
<1>1. /\ group = [exists |-> TRUE, global |-> TRUE] /\ members = App
      /\ app = [s \in Session |-> None] /\ live = {} /\ meta = {} /\ refreshed = {}
      /\ tokens = [t \in Token |-> "unissued"] /\ work = [w \in Worker |-> Idle]
      /\ queue = <<>> /\ seen = {} /\ found = {} /\ made = 0 /\ served = 0 /\ edits = 0
      /\ restarts = 0 /\ errors = 0 /\ honoured = [t \in Token |-> 0] /\ due = {}
      /\ heeded = {} /\ fate = [s \in Session |-> ""]
  BY DEF Init
<1>0. /\ queue = <<>> /\ errors = 0 /\ meta = {} /\ heeded = {}
      /\ made = 0 /\ served = 0 /\ edits = 0 /\ restarts = 0
  BY <1>1
<1>2. \A w \in Worker : work[w] = Idle
  BY <1>1
<1>3. work \in [Worker -> Work] /\ \A w \in Worker : Fits(work[w])
  BY <1>1, <1>2, Zero
<1>4. GroupOK /\ SessionsOK
  BY <1>1 DEF GroupOK, SessionsOK
<1>5. QueueOK /\ Len(queue) = 0
  BY <1>0 DEF QueueOK
<1>6. BoundsOK
  BY <1>0 DEF BoundsOK, Counted, SessionGroupsAssumption
<1>7. tokens \in [Token -> {"unissued", "live", "spent"}]
  BY <1>1
<1>8. Base
  BY <1>3, <1>4, <1>5, <1>6, <1>7, Pieces
<1>9. ~ Hears
  BY <1>2, Zero, Workers DEF Hears, At
<1>10. Announced
  BY <1>0, <1>5, <1>9 DEF Announced
<1>11. \A r \in Req : work[r].token = None
  BY <1>2, Zero, Workers
<1>12. Reading
  BY <1>1, <1>11 DEF Reading
<1>13. \A t \in Token : Exchanging(t) = {}
  BY <1>11 DEF Exchanging, SessionGroupsAssumption
<1>14. [t \in Token |-> Cardinality(Exchanging(t))] = [t \in Token |-> 0]
  BY <1>13, FS_EmptySet
<1>15. (errors > 0) = FALSE
  BY <1>0
<1>16. OTT!Init
  BY <1>1, <1>14, <1>15 DEF OTT!Init
<1> QED
  BY <1>8, <1>10, <1>12, <1>16 DEF Inv

LEMMA Steady ==
  ASSUME Inv, UNCHANGED vars
  PROVE  Inv' /\ [OTT!Next]_(OTT!vars)
<1>1. /\ group' = group /\ members' = members /\ app' = app /\ live' = live /\ meta' = meta
      /\ refreshed' = refreshed /\ tokens' = tokens /\ work' = work /\ queue' = queue
      /\ seen' = seen /\ found' = found /\ bounds' = bounds /\ honoured' = honoured
      /\ fate' = fate /\ due' = due /\ heeded' = heeded
  BY DEF vars, sessionState, scan, history
<1>2. BoundsOK' /\ errors' = errors /\ made' = made
  BY <1>1, BoundsStay DEF Inv
<1>3. Base'
  BY <1>1, <1>2, Pieces, PiecesNext DEF Inv, GroupOK, SessionsOK, QueueOK, Typed
<1>4. Announced'
  BY <1>1, <1>2 DEF Inv, Announced, Over, Hears, At
<1>5. Reading'
  BY <1>1, <1>2 DEF Inv, Reading, Spent
<1>6. [t \in Token |-> Cardinality(Exchanging(t))]' = [t \in Token |-> Cardinality(Exchanging(t))]
  BY <1>1, NoReaderMoves
<1>7. (errors > 0)' = (errors > 0)
  BY <1>2
<1> QED
  BY <1>1, <1>3, <1>4, <1>5, <1>6, <1>7 DEF Inv, OTT!vars

LEMMA EveryStep ==
  ASSUME SessionGroupsAssumption, Inv, [Next]_vars
  PROVE  Inv' /\ [OTT!Next]_(OTT!vars)
<1>1. CASE UNCHANGED vars
  BY <1>1, Steady
<1>2. ASSUME NEW a \in Account, NEW withMeta \in BOOLEAN, CreateSession(a, withMeta)
      PROVE  Inv' /\ [OTT!Next]_(OTT!vars)
  BY <1>2, CreateSessionKeeps
<1>3. ASSUME NEW s \in Session, RefreshSession(s) \/ MetaExpires(s) \/ HashExpires(s)
      PROVE  Inv' /\ [OTT!Next]_(OTT!vars)
  BY <1>3, RefreshSessionKeeps, MetaExpiresKeeps, HashExpiresKeeps
<1>4. ASSUME NEW t \in Token, IssueToken(t) \/ SSOTokenExpires(t)
      PROVE  Inv' /\ [OTT!Next]_(OTT!vars)
  BY <1>4, IssueTokenKeeps, SSOTokenExpiresKeeps
<1>5. ASSUME NEW r \in Req, NEW t \in Token, NEW a \in App, Exchange(r, t, a)
      PROVE  Inv' /\ [OTT!Next]_(OTT!vars)
  BY <1>5, ExchangeKeeps
<1>6. ASSUME NEW r \in Req,
             DeleteSSOToken(r) \/ ValidateTarget(r) \/ CreateTargetSession(r)
      PROVE  Inv' /\ [OTT!Next]_(OTT!vars)
  BY <1>6, DeleteSSOTokenKeeps, ValidateTargetKeeps, CreateTargetSessionKeeps
<1>7. ASSUME NEW r \in Req, NEW s \in Session, LogoutUser(r, s) \/ SessionRevoke(r, s)
      PROVE  Inv' /\ [OTT!Next]_(OTT!vars)
  BY <1>7, LogoutUserKeeps, SessionRevokeKeeps
<1>8. ASSUME NEW r \in Req, NEW a \in Account, SessionRevokeAllForUser(r, a)
      PROVE  Inv' /\ [OTT!Next]_(OTT!vars)
  BY <1>8, SessionRevokeAllForUserKeeps
<1>9. ASSUME NEW r \in Req, SessionGroupDelete(r) \/ DropGroup(r)
      PROVE  Inv' /\ [OTT!Next]_(OTT!vars)
  BY <1>9, SessionGroupDeleteKeeps, DropGroupKeeps
<1>10. ASSUME NEW w \in Worker, Expiry(w)
       PROVE  Inv' /\ [OTT!Next]_(OTT!vars)
  BY <1>10, GetAppsKeeps, RevokeAllKeeps, ShouldRevokeKeeps DEF Expiry, Revocation
<1>11. CASE ListenForKeyExpirations
  BY <1>11, ListenKeeps
<1>12. CASE Scan
  BY <1>12, ScanKeysKeeps, ReadTTLKeeps, ScanForExpiredKeeps DEF Scan
<1>13. CASE \/ SessionGroupCreate
            \/ SessionGroupUpdate
            \/ \E a \in App : SessionGroupAddApp(a) \/ SessionGroupRemoveApp(a)
  BY <1>13, EditKeeps
<1>14. CASE Restart
  BY <1>14, RestartKeeps
<1> QED
  BY <1>1, <1>2, <1>3, <1>4, <1>5, <1>6, <1>7, <1>8, <1>9, <1>10, <1>11, <1>12, <1>13, <1>14
     DEF Next

LEMMA Invariance ==
  ASSUME SessionGroupsAssumption
  PROVE  Spec => []Inv
<1>1. Init => Inv
  BY Starts
<1>2. Inv /\ [Next]_vars => Inv'
  BY EveryStep
<1> QED
  BY <1>1, <1>2, PTL DEF Spec

\* The rows, keys and workers keep their types, no application is a member of a group
\* that is gone, and only sessions that were made are announced, due or scanned for, for
\* any number of applications, requests and sessions (sessiongroup/repository.go,
\* redis.go:280-300).
THEOREM GroupsTyped ==
  ASSUME SessionGroupsAssumption
  PROVE  Spec => []TypeOK
<1>1. Inv => TypeOK
  BY DEF Inv, Base
<1> QED
  BY <1>1, Invariance, PTL

\* A session whose expiry is announced and makes the listener end those of the peers is
\* over, was refreshed, was deleted with all of its account before, or has kept its
\* metadata key because the command that deletes it failed: a logout deletes that key, so
\* that nothing is announced later, whatever requests and restarts there are
\* (redis.go:290, 336-353, 396, sessiongroup/expiry.go).
THEOREM AnnouncementsAreTrue ==
  ASSUME SessionGroupsAssumption
  PROVE  Spec => []AnnouncedWhenOver
<1>1. Inv => AnnouncedWhenOver
  BY DEF Inv, Base, Announced, Over, AnnouncedWhenOver
<1> QED
  BY <1>1, Invariance, PTL

\* SSO tokens implement one-time tokens: the exchange deletes the token before it creates
\* the session, and creates it only for those that read the token before it was deleted,
\* unless a deletion failed, for any number of requests, tokens and restarts
\* (sso/handler.go:161-238).
THEOREM SSOTokensImplementOneTimeTokens ==
  ASSUME SessionGroupsAssumption
  PROVE  Spec => SSOTokensAreOneTime
<1>1. Init => Inv /\ OTT!Init
  BY Starts
<1>2. Inv /\ [Next]_vars => Inv' /\ [OTT!Next]_(OTT!vars)
  BY EveryStep
<1> QED
  BY <1>1, <1>2, PTL DEF Spec, SSOTokensAreOneTime, OTT!Spec

-----------------------------------------------------------------------------
(***************************************************************************)
(* OwnersIn of SocialLogin, for any number of users, providers, tokens,    *)
(* requests, changes and failures.                                         *)
(*                                                                         *)
(* LastMethodKept counts a link that is about to be inserted, of which     *)
(* nothing says that it will be: Ways has that the identity is free while  *)
(* a first login is on its way to it, and that another way in remains when *)
(* a link is about to be deleted.  The row that is deleted is the row that *)
(* was checked since identifiers of rows are drawn once (RowsApart), which *)
(* is a count of the requests that have not inserted one yet (RowsDrawn).  *)
(***************************************************************************)

\* Nothing has happened that a property makes an exception for.
Calm(what) == errors = 0 /\ overlap \cap what = {}

\* A request that may yet insert a row of social_accounts.
Inserting(q) == q.pc \notin {"idle", "grant", "drop_token"}
Inserters == {r \in Req : Inserting(req[r])}

\* What a request has read, when it is at a statement.
HasRead(q) ==
  /\ q.pc = "idle" => q.goal = "none"
  /\ q.pc # "idle" => q.provider \in Provider
  /\ q.pc = "away" => q.goal \in {"login", "link"} /\ (q.goal = "link" => q.user \in User)
  /\ q.pc \in {"find", "save_link", "read_user", "save_user", "find_user", "store_merge",
               "create"} => q.goal = "login"
  /\ q.pc \in {"check", "delete"} => q.goal = "unlink" /\ users[q.user].status # "none"
  /\ q.pc \in {"verify", "drop_token"} => q.goal = "merge"
  /\ q.pc = "insert_link" => q.goal \in {"login", "link", "merge"}
  /\ q.pc = "grant" => q.goal \in {"login", "merge"}
  /\ q.pc \in {"save_link", "read_user", "save_user", "store_merge", "insert_link", "grant",
               "check", "delete", "verify", "drop_token"} => q.user \in User
  /\ q.pc \in {"save_link", "check", "delete"} => q.link.owner = q.user
  /\ q.pc = "save_user" => q.copy.status = "present" /\ q.copy.active
  /\ q.goal = "merge" => q.token \in drawn.tokens

\* The rows of social_accounts, and those that requests have read.
Around == {social[p] : p \in Provider} \cup {req[r].link : r \in Req} \cup {S!NoLink}

RowsApart ==
  \A a, b \in Around :
    /\ a.row = b.row => a = b
    /\ a.row <= drawn.rows /\ (a.owner = None <=> a.row = 0)

RowsDrawn ==
  /\ drawn.rows \in Nat /\ drawn.tokens \subseteq Token
  /\ drawn.rows + Cardinality(Inserters) <= served
  /\ \A t \in Token :
       /\ links[t] <= drawn.rows /\ (links[t] > 0 => t \in drawn.tokens)
       /\ merge[t].user # None => merge[t].provider \in Provider /\ t \in drawn.tokens

\* A user has a way to sign in, or gets a link next.
FirstLink(u) ==
  \E r \in Req : req[r].pc = "insert_link" /\ req[r].goal = "login" /\ req[r].user = u
HasWay(u) == users[u].password \/ S!Linked(u) # {} \/ FirstLink(u)

\* The identity is free that a login has not found, and the last way in is not deleted.
Free(q) ==
  q.goal = "login" /\ q.pc \in {"find_user", "create", "insert_link"}
    => social[q.provider] = S!NoLink
Spares(q) ==
  q.pc = "delete" /\ S!Present(q.user) /\ q.user \notin undone
    => \/ users[q.user].password
       \/ \E p \in Provider : p # q.provider /\ social[p].owner = q.user

Ways ==
  Calm({"unlink", "link"}) =>
    /\ \A u \in User : S!Present(u) /\ u \notin undone => HasWay(u)
    /\ \A r \in Req : Free(req[r]) /\ Spares(req[r])
    /\ \A r, s \in Req : req[r].goal = "unlink" /\ req[s].goal = "unlink" => r = s

\* A merge token that has made a link is gone or about to be.
Unused(q) ==
  q.goal = "merge" /\ q.pc \in {"verify", "insert_link"} => links[q.token] = 0
Dropping(t) ==
  \E r \in Req : req[r].pc = "drop_token" /\ req[r].token = t

Merges ==
  Calm({"merge"}) =>
    /\ \A t \in Token :
         links[t] = 0 \/ (links[t] = 1 /\ (merge[t].user = None \/ Dropping(t)))
    /\ \A r \in Req : Unused(req[r])
    /\ \A r, s \in Req : req[r].goal = "merge" /\ req[s].goal = "merge" => r = s

\* Who is about to be let in may enter.
MayEnter(q) ==
  /\ q.goal = "login" /\ q.pc \in {"save_user", "insert_link", "grant"}
       => (S!Present(q.user) => users[q.user].active)
  /\ q.goal = "merge" /\ q.pc \in {"insert_link", "drop_token", "grant"}
       => S!Present(q.user) /\ users[q.user].active

Entering ==
  Calm({"change"}) => wrong = {} /\ \A r \in Req : MayEnter(req[r])

\* What is stored.
Stored ==
  /\ users \in [User -> S!UserRow] /\ social \in [Provider -> S!Link]
  /\ \A p \in Provider : social[p] # S!NoLink => S!Present(social[p].owner)
  /\ merge \in [Token -> [user : User \cup {None}, provider : Provider \cup {None}]]
  /\ served \in 0 .. MaxRequests /\ changes \in 0 .. MaxChanges
  /\ errors \in 0 .. MaxErrors
  /\ links \in [Token -> Nat] /\ drawn \in [tokens : SUBSET Token, rows : Nat]
  /\ undone \subseteq User /\ wrong \subseteq User

SocialInv ==
  /\ Stored /\ req \in [Req -> S!Request] /\ (\A r \in Req : HasRead(req[r]))
  /\ RowsApart /\ RowsDrawn /\ Ways /\ Merges /\ Entering

-----------------------------------------------------------------------------
LEMMA SocialConstants ==
  /\ Provider \subseteq {"google", "facebook", "github"} /\ None \notin User
  /\ None \notin Token /\ IsFiniteSet(Provider)
  /\ MaxRequests \in Nat /\ MaxChanges \in Nat /\ MaxErrors \in Nat
  /\ IsFiniteSet(Req)
<1>1. S!SocialLoginAssumption /\ IsFiniteSet(Req)
  BY LoginsAssumption, Zenon DEF SessionGroupsAssumption
<1>2. IsFiniteSet({"google", "facebook", "github"})
  <2>1. IsFiniteSet({"google"})
    BY FS_Singleton
  <2>2. IsFiniteSet({"google"} \cup {"facebook"})
    BY <2>1, FS_AddElement
  <2>3. IsFiniteSet(({"google"} \cup {"facebook"}) \cup {"github"})
    BY <2>2, FS_AddElement
  <2>4. ({"google"} \cup {"facebook"}) \cup {"github"} = {"google", "facebook", "github"}
    OBVIOUS
  <2>5. QED
    BY <2>3, <2>4
<1>3. QED
  BY <1>1, <1>2, FS_Subset DEF S!SocialLoginAssumption

LEMMA SocialHas ==
  ASSUME SocialInv
  PROVE  /\ Stored /\ req \in [Req -> S!Request] /\ (\A r \in Req : HasRead(req[r]))
         /\ RowsApart /\ RowsDrawn /\ Ways /\ Merges /\ Entering
BY Zenon DEF SocialInv

LEMMA StoredTyped ==
  ASSUME Stored
  PROVE  /\ users \in [User -> S!UserRow] /\ social \in [Provider -> S!Link]
         /\ merge \in [Token -> [user : User \cup {None}, provider : Provider \cup {None}]]
         /\ served \in 0 .. MaxRequests /\ changes \in 0 .. MaxChanges
         /\ errors \in 0 .. MaxErrors /\ links \in [Token -> Nat]
         /\ drawn \in [tokens : SUBSET Token, rows : Nat]
         /\ undone \subseteq User /\ wrong \subseteq User
BY Zenon DEF Stored

LEMMA UserRowTyped ==
  ASSUME NEW x \in S!UserRow
  PROVE  /\ x.status \in {"none", "present", "deleted"} /\ x.home \in BOOLEAN
         /\ x.verified \in BOOLEAN /\ x.active \in BOOLEAN /\ x.password \in BOOLEAN
BY DEF S!UserRow

LEMMA OneUser ==
  ASSUME Stored, NEW u \in User
  PROVE  /\ users[u] \in S!UserRow
         /\ users[u].status \in {"none", "present", "deleted"} /\ users[u].home \in BOOLEAN
         /\ users[u].verified \in BOOLEAN /\ users[u].active \in BOOLEAN
         /\ users[u].password \in BOOLEAN
<1>1. users[u] \in S!UserRow
  <2>1. users \in [User -> S!UserRow]
    BY StoredTyped
  <2>. HIDE DEF S!UserRow
  <2>2. QED
    BY <2>1
<1>2. QED
  BY <1>1, UserRowTyped

LEMMA LinkTyped ==
  ASSUME NEW l \in S!Link
  PROVE  /\ l.owner \in User \cup {None} /\ l.row \in 0 .. MaxRequests
         /\ l = [owner |-> l.owner, row |-> l.row]
BY DEF S!Link

LEMMA NoLinkIs ==
  /\ S!NoLink \in S!Link /\ S!NoLink.owner = None /\ S!NoLink.row = 0
BY SocialConstants DEF S!NoLink, S!Link

LEMMA OneSocial ==
  ASSUME Stored, NEW p \in Provider
  PROVE  social[p] \in S!Link /\ (social[p] # S!NoLink => S!Present(social[p].owner))
<1>1. social \in [Provider -> S!Link]
  BY StoredTyped
<1>2. social[p] # S!NoLink => S!Present(social[p].owner)
  BY Zenon DEF Stored
<1>. HIDE DEF S!Link
<1>3. QED
  BY <1>1, <1>2

LEMMA OneMerge ==
  ASSUME Stored, NEW t \in Token
  PROVE  merge[t].user \in User \cup {None} /\ merge[t].provider \in Provider \cup {None}
<1>1. merge \in [Token -> [user : User \cup {None}, provider : Provider \cup {None}]]
  BY StoredTyped
<1>2. QED
  BY <1>1

LEMMA SocialReqTyped ==
  ASSUME NEW q \in S!Request
  PROVE  /\ q.pc \in S!Steps /\ q.goal \in {"none", "login", "link", "unlink", "merge"}
         /\ q.provider \in {"google", "facebook", "github", None} /\ q.reported \in BOOLEAN
         /\ q.link \in S!Link /\ q.user \in User \cup {None} /\ q.copy \in S!UserRow
         /\ q.token \in Token \cup {None}
BY DEF S!Request

LEMMA OneSocialReq ==
  ASSUME SocialInv, NEW r \in Req
  PROVE  req[r] \in S!Request /\ HasRead(req[r]) /\ req[r].link \in S!Link
<1>1. req \in [Req -> S!Request] /\ \A s \in Req : HasRead(req[s])
  BY SocialHas
<1>2. req[r] \in S!Request
  <2>. HIDE DEF S!Request
  <2>1. QED
    BY <1>1
<1>3. QED
  BY <1>1, <1>2, SocialReqTyped

LEMMA SocialIdle ==
  /\ S!Idle \in S!Request /\ S!Idle.pc = "idle" /\ S!Idle.goal = "none"
  /\ S!Idle.link = S!NoLink
<1>1. S!NoLink \in S!Link
  BY NoLinkIs
<1>2. S!NoRow \in S!UserRow
  BY DEF S!NoRow, S!UserRow
<1>. HIDE DEF S!NoLink, S!Link, S!NoRow, S!UserRow
<1>3. QED
  BY <1>1, <1>2 DEF S!Idle, S!Request, S!Steps

LEMMA SocialGoes ==
  ASSUME SocialInv, NEW r \in Req, NEW q \in S!Request, req' = [req EXCEPT ![r] = q]
  PROVE  /\ req' \in [Req -> S!Request] /\ req'[r] = q
         /\ \A s \in Req : s # r => req'[s] = req[s]
<1>1. req \in [Req -> S!Request]
  BY SocialHas
<1>. HIDE DEF S!Request
<1>2. QED
  BY <1>1

\* A request that goes on, with what it has read.
LEMMA GoesOn ==
  ASSUME NEW q \in S!Request, NEW step \in S!Steps
  PROVE  /\ [q EXCEPT !.pc = step] \in S!Request
         /\ [q EXCEPT !.pc = step].pc = step /\ [q EXCEPT !.pc = step].goal = q.goal
         /\ [q EXCEPT !.pc = step].provider = q.provider
         /\ [q EXCEPT !.pc = step].reported = q.reported
         /\ [q EXCEPT !.pc = step].link = q.link /\ [q EXCEPT !.pc = step].user = q.user
         /\ [q EXCEPT !.pc = step].copy = q.copy /\ [q EXCEPT !.pc = step].token = q.token
BY DEF S!Request

LEMMA CalmBefore ==
  ASSUME overlap \subseteq overlap', errors' = 0 => errors = 0, NEW what, Calm(what)'
  PROVE  Calm(what)
BY DEF Calm

-----------------------------------------------------------------------------
(* What a step has to keep of each part of the invariant.                   *)

LEMMA InsertersMove ==
  ASSUME SocialInv, NEW r \in Req, NEW q \in S!Request, req' = [req EXCEPT ![r] = q]
  PROVE  /\ Cardinality(Inserters) \in Nat /\ Cardinality(Inserters)' \in Nat
         /\ Inserting(req[r]) \/ ~ Inserting(q)
              => Cardinality(Inserters)' <= Cardinality(Inserters)
         /\ Cardinality(Inserters)' <= Cardinality(Inserters) + 1
         /\ Inserting(req[r]) /\ ~ Inserting(q)
              => Cardinality(Inserters)' = Cardinality(Inserters) - 1
<1>1. req'[r] = q /\ \A s \in Req : s # r => req'[s] = req[s]
  BY SocialGoes
<1>. DEFINE old == Inserters
            new == {s \in Req : Inserting(req'[s])}
<1>2. new = Inserters'
  BY DEF Inserters, Inserting
<1>3. old \subseteq Req /\ new \subseteq Req /\ IsFiniteSet(Req)
  BY SocialConstants DEF Inserters
<1>4. IsFiniteSet(old) /\ IsFiniteSet(new) /\ Cardinality(old) \in Nat /\ Cardinality(new) \in Nat
  BY <1>3, FS_Subset, FS_CardinalityType
<1>5. /\ new \subseteq old \cup {r}
      /\ Inserting(req[r]) => r \in old
      /\ ~ Inserting(req[r]) => r \notin old
      /\ ~ Inserting(q) => new \subseteq old
      /\ Inserting(req[r]) /\ ~ Inserting(q) => new = old \ {r}
  BY <1>1 DEF Inserters, Inserting
<1>. HIDE DEF old, new
<1>6. /\ IsFiniteSet(old \cup {r})
      /\ r \notin old => Cardinality(old \cup {r}) = Cardinality(old) + 1
  BY <1>4, FS_AddElement
<1>7. r \in old => Cardinality(old \ {r}) = Cardinality(old) - 1
  BY <1>4, FS_RemoveElement
<1>8. r \in old => old \cup {r} = old
  OBVIOUS
<1>9. /\ Cardinality(new) <= Cardinality(old \cup {r})
      /\ new \subseteq old => Cardinality(new) <= Cardinality(old)
  BY <1>4, <1>5, <1>6, FS_Subset
<1>10. Cardinality(new) <= Cardinality(old) + 1
  <2>1. CASE r \in old
    BY <1>4, <1>8, <1>9, <2>1
  <2>2. CASE r \notin old
    BY <1>4, <1>6, <1>9, <2>2
  <2>3. QED
    BY <2>1, <2>2
<1>11. Inserting(req[r]) \/ ~ Inserting(q) => Cardinality(new) <= Cardinality(old)
  BY <1>5, <1>8, <1>9
<1>12. Inserting(req[r]) /\ ~ Inserting(q) => Cardinality(new) = Cardinality(old) - 1
  BY <1>5, <1>7
<1>13. QED
  BY <1>2, <1>4, <1>10, <1>11, <1>12 DEF old

LEMMA Structure ==
  ASSUME SocialInv, NEW r \in Req, NEW q \in S!Request, req' = [req EXCEPT ![r] = q],
         Stored', HasRead(q)',
         \A u \in User : users[u].status # "none" => users'[u].status # "none",
         drawn.tokens \subseteq drawn'.tokens, drawn'.tokens \subseteq Token,
         \/ drawn'.rows = drawn.rows
         \/ drawn'.rows = drawn.rows + 1 /\ Inserting(req[r]) /\ ~ Inserting(q),
         served' = served \/ served' = served + 1,
         Inserting(q) /\ ~ Inserting(req[r]) => served' = served + 1 /\ drawn'.rows = drawn.rows,
         NEW n,
         \/ n \in Around
         \/ drawn'.rows = drawn.rows + 1 /\ n.row = drawn'.rows /\ n.owner # None,
         q.link \in Around,
         \A p \in Provider : social'[p] \in Around \cup {n},
         \A t \in Token :
           /\ links'[t] <= drawn'.rows /\ (links'[t] > 0 => t \in drawn'.tokens)
           /\ merge'[t].user # None => merge'[t].provider \in Provider /\ t \in drawn'.tokens
  PROVE  /\ req' \in [Req -> S!Request] /\ (\A s \in Req : HasRead(req[s]))'
         /\ RowsApart' /\ RowsDrawn'
<1>0. /\ \A s \in Req : HasRead(req[s])
      /\ RowsApart /\ RowsDrawn /\ Stored
  BY SocialHas
<1>1. /\ req' \in [Req -> S!Request] /\ req'[r] = q
      /\ \A s \in Req : s # r => req'[s] = req[s]
  BY SocialGoes
<1>2. (\A s \in Req : HasRead(req[s]))'
  <2>. SUFFICES ASSUME NEW s \in Req PROVE HasRead(req[s])'
    OBVIOUS
  <2>1. PICK x : x = req'[s]
    OBVIOUS
  <2>2. HasRead(x)'
    <3>1. CASE s = r
      BY <1>1, <2>1, <3>1
    <3>2. CASE s # r
      <4>1. HasRead(x)
        BY <1>0, <1>1, <2>1, <3>2
      <4>2. QED
        BY <4>1 DEF HasRead
    <3>3. QED
      BY <3>1, <3>2
  <2>3. QED
    BY <2>1, <2>2 DEF HasRead
<1>3. RowsApart'
  <2>1. Around' \subseteq Around \cup {n}
    BY <1>1 DEF Around
  <2>2. \A a \in Around : a.row <= drawn.rows /\ a.row \in Nat
    <3>1. \A p \in Provider : social[p] \in S!Link
      BY <1>0, OneSocial
    <3>2. \A s \in Req : req[s].link \in S!Link
      BY OneSocialReq
    <3>3. \A a \in Around : a \in S!Link
      BY <3>1, <3>2, NoLinkIs DEF Around
    <3>4. QED
      BY <1>0, <3>3, LinkTyped, SocialConstants DEF RowsApart
  <2>3. drawn.rows \in Nat
    BY <1>0 DEF RowsDrawn
  <2>4. CASE n \in Around
    BY <1>0, <2>1, <2>2, <2>3, <2>4 DEF RowsApart
  <2>5. CASE drawn'.rows = drawn.rows + 1 /\ n.row = drawn'.rows /\ n.owner # None
    BY <1>0, <2>1, <2>2, <2>3, <2>5 DEF RowsApart
  <2>6. QED
    BY <2>4, <2>5
<1>4. RowsDrawn'
  <2>1. /\ drawn.rows \in Nat /\ drawn.rows + Cardinality(Inserters) <= served
    BY <1>0 DEF RowsDrawn
  <2>2. served \in Nat
    BY <1>0, StoredTyped, SocialConstants
  <2>3. drawn'.rows \in Nat /\ drawn'.rows + Cardinality(Inserters)' <= served'
    <3>. DEFINE m == Cardinality(Inserters)
                k == Cardinality(Inserters')
    <3>1. /\ m \in Nat /\ k \in Nat
          /\ Inserting(req[r]) \/ ~ Inserting(q) => k <= m
          /\ k <= m + 1
          /\ Inserting(req[r]) /\ ~ Inserting(q) => k = m - 1
      BY InsertersMove
    <3>2. drawn.rows + m <= served
      BY <2>1
    <3>. HIDE DEF m, k
    <3>3. drawn'.rows \in Nat /\ drawn'.rows + k <= served'
      BY <2>1, <2>2, <3>1, <3>2
    <3>4. QED
      BY <3>3 DEF k
  <2>4. QED
    BY <2>3 DEF RowsDrawn
<1>5. QED
  BY <1>1, <1>2, <1>3, <1>4

LEMMA WaysMove ==
  ASSUME SocialInv, NEW r \in Req, NEW q \in S!Request, req' = [req EXCEPT ![r] = q],
         UNCHANGED <<users, social, undone>>,
         overlap \subseteq overlap', errors' = 0 => errors = 0,
         Calm({"unlink", "link"})' =>
           /\ Free(q) /\ Spares(q)
           /\ q.goal = "unlink" /\ req[r].goal # "unlink"
                => \A s \in Req : req[s].goal # "unlink"
           /\ req[r].pc = "insert_link" /\ req[r].goal = "login"
                => ~ S!Present(req[r].user)
  PROVE  Ways'
<1>1. req'[r] = q /\ \A s \in Req : s # r => req'[s] = req[s]
  BY SocialGoes
<1>. SUFFICES ASSUME Calm({"unlink", "link"})'
              PROVE  /\ (\A u \in User : S!Present(u) /\ u \notin undone => HasWay(u))'
                     /\ (\A s \in Req : Free(req[s]) /\ Spares(req[s]))'
                     /\ (\A s, t \in Req : req[s].goal = "unlink" /\ req[t].goal = "unlink"
                                             => s = t)'
  BY Zenon DEF Ways
<1>2. Calm({"unlink", "link"})
  BY CalmBefore
<1>3. /\ \A u \in User : S!Present(u) /\ u \notin undone => HasWay(u)
      /\ \A s \in Req : Free(req[s]) /\ Spares(req[s])
      /\ \A s, t \in Req : req[s].goal = "unlink" /\ req[t].goal = "unlink" => s = t
  BY <1>2, SocialHas, Zenon DEF Ways
<1>4. ASSUME NEW u \in User, S!Present(u)', u \notin undone'
      PROVE  HasWay(u)'
  <2>1. S!Present(u) /\ HasWay(u)
    BY <1>3, <1>4 DEF S!Present
  <2>2. CASE FirstLink(u)
    <3>1. PICK s \in Req : req[s].pc = "insert_link" /\ req[s].goal = "login" /\ req[s].user = u
      BY <2>2 DEF FirstLink
    <3>2. s # r
      BY <2>1, <3>1
    <3>3. QED
      BY <1>1, <3>1, <3>2 DEF HasWay, FirstLink
  <2>3. CASE users[u].password \/ S!Linked(u) # {}
    BY <2>3 DEF HasWay, S!Linked
  <2>4. QED
    BY <2>1, <2>2, <2>3 DEF HasWay
<1>5. (\A s \in Req : Free(req[s]) /\ Spares(req[s]))'
  <2>. SUFFICES ASSUME NEW s \in Req PROVE (Free(req[s]) /\ Spares(req[s]))'
    OBVIOUS
  <2>1. PICK x : x = req'[s]
    OBVIOUS
  <2>2. Free(x) /\ Spares(x)
    BY <1>1, <1>3, <2>1
  <2>3. QED
    BY <2>1, <2>2 DEF Free, Spares, S!Present
<1>6. QED
  BY <1>1, <1>3, <1>4, <1>5

LEMMA MergesMove ==
  ASSUME SocialInv, NEW r \in Req, NEW q \in S!Request, req' = [req EXCEPT ![r] = q],
         UNCHANGED <<merge, links>>,
         overlap \subseteq overlap', errors' = 0 => errors = 0,
         Calm({"merge"})' =>
           /\ Unused(q) /\ req[r].pc # "drop_token"
           /\ q.goal = "merge" /\ req[r].goal # "merge"
                => \A s \in Req : req[s].goal # "merge"
  PROVE  Merges'
<1>1. req'[r] = q /\ \A s \in Req : s # r => req'[s] = req[s]
  BY SocialGoes
<1>. SUFFICES ASSUME Calm({"merge"})'
              PROVE  /\ (\A t \in Token : links[t] = 0 \/ (links[t] = 1 /\
                           (merge[t].user = None \/ Dropping(t))))'
                     /\ (\A s \in Req : Unused(req[s]))'
                     /\ (\A s, t \in Req : req[s].goal = "merge" /\ req[t].goal = "merge"
                                             => s = t)'
  BY Zenon DEF Merges
<1>2. Calm({"merge"})
  BY CalmBefore
<1>3. /\ \A t \in Token : links[t] = 0 \/ (links[t] = 1 /\ (merge[t].user = None \/ Dropping(t)))
      /\ \A s \in Req : Unused(req[s])
      /\ \A s, t \in Req : req[s].goal = "merge" /\ req[t].goal = "merge" => s = t
  BY <1>2, SocialHas, Zenon DEF Merges
<1>4. \A t \in Token : Dropping(t) => Dropping(t)'
  BY <1>1 DEF Dropping
<1>5. (\A s \in Req : Unused(req[s]))'
  <2>. SUFFICES ASSUME NEW s \in Req PROVE Unused(req[s])'
    OBVIOUS
  <2>1. PICK x : x = req'[s]
    OBVIOUS
  <2>2. Unused(x)
    BY <1>1, <1>3, <2>1
  <2>3. QED
    BY <2>1, <2>2 DEF Unused
<1>6. QED
  BY <1>1, <1>3, <1>4, <1>5

LEMMA EnteringMove ==
  ASSUME SocialInv, NEW r \in Req, NEW q \in S!Request, req' = [req EXCEPT ![r] = q],
         UNCHANGED <<users, wrong>>,
         overlap \subseteq overlap', errors' = 0 => errors = 0,
         Calm({"change"})' => MayEnter(q)
  PROVE  Entering'
<1>1. req'[r] = q /\ \A s \in Req : s # r => req'[s] = req[s]
  BY SocialGoes
<1>. SUFFICES ASSUME Calm({"change"})'
              PROVE  wrong' = {} /\ (\A s \in Req : MayEnter(req[s]))'
  BY Zenon DEF Entering
<1>2. Calm({"change"})
  BY CalmBefore
<1>3. wrong = {} /\ \A s \in Req : MayEnter(req[s])
  BY <1>2, SocialHas, Zenon DEF Entering
<1>4. (\A s \in Req : MayEnter(req[s]))'
  <2>. SUFFICES ASSUME NEW s \in Req PROVE MayEnter(req[s])'
    OBVIOUS
  <2>1. PICK x : x = req'[s]
    OBVIOUS
  <2>2. MayEnter(x)
    BY <1>1, <1>3, <2>1
  <2>3. QED
    BY <2>1, <2>2 DEF MayEnter, S!Present
<1>5. QED
  BY <1>3, <1>4

\* What a request that goes on as q has to keep of Ways, Merges and Entering.
KeepsCalm(r, q) ==
  /\ Calm({"unlink", "link"})' =>
       /\ Free(q) /\ Spares(q)
       /\ q.goal = "unlink" /\ req[r].goal # "unlink"
            => \A s \in Req : req[s].goal # "unlink"
       /\ req[r].pc = "insert_link" /\ req[r].goal = "login"
            => ~ S!Present(req[r].user)
  /\ Calm({"merge"})' =>
       /\ Unused(q) /\ req[r].pc # "drop_token"
       /\ q.goal = "merge" /\ req[r].goal # "merge"
            => \A s \in Req : req[s].goal # "merge"
  /\ Calm({"change"})' => MayEnter(q)

\* A step that changes nothing but its request, the counters and the overlaps.
LEMMA OnlyMoves ==
  ASSUME SocialInv, NEW r \in Req, NEW q \in S!Request, req' = [req EXCEPT ![r] = q],
         UNCHANGED <<users, social, merge, changes, drawn, links, undone, wrong>>,
         overlap \subseteq overlap', errors' = 0 => errors = 0, errors' \in 0 .. MaxErrors,
         served' \in 0 .. MaxRequests,
         served' = served \/ served' = served + 1,
         Inserting(q) /\ ~ Inserting(req[r]) => served' = served + 1,
         HasRead(q), q.link \in Around,
         KeepsCalm(r, q)
  PROVE  SocialInv'
<1>0. Stored /\ RowsDrawn
  BY SocialHas
<1>1. Stored'
  BY <1>0, Zenon DEF Stored, S!Present
<1>2. HasRead(q)'
  BY DEF HasRead
<1>3. /\ req' \in [Req -> S!Request] /\ (\A s \in Req : HasRead(req[s]))'
      /\ RowsApart' /\ RowsDrawn'
  <2>1. S!NoLink \in Around /\ \A p \in Provider : social'[p] \in Around \cup {S!NoLink}
    BY DEF Around
  <2>2. /\ drawn.tokens \subseteq drawn'.tokens /\ drawn'.tokens \subseteq Token
        /\ \A t \in Token :
           /\ links'[t] <= drawn'.rows /\ (links'[t] > 0 => t \in drawn'.tokens)
           /\ merge'[t].user # None => merge'[t].provider \in Provider /\ t \in drawn'.tokens
    BY <1>0 DEF RowsDrawn
  <2>3. QED
    BY <1>1, <1>2, <2>1, <2>2, Structure
<1>4. Ways'
  BY WaysMove DEF KeepsCalm
<1>5. Merges'
  BY MergesMove DEF KeepsCalm
<1>6. Entering'
  BY EnteringMove DEF KeepsCalm
<1>7. QED
  BY <1>1, <1>3, <1>4, <1>5, <1>6, Zenon DEF SocialInv

-----------------------------------------------------------------------------
(* A request that is begun.                                                 *)
LEMMA SocialBegins ==
  ASSUME SocialInv, NEW r \in Req, NEW step \in S!Steps,
         NEW goal \in {"login", "link", "unlink", "merge"}, NEW fields,
         S!Begin(r, step, goal, fields),
         DOMAIN fields \subseteq {"provider", "user", "link", "token"},
         {"provider", "user"} \subseteq DOMAIN fields,
         fields["provider"] \in Provider, fields["user"] \in User \cup {None},
         "link" \in DOMAIN fields => fields["link"] \in S!Link,
         "token" \in DOMAIN fields => fields["token"] \in Token
  PROVE  /\ req[r].pc = "idle" /\ served' \in 0 .. MaxRequests /\ served' = served + 1
         /\ \E q \in S!Request :
              /\ req' = [req EXCEPT ![r] = q] /\ q.pc = step /\ q.goal = goal
              /\ q.provider = fields["provider"] /\ q.user = fields["user"]
              /\ q.link = IF "link" \in DOMAIN fields THEN fields["link"] ELSE S!NoLink
              /\ "token" \in DOMAIN fields => q.token = fields["token"]
         /\ overlap' = overlap \cup S!Crossed(goal)
         /\ UNCHANGED <<users, social, merge, changes, errors, drawn, links, undone, wrong>>
<1>. DEFINE Names == {"pc", "goal", "provider", "reported", "link", "user", "copy", "token"}
            Of(f) == IF f = "pc" THEN step ELSE IF f = "goal" THEN goal
                     ELSE IF f \in DOMAIN fields THEN fields[f] ELSE S!Idle[f]
            q == [f \in Names |-> Of(f)]
<1>1. DOMAIN S!Idle = Names
  BY DEF S!Idle
<1>2. /\ req[r].pc = "idle" /\ served < MaxRequests /\ served' = served + 1
      /\ req' = [req EXCEPT ![r] = q]
      /\ overlap' = overlap \cup S!Crossed(goal)
      /\ UNCHANGED <<users, social, merge, changes, errors, drawn, links, undone, wrong>>
  BY <1>1 DEF S!Begin
<1>3. /\ Of("pc") = step /\ Of("goal") = goal /\ Of("provider") = fields["provider"]
      /\ Of("user") = fields["user"] /\ Of("reported") = FALSE /\ Of("copy") = S!NoRow
      /\ Of("link") = IF "link" \in DOMAIN fields THEN fields["link"] ELSE S!NoLink
      /\ Of("token") = IF "token" \in DOMAIN fields THEN fields["token"] ELSE None
  BY DEF S!Idle
<1>. HIDE DEF Of
<1>4. q = [pc |-> Of("pc"), goal |-> Of("goal"), provider |-> Of("provider"),
           reported |-> Of("reported"), link |-> Of("link"), user |-> Of("user"),
           copy |-> Of("copy"), token |-> Of("token")]
  OBVIOUS
<1>5. /\ Of("link") \in S!Link /\ Of("token") \in Token \cup {None} /\ Of("copy") \in S!UserRow
      /\ Of("provider") \in {"google", "facebook", "github"}
  <2>1. S!NoRow \in S!UserRow
    BY DEF S!NoRow, S!UserRow
  <2>. HIDE DEF S!NoRow, S!UserRow, S!Link, S!NoLink
  <2>2. S!NoLink \in S!Link
    BY NoLinkIs
  <2>3. QED
    BY <1>3, <2>1, <2>2, SocialConstants
<1>6. /\ q \in S!Request /\ q.pc = Of("pc") /\ q.goal = Of("goal")
      /\ q.provider = Of("provider") /\ q.user = Of("user") /\ q.link = Of("link")
      /\ q.token = Of("token")
  <2>. HIDE DEF S!UserRow, S!Link
  <2>1. QED
    BY <1>3, <1>4, <1>5 DEF S!Request
<1>7. served' \in 0 .. MaxRequests
  <2>1. served \in 0 .. MaxRequests
    BY SocialHas, StoredTyped
  <2>2. QED
    BY <1>2, <2>1, SocialConstants
<1>. HIDE DEF q
<1>8. QED
  BY <1>2, <1>3, <1>6, <1>7

LEMMA StateKeeps ==
  ASSUME SocialInv, NEW r \in Req, NEW p, NEW goal \in {"login", "link"},
         NEW u \in User \cup {None}, goal = "link" => u \in User,
         S!CreateOAuthState(r, p, goal, u)
  PROVE  SocialInv'
<1>. DEFINE fields == [provider |-> p, user |-> u]
<1>1. p \in Provider /\ S!Begin(r, "away", goal, fields)
  BY Zenon DEF S!CreateOAuthState
<1>2. /\ DOMAIN fields = {"provider", "user"} /\ fields["provider"] = p /\ fields["user"] = u
      /\ "away" \in S!Steps
  BY DEF S!Steps
<1>. HIDE DEF fields
<1>3. /\ req[r].pc = "idle" /\ served' \in 0 .. MaxRequests /\ served' = served + 1
      /\ \E q \in S!Request :
           /\ req' = [req EXCEPT ![r] = q] /\ q.pc = "away" /\ q.goal = goal
           /\ q.provider = p /\ q.user = u /\ q.link = S!NoLink
      /\ overlap' = overlap \cup S!Crossed(goal)
      /\ UNCHANGED <<users, social, merge, changes, errors, drawn, links, undone, wrong>>
  BY <1>1, <1>2, SocialBegins
<1>4. PICK q \in S!Request :
           /\ req' = [req EXCEPT ![r] = q] /\ q.pc = "away" /\ q.goal = goal
           /\ q.provider = p /\ q.user = u /\ q.link = S!NoLink
  BY <1>3
<1>5. HasRead(q) /\ q.link \in Around
  BY <1>1, <1>4 DEF HasRead, Around
<1>6. KeepsCalm(r, q)
  BY <1>3, <1>4 DEF KeepsCalm, Free, Spares, Unused, MayEnter
<1>7. errors' \in 0 .. MaxErrors
  BY <1>3, SocialHas, StoredTyped
<1>8. QED
  BY <1>3, <1>4, <1>5, <1>6, <1>7, OnlyMoves

LEMMA UnlinkBeginsKeeps ==
  ASSUME SocialInv, NEW r \in Req, NEW p \in Provider, S!Unlink(r, p)
  PROVE  SocialInv'
<1>. DEFINE l == social[p]
            fields == [provider |-> p, link |-> l, user |-> l.owner]
<1>1. l # S!NoLink /\ S!Present(l.owner) /\ S!Begin(r, "check", "unlink", fields)
  BY Zenon DEF S!Unlink
<1>2. l \in S!Link /\ l.owner \in User \cup {None}
  BY SocialHas, OneSocial, LinkTyped
<1>3. l.owner \in User
  <2>1. RowsApart /\ l \in Around /\ S!NoLink \in Around
    BY SocialHas DEF Around
  <2>2. l.owner = None => l.row = S!NoLink.row
    BY <2>1, NoLinkIs DEF RowsApart
  <2>3. QED
    BY <1>1, <1>2, <2>1, <2>2 DEF RowsApart
<1>4. l \in Around
  BY DEF Around
<1>. HIDE DEF l
<1>5. /\ DOMAIN fields = {"provider", "link", "user"} /\ fields["provider"] = p
      /\ fields["user"] = l.owner /\ fields["link"] = l /\ "check" \in S!Steps
  BY DEF S!Steps
<1>. HIDE DEF fields
<1>6. /\ req[r].pc = "idle" /\ served' \in 0 .. MaxRequests /\ served' = served + 1
      /\ \E q \in S!Request :
           /\ req' = [req EXCEPT ![r] = q] /\ q.pc = "check" /\ q.goal = "unlink"
           /\ q.provider = p /\ q.user = l.owner /\ q.link = l
      /\ overlap' = overlap \cup S!Crossed("unlink")
      /\ UNCHANGED <<users, social, merge, changes, errors, drawn, links, undone, wrong>>
  BY <1>1, <1>2, <1>5, SocialBegins
<1>7. PICK q \in S!Request :
           /\ req' = [req EXCEPT ![r] = q] /\ q.pc = "check" /\ q.goal = "unlink"
           /\ q.provider = p /\ q.user = l.owner /\ q.link = l
  BY <1>6
<1>8. HasRead(q) /\ q.link \in Around
  BY <1>1, <1>3, <1>4, <1>7 DEF HasRead, S!Present
<1>9. KeepsCalm(r, q)
  <2>1. Calm({"unlink", "link"})' => \A s \in Req : req[s].goal # "unlink"
    BY <1>6 DEF Calm, S!Crossed, S!Serving
  <2>2. QED
    BY <1>6, <1>7, <2>1 DEF KeepsCalm, Free, Spares, Unused, MayEnter
<1>10. errors' \in 0 .. MaxErrors
  BY <1>6, SocialHas, StoredTyped
<1>11. QED
  BY <1>6, <1>7, <1>8, <1>9, <1>10, OnlyMoves

LEMMA ConfirmKeeps ==
  ASSUME SocialInv, NEW r \in Req, NEW t \in Token, S!ConfirmMerge(r, t)
  PROVE  SocialInv'
<1>. DEFINE u == merge[t].user
            p == merge[t].provider
            fields == [token |-> t, user |-> u, provider |-> p]
<1>1. u # None /\ S!Begin(r, "verify", "merge", fields)
  BY Zenon DEF S!ConfirmMerge
<1>2. u \in User /\ p \in Provider /\ t \in drawn.tokens
  BY <1>1, SocialHas, OneMerge DEF RowsDrawn
<1>3. Calm({"merge"}) /\ (\A s \in Req : req[s].goal # "merge") => links[t] = 0
  <2>. SUFFICES ASSUME Calm({"merge"}), \A s \in Req : req[s].goal # "merge"
                PROVE  links[t] = 0
    OBVIOUS
  <2>1. links[t] = 0 \/ Dropping(t)
    BY <1>1, SocialHas DEF Merges
  <2>2. ~ Dropping(t)
    BY OneSocialReq DEF Dropping, HasRead
  <2>3. QED
    BY <2>1, <2>2
<1>. HIDE DEF u, p
<1>4. /\ DOMAIN fields = {"provider", "token", "user"} /\ fields["provider"] = p
      /\ fields["user"] = u /\ fields["token"] = t /\ "verify" \in S!Steps
  BY DEF S!Steps
<1>. HIDE DEF fields
<1>5. /\ req[r].pc = "idle" /\ served' \in 0 .. MaxRequests /\ served' = served + 1
      /\ \E q \in S!Request :
           /\ req' = [req EXCEPT ![r] = q] /\ q.pc = "verify" /\ q.goal = "merge"
           /\ q.provider = p /\ q.user = u /\ q.link = S!NoLink /\ q.token = t
      /\ overlap' = overlap \cup S!Crossed("merge")
      /\ UNCHANGED <<users, social, merge, changes, errors, drawn, links, undone, wrong>>
  BY <1>1, <1>2, <1>4, SocialBegins
<1>6. PICK q \in S!Request :
           /\ req' = [req EXCEPT ![r] = q] /\ q.pc = "verify" /\ q.goal = "merge"
           /\ q.provider = p /\ q.user = u /\ q.link = S!NoLink /\ q.token = t
  BY <1>5
<1>7. HasRead(q) /\ q.link \in Around
  BY <1>2, <1>6 DEF HasRead, Around
<1>8. KeepsCalm(r, q)
  <2>1. Calm({"merge"})' => \A s \in Req : req[s].goal # "merge"
    BY <1>5 DEF Calm, S!Crossed, S!Serving
  <2>2. Calm({"merge"})' => links[t] = 0
    BY <1>3, <1>5, <2>1, CalmBefore
  <2>3. QED
    BY <1>5, <1>6, <2>1, <2>2 DEF KeepsCalm, Free, Spares, Unused, MayEnter
<1>9. errors' \in 0 .. MaxErrors
  BY <1>5, SocialHas, StoredTyped
<1>10. QED
  BY <1>5, <1>6, <1>7, <1>8, <1>9, OnlyMoves

-----------------------------------------------------------------------------
(* Steps that only read.                                                    *)
LEMMA CalmRequest ==
  ASSUME SocialInv, NEW r \in Req
  PROVE  /\ Calm({"unlink", "link"}) => Free(req[r]) /\ Spares(req[r])
         /\ Calm({"merge"}) => Unused(req[r])
         /\ Calm({"change"}) => wrong = {} /\ MayEnter(req[r])
<1>1. Calm({"unlink", "link"}) => Free(req[r]) /\ Spares(req[r])
  BY SocialHas, Zenon DEF Ways
<1>2. Calm({"merge"}) => Unused(req[r])
  BY SocialHas, Zenon DEF Merges
<1>3. Calm({"change"}) => wrong = {} /\ MayEnter(req[r])
  BY SocialHas, Zenon DEF Entering
<1>4. QED
  BY <1>1, <1>2, <1>3

\* Nothing changes but the request.
Rests == UNCHANGED <<users, social, merge, served, changes, errors, drawn, links, overlap,
                     undone, wrong>>

LEMMA CalmRests ==
  ASSUME UNCHANGED <<errors, overlap>>, NEW what
  PROVE  Calm(what)' <=> Calm(what)
BY DEF Calm

\* The request of slot r with another statement next.
Follows(r, q, step) ==
  /\ q.pc = step /\ q.goal = req[r].goal /\ q.provider = req[r].provider
  /\ q.reported = req[r].reported /\ q.link = req[r].link /\ q.user = req[r].user
  /\ q.copy = req[r].copy /\ q.token = req[r].token

LEMMA SocialGoto ==
  ASSUME SocialInv, NEW r \in Req, NEW step \in S!Steps, S!Goto(r, step)
  PROVE  \E q \in S!Request : req' = [req EXCEPT ![r] = q] /\ Follows(r, q, step)
                              /\ q.link \in Around
<1>. DEFINE q == [req[r] EXCEPT !.pc = step]
<1>1. req[r] \in S!Request /\ req[r].link \in Around
  BY OneSocialReq DEF Around
<1>2. q \in S!Request /\ Follows(r, q, step)
  BY <1>1, GoesOn DEF Follows
<1>3. req' = [req EXCEPT ![r] = q]
  BY DEF S!Goto
<1>. HIDE DEF q
<1>4. QED
  BY <1>1, <1>2, <1>3 DEF Follows

LEMMA OnlySteps ==
  ASSUME SocialInv, NEW r \in Req, NEW q \in S!Request, req' = [req EXCEPT ![r] = q], Rests,
         Inserting(q) => Inserting(req[r]), HasRead(q), q.link \in Around, KeepsCalm(r, q)
  PROVE  SocialInv'
<1>1. errors' \in 0 .. MaxErrors /\ served' \in 0 .. MaxRequests
  BY SocialHas, StoredTyped DEF Rests
<1>2. QED
  BY <1>1, OnlyMoves DEF Rests

LEMMA OnlyEnds ==
  ASSUME SocialInv, NEW r \in Req, S!Finish(r), Rests, req[r].pc # "drop_token",
         Calm({"unlink", "link"}) /\ req[r].pc = "insert_link" /\ req[r].goal = "login"
           => ~ S!Present(req[r].user)
  PROVE  SocialInv'
<1>. DEFINE q == S!Idle
<1>1. /\ q \in S!Request /\ q.pc = "idle" /\ q.goal = "none" /\ q.link \in Around
  BY SocialIdle DEF Around
<1>2. req' = [req EXCEPT ![r] = q]
  BY DEF S!Finish
<1>. HIDE DEF q
<1>3. HasRead(q) /\ ~ Inserting(q)
  BY <1>1 DEF HasRead, Inserting
<1>4. KeepsCalm(r, q)
  BY <1>1, CalmRests DEF KeepsCalm, Free, Spares, Unused, MayEnter, Rests
<1>5. QED
  BY <1>1, <1>2, <1>3, <1>4, OnlySteps

LEMMA CallbackKeeps ==
  ASSUME SocialInv, NEW r \in Req, NEW p \in Provider, NEW answers, answers \subseteq BOOLEAN,
         S!Callback(r, p, answers)
  PROVE  SocialInv'
<1>1. PICK verified \in answers : req' = [req EXCEPT ![r].pc = "find", ![r].reported = verified]
  BY DEF S!Callback
<1>2. verified \in BOOLEAN
  BY <1>1
<1>. DEFINE q == [req[r] EXCEPT !.pc = "find", !.reported = verified]
<1>3. req[r] \in S!Request /\ req[r].link \in Around /\ HasRead(req[r])
  BY OneSocialReq DEF Around
<1>4. /\ q \in S!Request /\ q.pc = "find" /\ q.goal = req[r].goal
      /\ q.provider = req[r].provider /\ q.link = req[r].link /\ q.user = req[r].user
      /\ q.token = req[r].token /\ req' = [req EXCEPT ![r] = q]
  BY <1>1, <1>2, <1>3 DEF S!Request, S!Steps
<1>. HIDE DEF q
<1>5. /\ Rests /\ req[r].pc = "away" /\ req[r].goal = "login" /\ req[r].provider = p
  BY DEF S!Callback, S!Back, S!At, S!Kept, S!history, Rests
<1>6. HasRead(q) /\ Inserting(req[r])
  BY <1>3, <1>4, <1>5 DEF HasRead, Inserting
<1>7. KeepsCalm(r, q)
  BY <1>4, <1>5 DEF KeepsCalm, Free, Spares, Unused, MayEnter
<1>8. QED
  BY <1>3, <1>4, <1>5, <1>6, <1>7, OnlySteps

LEMMA FindLinkKeeps ==
  ASSUME SocialInv, NEW r \in Req, S!FindSocialAccount(r)
  PROVE  SocialInv'
<1>. DEFINE l == social[req[r].provider]
<1>1. Rests /\ req[r].pc = "find"
  BY DEF S!FindSocialAccount, S!At, S!Kept, S!history, Rests
<1>2. req[r] \in S!Request /\ HasRead(req[r]) /\ req[r].link \in Around
  BY OneSocialReq DEF Around
<1>3. req[r].goal = "login" /\ req[r].provider \in Provider /\ Inserting(req[r])
  BY <1>1, <1>2 DEF HasRead, Inserting
<1>4. l \in S!Link /\ l.owner \in User \cup {None} /\ l \in Around
  BY <1>3, SocialHas, OneSocial, LinkTyped DEF Around
<1>5. CASE l.owner = None
  <2>1. S!Goto(r, "find_user") /\ "find_user" \in S!Steps
    BY <1>5 DEF S!FindSocialAccount, S!Goto, S!Steps
  <2>2. PICK q \in S!Request : req' = [req EXCEPT ![r] = q] /\ Follows(r, q, "find_user")
                               /\ q.link \in Around
    BY <2>1, SocialGoto
  <2>3. l = S!NoLink
    <3>1. RowsApart /\ S!NoLink \in Around
      BY SocialHas DEF Around
    <3>2. QED
      BY <1>4, <1>5, <3>1, NoLinkIs DEF RowsApart
  <2>4. HasRead(q)
    BY <1>2, <1>3, <2>2 DEF HasRead, Follows
  <2>5. KeepsCalm(r, q)
    BY <1>1, <1>3, <2>2, <2>3 DEF KeepsCalm, Free, Spares, Unused, MayEnter, Follows
  <2>6. QED
    BY <1>1, <1>3, <2>2, <2>4, <2>5, OnlySteps
<1>6. CASE l.owner # None
  <2>. DEFINE u == l.owner
              q == [req[r] EXCEPT !.pc = "save_link", !.link = l, !.user = u]
  <2>1. req' = [req EXCEPT ![r].pc = "save_link", ![r].link = l, ![r].user = u]
    BY <1>6 DEF S!FindSocialAccount
  <2>2. u \in User
    BY <1>4, <1>6
  <2>. HIDE DEF l, u
  <2>3. /\ q \in S!Request /\ q.pc = "save_link" /\ q.goal = req[r].goal
        /\ q.provider = req[r].provider /\ q.link = l /\ q.user = u
        /\ q.token = req[r].token /\ req' = [req EXCEPT ![r] = q]
    BY <1>2, <1>4, <2>1, <2>2 DEF S!Request, S!Steps
  <2>. HIDE DEF q
  <2>4. HasRead(q)
    <3>1. q.link.owner = q.user
      BY <2>3 DEF u
    <3>2. QED
      BY <1>2, <1>3, <2>2, <2>3, <3>1 DEF HasRead
  <2>5. KeepsCalm(r, q)
    BY <1>1, <1>3, <2>3 DEF KeepsCalm, Free, Spares, Unused, MayEnter
  <2>6. QED
    BY <1>1, <1>3, <1>4, <2>3, <2>4, <2>5, OnlySteps
<1>7. QED
  BY <1>5, <1>6

LEMMA ReadUserKeeps ==
  ASSUME SocialInv, NEW r \in Req, S!ReadUser(r)
  PROVE  SocialInv'
<1>. DEFINE u == req[r].user
            row == users[u]
<1>1. Rests /\ req[r].pc = "read_user"
  BY DEF S!ReadUser, S!At, S!Kept, S!history, Rests
<1>2. req[r] \in S!Request /\ HasRead(req[r]) /\ req[r].link \in Around
  BY OneSocialReq DEF Around
<1>3. req[r].goal = "login" /\ req[r].provider \in Provider /\ u \in User /\ Inserting(req[r])
  BY <1>1, <1>2 DEF HasRead, Inserting
<1>4. row \in S!UserRow
  BY <1>3, SocialHas, OneUser
<1>5. \/ S!Goto(r, "grant") /\ (S!Present(u) => row.active)
      \/ S!Finish(r)
      \/ /\ S!Present(u) /\ row.active
         /\ req' = [req EXCEPT ![r].pc = "save_user", ![r].copy = row]
  BY DEF S!ReadUser
<1>6. CASE S!Goto(r, "grant") /\ (S!Present(u) => row.active)
  <2>1. PICK q \in S!Request : req' = [req EXCEPT ![r] = q] /\ Follows(r, q, "grant")
                               /\ q.link \in Around
    BY <1>6, SocialGoto DEF S!Steps
  <2>2. HasRead(q) /\ ~ Inserting(q)
    BY <1>2, <1>3, <2>1 DEF HasRead, Follows, Inserting
  <2>3. KeepsCalm(r, q)
    BY <1>1, <1>3, <1>6, <2>1 DEF KeepsCalm, Free, Spares, Unused, MayEnter, Follows
  <2>4. QED
    BY <1>1, <2>1, <2>2, <2>3, OnlySteps
<1>7. CASE S!Finish(r)
  BY <1>1, <1>7, OnlyEnds
<1>8. CASE /\ S!Present(u) /\ row.active
           /\ req' = [req EXCEPT ![r].pc = "save_user", ![r].copy = row]
  <2>. DEFINE q == [req[r] EXCEPT !.pc = "save_user", !.copy = row]
  <2>1. row.status = "present" /\ row.active
    BY <1>8 DEF S!Present
  <2>. HIDE DEF row
  <2>2. /\ q \in S!Request /\ q.pc = "save_user" /\ q.goal = req[r].goal
        /\ q.provider = req[r].provider /\ q.link = req[r].link /\ q.user = u
        /\ q.copy = row /\ q.token = req[r].token /\ req' = [req EXCEPT ![r] = q]
    BY <1>2, <1>4, <1>8 DEF S!Request, S!Steps
  <2>. HIDE DEF q
  <2>3. HasRead(q)
    BY <1>2, <1>3, <2>1, <2>2 DEF HasRead
  <2>4. users[u].active
    BY <1>8 DEF row
  <2>5. KeepsCalm(r, q)
    BY <1>1, <1>3, <2>2, <2>4 DEF KeepsCalm, Free, Spares, Unused, MayEnter
  <2>6. QED
    BY <1>1, <1>2, <1>3, <2>2, <2>3, <2>5, OnlySteps
<1>9. QED
  BY <1>5, <1>6, <1>7, <1>8

LEMMA FindUserKeeps ==
  ASSUME SocialInv, NEW r \in Req, S!FindUserByEmail(r)
  PROVE  SocialInv'
<1>1. Rests /\ req[r].pc = "find_user"
  BY DEF S!FindUserByEmail, S!At, S!Kept, S!history, Rests
<1>2. req[r] \in S!Request /\ HasRead(req[r]) /\ req[r].link \in Around
  BY OneSocialReq DEF Around
<1>3. req[r].goal = "login" /\ req[r].provider \in Provider /\ Inserting(req[r])
  BY <1>1, <1>2 DEF HasRead, Inserting
<1>4. Calm({"unlink", "link"}) => Free(req[r])
  BY CalmRequest
<1>5. \/ S!Goto(r, "create")
      \/ S!Finish(r)
      \/ \E u \in User : req' = [req EXCEPT ![r].pc = "store_merge", ![r].user = u]
  BY DEF S!FindUserByEmail, S!AtHome
<1>6. CASE S!Goto(r, "create")
  <2>1. PICK q \in S!Request : req' = [req EXCEPT ![r] = q] /\ Follows(r, q, "create")
                               /\ q.link \in Around
    BY <1>6, SocialGoto DEF S!Steps
  <2>2. HasRead(q)
    BY <1>2, <1>3, <2>1 DEF HasRead, Follows
  <2>3. Calm({"unlink", "link"})' => Free(q)
    BY <1>1, <1>4, <2>1, CalmRests DEF Follows, Free, Rests
  <2>4. KeepsCalm(r, q)
    BY <1>1, <1>3, <2>1, <2>3 DEF KeepsCalm, Spares, Unused, MayEnter, Follows
  <2>5. QED
    BY <1>1, <1>3, <2>1, <2>2, <2>4, OnlySteps
<1>7. CASE S!Finish(r)
  BY <1>1, <1>7, OnlyEnds
<1>8. CASE \E u \in User : req' = [req EXCEPT ![r].pc = "store_merge", ![r].user = u]
  <2>1. PICK u \in User : req' = [req EXCEPT ![r].pc = "store_merge", ![r].user = u]
    BY <1>8
  <2>. DEFINE q == [req[r] EXCEPT !.pc = "store_merge", !.user = u]
  <2>2. /\ q \in S!Request /\ q.pc = "store_merge" /\ q.goal = req[r].goal
        /\ q.provider = req[r].provider /\ q.link = req[r].link /\ q.user = u
        /\ q.token = req[r].token /\ req' = [req EXCEPT ![r] = q]
    BY <1>2, <2>1 DEF S!Request, S!Steps
  <2>. HIDE DEF q
  <2>3. HasRead(q)
    BY <1>2, <1>3, <2>2 DEF HasRead
  <2>4. KeepsCalm(r, q)
    BY <1>1, <1>3, <2>2 DEF KeepsCalm, Free, Spares, Unused, MayEnter
  <2>5. QED
    BY <1>1, <1>2, <1>3, <2>2, <2>3, <2>4, OnlySteps
<1>9. QED
  BY <1>5, <1>6, <1>7, <1>8

LEMMA LinkCallbackKeeps ==
  ASSUME SocialInv, NEW r \in Req, NEW p \in Provider, S!LinkCallback(r, p)
  PROVE  SocialInv'
<1>1. Rests /\ req[r].pc = "away" /\ req[r].goal = "link"
  BY DEF S!LinkCallback, S!Back, S!At, S!Kept, S!history, Rests
<1>2. req[r] \in S!Request /\ HasRead(req[r])
  BY OneSocialReq
<1>3. S!Goto(r, "insert_link") \/ S!Finish(r)
  BY DEF S!LinkCallback
<1>4. CASE S!Goto(r, "insert_link")
  <2>1. PICK q \in S!Request : req' = [req EXCEPT ![r] = q] /\ Follows(r, q, "insert_link")
                               /\ q.link \in Around
    BY <1>4, SocialGoto DEF S!Steps
  <2>2. HasRead(q) /\ Inserting(req[r])
    BY <1>1, <1>2, <2>1 DEF HasRead, Follows, Inserting
  <2>3. KeepsCalm(r, q)
    BY <1>1, <2>1 DEF KeepsCalm, Free, Spares, Unused, MayEnter, Follows
  <2>4. QED
    BY <1>1, <2>1, <2>2, <2>3, OnlySteps
<1>5. CASE S!Finish(r)
  BY <1>1, <1>5, OnlyEnds
<1>6. QED
  BY <1>3, <1>4, <1>5

LEMMA SameCount == \A s : S!Cardinality(s) = Cardinality(s)
BY Zenon DEF S!Cardinality, Cardinality

\* With more than one link there is another.
LEMMA AnotherLink ==
  ASSUME SocialInv, NEW u \in User, S!Removable(u), NEW p
  PROVE  users[u].password \/ \E other \in Provider : other # p /\ social[other].owner = u
<1>0. users[u].password \/ Cardinality(S!Linked(u)) > 1
  BY SameCount, Zenon DEF S!Removable
<1>. SUFFICES ASSUME Cardinality(S!Linked(u)) > 1,
                     \A other \in Provider : other # p => social[other].owner # u
              PROVE  FALSE
  BY <1>0, Zenon
<1>1. S!Linked(u) \subseteq {p}
  BY DEF S!Linked
<1>2. IsFiniteSet({p}) /\ Cardinality({p}) = 1
  BY FS_Singleton
<1>3. Cardinality(S!Linked(u)) <= Cardinality({p})
  BY <1>1, <1>2, FS_Subset
<1>4. Cardinality(S!Linked(u)) \in Nat
  BY <1>1, <1>2, FS_Subset, FS_CardinalityType
<1>. DEFINE m == Cardinality(S!Linked(u))
<1>5. m \in Nat /\ m <= 1 /\ m > 1
  BY <1>2, <1>3, <1>4
<1>. HIDE DEF m
<1>6. QED
  BY <1>5

LEMMA CountKeeps ==
  ASSUME SocialInv, NEW r \in Req, S!CountSocialAccounts(r)
  PROVE  SocialInv'
<1>. DEFINE u == req[r].user
<1>1. Rests /\ req[r].pc = "check"
  BY DEF S!CountSocialAccounts, S!At, S!Kept, S!history, Rests
<1>2. req[r] \in S!Request /\ HasRead(req[r])
  BY OneSocialReq
<1>3. req[r].goal = "unlink" /\ u \in User /\ Inserting(req[r])
  BY <1>1, <1>2 DEF HasRead, Inserting
<1>4. (S!Goto(r, "delete") /\ S!Removable(u)) \/ S!Finish(r)
  BY DEF S!CountSocialAccounts
<1>5. CASE S!Goto(r, "delete") /\ S!Removable(u)
  <2>1. PICK q \in S!Request : req' = [req EXCEPT ![r] = q] /\ Follows(r, q, "delete")
                               /\ q.link \in Around
    BY <1>5, SocialGoto DEF S!Steps
  <2>2. HasRead(q)
    BY <1>1, <1>2, <2>1 DEF HasRead, Follows
  <2>3. \/ users[u].password
        \/ \E other \in Provider : other # req[r].provider /\ social[other].owner = u
    BY <1>3, <1>5, AnotherLink
  <2>4. Spares(q)
    BY <2>1, <2>3 DEF Spares, Follows
  <2>5. KeepsCalm(r, q)
    BY <1>1, <1>3, <2>1, <2>4 DEF KeepsCalm, Free, Unused, MayEnter, Follows
  <2>6. QED
    BY <1>1, <1>3, <2>1, <2>2, <2>5, OnlySteps
<1>6. CASE S!Finish(r)
  BY <1>1, <1>6, OnlyEnds
<1>7. QED
  BY <1>4, <1>5, <1>6

LEMMA VerifyKeeps ==
  ASSUME SocialInv, NEW r \in Req, S!VerifyOwner(r)
  PROVE  SocialInv'
<1>. DEFINE u == req[r].user
<1>1. Rests /\ req[r].pc = "verify"
  BY DEF S!VerifyOwner, S!At, S!Kept, S!history, Rests
<1>2. req[r] \in S!Request /\ HasRead(req[r])
  BY OneSocialReq
<1>3. req[r].goal = "merge" /\ u \in User /\ Inserting(req[r])
  BY <1>1, <1>2 DEF HasRead, Inserting
<1>4. \/ S!Goto(r, "insert_link") /\ users[u].status = "present" /\ users[u].active
      \/ S!Finish(r)
  BY DEF S!VerifyOwner
<1>5. CASE S!Goto(r, "insert_link") /\ users[u].status = "present" /\ users[u].active
  <2>1. PICK q \in S!Request : req' = [req EXCEPT ![r] = q] /\ Follows(r, q, "insert_link")
                               /\ q.link \in Around
    BY <1>5, SocialGoto DEF S!Steps
  <2>2. HasRead(q)
    BY <1>1, <1>2, <2>1 DEF HasRead, Follows
  <2>3. Calm({"merge"})' => Unused(q)
    BY <1>1, <1>3, <2>1, CalmRequest, CalmRests DEF Unused, Follows, Rests
  <2>4. KeepsCalm(r, q)
    BY <1>1, <1>3, <1>5, <2>1, <2>3
       DEF KeepsCalm, Free, Spares, MayEnter, Follows, S!Present
  <2>5. QED
    BY <1>1, <1>3, <2>1, <2>2, <2>4, OnlySteps
<1>6. CASE S!Finish(r)
  BY <1>1, <1>6, OnlyEnds
<1>7. QED
  BY <1>4, <1>5, <1>6

\* A failure leaves nothing calm.
LEMMA FailKeeps ==
  ASSUME SocialInv, NEW r \in Req, S!Fail(r)
  PROVE  SocialInv'
<1>1. /\ errors < MaxErrors /\ errors' = errors + 1 /\ req[r].pc # "idle"
      /\ UNCHANGED <<users, social, merge, served, changes, drawn, links, overlap, undone,
                     wrong>>
  BY DEF S!Fail, S!history
<1>2. req[r] \in S!Request /\ HasRead(req[r])
  BY OneSocialReq
<1>3. errors \in 0 .. MaxErrors /\ served \in 0 .. MaxRequests
  BY SocialHas, StoredTyped
<1>4. errors' \in 0 .. MaxErrors /\ errors' # 0 /\ served' \in 0 .. MaxRequests
  BY <1>1, <1>3, SocialConstants
<1>5. \A what : ~ Calm(what)'
  BY <1>4 DEF Calm
<1>6. \A q : KeepsCalm(r, q)
  BY <1>5 DEF KeepsCalm
<1>7. \/ S!Goto(r, "find_user") /\ req[r].pc = "find"
      \/ S!Goto(r, "grant") /\ req[r].pc \in {"read_user", "save_user", "drop_token"}
      \/ S!Goto(r, "create") /\ req[r].pc = "find_user"
      \/ S!Finish(r)
  BY DEF S!Fail, S!AfterFailure
<1>8. \/ \E q \in S!Request : /\ req' = [req EXCEPT ![r] = q] /\ Follows(r, q, "find_user")
                              /\ q.link \in Around /\ req[r].pc = "find"
      \/ \E q \in S!Request : /\ req' = [req EXCEPT ![r] = q] /\ Follows(r, q, "grant")
                              /\ q.link \in Around
                              /\ req[r].pc \in {"read_user", "save_user", "drop_token"}
      \/ \E q \in S!Request : /\ req' = [req EXCEPT ![r] = q] /\ Follows(r, q, "create")
                              /\ q.link \in Around /\ req[r].pc = "find_user"
      \/ req' = [req EXCEPT ![r] = S!Idle]
  BY <1>7, SocialGoto DEF S!Steps, S!Finish
<1>9. \E q \in S!Request : /\ req' = [req EXCEPT ![r] = q] /\ q.link \in Around /\ HasRead(q)
                           /\ Inserting(q) => Inserting(req[r])
  <2>1. CASE \E q \in S!Request :
               /\ req' = [req EXCEPT ![r] = q] /\ Follows(r, q, "find_user")
               /\ q.link \in Around /\ req[r].pc = "find"
    BY <1>2, <2>1 DEF HasRead, Follows, Inserting
  <2>2. CASE \E q \in S!Request :
               /\ req' = [req EXCEPT ![r] = q] /\ Follows(r, q, "grant")
               /\ q.link \in Around /\ req[r].pc \in {"read_user", "save_user", "drop_token"}
    BY <1>2, <2>2 DEF HasRead, Follows, Inserting
  <2>3. CASE \E q \in S!Request :
               /\ req' = [req EXCEPT ![r] = q] /\ Follows(r, q, "create")
               /\ q.link \in Around /\ req[r].pc = "find_user"
    BY <1>2, <2>3 DEF HasRead, Follows, Inserting
  <2>4. CASE req' = [req EXCEPT ![r] = S!Idle]
    <3>1. S!NoLink \in Around
      BY DEF Around
    <3>2. HasRead(S!Idle) /\ ~ Inserting(S!Idle)
      <4>. HIDE DEF S!Idle
      <4>1. QED
        BY SocialIdle DEF HasRead, Inserting
    <3>3. QED
      BY <2>4, <3>1, <3>2, SocialIdle
  <2>5. QED
    BY <1>8, <2>1, <2>2, <2>3, <2>4
<1>10. PICK q \in S!Request : /\ req' = [req EXCEPT ![r] = q] /\ q.link \in Around /\ HasRead(q)
                              /\ Inserting(q) => Inserting(req[r])
  BY <1>9
<1>11. QED
  BY <1>1, <1>4, <1>6, <1>10, OnlyMoves

-----------------------------------------------------------------------------
(* Merge tokens.                                                            *)

\* What Structure asks of a request that ends and reads nothing new.
LEMMA EndsIdle ==
  ASSUME SocialInv, NEW r \in Req, S!Finish(r)
  PROVE  /\ S!Idle \in S!Request /\ req' = [req EXCEPT ![r] = S!Idle] /\ HasRead(S!Idle)
         /\ ~ Inserting(S!Idle) /\ S!Idle.link \in Around /\ S!NoLink \in Around
         /\ S!Idle.pc = "idle" /\ S!Idle.goal = "none"
<1>1. req' = [req EXCEPT ![r] = S!Idle]
  BY DEF S!Finish
<1>2. /\ S!Idle \in S!Request /\ S!Idle.pc = "idle" /\ S!Idle.goal = "none"
      /\ S!Idle.link = S!NoLink
  BY SocialIdle
<1>3. S!NoLink \in Around
  BY DEF Around
<1>. HIDE DEF S!Idle
<1>4. HasRead(S!Idle) /\ ~ Inserting(S!Idle)
  BY <1>2 DEF HasRead, Inserting
<1>5. QED
  BY <1>1, <1>2, <1>3, <1>4

LEMMA MergeTokenKeeps ==
  ASSUME SocialInv, NEW r \in Req, S!CreateMergeToken(r)
  PROVE  SocialInv'
<1>. DEFINE q == S!Idle
            u == req[r].user
            p == req[r].provider
<1>0. /\ Stored /\ RowsDrawn /\ req[r] \in S!Request /\ HasRead(req[r])
  BY SocialHas, OneSocialReq
<1>1. PICK t \in Token \ drawn.tokens :
        /\ merge' = [merge EXCEPT ![t] = [user |-> u, provider |-> p]]
        /\ drawn' = [drawn EXCEPT !.tokens = @ \cup {t}]
  BY DEF S!CreateMergeToken
<1>2. /\ req[r].pc = "store_merge" /\ S!Finish(r)
      /\ UNCHANGED <<users, social, served, changes, errors, links, overlap, undone, wrong>>
  BY DEF S!CreateMergeToken, S!At, S!Kept
<1>3. u \in User /\ p \in Provider /\ req[r].goal = "login" /\ Inserting(req[r])
  BY <1>0, <1>2 DEF HasRead, Inserting
<1>4. /\ drawn'.tokens = drawn.tokens \cup {t} /\ drawn'.rows = drawn.rows
      /\ drawn' \in [tokens : SUBSET Token, rows : Nat]
  BY <1>0, <1>1, StoredTyped
<1>. HIDE DEF u, p
<1>5. /\ merge' \in [Token -> [user : User \cup {None}, provider : Provider \cup {None}]]
      /\ merge'[t] = [user |-> u, provider |-> p]
      /\ \A other \in Token : other # t => merge'[other] = merge[other]
  BY <1>0, <1>1, <1>3, StoredTyped
<1>6. Stored'
  <2>1. \A x \in Provider : social[x] # S!NoLink => S!Present(social[x].owner)
    BY <1>0, OneSocial
  <2>2. QED
    BY <1>0, <1>2, <1>4, <1>5, <2>1, StoredTyped, Zenon DEF Stored, S!Present
<1>7. /\ q \in S!Request /\ req' = [req EXCEPT ![r] = q] /\ HasRead(q) /\ ~ Inserting(q)
      /\ q.link \in Around /\ S!NoLink \in Around /\ q.pc = "idle" /\ q.goal = "none"
  BY <1>2, EndsIdle
<1>. HIDE DEF q
<1>8. /\ req' \in [Req -> S!Request] /\ (\A s \in Req : HasRead(req[s]))'
      /\ RowsApart' /\ RowsDrawn'
  <2>1. HasRead(q)'
    BY <1>7 DEF HasRead
  <2>2. \A x \in Provider : social'[x] \in Around \cup {S!NoLink}
    BY <1>2 DEF Around
  <2>3. \A x \in Token :
          /\ links'[x] <= drawn'.rows /\ (links'[x] > 0 => x \in drawn'.tokens)
          /\ merge'[x].user # None => merge'[x].provider \in Provider /\ x \in drawn'.tokens
    BY <1>0, <1>2, <1>3, <1>4, <1>5 DEF RowsDrawn
  <2>4. /\ drawn.tokens \subseteq drawn'.tokens /\ drawn'.tokens \subseteq Token
        /\ served' = served
        /\ \A x \in User : users[x].status # "none" => users'[x].status # "none"
    BY <1>0, <1>1, <1>2, <1>4 DEF RowsDrawn
  <2>5. QED
    BY <1>4, <1>6, <1>7, <2>1, <2>2, <2>3, <2>4, Structure
<1>9. Ways'
  BY <1>2, <1>3, <1>7, WaysMove DEF Free, Spares
<1>10. Entering'
  BY <1>2, <1>7, EnteringMove DEF MayEnter
<1>11. Merges'
  <2>1. req'[r] = q /\ \A s \in Req : s # r => req'[s] = req[s]
    BY <1>7, SocialGoes
  <2>. SUFFICES ASSUME Calm({"merge"})'
                PROVE  /\ (\A x \in Token : links[x] = 0 \/ (links[x] = 1 /\
                             (merge[x].user = None \/ Dropping(x))))'
                       /\ (\A s \in Req : Unused(req[s]))'
                       /\ (\A s, x \in Req : req[s].goal = "merge" /\ req[x].goal = "merge"
                                               => s = x)'
    BY Zenon DEF Merges
  <2>2. Calm({"merge"})
    BY <1>2, CalmBefore
  <2>3. /\ \A x \in Token :
             links[x] = 0 \/ (links[x] = 1 /\ (merge[x].user = None \/ Dropping(x)))
        /\ \A s \in Req : Unused(req[s])
        /\ \A s, x \in Req : req[s].goal = "merge" /\ req[x].goal = "merge" => s = x
    BY <2>2, SocialHas, Zenon DEF Merges
  <2>4. links[t] = 0
    <3>1. links[t] \in Nat
      BY <1>0, StoredTyped
    <3>2. QED
      BY <1>0, <1>1, <3>1 DEF RowsDrawn
  <2>5. \A x \in Token : Dropping(x) => Dropping(x)'
    BY <1>2, <2>1 DEF Dropping
  <2>6. (\A x \in Token : links[x] = 0 \/ (links[x] = 1 /\
           (merge[x].user = None \/ Dropping(x))))'
    BY <1>2, <1>5, <2>3, <2>4, <2>5
  <2>7. (\A s \in Req : Unused(req[s]))'
    BY <1>2, <1>7, <2>1, <2>3 DEF Unused
  <2>8. QED
    BY <1>7, <2>1, <2>3, <2>6, <2>7
<1>12. QED
  BY <1>6, <1>8, <1>9, <1>10, <1>11, Zenon DEF SocialInv

LEMMA DropTokenKeeps ==
  ASSUME SocialInv, NEW r \in Req, S!DeleteMergeToken(r)
  PROVE  SocialInv'
<1>. DEFINE t == req[r].token
<1>0. /\ Stored /\ RowsDrawn /\ req[r] \in S!Request /\ HasRead(req[r])
  BY SocialHas, OneSocialReq
<1>1. /\ req[r].pc = "drop_token" /\ S!Goto(r, "grant")
      /\ merge' = [merge EXCEPT ![t] = S!NoMerge]
      /\ UNCHANGED <<users, social, served, changes, errors, drawn, links, overlap, undone,
                     wrong>>
  BY DEF S!DeleteMergeToken, S!At, S!Kept, S!history
<1>2. req[r].goal = "merge" /\ t \in Token /\ ~ Inserting(req[r])
  BY <1>0, <1>1 DEF HasRead, Inserting, RowsDrawn
<1>. HIDE DEF t
<1>3. /\ merge' \in [Token -> [user : User \cup {None}, provider : Provider \cup {None}]]
      /\ merge'[t].user = None
      /\ \A other \in Token : other # t => merge'[other] = merge[other]
  BY <1>0, <1>1, <1>2, StoredTyped DEF S!NoMerge
<1>4. Stored'
  <2>1. \A x \in Provider : social[x] # S!NoLink => S!Present(social[x].owner)
    BY <1>0, OneSocial
  <2>2. QED
    BY <1>0, <1>1, <1>3, <2>1, StoredTyped, Zenon DEF Stored, S!Present
<1>5. PICK q \in S!Request : req' = [req EXCEPT ![r] = q] /\ Follows(r, q, "grant")
                             /\ q.link \in Around
  BY <1>1, SocialGoto DEF S!Steps
<1>6. ~ Inserting(q) /\ HasRead(q) /\ q.goal = "merge" /\ q.pc = "grant"
  BY <1>0, <1>1, <1>2, <1>5 DEF HasRead, Follows, Inserting
<1>7. /\ req' \in [Req -> S!Request] /\ (\A s \in Req : HasRead(req[s]))'
      /\ RowsApart' /\ RowsDrawn'
  <2>1. HasRead(q)'
    BY <1>1, <1>6 DEF HasRead
  <2>2. S!NoLink \in Around /\ \A x \in Provider : social'[x] \in Around \cup {S!NoLink}
    BY <1>1 DEF Around
  <2>3. \A x \in Token :
          /\ links'[x] <= drawn'.rows /\ (links'[x] > 0 => x \in drawn'.tokens)
          /\ merge'[x].user # None => merge'[x].provider \in Provider /\ x \in drawn'.tokens
    BY <1>0, <1>1, <1>3 DEF RowsDrawn
  <2>4. /\ drawn.tokens \subseteq drawn'.tokens /\ drawn'.tokens \subseteq Token
        /\ served' = served /\ drawn'.rows = drawn.rows
        /\ \A x \in User : users[x].status # "none" => users'[x].status # "none"
    BY <1>0, <1>1 DEF RowsDrawn
  <2>5. QED
    BY <1>4, <1>5, <1>6, <2>1, <2>2, <2>3, <2>4, Structure
<1>8. Ways'
  BY <1>1, <1>2, <1>5, <1>6, WaysMove DEF Free, Spares
<1>9. Entering'
  <2>1. Calm({"change"})' => MayEnter(q)
    BY <1>1, <1>2, <1>5, <1>6, CalmRequest, CalmRests DEF MayEnter, Follows
  <2>2. QED
    BY <1>1, <1>5, <2>1, EnteringMove
<1>10. Merges'
  <2>1. req'[r] = q /\ \A s \in Req : s # r => req'[s] = req[s]
    BY <1>5, SocialGoes
  <2>. SUFFICES ASSUME Calm({"merge"})'
                PROVE  /\ (\A x \in Token : links[x] = 0 \/ (links[x] = 1 /\
                             (merge[x].user = None \/ Dropping(x))))'
                       /\ (\A s \in Req : Unused(req[s]))'
                       /\ (\A s, x \in Req : req[s].goal = "merge" /\ req[x].goal = "merge"
                                               => s = x)'
    BY Zenon DEF Merges
  <2>2. Calm({"merge"})
    BY <1>1, CalmBefore
  <2>3. /\ \A x \in Token :
             links[x] = 0 \/ (links[x] = 1 /\ (merge[x].user = None \/ Dropping(x)))
        /\ \A s \in Req : Unused(req[s])
        /\ \A s, x \in Req : req[s].goal = "merge" /\ req[x].goal = "merge" => s = x
    BY <2>2, SocialHas, Zenon DEF Merges
  <2>4. \A x \in Token : x # t /\ Dropping(x) => Dropping(x)'
    BY <2>1 DEF Dropping, t
  <2>5. (\A x \in Token : links[x] = 0 \/ (links[x] = 1 /\
           (merge[x].user = None \/ Dropping(x))))'
    BY <1>1, <1>3, <2>3, <2>4
  <2>6. (\A s \in Req : Unused(req[s]))'
    BY <1>1, <1>6, <2>1, <2>3 DEF Unused
  <2>7. QED
    BY <1>2, <1>6, <2>1, <2>3, <2>5, <2>6
<1>11. QED
  BY <1>4, <1>7, <1>8, <1>9, <1>10, Zenon DEF SocialInv

LEMMA GrantKeeps ==
  ASSUME SocialInv, NEW r \in Req, S!CreateSessionOrTokens(r)
  PROVE  SocialInv'
<1>. DEFINE q == S!Idle
            u == req[r].user
<1>0. /\ Stored /\ RowsDrawn /\ req[r] \in S!Request /\ HasRead(req[r])
  BY SocialHas, OneSocialReq
<1>1. /\ req[r].pc = "grant" /\ S!Finish(r)
      /\ wrong' = IF (S!Present(u) \/ req[r].goal = "merge")
                       /\ ~ (S!Present(u) /\ users[u].active)
                    THEN wrong \cup {u} ELSE wrong
      /\ UNCHANGED <<users, social, merge, served, changes, errors, drawn, links, overlap,
                     undone>>
  BY DEF S!CreateSessionOrTokens, S!At, S!Kept
<1>2. u \in User /\ req[r].goal \in {"login", "merge"}
  BY <1>0, <1>1 DEF HasRead
<1>3. wrong' \subseteq User
  BY <1>0, <1>1, <1>2, StoredTyped
<1>4. Calm({"change"})' => wrong' = {}
  <2>. SUFFICES ASSUME Calm({"change"}) PROVE wrong' = {}
    BY <1>1, CalmRests
  <2>1. wrong = {} /\ MayEnter(req[r])
    BY CalmRequest
  <2>2. QED
    BY <1>1, <1>2, <2>1, Zenon DEF MayEnter
<1>5. Stored'
  <2>1. \A x \in Provider : social[x] # S!NoLink => S!Present(social[x].owner)
    BY <1>0, OneSocial
  <2>2. QED
    BY <1>0, <1>1, <1>3, <2>1, StoredTyped, Zenon DEF Stored, S!Present
<1>6. /\ q \in S!Request /\ req' = [req EXCEPT ![r] = q] /\ HasRead(q) /\ ~ Inserting(q)
      /\ q.link \in Around /\ S!NoLink \in Around /\ q.pc = "idle" /\ q.goal = "none"
  BY <1>1, EndsIdle
<1>. HIDE DEF q, u
<1>7. /\ req' \in [Req -> S!Request] /\ (\A s \in Req : HasRead(req[s]))'
      /\ RowsApart' /\ RowsDrawn'
  <2>1. HasRead(q)'
    BY <1>6 DEF HasRead
  <2>2. \A x \in Provider : social'[x] \in Around \cup {S!NoLink}
    BY <1>1 DEF Around
  <2>3. \A x \in Token :
          /\ links'[x] <= drawn'.rows /\ (links'[x] > 0 => x \in drawn'.tokens)
          /\ merge'[x].user # None => merge'[x].provider \in Provider /\ x \in drawn'.tokens
    BY <1>0, <1>1 DEF RowsDrawn
  <2>4. /\ drawn.tokens \subseteq drawn'.tokens /\ drawn'.tokens \subseteq Token
        /\ served' = served /\ drawn'.rows = drawn.rows
        /\ \A x \in User : users[x].status # "none" => users'[x].status # "none"
    BY <1>0, <1>1 DEF RowsDrawn
  <2>5. QED
    BY <1>5, <1>6, <2>1, <2>2, <2>3, <2>4, Structure
<1>8. Ways'
  BY <1>1, <1>6, WaysMove DEF Free, Spares
<1>9. Merges'
  BY <1>1, <1>6, MergesMove DEF Unused
<1>10. Entering'
  <2>1. req'[r] = q /\ \A s \in Req : s # r => req'[s] = req[s]
    BY <1>6, SocialGoes
  <2>2. Calm({"change"})' => \A s \in Req : MayEnter(req'[s])
    <3>. SUFFICES ASSUME Calm({"change"}), NEW s \in Req PROVE MayEnter(req'[s])
      BY <1>1, CalmRests
    <3>1. MayEnter(req[s])
      BY CalmRequest
    <3>2. QED
      BY <1>6, <2>1, <3>1 DEF MayEnter
  <2>3. Calm({"change"})' => (\A s \in Req : MayEnter(req[s]))'
    BY <1>1, <2>2 DEF MayEnter, S!Present
  <2>4. QED
    BY <1>4, <2>3, Zenon DEF Entering
<1>11. QED
  BY <1>5, <1>7, <1>8, <1>9, <1>10, Zenon DEF SocialInv

-----------------------------------------------------------------------------
(* Rows of social_accounts.                                                 *)

\* A row is added: somebody gets a way in, and a login that has not found the
\* identity is remembered.
LEMMA LinkAdded ==
  ASSUME SocialInv, NEW r \in Req, NEW q \in S!Request, req' = [req EXCEPT ![r] = q],
         NEW p \in Provider, NEW l, social[p] = S!NoLink, l.owner \in User,
         social' = [social EXCEPT ![p] = l], overlap' = overlap \cup S!Late(r, p),
         UNCHANGED <<users, undone, errors>>,
         q.pc \notin {"find_user", "create", "insert_link", "delete"}, q.goal # "unlink",
         req[r].pc = "insert_link" => req[r].user = l.owner
  PROVE  Ways'
<1>0. Stored /\ social \in [Provider -> S!Link]
  BY SocialHas, StoredTyped
<1>1. req'[r] = q /\ \A s \in Req : s # r => req'[s] = req[s]
  BY SocialGoes
<1>2. social'[p] = l /\ \A x \in Provider : x # p => social'[x] = social[x]
  <2>. HIDE DEF S!Link
  <2>1. QED
    BY <1>0
<1>3. social[p].owner = None /\ None \notin User
  BY NoLinkIs, SocialConstants
<1>. SUFFICES ASSUME Calm({"unlink", "link"})'
              PROVE  /\ (\A u \in User : S!Present(u) /\ u \notin undone => HasWay(u))'
                     /\ (\A s \in Req : Free(req[s]) /\ Spares(req[s]))'
                     /\ (\A s, t \in Req : req[s].goal = "unlink" /\ req[t].goal = "unlink"
                                             => s = t)'
  BY Zenon DEF Ways
<1>4. Calm({"unlink", "link"})
  BY CalmBefore
<1>5. /\ \A u \in User : S!Present(u) /\ u \notin undone => HasWay(u)
      /\ \A s \in Req : Free(req[s]) /\ Spares(req[s])
      /\ \A s, t \in Req : req[s].goal = "unlink" /\ req[t].goal = "unlink" => s = t
  BY <1>4, SocialHas, Zenon DEF Ways
<1>6. \A s \in Req \ {r} : req[s].goal = "login" /\ req[s].provider = p
                             => req[s].pc \notin {"find_user", "create", "insert_link"}
  BY DEF Calm, S!Late, S!Serving
<1>7. ASSUME NEW u \in User, S!Present(u)', u \notin undone'
      PROVE  HasWay(u)'
  <2>1. S!Present(u) /\ HasWay(u)
    BY <1>5, <1>7 DEF S!Present
  <2>2. CASE FirstLink(u)
    <3>1. PICK s \in Req : req[s].pc = "insert_link" /\ req[s].goal = "login" /\ req[s].user = u
      BY <2>2 DEF FirstLink
    <3>2. CASE s = r
      <4>1. social'[p].owner = u
        BY <1>2, <3>1, <3>2
      <4>2. QED
        BY <4>1 DEF HasWay, S!Linked
    <3>3. CASE s # r
      BY <1>1, <3>1, <3>3 DEF HasWay, FirstLink
    <3>4. QED
      BY <3>2, <3>3
  <2>3. CASE S!Linked(u) # {}
    <3>1. PICK x \in Provider : social[x].owner = u
      BY <2>3 DEF S!Linked
    <3>2. social'[x].owner = u
      BY <1>2, <1>3, <3>1
    <3>3. QED
      BY <3>2 DEF HasWay, S!Linked
  <2>4. CASE users[u].password
    BY <2>4 DEF HasWay
  <2>5. QED
    BY <2>1, <2>2, <2>3, <2>4 DEF HasWay
<1>8. ASSUME NEW s \in Req, NEW x, x = req'[s] PROVE Free(x)' /\ Spares(x)'
  <2>1. x = req'[s]
    BY <1>8
  <2>2. CASE s = r
    <3>1. x = q
      BY <1>1, <2>1, <2>2
    <3>2. Free(x)' /\ Spares(x)'
      BY <3>1 DEF Free, Spares
    <3>3. QED
      BY <3>2
  <2>3. CASE s # r
    <3>1. x = req[s] /\ Free(x) /\ Spares(x) /\ HasRead(x)
      BY <1>1, <1>5, <2>1, <2>3, OneSocialReq
    <3>2. Free(x)'
      <4>. SUFFICES ASSUME x.goal = "login", x.pc \in {"find_user", "create", "insert_link"}
                    PROVE  social'[x.provider] = S!NoLink
        BY DEF Free
      <4>1. x.provider \in Provider /\ x.provider # p
        BY <1>6, <2>3, <3>1 DEF HasRead
      <4>2. QED
        BY <1>2, <3>1, <4>1 DEF Free
    <3>3. Spares(x)'
      <4>. SUFFICES ASSUME x.pc = "delete", S!Present(x.user)', x.user \notin undone'
                    PROVE  \/ users'[x.user].password
                           \/ \E y \in Provider : y # x.provider /\ social'[y].owner = x.user
        BY DEF Spares
      <4>1. x.user \in User
        BY <3>1 DEF HasRead
      <4>2. \/ users[x.user].password
            \/ \E y \in Provider : y # x.provider /\ social[y].owner = x.user
        BY <3>1 DEF Spares, S!Present
      <4>3. QED
        BY <1>2, <1>3, <4>1, <4>2
    <3>4. QED
      BY <3>2, <3>3
  <2>4. QED
    BY <2>2, <2>3
<1>9. (\A s \in Req : Free(req[s]) /\ Spares(req[s]))'
  <2>. SUFFICES ASSUME NEW s \in Req PROVE (Free(req[s]) /\ Spares(req[s]))'
    OBVIOUS
  <2>1. PICK x : x = req'[s]
    OBVIOUS
  <2>2. Free(x)' /\ Spares(x)'
    BY <1>8, <2>1
  <2>3. QED
    BY <2>1, <2>2 DEF Free, Spares
<1>10. QED
  BY <1>1, <1>5, <1>7, <1>9

LEMMA InsertKeeps ==
  ASSUME SocialInv, NEW r \in Req, S!CreateSocialAccount(r)
  PROVE  SocialInv'
<1>. DEFINE p == req[r].provider
            t == req[r].token
            u == req[r].user
            n == [owner |-> u, row |-> drawn.rows + 1]
<1>0. /\ Stored /\ RowsDrawn /\ req[r] \in S!Request /\ HasRead(req[r])
  BY SocialHas, OneSocialReq
<1>1. /\ req[r].pc = "insert_link"
      /\ UNCHANGED <<users, merge, served, changes, errors, undone, wrong>>
  BY DEF S!CreateSocialAccount, S!At, S!Kept
<1>2. /\ p \in Provider /\ u \in User /\ Inserting(req[r])
      /\ req[r].goal \in {"login", "link", "merge"}
      /\ req[r].goal = "merge" => t \in Token /\ t \in drawn.tokens
  BY <1>0, <1>1 DEF HasRead, Inserting, RowsDrawn
<1>3. CASE social[p] # S!NoLink \/ ~ S!Present(u)
  <2>1. S!Finish(r) /\ Rests
    BY <1>1, <1>3 DEF S!CreateSocialAccount, Rests
  <2>2. Calm({"unlink", "link"}) /\ req[r].goal = "login" => ~ S!Present(u)
    BY <1>1, <1>3, CalmRequest DEF Free
  <2>3. QED
    BY <1>1, <2>1, <2>2, OnlyEnds
<1>4. CASE social[p] = S!NoLink /\ S!Present(u)
  <2>1. /\ social' = [social EXCEPT ![p] = n] /\ drawn' = [drawn EXCEPT !.rows = @ + 1]
        /\ links' = IF req[r].goal = "merge" THEN [links EXCEPT ![t] = @ + 1] ELSE links
        /\ overlap' = overlap \cup S!Late(r, p)
        /\ IF req[r].goal = "link" THEN S!Finish(r)
           ELSE S!Goto(r, IF req[r].goal = "login" THEN "grant" ELSE "drop_token")
    BY <1>2, <1>4 DEF S!CreateSocialAccount, S!AfterInsert
  <2>2. \E q \in S!Request :
          /\ req' = [req EXCEPT ![r] = q] /\ ~ Inserting(q) /\ HasRead(q) /\ q.link \in Around
          /\ q.pc \in {"idle", "grant", "drop_token"} /\ q.goal # "unlink"
          /\ \/ q.pc = "idle" /\ q.goal = "none" /\ req[r].goal = "link"
             \/ Follows(r, q, "grant") /\ req[r].goal = "login"
             \/ Follows(r, q, "drop_token") /\ req[r].goal = "merge"
    <3>1. CASE req[r].goal = "link"
      <4>1. S!Finish(r)
        BY <2>1, <3>1
      <4>2. QED
        BY <3>1, <4>1, EndsIdle
    <3>2. CASE req[r].goal = "login"
      <4>1. PICK q \in S!Request : req' = [req EXCEPT ![r] = q] /\ Follows(r, q, "grant")
                                   /\ q.link \in Around
        BY <2>1, <3>2, SocialGoto DEF S!Steps
      <4>2. HasRead(q) /\ ~ Inserting(q)
        BY <1>0, <1>2, <3>2, <4>1 DEF HasRead, Follows, Inserting
      <4>3. QED
        BY <3>2, <4>1, <4>2 DEF Follows
    <3>3. CASE req[r].goal = "merge"
      <4>1. PICK q \in S!Request : req' = [req EXCEPT ![r] = q] /\ Follows(r, q, "drop_token")
                                   /\ q.link \in Around
        BY <2>1, <3>3, SocialGoto DEF S!Steps
      <4>2. HasRead(q) /\ ~ Inserting(q)
        BY <1>0, <1>2, <3>3, <4>1 DEF HasRead, Follows, Inserting
      <4>3. QED
        BY <3>3, <4>1, <4>2 DEF Follows
    <3>4. QED
      BY <1>2, <3>1, <3>2, <3>3
  <2>3. PICK q \in S!Request :
          /\ req' = [req EXCEPT ![r] = q] /\ ~ Inserting(q) /\ HasRead(q) /\ q.link \in Around
          /\ q.pc \in {"idle", "grant", "drop_token"} /\ q.goal # "unlink"
          /\ \/ q.pc = "idle" /\ q.goal = "none" /\ req[r].goal = "link"
             \/ Follows(r, q, "grant") /\ req[r].goal = "login"
             \/ Follows(r, q, "drop_token") /\ req[r].goal = "merge"
    BY <2>2
  <2>4. /\ drawn'.rows = drawn.rows + 1 /\ drawn'.tokens = drawn.tokens
        /\ drawn' \in [tokens : SUBSET Token, rows : Nat] /\ drawn.rows \in Nat
        /\ drawn.tokens \subseteq Token
    BY <1>0, <2>1, StoredTyped
  <2>5. drawn.rows + 1 <= MaxRequests
    <3>. DEFINE m == Cardinality(Inserters)
                k == Cardinality(Inserters')
    <3>1. m \in Nat /\ k \in Nat /\ k = m - 1
      BY <1>2, <2>3, InsertersMove
    <3>2. drawn.rows + m <= served /\ served \in 0 .. MaxRequests
      BY <1>0, StoredTyped DEF RowsDrawn
    <3>. HIDE DEF m, k
    <3>3. QED
      BY <2>4, <3>1, <3>2, SocialConstants
  <2>6. n \in S!Link /\ n.owner = u /\ n.row = drawn.rows + 1 /\ n.owner # None /\ n # S!NoLink
    BY <1>2, <2>4, <2>5, SocialConstants, NoLinkIs DEF S!Link
  <2>. HIDE DEF n, p, t, u
  <2>7. /\ social' \in [Provider -> S!Link] /\ social'[p] = n
        /\ \A x \in Provider : x # p => social'[x] = social[x]
    <3>1. social \in [Provider -> S!Link]
      BY <1>0, StoredTyped
    <3>. HIDE DEF S!Link
    <3>2. QED
      BY <1>2, <2>1, <2>6, <3>1
  <2>8. /\ links' \in [Token -> Nat]
        /\ \A x \in Token : \/ links'[x] = links[x]
                            \/ x = t /\ req[r].goal = "merge" /\ links'[x] = links[x] + 1
    <3>1. links \in [Token -> Nat]
      BY <1>0, StoredTyped
    <3>2. QED
      BY <1>2, <2>1, <3>1
  <2>9. Stored'
    <3>1. \A x \in Provider : social'[x] # S!NoLink => S!Present(social'[x].owner)
      BY <1>0, <1>4, <2>6, <2>7, OneSocial
    <3>2. QED
      BY <1>0, <1>1, <2>4, <2>7, <2>8, <3>1, StoredTyped, Zenon DEF Stored, S!Present
  <2>10. /\ req' \in [Req -> S!Request] /\ (\A s \in Req : HasRead(req[s]))'
         /\ RowsApart' /\ RowsDrawn'
    <3>1. HasRead(q)'
      BY <1>1, <2>3, <2>4 DEF HasRead
    <3>2. \A x \in Provider : social'[x] \in Around \cup {n}
      BY <2>7 DEF Around
    <3>3. \A x \in Token :
            /\ links'[x] <= drawn'.rows /\ (links'[x] > 0 => x \in drawn'.tokens)
            /\ merge'[x].user # None => merge'[x].provider \in Provider /\ x \in drawn'.tokens
      <4>1. \A x \in Token :
              /\ links[x] <= drawn.rows /\ (links[x] > 0 => x \in drawn.tokens)
              /\ merge[x].user # None => merge[x].provider \in Provider /\ x \in drawn.tokens
        BY <1>0 DEF RowsDrawn
      <4>2. \A x \in Token : links[x] \in Nat
        BY <1>0, StoredTyped
      <4>3. QED
        BY <1>1, <1>2, <2>4, <2>8, <4>1, <4>2
    <3>4. /\ drawn.tokens \subseteq drawn'.tokens /\ drawn'.tokens \subseteq Token
          /\ \A x \in User : users[x].status # "none" => users'[x].status # "none"
      BY <1>1, <2>4
    <3>5. /\ served' = served /\ drawn'.rows = drawn.rows + 1
          /\ n.row = drawn'.rows /\ n.owner # None
      BY <1>1, <2>4, <2>6
    <3>6. QED
      BY <1>2, <2>3, <2>9, <3>1, <3>2, <3>3, <3>4, <3>5, Structure
  <2>11. Ways'
    <3>1. n.owner \in User /\ req[r].user = n.owner
      BY <1>2, <2>6 DEF u
    <3>2. q.pc \notin {"find_user", "create", "insert_link", "delete"}
      BY <2>3
    <3>3. QED
      BY <1>1, <1>2, <1>4, <2>1, <2>3, <3>1, <3>2, LinkAdded
  <2>12. Entering'
    <3>1. Calm({"change"})' => Calm({"change"})
      BY <1>1, <2>1, CalmBefore
    <3>2. Calm({"change"})' => MayEnter(q)
      <4>. SUFFICES ASSUME MayEnter(req[r]) PROVE MayEnter(q)
        BY <3>1, CalmRequest
      <4>1. QED
        BY <1>1, <2>3 DEF MayEnter, Follows
    <3>3. QED
      BY <1>1, <2>1, <2>3, <3>2, EnteringMove
  <2>13. Merges'
    <3>1. req'[r] = q /\ \A s \in Req : s # r => req'[s] = req[s]
      BY <2>3, SocialGoes
    <3>. SUFFICES ASSUME Calm({"merge"})'
                  PROVE  /\ (\A x \in Token : links[x] = 0 \/ (links[x] = 1 /\
                               (merge[x].user = None \/ Dropping(x))))'
                         /\ (\A s \in Req : Unused(req[s]))'
                         /\ (\A s, x \in Req : req[s].goal = "merge" /\ req[x].goal = "merge"
                                                 => s = x)'
      BY Zenon DEF Merges
    <3>2. Calm({"merge"})
      BY <1>1, <2>1, CalmBefore
    <3>3. /\ \A x \in Token :
               links[x] = 0 \/ (links[x] = 1 /\ (merge[x].user = None \/ Dropping(x)))
          /\ \A s \in Req : Unused(req[s])
          /\ \A s, x \in Req : req[s].goal = "merge" /\ req[x].goal = "merge" => s = x
      BY <3>2, SocialHas, Zenon DEF Merges
    <3>4. \A x \in Token : Dropping(x) => Dropping(x)'
      BY <1>1, <3>1 DEF Dropping
    <3>5. CASE req[r].goal = "merge"
      <4>1. links[t] = 0 /\ links'[t] = 1
        <5>1. links[t] = 0
          BY <1>1, <3>3, <3>5 DEF Unused, t
        <5>2. links'[t] = links[t] + 1
          <6>1. links \in [Token -> Nat]
            BY <1>0, StoredTyped
          <6>2. QED
            BY <1>2, <2>1, <3>5, <6>1
        <5>3. QED
          BY <5>1, <5>2
      <4>2. req'[r].pc = "drop_token" /\ req'[r].token = t
        BY <2>3, <3>1, <3>5 DEF Follows, t
      <4>3. \A x \in Token : x = t => Dropping(x)'
        BY <4>2 DEF Dropping
      <4>4. \A x \in Token : x # t => links'[x] = links[x]
        BY <2>8
      <4>5. (\A x \in Token : links[x] = 0 \/ (links[x] = 1 /\
               (merge[x].user = None \/ Dropping(x))))'
        BY <1>1, <3>3, <3>4, <4>1, <4>3, <4>4
      <4>6. (\A s \in Req : Unused(req[s]))'
        BY <2>3, <3>1, <3>3, <3>5 DEF Unused
      <4>7. (\A s, x \in Req : req[s].goal = "merge" /\ req[x].goal = "merge" => s = x)'
        BY <2>3, <3>1, <3>3, <3>5
      <4>8. QED
        BY <4>5, <4>6, <4>7
    <3>6. CASE req[r].goal # "merge"
      <4>1. links' = links /\ q.goal # "merge"
        BY <2>1, <2>3, <3>6 DEF Follows
      <4>2. (\A x \in Token : links[x] = 0 \/ (links[x] = 1 /\
               (merge[x].user = None \/ Dropping(x))))'
        BY <1>1, <3>3, <3>4, <4>1
      <4>3. (\A s \in Req : Unused(req[s]))'
        BY <3>1, <3>3, <4>1 DEF Unused
      <4>4. QED
        BY <3>1, <3>3, <4>1, <4>2, <4>3
    <3>7. QED
      BY <3>5, <3>6
  <2>14. QED
    BY <2>9, <2>10, <2>11, <2>12, <2>13, Zenon DEF SocialInv
<1>5. QED
  BY <1>3, <1>4

LEMMA SaveLinkKeeps ==
  ASSUME SocialInv, NEW r \in Req, S!SaveSocialAccount(r)
  PROVE  SocialInv'
<1>. DEFINE p == req[r].provider
            l == req[r].link
<1>0. /\ Stored /\ RowsDrawn /\ req[r] \in S!Request /\ HasRead(req[r]) /\ l \in S!Link
      /\ l \in Around
  BY SocialHas, OneSocialReq DEF Around
<1>1. /\ req[r].pc = "save_link"
      /\ UNCHANGED <<users, merge, served, changes, errors, drawn, links, undone, wrong>>
  BY DEF S!SaveSocialAccount, S!At, S!Kept
<1>2. /\ p \in Provider /\ req[r].user \in User /\ l.owner = req[r].user
      /\ req[r].goal = "login" /\ Inserting(req[r])
  BY <1>0, <1>1 DEF HasRead, Inserting
<1>3. \/ S!Goto(r, "read_user") /\ UNCHANGED <<social, overlap>>
      \/ /\ social[p] = S!NoLink /\ S!Present(l.owner)
         /\ social' = [social EXCEPT ![p] = l] /\ overlap' = overlap \cup S!Late(r, p)
         /\ S!Goto(r, "read_user")
      \/ S!Finish(r) /\ UNCHANGED <<social, overlap>>
  BY DEF S!SaveSocialAccount
<1>4. CASE S!Finish(r) /\ UNCHANGED <<social, overlap>>
  BY <1>1, <1>4, OnlyEnds DEF Rests
<1>5. ASSUME S!Goto(r, "read_user")
      PROVE  \E q \in S!Request :
               /\ req' = [req EXCEPT ![r] = q] /\ Inserting(q) /\ HasRead(q) /\ q.link \in Around
               /\ q.pc = "read_user" /\ q.goal = "login"
  <2>1. PICK q \in S!Request : req' = [req EXCEPT ![r] = q] /\ Follows(r, q, "read_user")
                               /\ q.link \in Around
    BY <1>5, SocialGoto DEF S!Steps
  <2>2. HasRead(q) /\ Inserting(q)
    BY <1>0, <1>1, <1>2, <2>1 DEF HasRead, Follows, Inserting
  <2>3. QED
    BY <1>2, <2>1, <2>2 DEF Follows
<1>6. CASE S!Goto(r, "read_user") /\ UNCHANGED <<social, overlap>>
  <2>1. PICK q \in S!Request :
          /\ req' = [req EXCEPT ![r] = q] /\ Inserting(q) /\ HasRead(q) /\ q.link \in Around
          /\ q.pc = "read_user" /\ q.goal = "login"
    BY <1>5, <1>6
  <2>2. Rests
    BY <1>1, <1>6 DEF Rests
  <2>3. KeepsCalm(r, q)
    BY <1>1, <2>1 DEF KeepsCalm, Free, Spares, Unused, MayEnter
  <2>4. QED
    BY <1>2, <2>1, <2>2, <2>3, OnlySteps
<1>7. CASE /\ social[p] = S!NoLink /\ S!Present(l.owner)
           /\ social' = [social EXCEPT ![p] = l] /\ overlap' = overlap \cup S!Late(r, p)
           /\ S!Goto(r, "read_user")
  <2>1. PICK q \in S!Request :
          /\ req' = [req EXCEPT ![r] = q] /\ Inserting(q) /\ HasRead(q) /\ q.link \in Around
          /\ q.pc = "read_user" /\ q.goal = "login"
    BY <1>5, <1>7
  <2>. HIDE DEF p, l
  <2>2. /\ social' \in [Provider -> S!Link] /\ social'[p] = l
        /\ \A x \in Provider : x # p => social'[x] = social[x]
    <3>1. social \in [Provider -> S!Link]
      BY <1>0, StoredTyped
    <3>. HIDE DEF S!Link
    <3>2. QED
      BY <1>0, <1>2, <1>7, <3>1
  <2>3. Stored'
    <3>1. \A x \in Provider : social'[x] # S!NoLink => S!Present(social'[x].owner)
      BY <1>0, <1>7, <2>2, OneSocial
    <3>2. QED
      BY <1>0, <1>1, <2>2, <3>1, StoredTyped, Zenon DEF Stored, S!Present
  <2>4. /\ req' \in [Req -> S!Request] /\ (\A s \in Req : HasRead(req[s]))'
        /\ RowsApart' /\ RowsDrawn'
    <3>1. HasRead(q)'
      BY <1>1, <2>1 DEF HasRead
    <3>2. \A x \in Provider : social'[x] \in Around \cup {l}
      BY <2>2 DEF Around
    <3>3. \A x \in Token :
            /\ links'[x] <= drawn'.rows /\ (links'[x] > 0 => x \in drawn'.tokens)
            /\ merge'[x].user # None => merge'[x].provider \in Provider /\ x \in drawn'.tokens
      BY <1>0, <1>1 DEF RowsDrawn
    <3>4. /\ drawn.tokens \subseteq drawn'.tokens /\ drawn'.tokens \subseteq Token
          /\ served' = served /\ drawn'.rows = drawn.rows
          /\ \A x \in User : users[x].status # "none" => users'[x].status # "none"
      BY <1>0, <1>1 DEF RowsDrawn
    <3>5. QED
      BY <1>0, <1>2, <2>1, <2>3, <3>1, <3>2, <3>3, <3>4, Structure
  <2>5. Ways'
    <3>1. l.owner \in User /\ p \in Provider
      BY <1>2
    <3>2. /\ q.pc \notin {"find_user", "create", "insert_link", "delete"}
          /\ q.goal # "unlink" /\ req[r].pc # "insert_link"
      BY <1>1, <2>1
    <3>3. QED
      BY <1>1, <1>7, <2>1, <3>1, <3>2, LinkAdded
  <2>6. Merges'
    BY <1>1, <1>7, <2>1, MergesMove DEF Unused
  <2>7. Entering'
    BY <1>1, <1>7, <2>1, EnteringMove DEF MayEnter
  <2>8. QED
    BY <2>3, <2>4, <2>5, <2>6, <2>7, Zenon DEF SocialInv
<1>8. QED
  BY <1>3, <1>4, <1>6, <1>7

LEMMA DeleteLinkKeeps ==
  ASSUME SocialInv, NEW r \in Req, S!DeleteSocialAccount(r)
  PROVE  SocialInv'
<1>. DEFINE p == req[r].provider
            l == req[r].link
            q == S!Idle
<1>0. /\ Stored /\ RowsDrawn /\ RowsApart /\ req[r] \in S!Request /\ HasRead(req[r])
      /\ l \in Around
  BY SocialHas, OneSocialReq DEF Around
<1>1. /\ req[r].pc = "delete" /\ S!Finish(r)
      /\ UNCHANGED <<users, merge, served, changes, errors, drawn, links, overlap, undone,
                     wrong>>
      /\ social' = IF social[p].row = l.row THEN [social EXCEPT ![p] = S!NoLink] ELSE social
  BY DEF S!DeleteSocialAccount, S!At, S!Kept, S!history
<1>2. p \in Provider /\ req[r].user \in User /\ l.owner = req[r].user /\ req[r].goal = "unlink"
  BY <1>0, <1>1 DEF HasRead
<1>3. CASE social[p].row # l.row
  BY <1>1, <1>3, OnlyEnds DEF Rests
<1>4. CASE social[p].row = l.row
  <2>1. social[p] = l
    <3>1. social[p] \in Around
      BY <1>2 DEF Around
    <3>2. QED
      BY <1>0, <1>4, <3>1 DEF RowsApart
  <2>2. /\ q \in S!Request /\ req' = [req EXCEPT ![r] = q] /\ HasRead(q) /\ ~ Inserting(q)
        /\ q.link \in Around /\ S!NoLink \in Around /\ q.pc = "idle" /\ q.goal = "none"
    BY <1>1, EndsIdle
  <2>. HIDE DEF p, l, q
  <2>3. /\ social' \in [Provider -> S!Link] /\ social'[p] = S!NoLink
        /\ \A x \in Provider : x # p => social'[x] = social[x]
    <3>1. social \in [Provider -> S!Link] /\ S!NoLink \in S!Link
      BY <1>0, StoredTyped, NoLinkIs
    <3>. HIDE DEF S!Link, S!NoLink
    <3>2. QED
      BY <1>1, <1>2, <1>4, <3>1
  <2>4. Stored'
    <3>1. \A x \in Provider : social'[x] # S!NoLink => S!Present(social'[x].owner)
      BY <1>0, <2>3, OneSocial
    <3>2. QED
      BY <1>0, <1>1, <2>3, <3>1, StoredTyped, Zenon DEF Stored, S!Present
  <2>5. /\ req' \in [Req -> S!Request] /\ (\A s \in Req : HasRead(req[s]))'
        /\ RowsApart' /\ RowsDrawn'
    <3>1. HasRead(q)'
      BY <1>1, <2>2 DEF HasRead
    <3>2. \A x \in Provider : social'[x] \in Around \cup {S!NoLink}
      BY <2>3 DEF Around
    <3>3. \A x \in Token :
            /\ links'[x] <= drawn'.rows /\ (links'[x] > 0 => x \in drawn'.tokens)
            /\ merge'[x].user # None => merge'[x].provider \in Provider /\ x \in drawn'.tokens
      BY <1>0, <1>1 DEF RowsDrawn
    <3>4. /\ drawn.tokens \subseteq drawn'.tokens /\ drawn'.tokens \subseteq Token
          /\ served' = served /\ drawn'.rows = drawn.rows
          /\ \A x \in User : users[x].status # "none" => users'[x].status # "none"
      BY <1>0, <1>1 DEF RowsDrawn
    <3>5. QED
      BY <2>2, <2>4, <3>1, <3>2, <3>3, <3>4, Structure
  <2>6. Merges'
    BY <1>1, <2>2, MergesMove DEF Unused
  <2>7. Entering'
    BY <1>1, <2>2, EnteringMove DEF MayEnter
  <2>8. Ways'
    <3>1. req'[r] = q /\ \A s \in Req : s # r => req'[s] = req[s]
      BY <2>2, SocialGoes
    <3>. SUFFICES ASSUME Calm({"unlink", "link"})'
                  PROVE  /\ (\A u \in User : S!Present(u) /\ u \notin undone => HasWay(u))'
                         /\ (\A s \in Req : Free(req[s]) /\ Spares(req[s]))'
                         /\ (\A s, t \in Req : req[s].goal = "unlink" /\ req[t].goal = "unlink"
                                                 => s = t)'
      BY Zenon DEF Ways
    <3>2. Calm({"unlink", "link"})
      BY <1>1, CalmBefore
    <3>3. /\ \A u \in User : S!Present(u) /\ u \notin undone => HasWay(u)
          /\ \A s \in Req : Free(req[s]) /\ Spares(req[s])
          /\ \A s, t \in Req : req[s].goal = "unlink" /\ req[t].goal = "unlink" => s = t
      BY <3>2, SocialHas, Zenon DEF Ways
    <3>4. ASSUME NEW u \in User, S!Present(u)', u \notin undone'
          PROVE  HasWay(u)'
      <4>1. S!Present(u) /\ HasWay(u) /\ u \notin undone
        BY <1>1, <3>3, <3>4 DEF S!Present
      <4>2. CASE FirstLink(u)
        BY <1>1, <3>1, <4>2 DEF HasWay, FirstLink
      <4>3. CASE users[u].password
        BY <1>1, <4>3 DEF HasWay
      <4>4. CASE S!Linked(u) # {} /\ u # req[r].user
        <5>1. PICK x \in Provider : social[x].owner = u
          BY <4>4 DEF S!Linked
        <5>2. x # p
          BY <1>2, <2>1, <4>4, <5>1
        <5>3. QED
          BY <2>3, <5>1, <5>2 DEF HasWay, S!Linked
      <4>5. CASE u = req[r].user
        <5>1. Spares(req[r])
          BY <3>3
        <5>2. \/ users[u].password
              \/ \E x \in Provider : x # p /\ social[x].owner = u
          BY <1>1, <4>1, <4>5, <5>1 DEF Spares, p
        <5>3. users'[u].password \/ \E x \in Provider : social'[x].owner = u
          BY <1>1, <2>3, <5>2
        <5>4. QED
          BY <5>3 DEF HasWay, S!Linked
      <4>6. QED
        BY <4>1, <4>2, <4>3, <4>4, <4>5 DEF HasWay
    <3>5. (\A s \in Req : Free(req[s]) /\ Spares(req[s]))'
      <4>. SUFFICES ASSUME NEW s \in Req PROVE (Free(req[s]) /\ Spares(req[s]))'
        OBVIOUS
      <4>1. PICK x : x = req'[s]
        OBVIOUS
      <4>2. Free(x)' /\ Spares(x)'
        <5>1. CASE s = r
          BY <2>2, <3>1, <4>1, <5>1 DEF Free, Spares
        <5>2. CASE s # r
          <6>1. x = req[s] /\ Free(x) /\ HasRead(x)
            BY <3>1, <3>3, <4>1, <5>2, OneSocialReq
          <6>2. x.goal # "unlink"
            BY <1>2, <3>3, <5>2, <6>1
          <6>3. x.pc # "delete"
            BY <6>1, <6>2 DEF HasRead
          <6>4. x.pc # "idle" => x.provider \in Provider
            BY <6>1 DEF HasRead
          <6>5. QED
            BY <2>3, <6>1, <6>3, <6>4 DEF Free, Spares
        <5>3. QED
          BY <5>1, <5>2
      <4>3. QED
        BY <4>1, <4>2 DEF Free, Spares
    <3>6. QED
      BY <2>2, <3>1, <3>3, <3>4, <3>5
  <2>9. QED
    BY <2>4, <2>5, <2>6, <2>7, <2>8, Zenon DEF SocialInv
<1>5. QED
  BY <1>3, <1>4

-----------------------------------------------------------------------------
(* Rows of users.                                                           *)

\* No step but an older copy takes a way in from a row that stays.
LEMMA UsersWays ==
  ASSUME SocialInv, NEW q,
         \A s \in Req : req'[s] = req[s] \/ (req'[s] = q /\ req[s].pc # "insert_link"),
         \A p \in Provider :
           \/ social'[p] = social[p]
           \/ social'[p] = S!NoLink /\ users'[social[p].owner].status # "present",
         overlap \subseteq overlap', errors' = 0 => errors = 0, undone \subseteq undone',
         q.pc # "delete", q.goal # "unlink", q.pc # "idle" => q.provider \in Provider,
         Calm({"unlink", "link"}) => Free(q),
         \A x \in User :
           users[x].status # "none" /\ users'[x].status = "present" /\ x \notin undone'
             => S!Present(x) /\ (users[x].password => users'[x].password),
         \A x \in User :
           users[x].status = "none" /\ users'[x].status = "present" /\ x \notin undone'
             => \/ users'[x].password
                \/ \E s \in Req : /\ req'[s].pc = "insert_link" /\ req'[s].goal = "login"
                                  /\ req'[s].user = x
  PROVE  Ways'
<1>. SUFFICES ASSUME Calm({"unlink", "link"})'
              PROVE  /\ (\A u \in User : S!Present(u) /\ u \notin undone => HasWay(u))'
                     /\ (\A s \in Req : Free(req[s]) /\ Spares(req[s]))'
                     /\ (\A s, t \in Req : req[s].goal = "unlink" /\ req[t].goal = "unlink"
                                             => s = t)'
  BY Zenon DEF Ways
<1>1. Calm({"unlink", "link"})
  BY CalmBefore
<1>2. /\ \A u \in User : S!Present(u) /\ u \notin undone => HasWay(u)
      /\ \A s \in Req : Free(req[s]) /\ Spares(req[s])
      /\ \A s, t \in Req : req[s].goal = "unlink" /\ req[t].goal = "unlink" => s = t
  BY <1>1, SocialHas, Zenon DEF Ways
<1>3. ASSUME NEW u \in User, S!Present(u)', u \notin undone'
      PROVE  HasWay(u)'
  <2>1. users'[u].status = "present"
    BY <1>3 DEF S!Present
  <2>2. CASE users[u].status = "none"
    BY <1>3, <2>1, <2>2 DEF HasWay, FirstLink
  <2>3. CASE users[u].status # "none"
    <3>1. S!Present(u) /\ (users[u].password => users'[u].password) /\ HasWay(u)
      BY <1>2, <1>3, <2>1, <2>3
    <3>2. CASE users[u].password
      BY <3>1, <3>2 DEF HasWay
    <3>3. CASE S!Linked(u) # {}
      BY <2>1, <3>3 DEF HasWay, S!Linked
    <3>4. CASE FirstLink(u)
      BY <3>4 DEF HasWay, FirstLink
    <3>5. QED
      BY <3>1, <3>2, <3>3, <3>4 DEF HasWay
  <2>4. QED
    BY <2>2, <2>3
<1>4. (\A s \in Req : Free(req[s]) /\ Spares(req[s]))'
  <2>. SUFFICES ASSUME NEW s \in Req PROVE (Free(req[s]) /\ Spares(req[s]))'
    OBVIOUS
  <2>1. PICK x : x = req'[s]
    OBVIOUS
  <2>2. Free(x) /\ (x = req[s] \/ x = q)
    BY <1>1, <1>2, <2>1
  <2>3. x.pc # "idle" => x.provider \in Provider
    <3>1. HasRead(req[s])
      BY OneSocialReq
    <3>2. QED
      BY <2>2, <3>1 DEF HasRead
  <2>4. Free(x)'
    BY <2>2, <2>3 DEF Free
  <2>5. Spares(x)'
    <3>. SUFFICES ASSUME x.pc = "delete", S!Present(x.user)', x.user \notin undone'
                  PROVE  \/ users'[x.user].password
                         \/ \E y \in Provider : y # x.provider /\ social'[y].owner = x.user
      BY DEF Spares
    <3>1. x = req[s] /\ HasRead(x) /\ Spares(x)
      BY <1>2, <2>2, OneSocialReq
    <3>2. x.user \in User /\ users[x.user].status # "none"
      BY <3>1 DEF HasRead
    <3>3. users'[x.user].status = "present"
      BY DEF S!Present
    <3>4. S!Present(x.user) /\ (users[x.user].password => users'[x.user].password)
      BY <3>2, <3>3
    <3>5. \/ users[x.user].password
          \/ \E y \in Provider : y # x.provider /\ social[y].owner = x.user
      BY <3>1, <3>4 DEF Spares
    <3>6. QED
      BY <3>3, <3>4, <3>5
  <2>6. QED
    BY <2>1, <2>4, <2>5 DEF Free, Spares
<1>5. (\A s, t \in Req : req[s].goal = "unlink" /\ req[t].goal = "unlink" => s = t)'
  BY <1>2
<1>6. QED
  BY <1>3, <1>4, <1>5

\* A request that makes a row active.
LEMMA UsersEntering ==
  ASSUME SocialInv, NEW r \in Req, NEW q \in S!Request, req' = [req EXCEPT ![r] = q],
         NEW u \in User, \A x \in User : x # u => users'[x] = users[x],
         users'[u] = users[u] \/ (users'[u].status = "present" /\ users'[u].active),
         UNCHANGED <<wrong, errors, overlap>>,
         Calm({"change"}) => MayEnter(q)'
  PROVE  Entering'
<1>1. req'[r] = q /\ \A s \in Req : s # r => req'[s] = req[s]
  BY SocialGoes
<1>. SUFFICES ASSUME Calm({"change"})'
              PROVE  wrong' = {} /\ (\A s \in Req : MayEnter(req[s]))'
  BY Zenon DEF Entering
<1>2. Calm({"change"})
  BY CalmRests
<1>3. wrong = {} /\ \A s \in Req : MayEnter(req[s])
  BY <1>2, SocialHas, Zenon DEF Entering
<1>4. (\A s \in Req : MayEnter(req[s]))'
  <2>. SUFFICES ASSUME NEW s \in Req PROVE MayEnter(req[s])'
    OBVIOUS
  <2>1. PICK x : x = req'[s]
    OBVIOUS
  <2>2. MayEnter(x)'
    <3>1. CASE s = r
      BY <1>1, <1>2, <2>1, <3>1
    <3>2. CASE s # r
      <4>1. MayEnter(x) /\ HasRead(x)
        BY <1>1, <1>3, <2>1, <3>2, OneSocialReq
      <4>2. x.pc \in {"insert_link", "grant", "drop_token"} => x.user \in User
        BY <4>1 DEF HasRead
      <4>3. x.pc = "save_user" => x.user \in User
        BY <4>1 DEF HasRead
      <4>4. QED
        BY <4>1, <4>2, <4>3 DEF MayEnter, S!Present
    <3>3. QED
      BY <3>1, <3>2
  <2>3. QED
    BY <2>1, <2>2 DEF MayEnter, S!Present
<1>5. QED
  BY <1>3, <1>4

\* The provider's answer changes whether the address is verified, and nothing else.
LEMMA SyncedIs ==
  ASSUME NEW p \in Provider, NEW row \in S!UserRow, NEW reported \in BOOLEAN
  PROVE  /\ S!Synced(p, row, reported) \in S!UserRow
         /\ S!Synced(p, row, reported).status = row.status
         /\ S!Synced(p, row, reported).active = row.active
         /\ S!Synced(p, row, reported).password = row.password
<1>1. PICK v \in BOOLEAN : S!Synced(p, row, reported) = [row EXCEPT !.verified = v]
  BY SocialConstants DEF S!Synced, S!GoogleProfile, S!FacebookProfile, S!GithubProfile
<1>2. QED
  BY <1>1 DEF S!UserRow

LEMMA OwnerIs ==
  ASSUME SocialInv, NEW p \in Provider, social[p] # S!NoLink
  PROVE  social[p].owner \in User /\ users[social[p].owner].status = "present"
<1>1. social[p] \in S!Link /\ S!Present(social[p].owner)
  BY SocialHas, OneSocial
<1>2. RowsApart /\ social[p] \in Around /\ S!NoLink \in Around
  BY SocialHas DEF Around
<1>3. social[p].owner # None
  BY <1>2, NoLinkIs DEF RowsApart
<1>4. QED
  BY <1>1, <1>3, LinkTyped DEF S!Present

LEMMA UpdateUserKeeps ==
  ASSUME SocialInv, NEW r \in Req, S!UpdateUser(r)
  PROVE  SocialInv'
<1>. DEFINE u == req[r].user
            copy == req[r].copy
            row == S!Synced(req[r].provider, copy, req[r].reported)
<1>0. /\ Stored /\ RowsDrawn /\ req[r] \in S!Request /\ HasRead(req[r]) /\ copy \in S!UserRow
      /\ req[r].reported \in BOOLEAN
  BY SocialHas, OneSocialReq, SocialReqTyped
<1>1. /\ req[r].pc = "save_user" /\ S!Goto(r, "grant")
      /\ UNCHANGED <<social, merge, served, changes, errors, drawn, links, overlap, wrong>>
      /\ \/ users' = users /\ undone' = undone
         \/ /\ users' = [users EXCEPT ![u] = row]
            /\ undone' = IF users[u] # copy THEN undone \cup {u} ELSE undone
  BY DEF S!UpdateUser, S!At, S!Kept
<1>2. /\ req[r].provider \in Provider /\ u \in User /\ req[r].goal = "login"
      /\ copy.status = "present" /\ copy.active /\ Inserting(req[r])
  BY <1>0, <1>1 DEF HasRead, Inserting
<1>3. /\ row \in S!UserRow /\ row.status = "present" /\ row.active
      /\ row.password = copy.password
  BY <1>0, <1>2, SyncedIs
<1>4. PICK q \in S!Request : req' = [req EXCEPT ![r] = q] /\ Follows(r, q, "grant")
                             /\ q.link \in Around
  BY <1>1, SocialGoto DEF S!Steps
<1>5. /\ q.pc = "grant" /\ q.goal = "login" /\ q.user = u /\ q.provider = req[r].provider
      /\ HasRead(q) /\ ~ Inserting(q)
  BY <1>0, <1>2, <1>4 DEF HasRead, Inserting, Follows
<1>. HIDE DEF u, copy, row
<1>6. /\ users' \in [User -> S!UserRow] /\ \A x \in User : x # u => users'[x] = users[x]
      /\ undone' \subseteq User /\ undone \subseteq undone'
      /\ \/ users'[u] = users[u]
         \/ users'[u] = row /\ (users[u] = copy \/ u \in undone')
  <2>1. users \in [User -> S!UserRow] /\ undone \subseteq User
    BY <1>0, StoredTyped
  <2>. HIDE DEF S!UserRow
  <2>2. CASE users' = users /\ undone' = undone
    BY <2>1, <2>2
  <2>3. CASE /\ users' = [users EXCEPT ![u] = row]
             /\ undone' = IF users[u] # copy THEN undone \cup {u} ELSE undone
    BY <1>2, <1>3, <2>1, <2>3
  <2>4. QED
    BY <1>1, <2>2, <2>3
<1>7. \A x \in User : users[x].status = "present" => users'[x].status = "present"
  BY <1>3, <1>6
<1>8. Stored'
  <2>1. \A x \in Provider : social'[x] # S!NoLink => users'[social'[x].owner].status = "present"
    BY <1>1, <1>7, OwnerIs
  <2>2. QED
    BY <1>0, <1>1, <1>6, <2>1, StoredTyped, Zenon DEF Stored, S!Present
<1>9. /\ req' \in [Req -> S!Request] /\ (\A s \in Req : HasRead(req[s]))'
      /\ RowsApart' /\ RowsDrawn'
  <2>1. HasRead(q)'
    BY <1>1, <1>5 DEF HasRead
  <2>2. S!NoLink \in Around /\ \A x \in Provider : social'[x] \in Around \cup {S!NoLink}
    BY <1>1 DEF Around
  <2>3. \A x \in Token :
          /\ links'[x] <= drawn'.rows /\ (links'[x] > 0 => x \in drawn'.tokens)
          /\ merge'[x].user # None => merge'[x].provider \in Provider /\ x \in drawn'.tokens
    BY <1>0, <1>1 DEF RowsDrawn
  <2>4. /\ drawn.tokens \subseteq drawn'.tokens /\ drawn'.tokens \subseteq Token
        /\ served' = served /\ drawn'.rows = drawn.rows
        /\ \A x \in User : users[x].status # "none" => users'[x].status # "none"
    BY <1>0, <1>1, <1>3, <1>6 DEF RowsDrawn
  <2>5. QED
    BY <1>4, <1>5, <1>8, <2>1, <2>2, <2>3, <2>4, Structure
<1>10. Merges'
  BY <1>1, <1>4, <1>5, MergesMove DEF Unused
<1>11. Entering'
  <2>1. Calm({"change"}) => MayEnter(q)'
    <3>. SUFFICES ASSUME MayEnter(req[r]) PROVE MayEnter(q)'
      BY CalmRequest
    <3>1. S!Present(u) => users[u].active
      BY <1>1, <1>2 DEF MayEnter, u
    <3>2. users'[u].status = "present" => users'[u].active
      BY <1>3, <1>6, <3>1 DEF S!Present
    <3>3. users'[q.user].status = "present" => users'[q.user].active
      BY <1>5, <3>2
    <3>4. QED
      BY <1>5, <3>3 DEF MayEnter, S!Present
  <2>2. users'[u] = users[u] \/ (users'[u].status = "present" /\ users'[u].active)
    BY <1>3, <1>6
  <2>3. QED
    BY <1>1, <1>2, <1>4, <1>6, <2>1, <2>2, UsersEntering
<1>12. Ways'
  <2>1. \A s \in Req : req'[s] = req[s] \/ (req'[s] = q /\ req[s].pc # "insert_link")
    BY <1>1, <1>4, SocialGoes
  <2>2. \A p \in Provider : social'[p] = social[p]
    BY <1>1
  <2>3. \A x \in User : users'[x].status = "present" /\ x \notin undone'
          => S!Present(x) /\ (users[x].password => users'[x].password)
    BY <1>2, <1>3, <1>6 DEF S!Present
  <2>4. Free(q)
    BY <1>5 DEF Free
  <2>5. /\ q.pc # "delete" /\ q.goal # "unlink" /\ q.provider \in Provider
        /\ overlap \subseteq overlap' /\ (errors' = 0 => errors = 0)
    BY <1>1, <1>2, <1>5
  <2>6. \A x \in User :
          users[x].status = "none" /\ users'[x].status = "present" /\ x \notin undone' => FALSE
    BY <2>3 DEF S!Present
  <2>7. QED
    BY <1>6, <2>1, <2>2, <2>3, <2>4, <2>5, <2>6, UsersWays
<1>13. QED
  BY <1>8, <1>9, <1>10, <1>11, <1>12, Zenon DEF SocialInv

LEMMA CreateUserKeeps ==
  ASSUME SocialInv, NEW r \in Req, S!CreateUser(r)
  PROVE  SocialInv'
<1>. DEFINE new == S!Synced(req[r].provider,
                            [S!NoRow EXCEPT !.status = "present", !.home = TRUE],
                            req[r].reported)
<1>0. /\ Stored /\ RowsDrawn /\ req[r] \in S!Request /\ HasRead(req[r])
      /\ req[r].reported \in BOOLEAN /\ req[r].link \in Around
  BY SocialHas, OneSocialReq, SocialReqTyped DEF Around
<1>1. /\ req[r].pc = "create"
      /\ UNCHANGED <<social, merge, served, changes, errors, drawn, links, overlap, undone,
                     wrong>>
  BY DEF S!CreateUser, S!At, S!Kept, S!history
<1>2. req[r].provider \in Provider /\ req[r].goal = "login" /\ Inserting(req[r])
  BY <1>0, <1>1 DEF HasRead, Inserting
<1>3. \/ S!Finish(r) /\ users' = users
      \/ \E u \in User :
           /\ users[u].status = "none" /\ users' = [users EXCEPT ![u] = new]
           /\ req' = [req EXCEPT ![r].pc = "insert_link", ![r].user = u]
  BY DEF S!CreateUser
<1>4. CASE S!Finish(r) /\ users' = users
  BY <1>1, <1>4, OnlyEnds DEF Rests
<1>5. CASE \E u \in User :
             /\ users[u].status = "none" /\ users' = [users EXCEPT ![u] = new]
             /\ req' = [req EXCEPT ![r].pc = "insert_link", ![r].user = u]
  <2>1. PICK u \in User :
             /\ users[u].status = "none" /\ users' = [users EXCEPT ![u] = new]
             /\ req' = [req EXCEPT ![r].pc = "insert_link", ![r].user = u]
    BY <1>5
  <2>2. new \in S!UserRow /\ new.status = "present" /\ new.active
    <3>. DEFINE first == [S!NoRow EXCEPT !.status = "present", !.home = TRUE]
    <3>1. first \in S!UserRow /\ first.status = "present" /\ first.active
      BY DEF S!NoRow, S!UserRow
    <3>2. new = S!Synced(req[r].provider, first, req[r].reported)
      OBVIOUS
    <3>. HIDE DEF first, new
    <3>3. QED
      BY <1>0, <1>2, <3>1, <3>2, SyncedIs
  <2>. HIDE DEF new
  <2>3. PICK q \in S!Request :
          /\ q.pc = "insert_link" /\ q.goal = "login"
          /\ q.provider = req[r].provider /\ q.link = req[r].link /\ q.user = u
          /\ q.token = req[r].token /\ req' = [req EXCEPT ![r] = q]
    <3>. DEFINE x == [req[r] EXCEPT !.pc = "insert_link", !.user = u]
    <3>1. /\ x \in S!Request /\ x.pc = "insert_link" /\ x.goal = "login"
          /\ x.provider = req[r].provider /\ x.link = req[r].link /\ x.user = u
          /\ x.token = req[r].token /\ req' = [req EXCEPT ![r] = x]
      BY <1>0, <1>2, <2>1 DEF S!Request, S!Steps
    <3>. HIDE DEF x
    <3>2. QED
      BY <3>1
  <2>4. HasRead(q) /\ Inserting(q) /\ q.link \in Around
    BY <1>0, <1>2, <2>3 DEF HasRead, Inserting
  <2>5. /\ users' \in [User -> S!UserRow] /\ users'[u] = new
        /\ \A x \in User : x # u => users'[x] = users[x]
    <3>1. users \in [User -> S!UserRow]
      BY <1>0, StoredTyped
    <3>. HIDE DEF S!UserRow
    <3>2. QED
      BY <2>1, <2>2, <3>1
  <2>6. Stored'
    <3>1. \A x \in Provider :
            social'[x] # S!NoLink => users'[social'[x].owner].status = "present"
      BY <1>1, <2>1, <2>5, OwnerIs
    <3>2. QED
      BY <1>0, <1>1, <2>5, <3>1, StoredTyped, Zenon DEF Stored, S!Present
  <2>7. /\ req' \in [Req -> S!Request] /\ (\A s \in Req : HasRead(req[s]))'
        /\ RowsApart' /\ RowsDrawn'
    <3>1. HasRead(q)'
      BY <1>1, <2>3, <2>4 DEF HasRead
    <3>2. S!NoLink \in Around /\ \A x \in Provider : social'[x] \in Around \cup {S!NoLink}
      BY <1>1 DEF Around
    <3>3. \A x \in Token :
            /\ links'[x] <= drawn'.rows /\ (links'[x] > 0 => x \in drawn'.tokens)
            /\ merge'[x].user # None => merge'[x].provider \in Provider /\ x \in drawn'.tokens
      BY <1>0, <1>1 DEF RowsDrawn
    <3>4. /\ drawn.tokens \subseteq drawn'.tokens /\ drawn'.tokens \subseteq Token
          /\ served' = served /\ drawn'.rows = drawn.rows
          /\ \A x \in User : users[x].status # "none" => users'[x].status # "none"
      BY <1>0, <1>1, <2>2, <2>5 DEF RowsDrawn
    <3>5. QED
      BY <1>2, <2>3, <2>4, <2>6, <3>1, <3>2, <3>3, <3>4, Structure
  <2>8. Merges'
    BY <1>1, <2>3, MergesMove DEF Unused
  <2>9. Entering'
    <3>1. users'[u].status = "present" /\ users'[u].active
      BY <2>2, <2>5
    <3>2. MayEnter(q)'
      BY <2>3, <3>1 DEF MayEnter, S!Present
    <3>3. QED
      BY <1>1, <2>1, <2>3, <2>5, <3>1, <3>2, UsersEntering
  <2>10. Ways'
    <3>1. /\ \A s \in Req : req'[s] = req[s] \/ (req'[s] = q /\ req[s].pc # "insert_link")
          /\ req'[r] = q
      BY <1>1, <2>3, SocialGoes
    <3>2. \A p \in Provider : social'[p] = social[p]
      BY <1>1
    <3>3. \A x \in User : users[x].status # "none" /\ users'[x].status = "present"
            => S!Present(x) /\ (users[x].password => users'[x].password)
      BY <2>1, <2>5 DEF S!Present
    <3>4. \A x \in User : users[x].status = "none" /\ users'[x].status = "present" => x = u
      BY <2>5
    <3>5. req'[r].pc = "insert_link" /\ req'[r].goal = "login" /\ req'[r].user = u
      BY <2>3, <3>1
    <3>6. \A x \in User :
            users[x].status = "none" /\ users'[x].status = "present" /\ x \notin undone'
              => \/ users'[x].password
                 \/ \E s \in Req : /\ req'[s].pc = "insert_link" /\ req'[s].goal = "login"
                                   /\ req'[s].user = x
      BY <3>4, <3>5
    <3>7. Calm({"unlink", "link"}) => Free(q)
      BY <1>1, <1>2, <2>3, CalmRequest DEF Free
    <3>8. /\ q.pc # "delete" /\ q.goal # "unlink" /\ q.provider \in Provider
          /\ overlap \subseteq overlap' /\ (errors' = 0 => errors = 0) /\ undone \subseteq undone'
      BY <1>1, <1>2, <2>3
    <3>9. QED
      BY <3>1, <3>2, <3>3, <3>6, <3>7, <3>8, UsersWays
  <2>11. QED
    BY <2>6, <2>7, <2>8, <2>9, <2>10, Zenon DEF SocialInv
<1>6. QED
  BY <1>3, <1>4, <1>5

-----------------------------------------------------------------------------
(* What changes beside the requests.                                        *)
LEMMA BesideStructure ==
  ASSUME SocialInv, UNCHANGED <<req, drawn, links, served>>,
         \A u \in User : users[u].status # "none" => users'[u].status # "none",
         \A p \in Provider : social'[p] = social[p] \/ social'[p] = S!NoLink,
         \A t \in Token : merge'[t] = merge[t] \/ merge'[t].user = None
  PROVE  /\ req' \in [Req -> S!Request] /\ (\A s \in Req : HasRead(req[s]))'
         /\ RowsApart' /\ RowsDrawn'
<1>0. RowsApart /\ RowsDrawn /\ req \in [Req -> S!Request] /\ \A s \in Req : HasRead(req[s])
  BY SocialHas
<1>1. (\A s \in Req : HasRead(req[s]))'
  <2>. SUFFICES ASSUME NEW s \in Req PROVE HasRead(req[s])'
    OBVIOUS
  <2>1. PICK x : x = req[s]
    OBVIOUS
  <2>2. HasRead(x) /\ x = req'[s]
    BY <1>0, <2>1
  <2>3. HasRead(x)'
    BY <2>2 DEF HasRead
  <2>4. QED
    BY <2>2, <2>3 DEF HasRead
<1>2. RowsApart'
  <2>1. Around' \subseteq Around
    BY DEF Around
  <2>2. QED
    BY <1>0, <2>1 DEF RowsApart
<1>3. RowsDrawn'
  <2>1. Inserters' = Inserters
    BY DEF Inserters, Inserting
  <2>2. Cardinality(Inserters)' = Cardinality(Inserters)
    BY <2>1
  <2>3. drawn'.rows + Cardinality(Inserters)' <= served'
    BY <1>0, <2>2 DEF RowsDrawn
  <2>4. \A t \in Token :
          /\ links'[t] <= drawn'.rows /\ (links'[t] > 0 => t \in drawn'.tokens)
          /\ merge'[t].user # None => merge'[t].provider \in Provider /\ t \in drawn'.tokens
    BY <1>0 DEF RowsDrawn
  <2>5. drawn'.rows \in Nat /\ drawn'.tokens \subseteq Token
    BY <1>0 DEF RowsDrawn
  <2>6. QED
    BY <2>3, <2>4, <2>5 DEF RowsDrawn
<1>4. QED
  BY <1>0, <1>1, <1>2, <1>3

LEMMA BesideMerges ==
  ASSUME SocialInv, UNCHANGED <<req, links>>, overlap \subseteq overlap',
         errors' = 0 => errors = 0,
         \A t \in Token : merge'[t] = merge[t] \/ merge'[t].user = None
  PROVE  Merges'
<1>. SUFFICES ASSUME Calm({"merge"})'
              PROVE  /\ (\A t \in Token : links[t] = 0 \/ (links[t] = 1 /\
                           (merge[t].user = None \/ Dropping(t))))'
                     /\ (\A s \in Req : Unused(req[s]))'
                     /\ (\A s, t \in Req : req[s].goal = "merge" /\ req[t].goal = "merge"
                                             => s = t)'
  BY Zenon DEF Merges
<1>1. Calm({"merge"})
  BY CalmBefore
<1>2. /\ \A t \in Token : links[t] = 0 \/ (links[t] = 1 /\ (merge[t].user = None \/ Dropping(t)))
      /\ \A s \in Req : Unused(req[s])
      /\ \A s, t \in Req : req[s].goal = "merge" /\ req[t].goal = "merge" => s = t
  BY <1>1, SocialHas, Zenon DEF Merges
<1>3. \A t \in Token : Dropping(t) => Dropping(t)'
  BY DEF Dropping
<1>4. (\A s \in Req : Unused(req[s]))'
  BY <1>2 DEF Unused
<1>5. QED
  BY <1>2, <1>3, <1>4

LEMMA ExpiryKeeps ==
  ASSUME SocialInv, NEW t \in Token, S!MergeTokenExpires(t)
  PROVE  SocialInv'
<1>0. Stored
  BY SocialHas
<1>1. /\ merge' = [merge EXCEPT ![t] = S!NoMerge]
      /\ UNCHANGED <<users, social, req, served, changes, errors, drawn, links, overlap, undone,
                     wrong>>
  BY DEF S!MergeTokenExpires, S!Kept, S!history
<1>2. /\ merge' \in [Token -> [user : User \cup {None}, provider : Provider \cup {None}]]
      /\ \A x \in Token : merge'[x] = merge[x] \/ merge'[x].user = None
  BY <1>0, <1>1, StoredTyped DEF S!NoMerge
<1>3. Stored'
  <2>1. \A x \in Provider : social[x] # S!NoLink => S!Present(social[x].owner)
    BY <1>0, OneSocial
  <2>2. QED
    BY <1>0, <1>1, <1>2, <2>1, StoredTyped, Zenon DEF Stored, S!Present
<1>4. /\ req' \in [Req -> S!Request] /\ (\A s \in Req : HasRead(req[s]))'
      /\ RowsApart' /\ RowsDrawn'
  BY <1>1, <1>2, BesideStructure
<1>5. Merges'
  BY <1>1, <1>2, BesideMerges
<1>6. Ways' /\ Entering'
  <2>1. Ways /\ Entering
    BY SocialHas
  <2>2. Ways'
    BY <1>1, <2>1 DEF Ways, Calm, HasWay, S!Present, S!Linked, FirstLink, Free, Spares
  <2>3. Entering'
    BY <1>1, <2>1 DEF Entering, Calm, MayEnter, S!Present
  <2>4. QED
    BY <2>2, <2>3
<1>7. QED
  BY <1>3, <1>4, <1>5, <1>6, Zenon DEF SocialInv

\* Another handler's statement: a login or a merge of that user is remembered.
LEMMA ChangeKeeps ==
  ASSUME SocialInv, NEW u \in User, S!Change(u), NEW row \in S!UserRow,
         users' = [users EXCEPT ![u] = row], row.status # "none",
         row.status = "present" =>
           /\ users[u].status = "none" => row.password
           /\ users[u].status # "none" => /\ S!Present(u)
                                          /\ users[u].password => row.password,
         social' \in [Provider -> S!Link],
         \A x \in Provider :
           \/ social'[x] = social[x] /\ (social[x].owner = u => row.status = "present")
           \/ social'[x] = S!NoLink /\ social[x].owner = u /\ row.status # "present"
  PROVE  SocialInv'
<1>. DEFINE q == S!Idle
<1>0. Stored /\ users \in [User -> S!UserRow]
  BY SocialHas, StoredTyped
<1>1. /\ changes < MaxChanges /\ changes' = changes + 1
      /\ UNCHANGED <<merge, req, served, errors, drawn, links, undone, wrong>>
      /\ overlap' = overlap \cup (IF \E r \in S!Serving({"login", "merge"}) : req[r].user = u
                                    THEN {"change"} ELSE {})
  BY DEF S!Change
<1>2. changes' \in 0 .. MaxChanges
  <2>1. changes \in 0 .. MaxChanges
    BY <1>0, StoredTyped
  <2>2. QED
    BY <1>1, <2>1, SocialConstants
<1>3. /\ users' \in [User -> S!UserRow] /\ users'[u] = row
      /\ \A x \in User : x # u => users'[x] = users[x]
  <2>. HIDE DEF S!UserRow
  <2>1. QED
    BY <1>0
<1>4. Stored'
  <2>1. \A x \in Provider : social'[x] # S!NoLink => users'[social'[x].owner].status = "present"
    BY <1>3, OwnerIs
  <2>2. QED
    BY <1>0, <1>1, <1>2, <1>3, <2>1, StoredTyped, Zenon DEF Stored, S!Present
<1>5. /\ req' \in [Req -> S!Request] /\ (\A s \in Req : HasRead(req[s]))'
      /\ RowsApart' /\ RowsDrawn'
  <2>1. \A x \in User : users[x].status # "none" => users'[x].status # "none"
    BY <1>3
  <2>2. QED
    BY <1>1, <2>1, BesideStructure
<1>6. Merges'
  BY <1>1, BesideMerges
<1>7. Ways'
  <2>1. q.pc = "idle" /\ q.goal = "none"
    BY SocialIdle
  <2>. HIDE DEF q
  <2>2. \A s \in Req : req'[s] = req[s] \/ (req'[s] = q /\ req[s].pc # "insert_link")
    BY <1>1
  <2>3. \A p \in Provider :
          \/ social'[p] = social[p]
          \/ social'[p] = S!NoLink /\ users'[social[p].owner].status # "present"
    BY <1>3
  <2>4. \A x \in User :
          users[x].status # "none" /\ users'[x].status = "present" /\ x \notin undone'
            => S!Present(x) /\ (users[x].password => users'[x].password)
    BY <1>3 DEF S!Present
  <2>5. \A x \in User :
          users[x].status = "none" /\ users'[x].status = "present" /\ x \notin undone'
            => users'[x].password
    BY <1>3
  <2>6. /\ overlap \subseteq overlap' /\ (errors' = 0 => errors = 0) /\ undone \subseteq undone'
        /\ Free(q)
    BY <1>1, <2>1 DEF Free
  <2>7. QED
    BY <2>1, <2>2, <2>3, <2>4, <2>5, <2>6, UsersWays
<1>8. Entering'
  <2>. SUFFICES ASSUME Calm({"change"})'
                PROVE  wrong' = {} /\ (\A s \in Req : MayEnter(req[s]))'
    BY Zenon DEF Entering
  <2>1. Calm({"change"})
    BY <1>1, CalmBefore
  <2>2. wrong = {} /\ \A s \in Req : MayEnter(req[s])
    BY <2>1, SocialHas, Zenon DEF Entering
  <2>3. \A s \in Req : req[s].goal \in {"login", "merge"} => req[s].user # u
    BY <1>1 DEF Calm, S!Serving
  <2>4. (\A s \in Req : MayEnter(req[s]))'
    <3>. SUFFICES ASSUME NEW s \in Req PROVE MayEnter(req[s])'
      OBVIOUS
    <3>1. PICK x : x = req[s]
      OBVIOUS
    <3>2. /\ MayEnter(x) /\ HasRead(x) /\ x = req'[s]
          /\ x.goal \in {"login", "merge"} => x.user # u
      BY <1>1, <2>2, <2>3, <3>1, OneSocialReq
    <3>3. x.pc \in {"save_user", "insert_link", "grant", "drop_token"} => x.user \in User
      BY <3>2 DEF HasRead
    <3>4. MayEnter(x)'
      BY <1>3, <3>2, <3>3 DEF MayEnter, S!Present
    <3>5. QED
      BY <3>2, <3>4 DEF MayEnter, S!Present
  <2>5. QED
    BY <1>1, <2>2, <2>4
<1>9. QED
  BY <1>4, <1>5, <1>6, <1>7, <1>8, Zenon DEF SocialInv

LEMMA ChangesKeep ==
  ASSUME SocialInv, NEW u \in User,
         \/ S!RegisterUser(u) \/ S!SetInitialPassword(u) \/ S!UpdateUserEmail(u)
         \/ S!ToggleUserActive(u) \/ S!DeleteUser(u)
  PROVE  SocialInv'
<1>. DEFINE old == users[u]
<1>0. /\ old \in S!UserRow /\ social \in [Provider -> S!Link] /\ S!NoLink \in S!Link
      /\ users \in [User -> S!UserRow]
  BY SocialHas, StoredTyped, OneUser, NoLinkIs
<1>1. CASE S!RegisterUser(u)
  <2>. DEFINE row == [S!NoRow EXCEPT !.status = "present", !.home = TRUE, !.password = TRUE]
  <2>1. S!Change(u) /\ old.status = "none" /\ users' = [users EXCEPT ![u] = row]
        /\ social' = social
    BY <1>1 DEF S!RegisterUser
  <2>2. row \in S!UserRow /\ row.status = "present" /\ row.password
    BY DEF S!NoRow, S!UserRow
  <2>. HIDE DEF row
  <2>3. QED
    BY <1>0, <2>1, <2>2, ChangeKeeps
<1>2. CASE S!SetInitialPassword(u)
  <2>. DEFINE row == [old EXCEPT !.password = TRUE]
  <2>1. S!Change(u) /\ S!Present(u) /\ users' = [users EXCEPT ![u] = row] /\ social' = social
    BY <1>2 DEF S!SetInitialPassword
  <2>2. row \in S!UserRow /\ row.status = old.status /\ row.password
    BY <1>0 DEF S!UserRow
  <2>. HIDE DEF row
  <2>3. QED
    BY <1>0, <2>1, <2>2, ChangeKeeps DEF S!Present
<1>3. CASE S!UpdateUserEmail(u)
  <2>. DEFINE row == [old EXCEPT !.home = FALSE, !.verified = FALSE]
  <2>1. S!Change(u) /\ S!Present(u) /\ users' = [users EXCEPT ![u] = row] /\ social' = social
    <3>1. users' = [users EXCEPT ![u].home = FALSE, ![u].verified = FALSE]
      BY <1>3 DEF S!UpdateUserEmail
    <3>2. users' = [users EXCEPT ![u] = row]
      BY <1>0, <3>1
    <3>3. QED
      BY <1>3, <3>2 DEF S!UpdateUserEmail
  <2>2. row \in S!UserRow /\ row.status = old.status /\ row.password = old.password
    BY <1>0 DEF S!UserRow
  <2>. HIDE DEF row
  <2>3. QED
    BY <1>0, <2>1, <2>2, ChangeKeeps DEF S!Present
<1>4. CASE S!ToggleUserActive(u)
  <2>. DEFINE row == [old EXCEPT !.active = ~ @]
  <2>1. S!Change(u) /\ S!Present(u) /\ users' = [users EXCEPT ![u] = row] /\ social' = social
    BY <1>4 DEF S!ToggleUserActive
  <2>2. row \in S!UserRow /\ row.status = old.status /\ row.password = old.password
    BY <1>0 DEF S!UserRow
  <2>. HIDE DEF row
  <2>3. QED
    BY <1>0, <2>1, <2>2, ChangeKeeps DEF S!Present
<1>5. CASE S!DeleteUser(u)
  <2>. DEFINE row == [S!NoRow EXCEPT !.status = "deleted"]
  <2>1. S!Change(u) /\ S!Present(u) /\ users' = [users EXCEPT ![u] = row]
        /\ social' = S!LinksWithout(u)
    BY <1>5 DEF S!DeleteUser
  <2>2. row \in S!UserRow /\ row.status = "deleted"
    BY DEF S!NoRow, S!UserRow
  <2>. HIDE DEF row, S!Link, S!NoLink
  <2>3. /\ social' \in [Provider -> S!Link]
        /\ \A x \in Provider :
             \/ social'[x] = social[x] /\ (social[x].owner = u => row.status = "present")
             \/ social'[x] = S!NoLink /\ social[x].owner = u /\ row.status # "present"
    BY <1>0, <2>1, <2>2 DEF S!LinksWithout
  <2>4. QED
    BY <1>0, <2>1, <2>2, <2>3, ChangeKeeps
<1>6. QED
  BY <1>1, <1>2, <1>3, <1>4, <1>5

-----------------------------------------------------------------------------
LEMMA InitSocial ==
  ASSUME S!Init, served = 0, errors = 0
  PROVE  SocialInv
<1>1. /\ users = [u \in User |-> S!NoRow] /\ social = [p \in Provider |-> S!NoLink]
      /\ merge = [t \in Token |-> [user |-> None, provider |-> None]]
      /\ req = [r \in Req |-> S!Idle] /\ changes = 0
      /\ drawn = [tokens |-> {}, rows |-> 0] /\ links = [t \in Token |-> 0]
      /\ overlap = {} /\ undone = {} /\ wrong = {}
  BY DEF S!Init
<1>2. /\ S!NoRow \in S!UserRow /\ S!NoRow.status = "none"
  BY DEF S!NoRow, S!UserRow
<1>3. /\ S!NoLink \in S!Link /\ S!NoLink.owner = None /\ S!NoLink.row = 0
      /\ S!Idle \in S!Request /\ S!Idle.pc = "idle" /\ S!Idle.goal = "none"
      /\ S!Idle.link = S!NoLink
  BY NoLinkIs, SocialIdle
<1>. HIDE DEF S!NoRow, S!UserRow, S!NoLink, S!Link, S!Idle, S!Request
<1>4. Stored
  BY <1>1, <1>2, <1>3, SocialConstants DEF Stored
<1>5. req \in [Req -> S!Request] /\ \A r \in Req : HasRead(req[r])
  BY <1>1, <1>3 DEF HasRead
<1>6. RowsApart
  <2>1. \A a \in Around : a = S!NoLink
    BY <1>1, <1>3 DEF Around
  <2>2. drawn.rows = 0
    BY <1>1
  <2>3. QED
    BY <1>3, <2>1, <2>2 DEF RowsApart
<1>7. RowsDrawn
  <2>1. Inserters = {}
    BY <1>1, <1>3 DEF Inserters, Inserting
  <2>2. Cardinality(Inserters) = 0
    BY <2>1, FS_EmptySet
  <2>3. QED
    BY <1>1, <2>2 DEF RowsDrawn
<1>8. Ways
  BY <1>1, <1>2, <1>3 DEF Ways, S!Present, Free, Spares
<1>9. Merges
  BY <1>1, <1>3 DEF Merges, Unused
<1>10. Entering
  BY <1>1, <1>3 DEF Entering, MayEnter
<1>11. QED
  BY <1>4, <1>5, <1>6, <1>7, <1>8, <1>9, <1>10, Zenon DEF SocialInv

LEMMA ServeKeeps ==
  ASSUME SocialInv, NEW r \in Req, S!Serve(r)
  PROVE  SocialInv'
<1>1. ASSUME NEW p, S!CreateOAuthState(r, p, "login", None) PROVE SocialInv'
  <2>1. None \in User \cup {None} /\ "login" \in {"login", "link"}
    OBVIOUS
  <2>2. QED
    BY <1>1, <2>1, StateKeeps
<1>2. ASSUME NEW p, NEW u \in User, S!CreateOAuthState(r, p, "link", u) PROVE SocialInv'
  BY <1>2, StateKeeps
<1>3. CASE S!GoogleLogin(r) \/ S!FacebookLogin(r) \/ S!GithubLogin(r)
  BY <1>1, <1>3, Zenon DEF S!GoogleLogin, S!FacebookLogin, S!GithubLogin
<1>4. CASE \E u \in User : S!GoogleLink(r, u) \/ S!FacebookLink(r, u) \/ S!GithubLink(r, u)
  BY <1>2, <1>4, Zenon DEF S!GoogleLink, S!FacebookLink, S!GithubLink
<1>5. ASSUME NEW p, NEW goal, S!Back(r, goal, p), goal \in {"login", "link"}
      PROVE  p \in Provider
  <2>1. req[r].pc = "away" /\ req[r].provider = p
    BY <1>5 DEF S!Back, S!At
  <2>2. QED
    BY <2>1, OneSocialReq DEF HasRead
<1>6. CASE S!GoogleCallback(r) \/ S!FacebookCallback(r) \/ S!GithubCallback(r)
  <2>1. PICK p, answers : S!Callback(r, p, answers) /\ answers \subseteq BOOLEAN
    BY <1>6 DEF S!GoogleCallback, S!FacebookCallback, S!GithubCallback, S!GoogleAnswers,
                S!FacebookAnswers, S!GithubAnswers
  <2>2. p \in Provider
    BY <1>5, <2>1 DEF S!Callback
  <2>3. QED
    BY <2>1, <2>2, CallbackKeeps
<1>7. CASE S!GoogleLinkCallback(r) \/ S!FacebookLinkCallback(r) \/ S!GithubLinkCallback(r)
  <2>1. PICK p : S!LinkCallback(r, p)
    BY <1>7, Zenon DEF S!GoogleLinkCallback, S!FacebookLinkCallback, S!GithubLinkCallback,
                       S!HandleFacebookLinkCallback, S!HandleGithubLinkCallback
  <2>2. p \in Provider
    BY <1>5, <2>1 DEF S!LinkCallback
  <2>3. QED
    BY <2>1, <2>2, LinkCallbackKeeps
<1>8. CASE \/ S!FindSocialAccount(r) \/ S!SaveSocialAccount(r) \/ S!ReadUser(r)
           \/ S!UpdateUser(r) \/ S!FindUserByEmail(r) \/ S!CreateMergeToken(r)
           \/ S!CreateUser(r) \/ S!CreateSocialAccount(r) \/ S!CreateSessionOrTokens(r)
  BY <1>8, FindLinkKeeps, SaveLinkKeeps, ReadUserKeeps, UpdateUserKeeps, FindUserKeeps,
     MergeTokenKeeps, CreateUserKeeps, InsertKeeps, GrantKeeps, Zenon
<1>9. CASE \E p \in Provider : S!UnlinkSocialAccount(r, p) \/ S!SocialAccountUnlink(r, p)
  BY <1>9, UnlinkBeginsKeeps, Zenon DEF S!UnlinkSocialAccount, S!SocialAccountUnlink
<1>10. CASE \/ S!CountSocialAccounts(r) \/ S!DeleteSocialAccount(r)
            \/ \E t \in Token : S!ConfirmMerge(r, t)
            \/ S!VerifyOwner(r) \/ S!DeleteMergeToken(r) \/ S!Fail(r)
  BY <1>10, CountKeeps, DeleteLinkKeeps, ConfirmKeeps, VerifyKeeps, DropTokenKeeps, FailKeeps,
     Zenon
<1>11. QED
  BY <1>3, <1>4, <1>6, <1>7, <1>8, <1>9, <1>10, Zenon DEF S!Serve

LEMMA NextSocial ==
  ASSUME SocialInv, S!Next
  PROVE  SocialInv'
<1>1. CASE \E r \in Req : S!Serve(r)
  BY <1>1, ServeKeeps, Zenon
<1>2. CASE \E t \in Token : S!MergeTokenExpires(t)
  BY <1>2, ExpiryKeeps, Zenon
<1>3. CASE \E u \in User : \/ S!RegisterUser(u) \/ S!SetInitialPassword(u)
                           \/ S!UpdateUserEmail(u) \/ S!ToggleUserActive(u) \/ S!DeleteUser(u)
  BY <1>3, ChangesKeep, Zenon
<1>4. QED
  BY <1>1, <1>2, <1>3, Zenon DEF S!Next

LEMMA StillSocial ==
  ASSUME SocialInv, UNCHANGED <<part, socialVars, vars>>
  PROVE  SocialInv'
<1>1. UNCHANGED <<users, social, merge, req, served, changes, errors, drawn, links, overlap,
                  undone, wrong>>
  BY DEF socialVars, vars, bounds
<1>2. /\ Stored /\ req \in [Req -> S!Request] /\ (\A r \in Req : HasRead(req[r]))
      /\ RowsApart /\ RowsDrawn /\ Ways /\ Merges /\ Entering
  BY SocialHas
<1>3. Stored'
  BY <1>1, <1>2, Zenon DEF Stored, S!Present
<1>4. /\ req' \in [Req -> S!Request] /\ (\A s \in Req : HasRead(req[s]))'
      /\ RowsApart' /\ RowsDrawn'
  BY <1>1, BesideStructure
<1>5. Merges'
  BY <1>1, BesideMerges
<1>6. Ways'
  BY <1>1, <1>2 DEF Ways, Calm, HasWay, S!Present, S!Linked, FirstLink, Free, Spares
<1>7. Entering'
  BY <1>1, <1>2 DEF Entering, Calm, MayEnter, S!Present
<1>8. QED
  BY <1>3, <1>4, <1>5, <1>6, <1>7, Zenon DEF SocialInv

\* What the invariant says of the property.
LEMMA OwnersKept ==
  ASSUME SocialInv
  PROVE  S!OwnersIn
<1>0. /\ Stored /\ RowsDrawn /\ req \in [Req -> S!Request] /\ Ways /\ Merges /\ Entering
  BY SocialHas
<1>1. errors \in Nat
  BY <1>0, StoredTyped, SocialConstants
<1>2. S!TypeOK
  <2>1. links \in [Token -> 0 .. MaxRequests]
    <3>1. drawn.rows <= MaxRequests
      <4>. DEFINE m == Cardinality(Inserters)
      <4>1. m \in Nat
        BY SocialConstants, FS_Subset, FS_CardinalityType DEF Inserters
      <4>2. drawn.rows \in Nat /\ drawn.rows + m <= served /\ served \in 0 .. MaxRequests
        BY <1>0, StoredTyped DEF RowsDrawn
      <4>. HIDE DEF m
      <4>3. QED
        BY <4>1, <4>2, SocialConstants
    <3>2. \A t \in Token : links[t] <= drawn.rows /\ drawn.rows \in Nat
      BY <1>0 DEF RowsDrawn
    <3>3. links \in [Token -> Nat]
      BY <1>0, StoredTyped
    <3>4. \A t \in Token : links[t] \in 0 .. MaxRequests
      BY <3>1, <3>2, <3>3, SocialConstants
    <3>5. QED
      BY <3>3, <3>4
  <2>2. \A p \in Provider : social[p] # S!NoLink => S!Present(social[p].owner)
    BY <1>0, OneSocial
  <2>3. QED
    BY <1>0, <2>1, <2>2, StoredTyped, Zenon DEF S!TypeOK
<1>3. S!LastMethodKept
  <2>. SUFFICES ASSUME NEW u \in User, S!Present(u), overlap \cap {"unlink", "link"} = {},
                       u \notin undone, ~ (errors > 0)
                PROVE  \/ users[u].password \/ S!Linked(u) # {}
                       \/ \E r \in Req : S!At(r, "insert_link") /\ req[r].user = u
    BY Zenon DEF S!LastMethodKept
  <2>1. Calm({"unlink", "link"})
    BY <1>1 DEF Calm
  <2>2. HasWay(u)
    BY <1>0, <2>1 DEF Ways
  <2>3. QED
    BY <2>2, Zenon DEF HasWay, FirstLink, S!At
<1>4. S!MergedOnce
  <2>. SUFFICES ASSUME NEW t \in Token, links[t] > 1, "merge" \notin overlap, ~ (errors > 0)
                PROVE  FALSE
    BY Zenon DEF S!MergedOnce
  <2>1. Calm({"merge"})
    BY <1>1 DEF Calm
  <2>2. links[t] = 0 \/ links[t] = 1
    BY <1>0, <2>1 DEF Merges
  <2>3. QED
    BY <2>2
<1>5. S!InactiveKeptOut
  <2>. SUFFICES ASSUME wrong # {}, "change" \notin overlap, ~ (errors > 0)
                PROVE  FALSE
    BY Zenon DEF S!InactiveKeptOut
  <2>1. Calm({"change"})
    BY <1>1 DEF Calm
  <2>2. QED
    BY <1>0, <2>1 DEF Entering
<1>6. QED
  BY <1>2, <1>3, <1>4, <1>5, Zenon DEF S!OwnersIn

\* An account keeps a way to sign in, a merge token links an identity once, and nobody is
\* let in who was deactivated or deleted before the request began, but for the overlaps, the
\* older copies and the failures that the property names (social/service.go:195, 640,
\* 1020).  For any number of users, providers, tokens, requests, changes and failures.
THEOREM OwnersStayIn == AllSpec => []OwnersIn
<1>. DEFINE Kept == part = "social" => SocialInv
<1>1. AllInit => Kept
  BY InitSocial DEF AllInit, Init
<1>2. Kept /\ [AllNext]_<<part, socialVars, vars>> => Kept'
  <2>. SUFFICES ASSUME Kept, [AllNext]_<<part, socialVars, vars>> PROVE Kept'
    OBVIOUS
  <2>1. CASE SocialLogin
    BY <2>1, NextSocial, Zenon DEF SocialLogin
  <2>2. CASE SessionGroups
    <3>1. part' = "groups"
      BY <2>2 DEF SessionGroups
    <3>2. QED
      BY <3>1
  <2>3. CASE UNCHANGED <<part, socialVars, vars>>
    BY <2>3, StillSocial
  <2>4. QED
    BY <2>1, <2>2, <2>3 DEF AllNext
<1>3. Kept => OwnersIn
  BY OwnersKept DEF OwnersIn
<1>4. QED
  BY <1>1, <1>2, <1>3, PTL DEF AllSpec
=============================================================================
