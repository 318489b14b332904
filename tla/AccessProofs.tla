---------------------------- MODULE AccessProofs ----------------------------
(***************************************************************************)
(* What decides who gets in where promises, for any number of requests.    *)
(*                                                                         *)
(* First Oidc: for any codes, scopes and sessions, the provider's safety   *)
(* properties, and that its authorization codes implement OneTimeToken.    *)
(* Base says what a request can carry at each step of its handler.  Each   *)
(* property then has an invariant of its own.                              *)
(*                                                                         *)
(* Then the two components MCAccess composes it with: AccessCaches' cached *)
(* permissions and rules, and Anomaly's notices.                           *)
(***************************************************************************)
EXTENDS MCAccess, FiniteSetTheorems, SequenceTheorems, TLAPS

\* What a request can carry at each step of its handler.
Minting == {"scopes", "key", "key_lock", "key_make"}
Fits(q) ==
  /\ q.pc = "idle" => q = Idle
  /\ q.pc \in {"issue", "browser"} => q.kind \in {"cookie", "form"}
  /\ q.pc = "issue" => q.scopes \in Requestable
  /\ q.pc \in {"code", "mark"} => q.kind = "code"
  /\ q.pc \in {"blacklist", "granted"} => q.kind = "refresh"
  /\ q.pc = "session" => q.kind \in {"code", "refresh", "client"}
  /\ q.kind = "client" => q.pc = "session" /\ q.scopes = {}
  /\ q.kind = "code" <=> q.code # None
  /\ q.kind \in {"code", "refresh"}
       => q.pc \in {"code", "mark", "blacklist", "granted", "session"} \cup Minting
  /\ q.minted # 0 <=> q.pc \in Minting
  /\ q.pc \in Minting => q.kind \in {"code", "refresh"}

Base ==
  /\ TypeOK
  /\ \A r \in Req :
       /\ Fits(req[r]) /\ req[r].minted \in 0 .. made
       /\ req[r].kind = "refresh" => req[r].token \in handed

-----------------------------------------------------------------------------
(* What a step does to its request.                                        *)

Same(r) == \A s \in Req \ {r} : req'[s] = req[s]
Ended(r) == Same(r) /\ req'[r] = Idle
Went(r, step) ==
  /\ Same(r) /\ req'[r].pc = step /\ req'[r].code = req[r].code
  /\ req'[r].scopes = req[r].scopes /\ req'[r].token = req[r].token
  /\ req'[r].kind = req[r].kind /\ req'[r].minted = req[r].minted
  /\ req'[r].row = req[r].row
Began(r) ==
  /\ Same(r) /\ req[r].pc = "idle" /\ served' = served + 1 /\ served < MaxRequests
  /\ overlap' = (overlap \/ \E q \in Req : req[q].pc # "idle")

LEMMA IdleFits ==
  /\ Idle \in Request /\ Fits(Idle) /\ Idle.pc = "idle" /\ Idle.code = None /\ Idle.minted = 0
  /\ Idle.kind = "" /\ Idle.scopes = {} /\ Idle.token = 0
  BY DEF Idle, Unset, Request, Client, Steps, Fits, Minting

LEMMA HandedIsSession ==
  ASSUME OidcAssumption, Base
  PROVE  handed \subseteq 1 .. made /\ 1 .. made \subseteq Session /\ made \in Nat
<1>1. made \in 0 .. MaxSessions /\ handed \subseteq 1 .. made
  BY DEF Base, TypeOK
<1>2. made \in Nat /\ 1 .. made \subseteq 1 .. MaxSessions
  BY <1>1 DEF OidcAssumption
<1> QED
  BY <1>1, <1>2 DEF Session

\* A request is what it was but for one slot.
LEMMA Slot ==
  ASSUME Base, NEW r \in Req, NEW q \in Request, Fits(q), q.minted \in 0 .. made',
         q.kind = "refresh" => q.token \in handed', req' = [req EXCEPT ![r] = q],
         made' \in {made, made + 1}, handed \subseteq handed'
  PROVE  /\ req' \in [Req -> Request] /\ req'[r] = q /\ Same(r)
         /\ \A s \in Req :
              /\ Fits(req'[s]) /\ req'[s].minted \in 0 .. made'
              /\ req'[s].kind = "refresh" => req'[s].token \in handed'
<1>1. req' \in [Req -> Request] /\ req'[r] = q /\ \A s \in Req \ {r} : req'[s] = req[s]
  BY DEF Base, TypeOK
<1>2. made \in Nat
  BY DEF Base, TypeOK
<1>3. \A s \in Req : req[s].minted \in 0 .. made => req[s].minted \in 0 .. made'
  BY <1>2
<1> QED
  BY <1>1, <1>3 DEF Base, Same

LEMMA SlotEnds ==
  ASSUME Base, NEW r \in Req, Goto(r, "idle"), made' \in {made, made + 1}, handed \subseteq handed'
  PROVE  /\ req' \in [Req -> Request] /\ Ended(r)
         /\ \A s \in Req :
              /\ Fits(req'[s]) /\ req'[s].minted \in 0 .. made'
              /\ req'[s].kind = "refresh" => req'[s].token \in handed'
<1>1. req' = [req EXCEPT ![r] = Idle]
  BY DEF Goto
<1>2. made \in Nat
  BY DEF Base, TypeOK
<1>3. 0 \in 0 .. made'
  BY <1>2
<1>4. Idle.minted \in 0 .. made'
  BY <1>3, IdleFits
<1> QED
  BY <1>1, <1>4, IdleFits, Slot DEF Ended

LEMMA SlotGoes ==
  ASSUME Base, NEW r \in Req, NEW step \in Steps \ {"idle"}, Goto(r, step),
         Fits([req[r] EXCEPT !.pc = step]), made' = made, handed \subseteq handed'
  PROVE  /\ req' \in [Req -> Request] /\ Went(r, step)
         /\ \A s \in Req :
              /\ Fits(req'[s]) /\ req'[s].minted \in 0 .. made'
              /\ req'[s].kind = "refresh" => req'[s].token \in handed'
<1> DEFINE q == [req[r] EXCEPT !.pc = step]
<1>1. req' = [req EXCEPT ![r] = q]
  BY DEF Goto
<1>2. req[r] \in Request
  BY DEF Base, TypeOK
<1>3. /\ q \in Request /\ q.pc = step /\ q.code = req[r].code
      /\ q.scopes = req[r].scopes /\ q.token = req[r].token
      /\ q.kind = req[r].kind /\ q.minted = req[r].minted /\ q.row = req[r].row
  BY <1>2 DEF Request
<1>4. Fits(q) /\ q.minted \in 0 .. made' /\ (q.kind = "refresh" => q.token \in handed')
  BY <1>3 DEF Base
<1> HIDE DEF q
<1> QED
  BY <1>1, <1>3, <1>4, Slot DEF Went

LEMMA SlotBegins ==
  ASSUME OidcAssumption, Base, NEW r \in Req, NEW first \in Request, Begin(r, first),
         Fits(first), first.minted = 0, first.kind = "refresh" => first.token \in handed,
         UNCHANGED <<made, handed>>
  PROVE  /\ req' \in [Req -> Request] /\ Began(r) /\ served' \in 0 .. MaxRequests
         /\ req'[r] = first
         /\ \A s \in Req :
              /\ Fits(req'[s]) /\ req'[s].minted \in 0 .. made'
              /\ req'[s].kind = "refresh" => req'[s].token \in handed'
<1>1. /\ req' = [req EXCEPT ![r] = first] /\ At(r, "idle") /\ served' = served + 1
      /\ served < MaxRequests /\ overlap' = (overlap \/ \E q \in Req : ~ At(q, "idle"))
  BY DEF Begin
<1>2. served' \in 0 .. MaxRequests
  BY <1>1 DEF OidcAssumption, Base, TypeOK
<1>3. first.minted \in 0 .. made'
  BY DEF Base, TypeOK
<1> QED
  BY <1>1, <1>2, <1>3, Slot DEF Began, At

LEMMA FailBase ==
  ASSUME OidcAssumption, Base, NEW r \in Req, NEW step \in Steps, Fail(r, step),
         step = "idle" \/ Fits([req[r] EXCEPT !.pc = step])
  PROVE  /\ Base' /\ (IF step = "idle" THEN Ended(r) ELSE Went(r, step))
         /\ errors' = errors + 1 /\ errors' # 0
<1>1. /\ errors' = errors + 1 /\ errors' # 0 /\ errors' \in 0 .. MaxErrors
  BY DEF Fail, OidcAssumption, Base, TypeOK
<1>2. /\ req' \in [Req -> Request] /\ (IF step = "idle" THEN Ended(r) ELSE Went(r, step))
      /\ \A s \in Req :
           /\ Fits(req'[s]) /\ req'[s].minted \in 0 .. made'
           /\ req'[s].kind = "refresh" => req'[s].token \in handed'
  <2>1. CASE step = "idle"
    BY <2>1, SlotEnds DEF Fail
  <2>2. CASE step # "idle"
    BY <2>2, SlotGoes DEF Fail
  <2> QED
    BY <2>1, <2>2
<1>3. TypeOK'
  BY <1>1, <1>2 DEF Base, TypeOK, Fail, history
<1> QED
  BY <1>1, <1>2, <1>3 DEF Base

-----------------------------------------------------------------------------
(* The steps of the authorization endpoint. *)

LEMMA AuthorizeBase ==
  ASSUME OidcAssumption, Base, NEW r \in Req, NEW s \in Requestable, NEW kind \in {"cookie",
         "form"},
         Begin(r, [Idle EXCEPT !.pc = "issue", !.scopes = s, !.kind = kind]),
         UNCHANGED <<browserAndCodes, tokenState, keyState, clientState, errors>>
  PROVE  /\ Base' /\ Began(r)
         /\ req'[r].pc = "issue" /\ req'[r].scopes = s /\ req'[r].kind = kind
         /\ req'[r].code = None /\ req'[r].minted = 0
<1> DEFINE first == [Idle EXCEPT !.pc = "issue", !.scopes = s, !.kind = kind]
<1>1. /\ first \in Request /\ Fits(first)
      /\ first.pc = "issue" /\ first.scopes = s /\ first.kind = kind /\ first.code = None
      /\ first.minted = 0
  BY DEF Idle, Unset, Request, Client, Steps, Fits, Requestable, Minting
<1> HIDE DEF first
<1>2. UNCHANGED <<made, handed>> /\ Begin(r, first)
  BY DEF tokenState, first
<1>3. /\ req' \in [Req -> Request] /\ Began(r) /\ served' \in 0 .. MaxRequests
      /\ req'[r] = first
      /\ \A q \in Req :
           /\ Fits(req'[q]) /\ req'[q].minted \in 0 .. made'
           /\ req'[q].kind = "refresh" => req'[q].token \in handed'
  BY <1>1, <1>2, SlotBegins
<1>4. TypeOK'
  BY <1>3 DEF Base, TypeOK, Began, browserAndCodes, tokenState, keyState, clientState
<1> QED
  BY <1>1, <1>3, <1>4 DEF Base

LEMMA IssueAuthCodeBase ==
  ASSUME OidcAssumption, Base, NEW r \in Req, IssueAuthCode(r)
  PROVE  Base' /\ (Went(r, "browser") \/ (Ended(r) /\ errors' # 0))
<1>1. At(r, "issue") /\ Fits([req[r] EXCEPT !.pc = "browser"])
  BY ZenonT(60) DEF IssueAuthCode, At, Base, TypeOK, Request, Fits, Minting, Idle
<1>2. CASE Fail(r, "idle")
  BY <1>2, FailBase DEF Steps
<1>3. CASE ~ Fail(r, "idle")
  <2>1. /\ Goto(r, "browser") /\ UNCHANGED <<made, handed>>
    BY <1>3 DEF IssueAuthCode, tokenState
  <2>2. /\ req' \in [Req -> Request] /\ Went(r, "browser")
        /\ \A q \in Req :
             /\ Fits(req'[q]) /\ req'[q].minted \in 0 .. made'
             /\ req'[q].kind = "refresh" => req'[q].token \in handed'
    BY <1>1, <2>1, SlotGoes DEF Steps
  <2>3. req[r].scopes \subseteq Scope
    BY DEF Base, TypeOK, Request
  <2>4. codes' \in [Code -> [state : {"unissued", "live", "spent"}, scopes : SUBSET Scope]]
    <3> DEFINE live == [state |-> "live", scopes |-> req[r].scopes]
    <3>1. live \in [state : {"unissued", "live", "spent"}, scopes : SUBSET Scope]
      BY <2>3
    <3> HIDE DEF live
    <3>2. \E c \in Code : codes' = [codes EXCEPT ![c] = live]
      BY <1>3 DEF IssueAuthCode, Unissued, live
    <3> QED
      BY <3>1, <3>2 DEF Base, TypeOK
  <2>5. TypeOK'
    BY <1>3, <2>2, <2>4 DEF IssueAuthCode, Base, TypeOK, tokenState, keyState, clientState
  <2> QED
    BY <2>2, <2>5 DEF Base
<1> QED
  BY <1>2, <1>3

LEMMA SetOIDCBrowserSessionBase ==
  ASSUME OidcAssumption, Base, NEW r \in Req, SetOIDCBrowserSession(r)
  PROVE  Base' /\ Ended(r)
<1>1. CASE Fail(r, "idle")
  BY <1>1, FailBase DEF Steps
<1>2. CASE ~ Fail(r, "idle")
  <2>1. /\ Goto(r, "idle") /\ UNCHANGED <<made, handed>>
    BY <1>2 DEF SetOIDCBrowserSession, tokenState
  <2>2. /\ req' \in [Req -> Request] /\ Ended(r)
        /\ \A q \in Req :
             /\ Fits(req'[q]) /\ req'[q].minted \in 0 .. made'
             /\ req'[q].kind = "refresh" => req'[q].token \in handed'
    BY <2>1, SlotEnds
  <2>3. TypeOK'
    BY <1>2, <2>2
    DEF SetOIDCBrowserSession, Base, TypeOK, tokenState, keyState, clientState
  <2> QED
    BY <2>2, <2>3 DEF Base
<1> QED
  BY <1>1, <1>2

-----------------------------------------------------------------------------
(* The steps of the token endpoint. *)

LEMMA HandleAuthCodeGrantBase ==
  ASSUME OidcAssumption, Base, NEW r \in Req, NEW c \in Code, HandleAuthCodeGrant(r, c)
  PROVE  /\ Base' /\ Began(r)
         /\ req'[r].pc = "code" /\ req'[r].code = c /\ req'[r].kind = "code" /\ req'[r].minted = 0
<1> DEFINE first == [Idle EXCEPT !.pc = "code", !.code = c, !.kind = "code"]
<1>1. /\ first \in Request /\ Fits(first)
      /\ first.pc = "code" /\ first.code = c /\ first.kind = "code" /\ first.minted = 0
  BY DEF Idle, Unset, Request, Client, Steps, Fits, Requestable, Minting, OidcAssumption
<1> HIDE DEF first
<1>2. UNCHANGED <<made, handed>> /\ Begin(r, first)
  BY DEF tokenState, first, HandleAuthCodeGrant
<1>3. /\ req' \in [Req -> Request] /\ Began(r) /\ served' \in 0 .. MaxRequests
      /\ req'[r] = first
      /\ \A q \in Req :
           /\ Fits(req'[q]) /\ req'[q].minted \in 0 .. made'
           /\ req'[q].kind = "refresh" => req'[q].token \in handed'
  BY <1>1, <1>2, SlotBegins
<1>4. TypeOK'
  BY <1>3
  DEF HandleAuthCodeGrant, Base, TypeOK, Began, browserAndCodes, tokenState, keyState, clientState
<1> QED
  BY <1>1, <1>3, <1>4 DEF Base

LEMMA ExchangeCodeBase ==
  ASSUME OidcAssumption, Base, NEW r \in Req, ExchangeCode(r)
  PROVE  /\ Base' /\ req[r].code \in Code
         /\ \/ /\ codes[req[r].code].state = "live" /\ Same(r)
               /\ req'[r].pc = "mark" /\ req'[r].code = req[r].code
               /\ req'[r].scopes = codes[req[r].code].scopes
            \/ Ended(r)
<1> DEFINE c == req[r].code
           q == [req[r] EXCEPT !.pc = "mark", !.scopes = codes[c].scopes]
<1>1. req[r] \in Request /\ Fits(req[r]) /\ req[r].pc = "code"
  BY DEF Base, TypeOK, ExchangeCode, At
<1>2. req[r].code \in Code
  BY <1>1 DEF Fits, Request
<1>3. UNCHANGED <<made, handed>>
  BY DEF ExchangeCode, tokenState
<1>4. CASE codes[c].state = "live"
  <2>1. codes[c].scopes \in SUBSET Scope
    BY <1>2 DEF Base, TypeOK
  <2>2. /\ q \in Request /\ q.minted = req[r].minted /\ q.kind = "code" /\ Fits(q)
        /\ q.pc = "mark" /\ q.code = c /\ q.scopes = codes[c].scopes
    BY <1>1, <2>1 DEF Request, Fits, Steps, Minting, Idle
  <2>3. q.minted \in 0 .. made'
    BY <1>3, <2>2 DEF Base
  <2>4. req' = [req EXCEPT ![r] = q]
    BY <1>1, <1>4 DEF ExchangeCode, Base, TypeOK
  <2> HIDE DEF q
  <2>5. /\ req' \in [Req -> Request] /\ req'[r] = q /\ Same(r)
        /\ \A s \in Req :
             /\ Fits(req'[s]) /\ req'[s].minted \in 0 .. made'
             /\ req'[s].kind = "refresh" => req'[s].token \in handed'
    BY <1>3, <2>2, <2>3, <2>4, Slot
  <2>6. TypeOK'
    BY <2>5
    DEF ExchangeCode, Base, TypeOK, browserAndCodes, tokenState, keyState, clientState
  <2> QED
    BY <1>2, <1>4, <2>2, <2>5, <2>6 DEF Base
<1>5. CASE codes[c].state # "live"
  <2>1. Goto(r, "idle")
    BY <1>5 DEF ExchangeCode
  <2>2. /\ req' \in [Req -> Request] /\ Ended(r)
        /\ \A s \in Req :
             /\ Fits(req'[s]) /\ req'[s].minted \in 0 .. made'
             /\ req'[s].kind = "refresh" => req'[s].token \in handed'
    BY <1>3, <2>1, SlotEnds
  <2>3. TypeOK'
    BY <2>2
    DEF ExchangeCode, Base, TypeOK, browserAndCodes, tokenState, keyState, clientState
  <2> QED
    BY <1>2, <2>2, <2>3 DEF Base
<1> QED
  BY <1>4, <1>5

LEMMA MarkAuthCodeUsedBase ==
  ASSUME OidcAssumption, Base, NEW r \in Req, MarkAuthCodeUsed(r)
  PROVE  Base' /\ (Went(r, "session") \/ (Ended(r) /\ errors' # 0))
<1>1. At(r, "mark") /\ req[r] \in Request /\ req[r].code \in Code
  BY DEF MarkAuthCodeUsed, At, Base, TypeOK, Request, Fits
<1>2. Fits([req[r] EXCEPT !.pc = "session"])
  BY <1>1 DEF At, Base, Request, Fits, Minting, Idle
<1>3. CASE Fail(r, "idle")
  BY <1>3, FailBase DEF Steps
<1>4. CASE ~ Fail(r, "idle")
  <2>1. /\ Goto(r, "session") /\ UNCHANGED <<made, handed>>
    BY <1>4 DEF MarkAuthCodeUsed, tokenState
  <2>2. /\ req' \in [Req -> Request] /\ Went(r, "session")
        /\ \A q \in Req :
             /\ Fits(req'[q]) /\ req'[q].minted \in 0 .. made'
             /\ req'[q].kind = "refresh" => req'[q].token \in handed'
    BY <1>2, <2>1, SlotGoes DEF Steps
  <2>3. codes' = [codes EXCEPT ![req[r].code] = [@ EXCEPT !.state = "spent"]]
    BY <1>4 DEF MarkAuthCodeUsed, Marked
  <2>4. codes' \in [Code -> [state : {"unissued", "live", "spent"}, scopes : SUBSET Scope]]
    BY <1>1, <2>3 DEF Base, TypeOK
  <2>5. TypeOK'
    BY <1>4, <2>2, <2>4 DEF MarkAuthCodeUsed, Base, TypeOK, tokenState, keyState, clientState
  <2> QED
    BY <2>2, <2>5 DEF Base
<1> QED
  BY <1>3, <1>4

LEMMA HandleRefreshTokenGrantBase ==
  ASSUME OidcAssumption, Base, NEW r \in Req, NEW t \in Session, NEW s \in SUBSET Scope,
         HandleRefreshTokenGrant(r, t, s)
  PROVE  /\ Base' /\ Began(r)
         /\ req'[r].pc = "blacklist" /\ req'[r].token = t /\ req'[r].kind = "refresh"
         /\ req'[r].code = None /\ req'[r].minted = 0
<1> DEFINE first == [Idle EXCEPT !.pc = "blacklist", !.token = t, !.scopes = s,
                                 !.kind = "refresh"]
<1>1. /\ first \in Request /\ Fits(first)
      /\ first.pc = "blacklist" /\ first.token = t /\ first.kind = "refresh"
      /\ first.code = None /\ first.minted = 0
  BY DEF Idle, Unset, Request, Client, Steps, Fits, Minting
<1> HIDE DEF first
<1>2. UNCHANGED <<made, handed>> /\ Begin(r, first) /\ t \in handed
  BY DEF tokenState, first, HandleRefreshTokenGrant
<1>3. /\ req' \in [Req -> Request] /\ Began(r) /\ served' \in 0 .. MaxRequests
      /\ req'[r] = first
      /\ \A q \in Req :
           /\ Fits(req'[q]) /\ req'[q].minted \in 0 .. made'
           /\ req'[q].kind = "refresh" => req'[q].token \in handed'
  BY <1>1, <1>2, SlotBegins
<1>4. TypeOK'
  BY <1>3
  DEF HandleRefreshTokenGrant, Base, TypeOK, Began, browserAndCodes, tokenState, keyState,
      clientState
<1> QED
  BY <1>1, <1>3, <1>4 DEF Base

LEMMA BlacklistAccessTokenBase ==
  ASSUME OidcAssumption, Base, NEW r \in Req, BlacklistAccessToken(r)
  PROVE  Base' /\ Went(r, "granted")
<1>1. At(r, "blacklist") /\ req[r] \in Request /\ Fits([req[r] EXCEPT !.pc = "granted"])
  BY ZenonT(60) DEF BlacklistAccessToken, At, Base, TypeOK, Request, Fits, Minting, Idle
<1>2. req[r].token \in handed
  BY <1>1 DEF Base, Fits, At
<1>3. CASE Fail(r, "granted")
  BY <1>1, <1>3, FailBase DEF Steps
<1>4. CASE ~ Fail(r, "granted")
  <2>1. /\ Goto(r, "granted") /\ UNCHANGED <<made, handed>>
    BY <1>4 DEF BlacklistAccessToken
  <2>2. /\ req' \in [Req -> Request] /\ Went(r, "granted")
        /\ \A q \in Req :
             /\ Fits(req'[q]) /\ req'[q].minted \in 0 .. made'
             /\ req'[q].kind = "refresh" => req'[q].token \in handed'
    BY <1>1, <2>1, SlotGoes DEF Steps
  <2>3. TypeOK'
    BY <1>2, <1>4, <2>2
    DEF BlacklistAccessToken, Base, TypeOK, browserAndCodes, keyState, clientState
  <2> QED
    BY <2>2, <2>3 DEF Base
<1> QED
  BY <1>3, <1>4

\* What a refresh goes on with: unless the read fails, no more than was granted.
LEMMA GetOIDCGrantedScopesBase ==
  ASSUME OidcAssumption, Base, NEW r \in Req, GetOIDCGrantedScopes(r)
  PROVE  /\ Base' /\ errors' \in {errors, errors + 1}
         /\ \/ Ended(r)
            \/ /\ Same(r) /\ req'[r].pc = "session" /\ req'[r].kind = "refresh"
               /\ req'[r].token = req[r].token /\ req[r].token \in handed
               /\ errors' = errors /\ granted[req[r].token] # {}
                    => /\ req'[r].scopes # {}
                       /\ req'[r].scopes \subseteq granted[req[r].token]
<1>1. /\ At(r, "granted") /\ req[r] \in Request /\ req[r].kind = "refresh"
      /\ req[r].token \in handed
  BY DEF GetOIDCGrantedScopes, At, Base, TypeOK, Fits
<1>2. UNCHANGED <<made, handed>> /\ req[r].scopes \subseteq Scope /\ req[r].token \in Session
  BY <1>1, HandedIsSession DEF GetOIDCGrantedScopes, tokenState, Request
<1>3. PICK lost \in BOOLEAN :
        LET original == IF lost THEN {} ELSE granted[req[r].token] IN
        /\ errors' = errors + (IF lost THEN 1 ELSE 0) /\ errors' <= MaxErrors
        /\ IF Allowed(req[r].scopes, original)
             THEN req' = [req EXCEPT ![r].pc = "session",
                                     ![r].scopes = Effective(req[r].scopes, original)]
             ELSE Goto(r, "idle")
  BY DEF GetOIDCGrantedScopes
<1> DEFINE original == IF lost THEN {} ELSE granted[req[r].token]
           scopes == Effective(req[r].scopes, original)
           q == [req[r] EXCEPT !.pc = "session", !.scopes = scopes]
<1>4. errors' \in {errors, errors + 1} /\ errors' \in 0 .. MaxErrors
  BY <1>3 DEF Base, TypeOK, OidcAssumption
<1>5. CASE Allowed(req[r].scopes, original)
  <2>1. original \subseteq Scope /\ scopes \subseteq Scope
    BY <1>2 DEF Base, TypeOK, Effective, OidcAssumption
  <2>2. errors' = errors /\ granted[req[r].token] # {}
          => scopes # {} /\ scopes \subseteq granted[req[r].token]
    <3>1. errors' = errors => ~ lost
      BY <1>3 DEF Base, TypeOK
    <3> QED
      BY <1>5, <3>1 DEF Allowed, Effective
  <2> HIDE DEF scopes
  <2>3. /\ q \in Request /\ q.minted = req[r].minted /\ q.kind = "refresh" /\ q.pc = "session"
        /\ q.token = req[r].token /\ q.scopes = scopes
    BY <1>1, <2>1 DEF Request, Steps
  <2>4. Fits(q)
    BY <1>1, <2>3 DEF Base, Request, Fits, Minting, Idle, At
  <2>5. q.minted \in 0 .. made'
    BY <1>2, <2>3 DEF Base
  <2>6. req' = [req EXCEPT ![r] = q]
    BY <1>1, <1>3, <1>5 DEF Base, TypeOK, scopes
  <2> HIDE DEF q
  <2>7. /\ req' \in [Req -> Request] /\ req'[r] = q /\ Same(r)
        /\ \A s \in Req :
             /\ Fits(req'[s]) /\ req'[s].minted \in 0 .. made'
             /\ req'[s].kind = "refresh" => req'[s].token \in handed'
    BY <1>1, <1>2, <2>3, <2>4, <2>5, <2>6, Slot
  <2>8. TypeOK'
    BY <1>4, <2>7
    DEF GetOIDCGrantedScopes, Base, TypeOK, browserAndCodes, tokenState, keyState, clientState
  <2> QED
    BY <1>1, <1>4, <2>2, <2>3, <2>7, <2>8 DEF Base
<1>6. CASE ~ Allowed(req[r].scopes, original)
  <2>1. Goto(r, "idle")
    BY <1>3, <1>6
  <2>2. /\ req' \in [Req -> Request] /\ Ended(r)
        /\ \A s \in Req :
             /\ Fits(req'[s]) /\ req'[s].minted \in 0 .. made'
             /\ req'[s].kind = "refresh" => req'[s].token \in handed'
    BY <1>2, <2>1, SlotEnds
  <2>3. TypeOK'
    BY <1>4, <2>2
    DEF GetOIDCGrantedScopes, Base, TypeOK, browserAndCodes, tokenState, keyState, clientState
  <2> QED
    BY <1>4, <2>2, <2>3 DEF Base
<1> QED
  BY <1>5, <1>6

LEMMA ClientCredentialsGrantBase ==
  ASSUME OidcAssumption, Base, NEW r \in Req, ClientCredentialsGrant(r)
  PROVE  /\ Base' /\ Began(r)
         /\ req'[r].pc = "session" /\ req'[r].kind = "client" /\ req'[r].code = None
         /\ req'[r].minted = 0
<1> DEFINE first == [Idle EXCEPT !.pc = "session", !.kind = "client"]
<1>1. /\ first \in Request /\ Fits(first)
      /\ first.pc = "session" /\ first.kind = "client" /\ first.code = None /\ first.minted = 0
  BY DEF Idle, Unset, Request, Client, Steps, Fits, Minting
<1> HIDE DEF first
<1>2. UNCHANGED <<made, handed>> /\ Begin(r, first)
  BY DEF tokenState, first, ClientCredentialsGrant
<1>3. /\ req' \in [Req -> Request] /\ Began(r) /\ served' \in 0 .. MaxRequests
      /\ req'[r] = first
      /\ \A q \in Req :
           /\ Fits(req'[q]) /\ req'[q].minted \in 0 .. made'
           /\ req'[q].kind = "refresh" => req'[q].token \in handed'
  BY <1>1, <1>2, SlotBegins
<1>4. TypeOK'
  BY <1>3
  DEF ClientCredentialsGrant, Base, TypeOK, Began, browserAndCodes, tokenState, keyState,
      clientState
<1> QED
  BY <1>1, <1>3, <1>4 DEF Base

LEMMA CreateSessionBase ==
  ASSUME OidcAssumption, Base, NEW r \in Req, CreateSession(r)
  PROVE  /\ Base' /\ req[r].kind \in {"code", "refresh", "client"}
         /\ \/ Ended(r) /\ errors' # 0 /\ Fail(r, "idle")
            \/ /\ made' = made + 1 /\ made' \in Session /\ errors' = errors
               /\ \/ Ended(r) /\ req[r].kind = "client" /\ req[r].scopes = {}
                  \/ /\ req[r].kind # "client" /\ Same(r) /\ req'[r].pc = "scopes"
                     /\ req'[r].minted = made' /\ req'[r].scopes = req[r].scopes
                     /\ req'[r].kind = req[r].kind
<1>1. /\ req[r].pc = "session" /\ req[r] \in Request /\ Fits(req[r])
      /\ req[r].kind \in {"code", "refresh", "client"}
  BY DEF CreateSession, At, Base, TypeOK, Fits
<1>2. CASE Fail(r, "idle")
  BY <1>1, <1>2, FailBase DEF Steps
<1>3. CASE ~ Fail(r, "idle")
  <2> DEFINE s == made + 1
             q == IF req[r].kind = "client" THEN Idle
                  ELSE [req[r] EXCEPT !.pc = "scopes", !.minted = s]
  <2>1. /\ made < MaxSessions /\ made' = s /\ sessions' = sessions \cup {s}
        /\ approved' = [approved EXCEPT ![s] =
             IF req[r].kind = "refresh" THEN approved[req[r].token] ELSE req[r].scopes]
        /\ req' = [req EXCEPT ![r] = q] /\ handed' = handed /\ errors' = errors
        /\ spent' = IF req[r].kind = "refresh" THEN spent \cup {req[r].token} ELSE spent
    BY <1>1, <1>3 DEF CreateSession, At, Base, TypeOK
  <2>2. /\ s \in Session /\ s \in 0 .. MaxSessions /\ s # 0 /\ s \in 1 .. s
        /\ 1 .. made \subseteq 1 .. s
        /\ s \in 0 .. s /\ 0 \in 0 .. s
    BY <2>1 DEF Base, TypeOK, OidcAssumption, Session
  <2>3. /\ q \in Request /\ Fits(q) /\ q.minted \in {0, s}
        /\ q.kind = "refresh" => q.kind = req[r].kind /\ q.token = req[r].token
    BY <1>1, <2>2, IdleFits DEF Fits, Minting, Request, Steps
  <2>4. q.minted \in 0 .. made'
    BY <2>1, <2>2, <2>3
  <2>5. q.kind = "refresh" => q.token \in handed'
    BY <2>1, <2>3 DEF Base
  <2>6. req[r].kind = "client" => req[r].scopes = {}
    BY <1>1 DEF Fits
  <2>7. /\ req[r].kind = "client" => q = Idle
        /\ req[r].kind # "client"
             => /\ q.pc = "scopes" /\ q.minted = s /\ q.scopes = req[r].scopes
                /\ q.kind = req[r].kind
    BY <1>1 DEF Request
  <2> HIDE DEF q
  <2>8. /\ req' \in [Req -> Request] /\ req'[r] = q /\ Same(r)
        /\ \A x \in Req :
             /\ Fits(req'[x]) /\ req'[x].minted \in 0 .. made'
             /\ req'[x].kind = "refresh" => req'[x].token \in handed'
    BY <2>1, <2>3, <2>4, <2>5, Slot
  <2>9. approved' \in [Session -> SUBSET Scope]
    <3>1. req[r].scopes \subseteq Scope
      BY <1>1 DEF Request
    <3>2. req[r].kind = "refresh" => approved[req[r].token] \subseteq Scope
      BY HandedIsSession DEF Base, TypeOK
    <3> QED
      BY <2>1, <3>1, <3>2 DEF Base, TypeOK
  <2>10. spent' \subseteq handed
    BY <2>1 DEF Base, TypeOK
  <2>11. sessions' \cup handed \subseteq 1 .. made' /\ shown \subseteq 1 .. made'
    BY <2>1, <2>2 DEF Base, TypeOK
  <2>12. TypeOK'
    BY <1>3, <2>1, <2>2, <2>8, <2>9, <2>10, <2>11
    DEF CreateSession, Base, TypeOK, keyState, clientState
  <2> QED
    BY <1>1, <2>1, <2>2, <2>6, <2>7, <2>8, <2>12 DEF Base, Ended
<1> QED
  BY <1>2, <1>3

LEMMA SetOIDCGrantedScopesBase ==
  ASSUME OidcAssumption, Base, NEW r \in Req, SetOIDCGrantedScopes(r)
  PROVE  /\ Base' /\ Went(r, "key") /\ req[r].minted \in Session
         /\ granted' = [granted EXCEPT ![req[r].minted] = req[r].scopes] \/ errors' # 0
<1>1. /\ At(r, "scopes") /\ req[r] \in Request /\ req[r].minted \in Session
      /\ req[r].scopes \subseteq Scope
  BY DEF SetOIDCGrantedScopes, At, Base, TypeOK, Request, Fits, Minting
<1>2. Fits([req[r] EXCEPT !.pc = "key"])
  BY <1>1 DEF At, Base, Request, Fits, Minting, Idle
<1>3. CASE Fail(r, "key")
  BY <1>1, <1>2, <1>3, FailBase DEF Steps
<1>4. CASE ~ Fail(r, "key")
  <2>1. /\ Goto(r, "key") /\ UNCHANGED <<made, handed>>
        /\ granted' = [granted EXCEPT ![req[r].minted] = req[r].scopes]
    BY <1>4 DEF SetOIDCGrantedScopes
  <2>2. /\ req' \in [Req -> Request] /\ Went(r, "key")
        /\ \A q \in Req :
             /\ Fits(req'[q]) /\ req'[q].minted \in 0 .. made'
             /\ req'[q].kind = "refresh" => req'[q].token \in handed'
    BY <1>2, <2>1, SlotGoes DEF Steps
  <2>3. granted' \in [Session -> SUBSET Scope]
    BY <1>1, <2>1 DEF Base, TypeOK
  <2>4. TypeOK'
    BY <1>4, <2>2, <2>3
    DEF SetOIDCGrantedScopes, Base, TypeOK, browserAndCodes, keyState, clientState
  <2> QED
    BY <1>1, <2>1, <2>2, <2>4 DEF Base
<1> QED
  BY <1>3, <1>4

-----------------------------------------------------------------------------
(* The key, and the answer. *)

LEMMA AnswerBase ==
  ASSUME OidcAssumption, Base, NEW r \in Req, NEW signingKey, Answer(r, signingKey),
         req[r].pc \in {"key", "key_lock", "key_make"}, keyMu' \in Req \cup {None}
  PROVE  /\ Base' /\ Ended(r) /\ req[r].minted \in 1 .. made
         /\ handed' \subseteq handed \cup {req[r].minted} /\ handed \subseteq handed'
<1>1. req[r].minted \in 1 .. made
  BY DEF Base, TypeOK, Fits, Minting
<1>2. /\ handed' \subseteq handed \cup {req[r].minted} /\ handed \subseteq handed'
      /\ Goto(r, "idle") /\ made' = made
  BY DEF Answer
<1>3. /\ req' \in [Req -> Request] /\ Ended(r)
      /\ \A q \in Req :
           /\ Fits(req'[q]) /\ req'[q].minted \in 0 .. made'
           /\ req'[q].kind = "refresh" => req'[q].token \in handed'
  BY <1>2, SlotEnds
<1>4. TypeOK'
  BY <1>1, <1>2, <1>3 DEF Answer, Base, TypeOK, browserAndCodes, clientState
<1> QED
  BY <1>1, <1>2, <1>3, <1>4 DEF Base

LEMMA GetRSAKeyBase ==
  ASSUME OidcAssumption, Base, NEW r \in Req, GetRSAKey(r)
  PROVE  /\ Base' /\ req[r].pc = "key"
         /\ \/ key # 0 /\ Answer(r, key) /\ UNCHANGED <<key, keyMu>> /\ Ended(r)
            \/ Went(r, "key_lock") /\ UNCHANGED <<tokenState, keyState>>
<1>1. req[r].pc = "key" /\ req[r] \in Request
  BY DEF GetRSAKey, At, Base, TypeOK
<1>2. Fits([req[r] EXCEPT !.pc = "key_lock"])
  BY <1>1 DEF Base, Request, Fits, Minting, Idle
<1>3. CASE key # 0
  BY <1>1, <1>3, AnswerBase DEF GetRSAKey, Base, TypeOK
<1>4. CASE key = 0
  <2>1. Goto(r, "key_lock") /\ UNCHANGED <<made, handed, tokenState, keyState>>
    BY <1>4 DEF GetRSAKey, tokenState
  <2>2. /\ req' \in [Req -> Request] /\ Went(r, "key_lock")
        /\ \A q \in Req :
             /\ Fits(req'[q]) /\ req'[q].minted \in 0 .. made'
             /\ req'[q].kind = "refresh" => req'[q].token \in handed'
    BY <1>2, <2>1, SlotGoes DEF Steps
  <2>3. TypeOK'
    BY <1>4, <2>2
    DEF GetRSAKey, Base, TypeOK, browserAndCodes, tokenState, keyState, clientState
  <2> QED
    BY <1>1, <2>1, <2>2, <2>3 DEF Base
<1> QED
  BY <1>3, <1>4

LEMMA LockAndReadAgainBase ==
  ASSUME OidcAssumption, Base, NEW r \in Req, LockAndReadAgain(r)
  PROVE  /\ Base' /\ req[r].pc = "key_lock" /\ keyMu = None
         /\ \/ key # 0 /\ Answer(r, key) /\ UNCHANGED <<key, keyMu>> /\ Ended(r)
            \/ /\ Went(r, "key_make") /\ key = 0 /\ keyMu' = r
               /\ UNCHANGED <<tokenState, key, signed, shown>>
<1>1. req[r].pc = "key_lock" /\ req[r] \in Request /\ keyMu = None
  BY DEF LockAndReadAgain, At, Base, TypeOK
<1>2. Fits([req[r] EXCEPT !.pc = "key_make"])
  BY <1>1 DEF Base, Request, Fits, Minting, Idle
<1>3. CASE key # 0
  BY <1>1, <1>3, AnswerBase DEF LockAndReadAgain, MissingUnderLock, Base, TypeOK
<1>4. CASE key = 0
  <2>1. /\ Goto(r, "key_make") /\ UNCHANGED <<made, handed, tokenState, key, signed, shown>>
        /\ keyMu' = r
    BY <1>4 DEF LockAndReadAgain, MissingUnderLock, tokenState
  <2>2. /\ req' \in [Req -> Request] /\ Went(r, "key_make")
        /\ \A q \in Req :
             /\ Fits(req'[q]) /\ req'[q].minted \in 0 .. made'
             /\ req'[q].kind = "refresh" => req'[q].token \in handed'
    BY <1>2, <2>1, SlotGoes DEF Steps
  <2>3. TypeOK'
    BY <1>4, <2>1, <2>2
    DEF LockAndReadAgain, MissingUnderLock, Base, TypeOK, browserAndCodes, tokenState, clientState
  <2> QED
    BY <1>1, <1>4, <2>1, <2>2, <2>3 DEF Base
<1> QED
  BY <1>3, <1>4

LEMMA SaveRSAPrivateKeyBase ==
  ASSUME OidcAssumption, Base, NEW r \in Req, SaveRSAPrivateKey(r)
  PROVE  Base' /\ Ended(r) /\ req[r].pc = "key_make"
  BY AnswerBase DEF SaveRSAPrivateKey, At

-----------------------------------------------------------------------------
(* Claims, revocation and logout. *)

LEMMA UserInfoBase ==
  ASSUME OidcAssumption, Base, NEW r \in Req, NEW s \in Session, UserInfo(r, s)
  PROVE  /\ Base' /\ Began(r)
         /\ req'[r].pc = "idle" /\ req'[r].code = None /\ req'[r].kind = "" /\ req'[r].minted = 0
<1> DEFINE first == Idle
<1>1. /\ first \in Request /\ Fits(first)
      /\ first.pc = "idle" /\ first.code = None /\ first.kind = "" /\ first.minted = 0
  BY IdleFits DEF Idle, Unset, Request, Client, Steps, Fits, Minting
<1> HIDE DEF first
<1>2. UNCHANGED <<made, handed>> /\ Begin(r, first)
  BY DEF tokenState, first, UserInfo
<1>3. /\ req' \in [Req -> Request] /\ Began(r) /\ served' \in 0 .. MaxRequests
      /\ req'[r] = first
      /\ \A q \in Req :
           /\ Fits(req'[q]) /\ req'[q].minted \in 0 .. made'
           /\ req'[q].kind = "refresh" => req'[q].token \in handed'
  BY <1>1, <1>2, SlotBegins
<1>4. TypeOK'
  BY <1>3 DEF UserInfo, Base, TypeOK, Began, browserAndCodes, tokenState, keyState, clientState,
     Sent
<1> QED
  BY <1>1, <1>3, <1>4 DEF Base

LEMMA RevokeBase ==
  ASSUME OidcAssumption, Base, NEW r \in Req, NEW t \in Session, Revoke(r, t)
  PROVE  /\ Base' /\ Began(r)
         /\ req'[r].pc = "idle" /\ req'[r].code = None /\ req'[r].kind = "" /\ req'[r].minted = 0
<1> DEFINE first == Idle
<1>1. /\ first \in Request /\ Fits(first)
      /\ first.pc = "idle" /\ first.code = None /\ first.kind = "" /\ first.minted = 0
  BY IdleFits DEF Idle, Unset, Request, Client, Steps, Fits, Minting
<1> HIDE DEF first
<1>2. UNCHANGED <<made, handed>> /\ Begin(r, first)
  BY DEF tokenState, first, Revoke
<1>3. /\ req' \in [Req -> Request] /\ Began(r) /\ served' \in 0 .. MaxRequests
      /\ req'[r] = first
      /\ \A q \in Req :
           /\ Fits(req'[q]) /\ req'[q].minted \in 0 .. made'
           /\ req'[q].kind = "refresh" => req'[q].token \in handed'
  BY <1>1, <1>2, SlotBegins
<1>4. TypeOK'
  BY <1>3 DEF Revoke, Base, TypeOK, Began, browserAndCodes, tokenState, keyState, clientState
<1> QED
  BY <1>1, <1>3, <1>4 DEF Base

LEMMA EndSessionBase ==
  ASSUME OidcAssumption, Base, NEW r \in Req, EndSession(r)
  PROVE  /\ Base' /\ Began(r)
         /\ req'[r].pc \in {"drop_cookie", "drop_sessions"} /\ req'[r].code = None
         /\ req'[r].kind = "" /\ req'[r].minted = 0
<1> DEFINE first == [Idle EXCEPT !.pc = IF signedIn THEN "drop_cookie" ELSE "drop_sessions"]
<1>1. /\ first \in Request /\ Fits(first)
      /\ first.pc \in {"drop_cookie", "drop_sessions"} /\ first.code = None
      /\ first.kind = "" /\ first.minted = 0
  BY IdleFits DEF Idle, Unset, Request, Client, Steps, Fits, Minting
<1> HIDE DEF first
<1>2. UNCHANGED <<made, handed>> /\ Begin(r, first)
  BY DEF tokenState, first, EndSession
<1>3. /\ req' \in [Req -> Request] /\ Began(r) /\ served' \in 0 .. MaxRequests
      /\ req'[r] = first
      /\ \A q \in Req :
           /\ Fits(req'[q]) /\ req'[q].minted \in 0 .. made'
           /\ req'[q].kind = "refresh" => req'[q].token \in handed'
  BY <1>1, <1>2, SlotBegins
<1>4. TypeOK'
  BY <1>3 DEF EndSession, Base, TypeOK, Began, browserAndCodes, tokenState, keyState, clientState
<1> QED
  BY <1>1, <1>3, <1>4 DEF Base

LEMMA DeleteOIDCBrowserSessionBase ==
  ASSUME OidcAssumption, Base, NEW r \in Req, DeleteOIDCBrowserSession(r)
  PROVE  Base' /\ Went(r, "drop_sessions")
<1>1. At(r, "drop_cookie") /\ req[r] \in Request
  BY DEF DeleteOIDCBrowserSession, At, Base, TypeOK
<1>2. Fits([req[r] EXCEPT !.pc = "drop_sessions"])
  BY <1>1 DEF Base, Request, Fits, Minting, Idle, At
<1>3. CASE Fail(r, "drop_sessions")
  BY <1>2, <1>3, FailBase DEF Steps
<1>4. CASE ~ Fail(r, "drop_sessions")
  <2>1. /\ Goto(r, "drop_sessions") /\ UNCHANGED <<made, handed>>
    BY <1>4 DEF DeleteOIDCBrowserSession, tokenState
  <2>2. /\ req' \in [Req -> Request] /\ Went(r, "drop_sessions")
        /\ \A q \in Req :
             /\ Fits(req'[q]) /\ req'[q].minted \in 0 .. made'
             /\ req'[q].kind = "refresh" => req'[q].token \in handed'
    BY <1>2, <2>1, SlotGoes DEF Steps
  <2>3. TypeOK'
    BY <1>4, <2>2
    DEF DeleteOIDCBrowserSession, SignedInAfter, Base, TypeOK, tokenState, keyState, clientState
  <2> QED
    BY <2>2, <2>3 DEF Base
<1> QED
  BY <1>3, <1>4

LEMMA DeleteAllUserSessionsBase ==
  ASSUME OidcAssumption, Base, NEW r \in Req, DeleteAllUserSessions(r)
  PROVE  Base' /\ Ended(r)
<1>1. Goto(r, "idle") /\ UNCHANGED <<made, handed>>
  BY DEF DeleteAllUserSessions
<1>2. /\ req' \in [Req -> Request] /\ Ended(r)
      /\ \A q \in Req :
           /\ Fits(req'[q]) /\ req'[q].minted \in 0 .. made'
           /\ req'[q].kind = "refresh" => req'[q].token \in handed'
  BY <1>1, SlotEnds
<1>3. TypeOK'
  BY <1>2 DEF DeleteAllUserSessions, Base, TypeOK, browserAndCodes, keyState, clientState
<1> QED
  BY <1>2, <1>3 DEF Base

LEMMA ExpireBase ==
  ASSUME Base, Expire
  PROVE  Base'
  BY DEF Expire, Base, TypeOK, tokenState, keyState, clientState

-----------------------------------------------------------------------------
(* The registration of the client. *)

LEMMA CreateClientBase ==
  ASSUME Base, CreateClient
  PROVE  Base'
  BY DEF CreateClient, Client, Base, TypeOK, browserAndCodes, tokenState, keyState

\* Secrets are numbered.
LEMMA RowsOfClients ==
  ASSUME Base
  PROVE  Rotated(client) \in Client /\ Switched(client) \in Client
<1>1. client \in Client /\ latest.secret + 1 \in Nat /\ (~ client.active) \in BOOLEAN
  BY DEF Base, TypeOK, Client
<1>2. Rotated(client) \in Client
  BY <1>1 DEF Client, Rotated
<1>3. Switched(client) \in Client
  BY <1>1 DEF Client, Switched
<1> QED
  BY <1>2, <1>3

LEMMA RotateClientSecretBase ==
  ASSUME OidcAssumption, Base, NEW r \in Req, RotateClientSecret(r)
  PROVE  /\ Base' /\ Began(r)
         /\ req'[r].pc = "save" /\ req'[r].row = Rotated(client) /\ req'[r].code = None
         /\ req'[r].kind = "" /\ req'[r].minted = 0
<1> DEFINE first == [Idle EXCEPT !.pc = "save", !.row = Rotated(client)]
<1>1. /\ first \in Request /\ Fits(first)
      /\ first.pc = "save" /\ first.row = Rotated(client) /\ first.code = None
      /\ first.kind = "" /\ first.minted = 0
  BY IdleFits, RowsOfClients DEF Idle, Unset, Request, Client, Steps, Fits, Minting
<1> HIDE DEF first
<1>2. UNCHANGED <<made, handed>> /\ Begin(r, first)
  BY DEF tokenState, first, RotateClientSecret
<1>3. /\ req' \in [Req -> Request] /\ Began(r) /\ served' \in 0 .. MaxRequests
      /\ req'[r] = first
      /\ \A q \in Req :
           /\ Fits(req'[q]) /\ req'[q].minted \in 0 .. made'
           /\ req'[q].kind = "refresh" => req'[q].token \in handed'
  BY <1>1, <1>2, SlotBegins
<1>4. TypeOK'
  BY <1>3 DEF RotateClientSecret, Base, TypeOK, Began, browserAndCodes, tokenState, keyState,
     Client
<1> QED
  BY <1>1, <1>3, <1>4 DEF Base

LEMMA UpdateClientBase ==
  ASSUME OidcAssumption, Base, NEW r \in Req, UpdateClient(r)
  PROVE  /\ Base' /\ Began(r)
         /\ req'[r].pc = "save" /\ req'[r].row = Switched(client) /\ req'[r].code = None
         /\ req'[r].kind = "" /\ req'[r].minted = 0
<1> DEFINE first == [Idle EXCEPT !.pc = "save", !.row = Switched(client)]
<1>1. /\ first \in Request /\ Fits(first)
      /\ first.pc = "save" /\ first.row = Switched(client) /\ first.code = None
      /\ first.kind = "" /\ first.minted = 0
  BY IdleFits, RowsOfClients DEF Idle, Unset, Request, Client, Steps, Fits, Minting
<1> HIDE DEF first
<1>2. UNCHANGED <<made, handed>> /\ Begin(r, first)
  BY DEF tokenState, first, UpdateClient
<1>3. /\ req' \in [Req -> Request] /\ Began(r) /\ served' \in 0 .. MaxRequests
      /\ req'[r] = first
      /\ \A q \in Req :
           /\ Fits(req'[q]) /\ req'[q].minted \in 0 .. made'
           /\ req'[q].kind = "refresh" => req'[q].token \in handed'
  BY <1>1, <1>2, SlotBegins
<1>4. TypeOK'
  BY <1>3 DEF UpdateClient, Base, TypeOK, Began, browserAndCodes, tokenState, keyState, Client
<1> QED
  BY <1>1, <1>3, <1>4 DEF Base

LEMMA DeleteClientBase ==
  ASSUME OidcAssumption, Base, NEW r \in Req, DeleteClient(r)
  PROVE  /\ Base' /\ Began(r)
         /\ req'[r].pc = "idle" /\ req'[r].code = None /\ req'[r].kind = "" /\ req'[r].minted = 0
<1> DEFINE first == Idle
<1>1. /\ first \in Request /\ Fits(first)
      /\ first.pc = "idle" /\ first.code = None /\ first.kind = "" /\ first.minted = 0
  BY IdleFits DEF Idle, Unset, Request, Client, Steps, Fits, Minting
<1> HIDE DEF first
<1>2. UNCHANGED <<made, handed>> /\ Begin(r, first)
  BY DEF tokenState, first, DeleteClient
<1>3. /\ req' \in [Req -> Request] /\ Began(r) /\ served' \in 0 .. MaxRequests
      /\ req'[r] = first
      /\ \A q \in Req :
           /\ Fits(req'[q]) /\ req'[q].minted \in 0 .. made'
           /\ req'[q].kind = "refresh" => req'[q].token \in handed'
  BY <1>1, <1>2, SlotBegins
<1>4. TypeOK'
  BY <1>3 DEF DeleteClient, Base, TypeOK, Began, browserAndCodes, tokenState, keyState, Client
<1> QED
  BY <1>1, <1>3, <1>4 DEF Base

LEMMA SaveClientBase ==
  ASSUME OidcAssumption, Base, NEW r \in Req, SaveClient(r)
  PROVE  Base' /\ Ended(r)
<1>1. Goto(r, "idle") /\ UNCHANGED <<made, handed>> /\ req[r].row \in Client
  BY DEF SaveClient, tokenState, Base, TypeOK, Request
<1>2. /\ req' \in [Req -> Request] /\ Ended(r)
      /\ \A q \in Req :
           /\ Fits(req'[q]) /\ req'[q].minted \in 0 .. made'
           /\ req'[q].kind = "refresh" => req'[q].token \in handed'
  BY <1>1, SlotEnds
<1>3. TypeOK'
  BY <1>1, <1>2 DEF SaveClient, Base, TypeOK, browserAndCodes, tokenState, keyState
<1> QED
  BY <1>2, <1>3 DEF Base

-----------------------------------------------------------------------------
(* Every step keeps Base. *)

\* The actions, with those that have two names in the code under one.
LEMMA StepsOfNext ==
  ASSUME Next
  PROVE  \/ Expire \/ CreateClient
         \/ \E r \in Req :
              \/ \E s \in Requestable : Authorize(r, s) \/ AuthorizeSubmit(r, s)
              \/ IssueAuthCode(r) \/ SetOIDCBrowserSession(r)
              \/ \E c \in Code : HandleAuthCodeGrant(r, c)
              \/ \E t \in Session, s \in SUBSET Scope : HandleRefreshTokenGrant(r, t, s)
              \/ ClientCredentialsGrant(r) \/ ExchangeCode(r) \/ MarkAuthCodeUsed(r)
              \/ BlacklistAccessToken(r) \/ GetOIDCGrantedScopes(r)
              \/ CreateSession(r) \/ SetOIDCGrantedScopes(r)
              \/ GetRSAKey(r) \/ LockAndReadAgain(r) \/ SaveRSAPrivateKey(r)
              \/ \E t \in Session : Revoke(r, t)
              \/ EndSession(r) \/ DeleteOIDCBrowserSession(r) \/ DeleteAllUserSessions(r)
              \/ \E s \in Session : UserInfo(r, s)
              \/ RotateClientSecret(r) \/ UpdateClient(r) \/ DeleteClient(r) \/ SaveClient(r)
  BY DEF Next, AdminCreateClient, OIDCClientCreate, TokenRequest, AdminRotateClientSecret,
         AdminUpdateClient, AdminDeleteClient, OIDCClientRotateSecret, OIDCClientUpdate,
         OIDCClientDelete

LEMMA BaseInit ==
  ASSUME OidcAssumption, Init
  PROVE  Base
<1>1. 0 \in 0 .. 0 /\ 0 \in 0 .. MaxSessions /\ 0 \in 0 .. MaxRequests /\ 0 \in 0 .. MaxErrors
  BY DEF OidcAssumption
<1>2. Unset \in Client
  BY DEF Unset, Client
<1>3. codes \in [Code -> [state : {"unissued", "live", "spent"}, scopes : SUBSET Scope]]
  BY DEF Init, Fresh
<1>4. TypeOK
  BY <1>1, <1>2, <1>3, IdleFits DEF Init, TypeOK
<1>5. \A r \in Req : Fits(req[r]) /\ req[r].minted \in 0 .. made /\ req[r].kind # "refresh"
  BY <1>1, IdleFits DEF Init
<1> QED
  BY <1>4, <1>5 DEF Base

LEMMA BaseStep ==
  ASSUME OidcAssumption, Base, [Next]_vars
  PROVE  Base'
<1>1. CASE UNCHANGED vars
  BY <1>1 DEF Base, TypeOK, vars, history
<1>2. CASE Expire
  BY <1>2, ExpireBase
<1>3. CASE CreateClient
  BY <1>3, CreateClientBase
<1>4. ASSUME NEW r \in Req, NEW s \in Requestable, Authorize(r, s) \/ AuthorizeSubmit(r, s)
      PROVE  Base'
  BY <1>4, AuthorizeBase DEF Authorize, AuthorizeSubmit
<1>5. ASSUME NEW r \in Req,
             \/ IssueAuthCode(r) \/ SetOIDCBrowserSession(r) \/ ClientCredentialsGrant(r)
             \/ ExchangeCode(r) \/ MarkAuthCodeUsed(r) \/ BlacklistAccessToken(r)
             \/ GetOIDCGrantedScopes(r) \/ CreateSession(r) \/ SetOIDCGrantedScopes(r)
      PROVE  Base'
  BY <1>5, IssueAuthCodeBase, SetOIDCBrowserSessionBase, ClientCredentialsGrantBase,
     ExchangeCodeBase, MarkAuthCodeUsedBase, BlacklistAccessTokenBase,
     GetOIDCGrantedScopesBase, CreateSessionBase, SetOIDCGrantedScopesBase
<1>6. ASSUME NEW r \in Req, NEW c \in Code, HandleAuthCodeGrant(r, c)
      PROVE  Base'
  BY <1>6, HandleAuthCodeGrantBase
<1>7. ASSUME NEW r \in Req, NEW t \in Session, NEW s \in SUBSET Scope,
             HandleRefreshTokenGrant(r, t, s)
      PROVE  Base'
  BY <1>7, HandleRefreshTokenGrantBase
<1>8. ASSUME NEW r \in Req,
             \/ GetRSAKey(r) \/ LockAndReadAgain(r) \/ SaveRSAPrivateKey(r)
             \/ EndSession(r) \/ DeleteOIDCBrowserSession(r) \/ DeleteAllUserSessions(r)
             \/ RotateClientSecret(r) \/ UpdateClient(r) \/ DeleteClient(r) \/ SaveClient(r)
      PROVE  Base'
  BY <1>8, GetRSAKeyBase, LockAndReadAgainBase, SaveRSAPrivateKeyBase, EndSessionBase,
     DeleteOIDCBrowserSessionBase, DeleteAllUserSessionsBase, RotateClientSecretBase,
     UpdateClientBase, DeleteClientBase, SaveClientBase
<1>9. ASSUME NEW r \in Req, NEW s \in Session, Revoke(r, s) \/ UserInfo(r, s)
      PROVE  Base'
  BY <1>9, RevokeBase, UserInfoBase
<1> QED
  BY <1>1, <1>2, <1>3, <1>4, <1>5, <1>6, <1>7, <1>8, <1>9, StepsOfNext

-----------------------------------------------------------------------------
(* One key.                                                                *)

\* The key is made by the holder of the mutex, while there is none.
KeyInv ==
  /\ signed \subseteq {key} \ {0}
  /\ \A r \in Req : req[r].pc = "key_make" => keyMu = r /\ key = 0

LEMMA KeyStep ==
  ASSUME OidcAssumption, Base, KeyInv, [Next]_vars
  PROVE  KeyInv'
<1> DEFINE Elsewhere == \A q \in Req : req'[q].pc = "key_make" => req[q].pc = "key_make"
<1>1. ASSUME UNCHANGED <<key, keyMu, signed>>, Elsewhere
      PROVE  KeyInv'
  BY <1>1 DEF KeyInv
<1>2. ASSUME NEW r \in Req, Same(r), req'[r].pc # "key_make"
      PROVE  Elsewhere
  BY <1>2 DEF Same
<1>3. CASE UNCHANGED vars
  BY <1>1, <1>3 DEF vars, history
<1>4. CASE Expire
  BY <1>1, <1>4 DEF Expire, keyState
<1>5. CASE CreateClient
  BY <1>1, <1>5 DEF CreateClient, keyState
<1>6. ASSUME NEW r \in Req, NEW s \in Requestable, Authorize(r, s) \/ AuthorizeSubmit(r, s)
      PROVE  KeyInv'
  <2>1. UNCHANGED <<key, keyMu, signed>> /\ Same(r) /\ req'[r].pc = "issue"
    BY <1>6, AuthorizeBase DEF Authorize, AuthorizeSubmit, Began, keyState
  <2> QED
    BY <1>1, <1>2, <2>1
<1>7. ASSUME NEW r \in Req, NEW c \in Code, HandleAuthCodeGrant(r, c)
      PROVE  KeyInv'
  <2>1. UNCHANGED <<key, keyMu, signed>> /\ Same(r) /\ req'[r].pc = "code"
    BY <1>7, HandleAuthCodeGrantBase DEF HandleAuthCodeGrant, Began, keyState
  <2> QED
    BY <1>1, <1>2, <2>1
<1>8. ASSUME NEW r \in Req, NEW t \in Session, NEW s \in SUBSET Scope,
             HandleRefreshTokenGrant(r, t, s)
      PROVE  KeyInv'
  <2>1. UNCHANGED <<key, keyMu, signed>> /\ Same(r) /\ req'[r].pc = "blacklist"
    BY <1>8, HandleRefreshTokenGrantBase DEF HandleRefreshTokenGrant, Began, keyState
  <2> QED
    BY <1>1, <1>2, <2>1
<1>9. ASSUME NEW r \in Req,
             \/ IssueAuthCode(r) \/ SetOIDCBrowserSession(r) \/ ClientCredentialsGrant(r)
             \/ MarkAuthCodeUsed(r) \/ BlacklistAccessToken(r) \/ SetOIDCGrantedScopes(r)
      PROVE  KeyInv'
  <2>1. Same(r) /\ req'[r].pc # "key_make"
    BY <1>9, IssueAuthCodeBase, SetOIDCBrowserSessionBase, ClientCredentialsGrantBase,
       MarkAuthCodeUsedBase, BlacklistAccessTokenBase, SetOIDCGrantedScopesBase, IdleFits
    DEF Went, Ended, Began
  <2>2. UNCHANGED <<key, keyMu, signed>>
    BY <1>9 DEF IssueAuthCode, SetOIDCBrowserSession, ClientCredentialsGrant, MarkAuthCodeUsed,
       BlacklistAccessToken, SetOIDCGrantedScopes, Fail, history, keyState
  <2> QED
    BY <1>1, <1>2, <2>1, <2>2
<1>10. ASSUME NEW r \in Req, ExchangeCode(r) \/ GetOIDCGrantedScopes(r) \/ CreateSession(r)
       PROVE  KeyInv'
  <2>1. req[r] \in Request /\ req[r].pc # "key_make"
    BY <1>10 DEF Base, TypeOK, ExchangeCode, GetOIDCGrantedScopes, CreateSession, At
  <2>2. Same(r) /\ req'[r].pc # "key_make"
    BY <1>10, <2>1, ExchangeCodeBase, GetOIDCGrantedScopesBase, CreateSessionBase, IdleFits
    DEF Ended
  <2>3. UNCHANGED <<key, keyMu, signed>>
    BY <1>10 DEF ExchangeCode, GetOIDCGrantedScopes, CreateSession, Fail, history, keyState
  <2> QED
    BY <1>1, <1>2, <2>2, <2>3
<1>11. ASSUME NEW r \in Req, GetRSAKey(r)
       PROVE  KeyInv'
  <2>1. CASE Went(r, "key_lock")
    <3>1. UNCHANGED <<key, keyMu, signed>> /\ Same(r) /\ req'[r].pc = "key_lock"
      BY <1>11, <2>1, GetRSAKeyBase, IdleFits DEF Ended, Went, keyState
    <3> QED
      BY <1>1, <1>2, <3>1
  <2>2. CASE ~ Went(r, "key_lock")
    <3>1. /\ key # 0 /\ signed' = signed \cup {key} /\ UNCHANGED <<key, keyMu>>
          /\ Same(r) /\ req'[r].pc # "key_make"
      BY <1>11, <2>2, GetRSAKeyBase, IdleFits DEF Answer, Ended
    <3> QED
      BY <3>1 DEF KeyInv, Same
  <2> QED
    BY <2>1, <2>2
<1>12. ASSUME NEW r \in Req, LockAndReadAgain(r)
       PROVE  KeyInv'
  <2>1. CASE Went(r, "key_make")
    <3>1. \A q \in Req : req[q].pc # "key_make"
      BY <1>12, LockAndReadAgainBase DEF KeyInv, OidcAssumption
    <3>2. key = 0 /\ keyMu' = r /\ UNCHANGED <<key, signed>>
      BY <1>12, <2>1, LockAndReadAgainBase, IdleFits DEF Ended, Went
    <3> QED
      BY <2>1, <3>1, <3>2 DEF KeyInv, Went, Same
  <2>2. CASE ~ Went(r, "key_make")
    <3>1. /\ key # 0 /\ signed' = signed \cup {key} /\ UNCHANGED <<key, keyMu>>
          /\ Same(r) /\ req'[r].pc # "key_make"
      BY <1>12, <2>2, LockAndReadAgainBase, IdleFits DEF Answer, Ended
    <3> QED
      BY <3>1 DEF KeyInv, Same
  <2> QED
    BY <2>1, <2>2
<1>13. ASSUME NEW r \in Req, SaveRSAPrivateKey(r)
       PROVE  KeyInv'
  <2>1. keyMu = r /\ key = 0 /\ Same(r) /\ req'[r].pc # "key_make"
    BY <1>13, SaveRSAPrivateKeyBase, IdleFits DEF KeyInv, Ended
  <2>2. key' = key + 1 /\ signed' = signed \cup {key'}
    BY <1>13 DEF SaveRSAPrivateKey, Answer
  <2>3. key' # 0 /\ signed = {}
    BY <2>1, <2>2 DEF KeyInv
  <2>4. \A q \in Req : req'[q].pc # "key_make"
    BY <2>1 DEF KeyInv, Same
  <2> QED
    BY <2>2, <2>3, <2>4 DEF KeyInv
<1>14. ASSUME NEW r \in Req, NEW s \in Session, Revoke(r, s) \/ UserInfo(r, s)
       PROVE  KeyInv'
  <2>1. UNCHANGED <<key, keyMu, signed>> /\ Same(r) /\ req'[r].pc # "key_make"
    BY <1>14, RevokeBase, UserInfoBase DEF Revoke, UserInfo, Began, keyState
  <2> QED
    BY <1>1, <1>2, <2>1
<1>15. ASSUME NEW r \in Req,
              \/ EndSession(r) \/ DeleteOIDCBrowserSession(r) \/ DeleteAllUserSessions(r)
              \/ RotateClientSecret(r) \/ UpdateClient(r) \/ DeleteClient(r) \/ SaveClient(r)
       PROVE  KeyInv'
  <2>1. Same(r) /\ req'[r].pc # "key_make"
    BY <1>15, EndSessionBase, DeleteOIDCBrowserSessionBase, DeleteAllUserSessionsBase,
       RotateClientSecretBase, UpdateClientBase, DeleteClientBase, SaveClientBase, IdleFits
    DEF Went, Ended, Began
  <2>2. UNCHANGED <<key, keyMu, signed>>
    BY <1>15 DEF EndSession, DeleteOIDCBrowserSession, DeleteAllUserSessions,
       RotateClientSecret, UpdateClient, DeleteClient, SaveClient, Fail, history, keyState
  <2> QED
    BY <1>1, <1>2, <2>1, <2>2
<1> QED
  BY <1>3, <1>4, <1>5, <1>6, <1>7, <1>8, <1>9, <1>10, <1>11, <1>12, <1>13, <1>14, <1>15,
     StepsOfNext

-----------------------------------------------------------------------------
(* Requests that are served one at a time.                                 *)

\* As long as no two requests have overlapped, the one being served has read what is
\* still there: the row of the client, and the browser's cookie.
Solo ==
  ~ overlap =>
    /\ \A r, s \in Req : req[r].pc # "idle" /\ req[s].pc # "idle" => r = s
    /\ \A r \in Req : req[r].pc = "save" => req[r].row = latest /\ client.exists
    /\ (\A r \in Req : req[r].pc # "save") => client = latest
    /\ out => ~ signedIn
    /\ \A r \in Req : req[r].pc = "issue" /\ req[r].kind = "cookie" => ~ out
    /\ ~ silent

LEMMA SoloBegins ==
  ASSUME Solo, NEW r \in Req, Began(r), UNCHANGED <<signedIn, out, silent>>,
         req'[r].pc = "issue" /\ req'[r].kind = "cookie" => signedIn,
         client = latest =>
           IF req'[r].pc = "save" THEN req'[r].row = latest' /\ client'.exists
           ELSE client' = latest'
  PROVE  Solo'
<1> SUFFICES ASSUME ~ overlap'
             PROVE  Solo'
  BY DEF Solo
<1>1. ~ overlap /\ \A q \in Req : req[q].pc = "idle"
  BY DEF Began
<1>2. client = latest
  BY <1>1 DEF Solo
<1>3. \A q \in Req \ {r} : req'[q].pc = "idle"
  BY <1>1 DEF Began, Same
<1>4. \A q \in Req : req'[q].pc # "idle" => q = r
  BY <1>3
<1> QED
  BY <1>1, <1>2, <1>4 DEF Solo

LEMMA SoloMoves ==
  ASSUME Solo, NEW r \in Req, Same(r), req[r].pc \notin {"idle", "save"},
         req'[r].pc \notin {"issue", "save"},
         UNCHANGED <<client, latest, signedIn, out, silent, overlap>>
  PROVE  Solo'
<1> SUFFICES ASSUME ~ overlap
             PROVE  Solo'
  BY DEF Solo
<1>1. \A q \in Req \ {r} : req[q].pc = "idle" /\ req'[q].pc = "idle"
  BY DEF Solo, Same
<1>2. \A q \in Req : req[q].pc # "save" /\ req'[q].pc \notin {"issue", "save"}
  BY <1>1
<1>3. \A q, x \in Req : req'[q].pc # "idle" /\ req'[x].pc # "idle" => q = x
  BY <1>1
<1> QED
  BY <1>2, <1>3 DEF Solo

LEMMA SoloStep ==
  ASSUME OidcAssumption, Base, Solo, [Next]_vars
  PROVE  Solo'
<1>1. CASE UNCHANGED vars
  BY <1>1 DEF Solo, vars, history
<1>2. CASE Expire
  BY <1>2 DEF Solo, Expire, clientState
<1>3. CASE CreateClient
  <2>1. ~ client.exists /\ client' = latest' /\ UNCHANGED <<req, overlap, signedIn, out, silent>>
    BY <1>3 DEF CreateClient, Unset, browserAndCodes
  <2> QED
    BY <2>1 DEF Solo
<1>4. ASSUME NEW r \in Req, NEW s \in Requestable, Authorize(r, s) \/ AuthorizeSubmit(r, s)
      PROVE  Solo'
  <2>1. CASE Authorize(r, s)
    <3>1. Began(r) /\ req'[r].pc = "issue" /\ signedIn
      BY <2>1, AuthorizeBase DEF Authorize, SessionUserID
    <3>2. UNCHANGED <<signedIn, out, silent, client, latest>>
      BY <2>1 DEF Authorize, browserAndCodes, clientState
    <3> QED
      BY <3>1, <3>2, SoloBegins
  <2>2. CASE AuthorizeSubmit(r, s)
    <3>1. Began(r) /\ req'[r].pc = "issue" /\ req'[r].kind = "form"
      BY <2>2, AuthorizeBase DEF AuthorizeSubmit
    <3>2. UNCHANGED <<signedIn, out, silent, client, latest>>
      BY <2>2 DEF AuthorizeSubmit, browserAndCodes, clientState
    <3> QED
      BY <3>1, <3>2, SoloBegins
  <2> QED
    BY <1>4, <2>1, <2>2
<1>5. ASSUME NEW r \in Req, NEW c \in Code, HandleAuthCodeGrant(r, c)
      PROVE  Solo'
  <2>1. Began(r) /\ req'[r].pc = "code" /\ UNCHANGED <<signedIn, out, silent, client, latest>>
    BY <1>5, HandleAuthCodeGrantBase DEF HandleAuthCodeGrant, browserAndCodes, clientState
  <2> QED
    BY <2>1, SoloBegins
<1>6. ASSUME NEW r \in Req, NEW t \in Session, NEW s \in SUBSET Scope,
             HandleRefreshTokenGrant(r, t, s)
      PROVE  Solo'
  <2>1. Began(r) /\ req'[r].pc = "blacklist" /\ UNCHANGED <<signedIn, out, silent, client, latest>>
    BY <1>6, HandleRefreshTokenGrantBase DEF HandleRefreshTokenGrant, browserAndCodes, clientState
  <2> QED
    BY <2>1, SoloBegins
<1>7. ASSUME NEW r \in Req, ClientCredentialsGrant(r) \/ EndSession(r)
      PROVE  Solo'
  <2>1. /\ Began(r) /\ req'[r].pc \in {"session", "drop_cookie", "drop_sessions"}
        /\ UNCHANGED <<signedIn, out, silent, client, latest>>
    BY <1>7, ClientCredentialsGrantBase, EndSessionBase
    DEF ClientCredentialsGrant, EndSession, browserAndCodes, clientState
  <2> QED
    BY <2>1, SoloBegins
<1>8. ASSUME NEW r \in Req, NEW s \in Session, Revoke(r, s) \/ UserInfo(r, s)
      PROVE  Solo'
  <2>1. /\ Began(r) /\ req'[r].pc = "idle" /\ UNCHANGED <<signedIn, out, silent, client, latest>>
    BY <1>8, RevokeBase, UserInfoBase DEF Revoke, UserInfo, browserAndCodes, clientState
  <2> QED
    BY <2>1, SoloBegins
<1>9. ASSUME NEW r \in Req, IssueAuthCode(r)
      PROVE  Solo'
  <2>1. /\ Same(r) /\ req[r].pc = "issue" /\ req'[r].pc \in {"browser", "idle"}
        /\ UNCHANGED <<client, latest, signedIn, out, overlap>>
    BY <1>9, IssueAuthCodeBase, IdleFits
    DEF IssueAuthCode, Went, Ended, At, Fail, history, clientState
  <2>2. silent' = silent \/ silent' = (silent \/ (req[r].kind = "cookie" /\ out))
    BY <1>9 DEF IssueAuthCode, Fail, history
  <2>3. ~ overlap => (silent' <=> silent)
    BY <2>1, <2>2 DEF Solo
  <2>4. CASE overlap
    BY <2>1, <2>4 DEF Solo
  <2>5. CASE ~ overlap
    <3>1. \A q \in Req \ {r} : req[q].pc = "idle" /\ req'[q].pc = "idle"
      BY <2>1, <2>5 DEF Solo, Same
    <3>2. \A q \in Req : req[q].pc # "save" /\ req'[q].pc \notin {"issue", "save"}
      BY <2>1, <3>1
    <3>3. \A q, x \in Req : req'[q].pc # "idle" /\ req'[x].pc # "idle" => q = x
      BY <3>1
    <3> QED
      BY <2>1, <2>3, <2>5, <3>2, <3>3 DEF Solo
  <2> QED
    BY <2>4, <2>5
<1>10. ASSUME NEW r \in Req, SetOIDCBrowserSession(r) \/ DeleteOIDCBrowserSession(r)
       PROVE  Solo'
  <2>1. /\ Same(r) /\ req[r].pc \in {"browser", "drop_cookie"}
        /\ req'[r].pc \in {"idle", "drop_sessions"}
        /\ UNCHANGED <<client, latest, silent, overlap>>
    BY <1>10, SetOIDCBrowserSessionBase, DeleteOIDCBrowserSessionBase, IdleFits
    DEF SetOIDCBrowserSession, DeleteOIDCBrowserSession, Went, Ended, At, Fail, history,
        clientState
  <2>2. \/ out' = out /\ signedIn' = signedIn
        \/ out' = FALSE \/ signedIn' = FALSE
    BY <1>10 DEF SetOIDCBrowserSession, DeleteOIDCBrowserSession, SignedInAfter, Fail, history
  <2>3. CASE overlap
    BY <2>1, <2>3 DEF Solo
  <2>4. CASE ~ overlap
    <3>1. \A q \in Req \ {r} : req[q].pc = "idle" /\ req'[q].pc = "idle"
      BY <2>1, <2>4 DEF Solo, Same
    <3>2. \A q \in Req : req[q].pc # "save" /\ req'[q].pc \notin {"issue", "save"}
      BY <2>1, <3>1
    <3>3. \A q, x \in Req : req'[q].pc # "idle" /\ req'[x].pc # "idle" => q = x
      BY <3>1
    <3>4. client' = latest' /\ (out' => ~ signedIn') /\ ~ silent'
      BY <2>1, <2>2, <2>4, <3>2 DEF Solo
    <3> QED
      BY <3>2, <3>3, <3>4 DEF Solo
  <2> QED
    BY <2>3, <2>4
<1>11. ASSUME NEW r \in Req,
              \/ MarkAuthCodeUsed(r) \/ BlacklistAccessToken(r) \/ SetOIDCGrantedScopes(r)
              \/ DeleteAllUserSessions(r) \/ ExchangeCode(r) \/ GetOIDCGrantedScopes(r)
              \/ CreateSession(r) \/ GetRSAKey(r) \/ LockAndReadAgain(r) \/ SaveRSAPrivateKey(r)
       PROVE  Solo'
  <2>1. /\ Same(r) /\ req'[r].pc \notin {"issue", "save"}
    BY ZenonT(60), <1>11, MarkAuthCodeUsedBase, BlacklistAccessTokenBase, SetOIDCGrantedScopesBase,
       DeleteAllUserSessionsBase, ExchangeCodeBase, GetOIDCGrantedScopesBase, CreateSessionBase,
       GetRSAKeyBase, LockAndReadAgainBase, SaveRSAPrivateKeyBase, IdleFits
    DEF Went, Ended
  <2>2. req[r].pc \notin {"idle", "save"}
    BY <1>11 DEF MarkAuthCodeUsed, BlacklistAccessToken, SetOIDCGrantedScopes,
       DeleteAllUserSessions, ExchangeCode, GetOIDCGrantedScopes, CreateSession,
       GetRSAKey, LockAndReadAgain, SaveRSAPrivateKey, At
  <2>3. CASE \/ MarkAuthCodeUsed(r) \/ BlacklistAccessToken(r) \/ SetOIDCGrantedScopes(r)
             \/ DeleteAllUserSessions(r) \/ ExchangeCode(r) \/ GetOIDCGrantedScopes(r)
             \/ CreateSession(r)
    <3>1. UNCHANGED <<client, latest, signedIn, out, silent, overlap>>
      BY <2>3 DEF MarkAuthCodeUsed, BlacklistAccessToken, SetOIDCGrantedScopes,
         DeleteAllUserSessions, ExchangeCode, GetOIDCGrantedScopes, CreateSession,
         Fail, history, clientState, browserAndCodes
    <3> QED
      BY <2>1, <2>2, <3>1, SoloMoves
  <2>4. CASE GetRSAKey(r) \/ LockAndReadAgain(r) \/ SaveRSAPrivateKey(r)
    <3>1. UNCHANGED <<client, latest, signedIn, out, silent, overlap>>
      BY <2>4 DEF GetRSAKey, LockAndReadAgain, SaveRSAPrivateKey, Answer, clientState,
         browserAndCodes
    <3> QED
      BY <2>1, <2>2, <3>1, SoloMoves
  <2> QED
    BY <1>11, <2>3, <2>4
<1>12. ASSUME NEW r \in Req, RotateClientSecret(r) \/ UpdateClient(r)
       PROVE  Solo'
  <2>1. /\ Began(r) /\ req'[r].pc = "save" /\ client'.exists /\ UNCHANGED <<signedIn, out, silent>>
    BY <1>12, RotateClientSecretBase, UpdateClientBase
    DEF RotateClientSecret, UpdateClient, browserAndCodes
  <2>2. client = latest => req'[r].row = latest'
    BY <1>12, RotateClientSecretBase, UpdateClientBase
    DEF RotateClientSecret, UpdateClient, Rotated, Switched
  <2> QED
    BY <2>1, <2>2, SoloBegins
<1>13. ASSUME NEW r \in Req, DeleteClient(r)
       PROVE  Solo'
  <2>1. /\ Began(r) /\ req'[r].pc = "idle" /\ UNCHANGED <<signedIn, out, silent>>
        /\ client = latest => client' = latest'
    BY <1>13, DeleteClientBase DEF DeleteClient, browserAndCodes
  <2> QED
    BY <2>1, SoloBegins
<1>14. ASSUME NEW r \in Req, SaveClient(r)
       PROVE  Solo'
  <2>1. /\ Same(r) /\ req[r].pc = "save" /\ req'[r].pc = "idle" /\ client' = req[r].row
        /\ UNCHANGED <<latest, signedIn, out, silent, overlap>>
    BY <1>14, SaveClientBase, IdleFits DEF SaveClient, Ended, At, browserAndCodes
  <2>2. CASE overlap
    BY <2>1, <2>2 DEF Solo
  <2>3. CASE ~ overlap
    <3>1. \A q \in Req : req'[q].pc = "idle"
      BY <2>1, <2>3 DEF Solo, Same
    <3>2. client' = latest' /\ (out' => ~ signedIn') /\ ~ silent'
      BY <2>1, <2>3 DEF Solo
    <3> QED
      BY <3>1, <3>2 DEF Solo
  <2> QED
    BY <2>2, <2>3
<1> QED
  BY <1>1, <1>2, <1>3, <1>4, <1>5, <1>6, <1>7, <1>8, <1>9, <1>10, <1>11, <1>12, <1>13, <1>14,
     StepsOfNext

-----------------------------------------------------------------------------
(* Scopes.                                                                 *)

\* Unless a command has failed, what a request carries is not empty, and is among what
\* the user approved; so is what is stored, and it is stored before it is asked for.
Granting(q, g, a) ==
  /\ q.pc = "mark" => q.scopes # {}
  /\ q.pc = "session" /\ q.kind = "code" => q.scopes # {}
  /\ q.pc = "session" /\ q.kind = "refresh" => q.scopes # {} /\ q.scopes \subseteq a[q.token]
  /\ q.pc = "scopes" => q.scopes # {} /\ q.scopes \subseteq a[q.minted]
  /\ q.pc \in {"key", "key_lock", "key_make"} => g[q.minted] # {}

Narrow ==
  /\ \A s \in Session : granted[s] \subseteq approved[s]
  /\ \A s \in Session :
       approved[s] # {}
         => granted[s] # {} \/ \E r \in Req : req[r].pc = "scopes" /\ req[r].minted = s
  /\ \A s \in Session : s \in shown => "roles" \in approved[s]
  /\ \A s \in handed : granted[s] # {}
  /\ \A c \in Code : codes[c].state = "live" => codes[c].scopes # {}
  /\ \A r \in Req : Granting(req[r], granted, approved)

Grants ==
  /\ \A s \in Session \ (1 .. made) : granted[s] = {} /\ approved[s] = {}
  /\ errors = 0 => Narrow

LEMMA IdleGrants == ASSUME NEW g, NEW a PROVE Granting(Idle, g, a)
  BY IdleFits DEF Granting

\* A step that stores no scopes, and whose request has none to store.
LEMMA GrantsMove ==
  ASSUME Grants, NEW r \in Req, Same(r), errors' = errors \/ errors' # 0,
         UNCHANGED <<made, granted, approved>>,
         errors = 0 /\ errors' = errors /\ Narrow
           => /\ req[r].pc # "scopes" /\ UNCHANGED <<shown, handed>>
              /\ \A c \in Code : codes'[c].state = "live" => codes'[c].scopes # {}
              /\ Granting(req'[r], granted, approved)
  PROVE  Grants'
<1>1. CASE errors' # 0
  BY <1>1 DEF Grants
<1>2. CASE errors' = 0
  <2>1. errors = 0 /\ Narrow
    BY <1>2 DEF Grants
  <2>2. \A q \in Req : Granting(req'[q], granted', approved')
    BY <1>2, <2>1 DEF Narrow, Same
  <2>3. \A q \in Req : req[q].pc = "scopes" => req'[q] = req[q]
    BY <1>2, <2>1 DEF Same
  <2>4. Narrow'
    BY <1>2, <2>1, <2>2, <2>3 DEF Narrow
  <2> QED
    BY <2>4 DEF Grants
<1> QED
  BY <1>1, <1>2

\* The answer hands out a session whose scopes are stored.
LEMMA GrantsAnswer ==
  ASSUME OidcAssumption, Base, Grants, NEW r \in Req, NEW signingKey, Answer(r, signingKey),
         req[r].pc \in {"key", "key_lock", "key_make"}, keyMu' \in Req \cup {None}
  PROVE  Grants'
<1>1. /\ Same(r) /\ req'[r] = Idle /\ handed' \subseteq handed \cup {req[r].minted}
      /\ UNCHANGED <<made, granted, approved, shown, codes, errors>>
  BY AnswerBase DEF Ended, Answer, browserAndCodes
<1>2. CASE errors # 0
  BY <1>1, <1>2 DEF Grants
<1>3. CASE errors = 0
  <2>1. Narrow
    BY <1>3 DEF Grants
  <2>2. \A q \in Req : Granting(req'[q], granted', approved')
    BY <1>1, <2>1, IdleGrants DEF Narrow, Same
  <2>3. \A q \in Req : req[q].pc = "scopes" => req'[q] = req[q]
    BY <1>1 DEF Same
  <2>4. \A s \in handed' : granted'[s] # {}
    BY <1>1, <2>1 DEF Narrow, Granting
  <2>5. Narrow'
    BY <1>1, <2>1, <2>2, <2>3, <2>4 DEF Narrow
  <2> QED
    BY <1>1, <2>5 DEF Grants
<1> QED
  BY <1>2, <1>3

\* Scopes are stored for the session minted with them.
LEMMA GrantsStored ==
  ASSUME OidcAssumption, Base, Grants, NEW r \in Req, SetOIDCGrantedScopes(r)
  PROVE  Grants'
<1>1. /\ Went(r, "key") /\ req[r].pc = "scopes" /\ UNCHANGED <<made, approved>>
      /\ req[r].minted \in Session
  BY SetOIDCGrantedScopesBase DEF SetOIDCGrantedScopes, Fail, history, At
<1>2. req[r].minted \in 1 .. made
  BY <1>1, HandedIsSession DEF Base, Fits, Minting
<1> DEFINE m == req[r].minted
<1>3. CASE Fail(r, "key")
  <2>1. errors' # 0
    BY <1>3 DEF Fail, Base, TypeOK, OidcAssumption
  <2>2. UNCHANGED granted
    BY <1>3 DEF Fail
  <2> QED
    BY <1>1, <2>1, <2>2 DEF Grants
<1>4. CASE ~ Fail(r, "key")
  <2>1. /\ granted' = [granted EXCEPT ![m] = req[r].scopes]
        /\ UNCHANGED <<shown, handed, codes, errors>>
    BY <1>4 DEF SetOIDCGrantedScopes, browserAndCodes, keyState
  <2>2. granted \in [Session -> SUBSET Scope]
    BY DEF Base, TypeOK
  <2> HIDE DEF m
  <2>3. granted'[m] = req[r].scopes /\ \A s \in Session \ {m} : granted'[s] = granted[s]
    BY <1>1, <2>1, <2>2 DEF m
  <2>4. \A s \in Session \ (1 .. made) : granted'[s] = {} /\ approved[s] = {}
    BY <1>1, <1>2, <2>3 DEF Grants, m
  <2>5. ASSUME Narrow
        PROVE  Narrow'
    <3>1. req[r].scopes # {} /\ req[r].scopes \subseteq approved[m]
      BY <1>1, <2>5 DEF Narrow, Granting, m
    <3>2. \A s \in Session : granted[s] # {} => granted'[s] # {}
      BY <2>3, <3>1
    <3>3. \A q \in Req : Granting(req'[q], granted', approved')
      <4>1. Granting(req'[r], granted', approved')
        BY <1>1, <2>3, <3>1 DEF Went, Granting, m
      <4>2. ASSUME NEW q \in Req \ {r}
            PROVE  Granting(req[q], granted', approved)
        <5>1. Granting(req[q], granted, approved)
          BY <2>5 DEF Narrow
        <5>2. req[q].pc \in Minting => req[q].minted \in Session
          BY HandedIsSession DEF Base, Fits
        <5> QED
          BY <3>2, <5>1, <5>2 DEF Granting, Minting
      <4> QED
        BY <1>1, <4>1, <4>2 DEF Went, Same
    <3>4. \A q \in Req : req[q].pc = "scopes" => req'[q] = req[q] \/ req[q].minted = m
      BY <1>1 DEF Went, Same, m
    <3>5. \A s \in handed : granted'[s] # {}
      BY <2>5, <3>2, HandedIsSession DEF Narrow
    <3>6. \A s \in Session : granted'[s] \subseteq approved[s]
      BY <2>3, <2>5, <3>1 DEF Narrow
    <3>7. \A s \in Session :
            approved[s] # {}
              => granted'[s] # {} \/ \E q \in Req : req'[q].pc = "scopes" /\ req'[q].minted = s
      BY <2>3, <2>5, <3>1, <3>2, <3>4 DEF Narrow
    <3> QED
      BY <1>1, <2>1, <2>5, <3>3, <3>5, <3>6, <3>7 DEF Narrow
  <2> QED
    BY <1>1, <2>1, <2>4, <2>5 DEF Grants
<1> QED
  BY <1>3, <1>4

\* A session inherits what was approved.
LEMMA GrantsCreated ==
  ASSUME OidcAssumption, Base, Grants, NEW r \in Req, CreateSession(r)
  PROVE  Grants'
<1>1. CASE Fail(r, "idle")
  <2>1. Same(r) /\ errors' # 0 /\ UNCHANGED <<made, granted, approved>>
    BY <1>1, FailBase DEF Ended, Fail, history, Steps
  <2> QED
    BY <2>1, GrantsMove
<1>2. CASE ~ Fail(r, "idle")
  <2> DEFINE m == made + 1
             was == IF req[r].kind = "refresh" THEN approved[req[r].token] ELSE req[r].scopes
  <2>1. /\ approved' = [approved EXCEPT ![m] = was] /\ made' = m /\ m \in Session
        /\ UNCHANGED <<granted, shown, handed, codes, errors>>
        /\ req[r].pc = "session" /\ req[r].kind \in {"code", "refresh", "client"}
    BY <1>2, CreateSessionBase DEF CreateSession, keyState, At
  <2>2. \/ Ended(r) /\ req[r].kind = "client" /\ req[r].scopes = {}
        \/ /\ req[r].kind # "client" /\ Same(r) /\ req'[r].pc = "scopes"
           /\ req'[r].minted = m /\ req'[r].scopes = req[r].scopes
           /\ req'[r].kind = req[r].kind
    BY <1>2, <2>1, CreateSessionBase
  <2>3. approved \in [Session -> SUBSET Scope] /\ made \in Nat /\ m \notin 1 .. made
    BY HandedIsSession DEF Base, TypeOK
  <2>4. \A s \in Session \ (1 .. m) : s \in Session \ (1 .. made) /\ s # m
    BY <2>3, <2>1
  <2> HIDE DEF was
  <2>5. approved'[m] = was /\ \A s \in Session \ {m} : approved'[s] = approved[s]
    BY <2>1, <2>3
  <2>6. granted[m] = {}
    BY <2>1, <2>3 DEF Grants
  <2>7. \A s \in Session \ (1 .. made') : granted'[s] = {} /\ approved'[s] = {}
    BY <2>1, <2>4, <2>5 DEF Grants
  <2>8. ASSUME Narrow
        PROVE  Narrow'
    <3>1. \A s \in Session : granted'[s] \subseteq approved'[s]
      BY <2>1, <2>5, <2>6, <2>8 DEF Narrow
    <3>2. \A s \in 1 .. made : s \in Session /\ s # m
      BY <2>3, HandedIsSession
    <3>3. \A s \in Session : s \in shown' => "roles" \in approved'[s]
      BY <2>1, <2>5, <2>8, <3>2 DEF Narrow, Base, TypeOK
    <3>4. \A q \in Req : req[q].pc = "scopes" => req'[q] = req[q]
      BY <2>1, <2>2 DEF Ended, Same
    <3>5. \A s \in Session :
            approved'[s] # {}
              => granted'[s] # {} \/ \E q \in Req : req'[q].pc = "scopes" /\ req'[q].minted = s
      <4>1. approved'[m] # {} => req'[r].pc = "scopes" /\ req'[r].minted = m
        BY <2>1, <2>2, <2>5 DEF was
      <4> QED
        BY <2>1, <2>5, <2>8, <3>4, <4>1 DEF Narrow
    <3>6. \A q \in Req : Granting(req'[q], granted', approved')
      <4>1. /\ Granting(req[r], granted, approved)
            /\ req[r].kind = "refresh" => req[r].token \in 1 .. made
        BY <2>8, HandedIsSession DEF Narrow, Base
      <4>2. req[r].kind # "client" => req[r].scopes # {} /\ req[r].scopes \subseteq was
        BY <2>1, <4>1 DEF Granting, was
      <4>3. Granting(req'[r], granted', approved')
        BY <2>2, <2>5, <4>2, IdleGrants DEF Ended, Granting
      <4>4. ASSUME NEW q \in Req \ {r}
            PROVE  Granting(req[q], granted', approved')
        <5>1. Granting(req[q], granted, approved)
          BY <2>8 DEF Narrow
        <5>2. req[q].kind = "refresh" => req[q].token \in Session \ {m}
          BY <3>2, HandedIsSession DEF Base
        <5>3. req[q].pc \in Minting => req[q].minted \in Session \ {m}
          BY <2>3, <3>2, HandedIsSession DEF Base, Fits
        <5> QED
          BY <2>1, <2>5, <5>1, <5>2, <5>3 DEF Granting, Minting
      <4> QED
        BY <2>2, <4>3, <4>4 DEF Ended, Same
    <3> QED
      BY <2>1, <2>8, <3>1, <3>3, <3>5, <3>6 DEF Narrow
  <2> QED
    BY <2>1, <2>7, <2>8 DEF Grants
<1> QED
  BY <1>1, <1>2

LEMMA GrantsStep ==
  ASSUME OidcAssumption, Base, Grants, [Next]_vars
  PROVE  Grants'
<1>1. CASE UNCHANGED vars
  BY <1>1 DEF Grants, Narrow, vars, history
<1>2. CASE Expire
  <2>1. /\ UNCHANGED <<req, errors, made, granted, approved, shown, handed>>
        /\ \A c \in Code : codes'[c].state = "live" => codes'[c] = codes[c]
    BY <1>2 DEF Expire, tokenState, keyState, Base, TypeOK
  <2> QED
    BY <2>1 DEF Grants, Narrow
<1>3. CASE CreateClient
  BY <1>3 DEF CreateClient, Grants, Narrow, browserAndCodes, tokenState, keyState
<1>4. ASSUME NEW r \in Req, Began(r), UNCHANGED <<tokenState, codes, shown, errors>>,
             req'[r].pc = "session" => req'[r].kind = "client",
             req'[r].pc \notin {"mark", "scopes", "key", "key_lock", "key_make"}
      PROVE  Grants'
  <2>1. Granting(req'[r], granted, approved)
    BY <1>4 DEF Granting
  <2>2. UNCHANGED <<made, granted, approved, handed>> /\ Same(r) /\ req[r].pc # "scopes"
    BY <1>4 DEF tokenState, Began
  <2> QED
    BY <1>4, <2>1, <2>2, GrantsMove DEF Narrow
<1>5. ASSUME NEW r \in Req, NEW s \in Requestable, Authorize(r, s) \/ AuthorizeSubmit(r, s)
      PROVE  Grants'
  <2>1. Began(r) /\ req'[r].pc = "issue"
    BY <1>5, AuthorizeBase DEF Authorize, AuthorizeSubmit
  <2>2. UNCHANGED <<tokenState, codes, shown, errors>>
    BY <1>5 DEF Authorize, AuthorizeSubmit, browserAndCodes, keyState
  <2> QED
    BY <1>4, <2>1, <2>2
<1>6. ASSUME NEW r \in Req, NEW c \in Code, HandleAuthCodeGrant(r, c)
      PROVE  Grants'
  BY <1>4, <1>6, HandleAuthCodeGrantBase DEF HandleAuthCodeGrant, browserAndCodes, keyState
<1>7. ASSUME NEW r \in Req, NEW t \in Session, NEW s \in SUBSET Scope,
             HandleRefreshTokenGrant(r, t, s)
      PROVE  Grants'
  BY <1>4, <1>7, HandleRefreshTokenGrantBase DEF HandleRefreshTokenGrant, browserAndCodes, keyState
<1>8. ASSUME NEW r \in Req, ClientCredentialsGrant(r) \/ EndSession(r)
      PROVE  Grants'
  <2>1. /\ Began(r) /\ req'[r].pc \in {"session", "drop_cookie", "drop_sessions"}
        /\ req'[r].pc = "session" => req'[r].kind = "client"
    BY <1>8, ClientCredentialsGrantBase, EndSessionBase
  <2>2. UNCHANGED <<tokenState, codes, shown, errors>>
    BY <1>8 DEF ClientCredentialsGrant, EndSession, browserAndCodes, keyState
  <2> QED
    BY <1>4, <2>1, <2>2
<1>9. ASSUME NEW r \in Req, RotateClientSecret(r) \/ UpdateClient(r) \/ DeleteClient(r)
      PROVE  Grants'
  <2>1. Began(r) /\ req'[r].pc \in {"save", "idle"}
    BY <1>9, RotateClientSecretBase, UpdateClientBase, DeleteClientBase
  <2>2. UNCHANGED <<tokenState, codes, shown, errors>>
    BY <1>9 DEF RotateClientSecret, UpdateClient, DeleteClient, browserAndCodes, keyState
  <2> QED
    BY <1>4, <2>1, <2>2
<1>10. ASSUME NEW r \in Req, NEW t \in Session, Revoke(r, t)
       PROVE  Grants'
  <2>1. /\ Same(r) /\ req[r].pc = "idle" /\ req'[r].pc = "idle"
        /\ UNCHANGED <<made, granted, approved, handed, codes, shown, errors>>
    BY <1>10, RevokeBase DEF Revoke, Began, browserAndCodes, keyState
  <2>2. Granting(req'[r], granted, approved)
    BY <2>1 DEF Granting
  <2> QED
    BY <2>1, <2>2, GrantsMove DEF Narrow
<1>11. ASSUME NEW r \in Req, NEW s \in Session, UserInfo(r, s)
       PROVE  Grants'
  <2>1. /\ Same(r) /\ req[r].pc = "idle" /\ req'[r].pc = "idle" /\ s \in Sent
        /\ UNCHANGED <<made, granted, approved, handed, codes, errors>>
        /\ shown' = IF "roles" \in ScopesOf(granted[s]) THEN shown \cup {s} ELSE shown
    BY <1>11, UserInfoBase DEF UserInfo, Began, browserAndCodes, tokenState
  <2>2. ASSUME Narrow
        PROVE  Narrow'
    <3>1. granted[s] # {} /\ granted[s] \subseteq approved[s]
      BY <2>1, <2>2 DEF Narrow, Sent
    <3>2. s \in shown' /\ s \notin shown => "roles" \in approved[s]
      BY <2>1, <3>1 DEF ScopesOf
    <3>3. \A q \in Req : Granting(req'[q], granted', approved')
      BY <2>1, <2>2 DEF Narrow, Granting, Same
    <3>4. \A q \in Req : req[q].pc = "scopes" => req'[q] = req[q]
      BY <2>1 DEF Same
    <3>5. \A x \in Session : x \in shown' => "roles" \in approved[x]
      BY <2>1, <2>2, <3>2 DEF Narrow
    <3> QED
      BY <2>1, <2>2, <3>3, <3>4, <3>5 DEF Narrow
  <2> QED
    BY <2>1, <2>2 DEF Grants
<1>12. ASSUME NEW r \in Req, IssueAuthCode(r)
       PROVE  Grants'
  <2>1. /\ Same(r) /\ req[r].pc = "issue" /\ req'[r].pc \in {"browser", "idle"}
        /\ UNCHANGED <<made, granted, approved, handed, shown>>
        /\ errors' \in {errors, errors + 1}
    BY <1>12, IssueAuthCodeBase, IdleFits
    DEF IssueAuthCode, Went, Ended, At, Fail, history, tokenState, keyState
  <2>2. req[r].scopes # {}
    BY <2>1 DEF Base, Fits, Requestable
  <2>3. codes' = codes \/ \E c \in Code : codes' =
          [codes EXCEPT ![c] = [state |-> "live", scopes |-> req[r].scopes]]
    BY <1>12 DEF IssueAuthCode, Unissued, Fail
  <2>4. (\A c \in Code : codes[c].state = "live" => codes[c].scopes # {})
          => \A c \in Code : codes'[c].state = "live" => codes'[c].scopes # {}
    BY <2>2, <2>3 DEF Base, TypeOK
  <2>5. Granting(req'[r], granted, approved)
    BY <2>1 DEF Granting
  <2>6. errors' = errors \/ errors' # 0
    BY <2>1 DEF Base, TypeOK, OidcAssumption
  <2> QED
    BY <2>1, <2>4, <2>5, <2>6, GrantsMove DEF Narrow
<1>13. ASSUME NEW r \in Req,
              \/ SetOIDCBrowserSession(r) \/ DeleteOIDCBrowserSession(r)
              \/ DeleteAllUserSessions(r) \/ BlacklistAccessToken(r) \/ SaveClient(r)
       PROVE  Grants'
  <2>1. /\ Same(r) /\ req[r].pc # "scopes" /\ req'[r].pc \in {"idle", "drop_sessions", "granted"}
    BY <1>13, SetOIDCBrowserSessionBase, DeleteOIDCBrowserSessionBase, DeleteAllUserSessionsBase,
       BlacklistAccessTokenBase, SaveClientBase, IdleFits
    DEF SetOIDCBrowserSession, DeleteOIDCBrowserSession, DeleteAllUserSessions,
       BlacklistAccessToken, SaveClient, Went, Ended, At
  <2>2. /\ UNCHANGED <<made, granted, approved, handed, shown, codes>>
        /\ errors' = errors \/ errors' = errors + 1
    BY <1>13 DEF SetOIDCBrowserSession, DeleteOIDCBrowserSession, DeleteAllUserSessions,
       BlacklistAccessToken, SaveClient, Fail, history, browserAndCodes, tokenState, keyState
  <2>3. Granting(req'[r], granted, approved)
    BY <2>1 DEF Granting
  <2>4. errors' = errors \/ errors' # 0
    BY <2>2 DEF Base, TypeOK, OidcAssumption
  <2> QED
    BY <2>1, <2>2, <2>3, <2>4, GrantsMove DEF Narrow
<1>14. ASSUME NEW r \in Req, ExchangeCode(r)
       PROVE  Grants'
  <2>1. /\ UNCHANGED <<made, granted, approved, handed, shown, codes, errors>>
        /\ Same(r) /\ req[r].pc # "scopes"
    BY <1>14, ExchangeCodeBase DEF ExchangeCode, Ended, At, browserAndCodes, tokenState, keyState
  <2>2. Narrow => Granting(req'[r], granted, approved)
    BY <1>14, ExchangeCodeBase, IdleFits DEF Ended, Narrow, Granting
  <2> QED
    BY <2>1, <2>2, GrantsMove DEF Narrow
<1>15. ASSUME NEW r \in Req, MarkAuthCodeUsed(r)
       PROVE  Grants'
  <2>1. /\ UNCHANGED <<made, granted, approved, handed, shown>>
        /\ Same(r) /\ req[r].pc = "mark"
        /\ errors' \in {errors, errors + 1}
    BY <1>15, MarkAuthCodeUsedBase
    DEF MarkAuthCodeUsed, Went, Ended, At, Fail, history, tokenState, keyState
  <2>2. \A c \in Code : codes'[c].state = "live" => codes'[c] = codes[c]
    BY <1>15 DEF MarkAuthCodeUsed, Marked, Fail, Base, TypeOK
  <2>3. Narrow => Granting(req'[r], granted, approved)
    <3>1. req[r].kind = "code"
      BY <2>1 DEF Base, Fits
    <3> QED
      BY <1>15, <2>1, <3>1, MarkAuthCodeUsedBase, IdleFits DEF Went, Ended, Narrow, Granting
  <2>4. errors' = errors \/ errors' # 0
    BY <2>1 DEF Base, TypeOK, OidcAssumption
  <2> QED
    BY <2>1, <2>2, <2>3, <2>4, GrantsMove DEF Narrow
<1>16. ASSUME NEW r \in Req, GetOIDCGrantedScopes(r)
       PROVE  Grants'
  <2>1. /\ UNCHANGED <<made, granted, approved, handed, shown, codes>>
        /\ Same(r) /\ req[r].pc # "scopes"
    BY <1>16, GetOIDCGrantedScopesBase
    DEF GetOIDCGrantedScopes, Ended, At, browserAndCodes, tokenState, keyState
  <2>2. errors' = errors \/ errors' # 0
    BY <1>16, GetOIDCGrantedScopesBase DEF Base, TypeOK, OidcAssumption
  <2>3. errors' = errors /\ Narrow => Granting(req'[r], granted, approved)
    <3>1. CASE Ended(r)
      BY <3>1, IdleGrants DEF Ended
    <3>2. CASE ~ Ended(r)
      <4>1. /\ req'[r].pc = "session" /\ req'[r].kind = "refresh"
            /\ req'[r].token = req[r].token /\ req[r].token \in handed
            /\ errors' = errors /\ granted[req[r].token] # {}
                 => /\ req'[r].scopes # {}
                    /\ req'[r].scopes \subseteq granted[req[r].token]
        BY <1>16, <3>2, GetOIDCGrantedScopesBase
      <4>2. req[r].token \in Session
        BY <4>1, HandedIsSession
      <4> QED
        BY <4>1, <4>2 DEF Narrow, Granting
    <3> QED
      BY <3>1, <3>2
  <2> QED
    BY <2>1, <2>2, <2>3, GrantsMove DEF Narrow
<1>17. ASSUME NEW r \in Req, GetRSAKey(r) \/ LockAndReadAgain(r) \/ SaveRSAPrivateKey(r)
       PROVE  Grants'
  <2>1. CASE \E k : Answer(r, k)
    <3>1. req[r].pc \in {"key", "key_lock", "key_make"} /\ keyMu' \in Req \cup {None}
      BY <1>17, GetRSAKeyBase, LockAndReadAgainBase, SaveRSAPrivateKeyBase DEF Base, TypeOK
    <3> QED
      BY <2>1, <3>1, GrantsAnswer
  <2>2. CASE ~ \E k : Answer(r, k)
    <3>1. /\ req[r].pc \in {"key", "key_lock"}
          /\ Went(r, "key_lock") \/ Went(r, "key_make")
          /\ UNCHANGED <<tokenState, shown>>
      BY <1>17, <2>2, GetRSAKeyBase, LockAndReadAgainBase DEF SaveRSAPrivateKey, keyState
    <3>2. UNCHANGED <<codes, errors>>
      BY <1>17, <2>2 DEF GetRSAKey, LockAndReadAgain, SaveRSAPrivateKey, browserAndCodes
    <3>3. UNCHANGED <<made, granted, approved, handed>> /\ Same(r)
      BY <3>1 DEF tokenState, Went
    <3>4. Narrow => Granting(req'[r], granted, approved)
      BY <3>1 DEF Went, Narrow, Granting
    <3> QED
      BY <3>1, <3>2, <3>3, <3>4, GrantsMove DEF Narrow
  <2> QED
    BY <2>1, <2>2
<1> QED
  BY <1>1, <1>2, <1>3, <1>5, <1>6, <1>7, <1>8, <1>9, <1>10, <1>11, <1>12, <1>13, <1>14, <1>15,
     <1>16, <1>17, GrantsCreated, GrantsStored, StepsOfNext

-----------------------------------------------------------------------------
\* Whatever requests come in, and whichever of their commands fail, no session is granted
\* more than the user approved, ID tokens are signed with the published key, logouts are
\* followed by a form and changes of the client stick, within the limits that the
\* properties name (oidc/handler.go:139, 460, 543, oidc/service.go:51, 158).
THEOREM ProviderIsFaithful ==
  ASSUME OidcAssumption
  PROVE  Spec => []ProviderFaithful
<1> DEFINE Inv == Base /\ KeyInv /\ Solo /\ Grants
<1>1. Init => Inv
  <2> SUFFICES ASSUME Init
               PROVE  Inv
    OBVIOUS
  <2>1. Base
    BY BaseInit
  <2>2. KeyInv /\ Solo
    BY IdleFits DEF Init, KeyInv, Solo
  <2>3. Narrow
    BY IdleGrants DEF Init, Narrow, Fresh
  <2>4. Grants
    BY <2>3 DEF Init, Grants
  <2> QED
    BY <2>1, <2>2, <2>4
<1>2. Inv /\ [Next]_vars => Inv'
  BY BaseStep, KeyStep, SoloStep, GrantsStep
<1>3. Inv => ProviderFaithful
  <2> SUFFICES ASSUME Inv
               PROVE  ProviderFaithful
    OBVIOUS
  <2>1. TypeOK
    BY DEF Base
  <2>2. ScopesNarrow
    BY DEF Grants, Narrow, ScopesNarrow
  <2>3. OneKey
    BY DEF KeyInv, OneKey
  <2>4. FormAfterLogout /\ ClientChangesStick
    BY DEF Solo, FormAfterLogout, ClientChangesStick, At
  <2> QED
    BY <2>1, <2>2, <2>3, <2>4 DEF ProviderFaithful
<1> QED
  BY <1>1, <1>2, <1>3, PTL DEF Spec

-----------------------------------------------------------------------------
(* Codes are one-time tokens.                                              *)

Reading(q, c) == q.code = c /\ q.pc \in {"mark", "session"}

\* The request that carries a code has read it, and has marked it before it mints.
Reader(q, table) ==
  q.code \in Code =>
    /\ q.pc = "mark" => table[q.code].state # "unissued"
    /\ q.pc = "session" => table[q.code].state = "spent"

OneTime ==
  /\ honoured \in [Code -> Nat]
  /\ \A c \in Code : IsFiniteSet(Exchanging(c))
  /\ \A r \in Req : Reader(req[r], codes)

\* Codes go from unissued to live to spent.
Forward ==
  \A c \in Code : /\ codes[c].state # "unissued" => codes'[c].state # "unissued"
                  /\ codes[c].state = "spent" => codes'[c].state = "spent"

LEMMA OneTimeKept ==
  ASSUME OneTime, NEW r \in Req, Same(r), Forward, honoured' \in [Code -> Nat],
         Reader(req'[r], codes')
  PROVE  OneTime'
<1>1. \A q \in Req : Reader(req'[q], codes')
  BY DEF OneTime, Reader, Forward, Same
<1>2. ASSUME NEW c \in Code
      PROVE  IsFiniteSet(Exchanging(c)')
  <2>1. IsFiniteSet(Exchanging(c) \cup {r})
    BY FS_AddElement DEF OneTime
  <2>2. Exchanging(c)' \subseteq Exchanging(c) \cup {r}
    BY DEF Exchanging, Same
  <2> QED
    BY <2>1, <2>2, FS_Subset
<1> QED
  BY <1>1, <1>2 DEF OneTime

LEMMA SameReaders ==
  ASSUME NEW r \in Req, Same(r), NEW c \in Code, Reading(req[r], c) <=> Reading(req'[r], c)
  PROVE  Exchanging(c)' = Exchanging(c)
  BY DEF Exchanging, Reading, Same

LEMMA OneMoreReader ==
  ASSUME OneTime, NEW r \in Req, Same(r), NEW c \in Code, ~ Reading(req[r], c), Reading(req'[r], c)
  PROVE  Cardinality(Exchanging(c)') = Cardinality(Exchanging(c)) + 1
<1>1. r \notin Exchanging(c) /\ Exchanging(c)' = Exchanging(c) \cup {r}
  BY DEF Exchanging, Reading, Same
<1> QED
  BY <1>1, FS_AddElement DEF OneTime

LEMMA OneReaderLess ==
  ASSUME OneTime, NEW r \in Req, Same(r), NEW c \in Code, Reading(req[r], c), ~ Reading(req'[r], c)
  PROVE  /\ Cardinality(Exchanging(c)') = Cardinality(Exchanging(c)) - 1
         /\ Cardinality(Exchanging(c)) > 0
<1>1. r \in Exchanging(c) /\ Exchanging(c)' = Exchanging(c) \ {r}
  BY DEF Exchanging, Reading, Same
<1>2. IsFiniteSet(Exchanging(c))
  BY DEF OneTime
<1>3. Cardinality(Exchanging(c)') = Cardinality(Exchanging(c)) - 1
  BY <1>1, <1>2, FS_RemoveElement
<1>4. Cardinality(Exchanging(c)) \in Nat /\ Cardinality(Exchanging(c)) # 0
  BY <1>1, <1>2, FS_CardinalityType, FS_EmptySet
<1> QED
  BY <1>3, <1>4

\* A step that neither reads, spends nor honours a code: it changes nothing that
\* OneTimeToken tells apart, unless something fails.
LEMMA NothingRead ==
  ASSUME Base, OneTime, NEW r \in Req, Same(r), UNCHANGED <<codes, honoured>>,
         errors' \in {errors, errors + 1}, Reader(req'[r], codes),
         \A c \in Code : Reading(req[r], c) <=> Reading(req'[r], c)
  PROVE  OneTime' /\ [OTT!Next]_(OTT!vars)
<1>1. OneTime'
  BY OneTimeKept DEF OneTime, Forward
<1>2. \A c \in Code : Exchanging(c)' = Exchanging(c)
  BY SameReaders
<1>3. /\ [c \in Code |-> codes[c].state]' = [c \in Code |-> codes[c].state]
      /\ [c \in Code |-> Cardinality(Exchanging(c))]' = [c \in Code |-> Cardinality(Exchanging(c))]
  BY <1>2
<1>4. CASE errors' = errors
  BY <1>1, <1>3, <1>4 DEF OTT!vars
<1>5. CASE errors' = errors + 1
  <2>1. (errors > 0)' = TRUE
    BY <1>5 DEF Base, TypeOK
  <2> QED
    BY <1>1, <1>3, <2>1 DEF OTT!Next, OTT!SpendFails
<1> QED
  BY <1>4, <1>5

\* Requests without a code, and those that have not read it, are no readers.
LEMMA NotReading ==
  ASSUME OidcAssumption, NEW q, Fits(q), q.pc \notin {"mark", "session"} \/ q.kind # "code"
  PROVE  (\A c \in Code : ~ Reading(q, c)) /\ \A table : Reader(q, table)
  BY DEF Fits, Reading, Reader, OidcAssumption

LEMMA NothingReadBy ==
  ASSUME OidcAssumption, Base, Base', OneTime, NEW r \in Req, Same(r),
         UNCHANGED <<codes, honoured>>, errors' \in {errors, errors + 1},
         req[r].pc \notin {"mark", "session"} \/ req[r].kind # "code",
         req'[r].pc \notin {"mark", "session"} \/ req'[r].kind # "code"
  PROVE  OneTime' /\ [OTT!Next]_(OTT!vars)
<1>1. \A c \in Code : ~ Reading(req[r], c) /\ ~ Reading(req'[r], c)
  BY NotReading DEF Base
<1>2. Reader(req'[r], codes)
  BY NotReading DEF Base
<1> QED
  BY <1>1, <1>2, NothingRead

LEMMA CodeIssued ==
  ASSUME OidcAssumption, Base, Base', OneTime, NEW r \in Req, IssueAuthCode(r)
  PROVE  OneTime' /\ [OTT!Next]_(OTT!vars)
<1>1. Same(r) /\ req[r].pc = "issue" /\ req'[r].pc \in {"browser", "idle"}
  BY IssueAuthCodeBase, IdleFits DEF IssueAuthCode, Went, Ended, At
<1>2. CASE Fail(r, "idle")
  BY <1>1, <1>2, NothingReadBy DEF Fail, history
<1>3. CASE ~ Fail(r, "idle")
  <2>1. PICK c \in Code :
          /\ codes[c].state = "unissued"
          /\ codes' = [codes EXCEPT ![c] = [state |-> "live", scopes |-> req[r].scopes]]
    BY <1>3 DEF IssueAuthCode, Unissued
  <2>2. UNCHANGED <<honoured, errors>>
    BY <1>3 DEF IssueAuthCode
  <2>3. codes'[c].state = "live" /\ \A d \in Code \ {c} : codes'[d] = codes[d]
    BY <2>1 DEF Base, TypeOK
  <2>4. \A d \in Code : ~ Reading(req[r], d) /\ ~ Reading(req'[r], d)
    BY <1>1 DEF Reading
  <2>5. OneTime'
    BY <1>1, <2>1, <2>2, <2>3, OneTimeKept DEF OneTime, Forward, Reader
  <2>6. \A d \in Code : Exchanging(d)' = Exchanging(d)
    BY <1>1, <2>4, SameReaders
  <2>7. [d \in Code |-> codes[d].state]' = [[d \in Code |-> codes[d].state] EXCEPT ![c] = "live"]
    BY <2>3
  <2>8. [d \in Code |-> Cardinality(Exchanging(d))]' = [d \in Code |-> Cardinality(Exchanging(d))]
    BY <2>6
  <2>9. OTT!Issue(c)
    BY <2>1, <2>2, <2>7, <2>8 DEF OTT!Issue
  <2> QED
    BY <2>5, <2>9 DEF OTT!Next
<1> QED
  BY <1>2, <1>3

LEMMA CodeRead ==
  ASSUME OidcAssumption, Base, Base', OneTime, NEW r \in Req, ExchangeCode(r)
  PROVE  OneTime' /\ [OTT!Next]_(OTT!vars)
<1>1. /\ Same(r) /\ req[r].pc = "code" /\ UNCHANGED <<codes, honoured, errors>>
  BY ExchangeCodeBase DEF ExchangeCode, At, Ended, browserAndCodes
<1>2. CASE Ended(r)
  BY <1>1, <1>2, IdleFits, NothingReadBy DEF Ended
<1>3. CASE ~ Ended(r)
  <2>1. PICK c \in Code :
          codes[c].state = "live" /\ req'[r].pc = "mark" /\ req'[r].code = c
    BY <1>3, ExchangeCodeBase
  <2>2. \A d \in Code : ~ Reading(req[r], d) /\ (Reading(req'[r], d) <=> d = c)
    BY <1>1, <2>1 DEF Reading
  <2>3. OneTime'
    BY <1>1, <2>1, OneTimeKept DEF OneTime, Forward, Reader
  <2>4. Cardinality(Exchanging(c)') = Cardinality(Exchanging(c)) + 1
    BY <1>1, <2>1, <2>2, OneMoreReader
  <2>5. \A d \in Code \ {c} : Exchanging(d)' = Exchanging(d)
    BY <1>1, <2>2, SameReaders
  <2>6. [d \in Code |-> Cardinality(Exchanging(d))]' =
          [[d \in Code |-> Cardinality(Exchanging(d))] EXCEPT ![c] = @ + 1]
    BY <2>1, <2>4, <2>5
  <2>7. OTT!Read(c)
    BY <1>1, <2>1, <2>6 DEF OTT!Read
  <2> QED
    BY <2>1, <2>3, <2>7 DEF OTT!Next
<1> QED
  BY <1>2, <1>3

\* A reader whose statement or command has failed goes away without a session.
LEMMA ReaderRefused ==
  ASSUME OidcAssumption, Base, Base', OneTime, NEW r \in Req, Fail(r, "idle"),
         req[r].kind = "code", req[r].pc \in {"mark", "session"}
  PROVE  OneTime' /\ [OTT!Next]_(OTT!vars)
<1>1. PICK c \in Code : c = req[r].code
  BY DEF Base, TypeOK, Fits, Request
<1>2. /\ Same(r) /\ req'[r] = Idle /\ UNCHANGED <<codes, honoured>> /\ errors' = errors + 1
  BY FailBase DEF Fail, history, Ended, Steps
<1>3. (errors > 0)' = TRUE
  BY <1>2 DEF Base, TypeOK
<1>4. \A d \in Code : ~ Reading(req'[r], d) /\ (Reading(req[r], d) <=> d = c)
  BY <1>1, <1>2, IdleFits DEF Reading
<1>5. OneTime'
  BY <1>2, IdleFits, OneTimeKept DEF OneTime, Forward, Reader
<1>6. /\ Cardinality(Exchanging(c)') = Cardinality(Exchanging(c)) - 1
      /\ Cardinality(Exchanging(c)) > 0
  BY <1>1, <1>2, <1>4, OneReaderLess
<1>7. \A d \in Code \ {c} : Exchanging(d)' = Exchanging(d)
  BY <1>2, <1>4, SameReaders
<1>8. [d \in Code |-> Cardinality(Exchanging(d))]' =
        [[d \in Code |-> Cardinality(Exchanging(d))] EXCEPT ![c] = @ - 1]
  BY <1>1, <1>6, <1>7
<1>9. OTT!Refuse(c)
  BY <1>1, <1>2, <1>3, <1>6, <1>8 DEF OTT!Refuse
<1> QED
  BY <1>1, <1>5, <1>9 DEF OTT!Next

LEMMA CodeSpent ==
  ASSUME OidcAssumption, Base, Base', OneTime, NEW r \in Req, MarkAuthCodeUsed(r)
  PROVE  OneTime' /\ [OTT!Next]_(OTT!vars)
<1>1. req[r].pc = "mark" /\ req[r].kind = "code" /\ req[r].code \in Code
  BY DEF MarkAuthCodeUsed, At, Base, TypeOK, Fits, Request
<1>2. CASE Fail(r, "idle")
  BY <1>1, <1>2, ReaderRefused
<1>3. CASE ~ Fail(r, "idle")
  <2>1. PICK c \in Code :
          /\ c = req[r].code /\ codes' = [codes EXCEPT ![c] = [@ EXCEPT !.state = "spent"]]
          /\ Goto(r, "session") /\ UNCHANGED <<honoured, errors>>
    BY <1>1, <1>3 DEF MarkAuthCodeUsed, Marked
  <2>2. Same(r) /\ req'[r].pc = "session" /\ req'[r].code = c
    <3>1. req' = [req EXCEPT ![r] = [@ EXCEPT !.pc = "session"]]
      BY <2>1 DEF Goto
    <3>2. req \in [Req -> Request]
      BY DEF Base, TypeOK
    <3>3. [req[r] EXCEPT !.pc = "session"].code = req[r].code
      BY <3>2 DEF Request
    <3> QED
      BY <2>1, <3>1, <3>2, <3>3 DEF Same, Request
  <2>3. codes'[c].state = "spent" /\ \A d \in Code \ {c} : codes'[d] = codes[d]
    BY <1>1, <2>1 DEF Base, TypeOK
  <2>4. codes[c].state \in {"live", "spent"}
    BY <1>1, <2>1 DEF OneTime, Reader, Base, TypeOK
  <2>5. OneTime'
    BY <2>1, <2>2, <2>3, OneTimeKept DEF OneTime, Forward, Reader
  <2>6. \A d \in Code : Reading(req[r], d) <=> Reading(req'[r], d)
    BY <1>1, <2>1, <2>2 DEF Reading
  <2>7. \A d \in Code : Exchanging(d)' = Exchanging(d)
    BY <2>2, <2>6, SameReaders
  <2>8. [d \in Code |-> Cardinality(Exchanging(d))]' = [d \in Code |-> Cardinality(Exchanging(d))]
    BY <2>7
  <2>9. [d \in Code |-> codes[d].state]' = [[d \in Code |-> codes[d].state] EXCEPT ![c] = "spent"]
    BY <2>3
  <2>10. CASE codes[c].state = "live"
    <3>1. OTT!Spend(c)
      BY <1>1, <2>1, <2>8, <2>9, <2>10 DEF OTT!Spend
    <3> QED
      BY <1>1, <2>5, <3>1 DEF OTT!Next
  <2>11. CASE codes[c].state = "spent"
    <3>1. [d \in Code |-> codes[d].state]' = [d \in Code |-> codes[d].state]
      BY <2>3, <2>11
    <3> QED
      BY <2>1, <2>5, <2>8, <3>1 DEF OTT!vars
  <2> QED
    BY <2>4, <2>10, <2>11
<1> QED
  BY <1>2, <1>3

LEMMA CodeHonoured ==
  ASSUME OidcAssumption, Base, Base', OneTime, NEW r \in Req, CreateSession(r)
  PROVE  OneTime' /\ [OTT!Next]_(OTT!vars)
<1>1. req[r].pc = "session" /\ req[r].kind \in {"code", "refresh", "client"}
  BY CreateSessionBase DEF CreateSession, At
<1>2. CASE Fail(r, "idle")
  <2>1. CASE req[r].kind = "code"
    BY <1>1, <1>2, <2>1, ReaderRefused
  <2>2. CASE req[r].kind # "code"
    <3>1. /\ Same(r) /\ req'[r].pc = "idle" /\ UNCHANGED <<codes, honoured>>
          /\ errors' = errors + 1
      BY <1>2, IdleFits, FailBase DEF Fail, history, Ended, Steps
    <3> QED
      BY <2>2, <3>1, NothingReadBy
  <2> QED
    BY <2>1, <2>2
<1>3. CASE ~ Fail(r, "idle")
  <2>1. /\ honoured' = [d \in Code |-> honoured[d] + (IF d = req[r].code THEN 1 ELSE 0)]
        /\ UNCHANGED <<codes, errors>>
    BY <1>3 DEF CreateSession
  <2>2. Same(r) /\ req'[r].pc \in {"idle", "scopes"}
    BY <1>3, CreateSessionBase, IdleFits DEF Ended
  <2>3. CASE req[r].kind # "code"
    <3>1. req[r].code \notin Code
      BY <2>3 DEF Base, Fits, OidcAssumption
    <3>2. honoured' = honoured
      BY <2>1, <3>1 DEF OneTime
    <3> QED
      BY <2>1, <2>2, <2>3, <3>2, NothingReadBy
  <2>4. CASE req[r].kind = "code"
    <3>1. PICK c \in Code : c = req[r].code
      BY <2>4 DEF Base, TypeOK, Fits, Request
    <3>2. codes[c].state = "spent"
      BY <1>1, <3>1 DEF OneTime, Reader
    <3>3. \A d \in Code : ~ Reading(req'[r], d) /\ (Reading(req[r], d) <=> d = c)
      BY <1>1, <2>2, <3>1 DEF Reading
    <3>4. honoured' = [honoured EXCEPT ![c] = @ + 1] /\ honoured' \in [Code -> Nat]
      <4>1. honoured \in [Code -> Nat]
        BY DEF OneTime
      <4>2. \A d \in Code : honoured[d] + (IF d = c THEN 1 ELSE 0)
                            = IF d = c THEN honoured[c] + 1 ELSE honoured[d]
        BY <4>1
      <4>3. honoured' = [d \in Code |-> IF d = c THEN honoured[c] + 1 ELSE honoured[d]]
        BY <2>1, <3>1, <4>2
      <4>4. honoured' = [honoured EXCEPT ![c] = @ + 1]
        BY <4>1, <4>3
      <4>5. honoured[c] + 1 \in Nat
        BY <4>1
      <4>6. honoured' \in [Code -> Nat]
        BY <4>1, <4>3, <4>5
      <4> QED
        BY <4>4, <4>6
    <3>5. OneTime'
      BY <2>1, <2>2, <3>4, OneTimeKept DEF OneTime, Forward, Reader
    <3>6. /\ Cardinality(Exchanging(c)') = Cardinality(Exchanging(c)) - 1
          /\ Cardinality(Exchanging(c)) > 0
      BY <2>2, <3>1, <3>3, OneReaderLess
    <3>7. \A d \in Code \ {c} : Exchanging(d)' = Exchanging(d)
      BY <2>2, <3>3, SameReaders
    <3>8. [d \in Code |-> Cardinality(Exchanging(d))]' =
            [[d \in Code |-> Cardinality(Exchanging(d))] EXCEPT ![c] = @ - 1]
      BY <3>1, <3>6, <3>7
    <3>9. OTT!Honour(c)
      BY <2>1, <3>1, <3>2, <3>4, <3>6, <3>8 DEF OTT!Honour
    <3> QED
      BY <3>1, <3>5, <3>9 DEF OTT!Next
  <2> QED
    BY <2>3, <2>4
<1> QED
  BY <1>2, <1>3

\* A code that expires is spent; a cookie that does is nothing to the codes.
LEMMA CodeExpires ==
  ASSUME OidcAssumption, Base, OneTime, Expire
  PROVE  OneTime' /\ [OTT!Next]_(OTT!vars)
<1>1. UNCHANGED <<req, honoured, errors>>
  BY DEF Expire
<1>2. \A d \in Code : Exchanging(d)' = Exchanging(d)
  BY <1>1 DEF Exchanging
<1>3. [d \in Code |-> Cardinality(Exchanging(d))]' = [d \in Code |-> Cardinality(Exchanging(d))]
  BY <1>2
<1>4. CASE UNCHANGED codes
  BY <1>1, <1>2, <1>3, <1>4 DEF OneTime, Reader, OTT!vars
<1>5. CASE ~ UNCHANGED codes
  <2>1. PICK c \in Code : /\ codes[c].state = "live"
                          /\ codes' = [codes EXCEPT ![c].state = "spent"]
    BY <1>5 DEF Expire
  <2>2. codes'[c].state = "spent" /\ \A d \in Code \ {c} : codes'[d] = codes[d]
    BY <2>1 DEF Base, TypeOK
  <2>3. OneTime'
    BY <1>1, <1>2, <2>2 DEF OneTime, Reader
  <2>4. [d \in Code |-> codes[d].state]' = [[d \in Code |-> codes[d].state] EXCEPT ![c] = "spent"]
    BY <2>2
  <2>5. OTT!Spend(c)
    BY <1>1, <1>3, <2>1, <2>4 DEF OTT!Spend
  <2> QED
    BY <2>3, <2>5 DEF OTT!Next
<1> QED
  BY <1>4, <1>5

LEMMA OneTimeInit ==
  ASSUME OidcAssumption, Init
  PROVE  OneTime /\ OTT!Init
<1>1. \A c \in Code : Exchanging(c) = {}
  BY IdleFits DEF Init, Exchanging
<1>2. \A c \in Code : IsFiniteSet(Exchanging(c)) /\ Cardinality(Exchanging(c)) = 0
  BY <1>1, FS_EmptySet
<1>3. OneTime
  BY <1>2, IdleFits DEF Init, OneTime, Reader
<1>4. [c \in Code |-> Cardinality(Exchanging(c))] = [c \in Code |-> 0]
  BY <1>2
<1>5. [c \in Code |-> codes[c].state] = [c \in Code |-> "unissued"]
  BY DEF Init, Fresh
<1>6. (errors > 0) = FALSE
  BY DEF Init
<1>7. OTT!Init
  BY <1>4, <1>5, <1>6 DEF Init, OTT!Init
<1> QED
  BY <1>3, <1>7

LEMMA OneTimeStep ==
  ASSUME OidcAssumption, Base, Base', OneTime, [Next]_vars
  PROVE  OneTime' /\ [OTT!Next]_(OTT!vars)
<1>1. CASE UNCHANGED vars
  <2>1. UNCHANGED <<req, codes, honoured, errors>>
    BY <1>1 DEF vars, history
  <2>2. \A c \in Code : Exchanging(c)' = Exchanging(c)
    BY <2>1 DEF Exchanging
  <2> QED
    BY <2>1, <2>2 DEF OneTime, Reader, OTT!vars
<1>2. CASE CreateClient
  <2>1. UNCHANGED <<req, codes, honoured, errors>>
    BY <1>2 DEF CreateClient, browserAndCodes
  <2>2. \A c \in Code : Exchanging(c)' = Exchanging(c)
    BY <2>1 DEF Exchanging
  <2> QED
    BY <2>1, <2>2 DEF OneTime, Reader, OTT!vars
<1>3. ASSUME NEW r \in Req, Began(r), UNCHANGED <<codes, honoured, errors>>,
             req'[r].pc \notin {"mark", "session"} \/ req'[r].kind # "code"
      PROVE  OneTime' /\ [OTT!Next]_(OTT!vars)
  BY <1>3, NothingReadBy DEF Began
<1>4. ASSUME NEW r \in Req, NEW s \in Requestable, Authorize(r, s) \/ AuthorizeSubmit(r, s)
      PROVE  OneTime' /\ [OTT!Next]_(OTT!vars)
  <2>1. Began(r) /\ req'[r].pc = "issue" /\ UNCHANGED <<codes, honoured, errors>>
    BY <1>4, AuthorizeBase DEF Authorize, AuthorizeSubmit, browserAndCodes
  <2> QED
    BY <1>3, <2>1
<1>5. ASSUME NEW r \in Req, NEW c \in Code, HandleAuthCodeGrant(r, c)
      PROVE  OneTime' /\ [OTT!Next]_(OTT!vars)
  <2>1. Began(r) /\ req'[r].pc = "code" /\ UNCHANGED <<codes, honoured, errors>>
    BY <1>5, HandleAuthCodeGrantBase DEF HandleAuthCodeGrant, browserAndCodes
  <2> QED
    BY <1>3, <2>1
<1>6. ASSUME NEW r \in Req, NEW t \in Session, NEW s \in SUBSET Scope,
             HandleRefreshTokenGrant(r, t, s)
      PROVE  OneTime' /\ [OTT!Next]_(OTT!vars)
  <2>1. Began(r) /\ req'[r].pc = "blacklist" /\ UNCHANGED <<codes, honoured, errors>>
    BY <1>6, HandleRefreshTokenGrantBase DEF HandleRefreshTokenGrant, browserAndCodes
  <2> QED
    BY <1>3, <2>1
<1>7. ASSUME NEW r \in Req,
             \/ ClientCredentialsGrant(r) \/ EndSession(r) \/ RotateClientSecret(r)
             \/ UpdateClient(r) \/ DeleteClient(r)
      PROVE  OneTime' /\ [OTT!Next]_(OTT!vars)
  <2>1. Began(r) /\ req'[r].kind # "code"
    BY <1>7, ClientCredentialsGrantBase, EndSessionBase, RotateClientSecretBase,
       UpdateClientBase, DeleteClientBase
  <2>2. UNCHANGED <<codes, honoured, errors>>
    BY <1>7 DEF ClientCredentialsGrant, EndSession, RotateClientSecret, UpdateClient,
       DeleteClient, browserAndCodes
  <2> QED
    BY <1>3, <2>1, <2>2
<1>8. ASSUME NEW r \in Req, NEW s \in Session, Revoke(r, s) \/ UserInfo(r, s)
      PROVE  OneTime' /\ [OTT!Next]_(OTT!vars)
  <2>1. Began(r) /\ req'[r].pc = "idle" /\ UNCHANGED <<codes, honoured, errors>>
    BY <1>8, RevokeBase, UserInfoBase DEF Revoke, UserInfo, browserAndCodes
  <2> QED
    BY <1>3, <2>1
<1>9. ASSUME NEW r \in Req,
             \/ SetOIDCBrowserSession(r) \/ DeleteOIDCBrowserSession(r)
             \/ DeleteAllUserSessions(r) \/ BlacklistAccessToken(r) \/ SaveClient(r)
             \/ SetOIDCGrantedScopes(r)
      PROVE  OneTime' /\ [OTT!Next]_(OTT!vars)
  <2>1. /\ Same(r) /\ req[r].pc \notin {"mark", "session"}
        /\ req'[r].pc \notin {"mark", "session"}
    BY <1>9, SetOIDCBrowserSessionBase, DeleteOIDCBrowserSessionBase, DeleteAllUserSessionsBase,
       BlacklistAccessTokenBase, SaveClientBase, SetOIDCGrantedScopesBase, IdleFits
    DEF SetOIDCBrowserSession, DeleteOIDCBrowserSession, DeleteAllUserSessions,
       BlacklistAccessToken, SaveClient, SetOIDCGrantedScopes, Went, Ended, At
  <2>2. UNCHANGED <<codes, honoured>> /\ errors' \in {errors, errors + 1}
    BY <1>9 DEF SetOIDCBrowserSession, DeleteOIDCBrowserSession, DeleteAllUserSessions,
       BlacklistAccessToken, SaveClient, SetOIDCGrantedScopes, Fail, history, browserAndCodes
  <2> QED
    BY <2>1, <2>2, NothingReadBy
<1>10. ASSUME NEW r \in Req, GetOIDCGrantedScopes(r)
       PROVE  OneTime' /\ [OTT!Next]_(OTT!vars)
  <2>1. /\ Same(r) /\ req[r].pc = "granted" /\ req'[r].kind # "code"
        /\ UNCHANGED <<codes, honoured>> /\ errors' \in {errors, errors + 1}
    BY <1>10, GetOIDCGrantedScopesBase, IdleFits
    DEF GetOIDCGrantedScopes, At, Ended, browserAndCodes
  <2> QED
    BY <2>1, NothingReadBy
<1>11. ASSUME NEW r \in Req, GetRSAKey(r) \/ LockAndReadAgain(r) \/ SaveRSAPrivateKey(r)
       PROVE  OneTime' /\ [OTT!Next]_(OTT!vars)
  <2>1. /\ Same(r) /\ req[r].pc \notin {"mark", "session"}
        /\ req'[r].pc \notin {"mark", "session"}
    BY <1>11, GetRSAKeyBase, LockAndReadAgainBase, SaveRSAPrivateKeyBase, IdleFits
    DEF Went, Ended
  <2>2. UNCHANGED <<codes, honoured, errors>>
    BY <1>11 DEF GetRSAKey, LockAndReadAgain, SaveRSAPrivateKey, Answer, browserAndCodes
  <2> QED
    BY <2>1, <2>2, NothingReadBy
<1> QED
  BY <1>1, <1>2, <1>4, <1>5, <1>6, <1>7, <1>8, <1>9, <1>10, <1>11, CodeIssued, CodeRead,
     CodeSpent, CodeHonoured, CodeExpires, StepsOfNext

\* Authorization codes implement one-time tokens: ExchangeCode reads, MarkAuthCodeUsed
\* spends without asking whether that has happened meanwhile, and the session is minted
\* for those that had read the code before it was spent, and only after it was, for any
\* number of requests and codes (oidc/service.go:296-337).
THEOREM CodesImplementOneTimeTokens ==
  ASSUME OidcAssumption
  PROVE  Spec => CodesAreOneTime
<1> DEFINE Inv == Base /\ OneTime
<1>1. Init => Inv /\ OTT!Init
  BY BaseInit, OneTimeInit
<1>2. Inv /\ [Next]_vars => Inv' /\ [OTT!Next]_(OTT!vars)
  BY BaseStep, OneTimeStep
<1> QED
  BY <1>1, <1>2, PTL DEF Spec, CodesAreOneTime, OTT!Spec

-----------------------------------------------------------------------------
(***************************************************************************)
(* AccessCurrent of AccessCaches, for any roles, permissions, rules and    *)
(* number of requests and failures.                                        *)
(*                                                                         *)
(* PermissionsCurrent is not inductive: Explained says which of the        *)
(* changes under way makes up for a cache that is behind.                  *)
(***************************************************************************)

CacheRequest ==
  [pc : C!Steps, role : Role \cup Rule \cup {None}, new : Role \cup {None}, had : BOOLEAN,
   value : SUBSET (Perm \cup Rule), next : {"idle", "assign"}]

\* What a request has read, at the steps that use it.
Suits(q) ==
  /\ q.pc = "fill" => q.value \subseteq Perm
  /\ q.pc = "keep" => q.value \subseteq Rule
  /\ q.pc = "save" => q.role \in Rule
  /\ q.pc = "delete" => q.role \notin System

CacheSlots == cacheReq \in [Req -> CacheRequest] /\ \A r \in Req : Suits(cacheReq[r])
CacheCounts ==
  served \in 0 .. MaxRequests /\ errors \in 0 .. MaxErrors /\ raced \subseteq {"perms", "rules"}
RoleTables ==
  /\ assigned \subseteq roles /\ System \subseteq roles /\ roles \subseteq Role
  /\ perms \in [Role -> SUBSET Perm] /\ \A x \in Role \ roles : perms[x] = {}
  /\ cache = None \/ cache \subseteq Perm
RuleTables ==
  /\ rows \in [Rule -> {"absent", "on", "off"}]
  /\ ruleCache \in {None} \cup [rules : SUBSET Rule, old : BOOLEAN]

\* A cache that is behind is dropped by a request that is about to, or that is about
\* to find the user among the holders of the role it has changed.
Drops(q) == q.pc = "drop" \/ (q.pc = "list" /\ q.role \in assigned)
Explained ==
  \/ cache = None \/ cache = C!Granted \/ "perms" \in raced \/ errors > 0
  \/ \E r \in Req : Drops(cacheReq[r])

CacheInv ==
  /\ CacheSlots /\ CacheCounts /\ RoleTables /\ RuleTables
  /\ Explained /\ C!RulesCurrent /\ C!OldRoleRestored

-----------------------------------------------------------------------------
(* What a step does to its request, and what it leaves alone.              *)

OthersStay(r) == \A s \in Req \ {r} : cacheReq'[s] = cacheReq[s]

LEMMA CacheConstants ==
  MaxRequests \in Nat /\ MaxErrors \in Nat /\ System \subseteq Role
BY AccessAssumption DEF OidcAssumption, C!AccessCachesAssumption

LEMMA CacheIdle ==
  C!Idle \in CacheRequest /\ Suits(C!Idle) /\ C!Idle.pc = "idle"
BY DEF C!Idle, CacheRequest, C!Steps, Suits

LEMMA CacheHas ==
  ASSUME CacheInv
  PROVE  /\ CacheSlots /\ CacheCounts /\ RoleTables /\ RuleTables
         /\ Explained /\ C!RulesCurrent /\ C!OldRoleRestored
BY Zenon DEF CacheInv

LEMMA CacheSlot ==
  ASSUME CacheInv, NEW r \in Req
  PROVE  cacheReq[r] \in CacheRequest /\ Suits(cacheReq[r])
<1>1. CacheSlots
  BY CacheHas
<1>. HIDE DEF CacheRequest
<1>2. QED
  BY <1>1 DEF CacheSlots

LEMMA CacheGoes ==
  ASSUME CacheInv, NEW r \in Req, NEW q \in CacheRequest, Suits(q),
         cacheReq' = [cacheReq EXCEPT ![r] = q]
  PROVE  CacheSlots' /\ cacheReq'[r] = q /\ OthersStay(r)
<1>1. CacheSlots
  BY CacheHas
<1>. HIDE DEF CacheRequest
<1>2. cacheReq' \in [Req -> CacheRequest] /\ cacheReq'[r] = q /\ OthersStay(r)
  BY <1>1 DEF CacheSlots, OthersStay
<1>3. \A s \in Req : Suits(cacheReq'[s])
  BY <1>1, <1>2 DEF CacheSlots, OthersStay
<1>4. QED
  BY <1>2, <1>3 DEF CacheSlots, Suits

LEMMA CacheBegins ==
  ASSUME CacheInv, NEW r \in Req, NEW first \in CacheRequest, Suits(first),
         C!Begin(r, first)
  PROVE  /\ CacheSlots' /\ cacheReq'[r] = first /\ OthersStay(r)
         /\ cacheReq[r].pc = "idle" /\ served' \in 0 .. MaxRequests /\ errors' = errors
<1>1. /\ cacheReq' = [cacheReq EXCEPT ![r] = first] /\ cacheReq[r].pc = "idle"
      /\ served < MaxRequests /\ served' = served + 1 /\ errors' = errors
  BY DEF C!Begin, C!At
<1>2. served' \in 0 .. MaxRequests
  BY <1>1, CacheHas, CacheConstants DEF CacheCounts
<1>3. QED
  BY <1>1, <1>2, CacheGoes

LEMMA CacheGoto ==
  ASSUME CacheInv, NEW r \in Req,
         NEW step \in C!Steps \ {"fill", "keep", "save", "delete"}, C!Goto(r, step)
  PROVE  CacheSlots' /\ cacheReq'[r].pc = step /\ OthersStay(r) /\ served' = served
<1>. DEFINE q == IF step = "idle" THEN C!Idle ELSE [cacheReq[r] EXCEPT !.pc = step]
<1>1. cacheReq' = [cacheReq EXCEPT ![r] = q] /\ served' = served
  BY DEF C!Goto
<1>2. cacheReq[r] \in CacheRequest
  BY CacheSlot
<1>3. q \in CacheRequest /\ q.pc = step
  BY <1>2, CacheIdle DEF CacheRequest
<1>4. Suits(q)
  BY <1>3 DEF Suits
<1>. HIDE DEF q
<1>5. QED
  BY <1>1, <1>3, <1>4, CacheGoes

LEMMA CacheCounted ==
  ASSUME CacheInv, served' = served, C!Works \/ C!Fails
  PROVE  /\ served' \in 0 .. MaxRequests /\ errors' \in 0 .. MaxErrors
         /\ errors > 0 => errors' > 0
         /\ C!Fails => errors' > 0
BY CacheHas, CacheConstants DEF CacheCounts, C!Works, C!Fails

\* Of a step about roles and permissions.
LEMMA RulesAside ==
  ASSUME CacheInv, NEW r \in Req, cacheReq[r].pc # "forget", OthersStay(r),
         UNCHANGED <<rows, ruleCache>>, "rules" \in raced => "rules" \in raced'
  PROVE  RuleTables' /\ C!RulesCurrent'
<1>1. RuleTables /\ C!RulesCurrent
  BY CacheHas
<1>2. RuleTables'
  BY <1>1 DEF RuleTables
<1>3. (\E s \in Req : C!At(s, "forget")) => (\E s \in Req : C!At(s, "forget"))'
  BY DEF C!At, OthersStay
<1>4. C!On' = C!On
  BY DEF C!On
<1>5. QED
  BY <1>1, <1>2, <1>3, <1>4 DEF C!RulesCurrent, C!Allowed

\* Of a step about IP rules.
LEMMA RolesAside ==
  ASSUME CacheInv, NEW r \in Req, cacheReq[r].pc \notin {"drop", "list"}, OthersStay(r),
         UNCHANGED <<roles, perms, assigned, cache, roleless>>,
         "perms" \in raced => "perms" \in raced', errors > 0 => errors' > 0
  PROVE  RoleTables' /\ Explained' /\ C!OldRoleRestored'
<1>1. RoleTables /\ Explained /\ C!OldRoleRestored
  BY CacheHas
<1>2. RoleTables'
  BY <1>1 DEF RoleTables
<1>3. C!Granted' = C!Granted
  BY DEF C!Granted
<1>4. Explained'
  BY <1>1, <1>3 DEF Explained, Drops, OthersStay
<1>5. QED
  BY <1>1, <1>2, <1>4 DEF C!OldRoleRestored

\* What a change of roles or permissions makes up for.
LEMMA CacheMakesUp ==
  ASSUME CacheInv, NEW r \in Req, cacheReq[r].pc \notin {"drop", "list"}, OthersStay(r),
         errors > 0 => errors' > 0, "perms" \in raced => "perms" \in raced', cache' = cache,
         \/ C!Granted' = C!Granted
         \/ Drops(cacheReq[r])' \/ errors' > 0 \/ "perms" \in raced',
         \A x \in assigned \ assigned' :
           Drops(cacheReq[r])' \/ errors' > 0 \/ "perms" \in raced'
  PROVE  Explained'
<1>1. Explained
  BY CacheHas
<1>2. CASE Drops(cacheReq[r])' \/ errors' > 0 \/ "perms" \in raced'
  BY <1>2 DEF Explained, Drops
<1>3. CASE assigned \subseteq assigned' /\ C!Granted' = C!Granted
  <2>1. (\E s \in Req : Drops(cacheReq[s])) => (\E s \in Req : Drops(cacheReq[s]))'
    BY <1>3 DEF Drops, OthersStay
  <2>2. QED
    BY <1>1, <1>3, <2>1 DEF Explained
<1>4. QED
  BY <1>2, <1>3

-----------------------------------------------------------------------------
(* Permissions.                                                            *)

LEMMA ResolveCaches ==
  ASSUME CacheInv, NEW r \in Req,
         C!ResolveUserAccess(r) \/ C!EvaluateAccess(r) \/ C!DeleteRole(r)
  PROVE  CacheInv'
<1>1. PICK first \in CacheRequest :
        Suits(first) /\ C!Begin(r, first) /\ UNCHANGED <<roles, perms, assigned, cache, rows,
                                                          ruleCache, raced, roleless>>
  <2>1. CASE C!ResolveUserAccess(r)
    <3>. DEFINE q == [C!Idle EXCEPT !.pc = "read"]
    <3>1. q \in CacheRequest /\ Suits(q)
      BY CacheIdle DEF CacheRequest, C!Steps, Suits
    <3>. HIDE DEF q
    <3>2. C!Begin(r, q)
      BY <2>1 DEF C!ResolveUserAccess, q
    <3>3. QED
      BY <2>1, <3>1, <3>2 DEF C!ResolveUserAccess, C!rbac, C!geoip
  <2>2. CASE C!EvaluateAccess(r)
    <3>. DEFINE q == [C!Idle EXCEPT !.pc = "rules"]
    <3>1. q \in CacheRequest /\ Suits(q)
      BY CacheIdle DEF CacheRequest, C!Steps, Suits
    <3>. HIDE DEF q
    <3>2. C!Begin(r, q)
      BY <2>2 DEF C!EvaluateAccess, q
    <3>3. QED
      BY <2>2, <3>1, <3>2 DEF C!EvaluateAccess, C!rbac, C!geoip
  <2>3. CASE C!DeleteRole(r)
    <3>1. PICK x \in C!Deletable :
            /\ C!Begin(r, [C!Idle EXCEPT !.pc = "delete", !.role = x, !.had = x \in assigned])
            /\ UNCHANGED <<roles, perms, assigned, cache, rows, ruleCache, raced, roleless>>
      BY <2>3 DEF C!DeleteRole, C!rbac, C!geoip
    <3>2. x \in Role \ System
      BY CacheHas DEF RoleTables, C!Deletable
    <3>. DEFINE has == x \in assigned
                q == [C!Idle EXCEPT !.pc = "delete", !.role = x, !.had = has]
    <3>3. has \in BOOLEAN
      OBVIOUS
    <3>4. C!Begin(r, q)
      BY <3>1
    <3>. HIDE DEF has
    <3>5. q \in CacheRequest /\ q.pc = "delete" /\ q.role = x
      BY <3>2, <3>3, CacheIdle DEF CacheRequest, C!Steps
    <3>6. Suits(q)
      BY <3>2, <3>5 DEF Suits
    <3>. HIDE DEF q
    <3>7. QED
      BY <3>1, <3>5, <3>6, <3>4
  <2>4. QED
    BY <2>1, <2>2, <2>3
<1>2. /\ CacheSlots' /\ OthersStay(r) /\ cacheReq[r].pc = "idle"
      /\ served' \in 0 .. MaxRequests /\ errors' = errors
  BY <1>1, CacheBegins
<1>3. CacheCounts'
  BY <1>1, <1>2, CacheHas DEF CacheCounts
<1>4. QED
  BY <1>1, <1>2, <1>3, RulesAside, RolesAside DEF CacheInv

LEMMA ReadCaches ==
  ASSUME CacheInv, NEW r \in Req, C!GetUserPermissions(r) \/ C!ListByApp(r)
  PROVE  CacheInv'
<1>1. /\ UNCHANGED <<roles, perms, assigned, cache, rows, ruleCache, raced, roleless>>
      /\ cacheReq[r].pc \in {"read", "rules"}
  BY DEF C!GetUserPermissions, C!ListByApp, C!rbac, C!geoip, C!At
<1>2. C!Granted \subseteq Perm /\ C!On \subseteq Rule
  <2>1. perms \in [Role -> SUBSET Perm] /\ assigned \subseteq Role
    BY CacheHas DEF RoleTables
  <2>2. QED
    BY <2>1 DEF C!Granted, C!On
<1>3. CacheSlots' /\ OthersStay(r) /\ served' = served /\ (C!Works \/ C!Fails)
  <2>1. CASE C!Goto(r, "idle") /\ C!Fails
    BY <2>1, CacheGoto DEF C!Steps
  <2>2. CASE /\ cacheReq' = [cacheReq EXCEPT ![r].pc = "fill", ![r].value = C!Granted]
             /\ C!Works /\ UNCHANGED served
    <3>. DEFINE q == [cacheReq[r] EXCEPT !.pc = "fill", !.value = C!Granted]
    <3>1. cacheReq[r] \in CacheRequest
      BY CacheSlot
    <3>2. q \in CacheRequest /\ q.pc = "fill" /\ q.value = C!Granted
      BY <1>2, <3>1 DEF CacheRequest, C!Steps
    <3>3. Suits(q)
      BY <1>2, <3>2 DEF Suits
    <3>4. cacheReq' = [cacheReq EXCEPT ![r] = q]
      BY <2>2
    <3>. HIDE DEF q
    <3>5. QED
      BY <2>2, <3>2, <3>3, <3>4, CacheGoes
  <2>3. CASE /\ cacheReq' = [cacheReq EXCEPT ![r].pc = "keep", ![r].value = C!On]
             /\ C!Works /\ UNCHANGED served
    <3>. DEFINE q == [cacheReq[r] EXCEPT !.pc = "keep", !.value = C!On]
    <3>1. cacheReq[r] \in CacheRequest
      BY CacheSlot
    <3>2. q \in CacheRequest /\ q.pc = "keep" /\ q.value = C!On
      BY <1>2, <3>1 DEF CacheRequest, C!Steps
    <3>3. Suits(q)
      BY <1>2, <3>2 DEF Suits
    <3>4. cacheReq' = [cacheReq EXCEPT ![r] = q]
      BY <2>3
    <3>. HIDE DEF q
    <3>5. QED
      BY <2>3, <3>2, <3>3, <3>4, CacheGoes
  <2>4. QED
    BY <2>1, <2>2, <2>3 DEF C!GetUserPermissions, C!ListByApp
<1>4. CacheCounts' /\ (errors > 0 => errors' > 0)
  BY <1>1, <1>3, CacheCounted, CacheHas DEF CacheCounts
<1>5. QED
  BY <1>1, <1>3, <1>4, RulesAside, RolesAside DEF CacheInv

LEMMA FillCaches ==
  ASSUME CacheInv, NEW r \in Req, C!SetCache(r)
  PROVE  CacheInv'
<1>1. /\ UNCHANGED <<roles, perms, assigned, rows, ruleCache, roleless>>
      /\ cacheReq[r].pc = "fill" /\ C!Goto(r, "idle") /\ (C!Works \/ C!Fails)
      /\ \/ /\ cache' = cacheReq[r].value
            /\ raced' = IF cacheReq[r].value # C!Granted THEN raced \cup {"perms"}
                        ELSE raced \ {"perms"}
         \/ C!Fails /\ UNCHANGED <<cache, raced>>
  BY DEF C!SetCache, C!geoip, C!At
<1>2. CacheSlots' /\ OthersStay(r) /\ served' = served
  BY <1>1, CacheGoto DEF C!Steps
<1>3. CacheCounts' /\ (C!Fails => errors' > 0) /\ (errors > 0 => errors' > 0)
  BY <1>1, <1>2, CacheCounted, CacheHas DEF CacheCounts
<1>4. RoleTables'
  BY <1>1, CacheSlot, CacheHas DEF RoleTables, Suits
<1>5. Explained'
  <2>1. C!Granted' = C!Granted
    BY <1>1 DEF C!Granted
  <2>2. QED
    BY <1>1, <1>3, <2>1 DEF Explained
<1>6. C!OldRoleRestored'
  BY <1>1, <1>3, CacheHas DEF C!OldRoleRestored
<1>7. QED
  BY <1>1, <1>2, <1>3, <1>4, <1>5, <1>6, RulesAside DEF CacheInv

LEMMA ExpiryCaches ==
  ASSUME CacheInv, C!CacheExpires
  PROVE  CacheInv'
<1>1. /\ UNCHANGED <<roles, perms, assigned, rows, ruleCache, cacheReq, served, errors,
                     roleless>>
      /\ cache' = None /\ raced' = raced \ {"perms"}
  BY DEF C!CacheExpires, C!geoip
<1>2. CacheSlots' /\ CacheCounts' /\ RoleTables' /\ RuleTables' /\ Explained'
  BY <1>1, CacheHas DEF CacheSlots, CacheCounts, RoleTables, RuleTables, Explained
<1>3. C!RulesCurrent' /\ C!OldRoleRestored'
  BY <1>1, CacheHas DEF C!RulesCurrent, C!OldRoleRestored, C!Allowed, C!On, C!At
<1>4. QED
  BY <1>2, <1>3 DEF CacheInv

LEMMA CreateCaches ==
  ASSUME CacheInv, NEW r \in Req, C!CreateRole(r)
  PROVE  CacheInv'
<1>1. PICK x \in Role \ roles :
        /\ C!Begin(r, C!Idle) /\ roles' = roles \cup {x} /\ perms' = [perms EXCEPT ![x] = {}]
        /\ UNCHANGED <<assigned, cache, rows, ruleCache, raced, roleless>>
  BY DEF C!CreateRole, C!geoip
<1>2. /\ CacheSlots' /\ OthersStay(r) /\ cacheReq[r].pc = "idle"
      /\ served' \in 0 .. MaxRequests /\ errors' = errors
  BY <1>1, CacheBegins, CacheIdle
<1>3. CacheCounts'
  BY <1>1, <1>2, CacheHas DEF CacheCounts
<1>4. RoleTables'
  BY <1>1, CacheHas DEF RoleTables
<1>5. C!Granted' = C!Granted
  <2>1. \A y \in assigned : perms'[y] = perms[y]
    BY <1>1, CacheHas DEF RoleTables
  <2>2. QED
    BY <1>1, <2>1 DEF C!Granted
<1>6. Explained'
  BY <1>1, <1>2, <1>5, CacheMakesUp
<1>7. C!OldRoleRestored'
  BY <1>1, <1>2, CacheHas DEF C!OldRoleRestored
<1>8. QED
  BY <1>1, <1>2, <1>3, <1>4, <1>6, <1>7, RulesAside DEF CacheInv

LEMMA PermissionsCaches ==
  ASSUME CacheInv, NEW r \in Req, C!SetRolePermissions(r)
  PROVE  CacheInv'
<1>1. PICK x \in roles, set \in SUBSET Perm :
        /\ C!Begin(r, [C!Idle EXCEPT !.pc = "list", !.role = x])
        /\ perms' = [perms EXCEPT ![x] = set]
        /\ UNCHANGED <<roles, assigned, cache, rows, ruleCache, raced, roleless>>
  BY DEF C!SetRolePermissions, C!geoip
<1>. DEFINE q == [C!Idle EXCEPT !.pc = "list", !.role = x]
<1>2. x \in Role
  BY CacheHas DEF RoleTables
<1>3. q \in CacheRequest /\ q.pc = "list" /\ q.role = x
  BY <1>2, CacheIdle DEF CacheRequest, C!Steps
<1>4. Suits(q)
  BY <1>3 DEF Suits
<1>. HIDE DEF q
<1>5. C!Begin(r, q)
  BY <1>1 DEF q
<1>6. /\ CacheSlots' /\ OthersStay(r) /\ cacheReq[r].pc = "idle" /\ cacheReq'[r] = q
      /\ served' \in 0 .. MaxRequests /\ errors' = errors
  BY <1>3, <1>4, <1>5, CacheBegins
<1>7. CacheCounts'
  BY <1>1, <1>6, CacheHas DEF CacheCounts
<1>8. RoleTables'
  BY <1>1, <1>2, CacheHas DEF RoleTables
<1>9. C!Granted' = C!Granted \/ Drops(cacheReq[r])'
  <2>1. CASE x \in assigned
    BY <1>1, <1>3, <1>6, <2>1 DEF Drops
  <2>2. CASE x \notin assigned
    <3>1. \A y \in assigned : perms'[y] = perms[y]
      BY <1>1, <2>2, CacheHas DEF RoleTables
    <3>2. QED
      BY <1>1, <3>1 DEF C!Granted
  <2>3. QED
    BY <2>1, <2>2
<1>10. Explained'
  BY <1>1, <1>6, <1>9, CacheMakesUp
<1>11. C!OldRoleRestored'
  BY <1>1, <1>6, CacheHas DEF C!OldRoleRestored
<1>12. QED
  BY <1>1, <1>6, <1>7, <1>8, <1>10, <1>11, RulesAside DEF CacheInv

LEMMA ListCaches ==
  ASSUME CacheInv, NEW r \in Req, C!InvalidateCacheForRole(r)
  PROVE  CacheInv'
<1>1. /\ UNCHANGED <<roles, perms, assigned, cache, rows, ruleCache, raced, roleless>>
      /\ cacheReq[r].pc = "list" /\ (C!Works \/ C!Fails)
      /\ \/ /\ C!Goto(r, IF cacheReq[r].role \in assigned THEN "drop" ELSE "idle")
            /\ C!Works
         \/ C!Goto(r, "idle") /\ C!Fails
  BY DEF C!InvalidateCacheForRole, C!rbac, C!geoip, C!At
<1>2. /\ CacheSlots' /\ OthersStay(r) /\ served' = served
      /\ cacheReq[r].role \in assigned => cacheReq'[r].pc = "drop" \/ C!Fails
  <2>1. CASE C!Goto(r, "idle") /\ (C!Fails \/ cacheReq[r].role \notin assigned)
    BY <2>1, CacheGoto DEF C!Steps
  <2>2. CASE C!Goto(r, "drop")
    BY <2>2, CacheGoto DEF C!Steps
  <2>3. QED
    BY <1>1, <2>1, <2>2
<1>3. CacheCounts' /\ (C!Fails => errors' > 0) /\ (errors > 0 => errors' > 0)
  BY <1>1, <1>2, CacheCounted, CacheHas DEF CacheCounts
<1>4. RoleTables' /\ C!OldRoleRestored'
  BY <1>1, <1>3, CacheHas DEF RoleTables, C!OldRoleRestored
<1>5. Explained'
  <2>1. C!Granted' = C!Granted /\ Explained
    BY <1>1, CacheHas DEF C!Granted
  <2>2. CASE Drops(cacheReq[r])
    BY <1>1, <1>2, <1>3, <2>2 DEF Explained, Drops
  <2>3. CASE ~ Drops(cacheReq[r])
    BY <1>1, <1>2, <1>3, <2>1, <2>3 DEF Explained, Drops, OthersStay
  <2>4. QED
    BY <2>2, <2>3
<1>6. QED
  BY <1>1, <1>2, <1>3, <1>4, <1>5, RulesAside DEF CacheInv

LEMMA AssignCaches ==
  ASSUME CacheInv, NEW r \in Req,
         C!AssignRole(r) \/ C!RevokeRole(r) \/ C!UserRoleUpdate(r)
  PROVE  CacheInv'
<1>1. /\ assigned' \subseteq roles
      /\ UNCHANGED <<roles, perms, cache, rows, ruleCache, raced, roleless>>
  BY CacheHas DEF C!AssignRole, C!RevokeRole, C!UserRoleUpdate, C!geoip, RoleTables
<1>2. PICK first \in CacheRequest : Suits(first) /\ first.pc = "drop" /\ C!Begin(r, first)
  <2>1. CASE C!AssignRole(r) \/ C!RevokeRole(r)
    <3>. DEFINE q == [C!Idle EXCEPT !.pc = "drop"]
    <3>1. q \in CacheRequest /\ q.pc = "drop" /\ Suits(q)
      BY CacheIdle DEF CacheRequest, C!Steps, Suits
    <3>2. C!Begin(r, q)
      BY <2>1 DEF C!AssignRole, C!RevokeRole, C!NextAfterChange
    <3>. HIDE DEF q
    <3>3. QED
      BY <3>1, <3>2
  <2>2. CASE C!UserRoleUpdate(r)
    <3>1. PICK x \in assigned, y \in Role :
            C!Begin(r, [C!Idle EXCEPT !.pc = "drop", !.next = "assign", !.role = x, !.new = y])
      BY <2>2 DEF C!UserRoleUpdate
    <3>. DEFINE q == [C!Idle EXCEPT !.pc = "drop", !.next = "assign", !.role = x, !.new = y]
    <3>2. x \in Role
      BY CacheHas DEF RoleTables
    <3>3. q \in CacheRequest /\ q.pc = "drop"
      BY <3>2, CacheIdle DEF CacheRequest, C!Steps
    <3>4. Suits(q)
      BY <3>3 DEF Suits
    <3>. HIDE DEF q
    <3>5. C!Begin(r, q)
      BY <3>1 DEF q
    <3>6. QED
      BY <3>3, <3>4, <3>5
  <2>3. QED
    BY <2>1, <2>2
<1>3. /\ CacheSlots' /\ OthersStay(r) /\ cacheReq[r].pc = "idle" /\ cacheReq'[r].pc = "drop"
      /\ served' \in 0 .. MaxRequests /\ errors' = errors
  BY <1>2, CacheBegins
<1>4. CacheCounts' /\ RoleTables' /\ C!OldRoleRestored'
  BY <1>1, <1>3, CacheHas DEF CacheCounts, RoleTables, C!OldRoleRestored
<1>5. Explained'
  BY <1>3 DEF Explained, Drops
<1>6. QED
  BY <1>1, <1>3, <1>4, <1>5, RulesAside DEF CacheInv

LEMMA NewRoleCaches ==
  ASSUME CacheInv, NEW r \in Req, C!AssignNewRole(r)
  PROVE  CacheInv'
<1>1. /\ UNCHANGED <<roles, perms, cache, rows, ruleCache, raced, roleless>>
      /\ cacheReq[r].pc = "assign" /\ (C!Works \/ C!Fails)
      /\ assigned \subseteq assigned' /\ assigned' \subseteq roles
  BY CacheHas DEF C!AssignNewRole, C!geoip, C!At, RoleTables
<1>2. /\ CacheSlots' /\ OthersStay(r) /\ served' = served
      /\ assigned' = assigned \/ cacheReq'[r].pc = "drop"
  <2>1. CASE C!Goto(r, "restore") /\ assigned' = assigned
    BY <2>1, CacheGoto DEF C!Steps
  <2>2. CASE cacheReq' = [cacheReq EXCEPT ![r] = [C!Idle EXCEPT !.pc = "drop"]]
             /\ served' = served
    <3>. DEFINE q == [C!Idle EXCEPT !.pc = "drop"]
    <3>1. q \in CacheRequest /\ q.pc = "drop" /\ Suits(q)
      BY CacheIdle DEF CacheRequest, C!Steps, Suits
    <3>2. cacheReq' = [cacheReq EXCEPT ![r] = q]
      BY <2>2
    <3>. HIDE DEF q
    <3>3. QED
      BY <2>2, <3>1, <3>2, CacheGoes
  <2>3. QED
    BY <2>1, <2>2 DEF C!AssignNewRole
<1>3. CacheCounts' /\ (errors > 0 => errors' > 0)
  BY <1>1, <1>2, CacheCounted, CacheHas DEF CacheCounts
<1>4. RoleTables' /\ C!OldRoleRestored'
  BY <1>1, <1>3, CacheHas DEF RoleTables, C!OldRoleRestored
<1>5. C!Granted' = C!Granted \/ Drops(cacheReq[r])'
  BY <1>1, <1>2 DEF C!Granted, Drops
<1>6. Explained'
  BY <1>1, <1>2, <1>3, <1>5, CacheMakesUp
<1>7. QED
  BY <1>1, <1>2, <1>3, <1>4, <1>6, RulesAside DEF CacheInv

LEMMA RestoreCaches ==
  ASSUME CacheInv, NEW r \in Req, C!RestoreOldRole(r)
  PROVE  CacheInv'
<1>. DEFINE x == cacheReq[r].role
            q == [C!Idle EXCEPT !.pc = "drop"]
<1>1. /\ UNCHANGED <<roles, perms, cache, rows, ruleCache, served, raced>>
      /\ cacheReq[r].pc = "restore" /\ (C!Works \/ C!Fails)
      /\ cacheReq' = [cacheReq EXCEPT ![r] = q]
      /\ assigned' = C!Restored(x) \/ (C!Fails /\ assigned' = assigned)
      /\ roleless' = roleless \cup ((roles \cap {x}) \ assigned')
  BY DEF C!RestoreOldRole, C!geoip, C!At
<1>2. q \in CacheRequest /\ q.pc = "drop" /\ Suits(q)
  BY CacheIdle DEF CacheRequest, C!Steps, Suits
<1>. HIDE DEF q
<1>3. CacheSlots' /\ OthersStay(r) /\ cacheReq'[r].pc = "drop"
  BY <1>1, <1>2, CacheGoes
<1>4. CacheCounts' /\ (C!Fails => errors' > 0) /\ (errors > 0 => errors' > 0)
  BY <1>1, CacheCounted, CacheHas DEF CacheCounts
<1>5. assigned' \subseteq roles
  BY <1>1, CacheHas DEF C!Restored, RoleTables
<1>6. RoleTables'
  BY <1>1, <1>5, CacheHas DEF RoleTables
<1>7. C!OldRoleRestored'
  <2>1. roleless = {} \/ errors > 0
    BY CacheHas DEF C!OldRoleRestored
  <2>2. assigned' = C!Restored(x) => (roles \cap {x}) \ assigned' = {}
    BY DEF C!Restored
  <2>. HIDE DEF x
  <2>3. roleless' = {} \/ errors' > 0
    BY <1>1, <1>4, <2>1, <2>2
  <2>4. QED
    BY <2>3 DEF C!OldRoleRestored
<1>8. Explained'
  BY <1>3 DEF Explained, Drops
<1>9. QED
  BY <1>1, <1>3, <1>4, <1>6, <1>7, <1>8, RulesAside DEF CacheInv

LEMMA DeleteCaches ==
  ASSUME CacheInv, NEW r \in Req, C!DeleteRoleRow(r)
  PROVE  CacheInv'
<1>. DEFINE x == cacheReq[r].role
<1>1. /\ UNCHANGED <<cache, rows, ruleCache, roleless>>
      /\ cacheReq[r].pc = "delete" /\ (C!Works \/ C!Fails)
      /\ \/ /\ x \in roles /\ roles' = roles \ {x}
            /\ assigned' = assigned \ {x} /\ perms' = [perms EXCEPT ![x] = {}]
            /\ raced' = raced \cup (IF x \in assigned /\ ~ cacheReq[r].had THEN {"perms"}
                                    ELSE {})
            /\ C!Goto(r, IF cacheReq[r].had THEN "drop" ELSE "idle")
         \/ C!Goto(r, "idle") /\ UNCHANGED <<roles, assigned, perms, raced>>
  BY DEF C!DeleteRoleRow, C!geoip, C!At
<1>2. x \notin System
  BY <1>1, CacheSlot DEF Suits
<1>3. CASE C!Goto(r, "idle") /\ UNCHANGED <<roles, assigned, perms, raced>>
  <2>1. CacheSlots' /\ OthersStay(r) /\ served' = served
    BY <1>3, CacheGoto DEF C!Steps
  <2>2. CacheCounts' /\ (errors > 0 => errors' > 0)
    BY <1>1, <1>3, <2>1, CacheCounted, CacheHas DEF CacheCounts
  <2>3. QED
    BY <1>1, <1>3, <2>1, <2>2, RulesAside, RolesAside DEF CacheInv
<1>4. CASE /\ x \in roles /\ roles' = roles \ {x}
           /\ assigned' = assigned \ {x} /\ perms' = [perms EXCEPT ![x] = {}]
           /\ raced' = raced \cup (IF x \in assigned /\ ~ cacheReq[r].had THEN {"perms"}
                                   ELSE {})
           /\ C!Goto(r, IF cacheReq[r].had THEN "drop" ELSE "idle")
  <2>1. /\ CacheSlots' /\ OthersStay(r) /\ served' = served
        /\ cacheReq[r].had => cacheReq'[r].pc = "drop"
    <3>1. CASE C!Goto(r, "drop")
      BY <3>1, CacheGoto DEF C!Steps
    <3>2. CASE C!Goto(r, "idle") /\ ~ cacheReq[r].had
      BY <3>2, CacheGoto DEF C!Steps
    <3>3. QED
      BY <1>4, <3>1, <3>2
  <2>2. CacheCounts' /\ (errors > 0 => errors' > 0)
    <3>1. raced' \subseteq {"perms", "rules"}
      BY <1>4, CacheHas DEF CacheCounts
    <3>2. QED
      BY <1>1, <2>1, <3>1, CacheCounted DEF CacheCounts
  <2>3. RoleTables'
    <3>1. RoleTables
      BY CacheHas
    <3>2. perms' \in [Role -> SUBSET Perm] /\ \A y \in Role \ roles' : perms'[y] = {}
      BY <1>4, <3>1 DEF RoleTables
    <3>3. QED
      BY <1>1, <1>2, <1>4, <3>1, <3>2 DEF RoleTables
  <2>4. x \in assigned => Drops(cacheReq[r])' \/ "perms" \in raced'
    BY <1>4, <2>1 DEF Drops
  <2>5. C!Granted' = C!Granted \/ x \in assigned
    <3>1. CASE x \notin assigned
      <4>1. \A y \in assigned : perms'[y] = perms[y]
        BY <1>4, <3>1, CacheHas DEF RoleTables
      <4>2. assigned' = assigned
        BY <1>4, <3>1
      <4>3. QED
        BY <4>1, <4>2 DEF C!Granted
    <3>2. QED
      BY <3>1
  <2>6. "perms" \in raced => "perms" \in raced'
    BY <1>4
  <2>7. \A y \in assigned \ assigned' : y = x
    BY <1>4
  <2>. HIDE DEF x
  <2>8. Explained'
    BY <1>1, <2>1, <2>2, <2>4, <2>5, <2>6, <2>7, CacheMakesUp
  <2>9. C!OldRoleRestored' /\ ("rules" \in raced => "rules" \in raced')
    BY <1>1, <1>4, <2>2, CacheHas DEF C!OldRoleRestored
  <2>10. QED
    BY <1>1, <2>1, <2>2, <2>3, <2>8, <2>9, RulesAside DEF CacheInv
<1>5. QED
  BY <1>1, <1>3, <1>4

LEMMA DropCaches ==
  ASSUME CacheInv, NEW r \in Req, C!InvalidateCache(r)
  PROVE  CacheInv'
<1>1. /\ UNCHANGED <<roles, perms, assigned, rows, ruleCache, roleless>>
      /\ cacheReq[r].pc = "drop" /\ C!Goto(r, cacheReq[r].next) /\ (C!Works \/ C!Fails)
      /\ \/ cache' = None /\ raced' = raced \ {"perms"}
         \/ C!Fails /\ UNCHANGED <<cache, raced>>
  BY DEF C!InvalidateCache, C!geoip, C!At
<1>2. cacheReq[r].next \in {"idle", "assign"}
  BY CacheSlot DEF CacheRequest
<1>3. CacheSlots' /\ OthersStay(r) /\ served' = served
  BY <1>1, <1>2, CacheGoto DEF C!Steps
<1>4. CacheCounts' /\ (C!Fails => errors' > 0) /\ (errors > 0 => errors' > 0)
  BY <1>1, <1>3, CacheCounted, CacheHas DEF CacheCounts
<1>5. RoleTables' /\ C!OldRoleRestored' /\ Explained'
  BY <1>1, <1>4, CacheHas DEF RoleTables, C!OldRoleRestored, Explained
<1>6. QED
  BY <1>1, <1>3, <1>4, <1>5, RulesAside DEF CacheInv

-----------------------------------------------------------------------------
(* IP rules.                                                               *)

LEMMA KeepCaches ==
  ASSUME CacheInv, NEW r \in Req, C!KeepRules(r) \/ C!InvalidateRules(r)
  PROVE  CacheInv'
<1>1. /\ UNCHANGED <<roles, perms, assigned, cache, rows, errors, roleless>>
      /\ cacheReq[r].pc \in {"keep", "forget"} /\ C!Goto(r, "idle")
      /\ "perms" \in raced => "perms" \in raced'
      /\ raced' \subseteq raced \cup {"rules"}
  BY DEF C!KeepRules, C!InvalidateRules, C!rbac, C!At
<1>2. CacheSlots' /\ OthersStay(r) /\ served' = served
  BY <1>1, CacheGoto DEF C!Steps
<1>3. CacheCounts'
  BY <1>1, <1>2, CacheHas DEF CacheCounts
<1>4. RuleTables' /\ C!RulesCurrent'
  <2>1. CASE C!InvalidateRules(r)
    BY <1>1, <2>1, CacheHas DEF C!InvalidateRules, RuleTables, C!RulesCurrent
  <2>2. CASE C!KeepRules(r)
    <3>1. cacheReq[r].value \subseteq Rule
      BY <2>2, CacheSlot DEF C!KeepRules, C!At, Suits
    <3>2. /\ ruleCache' = [rules |-> cacheReq[r].value, old |-> FALSE]
          /\ ruleCache'.rules = cacheReq[r].value
      BY <2>2 DEF C!KeepRules
    <3>3. C!On' = C!On
      BY <1>1 DEF C!On
    <3>4. RuleTables'
      BY <1>1, <3>1, <3>2, CacheHas DEF RuleTables
    <3>5. cacheReq[r].value # C!On => "rules" \in raced'
      BY <2>2 DEF C!KeepRules
    <3>6. C!RulesCurrent'
      BY <3>2, <3>3, <3>5 DEF C!RulesCurrent, C!Allowed
    <3>7. QED
      BY <3>4, <3>6
  <2>3. QED
    BY <2>1, <2>2
<1>5. QED
  BY <1>1, <1>2, <1>3, <1>4, RolesAside DEF CacheInv

LEMMA AgeCaches ==
  ASSUME CacheInv, C!RulesAge
  PROVE  CacheInv'
<1>1. /\ UNCHANGED <<roles, perms, assigned, cache, rows, cacheReq, served, errors, raced,
                     roleless>>
      /\ ruleCache # None /\ ruleCache' = [ruleCache EXCEPT !.old = TRUE]
  BY DEF C!RulesAge, C!rbac, C!history
<1>2. ruleCache \in [rules : SUBSET Rule, old : BOOLEAN]
  BY <1>1, CacheHas DEF RuleTables
<1>3. /\ ruleCache' \in [rules : SUBSET Rule, old : BOOLEAN]
      /\ ruleCache'.rules = ruleCache.rules
  BY <1>1, <1>2
<1>4. CacheSlots' /\ CacheCounts' /\ RoleTables' /\ RuleTables'
  BY <1>1, <1>3, CacheHas DEF CacheSlots, CacheCounts, RoleTables, RuleTables
<1>5. Explained' /\ C!OldRoleRestored'
  BY <1>1, CacheHas DEF Explained, Drops, C!Granted, C!OldRoleRestored
<1>6. C!RulesCurrent'
  BY <1>1, <1>3, CacheHas DEF C!RulesCurrent, C!Allowed, C!On, C!At
<1>7. QED
  BY <1>4, <1>5, <1>6 DEF CacheInv

LEMMA RuleCaches ==
  ASSUME CacheInv, NEW r \in Req, C!IPRuleCreate(r) \/ C!IPRuleDelete(r) \/ C!IPRuleUpdate(r)
  PROVE  CacheInv'
<1>1. UNCHANGED <<roles, perms, assigned, cache, ruleCache, raced, roleless>>
  BY DEF C!IPRuleCreate, C!IPRuleDelete, C!IPRuleUpdate, C!rbac, C!geoip
<1>2. PICK first \in CacheRequest :
        /\ Suits(first) /\ C!Begin(r, first)
        /\ first.pc = "forget" \/ rows' = rows
  <2>1. CASE C!IPRuleCreate(r) \/ C!IPRuleDelete(r)
    <3>. DEFINE q == [C!Idle EXCEPT !.pc = "forget"]
    <3>1. q \in CacheRequest /\ q.pc = "forget" /\ Suits(q)
      BY CacheIdle DEF CacheRequest, C!Steps, Suits
    <3>2. C!Begin(r, q)
      BY <2>1 DEF C!IPRuleCreate, C!IPRuleDelete, C!NextAfterSave
    <3>. HIDE DEF q
    <3>3. QED
      BY <3>1, <3>2
  <2>2. CASE C!IPRuleUpdate(r)
    <3>1. PICK u \in Rule, state \in {"on", "off"} :
            C!Begin(r, [C!Idle EXCEPT !.pc = "save", !.role = u, !.had = state = "on"])
            /\ rows' = rows
      BY <2>2 DEF C!IPRuleUpdate, C!geoip
    <3>. DEFINE q == [C!Idle EXCEPT !.pc = "save", !.role = u, !.had = state = "on"]
    <3>2. q \in CacheRequest /\ q.pc = "save" /\ q.role = u
      BY CacheIdle DEF CacheRequest, C!Steps
    <3>3. Suits(q)
      BY <3>2 DEF Suits
    <3>. HIDE DEF q
    <3>4. C!Begin(r, q)
      BY <3>1 DEF q
    <3>5. QED
      BY <3>1, <3>2, <3>3, <3>4
  <2>3. QED
    BY <2>1, <2>2
<1>3. /\ CacheSlots' /\ OthersStay(r) /\ cacheReq[r].pc = "idle" /\ cacheReq'[r] = first
      /\ served' \in 0 .. MaxRequests /\ errors' = errors
  BY <1>2, CacheBegins
<1>4. CacheCounts'
  BY <1>1, <1>3, CacheHas DEF CacheCounts
<1>5. rows' \in [Rule -> {"absent", "on", "off"}]
  BY CacheHas DEF C!IPRuleCreate, C!IPRuleDelete, C!IPRuleUpdate, C!geoip, RuleTables
<1>6. RuleTables'
  BY <1>1, <1>5, CacheHas DEF RuleTables
<1>7. C!RulesCurrent'
  <2>1. CASE first.pc = "forget"
    BY <1>3, <2>1 DEF C!RulesCurrent, C!At
  <2>2. CASE rows' = rows
    BY <1>1, <1>3, <2>2, RulesAside
  <2>3. QED
    BY <1>2, <2>1, <2>2
<1>8. QED
  BY <1>1, <1>3, <1>4, <1>6, <1>7, RolesAside DEF CacheInv

LEMMA SaveCaches ==
  ASSUME CacheInv, NEW r \in Req, C!SaveIPRule(r)
  PROVE  CacheInv'
<1>1. /\ UNCHANGED <<roles, perms, assigned, cache, ruleCache, raced, roleless>>
      /\ cacheReq[r].pc = "save" /\ (C!Works \/ C!Fails)
      /\ \/ /\ rows' = [rows EXCEPT ![cacheReq[r].role] =
                          IF cacheReq[r].had THEN "on" ELSE "off"]
            /\ C!Goto(r, "forget")
         \/ C!Goto(r, "idle") /\ rows' = rows
  BY DEF C!SaveIPRule, C!rbac, C!At, C!NextAfterSave
<1>2. /\ CacheSlots' /\ OthersStay(r) /\ served' = served
      /\ cacheReq'[r].pc = "forget" \/ rows' = rows
  <2>1. CASE C!Goto(r, "forget")
    BY <2>1, CacheGoto DEF C!Steps
  <2>2. CASE C!Goto(r, "idle") /\ rows' = rows
    BY <2>2, CacheGoto DEF C!Steps
  <2>3. QED
    BY <1>1, <2>1, <2>2
<1>3. CacheCounts' /\ (errors > 0 => errors' > 0)
  BY <1>1, <1>2, CacheCounted, CacheHas DEF CacheCounts
<1>4. RuleTables'
  BY <1>1, CacheHas DEF RuleTables
<1>5. C!RulesCurrent'
  <2>1. CASE cacheReq'[r].pc = "forget"
    BY <2>1 DEF C!RulesCurrent, C!At
  <2>2. CASE rows' = rows
    BY <1>1, <1>2, <2>2, RulesAside
  <2>3. QED
    BY <1>2, <2>1, <2>2
<1>6. QED
  BY <1>1, <1>2, <1>3, <1>4, <1>5, RolesAside DEF CacheInv

-----------------------------------------------------------------------------
(* The steps together.                                                     *)

LEMMA InitCaches ==
  ASSUME C!Init, served = 0, errors = 0
  PROVE  CacheInv
<1>1. /\ roles = Role /\ perms = [x \in Role |-> Perm] /\ assigned = System
      /\ cache = None /\ rows = [u \in Rule |-> "on"] /\ ruleCache = None
      /\ cacheReq = [r \in Req |-> C!Idle] /\ raced = {} /\ roleless = {}
  BY DEF C!Init
<1>2. CacheSlots
  BY <1>1, CacheIdle DEF CacheSlots
<1>3. CacheCounts /\ RoleTables /\ RuleTables
  BY <1>1, CacheConstants DEF CacheCounts, RoleTables, RuleTables
<1>4. Explained /\ C!RulesCurrent /\ C!OldRoleRestored
  BY <1>1 DEF Explained, C!RulesCurrent, C!OldRoleRestored
<1>5. QED
  BY <1>2, <1>3, <1>4 DEF CacheInv

LEMMA NextCaches ==
  ASSUME CacheInv, C!Next
  PROVE  CacheInv'
<1>1. CASE C!CacheExpires \/ C!RulesAge
  BY <1>1, ExpiryCaches, AgeCaches
<1>2. ASSUME NEW r \in Req,
             \/ C!ResolveUserAccess(r) \/ C!GetUserPermissions(r) \/ C!SetCache(r)
             \/ C!RoleCreate(r) \/ C!PostRole(r)
             \/ C!SetRolePermissions(r) \/ C!RolePermissionsUpdate(r)
             \/ C!InvalidateCacheForRole(r)
             \/ C!AssignRole(r) \/ C!UserRoleCreate(r) \/ C!RevokeRole(r)
             \/ C!UserRoleRevoke(r)
             \/ C!UserRoleUpdate(r) \/ C!AssignNewRole(r) \/ C!RestoreOldRole(r)
             \/ C!DeleteRole(r) \/ C!DeleteRoleRow(r) \/ C!InvalidateCache(r)
      PROVE  CacheInv'
  BY <1>2, ResolveCaches, ReadCaches, FillCaches, CreateCaches, PermissionsCaches,
    ListCaches, AssignCaches, NewRoleCaches, RestoreCaches, DeleteCaches, DropCaches,
    Zenon DEF C!RoleCreate, C!PostRole, C!RolePermissionsUpdate, C!UserRoleCreate,
    C!UserRoleRevoke
<1>3. ASSUME NEW r \in Req,
             \/ C!EvaluateAccess(r) \/ C!CheckIPAccess(r) \/ C!IPRuleCheckAccess(r)
             \/ C!ListByApp(r) \/ C!KeepRules(r)
             \/ C!IPRuleCreate(r) \/ C!CreateIPRule(r) \/ C!IPRuleUpdate(r)
             \/ C!SaveIPRule(r) \/ C!IPRuleDelete(r) \/ C!InvalidateRules(r)
      PROVE  CacheInv'
  BY <1>3, ResolveCaches, ReadCaches, KeepCaches, RuleCaches, SaveCaches, Zenon
    DEF C!CheckIPAccess, C!IPRuleCheckAccess, C!CreateIPRule
<1>4. QED
  BY <1>1, <1>2, <1>3, Zenon DEF C!Next

LEMMA StillCaches ==
  ASSUME CacheInv, UNCHANGED <<cacheVars, served, errors>>
  PROVE  CacheInv'
<1>1. UNCHANGED <<roles, perms, assigned, cache, rows, ruleCache, cacheReq, raced, roleless,
                  served, errors>>
  BY DEF cacheVars
<1>2. CacheSlots' /\ CacheCounts' /\ RoleTables' /\ RuleTables'
  BY <1>1, CacheHas DEF CacheSlots, CacheCounts, RoleTables, RuleTables
<1>3. Explained' /\ C!OldRoleRestored' /\ C!RulesCurrent'
  BY <1>1, CacheHas DEF Explained, Drops, C!Granted, C!OldRoleRestored, C!RulesCurrent,
    C!Allowed, C!On, C!At
<1>4. QED
  BY <1>2, <1>3 DEF CacheInv

LEMMA CachesFollow ==
  ASSUME CacheInv
  PROVE  C!AccessCurrent
<1>1. C!TypeOK
  <2>1. \A r \in Req : cacheReq[r].pc \in C!Steps
    BY CacheSlot DEF CacheRequest
  <2>2. ruleCache = None \/ ruleCache.rules \subseteq Rule
    BY CacheHas DEF RuleTables
  <2>3. QED
    BY <2>1, <2>2, CacheHas, Zenon DEF C!TypeOK, CacheCounts, RoleTables, RuleTables
<1>2. C!PermissionsCurrent
  BY CacheHas DEF Explained, Drops, C!PermissionsCurrent, C!Changing
<1>3. QED
  BY <1>1, <1>2, CacheHas DEF C!AccessCurrent

\* The permissions that are cached are those the rows grant and the rules in memory
\* decide as the rows do, but for the changes under way, the races and the failures
\* that the property names, and a change of role that fails leaves the old one
\* (rbac/service.go:77, geoip/ip_rules.go:203, admin/gui_handler.go:4804).  For any
\* roles, permissions, rules, requests and failures.
THEOREM AccessStaysCurrent == AllSpec => []AccessCurrent
<1>. DEFINE Kept == part = "caches" => CacheInv
<1>1. AllInit => Kept
  BY InitCaches DEF AllInit, Init
<1>2. Kept /\ [AllNext]_<<part, vars, cacheVars, watchVars>> => Kept'
  <2>. SUFFICES ASSUME Kept, [AllNext]_<<part, vars, cacheVars, watchVars>>,
                       part' = "caches"
                PROVE  CacheInv'
    OBVIOUS
  <2>1. CASE AccessCaches
    BY <2>1, NextCaches DEF AccessCaches
  <2>2. CASE Oidc \/ Anomaly
    BY <2>2 DEF Oidc, Anomaly
  <2>3. CASE UNCHANGED <<part, vars, cacheVars, watchVars>>
    BY <2>3, StillCaches DEF vars
  <2>4. QED
    BY <2>1, <2>2, <2>3, Zenon DEF AllNext
<1>3. Kept => AccessCurrent
  BY CachesFollow DEF AccessCurrent
<1>4. QED
  BY <1>1, <1>2, <1>3, PTL DEF AllSpec
-----------------------------------------------------------------------------
(***************************************************************************)
(* NoveltyReported of Anomaly, for any users, places, settings, number of  *)
(* requests and failures.                                                  *)
(*                                                                         *)
(* Queued: what was put into the channel is what is stored, then what      *)
(* waits, so that a request compares with a beginning of it.  HasCompared: *)
(* what a request has read is still there when its entry is emitted, and   *)
(* as old, since the clock stands while it is served.                      *)
(***************************************************************************)

Watching(requests) == {r \in Req : requests[r].pc # "idle"}

\* Stored and waiting entries are those that were emitted, in their order.
Queued ==
  /\ logged \in Seq(N!Entry) /\ channel \in Seq(N!Entry) /\ emitted \in Seq(N!Entry)
  /\ Len(emitted) = Len(logged) + Len(channel)
  /\ \A i \in 1 .. Len(logged) : emitted[i] = logged[i]
  /\ \A i \in 1 .. Len(channel) : emitted[Len(logged) + i] = channel[i]

WatchTypes ==
  /\ now \in 0 .. MaxTime /\ served \in 0 .. MaxRequests - 1 /\ errors \in 0 .. MaxErrors
  /\ failures \in [User -> Nat] /\ \A u \in User : failures[u] <= served
  /\ logins \in [Req -> N!Request]
  /\ \A m \in mailing : m.user \in User /\ m.notice \in N!Notices \ {None}
  /\ \A i \in DOMAIN mails : mails[i] \in N!Mail

\* A request emits one entry, a failed login up to three.
Emissions ==
  /\ IsFiniteSet(Watching(logins))
  /\ Len(emitted) + Cardinality(Watching(logins)) <= 3 * served

\* What an entry that is about to be emitted says of those that were.
SaysNew(e) ==
  e.failed = {} /\ "address" \in Checks /\ e.reasons = {}
    => \E j \in 1 .. Len(emitted) : emitted[j].user = e.user /\ emitted[j].address = e.address
SamePlace(e, f) ==
  /\ f.user = e.user /\ f.address = e.address /\ f.agent = e.agent /\ e.user # None
  /\ e.at - f.at <= SessionWindow
Quiet(e) ==
  \A i \in 1 .. e.read :
    SamePlace(e, emitted[i]) /\ e.read - i < Limit => e.notice # "new_device_login"
CountryToo(e) ==
  "country" \in e.reasons /\ "address" \in Checks /\ e.failed = {} => "address" \in e.reasons
Sound(e) ==
  /\ e.read <= Len(emitted) /\ (e.kind \in N!Detected => SaysNew(e)) /\ Quiet(e)
  /\ CountryToo(e)

\* What a request has compared with.
KnownPlaces(e, known) ==
  /\ \A a \in known.addresses : \E j \in N!Logged(e.user) : logged[j].address = a
  /\ \A i \in 1 .. e.read :
       /\ logged[i].user = e.user /\ e.at - logged[i].at <= SessionWindow
       /\ e.read - i < Limit
       => logged[i].address \in known.addresses /\ logged[i].agent \in known.agents
HasCompared(q) ==
  /\ q.pc # "idle" =>
       /\ q.entry \in N!Entry /\ q.entry.user \in User /\ q.entry.at = now
       /\ q.entry.read <= Len(logged)
  /\ q.pc = "patterns" => q.entry.read = 0 /\ q.entry.reasons = {} /\ q.entry.notice = None
  /\ q.pc = "countries" => KnownPlaces(q.entry, q.patterns)
  /\ q.pc = "emit" => Sound(q.entry)

WatchInv ==
  /\ Queued /\ WatchTypes /\ Emissions /\ \A r \in Req : HasCompared(logins[r])
  /\ \A i \in DOMAIN emitted : emitted[i].read < i
  /\ N!NewAddressMarked /\ N!KnownPlaceQuiet /\ N!CountryNeedsAddress

-----------------------------------------------------------------------------
(* What a step does to the log and to its request.                         *)

LEMMA WatchConstants ==
  /\ Checks \subseteq {"address", "agent", "country", "hour"}
  /\ SessionWindow \in Nat /\ MaxRequests - 1 \in Nat /\ MaxTime \in Nat /\ MaxErrors \in Nat
  /\ Limit \in Nat \ {0} /\ BruteForceThreshold \in Nat \ {0} /\ HoursPerTick \in Nat \ {0}
  /\ DOMAIN CountryOf = Address /\ None \notin User /\ None # "new_device_login"
BY AccessAssumption DEF N!AnomalyAssumption

LEMMA WatchHas ==
  ASSUME WatchInv
  PROVE  /\ Queued /\ WatchTypes /\ Emissions /\ \A r \in Req : HasCompared(logins[r])
         /\ \A i \in DOMAIN emitted : emitted[i].read < i
         /\ N!NewAddressMarked /\ N!KnownPlaceQuiet /\ N!CountryNeedsAddress
BY Zenon DEF WatchInv

LEMMA LogTyped ==
  ASSUME Queued
  PROVE  /\ logged \in Seq(N!Entry) /\ channel \in Seq(N!Entry) /\ emitted \in Seq(N!Entry)
         /\ Len(logged) \in Nat /\ Len(channel) \in Nat /\ Len(emitted) \in Nat
         /\ Len(logged) <= Len(emitted)
         /\ DOMAIN logged = 1 .. Len(logged) /\ DOMAIN emitted = 1 .. Len(emitted)
         /\ \A i \in 1 .. Len(logged) : logged[i] \in N!Entry /\ emitted[i] = logged[i]
         /\ \A i \in 1 .. Len(channel) : channel[i] \in N!Entry
         /\ \A i \in 1 .. Len(emitted) : emitted[i] \in N!Entry
<1>. HIDE DEF N!Entry
<1>1. logged \in Seq(N!Entry) /\ channel \in Seq(N!Entry) /\ emitted \in Seq(N!Entry)
  BY DEF Queued
<1>2. /\ Len(logged) \in Nat /\ Len(channel) \in Nat /\ Len(emitted) \in Nat
      /\ DOMAIN logged = 1 .. Len(logged) /\ DOMAIN emitted = 1 .. Len(emitted)
      /\ logged \in [1 .. Len(logged) -> N!Entry] /\ channel \in [1 .. Len(channel) -> N!Entry]
      /\ emitted \in [1 .. Len(emitted) -> N!Entry]
  BY <1>1, LenProperties
<1>3. QED
  BY <1>1, <1>2 DEF Queued

LEMMA EntryTyped ==
  ASSUME NEW e \in N!Entry
  PROVE  /\ e.kind \in N!Kinds /\ e.user \in User \cup {None} /\ e.address \in Address
         /\ e.agent \in Agent /\ e.at \in 0 .. MaxTime /\ e.at \in Nat
         /\ e.reasons \subseteq N!Reasons /\ e.notice \in N!Notices
         /\ e.failed \subseteq {"patterns", "countries"} /\ e.read \in 0 .. 3 * (MaxRequests - 1)
         /\ e.read \in Nat
<1>1. /\ e.kind \in N!Kinds /\ e.user \in User \cup {None} /\ e.address \in Address
      /\ e.agent \in Agent /\ e.at \in 0 .. MaxTime
      /\ e.reasons \subseteq N!Reasons /\ e.notice \in N!Notices
      /\ e.failed \subseteq {"patterns", "countries"} /\ e.read \in 0 .. 3 * (MaxRequests - 1)
  <2>. HIDE DEF N!Kinds, N!Reasons, N!Notices
  <2>1. QED
    BY DEF N!Entry
<1>. DEFINE most == 3 * (MaxRequests - 1)
<1>2. most \in Nat
  BY WatchConstants
<1>. HIDE DEF most
<1>3. \A x \in 0 .. most : x \in Nat
  BY <1>2
<1>4. QED
  BY <1>1, <1>3, WatchConstants DEF most

LEMMA LoginTyped ==
  ASSUME WatchInv, NEW r \in Req
  PROVE  /\ logins[r] \in N!Request /\ HasCompared(logins[r])
         /\ logins[r].pc \in {"idle", "patterns", "countries", "emit"}
         /\ logins[r].patterns \in N!Patterns
         /\ logins[r] = [pc |-> logins[r].pc, entry |-> logins[r].entry,
                         patterns |-> logins[r].patterns]
<1>1. logins \in [Req -> N!Request] /\ HasCompared(logins[r])
  BY WatchHas DEF WatchTypes
<1>2. logins[r] \in N!Request
  <2>. HIDE DEF N!Request
  <2>1. QED
    BY <1>1
<1>. HIDE DEF N!Entry, N!Patterns
<1>3. QED
  BY <1>1, <1>2 DEF N!Request

LEMMA WatchIdle ==
  N!NoReq \in N!Request /\ N!NoReq.pc = "idle" /\ N!NoPatterns \in N!Patterns
<1>1. N!NoPatterns \in N!Patterns
  BY DEF N!NoPatterns, N!Patterns
<1>. HIDE DEF N!NoPatterns, N!Patterns, N!Entry
<1>2. QED
  BY <1>1 DEF N!NoReq, N!Request

\* How many requests are at work.
LEMMA WatchingMoves ==
  ASSUME IsFiniteSet(Watching(logins)), NEW r \in Req,
         \A s \in Req \ {r} : logins'[s] = logins[s]
  PROVE  /\ IsFiniteSet(Watching(logins')) /\ Cardinality(Watching(logins)) \in Nat
         /\ Cardinality(Watching(logins')) \in Nat
         /\ Cardinality(Watching(logins')) <= Cardinality(Watching(logins)) + 1
         /\ logins[r].pc # "idle" =>
              Cardinality(Watching(logins')) <= Cardinality(Watching(logins))
         /\ logins[r].pc # "idle" /\ logins'[r].pc = "idle" =>
              Cardinality(Watching(logins')) = Cardinality(Watching(logins)) - 1
<1>. DEFINE old == Watching(logins)
            new == Watching(logins')
<1>1. IsFiniteSet(old) /\ Cardinality(old) \in Nat
  BY FS_CardinalityType
<1>2. /\ new \subseteq old \cup {r} /\ (logins[r].pc # "idle" => r \in old)
      /\ logins[r].pc # "idle" /\ logins'[r].pc = "idle" => new = old \ {r}
  BY DEF Watching
<1>. HIDE DEF old, new
<1>3. /\ IsFiniteSet(old \cup {r})
      /\ r \notin old => Cardinality(old \cup {r}) = Cardinality(old) + 1
      /\ IsFiniteSet(old \ {r})
      /\ r \in old => Cardinality(old \ {r}) = Cardinality(old) - 1
  BY <1>1, FS_AddElement, FS_RemoveElement
<1>4. IsFiniteSet(new) /\ Cardinality(new) \in Nat
      /\ Cardinality(new) <= Cardinality(old \cup {r})
  BY <1>2, <1>3, FS_Subset, FS_CardinalityType
<1>5. r \in old => old \cup {r} = old
  OBVIOUS
<1>6. Cardinality(new) <= Cardinality(old) + 1
  <2>1. CASE r \in old
    BY <1>1, <1>4, <1>5, <2>1
  <2>2. CASE r \notin old
    BY <1>1, <1>3, <1>4, <2>2
  <2>3. QED
    BY <2>1, <2>2
<1>7. /\ IsFiniteSet(new) /\ Cardinality(old) \in Nat /\ Cardinality(new) \in Nat
      /\ logins[r].pc # "idle" => Cardinality(new) <= Cardinality(old)
      /\ logins[r].pc # "idle" /\ logins'[r].pc = "idle" =>
           Cardinality(new) = Cardinality(old) - 1
  BY <1>1, <1>2, <1>3, <1>4, <1>5
<1>8. QED
  BY <1>6, <1>7 DEF old, new

\* The log and the entries emitted only grow.
Grows ==
  /\ Queued' /\ Len(logged) <= Len(logged') /\ Len(emitted) <= Len(emitted')
  /\ \A i \in 1 .. Len(logged) : logged'[i] = logged[i]
  /\ \A i \in 1 .. Len(emitted) : emitted'[i] = emitted[i]

LEMMA StaysGrown ==
  ASSUME WatchInv, UNCHANGED <<logged, channel, emitted>>
  PROVE  Grows
<1>1. Queued
  BY WatchHas
<1>2. Queued'
  BY <1>1 DEF Queued
<1>3. QED
  BY <1>1, <1>2, LogTyped DEF Grows

\* What a request has compared with stays what it is.
LEMMA ComparedStays ==
  ASSUME WatchInv, Grows, now' = now, NEW q, HasCompared(q)
  PROVE  HasCompared(q)'
<1>0. Queued /\ Queued'
  BY WatchHas DEF Grows
<1>1. /\ Len(logged) \in Nat /\ Len(emitted) \in Nat /\ Len(logged') \in Nat
      /\ Len(emitted') \in Nat
      /\ DOMAIN logged = 1 .. Len(logged) /\ DOMAIN logged' = 1 .. Len(logged')
  BY <1>0, LogTyped
<1>2. CASE q.pc = "idle"
  BY <1>2 DEF HasCompared
<1>3. CASE q.pc # "idle"
  <2>1. /\ q.entry \in N!Entry /\ q.entry.user \in User /\ q.entry.at = now
        /\ q.entry.read <= Len(logged)
        /\ q.pc = "patterns" => q.entry.read = 0 /\ q.entry.reasons = {}
                                /\ q.entry.notice = None
        /\ q.pc = "countries" => KnownPlaces(q.entry, q.patterns)
        /\ q.pc = "emit" => Sound(q.entry)
    BY <1>3, Zenon DEF HasCompared
  <2>2. q.entry.read \in Nat /\ q.entry.read <= Len(logged')
    BY <1>1, <2>1, EntryTyped DEF Grows
  <2>3. KnownPlaces(q.entry, q.patterns) => KnownPlaces(q.entry, q.patterns)'
    <3>. SUFFICES ASSUME KnownPlaces(q.entry, q.patterns)
                  PROVE  KnownPlaces(q.entry, q.patterns)'
      OBVIOUS
    <3>1. \A i \in 1 .. q.entry.read : i \in 1 .. Len(logged) /\ logged'[i] = logged[i]
      BY <1>1, <2>1, <2>2 DEF Grows
    <3>2. \A j \in N!Logged(q.entry.user) :
            j \in N!Logged(q.entry.user)' /\ logged'[j] = logged[j]
      BY <1>1 DEF N!Logged, Grows
    <3>3. \A a \in q.patterns.addresses :
            \E j \in N!Logged(q.entry.user)' : logged'[j].address = a
      BY <3>2 DEF KnownPlaces
    <3>4. \A i \in 1 .. q.entry.read :
            /\ logged'[i].user = q.entry.user
            /\ q.entry.at - logged'[i].at <= SessionWindow
            /\ q.entry.read - i < Limit
            => /\ logged'[i].address \in q.patterns.addresses
               /\ logged'[i].agent \in q.patterns.agents
      BY <3>1 DEF KnownPlaces
    <3>5. QED
      BY <3>3, <3>4 DEF KnownPlaces
  <2>4. Sound(q.entry) => Sound(q.entry)'
    <3>. SUFFICES ASSUME Sound(q.entry) PROVE Sound(q.entry)'
      OBVIOUS
    <3>1. q.entry.read <= Len(emitted) /\ q.entry.read <= Len(emitted')
      BY <1>1, <2>2 DEF Sound, Grows
    <3>2. SaysNew(q.entry) => SaysNew(q.entry)'
      BY <1>1 DEF SaysNew, Grows
    <3>3. \A i \in 1 .. q.entry.read : emitted'[i] = emitted[i]
      BY <1>1, <2>2, <3>1 DEF Grows
    <3>4. Quiet(q.entry)'
      BY <3>3 DEF Sound, Quiet, SamePlace
    <3>5. QED
      BY <3>1, <3>2, <3>4 DEF Sound, CountryToo
  <2>5. QED
    BY <2>1, <2>2, <2>3, <2>4 DEF HasCompared
<1>4. QED
  BY <1>2, <1>3

\* A step of one request.
LEMMA WatchGoes ==
  ASSUME WatchInv, Grows, now' = now, NEW r \in Req, NEW q \in N!Request,
         logins' = [logins EXCEPT ![r] = q], HasCompared(q)'
  PROVE  /\ logins' \in [Req -> N!Request] /\ logins'[r] = q
         /\ \A s \in Req \ {r} : logins'[s] = logins[s]
         /\ (\A s \in Req : HasCompared(logins[s]))'
<1>1. logins \in [Req -> N!Request]
  BY WatchHas DEF WatchTypes
<1>2. /\ logins' \in [Req -> N!Request] /\ logins'[r] = q
      /\ \A s \in Req \ {r} : logins'[s] = logins[s]
  <2>. HIDE DEF N!Request
  <2>1. QED
    BY <1>1
<1>3. ASSUME NEW s \in Req PROVE HasCompared(logins[s])'
  <2>1. PICK x : x = logins'[s]
    OBVIOUS
  <2>2. HasCompared(x)'
    <3>1. CASE s = r
      BY <1>2, <2>1, <3>1
    <3>2. CASE s # r
      <4>1. HasCompared(x)
        BY <1>2, <2>1, <3>2, WatchHas
      <4>2. QED
        BY <4>1, ComparedStays
    <3>3. QED
      BY <3>1, <3>2
  <2>3. QED
    BY <2>1, <2>2 DEF HasCompared
<1>4. QED
  BY <1>2, <1>3

\* Nothing is emitted.
LEMMA SaysNothing ==
  ASSUME WatchInv, emitted' = emitted
  PROVE  /\ (\A i \in DOMAIN emitted : emitted[i].read < i)'
         /\ N!NewAddressMarked' /\ N!KnownPlaceQuiet' /\ N!CountryNeedsAddress'
BY WatchHas DEF N!NewAddressMarked, N!KnownPlaceQuiet, N!CountryNeedsAddress

\* Entries are put at the end of the channel.
LEMMA EmitGrows ==
  ASSUME WatchInv, NEW entries \in Seq(N!Entry), logged' = logged,
         channel' = channel \o entries, emitted' = emitted \o entries
  PROVE  /\ Grows /\ Len(emitted') = Len(emitted) + Len(entries)
         /\ DOMAIN emitted' = 1 .. Len(emitted')
         /\ \A i \in 1 .. Len(emitted') :
              i > Len(emitted) => /\ i - Len(emitted) \in 1 .. Len(entries)
                                  /\ emitted'[i] = entries[i - Len(emitted)]
<1>. HIDE DEF N!Entry
<1>0. Queued
  BY WatchHas
<1>1. /\ Len(logged) \in Nat /\ Len(channel) \in Nat /\ Len(emitted) \in Nat
      /\ Len(entries) \in Nat /\ Len(logged) <= Len(emitted)
  BY <1>0, LogTyped, LenProperties
<1>2. /\ channel' \in Seq(N!Entry) /\ Len(channel') = Len(channel) + Len(entries)
      /\ \A i \in 1 .. Len(channel) + Len(entries) :
           channel'[i] = IF i <= Len(channel) THEN channel[i] ELSE entries[i - Len(channel)]
  BY <1>0, LogTyped, ConcatProperties
<1>3. /\ emitted' \in Seq(N!Entry) /\ Len(emitted') = Len(emitted) + Len(entries)
      /\ \A i \in 1 .. Len(emitted) + Len(entries) :
           emitted'[i] = IF i <= Len(emitted) THEN emitted[i] ELSE entries[i - Len(emitted)]
  BY <1>0, LogTyped, ConcatProperties
<1>4. \A i \in 1 .. Len(emitted) : emitted'[i] = emitted[i]
  BY <1>1, <1>3
<1>5. \A i \in 1 .. Len(channel') : emitted'[Len(logged) + i] = channel'[i]
  <2>. SUFFICES ASSUME NEW i \in 1 .. Len(channel')
                PROVE  emitted'[Len(logged) + i] = channel'[i]
    OBVIOUS
  <2>1. Len(emitted) = Len(logged) + Len(channel)
    BY <1>0 DEF Queued
  <2>2. CASE i <= Len(channel)
    <3>1. i \in 1 .. Len(channel) /\ Len(logged) + i \in 1 .. Len(emitted)
      BY <1>1, <1>2, <2>1, <2>2
    <3>2. channel'[i] = channel[i] /\ emitted'[Len(logged) + i] = emitted[Len(logged) + i]
      BY <1>2, <1>4, <2>2, <3>1
    <3>3. QED
      BY <1>0, <3>1, <3>2 DEF Queued
  <2>3. CASE ~ (i <= Len(channel))
    <3>1. /\ Len(logged) + i \in 1 .. Len(emitted) + Len(entries)
          /\ ~ (Len(logged) + i <= Len(emitted))
          /\ Len(logged) + i - Len(emitted) = i - Len(channel)
      BY <1>1, <1>2, <2>1, <2>3
    <3>2. QED
      BY <1>2, <1>3, <2>3, <3>1
  <2>4. QED
    BY <2>2, <2>3
<1>6. Queued'
  <2>1. Len(emitted) = Len(logged) + Len(channel) /\ logged \in Seq(N!Entry)
    BY <1>0 DEF Queued
  <2>2. Len(emitted') = Len(logged') + Len(channel')
    BY <1>1, <1>2, <1>3, <2>1
  <2>3. \A i \in 1 .. Len(logged') : emitted'[i] = logged'[i]
    <3>1. \A i \in 1 .. Len(logged) : i \in 1 .. Len(emitted) /\ emitted[i] = logged[i]
      BY <1>0, <1>1 DEF Queued
    <3>2. QED
      BY <1>4, <3>1
  <2>4. QED
    BY <1>2, <1>3, <1>5, <2>1, <2>2, <2>3 DEF Queued
<1>7. Grows
  BY <1>1, <1>3, <1>4, <1>6 DEF Grows
<1>8. DOMAIN emitted' = 1 .. Len(emitted')
  BY <1>3, LenProperties
<1>9. QED
  BY <1>1, <1>3, <1>7, <1>8

\* They are sound if what each of them says is.
LEMMA EmitSays ==
  ASSUME WatchInv, NEW entries \in Seq(N!Entry), logged' = logged,
         channel' = channel \o entries, emitted' = emitted \o entries,
         \A k \in 1 .. Len(entries) : Sound(entries[k])
  PROVE  /\ (\A i \in DOMAIN emitted : emitted[i].read < i)'
         /\ N!NewAddressMarked' /\ N!KnownPlaceQuiet' /\ N!CountryNeedsAddress'
<1>. DEFINE n == Len(emitted)
<1>1. /\ n \in Nat /\ Len(emitted') = n + Len(entries) /\ Len(entries) \in Nat
      /\ DOMAIN emitted = 1 .. n /\ DOMAIN emitted' = 1 .. Len(emitted')
      /\ \A i \in 1 .. n : emitted'[i] = emitted[i]
      /\ \A i \in 1 .. Len(emitted') :
           i > n => i - n \in 1 .. Len(entries) /\ emitted'[i] = entries[i - n]
  BY WatchHas, LogTyped, EmitGrows, LenProperties DEF Grows
<1>2. \A i \in 1 .. n : emitted[i] \in N!Entry /\ emitted[i].read \in Nat
  BY WatchHas, LogTyped, EntryTyped
<1>3. \A i \in 1 .. Len(emitted') :
        i > n => Sound(emitted'[i]) /\ emitted'[i].read \in Nat
  <2>1. \A k \in 1 .. Len(entries) : entries[k] \in N!Entry
    BY LenProperties, ElementOfSeq
  <2>2. QED
    BY <1>1, <2>1, EntryTyped
<1>4. \A i \in 1 .. n : i \in 1 .. Len(emitted')
  BY <1>1
<1>5. (\A i \in DOMAIN emitted : emitted[i].read < i)'
  <2>. SUFFICES ASSUME NEW i \in 1 .. Len(emitted') PROVE emitted'[i].read < i
    BY <1>1
  <2>1. CASE i \in 1 .. n
    BY <1>1, <2>1, WatchHas
  <2>2. CASE i > n
    <3>1. Sound(emitted'[i]) /\ emitted'[i].read \in Nat
      BY <1>3, <2>2
    <3>2. emitted'[i].read <= n
      BY <3>1 DEF Sound
    <3>3. i \in Nat /\ n \in Nat
      BY <1>1
    <3>. HIDE DEF n
    <3>4. PICK x \in Nat : x = emitted'[i].read
      BY <3>1
    <3>5. x < i
      BY <2>2, <3>2, <3>3, <3>4
    <3>6. QED
      BY <3>4, <3>5, Zenon
  <2>3. QED
    BY <1>1, <2>1, <2>2
<1>6. N!NewAddressMarked'
  <2>. SUFFICES ASSUME NEW i \in 1 .. Len(emitted'), emitted'[i].kind \in N!Detected,
                       emitted'[i].failed = {}, "address" \in Checks,
                       \A j \in 1 .. i - 1 : emitted'[j].user = emitted'[i].user
                          => emitted'[j].address # emitted'[i].address
                PROVE  emitted'[i].reasons # {}
    BY <1>1 DEF N!NewAddressMarked
  <2>1. CASE i \in 1 .. n
    <3>1. emitted'[i] = emitted[i] /\ \A j \in 1 .. i - 1 : emitted'[j] = emitted[j]
      BY <1>1, <2>1
    <3>2. \A j \in 1 .. i - 1 : emitted[j].user = emitted[i].user
                                  => emitted[j].address # emitted[i].address
      BY <3>1
    <3>3. QED
      BY <1>1, <2>1, <3>1, <3>2, WatchHas DEF N!NewAddressMarked
  <2>2. CASE i > n
    <3>1. SaysNew(emitted'[i])
      BY <1>3, <2>2 DEF Sound
    <3>2. \A j \in 1 .. n : j \in 1 .. i - 1 /\ emitted'[j] = emitted[j]
      BY <1>1, <2>2
    <3>3. QED
      BY <3>1, <3>2 DEF SaysNew
  <2>3. QED
    BY <1>1, <2>1, <2>2
<1>7. N!KnownPlaceQuiet'
  <2>. SUFFICES ASSUME NEW j \in 1 .. Len(emitted'), NEW i \in 1 .. emitted'[j].read,
                       SamePlace(emitted'[j], emitted'[i]), j - i <= Limit
                PROVE  emitted'[j].notice # "new_device_login"
    BY <1>1 DEF N!KnownPlaceQuiet, SamePlace
  <2>1. CASE j \in 1 .. n
    <3>1. i \in 1 .. n /\ i \in 1 .. emitted[j].read
      <4>1. emitted[j].read < j /\ emitted'[j] = emitted[j] /\ emitted[j].read \in Nat
        BY <1>1, <1>2, <2>1, WatchHas
      <4>2. QED
        BY <1>1, <2>1, <4>1
    <3>2. SamePlace(emitted[j], emitted[i])
      BY <1>1, <2>1, <3>1
    <3>3. QED
      <4>1. emitted[j].notice # "new_device_login"
        BY <1>1, <2>1, <3>1, <3>2, WatchHas DEF N!KnownPlaceQuiet, SamePlace
      <4>2. QED
        BY <1>1, <2>1, <4>1
  <2>2. CASE j > n
    <3>1. /\ Quiet(emitted'[j]) /\ emitted'[j].read <= n /\ emitted'[j].read \in Nat
      BY <1>3, <2>2 DEF Sound
    <3>2. i \in 1 .. n /\ emitted'[i] = emitted[i] /\ emitted'[j].read - i < Limit
      BY <1>1, <2>2, <3>1, WatchConstants
    <3>3. QED
      BY <3>1, <3>2 DEF Quiet
  <2>3. QED
    BY <1>1, <2>1, <2>2
<1>8. N!CountryNeedsAddress'
  <2>. SUFFICES ASSUME NEW i \in 1 .. Len(emitted'), "country" \in emitted'[i].reasons,
                       "address" \in Checks, emitted'[i].failed = {}
                PROVE  "address" \in emitted'[i].reasons
    BY <1>1 DEF N!CountryNeedsAddress
  <2>1. CASE i \in 1 .. n
    BY <1>1, <2>1, WatchHas DEF N!CountryNeedsAddress
  <2>2. CASE i > n
    BY <1>3, <2>2 DEF Sound, CountryToo
  <2>3. QED
    BY <1>1, <2>1, <2>2
<1>9. QED
  BY <1>5, <1>6, <1>7, <1>8

LEMMA NewEntryTyped ==
  ASSUME WatchInv, NEW kind \in N!Kinds, NEW u \in User \cup {None}, NEW a \in Address,
         NEW g \in Agent
  PROVE  LET e == N!NewEntry(kind, u, a, g) IN
         /\ e \in N!Entry /\ e.kind = kind /\ e.user = u /\ e.address = a /\ e.agent = g
         /\ e.at = now /\ e.reasons = {} /\ e.notice = None /\ e.failed = {} /\ e.read = 0
<1>1. now \in 0 .. MaxTime /\ None \in N!Notices
  BY WatchHas DEF WatchTypes, N!Notices
<1>2. 0 \in 0 .. 3 * (MaxRequests - 1)
  <2>. DEFINE most == 3 * (MaxRequests - 1)
  <2>1. most \in Nat
    BY WatchConstants
  <2>. HIDE DEF most
  <2>2. 0 \in 0 .. most
    BY <2>1
  <2>3. QED
    BY <2>2 DEF most
<1>. HIDE DEF N!Kinds, N!Reasons, N!Notices
<1>3. QED
  BY <1>1, <1>2 DEF N!NewEntry, N!Entry

\* Entries that are not compared.
Plain(e) ==
  /\ e \in N!Entry /\ e.kind \notin N!Detected /\ e.read = 0 /\ "country" \notin e.reasons

LEMMA PlainIsSound ==
  ASSUME WatchInv, NEW e, Plain(e)
  PROVE  Sound(e)
BY WatchHas, LogTyped DEF Plain, Sound, Quiet, CountryToo

\* How much has been emitted.
LEMMA EmittedBounded ==
  ASSUME WatchInv
  PROVE  /\ Len(emitted) <= 3 * served /\ Len(logged) \in 0 .. 3 * (MaxRequests - 1)
         /\ served \in Nat /\ errors \in Nat
<1>. DEFINE m == Cardinality(Watching(logins))
<1>1. m \in Nat /\ Len(emitted) + m <= 3 * served
  BY WatchHas, FS_CardinalityType DEF Emissions
<1>2. /\ served \in 0 .. MaxRequests - 1 /\ errors \in 0 .. MaxErrors
      /\ Len(emitted) \in Nat /\ Len(logged) \in Nat /\ Len(logged) <= Len(emitted)
  BY WatchHas, LogTyped DEF WatchTypes
<1>. HIDE DEF m
<1>3. served \in Nat /\ errors \in Nat /\ 3 * served <= 3 * (MaxRequests - 1)
  BY <1>2, WatchConstants
<1>4. QED
  BY <1>1, <1>2, <1>3, WatchConstants

\* A request that goes on.
LEMMA WatchStep ==
  ASSUME WatchInv, NEW r \in Req, NEW q \in N!Request, logins' = [logins EXCEPT ![r] = q],
         HasCompared(q), logins[r].pc # "idle", errors' \in 0 .. MaxErrors,
         UNCHANGED <<now, logged, channel, failures, mailing, served, emitted, mails>>
  PROVE  WatchInv'
<1>1. Grows
  BY StaysGrown
<1>2. HasCompared(q)'
  BY <1>1, ComparedStays
<1>3. /\ logins' \in [Req -> N!Request] /\ \A s \in Req \ {r} : logins'[s] = logins[s]
      /\ (\A s \in Req : HasCompared(logins[s]))'
  BY <1>1, <1>2, WatchGoes
<1>4. Queued'
  BY <1>1 DEF Grows
<1>5. WatchTypes'
  BY <1>3, WatchHas DEF WatchTypes
<1>6. Emissions'
  <2>. DEFINE m == Cardinality(Watching(logins))
              k == Cardinality(Watching(logins'))
  <2>1. IsFiniteSet(Watching(logins)) /\ Len(emitted) + m <= 3 * served
    BY WatchHas DEF Emissions
  <2>2. IsFiniteSet(Watching(logins')) /\ m \in Nat /\ k \in Nat /\ k <= m
    BY <1>3, <2>1, WatchingMoves
  <2>3. Len(emitted) \in Nat /\ served \in Nat
    BY WatchHas, LogTyped, EmittedBounded
  <2>. HIDE DEF m, k
  <2>4. Len(emitted') + k <= 3 * served'
    BY <2>1, <2>2, <2>3
  <2>5. QED
    BY <2>2, <2>4 DEF k, Emissions, Watching
<1>7. QED
  BY <1>3, <1>4, <1>5, <1>6, SaysNothing DEF WatchInv

LEMMA BeginWatch ==
  ASSUME WatchInv, NEW r \in Req, NEW kind \in N!Detected, NEW u \in User, NEW a \in Address,
         NEW g \in Agent, N!Begin(r, kind, u, a, g),
         failures' = [failures EXCEPT ![u] = 0] \/ failures' = failures
  PROVE  WatchInv'
<1>. DEFINE e == N!NewEntry(kind, u, a, g)
            q == [N!NoReq EXCEPT !.pc = "patterns", !.entry = e]
<1>1. /\ logins[r].pc = "idle" /\ served < MaxRequests - 1 /\ served' = served + 1
      /\ logins' = [logins EXCEPT ![r] = q]
      /\ UNCHANGED <<now, logged, channel, mailing, errors, emitted, mails>>
  BY DEF N!Begin, N!At
<1>2. /\ e \in N!Entry /\ e.user \in User /\ e.at = now /\ e.read = 0 /\ e.reasons = {}
      /\ e.notice = None
  BY NewEntryTyped DEF N!Detected, N!Kinds
<1>. HIDE DEF e
<1>3. q \in N!Request /\ q.pc = "patterns" /\ q.entry = e
  <2>. HIDE DEF N!Entry, N!Patterns, N!NoPatterns
  <2>1. QED
    BY <1>2, WatchIdle DEF N!NoReq, N!Request
<1>. HIDE DEF q
<1>4. Grows
  BY <1>1, StaysGrown
<1>5. HasCompared(q)
  BY <1>2, <1>3, WatchHas, LogTyped DEF HasCompared
<1>6. PICK x \in N!Request : x = q
  BY <1>3
<1>7. HasCompared(x)'
  <2>1. HasCompared(x)
    BY <1>5, <1>6
  <2>2. QED
    BY <1>1, <1>4, <2>1, ComparedStays
<1>8. /\ logins' \in [Req -> N!Request] /\ \A s \in Req \ {r} : logins'[s] = logins[s]
      /\ (\A s \in Req : HasCompared(logins[s]))'
  BY <1>1, <1>4, <1>6, <1>7, WatchGoes
<1>9. Queued'
  BY <1>4 DEF Grows
<1>10. WatchTypes'
  <2>1. served' \in 0 .. MaxRequests - 1
    BY <1>1, EmittedBounded, WatchConstants
  <2>2. failures' \in [User -> Nat] /\ \A v \in User : failures'[v] <= served'
    <3>1. failures \in [User -> Nat] /\ \A v \in User : failures[v] <= served
      BY WatchHas DEF WatchTypes
    <3>2. 0 \in Nat /\ served \in Nat /\ served <= served' /\ 0 <= served'
      <4>1. served \in Nat /\ served' = served + 1
        BY <1>1, EmittedBounded
      <4>2. QED
        BY <4>1
    <3>3. \A n \in Nat : n <= served => n <= served'
      BY <1>1, <3>2
    <3>4. failures' \in [User -> Nat] /\ \A v \in User : failures'[v] \in {failures[v], 0}
      BY <1>1, <3>1
    <3>5. QED
      BY <3>1, <3>2, <3>3, <3>4
  <2>3. QED
    BY <1>1, <1>8, <2>1, <2>2, WatchHas DEF WatchTypes
<1>11. Emissions'
  <2>. DEFINE m == Cardinality(Watching(logins))
              k == Cardinality(Watching(logins'))
  <2>1. IsFiniteSet(Watching(logins)) /\ Len(emitted) + m <= 3 * served
    BY WatchHas DEF Emissions
  <2>2. IsFiniteSet(Watching(logins')) /\ m \in Nat /\ k \in Nat /\ k <= m + 1
    BY <1>8, <2>1, WatchingMoves
  <2>3. Len(emitted) \in Nat /\ served \in Nat
    BY WatchHas, LogTyped, EmittedBounded
  <2>. HIDE DEF m, k
  <2>4. Len(emitted') + k <= 3 * served'
    BY <1>1, <2>1, <2>2, <2>3
  <2>5. QED
    BY <2>2, <2>4 DEF k, Emissions, Watching
<1>12. QED
  BY <1>1, <1>8, <1>9, <1>10, <1>11, SaysNothing DEF WatchInv

-----------------------------------------------------------------------------
(* What a request reads.                                                   *)

LEMMA RecentEnough ==
  ASSUME WatchInv, NEW u, NEW i \in 1 .. Len(logged), logged[i].user = u,
         now - logged[i].at <= SessionWindow, Len(logged) - i < Limit
  PROVE  i \in N!Recent(u)
<1>1. /\ Len(logged) \in Nat /\ DOMAIN logged = 1 .. Len(logged) /\ logged[i] \in N!Entry
  BY WatchHas, LogTyped
<1>2. logged[i].at \in Nat /\ now \in 0 .. MaxTime
  BY <1>1, EntryTyped, WatchHas DEF WatchTypes
<1>3. i \in N!Logged(u)
  BY <1>1, <1>2, WatchConstants DEF N!Logged
<1>. DEFINE later == {j \in N!Logged(u) : j > i}
            between == (i + 1) .. Len(logged)
<1>4. later \subseteq between
  BY <1>1 DEF N!Logged
<1>5. IsFiniteSet(between) /\ Cardinality(between) = IF i + 1 > Len(logged) THEN 0
                                                     ELSE Len(logged) - (i + 1) + 1
  <2>1. i + 1 \in Int /\ Len(logged) \in Int
    BY <1>1
  <2>2. QED
    BY <2>1, FS_Interval
<1>. HIDE DEF later, between
<1>6. Cardinality(later) \in Nat /\ Cardinality(later) <= Cardinality(between)
  BY <1>4, <1>5, FS_Subset, FS_CardinalityType
<1>7. Cardinality(later) < Limit
  BY <1>1, <1>5, <1>6, WatchConstants
<1>8. N!Cardinality(later) = Cardinality(later)
  BY Zenon DEF N!Cardinality, Cardinality
<1>9. QED
  BY <1>3, <1>7, <1>8 DEF later, N!Recent

LEMMA HourTyped ==
  ASSUME NEW t \in Nat
  PROVE  N!HourOf(t) \in 0 .. 23
<1>. DEFINE h == HoursPerTick * t
<1>1. h \in Int
  BY WatchConstants
<1>. HIDE DEF h
<1>2. h % 24 \in 0 .. 23
  BY <1>1
<1>3. QED
  BY <1>2 DEF h, N!HourOf

LEMMA PatternsTyped ==
  ASSUME WatchInv, NEW u
  PROVE  /\ N!GetUserPatterns(u) \in N!Patterns
         /\ \A a \in N!GetUserPatterns(u).addresses :
              \E j \in N!Logged(u) : logged[j].address = a
         /\ \A i \in N!Recent(u) : /\ logged[i].address \in N!GetUserPatterns(u).addresses
                                   /\ logged[i].agent \in N!GetUserPatterns(u).agents
<1>1. N!Recent(u) \subseteq N!Logged(u) /\ N!Logged(u) \subseteq 1 .. Len(logged)
  BY WatchHas, LogTyped DEF N!Recent, N!Logged
<1>2. \A i \in N!Recent(u) : /\ logged[i].address \in Address /\ logged[i].agent \in Agent
                             /\ N!HourOf(logged[i].at) \in 0 .. 23
  BY <1>1, WatchHas, LogTyped, EntryTyped, HourTyped
<1>3. N!GetUserPatterns(u) = [addresses |-> {logged[i].address : i \in N!Recent(u)},
                              agents |-> {logged[i].agent : i \in N!Recent(u)},
                              hours |-> {N!HourOf(logged[i].at) : i \in N!Recent(u)}]
  BY DEF N!GetUserPatterns
<1>. DEFINE A == {logged[i].address : i \in N!Recent(u)}
            G == {logged[i].agent : i \in N!Recent(u)}
            H == {N!HourOf(logged[i].at) : i \in N!Recent(u)}
<1>4. A \in SUBSET Address /\ G \in SUBSET Agent /\ H \in SUBSET (0 .. 23)
  BY <1>2
<1>5. \A a \in A : \E j \in N!Logged(u) : logged[j].address = a
  BY <1>1
<1>6. \A i \in N!Recent(u) : logged[i].address \in A /\ logged[i].agent \in G
  OBVIOUS
<1>7. N!GetUserPatterns(u) = [addresses |-> A, agents |-> G, hours |-> H]
  BY <1>3
<1>. HIDE DEF A, G, H
<1>8. QED
  BY <1>4, <1>5, <1>6, <1>7 DEF N!Patterns

LEMMA PatternsWatch ==
  ASSUME WatchInv, NEW r \in Req, N!ReadPatterns(r)
  PROVE  WatchInv'
<1>. DEFINE e == logins[r].entry
            first == N!Logged(e.user) = {}
            known == N!GetUserPatterns(e.user)
            new == [e EXCEPT !.read = Len(logged),
                             !.reasons = IF first THEN {"first_access"} ELSE {}]
            q == [pc |-> IF first THEN "emit" ELSE "countries", patterns |-> known,
                  entry |-> new]
<1>1. /\ logins[r].pc = "patterns"
      /\ UNCHANGED <<now, logged, channel, failures, mailing, served, errors, emitted, mails>>
  BY DEF N!ReadPatterns, N!At
<1>2. /\ e \in N!Entry /\ e.user \in User /\ e.at = now /\ e.reasons = {} /\ e.notice = None
  BY <1>1, LoginTyped DEF HasCompared
<1>3. logins' = [logins EXCEPT ![r] = q]
  BY Zenon DEF N!ReadPatterns
<1>4. /\ new \in N!Entry /\ new.user = e.user /\ new.at = e.at /\ new.notice = None
      /\ new.read = Len(logged) /\ new.reasons = IF first THEN {"first_access"} ELSE {}
  <2>1. Len(logged) \in 0 .. 3 * (MaxRequests - 1)
    BY EmittedBounded
  <2>2. (IF first THEN {"first_access"} ELSE {}) \in SUBSET N!Reasons
    BY DEF N!Reasons
  <2>. HIDE DEF first, N!Reasons, N!Kinds, N!Notices
  <2>3. QED
    BY <1>2, <2>1, <2>2 DEF N!Entry
<1>5. known \in N!Patterns
  BY PatternsTyped
<1>6. q \in N!Request
  <2>. HIDE DEF new, known, first, N!Entry, N!Patterns
  <2>1. QED
    BY <1>4, <1>5 DEF N!Request
<1>7. Len(logged) \in Nat /\ Len(logged) <= Len(emitted)
  BY WatchHas, LogTyped
<1>8. HasCompared(q)
  <2>1. CASE first
    <3>1. Sound(new)
      BY <1>4, <1>7, <2>1, WatchConstants DEF Sound, SaysNew, Quiet, CountryToo
    <3>. HIDE DEF new
    <3>2. QED
      BY <1>2, <1>4, <1>7, <2>1, <3>1 DEF HasCompared
  <2>2. CASE ~ first
    <3>1. KnownPlaces(new, known)
      <4>1. \A i \in 1 .. Len(logged) :
              /\ logged[i].user = e.user /\ now - logged[i].at <= SessionWindow
              /\ Len(logged) - i < Limit
              => i \in N!Recent(e.user)
        BY RecentEnough
      <4>. HIDE DEF new
      <4>2. QED
        BY <1>2, <1>4, <4>1, PatternsTyped DEF KnownPlaces
    <3>. HIDE DEF new, known
    <3>2. QED
      BY <1>2, <1>4, <1>7, <2>2, <3>1 DEF HasCompared
  <2>3. QED
    BY <2>1, <2>2
<1>. HIDE DEF q
<1>9. errors' \in 0 .. MaxErrors
  BY <1>1, WatchHas DEF WatchTypes
<1>10. QED
  BY <1>1, <1>3, <1>6, <1>8, <1>9, WatchStep

LEMMA FailedPatternsWatch ==
  ASSUME WatchInv, NEW r \in Req, N!ReadFails(r), logins[r].pc = "patterns"
  PROVE  WatchInv'
<1>. DEFINE e == logins[r].entry
            new == [e EXCEPT !.failed = {"patterns"}]
            q == [pc |-> "emit", patterns |-> N!NoPatterns, entry |-> new]
<1>1. /\ errors < MaxErrors /\ errors' = errors + 1
      /\ UNCHANGED <<now, logged, channel, failures, mailing, served, emitted, mails>>
  BY DEF N!ReadFails
<1>2. /\ e \in N!Entry /\ e.user \in User /\ e.at = now /\ e.read = 0 /\ e.reasons = {}
      /\ e.notice = None
  BY LoginTyped DEF HasCompared
<1>3. logins' = [logins EXCEPT ![r] = q]
  BY DEF N!ReadFails, N!At
<1>4. /\ new \in N!Entry /\ new.user = e.user /\ new.at = e.at /\ new.notice = None
      /\ new.read = 0 /\ new.reasons = {} /\ new.failed = {"patterns"}
  <2>. HIDE DEF N!Reasons, N!Kinds, N!Notices
  <2>1. QED
    BY <1>2 DEF N!Entry
<1>5. q \in N!Request
  <2>. HIDE DEF new, N!Entry, N!Patterns, N!NoPatterns
  <2>1. QED
    BY <1>4, WatchIdle DEF N!Request
<1>6. Len(logged) \in Nat /\ Len(emitted) \in Nat
  BY WatchHas, LogTyped
<1>. HIDE DEF new
<1>7. Sound(new)
  <2>1. new.read <= Len(emitted)
    BY <1>4, <1>6
  <2>2. SaysNew(new)
    BY <1>4 DEF SaysNew
  <2>3. Quiet(new)
    BY <1>4, WatchConstants DEF Quiet
  <2>4. CountryToo(new)
    BY <1>4 DEF CountryToo
  <2>5. QED
    BY <2>1, <2>2, <2>3, <2>4 DEF Sound
<1>8. HasCompared(q)
  BY <1>2, <1>4, <1>6, <1>7 DEF HasCompared
<1>. HIDE DEF q
<1>9. errors' \in 0 .. MaxErrors
  BY <1>1, EmittedBounded, WatchConstants
<1>10. QED
  BY <1>1, <1>3, <1>5, <1>8, <1>9, WatchStep

\* What is new of an entry.
LEMMA NewIsNew ==
  ASSUME NEW e, NEW known, NEW countries
  PROVE  LET reasons == N!NewReasons(e, known, countries) IN
         /\ reasons \subseteq N!Reasons
         /\ "address" \in Checks /\ e.address \notin known.addresses => "address" \in reasons
         /\ "address" \in reasons => e.address \notin known.addresses
         /\ "agent" \in reasons => e.agent \notin known.agents
         /\ "country" \in reasons => CountryOf[e.address] \notin countries
         /\ N!PopulateNotification(reasons) \in N!Notices
         /\ N!PopulateNotification(reasons) = "new_device_login"
              => "address" \in reasons \/ "agent" \in reasons
<1>. DEFINE reasons == N!NewReasons(e, known, countries)
            odd == N!IsUnusualTime(N!HourOf(e.at), known.hours)
<1>1. reasons = (IF e.address \in known.addresses THEN {} ELSE {"address"} \cap Checks)
                \cup (IF e.agent \in known.agents THEN {} ELSE {"agent"} \cap Checks)
                \cup (IF CountryOf[e.address] \in countries THEN {}
                      ELSE {"country"} \cap Checks)
                \cup (IF odd THEN {"hour"} \cap Checks ELSE {})
  BY DEF N!NewReasons
<1>. HIDE DEF odd, reasons
<1>2. /\ reasons \subseteq N!Reasons
      /\ "address" \in Checks /\ e.address \notin known.addresses => "address" \in reasons
      /\ "address" \in reasons => e.address \notin known.addresses
      /\ "agent" \in reasons => e.agent \notin known.agents
      /\ "country" \in reasons => CountryOf[e.address] \notin countries
  BY <1>1 DEF N!Reasons
<1>3. /\ N!PopulateNotification(reasons) \in N!Notices
      /\ N!PopulateNotification(reasons) = "new_device_login"
           => "address" \in reasons \/ "agent" \in reasons
  BY WatchConstants DEF N!PopulateNotification, N!Notices
<1>4. QED
  BY <1>2, <1>3 DEF reasons

LEMMA ComparedWatch ==
  ASSUME WatchInv, NEW r \in Req, NEW countries, NEW failed, N!Compared(r, countries, failed),
         logins[r].pc = "countries",
         \/ failed = {} /\ countries = N!KnownCountries(logins[r].entry.user)
         \/ failed = {"countries"},
         errors' \in 0 .. MaxErrors,
         UNCHANGED <<now, logged, channel, failures, mailing, served, emitted, mails>>
  PROVE  WatchInv'
<1>. DEFINE e == logins[r].entry
            known == logins[r].patterns
            reasons == N!NewReasons(e, known, countries)
            notice == IF e.kind = "login" THEN N!PopulateNotification(reasons) ELSE None
            new == [e EXCEPT !.reasons = reasons, !.failed = failed, !.notice = notice]
            q == [pc |-> "emit", patterns |-> N!NoPatterns, entry |-> new]
<1>1. logins' = [logins EXCEPT ![r] = q]
  BY DEF N!Compared
<1>2. /\ e \in N!Entry /\ e.user \in User /\ e.at = now /\ e.read <= Len(logged)
      /\ KnownPlaces(e, known)
  BY LoginTyped DEF HasCompared
<1>3. /\ reasons \subseteq N!Reasons
      /\ "address" \in Checks /\ e.address \notin known.addresses => "address" \in reasons
      /\ "address" \in reasons => e.address \notin known.addresses
      /\ "agent" \in reasons => e.agent \notin known.agents
      /\ "country" \in reasons => CountryOf[e.address] \notin countries
      /\ notice \in N!Notices
      /\ notice = "new_device_login" => "address" \in reasons \/ "agent" \in reasons
  <2>1. None \in N!Notices
    BY DEF N!Notices
  <2>2. QED
    BY <2>1, NewIsNew, WatchConstants
<1>. HIDE DEF reasons, notice
<1>4. failed \subseteq {"patterns", "countries"}
  OBVIOUS
<1>5. /\ new \in N!Entry /\ new.user = e.user /\ new.at = e.at /\ new.address = e.address
      /\ new.agent = e.agent /\ new.read = e.read /\ new.reasons = reasons
      /\ new.failed = failed /\ new.notice = notice /\ new.kind = e.kind
  <2>. HIDE DEF N!Reasons, N!Kinds, N!Notices
  <2>1. QED
    BY <1>2, <1>3, <1>4 DEF N!Entry
<1>6. q \in N!Request
  <2>. HIDE DEF new, N!Entry, N!Patterns, N!NoPatterns
  <2>1. QED
    BY <1>5, WatchIdle DEF N!Request
<1>7. /\ Len(logged) \in Nat /\ Len(emitted) \in Nat /\ Len(logged) <= Len(emitted)
      /\ e.read \in Nat
      /\ \A i \in 1 .. Len(logged) : emitted[i] = logged[i] /\ i \in 1 .. Len(emitted)
      /\ \A i \in 1 .. e.read : i \in 1 .. Len(logged)
      /\ N!Logged(e.user) \subseteq 1 .. Len(logged)
      /\ \A j \in N!Logged(e.user) : logged[j].user = e.user
  <2>1. /\ Len(logged) \in Nat /\ Len(emitted) \in Nat /\ Len(logged) <= Len(emitted)
        /\ DOMAIN logged = 1 .. Len(logged)
        /\ \A i \in 1 .. Len(logged) : emitted[i] = logged[i]
    BY WatchHas, LogTyped
  <2>2. e.read \in Nat
    BY <1>2, EntryTyped
  <2>3. QED
    BY <1>2, <2>1, <2>2 DEF N!Logged
<1>. HIDE DEF new, e, known
<1>8. e.address \in known.addresses => \E j \in N!Logged(e.user) : logged[j].address = e.address
  BY <1>2 DEF KnownPlaces
<1>9. SaysNew(new)
  BY <1>3, <1>5, <1>7, <1>8 DEF SaysNew
<1>10. Quiet(new)
  <2>. SUFFICES ASSUME NEW i \in 1 .. e.read, SamePlace(new, emitted[i]), e.read - i < Limit
                PROVE  notice # "new_device_login"
    BY <1>5 DEF Quiet
  <2>1. /\ logged[i].user = e.user /\ e.at - logged[i].at <= SessionWindow
        /\ logged[i].address = e.address /\ logged[i].agent = e.agent
    BY <1>5, <1>7 DEF SamePlace
  <2>2. e.address \in known.addresses /\ e.agent \in known.agents
    BY <1>2, <2>1 DEF KnownPlaces
  <2>3. QED
    BY <1>3, <2>2
<1>11. CountryToo(new)
  <2>1. CASE failed = {"countries"}
    BY <1>5, <2>1 DEF CountryToo
  <2>2. CASE countries = N!KnownCountries(e.user)
    <3>1. e.address \in known.addresses => CountryOf[e.address] \in countries
      BY <1>8, <2>2 DEF N!KnownCountries
    <3>2. QED
      BY <1>3, <1>5, <3>1 DEF CountryToo
  <2>3. QED
    BY <2>1, <2>2 DEF e
<1>12. Sound(new)
  BY <1>2, <1>5, <1>7, <1>9, <1>10, <1>11 DEF Sound
<1>13. HasCompared(q)
  BY <1>2, <1>5, <1>12 DEF HasCompared
<1>. HIDE DEF q
<1>14. QED
  BY <1>1, <1>6, <1>13, WatchStep

-----------------------------------------------------------------------------
(* What is emitted, stored and mailed.                                     *)

\* The requests stay.
LEMMA AllStay ==
  ASSUME WatchInv, Grows, now' = now, logins' = logins
  PROVE  (\A s \in Req : HasCompared(logins[s]))'
<1>. SUFFICES ASSUME NEW s \in Req PROVE HasCompared(logins[s])'
  OBVIOUS
<1>1. PICK x : x = logins[s] /\ x = logins'[s]
  OBVIOUS
<1>2. HasCompared(x)
  BY <1>1, WatchHas
<1>3. HasCompared(x)'
  BY <1>2, ComparedStays
<1>4. QED
  BY <1>1, <1>3 DEF HasCompared

LEMMA EmitStep ==
  ASSUME WatchInv, NEW entries \in Seq(N!Entry), NEW u \in User, N!Emit(entries, u),
         \A k \in 1 .. Len(entries) : Sound(entries[k]),
         logins' \in [Req -> N!Request], (\A s \in Req : HasCompared(logins[s]))',
         IsFiniteSet(Watching(logins')),
         Len(emitted) + Len(entries) + Cardinality(Watching(logins')) <= 3 * served',
         served' \in 0 .. MaxRequests - 1,
         failures' \in [User -> Nat], \A v \in User : failures'[v] <= served',
         UNCHANGED <<now, logged, errors, mails>>
  PROVE  WatchInv'
<1>1. channel' = channel \o entries /\ emitted' = emitted \o entries
  BY DEF N!Emit
<1>2. Grows /\ Len(emitted') = Len(emitted) + Len(entries)
  BY <1>1, EmitGrows
<1>3. \A m \in mailing' : m.user \in User /\ m.notice \in N!Notices \ {None}
  <2>1. \A i \in DOMAIN entries : entries[i] \in N!Entry
    <3>. HIDE DEF N!Entry
    <3>1. QED
      BY LenProperties, ElementOfSeq
  <2>2. \A i \in DOMAIN entries : entries[i].notice \in N!Notices
    BY <2>1, EntryTyped
  <2>3. ASSUME NEW m \in mailing' PROVE m.user \in User /\ m.notice \in N!Notices \ {None}
    <3>1. CASE m \in mailing
      BY <3>1, WatchHas DEF WatchTypes
    <3>2. CASE \E i \in {j \in DOMAIN entries : entries[j].notice # None} :
                 m = [user |-> u, notice |-> entries[i].notice, entry |-> i + Len(emitted)]
      <4>. HIDE DEF N!Notices
      <4>1. QED
        BY <2>2, <3>2
    <3>3. QED
      BY <3>1, <3>2 DEF N!Emit
  <2>4. QED
    BY <2>3
<1>4. WatchTypes'
  BY <1>3, WatchHas DEF WatchTypes
<1>5. Emissions'
  BY <1>2 DEF Emissions, Watching
<1>6. QED
  BY <1>1, <1>2, <1>4, <1>5, EmitSays DEF WatchInv, Grows

LEMMA LogWatch ==
  ASSUME WatchInv, NEW r \in Req, N!LogActivity(r)
  PROVE  WatchInv'
<1>. DEFINE e == logins[r].entry
<1>1. /\ logins[r].pc = "emit" /\ logins' = [logins EXCEPT ![r] = N!NoReq]
      /\ UNCHANGED <<now, logged, failures, served, errors, mails>>
      /\ UNCHANGED <<channel, emitted, mailing>> \/ N!Emit(<<e>>, e.user)
  BY DEF N!LogActivity, N!At
<1>2. e \in N!Entry /\ e.user \in User /\ Sound(e)
  BY <1>1, LoginTyped DEF HasCompared
<1>3. HasCompared(N!NoReq) /\ HasCompared(N!NoReq)'
  BY WatchIdle DEF HasCompared
<1>4. CASE UNCHANGED <<channel, emitted, mailing>>
  <2>1. errors' \in 0 .. MaxErrors
    BY <1>1, WatchHas DEF WatchTypes
  <2>2. QED
    BY <1>1, <1>3, <1>4, <2>1, WatchIdle, WatchStep
<1>5. CASE N!Emit(<<e>>, e.user)
  <2>. DEFINE entries == <<e>>
  <2>. HIDE DEF e
  <2>1. entries \in Seq(N!Entry) /\ Len(entries) = 1 /\ \A i \in 1 .. 1 : entries[i] = e
    BY <1>2
  <2>2. channel' = channel \o entries /\ emitted' = emitted \o entries
    BY <1>5 DEF N!Emit
  <2>. HIDE DEF entries
  <2>3. Grows
    BY <1>1, <2>1, <2>2, EmitGrows
  <2>4. /\ logins' \in [Req -> N!Request] /\ logins'[r] = N!NoReq
        /\ \A s \in Req \ {r} : logins'[s] = logins[s]
        /\ (\A s \in Req : HasCompared(logins[s]))'
    BY <1>1, <1>3, <2>3, WatchIdle, WatchGoes
  <2>5. /\ IsFiniteSet(Watching(logins'))
        /\ Len(emitted) + Len(entries) + Cardinality(Watching(logins')) <= 3 * served'
    <3>. DEFINE m == Cardinality(Watching(logins))
                k == Cardinality(Watching(logins'))
    <3>1. IsFiniteSet(Watching(logins)) /\ Len(emitted) + m <= 3 * served
      BY WatchHas DEF Emissions
    <3>2. IsFiniteSet(Watching(logins')) /\ m \in Nat /\ k \in Nat /\ k = m - 1
      BY <1>1, <2>4, <3>1, WatchIdle, WatchingMoves
    <3>3. Len(emitted) \in Nat /\ served \in Nat
      BY WatchHas, LogTyped, EmittedBounded
    <3>. HIDE DEF m, k
    <3>4. Len(emitted) + Len(entries) + k <= 3 * served'
      BY <1>1, <2>1, <3>1, <3>2, <3>3
    <3>5. QED
      BY <3>2, <3>4 DEF k
  <2>6. /\ served' \in 0 .. MaxRequests - 1 /\ failures' \in [User -> Nat]
        /\ \A v \in User : failures'[v] <= served'
    BY <1>1, WatchHas DEF WatchTypes
  <2>7. N!Emit(entries, e.user)
    BY <1>5 DEF entries
  <2>8. \A i \in 1 .. Len(entries) : Sound(entries[i])
    BY <1>2, <2>1
  <2>9. QED
    BY <1>1, <1>2, <2>1, <2>4, <2>5, <2>6, <2>7, <2>8, EmitStep DEF e
<1>6. QED
  BY <1>1, <1>4, <1>5

\* Entries that are not compared, up to three of them.
LEMMA PlainStep ==
  ASSUME WatchInv, NEW entries \in Seq(N!Entry), NEW u \in User, N!Emit(entries, u),
         Len(entries) <= 3, \A k \in 1 .. Len(entries) : Plain(entries[k]),
         served < MaxRequests - 1, served' = served + 1,
         failures' = failures \/ failures' = [failures EXCEPT ![u] = @ + 1],
         UNCHANGED <<now, logged, logins, errors, mails>>
  PROVE  WatchInv'
<1>1. channel' = channel \o entries /\ emitted' = emitted \o entries
  BY DEF N!Emit
<1>2. Grows
  BY <1>1, EmitGrows
<1>3. (\A s \in Req : HasCompared(logins[s]))'
  BY <1>2, AllStay
<1>4. /\ IsFiniteSet(Watching(logins'))
      /\ Len(emitted) + Len(entries) + Cardinality(Watching(logins')) <= 3 * served'
  <2>. DEFINE m == Cardinality(Watching(logins))
  <2>1. IsFiniteSet(Watching(logins)) /\ Len(emitted) + m <= 3 * served
    BY WatchHas DEF Emissions
  <2>2. m \in Nat
    BY <2>1, FS_CardinalityType
  <2>3. Len(emitted) \in Nat /\ served \in Nat /\ Len(entries) \in Nat
    BY WatchHas, LogTyped, EmittedBounded, LenProperties
  <2>. HIDE DEF m
  <2>4. Len(emitted) + Len(entries) + m <= 3 * served'
    BY <2>1, <2>2, <2>3
  <2>5. QED
    BY <2>1, <2>4 DEF m
<1>5. served' \in 0 .. MaxRequests - 1
  BY EmittedBounded, WatchConstants
<1>6. failures' \in [User -> Nat] /\ \A v \in User : failures'[v] <= served'
  <2>1. failures \in [User -> Nat] /\ \A v \in User : failures[v] <= served
    BY WatchHas DEF WatchTypes
  <2>2. served \in Nat /\ \A n \in Nat : n <= served => n <= served' /\ n + 1 <= served'
    BY EmittedBounded
  <2>3. /\ failures' \in [User -> Nat]
        /\ \A v \in User : failures'[v] \in {failures[v], failures[v] + 1}
    BY <2>1
  <2>4. QED
    BY <2>1, <2>2, <2>3
<1>7. logins' \in [Req -> N!Request]
  BY WatchHas DEF WatchTypes
<1>8. \A k \in 1 .. Len(entries) : Sound(entries[k])
  BY PlainIsSound
<1>9. QED
  BY <1>3, <1>4, <1>5, <1>6, <1>7, <1>8, EmitStep

LEMMA NewEntryPlain ==
  ASSUME WatchInv, NEW kind \in {"important", "failed", "brute_force"},
         NEW u \in User \cup {None}, NEW a \in Address, NEW g \in Agent
  PROVE  /\ N!NewEntry(kind, u, a, g) \in N!Entry /\ Plain(N!NewEntry(kind, u, a, g))
<1>. DEFINE e == N!NewEntry(kind, u, a, g)
<1>1. kind \in N!Kinds /\ kind \notin N!Detected
  BY DEF N!Kinds, N!Detected
<1>2. e \in N!Entry /\ e.kind = kind /\ e.reasons = {} /\ e.read = 0
  BY <1>1, NewEntryTyped
<1>. HIDE DEF e
<1>3. Plain(e)
  BY <1>1, <1>2 DEF Plain
<1>4. QED
  BY <1>2, <1>3 DEF e

LEMMA ImportantWatch ==
  ASSUME WatchInv, NEW u \in User, NEW a \in Address, NEW g \in Agent, N!LogImportant(u, a, g)
  PROVE  WatchInv'
<1>. DEFINE e == N!NewEntry("important", u, a, g)
            entries == <<e>>
<1>1. /\ served < MaxRequests - 1 /\ served' = served + 1 /\ N!Emit(entries, u)
      /\ UNCHANGED <<now, logged, failures, logins, errors, mails>>
  BY DEF N!LogImportant
<1>2. e \in N!Entry /\ Plain(e)
  BY NewEntryPlain
<1>. HIDE DEF e
<1>3. /\ entries \in Seq(N!Entry) /\ Len(entries) = 1
      /\ \A i \in 1 .. Len(entries) : entries[i] = e
  BY <1>2
<1>. HIDE DEF entries
<1>4. Len(entries) <= 3 /\ \A i \in 1 .. Len(entries) : Plain(entries[i])
  BY <1>2, <1>3
<1>5. QED
  BY <1>1, <1>3, <1>4, PlainStep

LEMMA FailedWatch ==
  ASSUME WatchInv, NEW u \in User, NEW a \in Address, NEW g \in Agent,
         N!HandleFailedLogin(u, a, g)
  PROVE  WatchInv'
<1>. DEFINE e == N!NewEntry("failed", None, a, g)
            b == N!NewEntry("brute_force", None, a, g)
            alert == [b EXCEPT !.reasons = {"brute_force"}, !.notice = "suspicious_activity"]
            attack == <<b>> \o IF "brute_force" \in Notify THEN <<alert>> ELSE <<>>
            more == IF failures'[u] >= BruteForceThreshold THEN attack ELSE <<>>
            some == {x \in N!Entry : Plain(x)}
            entries == <<e>> \o more
<1>1. /\ served < MaxRequests - 1 /\ served' = served + 1
      /\ failures' = [failures EXCEPT ![u] = @ + 1]
      /\ N!Emit(<<e>> \o IF failures'[u] >= BruteForceThreshold THEN N!DetectBruteForce(a, g)
                         ELSE <<>>, u)
      /\ UNCHANGED <<now, logged, logins, errors, mails>>
  BY DEF N!HandleFailedLogin
<1>2. N!DetectBruteForce(a, g) = attack
  BY DEF N!DetectBruteForce
<1>3. N!Emit(entries, u)
  BY <1>1, <1>2
<1>4. e \in some /\ b \in some
  BY NewEntryPlain
<1>. HIDE DEF e, b
<1>5. alert \in some
  <2>1. b \in N!Entry /\ b.kind \notin N!Detected /\ b.read = 0
    BY <1>4 DEF Plain
  <2>2. /\ alert \in N!Entry /\ alert.kind = b.kind /\ alert.read = b.read
        /\ alert.reasons = {"brute_force"}
    <3>. HIDE DEF N!Kinds
    <3>1. QED
      BY <2>1 DEF N!Entry, N!Reasons, N!Notices
  <2>. HIDE DEF alert
  <2>3. QED
    BY <2>1, <2>2 DEF Plain
<1>. HIDE DEF alert, some
<1>6. attack \in Seq(some) /\ Len(attack) <= 2
  <2>1. <<b>> \in Seq(some) /\ Len(<<b>>) = 1
    BY <1>4
  <2>2. <<alert>> \in Seq(some) /\ Len(<<alert>>) = 1
    BY <1>5
  <2>3. <<>> \in Seq(some) /\ Len(<<>>) = 0
    BY EmptySeq
  <2>4. QED
    BY <2>1, <2>2, <2>3, ConcatProperties
<1>. HIDE DEF attack
<1>7. more \in Seq(some) /\ Len(more) <= 2 /\ Len(more) \in Nat
  <2>1. <<>> \in Seq(some) /\ Len(<<>>) = 0
    BY EmptySeq
  <2>2. QED
    BY <1>6, <2>1, LenProperties
<1>. HIDE DEF more
<1>8. entries \in Seq(some) /\ Len(entries) <= 3
  <2>1. <<e>> \in Seq(some) /\ Len(<<e>>) = 1
    BY <1>4
  <2>2. QED
    BY <1>7, <2>1, ConcatProperties
<1>. HIDE DEF entries
<1>9. \A k \in 1 .. Len(entries) : entries[k] \in some
  BY <1>8, ElementOfSeq
<1>10. entries \in Seq(N!Entry)
  <2>1. some \subseteq N!Entry
    BY DEF some
  <2>. HIDE DEF N!Entry
  <2>2. QED
    BY <1>8, <2>1, SeqMonotonic
<1>11. \A k \in 1 .. Len(entries) : Plain(entries[k])
  BY <1>9 DEF some
<1>12. QED
  BY <1>1, <1>3, <1>8, <1>10, <1>11, PlainStep

\* The requests, the log and the entries are left alone.
LEMMA ElseStep ==
  ASSUME WatchInv, UNCHANGED <<now, logged, channel, logins, served, emitted>>, WatchTypes'
  PROVE  WatchInv'
<1>1. Grows
  BY StaysGrown
<1>2. (\A s \in Req : HasCompared(logins[s]))'
  BY <1>1, AllStay
<1>3. Queued' /\ Emissions'
  BY <1>1, WatchHas DEF Grows, Emissions, Watching
<1>4. QED
  BY <1>2, <1>3, SaysNothing DEF WatchInv

LEMMA ForgetWatch ==
  ASSUME WatchInv, NEW u \in User, N!ForgetFailures(u)
  PROVE  WatchInv'
<1>1. /\ failures' = [failures EXCEPT ![u] = 0]
      /\ UNCHANGED <<now, logged, channel, logins, mailing, served, errors, emitted, mails>>
  BY DEF N!ForgetFailures
<1>2. failures' \in [User -> Nat] /\ \A v \in User : failures'[v] <= served
  <2>1. failures \in [User -> Nat] /\ \A v \in User : failures[v] <= served
    BY WatchHas DEF WatchTypes
  <2>2. QED
    BY <1>1, <2>1, EmittedBounded
<1>3. WatchTypes'
  BY <1>1, <1>2, WatchHas DEF WatchTypes
<1>4. QED
  BY <1>1, <1>3, ElseStep

LEMMA CallbackWatch ==
  ASSUME WatchInv, NEW m \in mailing, N!AnomalyCallback(m) \/ N!CallbackFails(m)
  PROVE  WatchInv'
<1>1. /\ mailing' = mailing \ {m}
      /\ UNCHANGED <<now, logged, channel, logins, failures, served, emitted>>
  BY DEF N!AnomalyCallback, N!CallbackFails
<1>2. \A i \in DOMAIN mails : mails[i] \in N!Mail
  BY WatchHas DEF WatchTypes
<1>3. m.user \in User /\ m.notice \in N!Notices \ {None} /\ now \in 0 .. MaxTime
  BY WatchHas DEF WatchTypes
<1>4. CASE N!AnomalyCallback(m)
  <2>. DEFINE mail == [user |-> m.user, notice |-> m.notice, at |-> now]
  <2>1. mails' = Append(mails, mail) /\ errors' = errors
    BY <1>4 DEF N!AnomalyCallback
  <2>2. mail \in N!Mail
    <3>. HIDE DEF N!Notices
    <3>1. QED
      BY <1>3 DEF N!Mail
  <2>. HIDE DEF mail, N!Mail
  <2>3. \A i \in DOMAIN mails' : mails'[i] \in N!Mail
    BY <1>2, <2>1, <2>2
  <2>4. WatchTypes'
    BY <1>1, <2>1, <2>3, WatchHas DEF WatchTypes
  <2>5. QED
    BY <1>1, <2>4, ElseStep
<1>5. CASE N!CallbackFails(m)
  <2>1. mails' = mails /\ errors < MaxErrors /\ errors' = errors + 1
    BY <1>5 DEF N!CallbackFails
  <2>2. errors' \in 0 .. MaxErrors
    BY <2>1, EmittedBounded, WatchConstants
  <2>3. WatchTypes'
    BY <1>1, <2>1, <2>2, WatchHas DEF WatchTypes
  <2>4. QED
    BY <1>1, <2>3, ElseStep
<1>6. QED
  BY <1>4, <1>5

LEMMA StoreWatch ==
  ASSUME WatchInv, N!ProcessLogEntry
  PROVE  WatchInv'
<1>. HIDE DEF N!Entry
<1>1. /\ channel # <<>> /\ channel' = Tail(channel) /\ logged' = Append(logged, Head(channel))
      /\ UNCHANGED <<now, failures, logins, mailing, served, errors, emitted, mails>>
  BY DEF N!ProcessLogEntry
<1>2. Queued
  BY WatchHas
<1>3. /\ logged \in Seq(N!Entry) /\ channel \in Seq(N!Entry) /\ emitted \in Seq(N!Entry)
      /\ Len(logged) \in Nat /\ Len(channel) \in Nat
  BY <1>2, LogTyped
<1>4. /\ Head(channel) \in N!Entry /\ Head(channel) = channel[1] /\ Len(channel) >= 1
      /\ channel' \in Seq(N!Entry) /\ Len(channel') = Len(channel) - 1
      /\ \A i \in 1 .. Len(channel') : channel'[i] = channel[i + 1]
  BY <1>1, <1>3, HeadTailProperties
<1>5. /\ logged' \in Seq(N!Entry) /\ Len(logged') = Len(logged) + 1
      /\ \A i \in 1 .. Len(logged) : logged'[i] = logged[i]
      /\ logged'[Len(logged) + 1] = channel[1]
  BY <1>1, <1>3, <1>4
<1>6. \A i \in 1 .. Len(logged') : emitted[i] = logged'[i]
  <2>1. emitted[Len(logged) + 1] = channel[1]
    <3>1. 1 \in 1 .. Len(channel)
      BY <1>3, <1>4
    <3>2. QED
      BY <1>2, <3>1 DEF Queued
  <2>2. \A i \in 1 .. Len(logged') : i \in 1 .. Len(logged) \/ i = Len(logged) + 1
    BY <1>3, <1>5
  <2>3. QED
    BY <1>2, <1>5, <2>1, <2>2 DEF Queued
<1>7. \A i \in 1 .. Len(channel') : emitted[Len(logged') + i] = channel'[i]
  <2>. SUFFICES ASSUME NEW i \in 1 .. Len(channel')
                PROVE  emitted[Len(logged') + i] = channel'[i]
    OBVIOUS
  <2>1. i + 1 \in 1 .. Len(channel) /\ Len(logged') + i = Len(logged) + (i + 1)
    BY <1>3, <1>4, <1>5
  <2>2. QED
    BY <1>2, <1>4, <2>1 DEF Queued
<1>8. Queued'
  BY <1>1, <1>2, <1>3, <1>4, <1>5, <1>6, <1>7 DEF Queued
<1>9. Grows
  BY <1>1, <1>3, <1>5, <1>8, <1>2, LogTyped DEF Grows
<1>10. (\A s \in Req : HasCompared(logins[s]))'
  BY <1>1, <1>9, AllStay
<1>11. WatchTypes' /\ Emissions'
  BY <1>1, WatchHas DEF WatchTypes, Emissions, Watching
<1>12. QED
  BY <1>1, <1>8, <1>10, <1>11, SaysNothing DEF WatchInv

LEMMA TickWatch ==
  ASSUME WatchInv, N!Tick
  PROVE  WatchInv'
<1>1. /\ now < MaxTime /\ now' = now + 1 /\ \A r \in Req : logins[r].pc = "idle"
      /\ UNCHANGED <<logged, channel, failures, logins, mailing, served, errors, emitted,
                     mails>>
  BY DEF N!Tick, N!At
<1>2. now' \in 0 .. MaxTime
  BY <1>1, WatchHas, WatchConstants DEF WatchTypes
<1>3. WatchTypes' /\ Emissions'
  BY <1>1, <1>2, WatchHas DEF WatchTypes, Emissions, Watching
<1>4. Queued'
  BY <1>1, StaysGrown DEF Grows
<1>5. (\A r \in Req : HasCompared(logins[r]))'
  BY <1>1 DEF HasCompared
<1>6. QED
  BY <1>1, <1>3, <1>4, <1>5, SaysNothing DEF WatchInv

-----------------------------------------------------------------------------
(* The steps together.                                                     *)

LEMMA InitWatch ==
  ASSUME N!Init
  PROVE  WatchInv
<1>1. /\ now = 0 /\ logged = <<>> /\ channel = <<>> /\ failures = [u \in User |-> 0]
      /\ logins = [r \in Req |-> N!NoReq] /\ mailing = {} /\ served = 0 /\ errors = 0
      /\ emitted = <<>> /\ mails = <<>>
  BY DEF N!Init
<1>2. Queued
  <2>. HIDE DEF N!Entry
  <2>1. <<>> \in Seq(N!Entry) /\ Len(<<>>) = 0
    BY EmptySeq
  <2>2. QED
    BY <1>1, <2>1 DEF Queued
<1>3. WatchTypes
  <2>1. logins \in [Req -> N!Request]
    BY <1>1, WatchIdle
  <2>2. /\ now \in 0 .. MaxTime /\ served \in 0 .. MaxRequests - 1 /\ errors \in 0 .. MaxErrors
        /\ failures \in [User -> Nat] /\ \A u \in User : failures[u] <= served
    BY <1>1, WatchConstants
  <2>3. \A i \in DOMAIN mails : mails[i] \in N!Mail
    BY <1>1
  <2>4. QED
    BY <1>1, <2>1, <2>2, <2>3 DEF WatchTypes
<1>4. Emissions
  <2>1. Watching(logins) = {}
    BY <1>1, WatchIdle DEF Watching
  <2>2. IsFiniteSet({}) /\ Cardinality({}) = 0
    BY FS_EmptySet
  <2>3. Len(emitted) = 0 /\ served = 0
    BY <1>1
  <2>4. QED
    BY <2>1, <2>2, <2>3 DEF Emissions
<1>5. \A r \in Req : HasCompared(logins[r])
  BY <1>1, WatchIdle DEF HasCompared
<1>6. /\ \A i \in DOMAIN emitted : emitted[i].read < i
      /\ N!NewAddressMarked /\ N!KnownPlaceQuiet /\ N!CountryNeedsAddress
  BY <1>1 DEF N!NewAddressMarked, N!KnownPlaceQuiet, N!CountryNeedsAddress
<1>7. QED
  BY <1>2, <1>3, <1>4, <1>5, <1>6 DEF WatchInv

LEMMA LoginWatch ==
  ASSUME WatchInv, NEW r \in Req, NEW u \in User, NEW a \in Address, NEW g \in Agent,
         \/ N!Login(r, u, a, g) \/ N!Compare(r, u, a, g)
         \/ N!RunLoginAnomalyDetection(r, u, a, g)
         \/ N!RunTwoFALoginAnomalyDetection(r, u, a, g)
         \/ N!RunPasskeyLoginAnomalyDetection(r, u, a, g)
         \/ N!RunSocialLoginAnomalyDetection(r, u, a, g)
  PROVE  WatchInv'
<1>1. "login" \in N!Detected /\ "informational" \in N!Detected
  BY DEF N!Detected
<1>2. CASE N!Login(r, u, a, g)
  BY <1>1, <1>2, BeginWatch DEF N!Login
<1>3. CASE N!Compare(r, u, a, g)
  BY <1>1, <1>3, BeginWatch DEF N!Compare
<1>4. CASE N!RunLoginAnomalyDetection(r, u, a, g)
  BY <1>1, <1>4, BeginWatch DEF N!RunLoginAnomalyDetection
<1>5. QED
  BY <1>2, <1>3, <1>4 DEF N!RunTwoFALoginAnomalyDetection,
    N!RunPasskeyLoginAnomalyDetection, N!RunSocialLoginAnomalyDetection

LEMMA ReadWatch ==
  ASSUME WatchInv, NEW r \in Req, N!ReadCountries(r) \/ N!ReadFails(r)
  PROVE  WatchInv'
<1>1. CASE N!ReadCountries(r)
  <2>1. errors' \in 0 .. MaxErrors
    BY <1>1, WatchHas DEF N!ReadCountries, WatchTypes
  <2>2. QED
    BY <1>1, <2>1, ComparedWatch DEF N!ReadCountries, N!At
<1>2. CASE N!ReadFails(r) /\ logins[r].pc # "patterns"
  <2>1. errors' \in 0 .. MaxErrors
    BY <1>2, EmittedBounded, WatchConstants DEF N!ReadFails
  <2>2. /\ N!Compared(r, {}, {"countries"}) /\ logins[r].pc = "countries"
        /\ UNCHANGED <<now, logged, channel, failures, mailing, served, emitted, mails>>
    BY <1>2 DEF N!ReadFails, N!At
  <2>3. QED
    BY <2>1, <2>2, ComparedWatch
<1>3. QED
  BY <1>1, <1>2, FailedPatternsWatch

LEMMA NextWatch ==
  ASSUME WatchInv, N!Next
  PROVE  WatchInv'
<1>1. ASSUME NEW r \in Req, NEW u \in User, NEW a \in Address, NEW g \in Agent,
             \/ N!Login(r, u, a, g) \/ N!Compare(r, u, a, g)
             \/ N!RunLoginAnomalyDetection(r, u, a, g)
             \/ N!RunTwoFALoginAnomalyDetection(r, u, a, g)
             \/ N!RunPasskeyLoginAnomalyDetection(r, u, a, g)
             \/ N!RunSocialLoginAnomalyDetection(r, u, a, g)
      PROVE  WatchInv'
  BY <1>1, LoginWatch
<1>2. ASSUME NEW r \in Req,
             N!ReadPatterns(r) \/ N!ReadCountries(r) \/ N!ReadFails(r) \/ N!LogActivity(r)
      PROVE  WatchInv'
  BY <1>2, PatternsWatch, ReadWatch, LogWatch
<1>3. ASSUME NEW u \in User, NEW a \in Address, NEW g \in Agent,
             N!LogImportant(u, a, g) \/ N!HandleFailedLogin(u, a, g)
      PROVE  WatchInv'
  BY <1>3, ImportantWatch, FailedWatch
<1>4. ASSUME NEW u \in User, N!ForgetFailures(u) PROVE WatchInv'
  BY <1>4, ForgetWatch
<1>5. ASSUME NEW m \in mailing, N!AnomalyCallback(m) \/ N!CallbackFails(m) PROVE WatchInv'
  BY <1>5, CallbackWatch
<1>6. QED
  BY <1>1, <1>2, <1>3, <1>4, <1>5, StoreWatch, TickWatch, Zenon DEF N!Next

LEMMA StillWatch ==
  ASSUME WatchInv, UNCHANGED <<watchVars, served, errors>>
  PROVE  WatchInv'
<1>1. UNCHANGED <<now, logged, channel, failures, logins, mailing, emitted, mails, served,
                  errors>>
  BY DEF watchVars
<1>2. WatchTypes'
  BY <1>1, WatchHas DEF WatchTypes
<1>3. QED
  BY <1>1, <1>2, ElseStep

LEMMA NoveltySeen ==
  ASSUME WatchInv
  PROVE  N!NoveltyReported
<1>1. WatchTypes /\ Queued
  BY WatchHas
<1>2. failures \in [User -> 0 .. MaxRequests - 1]
  <2>1. \A u \in User : failures[u] \in Nat /\ failures[u] <= served
    BY <1>1 DEF WatchTypes
  <2>2. served \in 0 .. MaxRequests - 1
    BY <1>1 DEF WatchTypes
  <2>3. \A u \in User : failures[u] \in 0 .. MaxRequests - 1
    BY <2>1, <2>2, WatchConstants
  <2>4. QED
    BY <1>1, <2>3 DEF WatchTypes
<1>3. /\ \A i \in DOMAIN logged : logged[i] \in N!Entry
      /\ \A i \in DOMAIN channel : channel[i] \in N!Entry
  <2>. HIDE DEF N!Entry
  <2>1. DOMAIN channel = 1 .. Len(channel)
    BY <1>1, LogTyped, LenProperties
  <2>2. QED
    BY <1>1, <2>1, LogTyped
<1>4. N!TypeOK
  BY <1>1, <1>2, <1>3, Zenon DEF N!TypeOK, WatchTypes
<1>5. QED
  BY <1>4, WatchHas DEF N!NoveltyReported

\* The first entry that names an address of a user is marked, a user who logs in from
\* a place that is stored and recent is not sent a notice of a new device, and a new
\* country needs a new address, however requests overlap and however far the worker is
\* behind (internal/log/anomaly.go:307, 308, 352).  For any users, addresses, windows
\* and limits, and any number of requests.
THEOREM NoveltyIsReported == AllSpec => []NoveltyReported
<1>. DEFINE Kept == part = "watch" => WatchInv
<1>1. AllInit => Kept
  BY InitWatch DEF AllInit
<1>2. Kept /\ [AllNext]_<<part, vars, cacheVars, watchVars>> => Kept'
  <2>. SUFFICES ASSUME Kept, [AllNext]_<<part, vars, cacheVars, watchVars>>,
                       part' = "watch"
                PROVE  WatchInv'
    OBVIOUS
  <2>1. CASE Anomaly
    BY <2>1, NextWatch DEF Anomaly
  <2>2. CASE Oidc \/ AccessCaches
    BY <2>2 DEF Oidc, AccessCaches
  <2>3. CASE UNCHANGED <<part, vars, cacheVars, watchVars>>
    BY <2>3, StillWatch DEF vars
  <2>4. QED
    BY <2>1, <2>2, <2>3, Zenon DEF AllNext
<1>3. Kept => NoveltyReported
  BY NoveltySeen DEF NoveltyReported
<1>4. QED
  BY <1>1, <1>2, <1>3, PTL DEF AllSpec
=============================================================================
