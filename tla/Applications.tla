----------------------------- MODULE Applications -----------------------------
(***************************************************************************)
(* Tenants, applications and their OAuth configurations: the console's     *)
(* forms (internal/admin/gui_handler.go), the admin API                    *)
(* (internal/admin/handler.go) and the repository for them.                *)
(*                                                                         *)
(* A form is read by one request and submitted by another, and a blank     *)
(* secret in it stands for the stored one.  A key pair is a site key and   *)
(* its secret, a client its identifier and its secret: both halves of a    *)
(* pair bear its name, so that a row shows whether its halves belong       *)
(* together.  Identifiers are numbered in the order they are drawn.        *)
(***************************************************************************)
EXTENDS Integers, FiniteSets

CONSTANTS
  Tenant, App,   \* tenants and applications, created at most once each
  DefaultApp, DefaultTenant,   \* those that have fixed identifiers
  Pair,          \* key pairs and clients an administrator types
  Default,       \* the key pair of an application without an override
  Req,           \* administrators at work at a time
  MaxForms,      \* bound: forms and requests that are begun
  MaxErrors,     \* bound: statements that fail
  None           \* no row, key or secret

\* What the code lets the constants be.
ApplicationsAssumption ==
  /\ MaxForms \in Nat /\ MaxErrors \in Nat
  /\ DefaultApp \in App /\ DefaultTenant \in Tenant
  /\ Default \notin Pair /\ None \notin Pair \cup {Default} \cup App \cup Tenant

VARIABLES
  tenants,   \* tenants
  apps,      \* applications, with their roles
  oauth,     \* oauth_provider_configs of one provider, per application
  drawn,     \* identifiers drawn so far
  req,       \* forms that are open and requests in progress
  begun,     \* forms and requests begun so far
  errors,    \* statements that have failed so far
  born,      \* history: tenants and applications that were created
  was_off,   \* history: applications ever saved with the CAPTCHA override off
  stale,     \* history: whether a form kept a client that was replaced since it was read
  overlap    \* history: whether two administrators ever worked at a time

vars == <<tenants, apps, oauth, drawn, req, begun, errors, born, was_off, stale,
          overlap>>

DefaultRoles == {"admin", "member", "viewer"}
Key == Pair \cup {Default, None}
AppRow == [tenant : Tenant, site : Key, secret : Pair \cup {None}, trusted : BOOLEAN,
           roles : SUBSET DefaultRoles]
OAuthRow == [id : 1 .. MaxForms, client : Pair, secret : Pair, enabled : BOOLEAN]
NoReq == [pc |-> "idle", app |-> None, site |-> None, row |-> None, given |-> None]
Given == [client : Pair, enabled : BOOLEAN]
Request == [pc : {"idle", "seed", "app_form", "devices", "upsert", "save", "oauth_form",
                  "toggle"},
            app : App \cup {None}, site : Key, row : OAuthRow \cup {None},
            given : Given \cup {None}]

Init ==
  /\ tenants = {} /\ apps = [a \in App |-> None] /\ oauth = [a \in App |-> None]
  /\ drawn = 0 /\ req = [r \in Req |-> NoReq] /\ begun = 0 /\ errors = 0
  /\ born = {} /\ was_off = {} /\ stale = FALSE /\ overlap = FALSE

history == <<born, was_off, stale>>
At(r, pc) == req[r].pc = pc
Begin(r) ==
  /\ At(r, "idle") /\ begun < MaxForms /\ begun' = begun + 1
  /\ overlap' = (overlap \/ \E s \in Req : ~At(s, "idle"))
Goto(r, next) == req' = [req EXCEPT ![r] = next]
Finish(r) == Goto(r, NoReq)

-----------------------------------------------------------------------------
(* Tenants                                                                 *)

TenantCreate(t) ==
  /\ t \notin born /\ born' = born \cup {t} /\ tenants' = tenants \cup {t}
  /\ UNCHANGED <<apps, oauth, drawn, req, begun, errors, was_off, stale, overlap>>

\* The rows of the tenant's applications go with it, and theirs with them.
TenantDelete(t) ==
  /\ t \in tenants /\ tenants' = tenants \ {t}
  /\ LET gone == {a \in App : apps[a] # None /\ apps[a].tenant = t} IN
       /\ apps' = [a \in App |-> IF a \in gone THEN None ELSE apps[a]]
       /\ oauth' = [a \in App |-> IF a \in gone THEN None ELSE oauth[a]]
  /\ UNCHANGED <<drawn, req, begun, errors, history, overlap>>

-----------------------------------------------------------------------------
(* Applications                                                            *)

\* The form of a new application may bring a key pair of its own.
AppCreate(r, a, t, key, trusted) ==
  /\ Begin(r) /\ a \notin born /\ t \in tenants
  /\ born' = born \cup {a}
  /\ apps' = [apps EXCEPT ![a] = [tenant |-> t, site |-> key, secret |-> key,
                                  trusted |-> trusted, roles |-> {}]]
  /\ Goto(r, [NoReq EXCEPT !.pc = "seed", !.app = a])
  /\ UNCHANGED <<tenants, oauth, drawn, errors, was_off, stale>>

\* The admin API's handler, which leaves the rest to the columns' defaults.
CreateApp(r, a, t) == AppCreate(r, a, t, None, FALSE)

\* Mutant of Seeded: the roles are not created in one transaction.
SeededInPart(roles) == SUBSET DefaultRoles

\* Roles that exist are left alone.
Seeded(roles) == {roles \cup DefaultRoles}

SeedDefaultRolesForApp(r) ==
  /\ At(r, "seed")
  /\ LET a == req[r].app IN
       IF apps[a] = None THEN UNCHANGED apps
       ELSE \E roles \in Seeded(apps[a].roles) : apps' = [apps EXCEPT ![a].roles = roles]
  /\ Finish(r)
  /\ UNCHANGED <<tenants, oauth, drawn, begun, errors, history, overlap>>

\* The form shows the stored site key, or the default one.
AppEditForm(r, a) ==
  /\ Begin(r) /\ apps[a] # None
  /\ Goto(r, [NoReq EXCEPT !.pc = "app_form", !.app = a,
                !.site = IF apps[a].site = None THEN Default ELSE apps[a].site])
  /\ UNCHANGED <<tenants, apps, oauth, drawn, errors, history>>

\* What the form holds: a pair typed anew, the site key it shows and a blank secret,
\* or nothing, the override being off.
Forms(shown) ==
  {[override |-> TRUE, site |-> p, secret |-> p] : p \in Pair}
    \cup {[override |-> TRUE, site |-> shown, secret |-> None],
          [override |-> FALSE, site |-> None, secret |-> None]}

\* Mutant of NewSecret: a blank secret is written.
NewSecretBlank(stored, typed) == typed

NewSecret(stored, typed) == IF typed = None THEN stored ELSE typed

UpdateApp(row, form) ==
  [row EXCEPT !.site = form.site, !.secret = NewSecret(row.secret, form.secret)]

AppUpdate(r, form) ==
  /\ At(r, "app_form") /\ form \in Forms(req[r].site)
  /\ LET a == req[r].app IN
       /\ apps' = IF apps[a] = None THEN apps ELSE [apps EXCEPT ![a] = UpdateApp(@, form)]
       /\ was_off' = IF form.override THEN was_off ELSE was_off \cup {a}
  /\ Goto(r, [req[r] EXCEPT !.pc = "devices"])
  /\ UNCHANGED <<tenants, oauth, drawn, begun, errors, born, stale, overlap>>

UpdateAppSMSTrustedDevice(r, trusted) ==
  /\ At(r, "devices") /\ Finish(r)
  /\ LET a == req[r].app IN
       apps' = IF apps[a] = None THEN apps ELSE [apps EXCEPT ![a].trusted = trusted]
  /\ UNCHANGED <<tenants, oauth, drawn, begun, errors, history, overlap>>

AppDelete(a) ==
  /\ apps[a] # None
  /\ apps' = [apps EXCEPT ![a] = None] /\ oauth' = [oauth EXCEPT ![a] = None]
  /\ UNCHANGED <<tenants, drawn, req, begun, errors, history, overlap>>

\* Every field without an override has its default.
ResolveConfig(row) ==
  [site |-> IF row.site = None THEN Default ELSE row.site,
   secret |-> IF row.secret = None THEN Default ELSE row.secret]

-----------------------------------------------------------------------------
(* OAuth configurations                                                    *)

OAuthCreate(r, a, client, enabled) ==
  /\ Begin(r) /\ a \in born
  /\ Goto(r, [NoReq EXCEPT !.pc = "upsert", !.app = a,
                !.given = [client |-> client, enabled |-> enabled]])
  /\ UNCHANGED <<tenants, apps, oauth, drawn, errors, history>>

\* The admin API's handler always enables.
PutOAuthConfig(r, a, client) == OAuthCreate(r, a, client, TRUE)

\* The command that brings the environment's client into the default application, which
\* it creates when it is missing, without roles.  It goes on as an upsert.
MigrateOAuth(r, client) ==
  /\ Begin(r)
  /\ IF apps[DefaultApp] # None THEN UNCHANGED <<tenants, apps, born>>
     ELSE /\ tenants' = tenants \cup {DefaultTenant}
          /\ apps' = [apps EXCEPT ![DefaultApp] =
               [tenant |-> DefaultTenant, site |-> None, secret |-> None,
                trusted |-> FALSE, roles |-> {}]]
          /\ born' = born \cup {DefaultApp, DefaultTenant}
  /\ Goto(r, [NoReq EXCEPT !.pc = "upsert", !.app = DefaultApp,
                !.given = [client |-> client, enabled |-> TRUE]])
  /\ UNCHANGED <<oauth, drawn, errors, was_off, stale>>

UpsertOAuthConfig(r) ==
  /\ At(r, "upsert")
  /\ Goto(r, [req[r] EXCEPT !.pc = "save", !.row = oauth[req[r].app]])
  /\ UNCHANGED <<tenants, apps, oauth, drawn, begun, errors, history, overlap>>

\* Mutant of Row: a secret that is stored is kept.
RowKeepsSecret(r, id) ==
  [id |-> id, client |-> req[r].given.client,
   secret |-> IF req[r].row = None THEN req[r].given.client ELSE req[r].row.secret,
   enabled |-> req[r].row = None \/ req[r].given.enabled]

\* A created row is enabled whatever the form says, for FALSE is left to the column's
\* default; a row that is gone is inserted again by Save.
Row(r, id) == [id |-> id, client |-> req[r].given.client, secret |-> req[r].given.client,
               enabled |-> req[r].row = None \/ req[r].given.enabled]

\* The foreign key and the unique index may refuse the row.
SaveOrCreate(r) ==
  /\ At(r, "save") /\ Finish(r)
  /\ LET a == req[r].app
         id == IF req[r].row = None THEN drawn + 1 ELSE req[r].row.id
     IN IF apps[a] = None \/ (oauth[a] # None /\ oauth[a].id # id)
          THEN UNCHANGED <<oauth, drawn>>
          ELSE /\ oauth' = [oauth EXCEPT ![a] = Row(r, id)]
               /\ drawn' = IF req[r].row = None THEN id ELSE drawn
  /\ UNCHANGED <<tenants, apps, begun, errors, history, overlap>>

OAuthEditForm(r, a) ==
  /\ Begin(r) /\ oauth[a] # None
  /\ Goto(r, [NoReq EXCEPT !.pc = "oauth_form", !.app = a, !.row = oauth[a]])
  /\ UNCHANGED <<tenants, apps, oauth, drawn, errors, history>>

\* A row is found by its identifier.
Found(r) == oauth[req[r].app] # None /\ oauth[req[r].app].id = req[r].row.id

\* Either a client is typed anew, or the form's client is kept and its secret is blank.
OAuthUpdate(r, client, secret, enabled) ==
  /\ At(r, "oauth_form") /\ Finish(r)
  /\ secret = client \/ (secret = None /\ client = req[r].row.client)
  /\ LET row == oauth[req[r].app] IN
       /\ oauth' = IF ~Found(r) THEN oauth
                   ELSE [oauth EXCEPT ![req[r].app] =
                          [row EXCEPT !.client = client, !.enabled = enabled,
                                      !.secret = IF secret = None THEN @ ELSE secret]]
       /\ stale' = (stale \/ (secret = None /\ Found(r) /\ row.client # client))
  /\ UNCHANGED <<tenants, apps, drawn, begun, errors, born, was_off, overlap>>

OAuthDelete(a) ==
  /\ oauth[a] # None /\ oauth' = [oauth EXCEPT ![a] = None]
  /\ UNCHANGED <<tenants, apps, drawn, req, begun, errors, history, overlap>>

OAuthToggleEnabled(r, a) ==
  /\ Begin(r) /\ oauth[a] # None
  /\ Goto(r, [NoReq EXCEPT !.pc = "toggle", !.app = a, !.row = oauth[a]])
  /\ UNCHANGED <<tenants, apps, oauth, drawn, errors, history>>

ToggleOAuthConfigEnabled(r) ==
  /\ At(r, "toggle") /\ Finish(r)
  /\ oauth' = IF ~Found(r) THEN oauth
              ELSE [oauth EXCEPT ![req[r].app].enabled = ~req[r].row.enabled]
  /\ UNCHANGED <<tenants, apps, drawn, begun, errors, history, overlap>>

\* A statement fails, or an administrator closes the form.
Fail(r) ==
  /\ ~At(r, "idle") /\ errors < MaxErrors /\ errors' = errors + 1 /\ Finish(r)
  /\ UNCHANGED <<tenants, apps, oauth, drawn, begun, history, overlap>>

Next ==
  \/ \E t \in Tenant : TenantCreate(t) \/ TenantDelete(t)
  \/ \E a \in App : AppDelete(a) \/ OAuthDelete(a)
  \/ \E r \in Req :
       \/ \E a \in App, t \in Tenant, key \in Pair \cup {None}, b \in BOOLEAN :
            AppCreate(r, a, t, key, b)
       \/ \E a \in App :
            \/ AppEditForm(r, a) \/ OAuthEditForm(r, a) \/ OAuthToggleEnabled(r, a)
            \/ \E t \in Tenant : CreateApp(r, a, t)
            \/ \E client \in Pair, b \in BOOLEAN :
                 OAuthCreate(r, a, client, b) \/ PutOAuthConfig(r, a, client)
       \/ \E form \in Forms(req[r].site) : AppUpdate(r, form)
       \/ \E b \in BOOLEAN : UpdateAppSMSTrustedDevice(r, b)
       \/ \E client \in Pair : MigrateOAuth(r, client)
       \/ \E client \in Pair, secret \in Pair \cup {None}, b \in BOOLEAN :
            OAuthUpdate(r, client, secret, b)
       \/ SeedDefaultRolesForApp(r) \/ UpsertOAuthConfig(r) \/ SaveOrCreate(r)
       \/ ToggleOAuthConfigEnabled(r) \/ Fail(r)

Spec == Init /\ [][Next]_vars

-----------------------------------------------------------------------------
(* Properties                                                              *)

\* Rows and requests keep to the values the code gives them.
TypeOK ==
  /\ tenants \subseteq Tenant /\ apps \in [App -> AppRow \cup {None}]
  /\ oauth \in [App -> OAuthRow \cup {None}] /\ drawn \in 0 .. MaxForms
  /\ req \in [Req -> Request] /\ begun \in 0 .. MaxForms /\ errors \in 0 .. MaxErrors

\* An application has all of the default roles or none: registration relies on "member"
\* where a role of the application is found (internal/admin/repository.go:105).
RolesWhole == \A a \in App : apps[a] # None => apps[a].roles \in {{}, DefaultRoles}

\* The site key that logins are shown and the secret their answers are verified with
\* belong together through any sequence of forms, blank secrets included, while one
\* administrator works at a time and the override is never turned off
\* (internal/admin/repository.go:356).
KeysMatch ==
  \A a \in App : (apps[a] # None /\ a \notin was_off /\ ~overlap)
    => ResolveConfig(apps[a]).site = ResolveConfig(apps[a]).secret

\* The halves of an OAuth client belong together whatever upserts, toggles, deletions and
\* forms overlap, unless a form keeps a client that was replaced since it was read
\* (internal/admin/repository.go:411, internal/admin/repository.go:489).
ClientMatches ==
  \A a \in App : (oauth[a] # None /\ ~stale) => oauth[a].client = oauth[a].secret

\* What belongs together is saved together: an application and its roles, a site key and
\* its secret, the halves of a client (internal/admin/repository.go:105, 356, 411).
HalvesMatch == TypeOK /\ RolesWhole /\ KeysMatch /\ ClientMatches
=============================================================================
