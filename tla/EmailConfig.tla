----------------------------- MODULE EmailConfig -----------------------------
(***************************************************************************)
(* Mail servers and templates of one application and of the system, and    *)
(* the choice of both for a mail that is sent: internal/email (service and *)
(* repository) and the console's and the API's handlers for them.          *)
(*                                                                         *)
(* Every statement is a step.  The mail is of one type, which exists and   *)
(* has a built-in template.  Servers and templates are numbered in the     *)
(* order of their insertion.  The database refuses a second default server *)
(* of a scope, a second template of a scope and a link to a missing server.*)
(* GORM replaces a FALSE by the column's default, TRUE, when it inserts a  *)
(* row, and inserts the row that a Save does not find.                     *)
(***************************************************************************)
EXTENDS Naturals

CONSTANTS
  MaxIds,        \* bound: rows inserted
  Req,           \* slots for requests and mails being served at the same time
  MaxRequests,   \* bound: requests and mails served
  MaxErrors,     \* bound: statements that fail
  None           \* no row

Id == 1 .. MaxIds
Scope == {"app", "global"}
Server == [scope : Scope, default : BOOLEAN, active : BOOLEAN]
Template == [id : Id, link : Id \cup {None}, active : BOOLEAN]

\* What the code lets the constants be.
EmailConfigAssumption ==
  /\ None \notin Nat \cup Server
  /\ MaxIds \in Nat /\ MaxRequests \in Nat /\ MaxErrors \in Nat

VARIABLES
  servers,    \* email_server_configs
  templates,  \* the row of email_templates of every scope
  drawn,      \* how many rows have been inserted
  req,        \* the state of every request slot
  served,     \* requests begun so far
  errors,     \* statements that have failed so far
  chosen,     \* history: the server last saved as the default of a scope
  without,    \* history: mails during which the application had no active server
  astray      \* history: mails that left the application's servers for no reason

history == <<chosen, without, astray>>
vars == <<servers, templates, drawn, req, served, errors, history>>

Saving == {"clear", "insert", "save"}
Reading == {"app_template", "global_template", "linked", "app_default", "app_any",
            "global_default", "global_any"}
Steps == Saving \cup Reading \cup {"idle", "upsert", "put_template", "add_template"}
Request == [pc : Steps, id : Id \cup {None}, scope : Scope, default : BOOLEAN,
            active : BOOLEAN, link : Id \cup {None}]
Idle == [pc |-> "idle", id |-> None, scope |-> "app", default |-> FALSE,
         active |-> FALSE, link |-> None]

Init ==
  /\ servers = [i \in Id |-> None] /\ templates = [s \in Scope |-> None]
  /\ drawn = 0 /\ req = [r \in Req |-> Idle] /\ served = 0 /\ errors = 0
  /\ chosen = [s \in Scope |-> None] /\ without = {} /\ astray = FALSE

Present(i) == servers[i] # None
InScope(s) == {i \in Id : Present(i) /\ servers[i].scope = s}
Active(s) == {i \in InScope(s) : servers[i].active}
ActiveDefault(s) == {i \in Active(s) : servers[i].default}

At(r, step) == req[r].pc = step
Goto(r, step) == req' = [req EXCEPT ![r].pc = step]
Finish(r) == req' = [req EXCEPT ![r] = Idle]
Begin(r, fields) ==
  /\ At(r, "idle") /\ served < MaxRequests /\ served' = served + 1
  /\ req' = [req EXCEPT ![r] = [f \in DOMAIN Idle |->
               IF f \in DOMAIN fields THEN fields[f] ELSE Idle[f]]]
  /\ UNCHANGED <<servers, templates, drawn, errors, chosen, astray>>

\* The mails being sent while the application has no active server.
NoteWithout(active) ==
  without' = {r \in Req : req'[r].pc \in Reading
                /\ (active = {} \/ r \in without)}

-----------------------------------------------------------------------------
(* Servers                                                                 *)

EmailServerCreate(r, scope, default, active) ==
  /\ Begin(r, [pc |-> IF default THEN "clear" ELSE "insert", scope |-> scope,
               default |-> default, active |-> active])
  /\ UNCHANGED without

SaveEmailServerConfig(r, default, active) == EmailServerCreate(r, "app", default, active)
CreateEmailServerConfig(r, default, active) == EmailServerCreate(r, "app", default, active)

\* The row is read for its password; the rest comes from the form.
EmailServerUpdate(r, i, scope, default, active) ==
  /\ Present(i)
  /\ Begin(r, [pc |-> IF default THEN "clear" ELSE "save", id |-> i, scope |-> scope,
               default |-> default, active |-> active])
  /\ UNCHANGED without

UpdateEmailServerConfigByID(r, i, default, active) ==
  EmailServerUpdate(r, i, servers[i].scope, default, active)

\* Mutant of Cleared: the statement has lost its WHERE.
ClearedEverywhere(s) == UNION {InScope(t) : t \in Scope}

Cleared(s) == InScope(s)

ClearDefaultFlag(r) ==
  /\ At(r, "clear")
  /\ servers' = [i \in Id |-> IF i \in Cleared(req[r].scope)
                                THEN [servers[i] EXCEPT !.default = FALSE]
                                ELSE servers[i]]
  /\ chosen' = [chosen EXCEPT ![req[r].scope] = None]
  /\ Goto(r, IF req[r].id = None THEN "insert" ELSE "save")
  /\ UNCHANGED <<templates, drawn, served, errors, without, astray>>

\* Writes row i, or ends in the error of the index on the defaults of a scope.
Write(r, i, row) ==
  LET refused == row.default
                   /\ \E j \in InScope(row.scope) \ {i} : servers[j].default
  IN /\ servers' = IF refused THEN servers ELSE [servers EXCEPT ![i] = row]
     /\ chosen' = IF refused THEN chosen
                  ELSE [s \in Scope |->
                          IF s = row.scope /\ row.default THEN i
                          ELSE IF chosen[s] = i THEN None ELSE chosen[s]]
     /\ Finish(r) /\ NoteWithout(Active("app")')

Inserted(scope) == [scope |-> scope, default |-> TRUE, active |-> TRUE]

CreateServerConfig(r) ==
  /\ At(r, "insert") /\ drawn < MaxIds
  /\ drawn' = drawn + 1
  /\ Write(r, drawn', Inserted(req[r].scope))
  /\ UNCHANGED <<templates, served, errors, astray>>

UpdateServerConfig(r) ==
  /\ At(r, "save")
  /\ LET i == req[r].id IN
       Write(r, i, IF Present(i)
                     THEN [scope |-> req[r].scope, default |-> req[r].default,
                           active |-> req[r].active]
                     ELSE Inserted(req[r].scope))
  /\ UNCHANGED <<templates, drawn, served, errors, astray>>

\* The links of templates to a deleted server are set to NULL.
Delete(gone) ==
  /\ gone # {}
  /\ servers' = [i \in Id |-> IF i \in gone THEN None ELSE servers[i]]
  /\ templates' = [s \in Scope |->
                     IF templates[s] # None /\ templates[s].link \in gone
                       THEN [templates[s] EXCEPT !.link = None] ELSE templates[s]]
  /\ chosen' = [s \in Scope |-> IF chosen[s] \in gone THEN None ELSE chosen[s]]
  /\ without' = {r \in Req : req[r].pc \in Reading
                   /\ (Active("app") \ gone = {} \/ r \in without)}
  /\ UNCHANGED <<drawn, req, served, errors, astray>>

EmailServerDelete(i) == Present(i) /\ Delete({i})
DeleteEmailServerConfigByID(i) == EmailServerDelete(i)
DeleteServerConfig == Delete(InScope("app"))

-----------------------------------------------------------------------------
(* Templates                                                               *)

EmailTemplateCreate(r, scope, link, active) ==
  /\ Begin(r, [pc |-> "upsert", scope |-> scope, link |-> link, active |-> active])
  /\ UNCHANGED without

SaveEmailTemplate(r, scope, active) == EmailTemplateCreate(r, scope, None, active)

\* The row is read by its identifier, and read again by its scope.
EmailTemplateUpdate(r, scope, link, active) ==
  /\ templates[scope] # None
  /\ Begin(r, [pc |-> "upsert", id |-> templates[scope].id, scope |-> scope,
               link |-> link, active |-> active])
  /\ UNCHANGED without

ResetTemplateToDefault(r, scope) ==
  /\ templates[scope] # None
  /\ Begin(r, [pc |-> "put_template", id |-> templates[scope].id, scope |-> scope,
               link |-> templates[scope].link, active |-> templates[scope].active])
  /\ UNCHANGED without

UpsertTemplate(r) ==
  /\ At(r, "upsert")
  /\ LET row == templates[req[r].scope] IN
       req' = [req EXCEPT ![r].pc = IF row # None THEN "put_template" ELSE "add_template",
                          ![r].id = IF row # None THEN row.id ELSE @]
  /\ UNCHANGED <<servers, templates, drawn, served, errors, history>>

LinkExists(r) == req[r].link # None => Present(req[r].link)

\* The row is the one that was read; another row in its place refuses it.
PutTemplate(r) ==
  /\ At(r, "put_template")
  /\ LET row == templates[req[r].scope] IN
       templates' =
         IF ~LinkExists(r) \/ (row # None /\ row.id # req[r].id) THEN templates
         ELSE [templates EXCEPT ![req[r].scope] =
                 [id |-> req[r].id, link |-> req[r].link,
                  active |-> row = None \/ req[r].active]]
  /\ Finish(r)
  /\ UNCHANGED <<servers, drawn, served, errors, history>>

AddTemplate(r) ==
  /\ At(r, "add_template")
  /\ \/ req[r].id # None /\ drawn' = drawn
     \/ req[r].id = None /\ drawn < MaxIds /\ drawn' = drawn + 1
  /\ LET s == req[r].scope IN
       templates' = IF ~LinkExists(r) \/ templates[s] # None THEN templates
                    ELSE [templates EXCEPT ![s] =
                            [id |-> IF req[r].id # None THEN req[r].id ELSE drawn',
                             link |-> req[r].link, active |-> TRUE]]
  /\ Finish(r)
  /\ UNCHANGED <<servers, served, errors, history>>

EmailTemplateDelete(scope) ==
  /\ templates[scope] # None
  /\ templates' = [templates EXCEPT ![scope] = None]
  /\ UNCHANGED <<servers, drawn, req, served, errors, history>>

DeleteEmailTemplate(scope) == EmailTemplateDelete(scope)

-----------------------------------------------------------------------------
(* Sending a mail: its template, then its server                           *)

SendEmailWithContext(r) ==
  /\ Begin(r, [pc |-> "app_template"])
  /\ NoteWithout(Active("app"))

\* The template was found: its link says where the server is looked for first.
UseTemplate(r, scope) ==
  LET link == templates[scope].link IN
    req' = [req EXCEPT ![r].pc = IF link # None THEN "linked" ELSE "app_default",
                       ![r].id = link]

ActiveTemplate(scope) == templates[scope] # None /\ templates[scope].active

GetTemplate(r) ==
  /\ \/ At(r, "app_template") /\ ActiveTemplate("app") /\ UseTemplate(r, "app")
     \/ At(r, "app_template") /\ ~ActiveTemplate("app") /\ Goto(r, "global_template")
     \/ At(r, "global_template") /\ ActiveTemplate("global") /\ UseTemplate(r, "global")
     \/ At(r, "global_template") /\ ~ActiveTemplate("global") /\ Goto(r, "app_default")
  /\ UNCHANGED <<servers, templates, drawn, served, errors, history>>

\* The mail is sent by a server of the application or by another one.
Sent(r, own) ==
  /\ Finish(r)
  /\ astray' = (astray \/ (~own /\ r \notin without))
  /\ without' = without \ {r}
Try(r, step) == Goto(r, step) /\ UNCHANGED <<without, astray>>

\* A link names the server, whichever scope it has, while that is active.
ResolveLinked(r) ==
  /\ At(r, "linked")
  /\ IF Present(req[r].id) /\ servers[req[r].id].active THEN Sent(r, TRUE)
                                                         ELSE Try(r, "app_default")
  /\ UNCHANGED <<servers, templates, drawn, served, errors, chosen>>

\* Mutant of AfterNoDefault: only a default server is used.
AfterNoDefaultGlobal == "global_default"

AfterNoDefault == "app_any"

GetServerConfig(r) ==
  /\ \/ /\ At(r, "app_default")
        /\ IF ActiveDefault("app") # {} THEN Sent(r, TRUE) ELSE Try(r, AfterNoDefault)
     \/ /\ At(r, "app_any")
        /\ IF Active("app") # {} THEN Sent(r, TRUE) ELSE Try(r, "global_default")
  /\ UNCHANGED <<servers, templates, drawn, served, errors, chosen>>

\* Without a server the mail is written to the log.
GetGlobalServerConfig(r) ==
  /\ \/ /\ At(r, "global_default")
        /\ IF ActiveDefault("global") # {} THEN Sent(r, FALSE) ELSE Try(r, "global_any")
     \/ At(r, "global_any") /\ Sent(r, FALSE)
  /\ UNCHANGED <<servers, templates, drawn, served, errors, chosen>>

-----------------------------------------------------------------------------
(* Statements that fail                                                    *)

\* A failed read is logged and the next source is tried.
AfterFailure(step) ==
  IF step \in {"app_template", "global_template", "linked"} THEN "app_default"
  ELSE IF step \in {"app_default", "app_any"} THEN "global_default"
  ELSE "idle"

\* The mail that went on without an answer is excused.
Fail(r) ==
  /\ ~At(r, "idle") /\ errors < MaxErrors /\ errors' = errors + 1
  /\ IF AfterFailure(req[r].pc) = "idle"
       THEN Finish(r) /\ without' = without \ {r}
       ELSE Goto(r, AfterFailure(req[r].pc)) /\ without' = without \cup {r}
  /\ UNCHANGED <<servers, templates, drawn, served, chosen, astray>>

Next ==
  \/ \E r \in Req :
       \/ \E s \in Scope, d, a \in BOOLEAN, i \in Id :
            \/ EmailServerCreate(r, s, d, a)
            \/ EmailServerUpdate(r, i, s, d, a)
       \/ \E d, a \in BOOLEAN, i \in Id :
            \/ SaveEmailServerConfig(r, d, a) \/ CreateEmailServerConfig(r, d, a)
            \/ UpdateEmailServerConfigByID(r, i, d, a)
       \/ ClearDefaultFlag(r) \/ CreateServerConfig(r) \/ UpdateServerConfig(r)
       \/ \E s \in Scope, a \in BOOLEAN, link \in Id \cup {None} :
            \/ EmailTemplateCreate(r, s, link, a) \/ EmailTemplateUpdate(r, s, link, a)
            \/ SaveEmailTemplate(r, s, a) \/ ResetTemplateToDefault(r, s)
       \/ UpsertTemplate(r) \/ PutTemplate(r) \/ AddTemplate(r)
       \/ SendEmailWithContext(r) \/ GetTemplate(r) \/ ResolveLinked(r)
       \/ GetServerConfig(r) \/ GetGlobalServerConfig(r)
       \/ Fail(r)
  \/ \E i \in Id : EmailServerDelete(i) \/ DeleteEmailServerConfigByID(i)
  \/ DeleteServerConfig
  \/ \E s \in Scope : EmailTemplateDelete(s) \/ DeleteEmailTemplate(s)

Spec == Init /\ [][Next]_vars

-----------------------------------------------------------------------------
(* Properties                                                              *)

\* Rows, requests and the history keep to the values the code gives them.
TypeOK ==
  /\ \A i \in Id : Present(i) => servers[i] \in Server
  /\ \A s \in Scope : templates[s] # None => templates[s] \in Template
  /\ drawn \in 0 .. MaxIds /\ req \in [Req -> Request]
  /\ served \in 0 .. MaxRequests /\ errors \in 0 .. MaxErrors
  /\ chosen \in [Scope -> Id \cup {None}] /\ without \subseteq Req /\ astray \in BOOLEAN

\* A mail of an application leaves by the system's server, or for the log, only
\* if at some moment while it was being sent the application had no active
\* server or a statement failed: the moment between ClearDefaultFlag and Save,
\* when no server is the default (internal/email/service.go:429), loses no mail
\* of the application to another sender (internal/email/repository.go:25).
OwnServerFirst == ~astray

\* The server whose save as the default was the last to succeed stays the
\* default of its scope until a request about that scope clears it, changes it
\* or deletes it, whatever is saved in the other scope meanwhile
\* (internal/email/service.go:428, internal/email/repository.go:129).
DefaultChosen ==
  \A s \in Scope : chosen[s] # None =>
    chosen[s] \in InScope(s) /\ servers[chosen[s]].default

\* A default server stays the default, and an application's mail leaves by its own
\* (internal/email/service.go:428).
ServersKept == TypeOK /\ OwnServerFirst /\ DefaultChosen
=============================================================================
