------------------------------- MODULE MCConsole -------------------------------
(***************************************************************************)
(* What administrators work on, and the services that stand by themselves, *)
(* side by side: a behaviour is one of the module that part names, with    *)
(* the others at rest.  Init, Next and Spec without a prefix are those of  *)
(* LogCleanup.                                                             *)
(***************************************************************************)
EXTENDS LogCleanup, Sequences, TLC

CONSTANTS
  Req, None, MaxRequests, MaxSmall, App,
  MaxServers, StepKm, MaxKm, MaxTime, Order, SparePart, Stock, Items,
  ApiKey, EarlyDays, LastTime, MaxCalls, Tenant, DefaultApp, DefaultTenant, Pair, Default,
  MaxIds, Mailbox, File, MaxUsers,
  SettingKey, Cookie, TypeOf, Value, Valid, DefaultValue, Release, MaxRestarts

VARIABLES
  part, served, now, drawn,
  servers, templates, emailReq, chosen, without, astray,
  vehicle, odometer, readings, telemetry, fleetReq, alerts, lost,
  orders, parts, stock, holder, orderReq, closing,
  keys, since, check, calls, made, ended, mails, calm, unmarked,
  tenants, apps, oauth, appReq, born, was_off, stale,
  account, secret, pending, mailed, magic, latest, sessions, csrf, tokens, adminReq,
  proven, sets, opened, spent, again, pages, crossed,
  users, importReq, imported, created, logged,
  env, table, settingReq, restarts, shown, taken, answered

E == INSTANCE EmailConfig WITH
       MaxIds <- MaxServers, MaxRequests <- MaxSmall, req <- emailReq
F == INSTANCE Fleet WITH req <- fleetReq
W == INSTANCE WorkOrders WITH Part <- SparePart, req <- orderReq
K == INSTANCE ApiKeys WITH Key <- ApiKey
P == INSTANCE Applications WITH MaxForms <- MaxRequests, req <- appReq, begun <- served
A == INSTANCE AdminAccounts WITH req <- adminReq, drawn <- tokens, overlap <- crossed
I == INSTANCE UserImport WITH MaxRequests <- MaxSmall, req <- importReq, made <- imported
S == INSTANCE Settings WITH
       Key <- SettingKey, MaxRequests <- MaxSmall, req <- settingReq

ASSUME ConsoleAssumption ==
  /\ LogCleanupAssumption /\ E!EmailConfigAssumption /\ F!FleetAssumption
  /\ W!WorkOrdersAssumption /\ K!ApiKeysAssumption /\ P!ApplicationsAssumption
  /\ A!AdminAccountsAssumption /\ I!UserImportAssumption
  /\ S!SettingsAssumption

cleanupVars == <<rows, isRunning, totalCleaned, run, shutdown>>

emailVars == <<servers, templates, emailReq, chosen, without, astray>>
fleetVars == <<vehicle, odometer, readings, telemetry, fleetReq, alerts, lost>>
orderVars == <<orders, parts, stock, holder, orderReq, closing>>
keyVars == <<keys, since, check, calls, made, ended, mails, calm, unmarked>>
appVars == <<tenants, apps, oauth, appReq, born, was_off, stale>>
adminVars ==
  <<account, secret, pending, mailed, magic, latest, sessions, csrf, tokens, adminReq,
    proven, sets, opened, spent, again, pages, crossed>>
importVars == <<users, importReq, imported, created, logged>>
settingVars == <<env, table, settingReq, restarts, shown, taken, answered>>
shared == <<served, errors, now, drawn, overlap>>

Parts ==
  {"email", "fleet", "orders", "keys", "apps", "admins", "import", "settings",
   "cleanup"}

\* Of the others, a part that is not run is nothing but None.
AllInit ==
  /\ part \in Parts /\ served = 0 /\ now = 0 /\ drawn = 0 /\ Init
  /\ IF part = "email" THEN E!Init ELSE
       servers = None /\ templates = None /\ emailReq = None /\ chosen = None /\
       without = None /\ astray = None
  /\ IF part = "fleet" THEN F!Init ELSE
       vehicle = None /\ odometer = None /\ readings = None /\ telemetry = None /\
       fleetReq = None /\ alerts = None /\ lost = None
  /\ IF part = "orders" THEN W!Init ELSE
       orders = None /\ parts = None /\ stock = None /\ holder = None /\
       orderReq = None /\ closing = None
  /\ IF part = "keys" THEN K!Init ELSE
       keys = None /\ since = None /\ check = None /\ calls = None /\ made = None /\
       ended = None /\ mails = None /\ calm = None /\ unmarked = None
  /\ IF part = "apps" THEN P!Init ELSE
       tenants = None /\ apps = None /\ oauth = None /\ appReq = None /\
       born = None /\ was_off = None /\ stale = None
  /\ IF part = "admins" THEN A!Init ELSE
       account = None /\ secret = None /\ pending = None /\ mailed = None /\
       magic = None /\ latest = None /\ sessions = None /\ csrf = None /\
       tokens = None /\ adminReq = None /\ proven = None /\ sets = None /\
       opened = None /\ spent = None /\ again = None /\ pages = None /\ crossed = None
  /\ IF part = "import" THEN I!Init ELSE
       users = None /\ importReq = None /\ imported = None /\ created = None /\
       logged = None
  /\ IF part = "settings" THEN S!Init ELSE
       env = None /\ table = None /\ settingReq = None /\ restarts = None /\
       shown = None /\ taken = None /\ answered = None

EmailConfig ==
  /\ part = "email" /\ E!Next
  /\ UNCHANGED <<part, cleanupVars, now, overlap, fleetVars, orderVars, keyVars, appVars,
                 adminVars, importVars, settingVars>>
Fleet ==
  /\ part = "fleet" /\ F!Next
  /\ UNCHANGED <<part, cleanupVars, served, drawn, emailVars, orderVars, keyVars, appVars,
                 adminVars, importVars, settingVars>>
WorkOrders ==
  /\ part = "orders" /\ W!Next
  /\ UNCHANGED <<part, cleanupVars, now, drawn, overlap, emailVars, fleetVars, keyVars, appVars,
                 adminVars, importVars, settingVars>>
ApiKeys ==
  /\ part = "keys" /\ K!Next
  /\ UNCHANGED <<part, cleanupVars, drawn, overlap, emailVars, fleetVars, orderVars, appVars,
                 adminVars, importVars, settingVars>>
Applications ==
  /\ part = "apps" /\ P!Next
  /\ UNCHANGED <<part, cleanupVars, now, emailVars, fleetVars, orderVars, keyVars, adminVars,
                 importVars, settingVars>>
AdminAccounts ==
  /\ part = "admins" /\ A!Next
  /\ UNCHANGED <<part, cleanupVars, now, drawn, overlap, emailVars, fleetVars, orderVars, keyVars,
                 appVars, importVars, settingVars>>
UserImport ==
  /\ part = "import" /\ I!Next
  /\ UNCHANGED <<part, cleanupVars, now, drawn, overlap, emailVars, fleetVars, orderVars, keyVars,
                 appVars, adminVars, settingVars>>
Settings ==
  /\ part = "settings" /\ S!Next
  /\ UNCHANGED <<part, cleanupVars, now, drawn, overlap, emailVars, fleetVars, orderVars, keyVars,
                 appVars, adminVars, importVars>>

LogCleanup ==
  /\ part = "cleanup" /\ Next
  /\ UNCHANGED <<part, served, now, drawn, emailVars, fleetVars, orderVars, keyVars,
                 appVars, adminVars, importVars, settingVars>>

AllNext ==
  \/ EmailConfig \/ Fleet \/ WorkOrders \/ ApiKeys \/ Applications
  \/ AdminAccounts \/ UserImport \/ Settings \/ LogCleanup

AllSpec ==
  /\ AllInit
  /\ [][AllNext]_<<part, shared, cleanupVars, emailVars, fleetVars, orderVars, keyVars,
                   appVars, adminVars, importVars, settingVars>>

Symmetry == Permutations(Req)

-----------------------------------------------------------------------------
(* The instance.                                                           *)

\* A list of one part, of two, of two in the other order, of one twice, and of none.
Lists ==
  {<< <<"p1", 1>> >>, << <<"p1", 2>>, <<"p2", 1>> >>, << <<"p2", 1>>, <<"p1", 1>> >>,
   << <<"p1", 1>>, <<"p1", 1>> >>, << <<"p2", 0>> >>}

\* One mailbox spelled twice, two mailboxes, one after a malformed address.
Files ==
  LET As(m, lower) == [at |-> m, lower |-> lower] IN
  {<<As("m1", FALSE), As("m1", TRUE)>>, <<As("m2", TRUE), As("m1", FALSE)>>,
   <<As(None, TRUE), As("m2", TRUE)>>}

Types == ("cookie" :> "string") @@ ("hours" :> "int")
ValidValues == ("string" :> Value) @@ ("int" :> {"7"})
Defaults == ("cookie" :> "none") @@ ("hours" :> "7")

-----------------------------------------------------------------------------
(* Properties                                                              *)

\* A default server stays the default, and an application's mail leaves by its own
\* (internal/email/service.go:428).
ServersKept == part = "email" => E!ServersKept

\* Every 5000 km are alerted, and once (internal/service/telemetry_service.go:57, 77).
AlertsMatch == part = "fleet" => F!AlertsMatch

\* Stock, orders and costs add up (internal/maintenance/service.go:93, 121).
PartsBalance == part = "orders" => W!PartsBalance

\* A revoked key stays out, and one that expires is warned of in time and once
\* (internal/admin/repository.go:1127, internal/admin/apikey_notification.go:96).
KeysKept == part = "keys" => K!KeysKept

\* Applications, their roles, key pairs and clients are saved whole
\* (internal/admin/repository.go:105, 356, 411).
HalvesMatch == part = "apps" => P!HalvesMatch

\* An administrator's factor was proven, and codes, logins, links and tokens serve
\* once (internal/admin/account_service.go:107, 140, 236, 355).
WaysInGuarded == part = "admins" => A!WaysInGuarded

\* The rows of a file add up to users and reports (admin/repository.go:1371-1419).
ImportsAddUp == part = "import" => I!ImportsAddUp

\* Settings are used as they are saved and shown (admin/settings_service.go:332, 393).
SettingsAgree == part = "settings" => S!SettingsAgree
=============================================================================
