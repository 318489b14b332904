----------------------------- MODULE AccessCaches -----------------------------
(***************************************************************************)
(* What a request may do, and from where: the roles of one user in one     *)
(* application with the permissions cached in Redis (internal/rbac), and   *)
(* the application's IP rules with their copy in memory (internal/geoip).  *)
(*                                                                         *)
(* Both caches are filled by whoever misses and dropped by whoever makes a *)
(* change, in steps of their own.  Role names are not modelled: the routes *)
(* ask for permissions only.                                               *)
(***************************************************************************)
EXTENDS Naturals, FiniteSets

CONSTANTS
  Req,           \* slots for requests being served at the same time
  Role, System,  \* roles of the application, and those that cannot be deleted
  Perm,          \* permissions
  Rule,          \* IP rules
  Allow,         \* rules of the allow list; the others block
  Matching,      \* rules that match the client's address
  MaxRequests,   \* bound: requests served
  MaxErrors,     \* bound: commands and statements that fail
  None           \* nothing

\* Every application has the roles that cannot be deleted.
AccessCachesAssumption ==
  System \subseteq Role /\ MaxRequests \in Nat /\ MaxErrors \in Nat

VARIABLES
  roles,      \* the rows of roles
  perms,      \* the rows of role_permissions
  assigned,   \* the rows of user_roles of the user
  cache,      \* rbac:{app}:{user}, a set of permissions, or None
  rows,       \* ip_rules: each rule is "absent", "on" or "off"
  ruleCache,  \* the rules in memory and whether they are too old, or None
  req,        \* the state of every request slot
  served,     \* requests begun so far
  errors,     \* commands and statements that have failed
  raced,      \* history: a cache was filled, or left, while its source changed
  roleless    \* history: roles a change of role has taken for good

history == <<raced, roleless>>
rbac == <<roles, perms, assigned, cache>>
geoip == <<rows, ruleCache>>
vars == <<rbac, geoip, req, served, errors, history>>

Steps == {"idle", "read", "fill", "list", "drop", "delete", "assign", "restore",
          "rules", "keep", "save", "forget"}
Idle == [pc |-> "idle", role |-> None, new |-> None, had |-> FALSE, value |-> {},
         next |-> "idle"]

Init ==
  /\ roles = Role /\ perms = [r \in Role |-> Perm] /\ assigned = System
  /\ cache = None
  /\ rows = [u \in Rule |-> "on"] /\ ruleCache = None
  /\ req = [r \in Req |-> Idle] /\ served = 0 /\ errors = 0
  /\ raced = {} /\ roleless = {}

-----------------------------------------------------------------------------
At(r, step) == req[r].pc = step

Begin(r, first) ==
  /\ At(r, "idle") /\ served < MaxRequests /\ served' = served + 1
  /\ req' = [req EXCEPT ![r] = first]
  /\ UNCHANGED errors

Goto(r, step) ==
  /\ req' = [req EXCEPT ![r] = IF step = "idle" THEN Idle ELSE [@ EXCEPT !.pc = step]]
  /\ UNCHANGED served

Works == UNCHANGED errors
Fails == errors < MaxErrors /\ errors' = errors + 1

Granted == UNION {perms[x] : x \in assigned}
On == {u \in Rule : rows[u] = "on"}

-----------------------------------------------------------------------------
(* Permissions. *)

\* A hit answers at once; so does an error, after a look at the database.
ResolveUserAccess(r) ==
  /\ cache = None \/ errors < MaxErrors
  /\ Begin(r, [Idle EXCEPT !.pc = "read"])
  /\ UNCHANGED <<rbac, geoip, raced, roleless>>

GetUserPermissions(r) ==
  /\ At(r, "read")
  /\ \/ /\ req' = [req EXCEPT ![r].pc = "fill", ![r].value = Granted]
        /\ Works /\ UNCHANGED served
     \/ Goto(r, "idle") /\ Fails
  /\ UNCHANGED <<rbac, geoip, raced, roleless>>

SetCache(r) ==
  /\ At(r, "fill") /\ Goto(r, "idle")
  /\ \/ /\ cache' = req[r].value /\ Works
        /\ raced' = IF req[r].value # Granted THEN raced \cup {"perms"}
                    ELSE raced \ {"perms"}
     \/ Fails /\ UNCHANGED <<cache, raced>>
  /\ UNCHANGED <<roles, perms, assigned, geoip, roleless>>

CacheExpires ==
  /\ cache # None /\ cache' = None /\ raced' = raced \ {"perms"}
  /\ UNCHANGED <<roles, perms, assigned, geoip, req, served, errors, roleless>>

CreateRole(r) ==
  \E x \in Role \ roles :
    /\ Begin(r, Idle)
    /\ roles' = roles \cup {x} /\ perms' = [perms EXCEPT ![x] = {}]
    /\ UNCHANGED <<assigned, cache, geoip, raced, roleless>>

SetRolePermissions(r) ==
  \E x \in roles, set \in SUBSET Perm :
    /\ Begin(r, [Idle EXCEPT !.pc = "list", !.role = x])
    /\ perms' = [perms EXCEPT ![x] = set]
    /\ UNCHANGED <<roles, assigned, cache, geoip, raced, roleless>>

\* Whoever has the role, up to 10,000 assignments of the application.
InvalidateCacheForRole(r) ==
  /\ At(r, "list")
  /\ \/ Goto(r, IF req[r].role \in assigned THEN "drop" ELSE "idle") /\ Works
     \/ Goto(r, "idle") /\ Fails
  /\ UNCHANGED <<rbac, geoip, raced, roleless>>

\* Mutant of NextAfterChange: the cache is left to expire.
NextAfterChangeIdle == "idle"

NextAfterChange == "drop"

AssignRole(r) ==
  \E x \in roles \ assigned :
    /\ Begin(r, [Idle EXCEPT !.pc = NextAfterChange])
    /\ assigned' = assigned \cup {x}
    /\ UNCHANGED <<roles, perms, cache, geoip, raced, roleless>>

RevokeRole(r) ==
  \E x \in assigned :
    /\ Begin(r, [Idle EXCEPT !.pc = NextAfterChange])
    /\ assigned' = assigned \ {x}
    /\ UNCHANGED <<roles, perms, cache, geoip, raced, roleless>>

\* A change of role revokes the old one, with its cache, and assigns the new one.
UserRoleUpdate(r) ==
  \E x \in assigned : \E y \in Role \ {x} :
    /\ Begin(r, [Idle EXCEPT !.pc = "drop", !.next = "assign", !.role = x, !.new = y])
    /\ assigned' = assigned \ {x}
    /\ UNCHANGED <<roles, perms, cache, geoip, raced, roleless>>

AssignNewRole(r) ==
  LET y == req[r].new IN
  /\ At(r, "assign")
  /\ \/ /\ y \in roles \ assigned /\ assigned' = assigned \cup {y}
        /\ req' = [req EXCEPT ![r] = [Idle EXCEPT !.pc = "drop"]]
        /\ Works /\ UNCHANGED served
     \/ y \notin roles \ assigned /\ Goto(r, "restore") /\ Works /\ UNCHANGED assigned
     \/ Goto(r, "restore") /\ Fails /\ UNCHANGED assigned
  /\ UNCHANGED <<roles, perms, cache, geoip, raced, roleless>>

\* Mutant of Restored: the old role is not put back.
RestoredNot(x) == assigned

Restored(x) == IF x \in roles THEN assigned \cup {x} ELSE assigned

\* Its result is ignored.
RestoreOldRole(r) ==
  LET x == req[r].role IN
  /\ At(r, "restore")
  /\ req' = [req EXCEPT ![r] = [Idle EXCEPT !.pc = "drop"]]
  /\ \/ assigned' = Restored(x) /\ Works
     \/ Fails /\ UNCHANGED assigned
  /\ roleless' = roleless \cup ((roles \cap {x}) \ assigned')
  /\ UNCHANGED <<roles, perms, cache, geoip, served, raced>>

\* Mutant of Deletable: system roles can be deleted.
DeletableAll == roles

Deletable == roles \ System

\* Those who have the role are listed before it is deleted.
DeleteRole(r) ==
  \E x \in Deletable :
    /\ Begin(r, [Idle EXCEPT !.pc = "delete", !.role = x, !.had = x \in assigned])
    /\ UNCHANGED <<rbac, geoip, raced, roleless>>

\* Depending on how the tables were made the assignments go with it, or forbid it.
DeleteRoleRow(r) ==
  LET x == req[r].role IN
  /\ At(r, "delete")
  /\ \/ /\ x \in roles /\ roles' = roles \ {x}
        /\ assigned' = assigned \ {x} /\ perms' = [perms EXCEPT ![x] = {}]
        /\ raced' = raced \cup (IF x \in assigned /\ ~ req[r].had THEN {"perms"} ELSE {})
        /\ Goto(r, IF req[r].had THEN "drop" ELSE "idle") /\ Works
     \/ /\ x \notin roles \/ x \in assigned \/ perms[x] # {}
        /\ Goto(r, "idle") /\ Works /\ UNCHANGED <<roles, assigned, perms, raced>>
     \/ Goto(r, "idle") /\ Fails /\ UNCHANGED <<roles, assigned, perms, raced>>
  /\ UNCHANGED <<cache, geoip, roleless>>

\* A failure is only logged.
InvalidateCache(r) ==
  /\ At(r, "drop") /\ Goto(r, req[r].next)
  /\ \/ cache' = None /\ raced' = raced \ {"perms"} /\ Works
     \/ Fails /\ UNCHANGED <<cache, raced>>
  /\ UNCHANGED <<roles, perms, assigned, geoip, roleless>>

\* The console's forms, and the API.
RoleCreate(r) == CreateRole(r)
PostRole(r) == CreateRole(r)
RolePermissionsUpdate(r) == SetRolePermissions(r)
UserRoleCreate(r) == AssignRole(r)
UserRoleRevoke(r) == RevokeRole(r)

-----------------------------------------------------------------------------
(* IP rules. *)

\* With an allow list the address must be on it, else it must not be blocked.
Allowed(rules) ==
  IF rules \cap Allow # {} THEN rules \cap Allow \cap Matching # {}
  ELSE rules \cap Matching = {}

\* A hit that is not too old answers at once.
EvaluateAccess(r) ==
  /\ IF ruleCache = None THEN TRUE ELSE ruleCache.old
  /\ Begin(r, [Idle EXCEPT !.pc = "rules"])
  /\ UNCHANGED <<rbac, geoip, raced, roleless>>

\* Trying an address through the API or the console.
CheckIPAccess(r) == EvaluateAccess(r)
IPRuleCheckAccess(r) == EvaluateAccess(r)

\* Without rules, for whatever reason, all addresses are let in.
ListByApp(r) ==
  /\ At(r, "rules")
  /\ \/ /\ req' = [req EXCEPT ![r].pc = "keep", ![r].value = On]
        /\ Works /\ UNCHANGED served
     \/ Goto(r, "idle") /\ Fails
  /\ UNCHANGED <<rbac, geoip, raced, roleless>>

KeepRules(r) ==
  /\ At(r, "keep") /\ Goto(r, "idle")
  /\ ruleCache' = [rules |-> req[r].value, old |-> FALSE]
  /\ raced' = IF req[r].value # On THEN raced \cup {"rules"} ELSE raced \ {"rules"}
  /\ UNCHANGED <<rbac, rows, errors, roleless>>

RulesAge ==
  /\ IF ruleCache = None THEN FALSE ELSE ~ ruleCache.old
  /\ ruleCache' = [ruleCache EXCEPT !.old = TRUE]
  /\ UNCHANGED <<rbac, rows, req, served, errors, history>>

\* Mutant of NextAfterSave: the copy in memory is left.
NextAfterSaveIdle == "idle"

NextAfterSave == "forget"

IPRuleCreate(r) ==
  \E u \in Rule, state \in {"on", "off"} :
    /\ rows[u] = "absent" /\ rows' = [rows EXCEPT ![u] = state]
    /\ Begin(r, [Idle EXCEPT !.pc = NextAfterSave])
    /\ UNCHANGED <<rbac, ruleCache, raced, roleless>>

\* The same through the API.
CreateIPRule(r) == IPRuleCreate(r)

\* The row is read, changed and saved whole.
IPRuleUpdate(r) ==
  \E u \in Rule, state \in {"on", "off"} :
    /\ rows[u] # "absent"
    /\ Begin(r, [Idle EXCEPT !.pc = "save", !.role = u, !.had = state = "on"])
    /\ UNCHANGED <<rbac, geoip, raced, roleless>>

\* Save inserts a row that is gone.
SaveIPRule(r) ==
  /\ At(r, "save")
  /\ \/ /\ rows' = [rows EXCEPT ![req[r].role] = IF req[r].had THEN "on" ELSE "off"]
        /\ Goto(r, NextAfterSave) /\ Works
     \/ Goto(r, "idle") /\ Fails /\ UNCHANGED rows
  /\ UNCHANGED <<rbac, ruleCache, raced, roleless>>

IPRuleDelete(r) ==
  \E u \in Rule :
    /\ rows[u] # "absent" /\ rows' = [rows EXCEPT ![u] = "absent"]
    /\ Begin(r, [Idle EXCEPT !.pc = NextAfterSave])
    /\ UNCHANGED <<rbac, ruleCache, raced, roleless>>

InvalidateRules(r) ==
  /\ At(r, "forget") /\ Goto(r, "idle")
  /\ ruleCache' = None /\ raced' = raced \ {"rules"}
  /\ UNCHANGED <<rbac, rows, errors, roleless>>

Next ==
  \/ CacheExpires \/ RulesAge
  \/ \E r \in Req :
       \/ ResolveUserAccess(r) \/ GetUserPermissions(r) \/ SetCache(r)
       \/ RoleCreate(r) \/ PostRole(r)
       \/ SetRolePermissions(r) \/ RolePermissionsUpdate(r) \/ InvalidateCacheForRole(r)
       \/ AssignRole(r) \/ UserRoleCreate(r) \/ RevokeRole(r) \/ UserRoleRevoke(r)
       \/ UserRoleUpdate(r) \/ AssignNewRole(r) \/ RestoreOldRole(r)
       \/ DeleteRole(r) \/ DeleteRoleRow(r) \/ InvalidateCache(r)
       \/ EvaluateAccess(r) \/ CheckIPAccess(r) \/ IPRuleCheckAccess(r)
       \/ ListByApp(r) \/ KeepRules(r)
       \/ IPRuleCreate(r) \/ CreateIPRule(r) \/ IPRuleUpdate(r) \/ SaveIPRule(r)
       \/ IPRuleDelete(r) \/ InvalidateRules(r)

Spec == Init /\ [][Next]_vars

-----------------------------------------------------------------------------
(* Properties. *)

\* The variables have their types, and only roles that exist are assigned.
TypeOK ==
  /\ assigned \subseteq roles /\ System \subseteq roles /\ roles \subseteq Role
  /\ perms \in [Role -> SUBSET Perm] /\ \A x \in Role \ roles : perms[x] = {}
  /\ cache = None \/ cache \subseteq Perm
  /\ rows \in [Rule -> {"absent", "on", "off"}]
  /\ ruleCache = None \/ ruleCache.rules \subseteq Rule
  /\ \A r \in Req : req[r].pc \in Steps
  /\ served \in 0..MaxRequests /\ errors \in 0..MaxErrors
  /\ raced \subseteq {"perms", "rules"}

\* The cached permissions are those the user has, but while a change is being made,
\* after a DEL that failed, and until they expire when a request that had read the
\* older ones fills the cache after the change, or a role is deleted with an
\* assignment made since its holders were listed (rbac/service.go:77, 178-191).
Changing == \E r \in Req : req[r].pc \in {"list", "drop", "assign", "restore"}
PermissionsCurrent ==
  cache \in {None, Granted} \/ Changing \/ "perms" \in raced \/ errors > 0

\* The rules in memory decide as the active ones do, but for the same races and
\* until they are five minutes old (geoip/ip_rules.go:203-217).
RulesCurrent ==
  \/ ruleCache = None \/ "rules" \in raced
  \/ \E r \in Req : At(r, "forget")
  \/ Allowed(ruleCache.rules) = Allowed(On)

\* A change of role that cannot be completed leaves the old role in place, unless a
\* statement fails (admin/gui_handler.go:4804-4812).
OldRoleRestored == roleless = {} \/ errors > 0

\* Decisions follow the rows, whichever cache they are read from, and a change of role
\* that fails leaves the old one (rbac/service.go:77, geoip/ip_rules.go:203,
\* admin/gui_handler.go:4804).
AccessCurrent == TypeOK /\ PermissionsCurrent /\ RulesCurrent /\ OldRoleRestored
=============================================================================
