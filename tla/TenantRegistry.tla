---------------------------- MODULE TenantRegistry ----------------------------
(***************************************************************************)
(* The tenant registry and its management routes                           *)
(* (server/src/tenancy/tenant-registry.js, tenant-routes.js).  Tenants     *)
(* live in a map loaded from tenants.json by init(), which every operation *)
(* awaits and nothing guards against running twice.  An operation checks   *)
(* and changes the map in one turn, then rewrites the whole file in place: *)
(* the rewrite truncates first, rewrites overlap, and a failed one is      *)
(* logged and reported as success.  A failed read is logged and counts as  *)
(* an empty registry, which the default tenant's save puts over the file.  *)
(***************************************************************************)
EXTENDS Integers

CONSTANTS
  Tenants,             \* ids given by requests; "default" is the system tenant
  Admins,              \* management requests
  Asks,                \* what they may ask: [kind, id, sub]
  MaxTenantRestarts,   \* bound: restarts of the process
  MaxTenantFaults      \* bound: reads and saves that fail

ASSUME TenantsAssumption ==
  \A a \in Asks : /\ a.kind \in {"create", "update", "edit", "delete"}
                  /\ a.id \in Tenants \cup {"default"}

VARIABLES
  tenants,       \* id -> [sub, claimed, rev], or NoTenant
  booted,        \* _initialized
  tenantFile,    \* tenants.json: [kind, map], kind "missing", "torn" or "whole"
  admin,         \* request -> [at, kind, id, sub], the map it read or writes, its result
  lateLoad,      \* history: an init() merged the file into a map already in use
  crossedSaves,  \* history: two saves overlapped
  wiped,         \* history: a torn or unreadable file was taken for an empty registry
  tenantRestarts, tenantFaults

tenantVars == <<tenants, booted, tenantFile, admin, lateLoad, crossedSaves, wiped,
                tenantRestarts, tenantFaults>>
tenantHistory == <<lateLoad, crossedSaves, wiped>>
tenantBounds == <<tenantRestarts, tenantFaults>>

Ids == Tenants \cup {"default"}
NoTenant == [sub |-> "none", claimed |-> FALSE, rev |-> 0]
DefaultTenant == [sub |-> "default", claimed |-> TRUE, rev |-> 0]
EmptyMap == [t \in Ids |-> NoTenant]
Unsent == [at |-> "new", kind |-> "none", id |-> "default", sub |-> "none",
           has |-> EmptyMap, want |-> NoTenant]
Given(sub) == sub # "none"

TenantTypeOK ==
  /\ \A t \in Ids : /\ tenants[t].sub \in {a.sub : a \in Asks} \cup Ids \cup {"none"}
                    /\ tenants[t].claimed \in BOOLEAN /\ tenants[t].rev \in Nat
  /\ tenantFile.kind \in {"missing", "torn", "whole"} /\ booted \in BOOLEAN
  /\ \A r \in Admins : admin[r].at \in {"new", "init", "loaded", "bootsave", "bootwrite", "ready",
                                        "save", "writing", "ok", "refused", "cut"}

TenantInit ==
  /\ tenants = EmptyMap /\ booted = FALSE
  /\ tenantFile \in
       {[kind |-> "missing", map |-> EmptyMap]} \cup
       {[kind |-> "whole", map |-> [t \in Ids |->
           IF t = "default" THEN DefaultTenant
           ELSE IF t = c /\ c \in S THEN [sub |-> s, claimed |-> TRUE, rev |-> 0]
           ELSE IF t \in S THEN [sub |-> t, claimed |-> FALSE, rev |-> 0] ELSE NoTenant]] :
         S \in SUBSET Tenants, c \in Tenants, s \in Tenants \ {"default"}}
  /\ admin = [r \in Admins |-> Unsent]
  /\ lateLoad = FALSE /\ crossedSaves = FALSE /\ wiped = FALSE
  /\ tenantRestarts = 0 /\ tenantFaults = 0

-----------------------------------------------------------------------------
Stage(r, at) == admin' = [admin EXCEPT ![r].at = at]

\* A route has validated its body and calls the registry, which awaits init()
Ask(r) ==
  /\ admin[r].at = "new"
  /\ \E a \in Asks :
       admin' = [admin EXCEPT ![r] = [at |-> IF booted THEN "ready" ELSE "init",
                                      kind |-> a.kind, id |-> a.id, sub |-> a.sub,
                                      has |-> EmptyMap, want |-> NoTenant]]
  /\ UNCHANGED <<tenants, booted, tenantFile, tenantHistory, tenantBounds>>

\* init reads the file; what cannot be parsed is logged and counts as nothing
InitReads(r) ==
  /\ admin[r].at = "init"
  /\ admin' = [admin EXCEPT ![r].at = "loaded",
                 ![r].has = IF tenantFile.kind = "whole" THEN tenantFile.map ELSE EmptyMap]
  /\ wiped' = (wiped \/ tenantFile.kind = "torn")
  /\ UNCHANGED <<tenants, booted, tenantFile, lateLoad, crossedSaves, tenantBounds>>

\* mkdir or readFile rejects, not for a missing file: logged, and counts as nothing too
InitReadFails(r) ==
  /\ admin[r].at = "init" /\ tenantFaults < MaxTenantFaults /\ tenantFaults' = tenantFaults + 1
  /\ admin' = [admin EXCEPT ![r].at = "loaded", ![r].has = EmptyMap]
  /\ wiped' = TRUE
  /\ UNCHANGED <<tenants, booted, tenantFile, lateLoad, crossedSaves, tenantRestarts>>

Merged(has) == [t \in Ids |-> IF has[t] # NoTenant THEN has[t] ELSE tenants[t]]

\* ... merges it into the map and adds the default tenant, saved, if missing
InitMerges(r) ==
  /\ admin[r].at = "loaded"
  /\ LET m == Merged(admin[r].has) IN
     IF m["default"] = NoTenant
       THEN tenants' = [m EXCEPT !["default"] = DefaultTenant] /\ Stage(r, "bootsave")
            /\ UNCHANGED booted
       ELSE tenants' = m /\ Stage(r, "ready") /\ booted' = TRUE
  /\ lateLoad' = (lateLoad \/ booted)
  /\ UNCHANGED <<tenantFile, crossedSaves, wiped, tenantBounds>>

-----------------------------------------------------------------------------
(* The operations: check and change the map in one turn *)

Holder(s) == {t \in Ids : tenants[t].sub = s /\ Given(s)}

Mut_Allowed(r) ==
  LET q == admin[r] IN
  CASE q.kind = "create" -> tenants[q.id] = NoTenant /\ Holder(q.sub) = {}
    [] q.kind = "delete" -> q.id # "default" /\ tenants[q.id] # NoTenant
    [] OTHER             -> tenants[q.id] # NoTenant

\* createTenant, updateTenant, deleteTenant and the edits of admins, limits and
\* customization refuse: an id in use, a subdomain in use, an unknown tenant
Allowed(r) ==
  LET q == admin[r] IN
  CASE q.kind = "create" -> tenants[q.id] = NoTenant /\ Holder(q.sub) = {}
    [] q.kind = "update" -> /\ tenants[q.id] # NoTenant
                            /\ q.sub = tenants[q.id].sub \/ Holder(q.sub) = {}
    [] q.kind = "delete" -> q.id # "default" /\ tenants[q.id] # NoTenant
    [] OTHER             -> tenants[q.id] # NoTenant

\* A tenant created without a subdomain gets its id, which nothing checks
CreateTenant(id, sub) == IF Given(sub) THEN [sub |-> sub, claimed |-> TRUE, rev |-> 0]
                         ELSE [sub |-> id, claimed |-> FALSE, rev |-> 0]

UpdateTenant(t, sub) == IF Given(sub) THEN [t EXCEPT !.sub = sub, !.claimed = TRUE] ELSE t

\* The admins, limits and customization of a tenant
EditTenant(t) == [t EXCEPT !.rev = @ + 1]

ChangedTenant(r) ==
  LET q == admin[r]
  IN CASE q.kind = "create" -> CreateTenant(q.id, q.sub)
       [] q.kind = "update" -> UpdateTenant(tenants[q.id], q.sub)
       [] q.kind = "edit"   -> EditTenant(tenants[q.id])
       [] q.kind = "delete" -> NoTenant

Act(r) ==
  /\ admin[r].at = "ready"
  /\ \/ /\ Allowed(r)
        /\ admin' = [admin EXCEPT ![r].at = "save", ![r].want = ChangedTenant(r)]
        /\ tenants' = [tenants EXCEPT ![admin[r].id] = ChangedTenant(r)]
     \/ ~Allowed(r) /\ Stage(r, "refused") /\ UNCHANGED tenants
  /\ UNCHANGED <<booted, tenantFile, tenantHistory, tenantBounds>>

-----------------------------------------------------------------------------
(* _save *)

Writing == {r \in Admins : admin[r].at \in {"writing", "bootwrite"}}

\* The map is serialised and writeFile truncates the file
SaveBegins(r) ==
  /\ admin[r].at \in {"save", "bootsave"}
  /\ admin' = [admin EXCEPT ![r].has = tenants,
                 ![r].at = IF @ = "save" THEN "writing" ELSE "bootwrite"]
  /\ tenantFile' = [kind |-> "torn", map |-> EmptyMap]
  /\ crossedSaves' = (crossedSaves \/ Writing # {})
  /\ UNCHANGED <<tenants, booted, lateLoad, wiped, tenantBounds>>

\* After init's own save the operation itself is still to come
Saved(r) == IF admin[r].at \in {"save", "writing"}
              THEN Stage(r, "ok") /\ UNCHANGED booted
              ELSE Stage(r, "ready") /\ booted' = TRUE

\* What two overlapping writes leave may be a mix of both
SaveEnds(r) ==
  /\ r \in Writing /\ Saved(r)
  /\ tenantFile' \in {[kind |-> "whole", map |-> admin[r].has]} \cup
       (IF Writing = {r} THEN {} ELSE {[kind |-> "torn", map |-> EmptyMap]})
  /\ UNCHANGED <<tenants, tenantHistory, tenantBounds>>

\* mkdir or writeFile rejects: logged, and the caller is told nothing
SaveFails(r) ==
  /\ admin[r].at \in {"save", "bootsave", "writing", "bootwrite"}
  /\ tenantFaults < MaxTenantFaults /\ tenantFaults' = tenantFaults + 1 /\ Saved(r)
  /\ UNCHANGED <<tenants, tenantFile, tenantHistory, tenantRestarts>>

TenantRestart ==
  /\ tenantRestarts < MaxTenantRestarts /\ tenantRestarts' = tenantRestarts + 1
  /\ tenants' = EmptyMap /\ booted' = FALSE
  /\ admin' = [r \in Admins |-> IF admin[r].at \in {"new", "ok", "refused"} THEN admin[r]
                                ELSE [admin[r] EXCEPT !.at = "cut"]]
  /\ UNCHANGED <<tenantFile, tenantHistory, tenantFaults>>

TenantNext ==
  \/ \E r \in Admins : \/ Ask(r) \/ InitReads(r) \/ InitReadFails(r) \/ InitMerges(r) \/ Act(r)
                       \/ SaveBegins(r) \/ SaveEnds(r) \/ SaveFails(r)
  \/ TenantRestart

TenantSpec == TenantInit /\ [][TenantNext]_tenantVars

-----------------------------------------------------------------------------
\* Two tenants hold a subdomain they both asked for only if it is the id of one of them:
\* a tenant gets its id for a subdomain, and may then ask for it, unchecked.  Whatever the
\* order of creations and updates and through failed reads and restarts, unless an init()
\* that was still loading brought the file's tenants back (tenant-registry.js:216-223,
\* 241, 266-271).
ClaimedOnce ==
  ~lateLoad => \A t, u \in Ids :
    t # u /\ tenants[t].claimed /\ tenants[u].claimed /\ tenants[t].sub = tenants[u].sub
    => tenants[t].sub \in {t, u}

\* No other request has come as far as changing r's tenant
Alone(r) == \A q \in Admins :
  q # r /\ admin[q].id = admin[r].id => admin[q].at \notin {"save", "writing", "ok", "cut"}

\* A confirmed change is in force unless a late init() undid it, and still is after
\* a restart unless saves overlapped or failed, or an init() found the file cut off by an
\* interrupted save or could not read it (tenant-registry.js:129-143, 182-190).
ConfirmedInForce ==
  \A r \in Admins :
    /\ booted /\ admin[r].at = "ok" /\ Alone(r) /\ ~lateLoad
    /\ tenantRestarts = 0 \/ ~(crossedSaves \/ wiped \/ tenantFaults > 0)
    => tenants[admin[r].id] = admin[r].want

\* A subdomain asked for has one holder, beside the tenant of that id, and a change answered
\* with success is in force (tenant-registry.js:129-143, 182-190, 216-223, 266-271).
TenantsInForce == TenantTypeOK /\ ClaimedOnce /\ ConfirmedInForce
=============================================================================
