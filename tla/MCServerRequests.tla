--------------------------- MODULE MCServerRequests ---------------------------
(***************************************************************************)
(* What the server does with a request, checked side by side in one run:   *)
(* the gate every request passes (deduplication, rate limits, quota, and  *)
(* the tenant's limit beside listings), the API keys, the credential store *)
(* (with a listing reader, and with the expiry job), webhook delivery, the *)
(* event store with its projections, the tenant registry and the OAuth     *)
(* server.  The parts share no state here: a behaviour belongs to one of   *)
(* them and the others stay as created.                                    *)
(***************************************************************************)
EXTENDS CredentialStore, ApiKeys, TenantRegistry, OAuthService, WebhookDelivery,
        RequestGate

VARIABLES
  part,
  evlog, torn, archived, aged, seqno, turn, append, rebuild, retention, model, audit,
  mixed, trimmed, swallowed, unwritten, evFaults, evRestarts, rebuilds

E == INSTANCE EventStore WITH
       Events <- {"i", "x"}, KindOf <- [i |-> "issued", x |-> "revoked"],
       MaxEventFaults <- 1, MaxEventRestarts <- 1, MaxRebuilds <- 2

\* Two equal requests and another one
RequestPrints == [a1 |-> "a", a2 |-> "a", b1 |-> "b"]

\* Selections.Filtered is what SelectSeq computes
ASSUME FilteredIsFilter ==
  \A n \in 0 .. 4 : \A s \in [1 .. n -> {"x", "y", "z"}] :
    Filtered(s, {i \in 1 .. n : s[i] # "z"}) = SelectSeq(s, LAMBDA e : e # "z")

\* Admin requests that edit the webhook subscriptions
HookEdits == {[hook |-> "h1", kind |-> "delete"], [hook |-> "h2", kind |-> "create"]}

\* Management requests of the tenant registry
RequestedTenants ==
  {[kind |-> "create", id |-> "t1", sub |-> "none"],
   [kind |-> "create", id |-> "t2", sub |-> "s"],
   [kind |-> "update", id |-> "t1", sub |-> "s"],
   [kind |-> "update", id |-> "t1", sub |-> "t1"],
   [kind |-> "edit",   id |-> "t1", sub |-> "none"],
   [kind |-> "delete", id |-> "t1", sub |-> "none"]}

UnclaimedT1 == [sub |-> "t1", claimed |-> FALSE, rev |-> 0]

\* Requests to the OAuth server
AuthAsk(kind, client, arg, scope, right) ==
  [kind |-> kind, client |-> client, arg |-> arg, scope |-> scope, right |-> right]
RegisteredScope == [k |-> {"r", "w"}, n |-> {"r"}]
RefreshTokens == {<<"rt", "old">>}
AuthScenarios ==
  {[x |-> AuthAsk("authorize", "k", "x", {}, TRUE),
    y |-> AuthAsk("code", "k", "x", {}, TRUE),
    z |-> AuthAsk("code", "k", "x", {}, TRUE)],
   [x |-> AuthAsk("refresh", "k", <<"rt", "old">>, {"r"}, TRUE),
    y |-> AuthAsk("refresh", "k", <<"rt", "old">>, {}, TRUE),
    z |-> AuthAsk("refresh", "k", <<"rt", "x">>, {"r", "w"}, TRUE)],
   [x |-> AuthAsk("register", "none", "none", {}, TRUE),
    y |-> AuthAsk("refresh", "k", <<"rt", "old">>, {}, TRUE),
    z |-> AuthAsk("refresh", "k", <<"rt", "old">>, {}, TRUE)],
   [x |-> AuthAsk("refresh", "k", <<"rt", "old">>, {}, TRUE),
    y |-> AuthAsk("revoke", "none", <<"rt", "old">>, {}, FALSE),
    z |-> AuthAsk("revoke", "k", <<"rt", "old">>, {}, TRUE)],
   [x |-> AuthAsk("register", "none", "none", {}, TRUE),
    y |-> AuthAsk("refresh", "n", <<"rt", "old">>, {}, TRUE),
    z |-> AuthAsk("check", "n", <<"at", "old">>, {}, TRUE)]}

eventVars == <<evlog, torn, archived, aged, seqno, turn, append, rebuild, retention,
               model, audit, mixed, trimmed, swallowed, unwritten, evFaults, evRestarts,
               rebuilds>>
requestVars == <<part, storeVars, hookVars, gateVars, keyVars, eventVars, tenantVars,
                 authVars>>

Init == /\ part \in {"listing", "expiry", "hooks", "gate", "limit", "keys", "events",
                    "tenants", "oauth"}
        /\ StoreInit /\ KeysInit /\ TenantInit /\ AuthInit
        /\ HookInit /\ GateInit /\ E!EventInit
        /\ part = "oauth" \/ req["y"].ask.client = "none"
        /\ part \in {"listing", "expiry"} \/ file = [c \in {"c1"} |-> Absent]
        /\ part = "hooks" \/ hooks = {}
        /\ \/ tenantFile.kind = "missing"
           \/ /\ part = "tenants" /\ tenantFile.map["t1"] = UnclaimedT1
              /\ tenantFile.map["t2"] = NoTenant \/ tenantFile.map["t2"].sub = "t1"
        /\ part = "keys" \/ keyFile.map["k1"] = NoKey

\* The store beside a request that lists, or beside the expiry job without faults
Store == /\ part \in {"listing", "expiry"} /\ StoreNext
         /\ part = "listing" => job' = job
         /\ part = "expiry" => reads' = reads /\ storeFaults' = storeFaults
         /\ UNCHANGED <<part, hookVars, gateVars, keyVars, eventVars, tenantVars, authVars>>
Webhook == /\ part = "hooks" /\ HookNext
           /\ UNCHANGED <<part, storeVars, gateVars, keyVars, eventVars, tenantVars, authVars>>
\* The gate with two equal requests and one that goes no further than the limiter, or two
\* requests beside listings and other tenants
Gate == /\ part \in {"gate", "limit"} /\ GateNext
        /\ part = "gate" => /\ stored' \cap Others = {}
                            /\ \A x \in Listers : scan'[x] = scan[x]
                            /\ call'["b1"].pc \in {"new", "gate", "done"}
        /\ part = "limit" => call'["a2"] = call["a2"]
        /\ UNCHANGED <<part, storeVars, hookVars, keyVars, eventVars, tenantVars, authVars>>
Key == /\ part = "keys" /\ KeysNext
       /\ UNCHANGED <<part, storeVars, hookVars, gateVars, eventVars, tenantVars, authVars>>

Log == /\ part = "events" /\ E!EventNext
       /\ UNCHANGED <<part, storeVars, hookVars, gateVars, keyVars, tenantVars, authVars>>
Registry == /\ part = "tenants" /\ TenantNext
            /\ UNCHANGED <<part, storeVars, hookVars, gateVars, keyVars, eventVars, authVars>>

OAuth == /\ part = "oauth" /\ AuthNext
         /\ UNCHANGED <<part, storeVars, hookVars, gateVars, keyVars, eventVars, tenantVars>>

Next == Store \/ Webhook \/ Gate \/ Key \/ Log \/ Registry \/ OAuth

On(p, A) == part = p /\ A

\* Each part's own fairness, as its module states it
Fairness ==
  /\ \A r \in {"r1", "r2"} : WF_storeVars(On("listing", RequestStep(r)))
  /\ WF_hookVars(On("hooks", Deliver)) /\ WF_hookVars(On("hooks", TriggerEnqueues("v1")))
  /\ \A r \in Calls : WF_gateVars(part \in {"gate", "limit"} /\ CallStep(r))

Spec == Init /\ [][Next]_requestVars /\ Fairness

-----------------------------------------------------------------------------
\* events/event-store.js, event-replay.js: sequence numbers follow the order of the log
\* between restarts, an appended event stays in the log or the archive, and the
\* projections agree with the log when nothing is under way.
EventLogKept ==
  E!EventTypeOK /\ E!NumberedInOrder /\ E!AppendedKept /\ E!ProjectionsCurrent

\* storage.js, webhooks.js, app.js: every request for a credential change is answered,
\* every delivery ends, delivered or given up after its retries, and every admitted
\* request is answered, the waiting duplicates included.
RequestsSettle ==
  /\ part = "listing" => RequestsAnswered
  /\ DeliveriesSettle
  /\ CallsAnswered
=============================================================================
