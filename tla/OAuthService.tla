----------------------------- MODULE OAuthService -----------------------------
(***************************************************************************)
(* The OAuth server (server/src/oauth.js): clients and tokens in memory,   *)
(* loaded from a file by whoever comes first and written to it after every *)
(* change, and authorization codes that are never written.  load() sets    *)
(* the records of the file over those in memory, also when another load    *)
(* was faster; a file that cannot be read is logged and counts as loaded;  *)
(* persist() serialises after an await and renames after others, so two of *)
(* them may rename in either order.                                        *)
(***************************************************************************)
EXTENDS Integers, FiniteSets

CONSTANTS
  AuthCalls,                    \* requests, and what a request creates is named by it
  Scenarios,                  \* bound: what the callers ask for, one by one
  Clients, NewClient,         \* clients in the file, and one registerClient adds
  ClientScope, OwnerScope,    \* client -> its registered scopes; the approver's scopes
  Perishable,                 \* bound: the tokens whose expiry is followed
  MaxAuthRestarts, MaxStoreFailures    \* bounds

Issuers == AuthCalls \cup {"old"}     \* "old": issued before this process started
Tokens == {"at", "rt"} \X Issuers   \* access and refresh tokens
NoToken == [client |-> "none", scope |-> {}, revoked |-> FALSE]
NoCode == [client |-> "none", scope |-> {}]

ASSUME AuthAssumption ==
  /\ "old" \notin AuthCalls /\ Clients # {} /\ "none" \notin Clients \cup {NewClient}
  /\ Perishable \subseteq Tokens
  /\ \A asked \in Scenarios, c \in AuthCalls :
       /\ asked[c].kind = "code" => asked[c].arg \in AuthCalls
       /\ asked[c].kind \in {"refresh", "revoke", "check"} => asked[c].arg \in Tokens

VARIABLES
  clients, codes, tokens, authLoaded,  \* this.clients, .authCodes, .accessTokens with
                                       \* .refreshTokens, .loaded
  authBlind,     \* this process began on an empty memory: it could not read the file
  authFile,      \* the renamed file, with the change it is from
  change,        \* history: number of changes made in memory
  req,           \* caller -> its request and the step it waits in
  expired,       \* tokens whose expiresAt has passed
  authLate,      \* history: a load replaced records that had changed or were missed
  authCrossed,   \* history: a rename replaced a newer file, or one that was not read
  leaned,        \* history: tokens reported revoked on the strength of memory alone, the
                 \* file not having them revoked
  authRestarts, storeFailures

authVars == <<clients, codes, tokens, authLoaded, authBlind, authFile, change, req, expired,
              authLate, authCrossed, leaned, authRestarts, storeFailures>>

Old == [t \in Tokens |-> IF t[2] = "old"
          THEN LET first == CHOOSE k \in Clients : TRUE
               IN [client |-> first, scope |-> ClientScope[first] \cap OwnerScope, revoked |-> FALSE]
          ELSE NoToken]
NoSnapshot == [clients |-> {}, tokens |-> Old, change |-> 0]

AuthTypeOK ==
  /\ clients \subseteq Clients \cup {NewClient} /\ DOMAIN tokens = Tokens
  /\ authFile.change <= change /\ expired \cup leaned \subseteq Tokens
  /\ \A c \in AuthCalls :
       /\ req[c].at \in {"new", "loading", "read", "ready", "mkdir", "rename", "done"}
       /\ req[c].out \in {"none", "ok", "refused", "failed", "lost"}
  /\ authLoaded \in BOOLEAN /\ authBlind \in BOOLEAN /\ authLate \in BOOLEAN /\ authCrossed \in BOOLEAN

AuthInit ==
  /\ clients = {} /\ codes = [c \in AuthCalls |-> NoCode]
  /\ tokens = [t \in Tokens |-> NoToken] /\ authLoaded = FALSE /\ authBlind = FALSE
  /\ authFile = [clients |-> Clients, tokens |-> Old, change |-> 0] /\ change = 0
  /\ \E asked \in Scenarios :
       req = [c \in AuthCalls |-> [at |-> "new", ask |-> asked[c], has |-> NoSnapshot,
                                 out |-> "none", granted |-> FALSE]]
  /\ expired = {}
  /\ authLate = FALSE /\ authCrossed = FALSE /\ leaned = {}
  /\ authRestarts = 0 /\ storeFailures = 0

-----------------------------------------------------------------------------
\* Tokens are random (oauth.js:36): nobody presents one that was not issued before
Presentable(a) ==
  a.kind \in {"refresh", "revoke", "check"} =>
    a.arg[2] = "old" \/ (a.arg[2] \in AuthCalls /\ req[a.arg[2]].granted)

\* A request comes in; load() does nothing once a load has ended
Asked(c) ==
  /\ req[c].at = "new" /\ Presentable(req[c].ask)
  /\ req' = [req EXCEPT ![c].at = IF authLoaded THEN "ready" ELSE "loading"]
  /\ UNCHANGED <<clients, codes, tokens, authLoaded, authBlind, authFile, change, expired, authLate,
                 authCrossed, leaned, authRestarts, storeFailures>>

\* The file is read two awaits later, and its records set when it has been read
Reads(c) ==
  /\ req[c].at = "loading"
  /\ req' = [req EXCEPT ![c].at = "read", ![c].has = authFile]
  /\ UNCHANGED <<clients, codes, tokens, authLoaded, authBlind, authFile, change, expired, authLate,
                 authCrossed, leaned, authRestarts, storeFailures>>

Loads(c) ==
  LET f == req[c].has
      merged == [t \in Tokens |-> IF f.tokens[t] # NoToken THEN f.tokens[t] ELSE tokens[t]]
  IN /\ req[c].at = "read"
     /\ clients' = clients \cup f.clients /\ tokens' = merged /\ authLoaded' = TRUE
     /\ authLate' = (authLate \/ (authLoaded /\ merged # tokens))
     /\ req' = [req EXCEPT ![c].at = "ready", ![c].has = NoSnapshot]
     /\ UNCHANGED <<codes, authBlind, authFile, change, expired, authCrossed, leaned,
                    authRestarts, storeFailures>>

\* The read fails, not for a missing file: logged, and the load has ended all the same
AuthReadFails(c) ==
  /\ req[c].at = "loading" /\ storeFailures < MaxStoreFailures
  /\ storeFailures' = storeFailures + 1
  /\ authLoaded' = TRUE /\ authBlind' = (authBlind \/ ~authLoaded)
  /\ req' = [req EXCEPT ![c].at = "ready"]
  /\ UNCHANGED <<clients, codes, tokens, authFile, change, expired, authLate, authCrossed,
                 leaned, authRestarts>>

Done(c, out) ==
  req' = [req EXCEPT ![c].at = "done", ![c].out = out, ![c].has = NoSnapshot]

-----------------------------------------------------------------------------
\* _requireClient: a known client that proves itself
Authentic(a) == a.client \in clients /\ a.right
\* introspect and revoke authenticate a client only when one is named
Optional(a) == a.client = "none" \/ Authentic(a)
Live(t) == tokens[t] # NoToken /\ ~tokens[t].revoked /\ t \notin expired

\* authorize: the scopes asked for, or all of the client's
Effective(a) == IF a.scope # {} THEN a.scope ELSE ClientScope[a.client]
Approvable(a) ==
  /\ Authentic(a)   \* here: the redirect URI is registered
  /\ Effective(a) \subseteq ClientScope[a.client] \cap OwnerScope

Redeemable(a) == /\ Authentic(a) /\ codes[a.arg] # NoCode
                 /\ codes[a.arg].client = a.client
\* exchangeRefreshToken: the scope may narrow
Rotatable(a) == /\ Authentic(a) /\ Live(a.arg) /\ tokens[a.arg].client = a.client
                /\ a.scope \subseteq tokens[a.arg].scope

Denied(a) ==
  CASE a.kind = "authorize" -> ~Approvable(a)
    [] a.kind = "code"      -> ~Redeemable(a)
    [] a.kind = "refresh"   -> ~Rotatable(a)
    [] a.kind = "revoke"    -> ~Optional(a)
    [] a.kind = "check"     -> ~Optional(a) \/ ~Live(a.arg)
    [] OTHER                -> FALSE

Refuses(c) ==
  /\ req[c].at = "ready" /\ Denied(req[c].ask)
  /\ Done(c, "refused")
  /\ UNCHANGED <<clients, codes, tokens, authLoaded, authBlind, authFile, change, expired, authLate,
                 authCrossed, leaned, authRestarts, storeFailures>>

\* A change in memory, with the persist that follows it
Changes(c, grants) ==
  /\ change' = change + 1
  /\ req' = [req EXCEPT ![c].at = "mkdir", ![c].granted = grants]
  /\ UNCHANGED <<authLoaded, authBlind, authFile, expired, authLate, authCrossed, leaned, authRestarts,
                 storeFailures>>
Answers(c) ==
  /\ Done(c, "ok")
  /\ UNCHANGED <<clients, tokens, authLoaded, authBlind, authFile, change, expired, authLate, authCrossed,
                 authRestarts, storeFailures>>

\* _issueTokenPair
Pair(map, c, client, scope) ==
  [t \in Tokens |-> IF t[2] = c THEN [client |-> client, scope |-> scope, revoked |-> FALSE]
                    ELSE map[t]]
WithRevoked(t) == [tokens EXCEPT ![t].revoked = TRUE]

Asking(c, kind) == req[c].at = "ready" /\ req[c].ask.kind = kind /\ ~Denied(req[c].ask)

RegisterClient(c) ==
  /\ Asking(c, "register") /\ clients' = clients \cup {NewClient}
  /\ Changes(c, FALSE) /\ UNCHANGED <<codes, tokens>>

\* Codes stay in memory: there is nothing to persist
Authorize(c) ==
  LET a == req[c].ask IN
  /\ Asking(c, "authorize")
  /\ codes' = [codes EXCEPT ![c] = [client |-> a.client, scope |-> Effective(a)]]
  /\ Answers(c) /\ UNCHANGED leaned

\* exchangeAuthorizationCode: the code is deleted before the first await
ExchangeCode(c) ==
  LET a == req[c].ask
      code == codes[a.arg]
  IN /\ Asking(c, "code")
     /\ codes' = [codes EXCEPT ![a.arg] = NoCode]
     /\ tokens' = Pair(tokens, c, code.client, code.scope)
     /\ Changes(c, TRUE) /\ UNCHANGED clients

Mut_ExchangeRefreshToken(c) ==
  LET a == req[c].ask
      scope == IF a.scope # {} THEN a.scope ELSE tokens[a.arg].scope
  IN /\ Asking(c, "refresh")
     /\ tokens' = Pair(tokens, c, a.client, scope)
     /\ Changes(c, TRUE) /\ UNCHANGED <<clients, codes>>

\* exchangeRefreshToken: the old token is revoked and a pair issued, one persist for both
ExchangeRefreshToken(c) ==
  LET a == req[c].ask
      scope == IF a.scope # {} THEN a.scope ELSE tokens[a.arg].scope
  IN /\ Asking(c, "refresh")
     /\ tokens' = Pair(WithRevoked(a.arg), c, a.client, scope)
     /\ Changes(c, TRUE) /\ UNCHANGED <<clients, codes>>

\* revoke: a token unknown or already revoked is reported as done, without a persist
Revoke(c) ==
  LET t == req[c].ask.arg IN
  /\ Asking(c, "revoke") /\ UNCHANGED codes
  /\ IF tokens[t] # NoToken /\ ~tokens[t].revoked
     THEN tokens' = WithRevoked(t) /\ Changes(c, FALSE) /\ UNCHANGED clients
     ELSE /\ leaned' = IF /\ tokens[t] # NoToken \/ authFile.tokens[t] # NoToken
                          /\ ~authFile.tokens[t].revoked
                         THEN leaned \cup {t} ELSE leaned
          /\ Answers(c)

\* introspect and validateAccessToken of a live token
Check(c) == Asking(c, "check") /\ Answers(c) /\ UNCHANGED <<codes, leaned>>

-----------------------------------------------------------------------------
(* persist *)
Serialises(c) ==
  /\ req[c].at = "mkdir"
  /\ req' = [req EXCEPT ![c].at = "rename",
               ![c].has = [clients |-> clients, tokens |-> tokens, change |-> change]]
  /\ UNCHANGED <<clients, codes, tokens, authLoaded, authBlind, authFile, change, expired, authLate,
                 authCrossed, leaned, authRestarts, storeFailures>>

Renames(c) ==
  /\ req[c].at = "rename" /\ authFile' = req[c].has
  /\ authCrossed' = (authCrossed \/ authBlind \/ req[c].has.change < authFile.change)
  /\ Done(c, "ok")
  /\ UNCHANGED <<clients, codes, tokens, authLoaded, authBlind, change, expired, authLate, leaned,
                 authRestarts, storeFailures>>

\* The request fails with the write; the change stays in memory
AuthWriteFails(c) ==
  /\ req[c].at = "rename" /\ storeFailures < MaxStoreFailures
  /\ storeFailures' = storeFailures + 1
  /\ Done(c, "failed")
  /\ UNCHANGED <<clients, codes, tokens, authLoaded, authBlind, authFile, change, expired, authLate,
                 authCrossed, leaned, authRestarts>>

\* expiresAt passes; an expired code is pruned or refused
TokenExpires(t) ==
  /\ Live(t)
  /\ expired' = expired \cup {t}
  /\ UNCHANGED <<clients, codes, tokens, authLoaded, authBlind, authFile, change, req, authLate,
                 authCrossed, leaned, authRestarts, storeFailures>>
CodeExpires(c) ==
  /\ codes[c] # NoCode /\ codes' = [codes EXCEPT ![c] = NoCode]
  /\ UNCHANGED <<clients, tokens, authLoaded, authBlind, authFile, change, req, expired, authLate,
                 authCrossed, leaned, authRestarts, storeFailures>>

RestartServer ==
  /\ authRestarts < MaxAuthRestarts /\ authRestarts' = authRestarts + 1
  /\ clients' = {} /\ codes' = [c \in AuthCalls |-> NoCode]
  /\ tokens' = [t \in Tokens |-> NoToken] /\ authLoaded' = FALSE /\ authBlind' = FALSE
  /\ req' = [c \in AuthCalls |-> IF req[c].at \in {"new", "done"} THEN req[c]
                               ELSE [req[c] EXCEPT !.at = "done", !.out = "lost",
                                                   !.has = NoSnapshot]]
  /\ UNCHANGED <<authFile, change, expired, authLate, authCrossed, leaned, storeFailures>>

AuthNext ==
  \/ \E c \in AuthCalls :
       \/ Asked(c) \/ Reads(c) \/ Loads(c) \/ AuthReadFails(c) \/ Refuses(c) \/ RegisterClient(c)
       \/ Authorize(c) \/ ExchangeCode(c) \/ ExchangeRefreshToken(c) \/ Revoke(c) \/ Check(c)
       \/ Serialises(c) \/ Renames(c) \/ AuthWriteFails(c) \/ CodeExpires(c)
  \/ \E t \in Perishable : TokenExpires(t)
  \/ RestartServer

AuthSpec == AuthInit /\ [][AuthNext]_authVars

-----------------------------------------------------------------------------
\* A code buys one pair of tokens, whatever requests race and restarts come between
\* ("so a replayed code can never succeed twice, even under concurrent requests",
\* oauth.js:301-303).
OnePairPerCode ==
  \A x \in AuthCalls :
    Cardinality({c \in AuthCalls : /\ req[c].ask.kind = "code" /\ req[c].ask.arg = x
                                 /\ req[c].granted}) <= 1

\* The claim of oauth.js:335-337 as it stands: "the presented refresh token is single-use
\* going forward".  It does not hold: a load still under way, or a rename that comes
\* late, brings the token's old record back.
RefreshTokenSingleUse ==
  \A t \in Tokens :
    Cardinality({c \in AuthCalls : /\ req[c].ask.kind = "refresh" /\ req[c].ask.arg = t
                                 /\ req[c].out = "ok"}) <= 1

\* A refresh token buys one pair that is answered, failed reads and restarts included,
\* unless two loads or two renames crossed or a rename put the memory of a process that
\* could not read the file over it (oauth.js:84-104, 335-340).
OnePairPerRefreshToken == authLate \/ authCrossed \/ RefreshTokenSingleUse

\* A token reported revoked is dead in memory and in the file, unless loads or renames
\* crossed, an unread file was replaced, or the report leaned on another request's
\* unfinished write or on a memory that had not read the token (oauth.js:366-380).
RevokedForGood ==
  \A c \in AuthCalls :
    LET t == req[c].ask.arg IN
    /\ req[c].ask.kind = "revoke" /\ req[c].out = "ok"
    /\ ~authLate /\ ~authCrossed /\ t \notin leaned
    => /\ tokens[t] = NoToken \/ tokens[t].revoked
       /\ authFile.tokens[t] = NoToken \/ authFile.tokens[t].revoked

\* A pair that was answered is in the file and, once that was read, in memory, unless
\* renames crossed or an unread file was replaced (oauth.js:248-285, 84-117).
AnsweredPairsKept ==
  \A c \in AuthCalls :
    req[c].granted /\ req[c].out = "ok" /\ ~authCrossed
    => \A k \in {"at", "rt"} : /\ authFile.tokens[<<k, c>>] # NoToken
                               /\ authLoaded /\ ~authBlind => tokens[<<k, c>>] # NoToken

\* Along any chain of grants a token carries only scopes that its client registered and
\* the approver holds (oauth.js:219-231, 322-333).
ScopesNeverWiden ==
  \A t \in Tokens : tokens[t] # NoToken =>
    tokens[t].scope \subseteq ClientScope[tokens[t].client] \cap OwnerScope

\* A code and a refresh token buy one pair each, what was reported revoked is dead, an
\* answered pair goes on working, failed reads and restarts included, and no chain of grants widens
\* the approved scopes (oauth.js:205-341, 366-380).
TokensSound ==
  /\ AuthTypeOK
  /\ OnePairPerCode /\ OnePairPerRefreshToken /\ RevokedForGood
  /\ AnsweredPairsKept /\ ScopesNeverWiden
=============================================================================
