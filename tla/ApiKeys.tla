------------------------------- MODULE ApiKeys -------------------------------
(***************************************************************************)
(* The API key service (server/src/api-keys.js): a map in memory, loaded   *)
(* by whoever comes first and written to a file after every change.        *)
(* persist creates the directory, then serialises the map, then writes and *)
(* renames: two calls that overlap may rename in either order, and         *)
(* validateKey starts one on every use of a key without waiting for it.  A *)
(* load that cannot read the file leaves the map as it is and counts as    *)
(* done: the next persist writes that map over the file.                   *)
(***************************************************************************)
EXTENDS Integers

CONSTANTS Keys, Callers,
          MaxKeyRestarts, MaxKeyFaults, MaxKeyClock   \* bounds; faults: failed reads and writes

ASSUME KeysAssumption == Keys # {}

\* until is expiresAt, 0 for a key without one
NoKey == [status |-> "none", secret |-> 0, until |-> 0]
KeyRecord == [status : {"none", "active", "revoked"}, secret : Nat, until : Nat]
KeyMaps == [Keys -> KeyRecord]
Kinds == {"issue", "validate", "revoke", "delete", "rotate"}

VARIABLES
  keys, loaded,   \* this.keys with this.byHash, this.loaded
  keyFile,        \* [map, stamp]: the renamed file and the change it is from
  stamp,          \* history: number of changes made in memory
  caller,         \* caller -> its operation and the step it waits in
  reloaded,       \* history: a load replaced a map that had been used
  reordered,      \* history: a rename replaced a newer file
  blind,          \* history: this process could not read the file
  overwritten,    \* history: a process that could not read the file changed a key
  keyClock,       \* Date.now()
  keyRestarts, keyFaults

keyVars == <<keys, loaded, keyFile, stamp, caller, reloaded, reordered, blind, overwritten,
             keyClock, keyRestarts, keyFaults>>
keyBounds == <<keyClock, keyRestarts, keyFaults>>

Resting == [at |-> "new", kind |-> "validate", key |-> CHOOSE k \in Keys : TRUE,
            has |-> [k \in Keys |-> NoKey], stamp |-> 0, out |-> "none", secret |-> 0]

KeysTypeOK ==
  /\ keys \in KeyMaps /\ keyFile.map \in KeyMaps
  /\ loaded \in BOOLEAN /\ reloaded \in BOOLEAN /\ reordered \in BOOLEAN
  /\ blind \in BOOLEAN /\ overwritten \in BOOLEAN
  /\ \A c \in Callers : /\ caller[c].at \in {"new", "loading", "ready", "mkdir",
                                             "rename", "done"}
                        /\ caller[c].kind \in Kinds /\ caller[c].has \in KeyMaps
                        /\ caller[c].out \in {"none", "ok", "refused", "failed", "lost"}
  /\ keyFile.stamp <= stamp

KeysInit ==
  /\ keys = [k \in Keys |-> NoKey] /\ loaded = FALSE
  /\ \E m \in [Keys -> {NoKey} \cup [status : {"active", "revoked"}, secret : {1},
                                      until : {0, 1}]] :
       keyFile = [map |-> m, stamp |-> 0]
  /\ stamp = 0
  /\ caller = [c \in Callers |-> Resting]
  /\ reloaded = FALSE /\ reordered = FALSE /\ blind = FALSE /\ overwritten = FALSE
  /\ keyClock = 1 /\ keyRestarts = 0 /\ keyFaults = 0

-----------------------------------------------------------------------------
AskKey(c) ==
  /\ caller[c].at = "new"
  /\ \E kind \in Kinds, k \in Keys, s \in {1} \cup {keys[x].secret : x \in Keys} :
       /\ kind # "validate" => s = 1
       /\ caller' = [caller EXCEPT ![c].at = IF loaded THEN "ready" ELSE "loading",
                                   ![c].kind = kind, ![c].key = k, ![c].secret = s,
                                   ![c].has = IF loaded THEN @ ELSE keyFile.map]
  /\ UNCHANGED <<keys, loaded, keyFile, stamp, reloaded, reordered, blind, overwritten, keyBounds>>

\* load has read the file: the maps are cleared and filled from it, even when
\* another load was faster and its caller has changed them since
Load(c) ==
  /\ caller[c].at = "loading"
  /\ reloaded' = (reloaded \/ (loaded /\ ~blind /\ keys # caller[c].has))
  /\ keys' = caller[c].has /\ loaded' = TRUE /\ blind' = FALSE
  /\ caller' = [caller EXCEPT ![c].at = "ready"]
  /\ UNCHANGED <<keyFile, stamp, reordered, overwritten, keyBounds>>

\* The file is there and cannot be read or parsed: a warning, and loaded all the same
LoadFails(c) ==
  /\ caller[c].at = "loading" /\ keyFaults < MaxKeyFaults
  /\ keyFaults' = keyFaults + 1
  /\ blind' = (blind \/ ~loaded) /\ loaded' = TRUE
  /\ caller' = [caller EXCEPT ![c].at = "ready"]
  /\ UNCHANGED <<keys, keyFile, stamp, reloaded, reordered, overwritten, keyClock, keyRestarts>>

\* A raw key is found through byHash only under its current secret, and must not have expired
Valid(c) ==
  LET r == keys[caller[c].key]
  IN r.status = "active" /\ r.secret = caller[c].secret /\ (r.until = 0 \/ r.until >= keyClock)

\* What the operations do to the map, none of it behind an await.  A rotation without a
\* new term keeps the old one.
Term(n, until) == IF n = 0 THEN until ELSE keyClock + n
IssueKey(k, n) == [status |-> "active", secret |-> stamp + 2, until |-> Term(n, 0)]
RotateKey(k, n) == [status |-> "active", secret |-> stamp + 2, until |-> Term(n, keys[k].until)]
RevokeKey(k) == [keys[k] EXCEPT !.status = "revoked"]
DeleteKey(k) == NoKey

Effect(c, n) ==
  LET k == caller[c].key
  IN CASE caller[c].kind = "issue"  -> IssueKey(k, n)
       [] caller[c].kind = "rotate" -> RotateKey(k, n)
       [] caller[c].kind = "revoke" -> RevokeKey(k)
       [] caller[c].kind = "delete" -> DeleteKey(k)
       [] OTHER -> keys[k]

Possible(c) ==
  CASE caller[c].kind = "issue"    -> keys[caller[c].key] = NoKey   \* a new random id
    [] caller[c].kind = "validate" -> Valid(c)
    [] OTHER -> keys[caller[c].key] # NoKey

RefuseKey(c) ==
  /\ caller[c].at = "ready" /\ ~Possible(c)
  /\ caller' = [caller EXCEPT ![c].at = "done", ![c].out = "refused"]
  /\ UNCHANGED <<keys, loaded, keyFile, stamp, reloaded, reordered, blind, overwritten, keyBounds>>

Mut_Apply(c) ==
  /\ caller[c].at = "ready" /\ Possible(c)
  /\ stamp' = stamp + 1
  /\ \E n \in {0, 1} : keys' = IF caller[c].kind = "revoke" THEN keys
                               ELSE [keys EXCEPT ![caller[c].key] = Effect(c, n)]
  /\ caller' = [caller EXCEPT ![c].at = "mkdir",
                              ![c].out = IF caller[c].kind = "validate" THEN "ok" ELSE @]
  /\ overwritten' = (overwritten \/ blind)
  /\ UNCHANGED <<loaded, keyFile, reloaded, reordered, blind, keyBounds>>

\* validateKey touches lastUsedAt and answers before its persist has ended; n is
\* expiresInDays
Apply(c) ==
  /\ caller[c].at = "ready" /\ Possible(c)
  /\ stamp' = stamp + 1
  /\ \E n \in {0, 1} : keys' = [keys EXCEPT ![caller[c].key] = Effect(c, n)]
  /\ caller' = [caller EXCEPT ![c].at = "mkdir",
                              ![c].out = IF caller[c].kind = "validate" THEN "ok" ELSE @]
  /\ overwritten' = (overwritten \/ blind)
  /\ UNCHANGED <<loaded, keyFile, reloaded, reordered, blind, keyBounds>>

Serialise(c) ==
  /\ caller[c].at = "mkdir"
  /\ caller' = [caller EXCEPT ![c].at = "rename", ![c].has = keys, ![c].stamp = stamp]
  /\ UNCHANGED <<keys, loaded, keyFile, stamp, reloaded, reordered, blind, overwritten, keyBounds>>

Renamed(c) ==
  /\ caller[c].at = "rename"
  /\ keyFile' = [map |-> caller[c].has, stamp |-> caller[c].stamp]
  /\ reordered' = (reordered \/ caller[c].stamp < keyFile.stamp)
  /\ caller' = [caller EXCEPT ![c].at = "done", ![c].out = "ok"]
  /\ UNCHANGED <<keys, loaded, stamp, reloaded, blind, overwritten, keyBounds>>

\* The error is thrown to the caller (validateKey only logs it); the change
\* stays in memory
PersistFails(c) ==
  /\ caller[c].at = "rename" /\ keyFaults < MaxKeyFaults
  /\ keyFaults' = keyFaults + 1
  /\ caller' = [caller EXCEPT ![c].at = "done",
                              ![c].out = IF caller[c].kind = "validate" THEN @ ELSE "failed"]
  /\ UNCHANGED <<keys, loaded, keyFile, stamp, reloaded, reordered, blind, overwritten, keyClock,
                 keyRestarts>>

RestartKeys ==
  /\ keyRestarts < MaxKeyRestarts
  /\ keyRestarts' = keyRestarts + 1
  /\ keys' = [k \in Keys |-> NoKey] /\ loaded' = FALSE /\ blind' = FALSE
  /\ caller' = [c \in Callers |->
       IF caller[c].at \in {"new", "done"} THEN caller[c]
       ELSE [caller[c] EXCEPT !.at = "done", !.out = IF @ = "ok" THEN @ ELSE "lost"]]
  /\ UNCHANGED <<keyFile, stamp, reloaded, reordered, overwritten, keyClock, keyFaults>>

KeyTick ==
  /\ keyClock < MaxKeyClock /\ keyClock' = keyClock + 1
  /\ UNCHANGED <<keys, loaded, keyFile, stamp, caller, reloaded, reordered, blind, overwritten,
                 keyRestarts, keyFaults>>

CallerStep(c) ==
  \/ AskKey(c) \/ Load(c) \/ LoadFails(c) \/ RefuseKey(c) \/ Apply(c) \/ Serialise(c)
  \/ Renamed(c) \/ PersistFails(c)

KeysNext == (\E c \in Callers : CallerStep(c)) \/ RestartKeys \/ KeyTick

KeysSpec == KeysInit /\ [][KeysNext]_keyVars

-----------------------------------------------------------------------------
Confirmed(c, kind) == caller[c].kind = kind /\ caller[c].out = "ok"
Untouched(c) ==
  \A d \in Callers : d # c /\ caller[d].key = caller[c].key
    => caller[d].kind = "validate" \/ caller[d].at \in {"new", "loading"}

\* A confirmed revocation or deletion that nothing overrode is in force and
\* stays so across restarts, unless two loads or two renames crossed, or a process
\* that could not read the file changed a key and so wrote over it.
RemovalEnforced ==
  \A c \in Callers :
    /\ Confirmed(c, "revoke") \/ Confirmed(c, "delete")
    /\ Untouched(c) /\ ~reloaded /\ ~reordered /\ ~overwritten
    => /\ keys[caller[c].key].status # "active"
       /\ keyFile.map[caller[c].key].status # "active"

\* A confirmed new or rotated key is the one in the file, under the same exceptions,
\* and the one in memory once it is loaded: a process that could not read the file
\* knows no key, and the next one does.
GrantEnforced ==
  \A c \in Callers :
    /\ Confirmed(c, "issue") \/ Confirmed(c, "rotate")
    /\ Untouched(c) /\ ~reloaded /\ ~reordered /\ ~overwritten
    => /\ loaded /\ ~blind => keys[caller[c].key].status = "active"
       /\ keyFile.map[caller[c].key].status = "active"

\* A key that was revoked or removed stops working and one that was issued or rotated
\* in goes on working, restarts and failed reads included (api-keys.js:27-68, 121-270).
KeysEnforced == KeysTypeOK /\ RemovalEnforced /\ GrantEnforced
=============================================================================
