------------------------ MODULE IdentityRegistryProofs ------------------------
(***************************************************************************)
(* Proofs about the identity registry: the types of its storage, and that  *)
(* the registry stays consistent, whatever the accounts and limits are.    *)
(***************************************************************************)
EXTENDS IdentityRegistry, FiniteSetTheorems, TLAPS

\* What the entry points write into a stored document is a document again.
LEMMA DocumentWrites ==
    ASSUME NEW d \in DidDocument
    PROVE  /\ \A b \in BOOLEAN : [d EXCEPT !.active = b] \in DidDocument
           /\ \A m \in MetadataShape : [d EXCEPT !.metadata = m] \in DidDocument
           /\ \A S \in SUBSET ServiceEndpoint : [d EXCEPT !.services = S] \in DidDocument
           /\ \A c \in Address : [d EXCEPT !.controller = c] \in DidDocument
  BY DEF DidDocument

LEMMA InitTypeOK == Init => TypeOK
<1>1. Init => paused \in BOOLEAN
  BY DEF Init
<1> QED
  BY <1>1 DEF Init, TypeOK

\* Every entry point preserves the types.
LEMMA TypeStep == TypeOK /\ [Next]_vars => TypeOK'
<1> SUFFICES ASSUME TypeOK, [Next]_vars PROVE TypeOK'
  OBVIOUS
<1> USE NoneAssumption, BoundAssumption
<1>1. ASSUME NEW a \in Address, NEW b \in Address,
             \/ Initialize(a) \/ TransferAdmin(a, b) \/ ProposeAdmin(a, b)
             \/ AcceptAdmin(a) \/ Pause(a) \/ Unpause(a)
      PROVE  TypeOK'
  <2>1. paused' \in BOOLEAN
    BY <1>1 DEF TypeOK, Initialize, TransferAdmin, ProposeAdmin, AcceptAdmin, Pause,
                Unpause
  <2> QED
    BY <1>1, <2>1 DEF TypeOK, Initialize, TransferAdmin, ProposeAdmin, AcceptAdmin,
                      Pause, Unpause, registry, recovery, roles
<1>2. ASSUME NEW a \in Address, NEW c \in Address, ReactivateDid(a, c)
      PROVE  TypeOK'
  <2>1. docs[c] \in DidDocument
    BY <1>2 DEF ReactivateDid, Exists, TypeOK
  <2>2. [docs[c] EXCEPT !.active = TRUE] \in DidDocument
    BY <2>1, DocumentWrites
  <2>3. docs' \in {docs, [docs EXCEPT ![c] = [docs[c] EXCEPT !.active = TRUE]]}
    BY <1>2 DEF ReactivateDid
  <2>4. docs' \in [Address -> DidDocument \cup {None}]
    BY <2>2, <2>3 DEF TypeOK
  <2>5. did_count' \in Nat
    BY <1>2 DEF TypeOK, ReactivateDid
  <2> QED
    BY <1>2, <2>4, <2>5 DEF TypeOK, ReactivateDid, recovery, roles
<1>3. ASSUME NEW c \in Address, NEW m \in MetadataInput, CreateDid(c, m)
      PROVE  TypeOK'
  BY <1>3 DEF TypeOK, CreateDid, NewDocument, DidDocument, recovery, roles
<1>4. ASSUME NEW c \in Address, NEW m \in MetadataInput, UpdateDid(c, m)
      PROVE  TypeOK'
  BY <1>4 DEF TypeOK, UpdateDid, UpdateAllowed, IsActive, Exists, DidDocument,
              recovery, roles
<1>5. ASSUME NEW batch \in CreateBatches, CreateDidsBatch(batch)
      PROVE  TypeOK'
  <2>1. PICK S \in SUBSET Address : batch \in [S -> MetadataInput]
    BY DEF CreateBatches
  <2>2. IsFiniteSet(S)
    BY AddressAssumption, FS_Subset
  <2>3. Cardinality(DOMAIN batch) \in Nat
    BY <2>1, <2>2, FS_CardinalityType
  <2>4. docs' \in [Address -> DidDocument \cup {None}]
    BY <1>5, <2>1 DEF TypeOK, CreateDidsBatch, NewDocument, DidDocument
  <2> QED
    BY <1>5, <2>3, <2>4 DEF TypeOK, CreateDidsBatch, recovery, roles
<1>6. ASSUME NEW entries \in UpdateBatches, UpdateDidsBatch(entries)
      PROVE  TypeOK'
  <2>1. \A i \in DOMAIN entries : entries[i] \in UpdateEntry
    BY DEF UpdateBatches
  <2>2. docs' \in [Address -> DidDocument \cup {None}]
    <3> DEFINE Hit(c, i) == /\ entries[i].controller = c
                            /\ UpdateAllowed(c, entries[i].metadata)
               Final(c, i) == /\ Hit(c, i)
                              /\ \A j \in DOMAIN entries : Hit(c, j) => j <= i
               Last(c) == CHOOSE i \in DOMAIN entries : Final(c, i)
               NewDoc(c) == IF \E i \in DOMAIN entries : Final(c, i)
                            THEN [docs[c] EXCEPT !.metadata = entries[Last(c)].metadata]
                            ELSE docs[c]
    <3>1. docs' = [c \in Address |-> NewDoc(c)]
      BY <1>6 DEF UpdateDidsBatch
    <3>2. ASSUME NEW c \in Address PROVE NewDoc(c) \in DidDocument \cup {None}
      <4>1. CASE \E i \in DOMAIN entries : Final(c, i)
        <5>1. Last(c) \in DOMAIN entries /\ Final(c, Last(c))
          BY <4>1
        <5>2. entries[Last(c)].metadata \in MetadataShape
          BY <5>1, <2>1 DEF UpdateEntry
        <5>3. docs[c] \in DidDocument
          BY <5>1 DEF TypeOK, UpdateAllowed, IsActive, Exists
        <5> HIDE DEF Last
        <5> QED
          BY <4>1, <5>2, <5>3 DEF DidDocument
      <4>2. CASE ~\E i \in DOMAIN entries : Final(c, i)
        BY <4>2 DEF TypeOK
      <4> QED BY <4>1, <4>2
    <3> HIDE DEF NewDoc
    <3> QED BY <3>1, <3>2
  <2> QED
    BY <1>6, <2>2 DEF TypeOK, UpdateDidsBatch, recovery, roles
<1>7. ASSUME NEW c \in Address, NEW service \in ServiceEndpoint, AddService(c, service)
      PROVE  TypeOK'
  <2>1. docs[c] \in DidDocument /\ docs[c].services \in SUBSET ServiceEndpoint
    BY <1>7 DEF AddService, IsActive, Exists, TypeOK, DidDocument
  <2>2. [docs[c] EXCEPT !.services = @ \cup {service}] \in DidDocument
    BY <2>1, DocumentWrites
  <2> QED
    BY <1>7, <2>2 DEF TypeOK, AddService, recovery, roles
<1>8. ASSUME NEW c \in Address, NEW id \in ServiceId, RemoveService(c, id)
      PROVE  TypeOK'
  <2>1. docs[c] \in DidDocument /\ docs[c].services \in SUBSET ServiceEndpoint
    BY <1>8 DEF RemoveService, IsActive, Exists, TypeOK, DidDocument
  <2>2. [docs[c] EXCEPT !.services = {e \in @ : e.id # id}] \in DidDocument
    BY <2>1, DocumentWrites
  <2> QED
    BY <1>8, <2>2 DEF TypeOK, RemoveService, recovery, roles
<1>9. ASSUME NEW c \in Address, DeactivateDid(c)
      PROVE  TypeOK'
  <2>1. docs[c] \in DidDocument
    BY <1>9 DEF DeactivateDid, IsActive, Exists, TypeOK
  <2>2. [docs[c] EXCEPT !.active = FALSE] \in DidDocument
    BY <2>1, DocumentWrites
  <2>3. docs' = [docs EXCEPT ![c] = [docs[c] EXCEPT !.active = FALSE]]
    BY <1>9 DEF DeactivateDid
  <2>4. docs' \in [Address -> DidDocument \cup {None}]
    BY <2>2, <2>3 DEF TypeOK
  <2>5. did_count' \in Nat
    BY <1>9 DEF TypeOK, DeactivateDid, CountAfterDeactivation
  <2> QED
    BY <1>9, <2>4, <2>5 DEF TypeOK, DeactivateDid, recovery, roles
<1>10. ASSUME NEW a \in Address, NEW b \in Address, NEW c \in Address,
              \/ SetRecoveryAddress(a, b)
              \/ InitiateRecovery(a, b, c)
              \/ CancelRecovery(a)
       PROVE  TypeOK'
  BY <1>10 DEF TypeOK, SetRecoveryAddress, InitiateRecovery, CancelRecovery,
               RecoveryRequest, registry, roles
<1>11. ASSUME NEW a \in Address, NEW c \in Address, RecoverDid(a, c)
       PROVE  TypeOK'
  <2> DEFINE new == recovery_pend[c].new_controller
  <2>1. docs[c] \in DidDocument /\ new \in Address
    BY <1>11 DEF TypeOK, RecoverDid, Exists, RecoveryRequest
  <2>2. Rekeyed(docs[c], new) \in DidDocument
    BY <2>1, DocumentWrites DEF Rekeyed
  <2>3. docs' = [docs EXCEPT ![new] = Rekeyed(docs[c], new), ![c] = None]
    BY <1>11 DEF RecoverDid
  <2> HIDE DEF new
  <2>4. docs' \in [Address -> DidDocument \cup {None}]
    BY <2>1, <2>2, <2>3 DEF TypeOK
  <2> QED
    BY <1>11, <2>4 DEF TypeOK, RecoverDid, remove_recovery_address, roles
<1>12. CASE CloseLedger
  BY <1>12 DEF TypeOK, CloseLedger, registry, recovery, roles
<1>13. CASE UNCHANGED vars
  BY <1>13 DEF TypeOK, vars, registry, recovery, roles
<1> QED
  BY <1>1, <1>2, <1>3, <1>4, <1>5, <1>6, <1>7, <1>8, <1>9, <1>10, <1>11, <1>12, <1>13
  DEF Next, AdminNext, DocumentNext, RecoveryNext

\* Every storage entry keeps its type, through every entry point.
THEOREM TypeCorrect == Spec => []TypeOK
  BY InitTypeOK, TypeStep, PTL DEF Spec

-----------------------------------------------------------------------------
(* Consistency of the registry: what the properties below need of each other. *)

ActiveKeys == {c \in Address : IsActive(c)}
Keys == {c \in Address : Exists(c)}

\* A pending request was made at the last ledger its controller was quiet.
PendingSinceQuiet ==
    \A c \in Address : recovery_pend[c] # None => recovery_pend[c].initiated_at = quiet[c]

Consistent ==
    /\ TypeOK
    /\ CountsMatchDocuments
    /\ KeyedByController
    /\ RecoveryBackedByDocument
    /\ PendingSinceQuiet

LEMMA KeysFinite ==
    /\ ActiveKeys \subseteq Keys
    /\ IsFiniteSet(ActiveKeys) /\ IsFiniteSet(Keys)
    /\ Cardinality(ActiveKeys) \in Nat /\ Cardinality(Keys) \in Nat
  BY AddressAssumption, FS_Subset, FS_CardinalityType DEF ActiveKeys, Keys, IsActive

\* What each entry point does to the two sets the counters count.
LEMMA KeysOfCreation ==
    ASSUME TypeOK, NEW c \in Address, NEW m \in MetadataInput, CreateDid(c, m)
    PROVE  /\ c \notin Keys
           /\ Keys' = Keys \cup {c}
           /\ ActiveKeys' = ActiveKeys \cup {c}
<1>1. NewDocument(c, m) \in DidDocument
  BY BoundAssumption DEF NewDocument, DidDocument
<1>2. docs'[c] = NewDocument(c, m) /\ \A d \in Address \ {c} : docs'[d] = docs[d]
  BY DEF CreateDid, TypeOK
<1>3. NewDocument(c, m) # None /\ NewDocument(c, m).active
  BY <1>1, NoneAssumption DEF NewDocument
<1> QED
  BY <1>2, <1>3 DEF CreateDid, Keys, ActiveKeys, IsActive, Exists

LEMMA KeysOfBatch ==
    ASSUME TypeOK, NEW batch \in CreateBatches, CreateDidsBatch(batch)
    PROVE  /\ DOMAIN batch \subseteq Address
           /\ Keys \cap DOMAIN batch = {}
           /\ Keys' = Keys \cup DOMAIN batch
           /\ ActiveKeys' = ActiveKeys \cup DOMAIN batch
<1>1. PICK S \in SUBSET Address : batch \in [S -> MetadataInput]
  BY DEF CreateBatches
<1>2. \A c \in S : NewDocument(c, batch[c]) \in DidDocument
  BY <1>1, BoundAssumption DEF NewDocument, DidDocument
<1>3. \A c \in S : NewDocument(c, batch[c]) # None /\ NewDocument(c, batch[c]).active
  BY <1>2, NoneAssumption DEF NewDocument
<1>4. \A c \in Address : docs'[c] = IF c \in S THEN NewDocument(c, batch[c]) ELSE docs[c]
  BY <1>1 DEF CreateDidsBatch
<1>5. \A c \in S : docs[c] = None
  BY <1>1 DEF CreateDidsBatch, Exists
<1> QED
  BY <1>1, <1>3, <1>4, <1>5 DEF Keys, ActiveKeys, IsActive, Exists

\* Writes that keep every document, its activity and its controller.
DocumentsKept ==
    \A c \in Address :
        /\ Exists(c)' <=> Exists(c)
        /\ Exists(c) => /\ docs'[c].active = docs[c].active
                        /\ docs'[c].controller = docs[c].controller

LEMMA KeysKept ==
    ASSUME DocumentsKept
    PROVE  Keys' = Keys /\ ActiveKeys' = ActiveKeys
  BY DEF DocumentsKept, Keys, ActiveKeys, IsActive

LEMMA UpdatesKeepDocuments ==
    ASSUME TypeOK
    PROVE  /\ \A c \in Address, m \in MetadataInput : UpdateDid(c, m) => DocumentsKept
           /\ \A entries \in UpdateBatches : UpdateDidsBatch(entries) => DocumentsKept
           /\ \A c \in Address, service \in ServiceEndpoint :
                 AddService(c, service) => DocumentsKept
           /\ \A c \in Address, id \in ServiceId : RemoveService(c, id) => DocumentsKept
           /\ docs' = docs => DocumentsKept
<1> USE NoneAssumption, BoundAssumption
<1>1. ASSUME NEW c \in Address, NEW m \in MetadataInput, UpdateDid(c, m)
      PROVE  DocumentsKept
  <2>1. docs[c] \in DidDocument /\ [docs[c] EXCEPT !.metadata = m] \in DidDocument
    BY <1>1, DocumentWrites DEF UpdateDid, UpdateAllowed, IsActive, Exists, TypeOK
  <2> QED
    BY <1>1, <2>1 DEF DocumentsKept, UpdateDid, Exists, TypeOK, DidDocument
<1>2. ASSUME NEW entries \in UpdateBatches, UpdateDidsBatch(entries)
      PROVE  DocumentsKept
  <2>1. ASSUME NEW c \in Address
        PROVE  \/ docs'[c] = docs[c]
               \/ /\ docs[c] # None
                  /\ \E m \in MetadataShape : docs'[c] = [docs[c] EXCEPT !.metadata = m]
    <3> DEFINE Hit(i) == /\ entries[i].controller = c
                         /\ UpdateAllowed(c, entries[i].metadata)
               Final(i) == Hit(i) /\ \A j \in DOMAIN entries : Hit(j) => j <= i
               Last == CHOOSE i \in DOMAIN entries : Final(i)
    <3>1. \A i \in DOMAIN entries : entries[i].metadata \in MetadataShape
      BY DEF UpdateBatches, UpdateEntry
    <3>2. docs'[c] = IF \E i \in DOMAIN entries : Final(i)
                     THEN [docs[c] EXCEPT !.metadata = entries[Last].metadata]
                     ELSE docs[c]
      BY <1>2 DEF UpdateDidsBatch
    <3>3. (\E i \in DOMAIN entries : Final(i)) => Last \in DOMAIN entries /\ Final(Last)
      OBVIOUS
    <3>4. (\E i \in DOMAIN entries : Final(i)) => docs[c] # None
      BY DEF UpdateAllowed, IsActive, Exists
    <3> HIDE DEF Last, Final
    <3> QED
      BY <3>1, <3>2, <3>3, <3>4
  <2>2. \A c \in Address : docs[c] # None => docs[c] \in DidDocument
    BY DEF TypeOK
  <2>3. ASSUME NEW c \in Address, docs[c] # None, NEW m \in MetadataShape
        PROVE  LET d == [docs[c] EXCEPT !.metadata = m]
               IN  d # None /\ d.active = docs[c].active /\ d.controller = docs[c].controller
    <3>1. docs[c] \in DidDocument
      BY <2>2, <2>3
    <3>2. [docs[c] EXCEPT !.metadata = m] \in DidDocument
      BY <3>1, DocumentWrites
    <3> QED
      BY <3>1, <3>2 DEF DidDocument
  <2>4. ASSUME NEW c \in Address
        PROVE  /\ docs'[c] # None <=> docs[c] # None
               /\ docs[c] # None => /\ docs'[c].active = docs[c].active
                                    /\ docs'[c].controller = docs[c].controller
    <3>1. CASE docs'[c] = docs[c]
      BY <3>1
    <3>2. CASE docs'[c] # docs[c]
      <4>1. PICK m \in MetadataShape : docs'[c] = [docs[c] EXCEPT !.metadata = m]
        BY <2>1, <3>2
      <4>2. docs[c] # None
        BY <2>1, <3>2
      <4> QED BY <2>3, <4>1, <4>2
    <3> QED BY <3>1, <3>2
  <2> QED
    BY <2>4 DEF DocumentsKept, Exists
<1>3. ASSUME NEW c \in Address, NEW service \in ServiceEndpoint, AddService(c, service)
      PROVE  DocumentsKept
  <2>1. docs[c] \in DidDocument /\ docs[c].services \in SUBSET ServiceEndpoint
    BY <1>3 DEF AddService, IsActive, Exists, TypeOK, DidDocument
  <2>2. [docs[c] EXCEPT !.services = @ \cup {service}] \in DidDocument
    BY <2>1, DocumentWrites
  <2> QED
    BY <1>3, <2>1, <2>2 DEF DocumentsKept, AddService, Exists, TypeOK, DidDocument
<1>4. ASSUME NEW c \in Address, NEW id \in ServiceId, RemoveService(c, id)
      PROVE  DocumentsKept
  <2>1. docs[c] \in DidDocument /\ docs[c].services \in SUBSET ServiceEndpoint
    BY <1>4 DEF RemoveService, IsActive, Exists, TypeOK, DidDocument
  <2>2. [docs[c] EXCEPT !.services = {e \in @ : e.id # id}] \in DidDocument
    BY <2>1, DocumentWrites
  <2> QED
    BY <1>4, <2>1, <2>2 DEF DocumentsKept, RemoveService, Exists, TypeOK, DidDocument
<1>5. docs' = docs => DocumentsKept
  BY DEF DocumentsKept, Exists
<1> QED
  BY <1>1, <1>2, <1>3, <1>4, <1>5

LEMMA KeysOfDeactivation ==
    ASSUME TypeOK, NEW c \in Address, DeactivateDid(c)
    PROVE  /\ c \in ActiveKeys
           /\ Keys' = Keys
           /\ ActiveKeys' = ActiveKeys \ {c}
           /\ \A d \in Keys : docs'[d].controller = docs[d].controller
<1> DEFINE new == [docs[c] EXCEPT !.active = FALSE]
<1>1. docs[c] \in DidDocument
  BY DEF DeactivateDid, IsActive, Exists, TypeOK
<1>2. new \in DidDocument
  BY <1>1, DocumentWrites
<1>3. new # None /\ ~new.active /\ new.controller = docs[c].controller
  BY <1>1, <1>2, NoneAssumption DEF DidDocument
<1>4. docs' = [docs EXCEPT ![c] = new]
  BY DEF DeactivateDid
<1> HIDE DEF new
<1>5. docs'[c] = new /\ \A d \in Address \ {c} : docs'[d] = docs[d]
  BY <1>4 DEF TypeOK
<1> QED
  BY <1>3, <1>5 DEF DeactivateDid, Keys, ActiveKeys, IsActive, Exists

LEMMA KeysOfReactivation ==
    ASSUME TypeOK, NEW a \in Address, NEW c \in Address, ReactivateDid(a, c)
    PROVE  /\ Keys' = Keys
           /\ IF c \in ActiveKeys
              THEN ActiveKeys' = ActiveKeys /\ did_count' = did_count
              ELSE ActiveKeys' = ActiveKeys \cup {c} /\ did_count' = did_count + 1
           /\ \A d \in Keys : docs'[d].controller = docs[d].controller
<1> DEFINE new == [docs[c] EXCEPT !.active = TRUE]
<1>1. docs[c] \in DidDocument
  BY DEF ReactivateDid, Exists, TypeOK
<1>2. new \in DidDocument
  BY <1>1, DocumentWrites
<1>3. new # None /\ new.active /\ new.controller = docs[c].controller
  BY <1>1, <1>2, NoneAssumption DEF DidDocument
<1>4. CASE docs[c].active
  BY <1>4 DEF ReactivateDid, Keys, ActiveKeys, IsActive, Exists
<1>5. CASE ~docs[c].active
  <2>1. docs' = [docs EXCEPT ![c] = new] /\ did_count' = did_count + 1
    BY <1>5 DEF ReactivateDid
  <2> HIDE DEF new
  <2>2. docs'[c] = new /\ \A d \in Address \ {c} : docs'[d] = docs[d]
    BY <2>1 DEF TypeOK
  <2> QED
    BY <1>3, <1>5, <2>1, <2>2 DEF ReactivateDid, Keys, ActiveKeys, IsActive, Exists
<1> QED
  BY <1>4, <1>5

LEMMA KeysOfRecovery ==
    ASSUME TypeOK, NEW a \in Address, NEW c \in Address, RecoverDid(a, c),
           NEW new, new = recovery_pend[c].new_controller
    PROVE  /\ new \in Address /\ new \notin Keys /\ c \in Keys
           /\ Keys' = (Keys \ {c}) \cup {new}
           /\ ActiveKeys' = IF c \in ActiveKeys THEN (ActiveKeys \ {c}) \cup {new}
                                                ELSE ActiveKeys
           /\ docs'[new].controller = new
           /\ \A d \in Keys \ {c} : docs'[d] = docs[d]
<1>1. docs[c] \in DidDocument /\ docs[c] # None /\ new \in Address /\ docs[new] = None
  BY DEF RecoverDid, Exists, TypeOK, RecoveryRequest
<1>2. Rekeyed(docs[c], new) \in DidDocument
  BY <1>1, DocumentWrites DEF Rekeyed
<1>3. /\ Rekeyed(docs[c], new) # None
      /\ Rekeyed(docs[c], new).active = docs[c].active
      /\ Rekeyed(docs[c], new).controller = new
  BY <1>1, <1>2, NoneAssumption DEF DidDocument, Rekeyed
<1>4. docs' = [docs EXCEPT ![new] = Rekeyed(docs[c], new), ![c] = None]
  BY DEF RecoverDid
<1>5. /\ docs'[new] = Rekeyed(docs[c], new)
      /\ docs'[c] = None
      /\ \A d \in Address \ {c, new} : docs'[d] = docs[d]
  BY <1>1, <1>4 DEF TypeOK
<1> QED
  BY <1>1, <1>3, <1>5 DEF Keys, ActiveKeys, IsActive, Exists

\* Every entry point keeps the counters equal to the sizes of the two sets.
LEMMA CountsStep ==
    ASSUME TypeOK, CountsMatchDocuments, [Next]_vars
    PROVE  CountsMatchDocuments'
<1> DEFINE Counted == did_count = Cardinality(ActiveKeys) /\ total_dids = Cardinality(Keys)
<1>1. Counted
  BY DEF CountsMatchDocuments, ActiveKeys, Keys
<1> SUFFICES Counted'
  BY DEF CountsMatchDocuments, ActiveKeys, Keys
<1> USE <1>1, KeysFinite
<1>2. ASSUME NEW c \in Address, NEW m \in MetadataInput, CreateDid(c, m) PROVE Counted'
  <2>1. c \notin Keys /\ Keys' = Keys \cup {c} /\ ActiveKeys' = ActiveKeys \cup {c}
    BY <1>2, KeysOfCreation
  <2>2. Cardinality(Keys') = Cardinality(Keys) + 1
    BY <2>1, FS_AddElement
  <2>3. Cardinality(ActiveKeys') = Cardinality(ActiveKeys) + 1
    BY <2>1, FS_AddElement
  <2> QED
    BY <1>2, <2>2, <2>3 DEF CreateDid
<1>3. ASSUME NEW batch \in CreateBatches, CreateDidsBatch(batch) PROVE Counted'
  <2> DEFINE D == DOMAIN batch
  <2>1. /\ D \subseteq Address /\ Keys \cap D = {}
        /\ Keys' = Keys \cup D /\ ActiveKeys' = ActiveKeys \cup D
    BY <1>3, KeysOfBatch
  <2>2. did_count' = did_count + Cardinality(D) /\ total_dids' = total_dids + Cardinality(D)
    BY <1>3 DEF CreateDidsBatch
  <2> HIDE DEF D
  <2>3. IsFiniteSet(D)
    BY <2>1, AddressAssumption, FS_Subset
  <2>4. Keys \cap D = {} /\ ActiveKeys \cap D = {}
    BY <2>1
  <2>5. Cardinality(D) \in Nat
    BY <2>3, FS_CardinalityType
  <2>6. Cardinality(Keys \cup D) = Cardinality(Keys) + Cardinality(D)
    <3>1. Cardinality(Keys \cup D)
             = Cardinality(Keys) + Cardinality(D) - Cardinality(Keys \cap D)
      BY <2>3, FS_Union
    <3>2. Cardinality(Keys \cap D) = 0
      BY <2>4, FS_EmptySet, Zenon
    <3> QED BY <3>1, <3>2, <2>5
  <2>7. Cardinality(ActiveKeys \cup D) = Cardinality(ActiveKeys) + Cardinality(D)
    <3>1. Cardinality(ActiveKeys \cup D)
             = Cardinality(ActiveKeys) + Cardinality(D) - Cardinality(ActiveKeys \cap D)
      BY <2>3, FS_Union
    <3>2. Cardinality(ActiveKeys \cap D) = 0
      BY <2>4, FS_EmptySet, Zenon
    <3> QED BY <3>1, <3>2, <2>5
  <2> QED
    BY <2>1, <2>2, <2>6, <2>7
<1>4. ASSUME NEW c \in Address, DeactivateDid(c) PROVE Counted'
  <2>1. c \in ActiveKeys /\ Keys' = Keys /\ ActiveKeys' = ActiveKeys \ {c}
    BY <1>4, KeysOfDeactivation
  <2>2. Cardinality(ActiveKeys') = Cardinality(ActiveKeys) - 1
    BY <2>1, FS_RemoveElement
  <2>3. Cardinality(ActiveKeys') \in Nat
    BY <2>1, FS_RemoveElement, FS_CardinalityType
  <2> QED
    BY <1>4, <2>1, <2>2, <2>3 DEF DeactivateDid, CountAfterDeactivation
<1>5. ASSUME NEW a \in Address, NEW c \in Address, ReactivateDid(a, c) PROVE Counted'
  <2>1. c \in ActiveKeys => Counted'
    BY <1>5, KeysOfReactivation DEF ReactivateDid
  <2>2. c \notin ActiveKeys => Cardinality(ActiveKeys') = Cardinality(ActiveKeys) + 1
    BY <1>5, KeysOfReactivation, FS_AddElement
  <2> QED
    BY <1>5, <2>1, <2>2, KeysOfReactivation DEF ReactivateDid
<1>6. ASSUME NEW a \in Address, NEW c \in Address, RecoverDid(a, c) PROVE Counted'
  <2> DEFINE new == recovery_pend[c].new_controller
  <2>1. /\ new \notin Keys /\ c \in Keys
        /\ Keys' = (Keys \ {c}) \cup {new}
        /\ ActiveKeys' = IF c \in ActiveKeys THEN (ActiveKeys \ {c}) \cup {new}
                                             ELSE ActiveKeys
    BY <1>6, KeysOfRecovery
  <2> HIDE DEF new
  <2>2. ASSUME NEW S, IsFiniteSet(S), c \in S, new \notin S
        PROVE  Cardinality((S \ {c}) \cup {new}) = Cardinality(S)
    <3>1. IsFiniteSet(S \ {c}) /\ Cardinality(S \ {c}) = Cardinality(S) - 1
      BY <2>2, FS_RemoveElement
    <3>2. Cardinality((S \ {c}) \cup {new}) = Cardinality(S \ {c}) + 1
      BY <2>2, <3>1, FS_AddElement
    <3> QED
      BY <2>2, <3>1, <3>2, FS_CardinalityType
  <2>3. Cardinality(Keys') = Cardinality(Keys)
    BY <2>1, <2>2
  <2>4. Cardinality(ActiveKeys') = Cardinality(ActiveKeys)
    BY <2>1, <2>2
  <2> QED
    BY <1>6, <2>3, <2>4 DEF RecoverDid
<1>7. ASSUME UNCHANGED <<did_count, total_dids>>, DocumentsKept PROVE Counted'
  BY <1>7, KeysKept
<1>8. ASSUME UNCHANGED registry PROVE Counted'
  BY <1>7, <1>8, UpdatesKeepDocuments DEF registry
<1>9. CASE AdminNext
  BY <1>5, <1>8, <1>9 DEF AdminNext, Initialize, TransferAdmin, ProposeAdmin, AcceptAdmin,
                          Pause, Unpause
<1>10. CASE DocumentNext
  BY <1>2, <1>3, <1>4, <1>7, <1>10, UpdatesKeepDocuments
  DEF DocumentNext, UpdateDid, UpdateDidsBatch, AddService, RemoveService
<1>11. CASE RecoveryNext
  BY <1>6, <1>8, <1>11 DEF RecoveryNext, SetRecoveryAddress, InitiateRecovery, CancelRecovery
<1>12. CASE CloseLedger
  BY <1>8, <1>12 DEF CloseLedger
<1>13. CASE UNCHANGED vars
  BY <1>8, <1>13 DEF vars
<1> QED
  BY <1>9, <1>10, <1>11, <1>12, <1>13 DEF Next

\* Documents stay under their controller's key and recovery state stays about
\* existing documents.  No entry point but recover_did removes a document.
LEMMA KeyedStep ==
    ASSUME TypeOK, KeyedByController, RecoveryBackedByDocument, PendingSinceQuiet, [Next]_vars
    PROVE  KeyedByController' /\ RecoveryBackedByDocument' /\ PendingSinceQuiet'
<1> DEFINE Keyed == \A c \in Keys : docs[c].controller = c
           Backed == \A c \in Address :
                        recovery_addr[c] # None \/ recovery_pend[c] # None => c \in Keys
<1>1. Keyed /\ Backed
  BY DEF KeyedByController, RecoveryBackedByDocument, Keys
<1> SUFFICES Keyed' /\ Backed' /\ PendingSinceQuiet'
  BY DEF KeyedByController, RecoveryBackedByDocument, Keys
<1>2. ASSUME UNCHANGED recovery, Keys \subseteq Keys',
             \A c \in Keys' : docs'[c].controller = c
      PROVE  Keyed' /\ Backed' /\ PendingSinceQuiet'
  BY <1>1, <1>2 DEF recovery, PendingSinceQuiet
<1>3. ASSUME NEW c \in Address, NEW m \in MetadataInput, CreateDid(c, m)
      PROVE  Keyed' /\ Backed' /\ PendingSinceQuiet'
  <2>1. docs'[c].controller = c /\ \A d \in Address \ {c} : docs'[d] = docs[d]
    BY <1>3 DEF CreateDid, NewDocument, TypeOK
  <2>2. c \notin Keys /\ Keys' = Keys \cup {c}
    BY <1>3, KeysOfCreation
  <2>3. \A d \in Keys' : docs'[d].controller = d
    BY <1>1, <2>1, <2>2 DEF Keys
  <2> QED
    BY <1>2, <1>3, <2>2, <2>3 DEF CreateDid
<1>4. ASSUME NEW batch \in CreateBatches, CreateDidsBatch(batch)
      PROVE  Keyed' /\ Backed' /\ PendingSinceQuiet'
  <2>1. /\ \A d \in DOMAIN batch : docs'[d].controller = d
        /\ \A d \in Keys : docs'[d] = docs[d]
    <3>1. DOMAIN batch \subseteq Address /\ Keys \cap DOMAIN batch = {}
      BY <1>4, KeysOfBatch
    <3>2. \A d \in Address :
             docs'[d] = IF d \in DOMAIN batch THEN NewDocument(d, batch[d]) ELSE docs[d]
      BY <1>4 DEF CreateDidsBatch
    <3>3. \A d \in DOMAIN batch : NewDocument(d, batch[d]).controller = d
      BY DEF NewDocument
    <3> QED
      BY <3>1, <3>2, <3>3 DEF Keys
  <2> QED
    BY <1>1, <1>2, <1>4, <2>1, KeysOfBatch DEF CreateDidsBatch
<1>5. ASSUME UNCHANGED recovery, DocumentsKept
      PROVE  Keyed' /\ Backed' /\ PendingSinceQuiet'
  <2>1. Keys' = Keys /\ \A c \in Keys : docs'[c].controller = docs[c].controller
    BY <1>5, KeysKept DEF DocumentsKept, Keys
  <2> QED
    BY <1>1, <1>2, <1>5, <2>1
<1>6. ASSUME NEW c \in Address, DeactivateDid(c)
      PROVE  Keyed' /\ Backed' /\ PendingSinceQuiet'
  BY <1>1, <1>2, <1>6, KeysOfDeactivation DEF DeactivateDid
<1>7. ASSUME NEW a \in Address, NEW c \in Address, ReactivateDid(a, c)
      PROVE  Keyed' /\ Backed' /\ PendingSinceQuiet'
  BY <1>1, <1>2, <1>7, KeysOfReactivation DEF ReactivateDid
<1>8. ASSUME NEW a \in Address, NEW c \in Address, RecoverDid(a, c)
      PROVE  Keyed' /\ Backed' /\ PendingSinceQuiet'
  <2> DEFINE new == recovery_pend[c].new_controller
  <2>1. /\ new \notin Keys /\ c \in Keys
        /\ Keys' = (Keys \ {c}) \cup {new}
        /\ docs'[new].controller = new
        /\ \A d \in Keys \ {c} : docs'[d] = docs[d]
    BY <1>8, KeysOfRecovery
  <2> HIDE DEF new
  <2>2. Keyed'
    BY <1>1, <2>1
  <2>3. /\ recovery_pend' = [recovery_pend EXCEPT ![c] = None]
        /\ recovery_addr' = [recovery_addr EXCEPT ![c] = None]
        /\ quiet' = [quiet EXCEPT ![c] = ledger]
    BY <1>8 DEF RecoverDid, remove_recovery_address
  <2>4. Backed'
    BY <1>1, <2>1, <2>3 DEF TypeOK
  <2>5. PendingSinceQuiet'
    BY <2>3 DEF PendingSinceQuiet, TypeOK
  <2> QED
    BY <2>2, <2>4, <2>5
<1>9. ASSUME NEW a \in Address, NEW b \in Address, NEW c \in Address,
             \/ SetRecoveryAddress(a, b) \/ InitiateRecovery(a, b, c) \/ CancelRecovery(a)
      PROVE  Keyed' /\ Backed' /\ PendingSinceQuiet'
  <2>1. docs' = docs /\ Keys' = Keys
    BY <1>9 DEF SetRecoveryAddress, InitiateRecovery, CancelRecovery, registry, Keys, Exists
  <2>2. Keyed'
    BY <1>1, <2>1
  <2>3. Backed'
    <3>1. CASE SetRecoveryAddress(a, b)
      BY <1>1, <2>1, <3>1 DEF SetRecoveryAddress, TypeOK, Keys
    <3>2. CASE InitiateRecovery(a, b, c)
      BY <1>1, <2>1, <3>2, NoneAssumption DEF InitiateRecovery, TypeOK
    <3>3. CASE CancelRecovery(a)
      BY <1>1, <2>1, <3>3 DEF CancelRecovery, TypeOK
    <3> QED
      BY <1>9, <3>1, <3>2, <3>3
  <2>4. PendingSinceQuiet'
    BY <1>9 DEF PendingSinceQuiet, SetRecoveryAddress, InitiateRecovery, CancelRecovery, TypeOK
  <2> QED
    BY <2>2, <2>3, <2>4
<1>10. ASSUME UNCHANGED docs, UNCHANGED recovery
       PROVE  Keyed' /\ Backed' /\ PendingSinceQuiet'
  BY <1>5, <1>10, UpdatesKeepDocuments
<1>11. CASE AdminNext
  BY <1>7, <1>10, <1>11 DEF AdminNext, Initialize, TransferAdmin, ProposeAdmin, AcceptAdmin,
                            Pause, Unpause, registry
<1>12. CASE DocumentNext
  BY <1>3, <1>4, <1>5, <1>6, <1>12, UpdatesKeepDocuments
  DEF DocumentNext, UpdateDid, UpdateDidsBatch, AddService, RemoveService
<1>13. CASE RecoveryNext
  BY <1>8, <1>9, <1>13 DEF RecoveryNext
<1>14. CASE CloseLedger
  BY <1>10, <1>14 DEF CloseLedger, registry
<1>15. CASE UNCHANGED vars
  BY <1>10, <1>15 DEF vars, registry
<1> QED
  BY <1>11, <1>12, <1>13, <1>14, <1>15 DEF Next

\* The inductive invariant.
LEMMA AlwaysConsistent == Spec => []Consistent
<1>1. Init => Consistent
  <2>1. Init => CountsMatchDocuments
    <3>1. ASSUME Init
          PROVE  {c \in Address : IsActive(c)} = {} /\ {c \in Address : Exists(c)} = {}
      BY <3>1 DEF Init, IsActive, Exists
    <3> QED
      BY <3>1, FS_EmptySet DEF Init, CountsMatchDocuments
  <2>2. Init => TypeOK
    BY InitTypeOK
  <2> QED
    BY <2>1, <2>2 DEF Init, Consistent, KeyedByController, RecoveryBackedByDocument,
                      PendingSinceQuiet, Exists
<1>2. Consistent /\ [Next]_vars => Consistent'
  BY TypeStep, CountsStep, KeyedStep DEF Consistent
<1> QED
  BY <1>1, <1>2, PTL DEF Spec

\* The counters are exact, documents sit under their controllers' keys and no
\* recovery state outlives its document, for any accounts, limits and timelock.
THEOREM RegistryConsistent == Spec => []RegistryAgrees
<1>1. Consistent => RegistryAgrees
  BY DEF Consistent, RegistryAgrees
<1> QED BY <1>1, AlwaysConsistent, PTL

-----------------------------------------------------------------------------
\* No entry point writes a document or moves a counter while the contract is
\* paused.
THEOREM PauseFreezes == Spec => PauseFreezesDocuments
<1>1. [Next]_vars => [paused => UNCHANGED registry]_vars
  <2> SUFFICES ASSUME [Next]_vars, paused PROVE UNCHANGED registry
    OBVIOUS
  <2>1. CASE AdminNext
    BY <2>1 DEF AdminNext, Initialize, TransferAdmin, ProposeAdmin, AcceptAdmin, Pause,
                Unpause, ReactivateDid, require_not_paused, registry
  <2>2. CASE DocumentNext
    BY <2>2 DEF DocumentNext, CreateDid, UpdateDid, CreateDidsBatch, UpdateDidsBatch,
                AddService, RemoveService, DeactivateDid, require_not_paused
  <2>3. CASE RecoveryNext
    BY <2>3 DEF RecoveryNext, SetRecoveryAddress, InitiateRecovery, CancelRecovery,
                RecoverDid, require_not_paused
  <2>4. CASE CloseLedger \/ UNCHANGED vars
    BY <2>4 DEF CloseLedger, vars
  <2> QED
    BY <2>1, <2>2, <2>3, <2>4 DEF Next
<1> QED
  BY <1>1, PTL DEF Spec, PauseFreezesDocuments

\* A document leaves its controller's key only after its recovery has been
\* pending, uncancelled, for the whole timelock.
THEOREM RecoveryWaits == Spec => TransferNeedsFullTimelock
<1>1. Consistent /\ [Next]_vars
        => [\A c \in Address : Exists(c) /\ ~Exists(c)'
               => ledger >= quiet[c] + RECOVERY_TIMELOCK_LEDGERS]_vars
  <2> SUFFICES ASSUME Consistent, [Next]_vars, NEW c \in Address, Exists(c), ~Exists(c)'
               PROVE  ledger >= quiet[c] + RECOVERY_TIMELOCK_LEDGERS
    OBVIOUS
  <2>1. TypeOK /\ c \in Keys /\ c \notin Keys' /\ ~(docs' = docs) /\ ~DocumentsKept
    BY DEF Consistent, Keys, DocumentsKept, Exists
  <2>2. PICK a \in Address, b \in Address : RecoverDid(a, b)
    <3>1. ~CloseLedger /\ ~UNCHANGED vars
      BY <2>1 DEF CloseLedger, vars, registry
    <3>2. ~AdminNext
      BY <2>1, KeysOfReactivation
      DEF AdminNext, Initialize, TransferAdmin, ProposeAdmin, AcceptAdmin, Pause, Unpause,
          registry
    <3>3. ~DocumentNext
      BY <2>1, KeysOfCreation, KeysOfBatch, KeysOfDeactivation, UpdatesKeepDocuments
      DEF DocumentNext
    <3>4. RecoveryNext
      BY <3>1, <3>2, <3>3 DEF Next
    <3> QED
      BY <2>1, <3>4 DEF RecoveryNext, SetRecoveryAddress, InitiateRecovery, CancelRecovery,
                        registry
  <2>3. b = c
    BY <2>1, <2>2, KeysOfRecovery
  <2>4. recovery_pend[c] # None /\ TimelockElapsed(recovery_pend[c])
    BY <2>2, <2>3 DEF RecoverDid
  <2>5. recovery_pend[c].initiated_at = quiet[c]
    BY <2>4 DEF Consistent, PendingSinceQuiet
  <2> QED
    BY <2>4, <2>5 DEF TimelockElapsed
<1>2. Spec => []Consistent
  BY AlwaysConsistent
<1> QED
  BY <1>1, <1>2, PTL DEF Spec, TransferNeedsFullTimelock
-----------------------------------------------------------------------------
(* The form of the stored documents. *)

\* What a stored document is checked for when it is written.  A document holds
\* finitely many services: without that its Cardinality says nothing.
WellFormed(d) ==
    /\ validate_metadata(d.metadata)
    /\ IsFiniteSet(d.services)
    /\ Cardinality(d.services) <= MAX_SERVICES
    /\ \A e, f \in d.services : e.id = f.id => e = f

FormInv == \A c \in Address : docs[c] # None => WellFormed(docs[c])

LEMMA NewWellFormed ==
    ASSUME NEW c, NEW m, validate_metadata(m)
    PROVE  WellFormed(NewDocument(c, m))
<1>1. /\ NewDocument(c, m).metadata = m
      /\ NewDocument(c, m).services = {}
  BY DEF NewDocument
<1>2. IsFiniteSet({}) /\ Cardinality({}) = 0
  BY FS_EmptySet
<1> QED
  BY <1>1, <1>2, BoundAssumption DEF WellFormed

\* Only the metadata and the services of a document are checked.
LEMMA SameForm ==
    ASSUME NEW d, NEW e, WellFormed(d), e.services = d.services,
           validate_metadata(e.metadata)
    PROVE  WellFormed(e)
  BY DEF WellFormed

LEMMA ServiceAdded ==
    ASSUME NEW d \in DidDocument, WellFormed(d), NEW service \in ServiceEndpoint,
           Cardinality(d.services) < MAX_SERVICES, ServiceIdFree(d, service.id)
    PROVE  WellFormed([d EXCEPT !.services = @ \cup {service}])
<1> DEFINE S == d.services \cup {service}
           e == [d EXCEPT !.services = @ \cup {service}]
<1>1. e.metadata = d.metadata /\ e.services = S
  BY DEF DidDocument
<1>2. service \notin d.services
  BY DEF ServiceIdFree
<1>3. IsFiniteSet(S) /\ Cardinality(S) = Cardinality(d.services) + 1
  BY <1>2, FS_AddElement DEF WellFormed
<1>4. Cardinality(d.services) \in Nat
  BY FS_CardinalityType DEF WellFormed
<1>5. \A f, g \in S : f.id = g.id => f = g
  BY DEF WellFormed, ServiceIdFree
<1>6. Cardinality(S) <= MAX_SERVICES
  BY <1>3, <1>4, BoundAssumption
<1> HIDE DEF S, e
<1>7. WellFormed(e)
  BY <1>1, <1>3, <1>5, <1>6 DEF WellFormed
<1> QED BY <1>7 DEF e

LEMMA ServiceRemoved ==
    ASSUME NEW d \in DidDocument, WellFormed(d), NEW id
    PROVE  WellFormed([d EXCEPT !.services = {s \in @ : s.id # id}])
<1> DEFINE S == {s \in d.services : s.id # id}
           e == [d EXCEPT !.services = {s \in @ : s.id # id}]
<1>1. e.metadata = d.metadata /\ e.services = S
  BY DEF DidDocument
<1>2. S \subseteq d.services
  OBVIOUS
<1> HIDE DEF S, e
<1>3. IsFiniteSet(S) /\ Cardinality(S) <= Cardinality(d.services)
  BY <1>2, FS_Subset DEF WellFormed
<1>4. Cardinality(d.services) \in Nat /\ Cardinality(S) \in Nat
  BY <1>3, FS_CardinalityType DEF WellFormed
<1>5. Cardinality(S) <= MAX_SERVICES
  BY <1>3, <1>4, BoundAssumption DEF WellFormed
<1>6. WellFormed(e)
  BY <1>1, <1>2, <1>3, <1>5 DEF WellFormed
<1> QED BY <1>6 DEF e

\* Every write of a document, the batches and the re-keying included, leaves
\* well-formed documents behind.
LEMMA FormStep ==
    ASSUME TypeOK, FormInv, [Next]_vars
    PROVE  FormInv'
<1> USE NoneAssumption, BoundAssumption
<1>1. \A c \in Address : docs[c] # None => docs[c] \in DidDocument /\ WellFormed(docs[c])
  BY DEF TypeOK, FormInv
<1>2. ASSUME NEW c \in Address, NEW d, docs' = [docs EXCEPT ![c] = d], WellFormed(d)
      PROVE  FormInv'
  <2>1. docs'[c] = d /\ \A b \in Address \ {c} : docs'[b] = docs[b]
    BY <1>2 DEF TypeOK
  <2>2. \A b \in Address : docs'[b] # None => WellFormed(docs'[b])
    BY <1>1, <1>2, <2>1
  <2> QED BY <2>2 DEF FormInv, WellFormed, validate_metadata
<1>3. ASSUME docs' = docs PROVE FormInv'
  BY <1>3 DEF FormInv, WellFormed, validate_metadata
<1>4. ASSUME NEW c \in Address, NEW m \in MetadataInput, CreateDid(c, m)
      PROVE  FormInv'
  BY <1>2, <1>4, NewWellFormed DEF CreateDid
<1>5. ASSUME NEW batch \in CreateBatches, CreateDidsBatch(batch)
      PROVE  FormInv'
  <2>1. \A c \in Address :
           docs'[c] = IF c \in DOMAIN batch THEN NewDocument(c, batch[c]) ELSE docs[c]
    BY <1>5 DEF CreateDidsBatch
  <2>2. \A c \in DOMAIN batch : WellFormed(NewDocument(c, batch[c]))
    BY <1>5, NewWellFormed DEF CreateDidsBatch
  <2>3. \A c \in Address : docs'[c] # None => WellFormed(docs'[c])
    BY <1>1, <2>1, <2>2
  <2> QED BY <2>3 DEF FormInv, WellFormed, validate_metadata
<1>6. ASSUME NEW c \in Address, docs[c] # None, NEW m \in MetadataShape,
             validate_metadata(m)
      PROVE  WellFormed([docs[c] EXCEPT !.metadata = m])
  <2> DEFINE d == docs[c]
  <2>1. d \in DidDocument /\ WellFormed(d)
    BY <1>1, <1>6
  <2> HIDE DEF d
  <2>2. [d EXCEPT !.metadata = m].services = d.services
        /\ [d EXCEPT !.metadata = m].metadata = m
    BY <2>1 DEF DidDocument
  <2>3. WellFormed([d EXCEPT !.metadata = m])
    BY <1>6, <2>1, <2>2, SameForm
  <2> QED BY <2>3 DEF d
<1>7. ASSUME NEW c \in Address, NEW m \in MetadataInput, UpdateDid(c, m)
      PROVE  FormInv'
  <2>1. docs[c] # None /\ validate_metadata(m)
    BY <1>7 DEF UpdateDid, UpdateAllowed, IsActive, Exists
  <2>2. docs' = [docs EXCEPT ![c] = [docs[c] EXCEPT !.metadata = m]]
    BY <1>7 DEF UpdateDid
  <2>3. WellFormed([docs[c] EXCEPT !.metadata = m])
    BY <1>6, <2>1
  <2> QED BY <1>2, <2>2, <2>3
<1>8. ASSUME NEW entries \in UpdateBatches, UpdateDidsBatch(entries)
      PROVE  FormInv'
  <2>1. ASSUME NEW c \in Address, docs'[c] # None
        PROVE  WellFormed(docs'[c])
    <3> DEFINE Hit(i) == /\ entries[i].controller = c
                         /\ UpdateAllowed(c, entries[i].metadata)
               Final(i) == Hit(i) /\ \A j \in DOMAIN entries : Hit(j) => j <= i
               Last == CHOOSE i \in DOMAIN entries : Final(i)
    <3>1. \A i \in DOMAIN entries : entries[i].metadata \in MetadataShape
      BY DEF UpdateBatches, UpdateEntry
    <3>2. docs'[c] = IF \E i \in DOMAIN entries : Final(i)
                     THEN [docs[c] EXCEPT !.metadata = entries[Last].metadata]
                     ELSE docs[c]
      BY <1>8 DEF UpdateDidsBatch
    <3>3. CASE \E i \in DOMAIN entries : Final(i)
      <4>1. Last \in DOMAIN entries /\ Final(Last)
        BY <3>3
      <4>2. docs[c] # None /\ validate_metadata(entries[Last].metadata)
        BY <4>1 DEF UpdateAllowed, IsActive, Exists
      <4>3. entries[Last].metadata \in MetadataShape
        BY <3>1, <4>1
      <4> HIDE DEF Last, Final
      <4> QED BY <1>6, <3>2, <3>3, <4>2, <4>3
    <3>4. CASE ~\E i \in DOMAIN entries : Final(i)
      BY <1>1, <2>1, <3>2, <3>4
    <3> QED BY <3>3, <3>4
  <2> QED BY <2>1 DEF FormInv, WellFormed, validate_metadata
<1>9. ASSUME NEW c \in Address, NEW service \in ServiceEndpoint, AddService(c, service)
      PROVE  FormInv'
  <2>1. docs[c] # None
    BY <1>9 DEF AddService, IsActive, Exists
  <2>2. WellFormed([docs[c] EXCEPT !.services = @ \cup {service}])
    BY <1>1, <1>9, <2>1, ServiceAdded DEF AddService
  <2> QED
    BY <1>2, <1>9, <2>2 DEF AddService
<1>10. ASSUME NEW c \in Address, NEW id \in ServiceId, RemoveService(c, id)
       PROVE  FormInv'
  <2>1. docs[c] # None
    BY <1>10 DEF RemoveService, IsActive, Exists
  <2>2. WellFormed([docs[c] EXCEPT !.services = {e \in @ : e.id # id}])
    BY <1>1, <2>1, ServiceRemoved
  <2> QED
    BY <1>2, <1>10, <2>2 DEF RemoveService
<1>11. ASSUME NEW c \in Address, docs[c] # None, NEW b \in BOOLEAN,
              docs' = [docs EXCEPT ![c] = [docs[c] EXCEPT !.active = b]]
       PROVE  FormInv'
  <2>1. docs[c] \in DidDocument /\ WellFormed(docs[c])
    BY <1>1, <1>11
  <2>2. /\ [docs[c] EXCEPT !.active = b].services = docs[c].services
        /\ [docs[c] EXCEPT !.active = b].metadata = docs[c].metadata
    BY <2>1 DEF DidDocument
  <2>3. WellFormed([docs[c] EXCEPT !.active = b])
    BY <2>1, <2>2 DEF WellFormed
  <2> QED BY <1>2, <1>11, <2>3
<1>12. ASSUME NEW c \in Address, DeactivateDid(c)
       PROVE  FormInv'
  <2>1. docs[c] # None /\ docs' = [docs EXCEPT ![c] = [docs[c] EXCEPT !.active = FALSE]]
    BY <1>12 DEF DeactivateDid, IsActive, Exists
  <2> QED BY <1>11, <2>1
<1>13. ASSUME NEW a \in Address, NEW c \in Address, ReactivateDid(a, c)
       PROVE  FormInv'
  <2>1. /\ docs[c] # None
        /\ docs' \in {docs, [docs EXCEPT ![c] = [docs[c] EXCEPT !.active = TRUE]]}
    BY <1>13 DEF ReactivateDid, Exists
  <2> QED BY <1>3, <1>11, <2>1
<1>14. ASSUME NEW a \in Address, NEW c \in Address, RecoverDid(a, c)
       PROVE  FormInv'
  <2> DEFINE new == recovery_pend[c].new_controller
             d == Rekeyed(docs[c], new)
  <2>1. docs[c] \in DidDocument /\ WellFormed(docs[c]) /\ new \in Address
    BY <1>1, <1>14 DEF TypeOK, RecoverDid, Exists, RecoveryRequest
  <2>2. d.services = docs[c].services /\ d.metadata = docs[c].metadata
    BY <2>1 DEF DidDocument, Rekeyed
  <2>3. docs' = [docs EXCEPT ![new] = d, ![c] = None]
    BY <1>14 DEF RecoverDid
  <2> HIDE DEF new, d
  <2>4. WellFormed(d)
    BY <2>1, <2>2 DEF WellFormed
  <2>5. /\ docs'[c] = None
        /\ new # c => docs'[new] = d
        /\ \A b \in Address \ {c, new} : docs'[b] = docs[b]
    BY <2>1, <2>3 DEF TypeOK
  <2>6. \A b \in Address : docs'[b] # None => WellFormed(docs'[b])
    BY <1>1, <2>4, <2>5
  <2> QED BY <2>6 DEF FormInv, WellFormed, validate_metadata
<1>15. CASE AdminNext
  BY <1>3, <1>13, <1>15 DEF AdminNext, Initialize, TransferAdmin, ProposeAdmin, AcceptAdmin,
                            Pause, Unpause, registry
<1>16. CASE DocumentNext
  BY <1>4, <1>5, <1>7, <1>8, <1>9, <1>10, <1>12, <1>16 DEF DocumentNext
<1>17. CASE RecoveryNext
  BY <1>3, <1>14, <1>17 DEF RecoveryNext, SetRecoveryAddress, InitiateRecovery,
                            CancelRecovery, registry
<1>18. CASE CloseLedger \/ UNCHANGED vars
  BY <1>3, <1>18 DEF CloseLedger, vars, registry
<1> QED
  BY <1>15, <1>16, <1>17, <1>18 DEF Next

\* Every stored document has valid metadata and at most MAX_SERVICES services
\* with distinct ids, whichever entry points wrote it and in whatever order.
THEOREM DocumentsStayWellFormed == Spec => []DocumentsWellFormed
<1>1. Init => FormInv
  BY DEF Init, FormInv
<1>2. TypeOK /\ FormInv /\ [Next]_vars => FormInv'
  BY FormStep
<1>3. TypeOK /\ FormInv => DocumentsWellFormed
  BY DEF FormInv, DocumentsWellFormed, Exists, WellFormed
<1> QED
  BY <1>1, <1>2, <1>3, TypeCorrect, PTL DEF Spec
=============================================================================
