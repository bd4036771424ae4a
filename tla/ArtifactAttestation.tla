------------------------ MODULE ArtifactAttestation ------------------------
(***************************************************************************)
(* Detached attestations of evidence files (attestations.py): a producer   *)
(* signs an artifact's exact bytes, and a verifier reads the artifact, the *)
(* attestation, the trust store and a revocation list one after the other  *)
(* and then the clock, while a person replaces, edits or rotates each.     *)
(*                                                                         *)
(* Bytes are their own digest and length, and a signature is the payload   *)
(* it covers with the public half of the key that made it.  The verifier's *)
(* clock is off by up to SkewLimit.  Revocation lists are external: each   *)
(* holds every entry of the one before it under its identifier.            *)
(***************************************************************************)
EXTENDS Integers, FiniteSets, Sequences

CONSTANTS
    Contents,            \* what the artifact's file may hold
    Signers,             \* who may attest: [producer, key, public, list]
    Terms,               \* of an attestation: [lifetime, retention], as asked for
    TrustStores,         \* [list, keys]: the stores a verifier may be given
    Offsets,             \* how far from now attestations and revocations are dated
    ListAgeLimit, SkewLimit,
    LastInstant, AttestationLimit, ListLimit, MaxEdits

ASSUME AttestationAssumption ==
    /\ {ListAgeLimit, SkewLimit, LastInstant, AttestationLimit, ListLimit, MaxEdits} \subseteq Nat
    /\ Contents # {} /\ TrustStores # {} /\ Offsets \subseteq Int
    /\ \A t \in Terms : {t.lifetime, t.retention} \subseteq Int

VARIABLES
    today,
    artifactBytes, \* what the artifact's file holds
    attested,      \* the attestation's file, if there is one
    signings,      \* what each key signed, with whom and when
    trust,         \* the trust store's file
    revocations,   \* the revocation lists published so far
    verifier,      \* a verification and what it has read
    verification,  \* its receipt
    edits          \* how often a person was at the files

attestationVars ==
    <<today, artifactBytes, attested, signings, trust, revocations, verifier, verification, edits>>

ListIds == {store.list : store \in TrustStores} \cup {s.list : s \in Signers}
Over == [phase |-> "done"]

AttestationInit ==
    /\ today = 0
    /\ artifactBytes = CHOOSE bytes \in Contents : TRUE
    /\ attested = {} /\ signings = {}
    /\ trust = CHOOSE store \in TrustStores : TRUE
    /\ revocations = [id : ListIds, updated_at : {0}, revoked : {{}}]
    /\ verifier = [phase |-> "start"] /\ verification = {} /\ edits = 0

Pass ==
    /\ today < LastInstant
    /\ today' = today + 1
    /\ UNCHANGED <<artifactBytes, attested, signings, trust, revocations, verifier, verification,
                   edits>>

---------------------------------------------------------------------------
(* Producing an attestation                                                *)

AttestationParses(payload) ==
    payload.issued_at < payload.expires_at /\ payload.expires_at <= payload.retain_until

Payload(signer, issued, terms) ==
    [bytes |-> artifactBytes, producer |-> signer.producer, key |-> signer.key,
     issued_at |-> issued, expires_at |-> issued + terms.lifetime,
     retain_until |-> issued + terms.lifetime + terms.retention, list |-> signer.list]

\* The time of issue is an argument.
Attest(signer, issued, terms) ==
    LET payload == Payload(signer, issued, terms)
    IN  /\ Cardinality(signings) < AttestationLimit
        /\ AttestationParses(payload)
        /\ attested' = {[payload |-> payload, signature |-> [public |-> signer.public,
                                                            payload |-> payload]]}
        /\ signings' = signings \cup {[public |-> signer.public, payload |-> payload]}
        /\ UNCHANGED <<today, artifactBytes, trust, revocations, verifier, verification, edits>>

---------------------------------------------------------------------------
(* A person at the files                                                   *)

AtHand == edits < MaxEdits /\ edits' = edits + 1

ReplaceArtifact(bytes) ==
    /\ AtHand
    /\ artifactBytes' = bytes
    /\ UNCHANGED <<today, attested, signings, trust, revocations, verifier, verification>>

EditAttestation(field) ==
    /\ AtHand
    /\ \E a \in attested :
          /\ a.payload = a.signature.payload
          /\ attested' = {[payload |-> [a.payload EXCEPT ![field] = @ + 1],
                           signature |-> a.signature]}
    /\ UNCHANGED <<today, artifactBytes, signings, trust, revocations, verifier, verification>>

ReplaceStore(store) ==
    /\ AtHand
    /\ trust' = store
    /\ UNCHANGED <<today, artifactBytes, attested, signings, revocations, verifier, verification>>

LatestOf(list) ==
    \A other \in revocations : other.id = list.id => other.updated_at <= list.updated_at

PublishRevocations(list, entries) ==
    /\ LatestOf(list) /\ list.updated_at < today
    /\ Cardinality(revocations) < ListLimit
    /\ revocations' = revocations \cup
          {[id |-> list.id, updated_at |-> today, revoked |-> list.revoked \cup entries]}
    /\ UNCHANGED <<today, artifactBytes, attested, signings, trust, verifier, verification, edits>>

\* The time of an entry that revokes all signatures is not read.
RevokeKey(list, key, mode, dated) ==
    LET entry == [key |-> key, mode |-> mode,
                  revoked_at |-> IF mode = "all_signatures" THEN today ELSE dated]
    IN  /\ dated <= today
        /\ \A e \in list.revoked : e.key # key
        /\ PublishRevocations(list, {entry})

---------------------------------------------------------------------------
(* Verifying                                                               *)

StoreParses(store) ==
    /\ store.keys # <<>>
    /\ \A i \in DOMAIN store.keys : store.keys[i].valid_from < store.keys[i].valid_until
    /\ \A i, j \in DOMAIN store.keys : store.keys[i].key = store.keys[j].key => i = j

RevocationsParse(list) ==
    /\ \A e \in list.revoked : e.revoked_at <= list.updated_at
    /\ \A e, f \in list.revoked : e.key = f.key => e = f

ReadArtifact ==
    /\ verifier.phase = "start"
    /\ verifier' = [phase |-> "attestation", bytes |-> artifactBytes]
    /\ UNCHANGED <<today, artifactBytes, attested, signings, trust, revocations, verification,
                   edits>>

ReadAttestation ==
    /\ verifier.phase = "attestation"
    /\ \/ \E a \in attested :
             /\ AttestationParses(a.payload)
             /\ verifier' = [phase |-> "store", bytes |-> verifier.bytes, document |-> a]
       \/ /\ \A a \in attested : ~AttestationParses(a.payload)
          /\ verifier' = Over
    /\ UNCHANGED <<today, artifactBytes, attested, signings, trust, revocations, verification,
                   edits>>

ReadStore ==
    /\ verifier.phase = "store"
    /\ verifier' = IF StoreParses(trust)
                   THEN [phase |-> "list", bytes |-> verifier.bytes,
                         document |-> verifier.document, store |-> trust]
                   ELSE Over
    /\ UNCHANGED <<today, artifactBytes, attested, signings, trust, revocations, verification,
                   edits>>

ReadRevocations(list) ==
    /\ verifier.phase = "list"
    /\ verifier' = IF RevocationsParse(list)
                   THEN [phase |-> "check", bytes |-> verifier.bytes,
                         document |-> verifier.document, store |-> verifier.store, list |-> list]
                   ELSE Over
    /\ UNCHANGED <<today, artifactBytes, attested, signings, trust, revocations, verification,
                   edits>>

NamesOneList(payload, store, list) == payload.list = store.list /\ list.id = store.list

\* Variant: what the signature covers is not compared with the document.
SignedByKey(document, k) ==
    /\ k.key = document.payload.key /\ k.producer = document.payload.producer
    /\ document.signature.public = k.public

SignedBy(document, k) ==
    /\ k.key = document.payload.key /\ k.producer = document.payload.producer
    /\ document.signature = [public |-> k.public, payload |-> document.payload]

InKeyWindow(payload, k) ==
    /\ k.valid_from <= payload.issued_at /\ payload.issued_at < k.valid_until
    /\ payload.expires_at <= k.valid_until

Current(payload, checked) ==
    payload.issued_at <= checked + SkewLimit /\ checked < payload.expires_at

Recent(list, checked) ==
    /\ list.updated_at <= checked + SkewLimit
    /\ checked - list.updated_at <= ListAgeLimit + SkewLimit

Revokes(entry, payload) ==
    /\ entry.key = payload.key
    /\ entry.mode = "all_signatures" \/ payload.issued_at >= entry.revoked_at

Accepts(v, checked) ==
    LET payload == v.document.payload
    IN  /\ NamesOneList(payload, v.store, v.list)
        /\ \E i \in DOMAIN v.store.keys :
              SignedBy(v.document, v.store.keys[i]) /\ InKeyWindow(payload, v.store.keys[i])
        /\ v.bytes = payload.bytes
        /\ Current(payload, checked) /\ Recent(v.list, checked)
        /\ \A e \in v.list.revoked : ~Revokes(e, payload)

\* The clock is read after the files.
VerifyAttestation(checked) ==
    /\ verifier.phase = "check"
    /\ verification' =
          IF Accepts(verifier, checked)
          THEN {[payload |-> verifier.document.payload, bytes |-> verifier.bytes,
                 store |-> verifier.store, at |-> today]}
          ELSE {}
    /\ verifier' = Over
    /\ UNCHANGED <<today, artifactBytes, attested, signings, trust, revocations, edits>>

AttestationNext ==
    \/ Pass
    \/ \E signer \in Signers, offset \in Offsets, terms \in Terms :
          Attest(signer, today + offset, terms)
    \/ \E bytes \in Contents : ReplaceArtifact(bytes)
    \/ \E field \in {"expires_at", "retain_until"} : EditAttestation(field)
    \/ \E store \in TrustStores : ReplaceStore(store)
    \/ \E list \in revocations :
          \/ PublishRevocations(list, {})
          \/ \E signer \in Signers, mode \in {"all_signatures", "issued_at_or_after"},
                offset \in Offsets : RevokeKey(list, signer.key, mode, today + offset)
          \/ ReadRevocations(list)
    \/ ReadArtifact \/ ReadAttestation \/ ReadStore
    \/ \E checked \in today - SkewLimit .. today + SkewLimit : VerifyAttestation(checked)

AttestationSpec == AttestationInit /\ [][AttestationNext]_attestationVars

---------------------------------------------------------------------------
(* Property                                                                *)

\* A receipt stands, whatever was replaced, edited or rotated while its files
\* were read: the bytes are those the named producer's key signed, the store
\* that was read trusts that key for that producer, the retention the producer
\* promised has not run out, and no list under the store's identifier that was
\* out for longer than the verifier tolerates, with its clock wrong by the skew
\* and the skew allowed on top, revokes the key for that signature.
ReceiptsStand ==
    \A v \in verification :
        /\ v.bytes = v.payload.bytes
        /\ \E i \in DOMAIN v.store.keys :
              LET k == v.store.keys[i]
              IN  /\ k.key = v.payload.key /\ k.producer = v.payload.producer
                  /\ [public |-> k.public, payload |-> v.payload] \in signings
        /\ v.at < v.payload.retain_until + SkewLimit
        /\ \A list \in revocations :
              list.id = v.store.list /\ list.updated_at + ListAgeLimit + 2 * SkewLimit < v.at =>
                 \A e \in list.revoked : ~Revokes(e, v.payload)
=============================================================================
