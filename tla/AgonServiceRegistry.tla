------------------------ MODULE AgonServiceRegistry -------------------------
(***************************************************************************)
(* AgonServiceRegistry.sol: permissionless, versioned service listings.    *)
(* Listing ids count from 1 and are never reused, so the mapping is a      *)
(* sequence; versions[id] is the append-only record of its versions.  The  *)
(* manifest URI, the category and the timestamps are data nothing reads    *)
(* and are left out; a manifest hash is a member of Manifests.             *)
(***************************************************************************)
EXTENDS AgonIdentity, Integers, Sequences

CONSTANTS ServiceKeys, \* nonzero service keys
          Manifests,   \* nonzero manifest hashes
          Statuses,    \* bound: the statuses owners set, of ListingStatus
          Outcomes,    \* bound: the values the verifier sets, of Verification
          MaxListings, \* bound: listings ever published
          MaxVersions  \* bound: versions of one listing

VARIABLES listings,    \* listings[id]: the Listing of id
          versions,    \* versions[id][v]: the Version record of id at v
          usedKeys     \* <<agentId, serviceKey>> pairs already published

registryVars == <<listings, versions, usedKeys>>

ListingStatus == {"Listed", "Suspended", "Delisted"}
Verification  == {"Unverified", "Pending", "Verified", "Expired", "Suspended", "Revoked"}
PaymentRail   == {"X402", "Escrow"}

ASSUME RegistryAssumption == /\ Statuses \subseteq ListingStatus
                             /\ Outcomes \subseteq Verification
                             /\ MaxListings \in Nat /\ MaxVersions \in Nat

Listing == [agentId: AgentIds, serviceKey: ServiceKeys, manifestHash: Manifests,
            paymentRail: PaymentRail, version: Nat, providerSnapshot: Accounts,
            status: ListingStatus, verification: Verification]
Version == [manifestHash: Manifests, paymentRail: PaymentRail, providerSnapshot: Accounts]

RegistryInit == /\ listings = << >>
                /\ versions = << >>
                /\ usedKeys = {}

(* modifier ownerOfListing: the CURRENT identity owner, not the snapshot. *)
OwnerOfListing(id, sender) ==
    /\ id \in DOMAIN listings
    /\ currentOwner(listings[id].agentId) = sender

Publish(sender, a, key, hash, rail) ==
    /\ Len(listings) < MaxListings
    /\ currentOwner(a) = sender
    /\ <<a, key>> \notin usedKeys
    /\ usedKeys' = usedKeys \cup {<<a, key>>}
    /\ listings' = Append(listings,
         [agentId |-> a, serviceKey |-> key, manifestHash |-> hash, paymentRail |-> rail,
          version |-> 1, providerSnapshot |-> sender, status |-> "Listed",
          verification |-> "Unverified"])
    /\ versions' = Append(versions,
         << [manifestHash |-> hash, paymentRail |-> rail, providerSnapshot |-> sender] >>)

(* Mutant: an update edits the current version in place. *)
RewriteVersion(sender, id, hash, rail) ==
    /\ OwnerOfListing(id, sender)
    /\ listings' = [listings EXCEPT ![id].manifestHash = hash,
                                    ![id].paymentRail = rail,
                                    ![id].providerSnapshot = sender]
    /\ versions' = [versions EXCEPT ![id][listings[id].version] =
         [manifestHash |-> hash, paymentRail |-> rail, providerSnapshot |-> sender]]
    /\ UNCHANGED usedKeys

(* A new version replaces the head fields; verification and status stay. *)
PublishVersion(sender, id, hash, rail) ==
    /\ OwnerOfListing(id, sender)
    /\ listings[id].version < MaxVersions
    /\ listings' = [listings EXCEPT ![id].version = @ + 1,
                                    ![id].manifestHash = hash,
                                    ![id].paymentRail = rail,
                                    ![id].providerSnapshot = sender]
    /\ versions' = [versions EXCEPT ![id] = Append(@,
         [manifestHash |-> hash, paymentRail |-> rail, providerSnapshot |-> sender])]
    /\ UNCHANGED usedKeys

SetStatus(sender, id, s) ==
    /\ OwnerOfListing(id, sender)
    /\ listings' = [listings EXCEPT ![id].status = s]
    /\ UNCHANGED <<versions, usedKeys>>

(* onlyRole(VERIFIER_ROLE): any value may follow any other. *)
SetVerification(id, v) ==
    /\ id \in DOMAIN listings
    /\ listings' = [listings EXCEPT ![id].verification = v]
    /\ UNCHANGED <<versions, usedKeys>>

escrowEligible(id) ==
    /\ id \in DOMAIN listings
    /\ listings[id].paymentRail = "Escrow"
    /\ listings[id].verification = "Verified"
    /\ listings[id].status = "Listed"

RegistryNext ==
    \/ \E s \in Accounts, a \in AgentIds, k \in ServiceKeys, h \in Manifests, r \in PaymentRail :
           Publish(s, a, k, h, r)
    \/ \E s \in Accounts, id \in DOMAIN listings, h \in Manifests, r \in PaymentRail :
           PublishVersion(s, id, h, r)
    \/ \E s \in Accounts, id \in DOMAIN listings, st \in Statuses : SetStatus(s, id, st)
    \/ \E id \in DOMAIN listings, v \in Outcomes : SetVerification(id, v)

RegistryTypeOK ==
    /\ IdentityTypeOK
    /\ listings \in Seq(Listing)
    /\ versions \in Seq(Seq(Version))
    /\ Len(versions) = Len(listings)
    /\ usedKeys \subseteq AgentIds \X ServiceKeys

(* The head of a listing is its newest version, so whoever reads the head  *)
(* and notes its number can find what it read in the history.              *)
HeadOf(l, history) ==
    /\ l.version = Len(history)
    /\ l.version >= 1
    /\ history[l.version] = [manifestHash |-> l.manifestHash, paymentRail |-> l.paymentRail,
                             providerSnapshot |-> l.providerSnapshot]

HeadMatchesHistory == \A id \in DOMAIN listings : HeadOf(listings[id], versions[id])

(* What a step never does: drop or rewrite a published version. *)
VersionsKept ==
    \A id \in DOMAIN versions : \A v \in DOMAIN versions[id] :
        /\ id \in DOMAIN versions'
        /\ v \in DOMAIN versions'[id]
        /\ versions'[id][v] = versions[id][v]
=============================================================================
