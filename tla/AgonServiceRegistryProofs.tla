---------------------- MODULE AgonServiceRegistryProofs ----------------------
(***************************************************************************)
(* The listing history is append-only, for every number of listings and    *)
(* versions: what AgonJobEscrow's pinned jobs rely on.                     *)
(***************************************************************************)
EXTENDS AgonServiceRegistry, SequenceTheorems, TLAPS

(* Appending to a sequence keeps what it held. *)
LEMMA AppendFacts ==
    ASSUME NEW S, NEW s \in Seq(S), NEW e \in S
    PROVE  /\ Append(s, e) \in Seq(S)
           /\ Len(Append(s, e)) = Len(s) + 1
           /\ \A i \in 1..Len(s) : Append(s, e)[i] = s[i]
           /\ Append(s, e)[Len(s) + 1] = e
OBVIOUS

LEMMA PublishStep ==
    ASSUME RegistryTypeOK, HeadMatchesHistory, UNCHANGED identityOwner,
           NEW sender \in Accounts, NEW a \in AgentIds, NEW key \in ServiceKeys,
           NEW hash \in Manifests, NEW rail \in PaymentRail,
           Publish(sender, a, key, hash, rail)
    PROVE  RegistryTypeOK' /\ HeadMatchesHistory' /\ VersionsKept
<1> DEFINE l == [agentId |-> a, serviceKey |-> key, manifestHash |-> hash,
                 paymentRail |-> rail, version |-> 1, providerSnapshot |-> sender,
                 status |-> "Listed", verification |-> "Unverified"]
           v == [manifestHash |-> hash, paymentRail |-> rail, providerSnapshot |-> sender]
<1>1. l \in Listing /\ v \in Version
  BY DEF Listing, Version, ListingStatus, Verification
<1>2. listings' = Append(listings, l) /\ versions' = Append(versions, <<v>>)
  BY DEF Publish
<1>3. listings \in Seq(Listing) /\ versions \in Seq(Seq(Version)) /\ Len(versions) = Len(listings)
  BY DEF RegistryTypeOK
<1>4. <<v>> \in Seq(Version) /\ Len(<<v>>) = 1 /\ <<v>>[1] = v
  BY <1>1
<1>5. /\ listings' \in Seq(Listing)
      /\ Len(listings') = Len(listings) + 1
      /\ \A i \in 1..Len(listings) : listings'[i] = listings[i]
      /\ listings'[Len(listings) + 1] = l
  <2> HIDE DEF l
  <2> QED BY <1>1, <1>2, <1>3, AppendFacts
<1>6. /\ versions' \in Seq(Seq(Version))
      /\ Len(versions') = Len(versions) + 1
      /\ \A i \in 1..Len(versions) : versions'[i] = versions[i]
      /\ versions'[Len(versions) + 1] = <<v>>
  <2> HIDE DEF v
  <2> QED BY <1>2, <1>3, <1>4, AppendFacts
<1>7. usedKeys' \subseteq AgentIds \X ServiceKeys
  BY DEF Publish, RegistryTypeOK
<1>8. RegistryTypeOK'
  BY <1>3, <1>5, <1>6, <1>7 DEF RegistryTypeOK, IdentityTypeOK
<1>9. HeadMatchesHistory'
  <2>1. HeadOf(l, <<v>>)
    BY <1>4 DEF HeadOf
  <2> HIDE DEF l, v
  <2>2. ASSUME NEW id \in DOMAIN listings' PROVE HeadOf(listings'[id], versions'[id])
    <3>1. id \in 1..(Len(listings) + 1)
      BY <1>5
    <3>2. CASE id \in 1..Len(listings)
      <4>1. HeadOf(listings[id], versions[id])
        BY <1>3, <3>2 DEF HeadMatchesHistory
      <4> QED BY <1>3, <1>5, <1>6, <3>2, <4>1
    <3>3. CASE id = Len(listings) + 1
      BY <1>3, <1>5, <1>6, <2>1, <3>3
    <3> QED BY <1>3, <3>1, <3>2, <3>3
  <2> QED BY <2>2 DEF HeadMatchesHistory
<1>10. VersionsKept
  <2>1. ASSUME NEW id \in DOMAIN versions PROVE id \in DOMAIN versions' /\ versions'[id] = versions[id]
    <3>1. id \in 1..Len(versions) /\ Len(versions) \in Nat
      BY <1>3, LenProperties
    <3>2. DOMAIN versions' = 1..(Len(versions) + 1)
      BY <1>6, LenProperties
    <3> QED BY <1>6, <3>1, <3>2
  <2> QED BY <2>1, Zenon DEF VersionsKept
<1> QED BY <1>8, <1>9, <1>10

LEMMA PublishVersionStep ==
    ASSUME RegistryTypeOK, HeadMatchesHistory, UNCHANGED identityOwner,
           NEW sender \in Accounts, NEW id \in DOMAIN listings,
           NEW hash \in Manifests, NEW rail \in PaymentRail,
           PublishVersion(sender, id, hash, rail)
    PROVE  RegistryTypeOK' /\ HeadMatchesHistory' /\ VersionsKept
<1> DEFINE l == [listings[id] EXCEPT !.version = @ + 1, !.manifestHash = hash,
                                     !.paymentRail = rail, !.providerSnapshot = sender]
           v == [manifestHash |-> hash, paymentRail |-> rail, providerSnapshot |-> sender]
           h == Append(versions[id], v)
<1>1. /\ listings \in Seq(Listing) /\ versions \in Seq(Seq(Version))
      /\ Len(versions) = Len(listings) /\ id \in 1..Len(listings) /\ id \in 1..Len(versions)
      /\ listings[id] \in Listing /\ versions[id] \in Seq(Version)
  BY DEF RegistryTypeOK
<1>2. l \in Listing /\ v \in Version
  <2>1. v \in Version
    BY DEF Version
  <2>2. listings[id].version + 1 \in Nat
    BY <1>1 DEF Listing
  <2>3. l \in Listing
    BY <1>1, <2>2, Zenon DEF Listing
  <2> QED BY <2>1, <2>3
<1>3. /\ h \in Seq(Version)
      /\ Len(h) = Len(versions[id]) + 1
      /\ \A i \in 1..Len(versions[id]) : h[i] = versions[id][i]
      /\ h[Len(versions[id]) + 1] = v
  <2> HIDE DEF v
  <2> QED BY <1>1, <1>2, AppendFacts
<1>4. listings' = [listings EXCEPT ![id] = l] /\ versions' = [versions EXCEPT ![id] = h]
  BY <1>1 DEF PublishVersion
<1>5. /\ listings' \in Seq(Listing)
      /\ Len(listings') = Len(listings)
      /\ \A j \in 1..Len(listings) : listings'[j] = IF j = id THEN l ELSE listings[j]
  <2> HIDE DEF l
  <2> QED BY <1>1, <1>2, <1>4, ExceptSeq
<1>6. /\ versions' \in Seq(Seq(Version))
      /\ Len(versions') = Len(versions)
      /\ \A j \in 1..Len(versions) : versions'[j] = IF j = id THEN h ELSE versions[j]
  <2> HIDE DEF h
  <2> QED BY <1>1, <1>3, <1>4, ExceptSeq
<1>7. RegistryTypeOK'
  BY <1>1, <1>5, <1>6 DEF RegistryTypeOK, IdentityTypeOK, PublishVersion
<1>8. l.version = listings[id].version + 1 /\ l.manifestHash = hash
      /\ l.paymentRail = rail /\ l.providerSnapshot = sender
  BY <1>1 DEF Listing
<1>9. HeadMatchesHistory'
  <2>1. HeadOf(listings[id], versions[id]) /\ listings[id].version \in Nat
    BY <1>1 DEF HeadMatchesHistory, Listing
  <2>2. HeadOf(l, h)
    <3> HIDE DEF l, h
    <3> QED BY <1>1, <1>3, <1>8, <2>1 DEF HeadOf
  <2> HIDE DEF l, h
  <2>3. ASSUME NEW j \in DOMAIN listings' PROVE HeadOf(listings'[j], versions'[j])
    <3>1. j \in 1..Len(listings) /\ HeadOf(listings[j], versions[j])
      BY <1>1, <1>5 DEF HeadMatchesHistory
    <3> QED BY <1>1, <1>5, <1>6, <2>2, <3>1
  <2> QED BY <2>3 DEF HeadMatchesHistory
<1>10. VersionsKept
  <2> HIDE DEF l, h
  <2>1. ASSUME NEW j \in DOMAIN versions, NEW i \in DOMAIN versions[j]
        PROVE  j \in DOMAIN versions' /\ i \in DOMAIN versions'[j] /\ versions'[j][i] = versions[j][i]
    <3>1. j \in 1..Len(versions) /\ j \in DOMAIN versions'
      BY <1>1, <1>6
    <3>2. CASE j # id
      BY <1>6, <3>1, <3>2
    <3>3. CASE j = id
      <4>1. i \in 1..Len(versions[id]) /\ Len(versions[id]) \in Nat
        BY <1>1, <3>3, LenProperties
      <4>2. DOMAIN h = 1..(Len(versions[id]) + 1)
        BY <1>3, LenProperties
      <4> QED BY <1>3, <1>6, <3>1, <3>3, <4>1, <4>2
    <3> QED BY <3>2, <3>3
  <2> QED BY <2>1 DEF VersionsKept
<1> QED BY <1>7, <1>9, <1>10

(* SetStatus and SetVerification change a listing's label and nothing a    *)
(* version says.                                                           *)
LEMMA RelabelStep ==
    ASSUME RegistryTypeOK, HeadMatchesHistory, UNCHANGED <<identityOwner, versions, usedKeys>>,
           NEW id \in DOMAIN listings, NEW l \in Listing,
           listings' = [listings EXCEPT ![id] = l],
           l.version = listings[id].version, l.manifestHash = listings[id].manifestHash,
           l.paymentRail = listings[id].paymentRail,
           l.providerSnapshot = listings[id].providerSnapshot
    PROVE  RegistryTypeOK' /\ HeadMatchesHistory' /\ VersionsKept
<1>1. listings \in Seq(Listing) /\ id \in 1..Len(listings) /\ Len(versions) = Len(listings)
  BY DEF RegistryTypeOK
<1>2. /\ listings' \in Seq(Listing)
      /\ Len(listings') = Len(listings)
      /\ \A j \in 1..Len(listings) : listings'[j] = IF j = id THEN l ELSE listings[j]
  BY <1>1, ExceptSeq
<1>3. RegistryTypeOK'
  BY <1>1, <1>2 DEF RegistryTypeOK, IdentityTypeOK
<1>4. HeadMatchesHistory'
  BY <1>1, <1>2 DEF HeadMatchesHistory, HeadOf
<1>5. VersionsKept
  BY DEF VersionsKept
<1> QED BY <1>3, <1>4, <1>5

LEMMA RegistryStep ==
    ASSUME RegistryTypeOK, HeadMatchesHistory, UNCHANGED identityOwner, RegistryNext
    PROVE  RegistryTypeOK' /\ HeadMatchesHistory' /\ VersionsKept
<1>1. ASSUME NEW s \in Accounts, NEW id \in DOMAIN listings, NEW st \in Statuses,
             SetStatus(s, id, st)
      PROVE  RegistryTypeOK' /\ HeadMatchesHistory' /\ VersionsKept
  <2> DEFINE l == [listings[id] EXCEPT !.status = st]
  <2>1. listings[id] \in Listing /\ st \in ListingStatus
    BY RegistryAssumption DEF RegistryTypeOK
  <2>2. l \in Listing /\ l.version = listings[id].version
        /\ l.manifestHash = listings[id].manifestHash
        /\ l.paymentRail = listings[id].paymentRail
        /\ l.providerSnapshot = listings[id].providerSnapshot
    BY <2>1 DEF Listing
  <2>3. listings' = [listings EXCEPT ![id] = l] /\ UNCHANGED <<identityOwner, versions, usedKeys>>
    BY <1>1 DEF SetStatus
  <2> HIDE DEF l
  <2> QED BY <2>2, <2>3, RelabelStep
<1>2. ASSUME NEW id \in DOMAIN listings, NEW v \in Outcomes, SetVerification(id, v)
      PROVE  RegistryTypeOK' /\ HeadMatchesHistory' /\ VersionsKept
  <2> DEFINE l == [listings[id] EXCEPT !.verification = v]
  <2>1. listings[id] \in Listing /\ v \in Verification
    BY RegistryAssumption DEF RegistryTypeOK
  <2>2. l \in Listing /\ l.version = listings[id].version
        /\ l.manifestHash = listings[id].manifestHash
        /\ l.paymentRail = listings[id].paymentRail
        /\ l.providerSnapshot = listings[id].providerSnapshot
    BY <2>1 DEF Listing
  <2>3. listings' = [listings EXCEPT ![id] = l] /\ UNCHANGED <<identityOwner, versions, usedKeys>>
    BY <1>2 DEF SetVerification
  <2> HIDE DEF l
  <2> QED BY <2>2, <2>3, RelabelStep
<1> QED BY <1>1, <1>2, PublishStep, PublishVersionStep DEF RegistryNext
=============================================================================
