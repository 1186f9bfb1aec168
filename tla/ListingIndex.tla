---------------------------- MODULE ListingIndex ----------------------------
(***************************************************************************)
(* How a listing gets from the service registry into the market's tables:  *)
(* the registry's event log; the indexer and its projector, which replays  *)
(* the log in transactions (agon_listings, the cursor, the certification   *)
(* jobs); the write adapter, which stores the reviewed anchor of a version *)
(* before its owner signs, and again to confirm it; and the certification  *)
(* worker's backfill.  They share Postgres at READ COMMITTED: a projector  *)
(* transaction sees what others commit between its queries, and its own    *)
(* writes are visible when it commits.  Owners may also call the registry  *)
(* without the backend.  URIs, categories, audit rows, the raw events and  *)
(* the profile stream are left out, and so is the confirmed state of an    *)
(* operation, which only makes the adapter refuse more.                    *)
(***************************************************************************)
EXTENDS AgonServiceRegistry

CONSTANTS Writers,     \* concurrent publishListingVersion requests
          Rails,       \* bound: the payment rails owners choose
          MaxEvents,   \* bound: events of the registry
          MaxFailures  \* bound: transactions lost to a crash or an outage

ASSUME IndexAssumption == /\ Rails \subseteq PaymentRail
                          /\ MaxVersions # 0
                          /\ MaxEvents \in Nat /\ MaxFailures \in Nat

VARIABLES log,         \* the registry's events in order
          anchors,     \* anchors[id][v]: agon_listing_versions, the review of a version
          rows,        \* rows[id]: agon_listings
          jobs,        \* jobs[id][v]: the terms the version's certification job pins
          cursor,      \* the last event the projector committed
          tx,          \* the projector's open transaction
          writers,     \* writers[w]: the listing and next version request w has read
          failures     \* lost transactions so far

chainVars   == <<registryVars, identityOwner, log>>
tableVars   == <<anchors, rows, jobs, cursor, tx, writers, failures>>
listingVars == <<chainVars, tableVars>>

ListingIds == 1..MaxListings
VersionNos == 1..MaxVersions
NoTerms    == [manifestHash |-> "none"]
NoRow      == [version |-> 0]
NoTx       == [at |-> "idle"]
IdleWriter == [id |-> 0]

Terms      == Version \cup {NoTerms}
Quarantine == {"missing_validated_version", "version_mismatch", "manifest_hash_mismatch",
               "provider_mismatch"}
Row        == [version: VersionNos, terms: Version, chainStatus: ListingStatus,
               status: ListingStatus, verification: Verification,
               reason: Quarantine \cup {"none"}]
EventKind  == {"published", "version", "status", "verification"}
Event      == [kind: EventKind, id: ListingIds, of: Listing, prepared: BOOLEAN]

isPublication(e) == e.kind \in {"published", "version"}

termsOf(l) == [manifestHash |-> l.manifestHash, paymentRail |-> l.paymentRail,
               providerSnapshot |-> l.providerSnapshot]

(* What the projector and the jobs compare of two terms. *)
sameReview(s, t) ==
    s.manifestHash = t.manifestHash /\ s.providerSnapshot = t.providerSnapshot
-----------------------------------------------------------------------------
(* The registry.  Every transaction leaves one event; `of` is the listing  *)
(* from then on, and a publication is prepared when the write adapter has  *)
(* stored an operation for it.                                             *)
Emit(kind, id, prepared) ==
    /\ Len(log) < MaxEvents
    /\ log' = Append(log, [kind |-> kind, id |-> id, of |-> listings'[id],
                           prepared |-> prepared])
    /\ UNCHANGED identityOwner

(* publishListing checks what the contract checks and stores only the      *)
(* operation, so it may precede any first publication.                     *)
chainPublish(s, a, k, h, r) ==
    /\ Publish(s, a, k, h, r)
    /\ \E prepared \in BOOLEAN : Emit("published", Len(listings) + 1, prepared)

(* publishListingVersion stores an anchor with its operation.              *)
chainPublishVersion(s, id, h, r) ==
    /\ PublishVersion(s, id, h, r)
    /\ Emit("version", id, \E v \in VersionNos \ {1} :
              anchors[id][v] = [manifestHash |-> h, paymentRail |-> r, providerSnapshot |-> s])

chainSetStatus(s, id, st)    == SetStatus(s, id, st) /\ Emit("status", id, FALSE)
chainSetVerification(id, v)  == SetVerification(id, v) /\ Emit("verification", id, FALSE)
chainTransfer(a, to)         == TransferIdentity(a, to) /\ UNCHANGED <<registryVars, log>>
-----------------------------------------------------------------------------
(* The write adapter: publishListingVersion reads the listing ...          *)
readListing(w, id) ==
    /\ writers[w] = IdleWriter
    /\ listings[id].version < MaxVersions
    /\ writers' = [writers EXCEPT ![w] = [id |-> id, version |-> listings[id].version + 1]]
    /\ UNCHANGED <<anchors, rows>>

(* insertValidatedListingVersion: what is stored is immutable. *)
insertAnchor(id, v, terms) ==
    /\ anchors[id][v] \in {NoTerms, terms}
    /\ anchors' = [anchors EXCEPT ![id][v] = terms]

(* ... and, if the actor owns it by now, stores the anchor of the version  *)
(* that the read promised; or it refuses.                                  *)
storeAnchor(w, actor, h, r) ==
    LET q == writers[w] IN
    /\ q # IdleWriter
    /\ writers' = [writers EXCEPT ![w] = IdleWriter]
    /\ \/ /\ currentOwner(listings[q.id].agentId) = actor
          /\ insertAnchor(q.id, q.version, [manifestHash |-> h, paymentRail |-> r,
                                            providerSnapshot |-> actor])
       \/ UNCHANGED anchors
    /\ UNCHANGED rows

(* confirmOperation, with the receipt of event n as its proof, stores the  *)
(* anchor of what was published ...                                        *)
proves(n) == isPublication(log[n]) /\ log[n].prepared

confirmAnchor(n) ==
    /\ proves(n)
    /\ insertAnchor(log[n].id, log[n].of.version, termsOf(log[n].of))
    /\ UNCHANGED <<rows, writers>>

(* Mutant: whatever the listing shows by now is taken out of quarantine. *)
LiftedWhateverItShows(row, l) ==
    IF row # NoRow /\ row.reason = "missing_validated_version"
    THEN [row EXCEPT !.status = row.chainStatus, !.reason = "none"]
    ELSE row

(* reconcileListingAnchor: one UPDATE with the whole tuple in its WHERE. *)
lifted(row, l) ==
    IF /\ row # NoRow
       /\ row.reason = "missing_validated_version"
       /\ row.version = l.version
       /\ row.terms = termsOf(l)
    THEN [row EXCEPT !.status = row.chainStatus, !.reason = "none"]
    ELSE row

(* ... and lifts the quarantine of a row that waited for it.  A row the    *)
(* projector has updated but not committed makes the UPDATE wait; one that *)
(* it has inserted is invisible.                                           *)
confirmOperation(n) ==
    LET id == log[n].id IN
    /\ proves(n)
    /\ anchors[id][log[n].of.version] = termsOf(log[n].of)
    /\ ~(tx # NoTx /\ rows[id] # NoRow /\ tx.rows[id] # NoRow)
    /\ rows' = [rows EXCEPT ![id] = lifted(@, log[n].of)]
    /\ UNCHANGED <<anchors, writers>>
-----------------------------------------------------------------------------
(* The projector: one transaction over the events cursor + 1 .. tx.to.     *)
(* tx.rows and tx.jobs are its own writes.                                 *)
NothingRead == [current |-> NoRow, found |-> NoTerms, reason |-> "none"]

beginBatch ==
    /\ tx = NoTx
    /\ \E to \in cursor + 1 .. Len(log) :
          tx' = [at |-> "begin", to |-> to, pos |-> cursor + 1,
                 rows |-> [id \in ListingIds |-> NoRow],
                 jobs |-> [id \in ListingIds |-> [v \in VersionNos |-> NoTerms]],
                 read |-> NothingRead]
    /\ UNCHANGED <<rows, jobs, cursor>>

event          == log[tx.pos]
rowSeen(id)    == IF tx.rows[id] # NoRow THEN tx.rows[id] ELSE rows[id]
jobSeen(id, v) == IF tx.jobs[id][v] # NoTerms THEN tx.jobs[id][v] ELSE jobs[id][v]

(* requireListing and getValidatedListingVersion. *)
readListingRow ==
    /\ tx.at = "begin"
    /\ tx.pos <= tx.to
    /\ tx' = [tx EXCEPT !.at = "read",
                        !.read.current = rowSeen(event.id),
                        !.read.found = IF isPublication(event)
                                       THEN anchors[event.id][event.of.version] ELSE NoTerms]
    /\ UNCHANGED <<rows, jobs, cursor>>

(* anchorMismatch, which asks in a query of its own whether the listing    *)
(* has any anchor when the version's was not found.                        *)
anchorMismatch(found, l, reviewed) ==
    CASE found = NoTerms /\ reviewed  -> "version_mismatch"
      [] found = NoTerms /\ ~reviewed -> "missing_validated_version"
      [] found # NoTerms              ->
           IF found.manifestHash # l.manifestHash THEN "manifest_hash_mismatch"
           ELSE IF found.providerSnapshot # l.providerSnapshot THEN "provider_mismatch"
           ELSE "none"

compareAnchor ==
    /\ tx.at = "read"
    /\ tx' = [tx EXCEPT
         !.at = "compared",
         !.read.reason = IF isPublication(event)
                         THEN anchorMismatch(tx.read.found, event.of,
                                \E v \in VersionNos : anchors[event.id][v] # NoTerms)
                         ELSE tx.read.current.reason]
    /\ UNCHANGED <<rows, jobs, cursor>>

(* What upsertListing writes for event e, by projectListingPublished,      *)
(* projectListingVersion and projectListingEvent.                          *)
projected(e, current, reason) ==
    LET chainStatus == IF e.kind \in {"published", "status"} THEN e.of.status
                       ELSE current.chainStatus
    IN  [version      |-> IF isPublication(e) THEN e.of.version ELSE current.version,
         terms        |-> IF isPublication(e) THEN termsOf(e.of) ELSE current.terms,
         chainStatus  |-> chainStatus,
         status       |-> IF e.kind = "verification" THEN current.status
                          ELSE IF reason # "none" THEN "Suspended" ELSE chainStatus,
         verification |-> IF e.kind \in {"published", "verification"} THEN e.of.verification
                          ELSE current.verification,
         reason       |-> reason]

(* Mutant: a second job for a version is an error, whatever it pins. *)
AnyJobConflicts(e) == isPublication(e) /\ jobSeen(e.id, e.of.version) # NoTerms

(* scheduleAgonCertification throws on a job that pins other terms ...     *)
jobConflicts(e) ==
    /\ isPublication(e)
    /\ jobSeen(e.id, e.of.version) # NoTerms
    /\ ~sameReview(jobSeen(e.id, e.of.version), termsOf(e.of))

(* ... and inserts one when there is none. *)
scheduled(e) ==
    IF isPublication(e) /\ jobSeen(e.id, e.of.version) = NoTerms
    THEN [tx.jobs EXCEPT ![e.id][e.of.version] = termsOf(e.of)] ELSE tx.jobs

writeRow ==
    /\ tx.at = "compared"
    /\ ~jobConflicts(event)
    /\ tx' = [tx EXCEPT !.at = "begin", !.pos = @ + 1, !.read = NothingRead,
                        !.rows[event.id] = projected(event, tx.read.current, tx.read.reason),
                        !.jobs = scheduled(event)]
    /\ UNCHANGED <<rows, jobs, cursor>>

(* The transaction is rolled back and the loop starts the range again. *)
abortOnConflict ==
    /\ tx.at = "compared"
    /\ jobConflicts(event)
    /\ tx' = NoTx
    /\ UNCHANGED <<rows, jobs, cursor>>

commit ==
    /\ tx.at = "begin"
    /\ tx.pos > tx.to
    /\ rows' = [id \in ListingIds |-> rowSeen(id)]
    /\ jobs' = [id \in ListingIds |-> [v \in VersionNos |-> jobSeen(id, v)]]
    /\ cursor' = tx.to
    /\ tx' = NoTx

(* Mutant: the cursor is advanced outside of the transaction. *)
LostBatchIsSkipped ==
    /\ tx # NoTx
    /\ failures < MaxFailures
    /\ failures' = failures + 1
    /\ tx' = NoTx
    /\ cursor' = tx.to
    /\ UNCHANGED <<rows, jobs>>

(* A crash or an outage, anywhere. *)
rollback ==
    /\ tx # NoTx
    /\ failures < MaxFailures
    /\ failures' = failures + 1
    /\ tx' = NoTx
    /\ UNCHANGED <<rows, jobs, cursor>>

projectBatch == beginBatch \/ readListingRow \/ compareAnchor \/ writeRow \/ abortOnConflict
                \/ commit

(* backfillAgonCertifications, when a worker starts: a job for every       *)
(* anchor of a projected listing that has none, whether or not the version *)
(* was ever published.  A job the projector has inserted and not committed *)
(* makes the INSERT wait.                                                  *)
withoutJob(id, v) == rows[id] # NoRow /\ anchors[id][v] # NoTerms /\ jobs[id][v] = NoTerms

backfillAgonCertifications ==
    /\ \E id \in ListingIds, v \in VersionNos : withoutJob(id, v)
    /\ \A id \in ListingIds, v \in VersionNos :
          withoutJob(id, v) /\ tx # NoTx => tx.jobs[id][v] = NoTerms
    /\ jobs' = [id \in ListingIds |-> [v \in VersionNos |->
                  IF withoutJob(id, v) THEN anchors[id][v] ELSE jobs[id][v]]]
    /\ UNCHANGED <<rows, cursor, tx, failures>>
-----------------------------------------------------------------------------
IndexInit ==
    /\ RegistryInit
    /\ log = << >>
    /\ anchors = [id \in ListingIds |-> [v \in VersionNos |-> NoTerms]]
    /\ rows = [id \in ListingIds |-> NoRow]
    /\ jobs = [id \in ListingIds |-> [v \in VersionNos |-> NoTerms]]
    /\ cursor = 0
    /\ tx = NoTx
    /\ writers = [w \in Writers |-> IdleWriter]
    /\ failures = 0

ChainStep ==
    \/ \E s \in Accounts, a \in AgentIds, k \in ServiceKeys, h \in Manifests, r \in Rails :
           chainPublish(s, a, k, h, r)
    \/ \E s \in Accounts, id \in DOMAIN listings, h \in Manifests, r \in Rails :
           chainPublishVersion(s, id, h, r)
    \/ \E s \in Accounts, id \in DOMAIN listings, st \in Statuses : chainSetStatus(s, id, st)
    \/ \E id \in DOMAIN listings, v \in Outcomes : chainSetVerification(id, v)
    \/ \E a \in AgentIds, to \in Accounts : chainTransfer(a, to)

AdapterStep ==
    \/ \E w \in Writers, id \in DOMAIN listings : readListing(w, id)
    \/ \E w \in Writers, s \in Accounts, h \in Manifests, r \in Rails : storeAnchor(w, s, h, r)
    \/ \E n \in DOMAIN log : confirmAnchor(n) \/ confirmOperation(n)

ProjectStep == projectBatch /\ UNCHANGED <<chainVars, anchors, writers, failures>>

IndexNext ==
    \/ ChainStep /\ UNCHANGED tableVars
    \/ AdapterStep /\ UNCHANGED <<chainVars, jobs, cursor, tx, failures>>
    \/ ProjectStep
    \/ rollback /\ UNCHANGED <<chainVars, anchors, writers>>
    \/ backfillAgonCertifications /\ UNCHANGED <<chainVars, anchors, writers>>

(* Fairness: the indexer's loop goes on, after errors too. *)
IndexFairness == WF_listingVars(ProjectStep)

IndexSpec == IdentityInit /\ IndexInit /\ [][IndexNext]_listingVars
-----------------------------------------------------------------------------
IndexTypeOK ==
    /\ RegistryTypeOK
    /\ log \in Seq(Event)
    /\ anchors \in [ListingIds -> [VersionNos -> Terms]]
    /\ rows \in [ListingIds -> Row \cup {NoRow}]
    /\ jobs \in [ListingIds -> [VersionNos -> Terms]]
    /\ cursor \in 0..Len(log)
    /\ failures \in Nat

(* The market shows a listing as its chain status only at a version whose  *)
(* manifest and provider were reviewed for exactly that version, and every *)
(* other listing as suspended, though anchors, confirmations and status    *)
(* changes reach the tables between any two queries of a projection.       *)
Reviewed(id, row) ==
    row # NoRow =>
        IF row.reason = "none"
        THEN /\ row.status = row.chainStatus
             /\ anchors[id][row.version] # NoTerms
             /\ sameReview(anchors[id][row.version], row.terms)
        ELSE row.status = "Suspended"

EffectiveIsReviewed == \A id \in ListingIds : Reviewed(id, rows[id])

(* The tables are what the events up to the cursor say, however often a    *)
(* batch was lost and repeated: a row is its listing after its last event, *)
(* and each published version has a certification job that pins the        *)
(* manifest and the provider of the publication.                           *)
ShowsListing(row, l) ==
    /\ row # NoRow
    /\ row.version = l.version
    /\ row.terms = termsOf(l)
    /\ row.chainStatus = l.status
    /\ row.verification = l.verification

JobPins(terms, l) == terms # NoTerms /\ sameReview(terms, termsOf(l))

LastOf(k, n) == \A j \in k + 1 .. n : log[j].id # log[k].id

TablesMatchLog ==
    \A k \in 1..cursor :
        /\ LastOf(k, cursor) => ShowsListing(rows[log[k].id], log[k].of)
        /\ isPublication(log[k]) => JobPins(jobs[log[k].id][log[k].of.version], log[k].of)

(* A job that pins other terms than the chain published under its version. *)
JobContradictsChain ==
    \E k \in DOMAIN log :
        /\ isPublication(log[k])
        /\ jobs[log[k].id][log[k].of.version] # NoTerms
        /\ ~sameReview(jobs[log[k].id][log[k].of.version], termsOf(log[k].of))

(* Every event is projected in the end: mismatches are quarantined, a lost *)
(* batch is repeated, and only a job that contradicts the chain stops the  *)
(* stream.                                                                 *)
IndexCatchesUp ==
    \A n \in 1..MaxEvents : Len(log) >= n ~> (cursor >= n \/ JobContradictsChain)

(* backend/test/agon/projector.test.ts:173: "quarantines hash, provider,   *)
(* and version anchor mismatches", so that they stop nothing.              *)
MismatchesDoNotStop == \A n \in 1..MaxEvents : Len(log) >= n ~> cursor >= n
=============================================================================
