------------------------- MODULE CompleteIntakeV31 -------------------------
(* The intake of select-delivery-v31: a complete 3.1.0 delivery is read,    *)
(* part by part, from MongoDB or from a directory that its publisher may be *)
(* rewriting, and taken only if every hash in it closes.                    *)
(*                                                                          *)
(* A canonical hash stands for the content it is taken of: Sha is the       *)
(* identity on contents, and a stated hash closes when it is that content.  *)
(* A rule version RULESET@time-source-digest is [ruleSet, parts].  What a   *)
(* JSON Schema says of one payload is its field valid; the frozen schema    *)
(* files themselves are left out.                                           *)
EXTENDS Integers, Sequences

CONSTANTS Publications,  \* what the publisher may have written: a sequence
          Commands,      \* calls: [source, purpose, version, first, second, ...]
          Malformed,     \* trees a JSON Schema lets through and the wire model refuses
          Historical,    \* the rule version of the historical audit
          None

VARIABLES request,     \* what select-delivery-v31 was called with
          store,       \* store[part]: the publication a stored part is of
          copied,      \* the publications of the parts read, as they were
          intake,      \* how far it is, or how it ended
          delivery     \* what it made of them

intakeVars == <<request, store, copied, intake, delivery>>

\* "peek" is result.json, read once more when the directory is indexed.
Parts(source) ==
  IF source = "mongodb" THEN <<"rule", "batch">>
  ELSE <<"peek", "catalog", "candidate", "result", "requests", "manifest">>
Stored(source) == {Parts(source)[i] : i \in DOMAIN Parts(source)} \ {"peek"}
Home(part) == IF part = "peek" THEN "result" ELSE part

Sha(content) == content

----------------------------------------------------------------------------
(* The two sources: from the parts read to the envelope of the intake. *)

Or(v, w) == IF v = None THEN w ELSE v

RequestId(version, fact) == <<version, fact>>
\* The wire model of a payload keeps its requestId equal to this.
PayloadId(payload) == RequestId(payload.ruleVersion, payload.fact)

Batch(version, payloads) ==
  [id |-> version, version |-> version, count |-> Len(payloads),
   ids |-> [i \in DOMAIN payloads |-> PayloadId(payloads[i])],
   sha |-> [i \in DOMAIN payloads |-> [id |-> PayloadId(payloads[i]),
                                       sha |-> Sha(payloads[i])]],
   requests |-> [i \in DOMAIN payloads |->
      [id |-> PayloadId(payloads[i]), version |-> payloads[i].ruleVersion,
       fact |-> payloads[i].fact, sha |-> Sha(payloads[i]), payload |-> payloads[i]]]]

\* _stored_from_documents: None when there is no 3.1.0 rule document.
Delivered(rule) == rule.document # None /\ rule.document.schema = "3.1.0"
MongoEnvelope(rule, batch) ==
  LET stated == rule.document
  IN [version |-> stated.version, schema |-> stated.schema, purpose |-> stated.purpose,
      executable |-> stated.executable, source |-> stated.source,
      parse |-> stated.parse, digest |-> stated.digest,
      catalog |-> rule.catalog, candidate |-> rule.candidate, result |-> rule.result,
      batch |-> IF batch.contract = "3.1.0" THEN batch.batch ELSE None]

\* _load_stored_complete_delivery_from_directory; a directory without a
\* manifest has one whose fields are None.
FileEnvelope(catalog, candidate, result, payloads, manifest) ==
  [version |-> result.version, schema |-> result.schema,
   purpose |-> Or(manifest.purpose, result.purpose),
   executable |-> result.executable,
   source |-> Or(manifest.source, candidate.source),
   parse |-> Or(manifest.parse, candidate.parse),
   digest |-> Or(manifest.digest, catalog.digest),
   catalog |-> catalog, candidate |-> candidate, result |-> result,
   batch |-> Batch(result.version, payloads)]

\* The publication a part was of when it was read.
At(part) ==
  LET parts == Parts(request.source)
  IN Publications[copied[CHOOSE i \in DOMAIN parts : parts[i] = part]]

Empty(sequence) == DOMAIN sequence = {}

\* What get_delivery raises, or returns, of the parts read; the model of a
\* stored batch has at least one request.
Indexed == At("peek").result # None /\ At("peek").result.version = request.version
Unreadable ==
  IF request.source = "mongodb"
  THEN /\ Delivered(At("rule")) /\ At("batch").contract = "3.1.0"
       /\ Empty(At("batch").batch.requests)
  ELSE /\ Indexed
       /\ \/ None \in {At("catalog").catalog, At("candidate").candidate, At("result").result}
          \/ Empty(At("requests").payloads)
Envelope ==
  IF request.source = "mongodb"
  THEN IF Delivered(At("rule")) THEN MongoEnvelope(At("rule"), At("batch")) ELSE None
  ELSE IF Indexed
       THEN FileEnvelope(At("catalog").catalog, At("candidate").candidate,
                         At("result").result, At("requests").payloads,
                         At("manifest").manifest)
       ELSE None

----------------------------------------------------------------------------
(* The gates of select_complete_delivery_v31, in the order of the code. *)

AllowedPurposes(version) ==
  IF version = Historical THEN {"historical-audit"} ELSE {"optimization-plan-generation"}

EnvelopeHolds(stored) ==
  /\ stored.version = request.version
  /\ stored.schema = "3.1.0"
  /\ ~stored.executable
  /\ stored.purpose = "optimization-plan-generation"
  /\ request.purpose = "optimization-plan-generation"

Lacks(stored) ==
  {part \in {"catalog", "candidate", "result", "batch"} : stored[part] = None}

PayloadsValid(stored) == stored.catalog.valid /\ stored.candidate.valid /\ stored.result.valid

RequestHolds(r) ==
  /\ r.version = request.version
  /\ PayloadId(r.payload) = r.id /\ r.id = RequestId(r.version, r.fact)
  /\ r.payload.ruleVersion = r.version
  /\ r.payload.fact = r.fact
  /\ Sha(r.payload) = r.sha
  /\ r.payload.unresolved

\* _validate_batch; that requestIds are sorted is left out.
BatchHolds(batch) ==
  /\ batch.id = request.version /\ batch.version = request.version
  /\ batch.count = Len(batch.requests)
  /\ batch.ids = [i \in DOMAIN batch.requests |-> batch.requests[i].id]
  /\ \A i, j \in DOMAIN batch.requests :
       batch.requests[i].fact = batch.requests[j].fact => i = j
  /\ batch.sha = [i \in DOMAIN batch.requests |->
                    [id |-> batch.requests[i].id, sha |-> batch.requests[i].sha]]
  /\ \A i \in DOMAIN batch.requests : RequestHolds(batch.requests[i])

CatalogCloses(stored) ==
  LET digest == stored.catalog.body IN
  /\ stored.catalog.digest = digest
  /\ stored.digest \in {None, digest}
  /\ stored.candidate.digest = digest
  /\ stored.result.catalogDigest = digest
  /\ stored.result.catalogSha = Sha(stored.catalog)
  /\ stored.result.deliveryCatalogSha = Sha(stored.catalog)

CandidateCloses(stored) ==
  /\ stored.result.candidateSha = Sha(stored.candidate)
  /\ stored.result.deliveryCandidateSha = Sha(stored.candidate)

\* A result cannot hold the hash of itself: only the absent one closes.
ResultCloses(stored) == stored.result.selfSha = None

SourcesClose(stored) ==
  LET source == stored.candidate.source
      parse == stored.candidate.parse
  IN /\ stored.result.source = source /\ stored.result.parse = parse
     /\ stored.result.candidateParse = parse
     /\ stored.source \in {None, source}
     /\ stored.parse \in {None, parse}

ResultIsOurs(stored) ==
  stored.result.version = request.version /\ stored.result.ruleSet = request.version.ruleSet

\* The last two parts of the version: the code indexes them from the end.
VersionTooShort == Len(request.version.parts) < 2
VersionCloses(stored) ==
  LET parts == request.version.parts
  IN /\ parts[Len(parts) - 1] = stored.candidate.source
     /\ parts[Len(parts)] = stored.catalog.body

\* Seeded bug: the requests are not compared with the candidate.
RequestsClose_NoCandidate(stored) ==
  \A i \in DOMAIN stored.batch.requests :
    LET ref == stored.batch.requests[i].payload
    IN /\ ref.source = stored.candidate.source
       /\ ref.parse = stored.candidate.parse
       /\ ref.digest = stored.catalog.body
       /\ ref.ruleVersion = request.version

RequestsClose(stored) ==
  \A i \in DOMAIN stored.batch.requests :
    LET ref == stored.batch.requests[i].payload
    IN /\ ref.source = stored.candidate.source
       /\ ref.parse = stored.candidate.parse
       /\ ref.digest = stored.catalog.body
       /\ ref.candidateSha = Sha(stored.candidate)
       /\ ref.ruleVersion = request.version

\* "raised" is an exception none of the callers expects: the wire model refuses
\* a tree its JSON Schema let through, or the version has no two parts.
Selection(stored) ==
  IF stored = None THEN "notFound"
  ELSE IF ~EnvelopeHolds(stored) THEN "invalid"
  ELSE IF Lacks(stored) # {} THEN "notConsumable"
  ELSE IF ~PayloadsValid(stored) THEN "invalid"
  ELSE IF stored.candidate.tree \in Malformed THEN "raised"
  ELSE IF ~/\ BatchHolds(stored.batch) /\ CatalogCloses(stored)
           /\ CandidateCloses(stored) /\ ResultCloses(stored)
           /\ SourcesClose(stored) /\ ResultIsOurs(stored) THEN "invalid"
  ELSE IF VersionTooShort THEN "raised"
  ELSE IF VersionCloses(stored) /\ RequestsClose(stored) THEN "selected"
  ELSE "invalid"

Payloads == [i \in DOMAIN delivery.batch.requests |-> delivery.batch.requests[i].payload]

----------------------------------------------------------------------------
Catalogs == {Publications[p].catalog : p \in DOMAIN Publications} \ {None}
Candidates == {Publications[p].candidate : p \in DOMAIN Publications} \ {None}

\* A result states the hashes of a catalog and a candidate, in both places.
States(result, catalog, candidate) ==
  /\ {result.catalogSha, result.deliveryCatalogSha} = {Sha(catalog)}
  /\ {result.candidateSha, result.deliveryCandidateSha} = {Sha(candidate)}

ASSUME CommandAssumption ==
  \A c \in Commands : {c.first, c.second} \subseteq DOMAIN Publications

\* What is assumed of the publisher (external).  A catalog is nothing but its
\* content, its digest and its validity; a batch carries its publication's
\* payloads.
ASSUME ContentAssumption ==
  /\ \A catalog \in Catalogs :
       /\ catalog = [body |-> catalog.body, digest |-> catalog.digest, valid |-> catalog.valid]
       /\ catalog.valid \in BOOLEAN
  /\ \A p \in DOMAIN Publications :
       LET batch == Publications[p].batch
       IN Publications[p].payloads =
            [i \in DOMAIN batch.requests |-> batch.requests[i].payload]

\* Whatever states the hash of a published catalog or candidate was published
\* with it.  A result states both.
ASSUME ResultAssumption ==
  \A p \in DOMAIN Publications, catalog \in Catalogs, candidate \in Candidates :
    (/\ Publications[p].result # None
     /\ States(Publications[p].result, catalog, candidate))
    => \E q \in DOMAIN Publications :
         /\ Publications[q].result = Publications[p].result
         /\ Publications[q].catalog = catalog /\ Publications[q].candidate = candidate

\* Payloads that agree on a candidate were published with it and with a valid
\* catalog, the one of the candidate's digest.
ASSUME PayloadAssumption ==
  \A p \in DOMAIN Publications, candidate \in Candidates :
    (/\ ~Empty(Publications[p].payloads)
     /\ \A i \in DOMAIN Publications[p].payloads :
          Publications[p].payloads[i].candidateSha = Sha(candidate))
    => \E q \in DOMAIN Publications :
         /\ Publications[q].payloads = Publications[p].payloads
         /\ Publications[q].candidate = candidate
         /\ Publications[q].catalog # None /\ Publications[q].catalog.valid
         /\ Publications[q].catalog.body = candidate.digest
         /\ Publications[q].catalog.digest = candidate.digest

----------------------------------------------------------------------------
IntakeInit ==
  /\ request \in Commands
  /\ store = [part \in Stored(request.source) |-> request.first]
  /\ copied = <<>>
  /\ intake = "start"
  /\ delivery = None

\* The publisher (external) replaces one stored part at a time by another
\* publication's.
Republish(part) ==
  /\ intake = "reading" /\ store[part] # request.second
  /\ store' = [store EXCEPT ![part] = request.second]
  /\ UNCHANGED <<request, copied, intake, delivery>>

CheckPurpose ==
  /\ intake = "start"
  /\ intake' = IF request.purpose \in AllowedPurposes(request.version) THEN "reading"
               ELSE "invalid"
  /\ UNCHANGED <<request, store, copied, delivery>>

\* One find_one or one read_text; the next part is read later.
ReadPart ==
  LET parts == Parts(request.source)
      next == Len(copied) + 1
  IN /\ intake = "reading"
     /\ copied' = Append(copied, store[Home(parts[next])])
     /\ intake' = IF next = Len(parts) THEN "read" ELSE "reading"
     /\ UNCHANGED <<request, store, delivery>>

\* The server or the file system fails a read.
ReadFails ==
  /\ intake = "reading"
  /\ intake' = "unavailable"
  /\ UNCHANGED <<request, store, copied, delivery>>

Select ==
  /\ intake = "read"
  /\ intake' = IF Unreadable THEN "unavailable" ELSE Selection(Envelope)
  /\ delivery' = IF intake' = "selected" THEN Envelope ELSE None
  /\ UNCHANGED <<request, store, copied>>

IntakeNext ==
  \/ \E part \in DOMAIN store : Republish(part)
  \/ CheckPurpose \/ ReadPart \/ ReadFails \/ Select

IntakeSpec == IntakeInit /\ [][IntakeNext]_intakeVars

----------------------------------------------------------------------------
\* The types of the stored parts, the parts read and the outcome.
IntakeTypeOK ==
  /\ request \in Commands
  /\ store \in [Stored(request.source) -> DOMAIN Publications]
  /\ copied \in Seq(DOMAIN Publications) /\ Len(copied) <= Len(Parts(request.source))
  /\ intake \in {"start", "reading", "read", "selected", "invalid", "unavailable",
                 "notFound", "notConsumable", "raised"}
  /\ intake # "selected" => delivery = None

\* Two publications of one catalog and one candidate.
Alike(p, q) ==
  /\ Publications[q].catalog = Publications[p].catalog
  /\ Publications[q].candidate = Publications[p].candidate

\* A delivery is never put together from two publications that disagree: its
\* catalog and its candidate are those of one publication, and its result and
\* its fact requests belong to publications of that same catalog and candidate,
\* whatever the publisher rewrites between two reads (the hash closures of
\* select_complete_delivery_v31).
DeliveryIsOnePublication ==
  intake = "selected" =>
    \E p \in DOMAIN Publications :
      /\ delivery.catalog = Publications[p].catalog
      /\ delivery.candidate = Publications[p].candidate
      /\ \E q \in DOMAIN Publications :
           Alike(p, q) /\ delivery.result = Publications[q].result
      /\ \E q \in DOMAIN Publications :
           Alike(p, q) /\ Payloads = Publications[q].payloads
============================================================================
