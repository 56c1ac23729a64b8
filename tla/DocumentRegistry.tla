-------------------------- MODULE DocumentRegistry --------------------------
(***************************************************************************)
(* GovernedDocumentLifecycleService and the document routes of the API.    *)
(* A registration appends one metadata row and one document version in a   *)
(* compare-and-swap of its own.  A decision first locates the snapshot a   *)
(* resource id points at, derives from it the revision that makes a retry  *)
(* a replay, and only then calls DocumentGovernanceService, which reads    *)
(* the repository again; the answer joins the metadata of the first read   *)
(* with the document of the second.  All other callers interleave.         *)
(*                                                                         *)
(* The pipeline that processes a document executes its commands through    *)
(* the same governance service; since that service implements AtomicSpec,  *)
(* each of them is one step here.  A document id is the pair (version      *)
(* number, content hash) it is derived from.                               *)
(***************************************************************************)
EXTENDS DocumentGovernance

CONSTANTS Requests,          \* what the clients send
          PipelineCommands,  \* what the processing pipeline executes
          Sizes,             \* declared sizes in bytes
          RegistrationActor, \* _REGISTRATION_ACTOR
          MaxRevision        \* bound: the pipeline executes nothing beyond it

VARIABLES metadata,  \* DocumentRegistration.versions of the stored document
          api        \* per client: the request it sent and what it has read

registryVars == <<store, call, metadata, api>>

Routes == {"register", "get", "approve", "reject", "reprocess"}
Metadata == [sha256 : Hashes, size : Sizes]

(* "number" and "sha256" are the document id of every route but register. *)
RequestShapes == [route : Routes, number : Nat, sha256 : Hashes, size : Sizes,
                  reason : Reasons \cup {None}]

ASSUME RequestsAreWellFormed ==
  /\ Requests \subseteq RequestShapes /\ Requests # {}
  /\ RegistrationActor \in Actors /\ Sizes # {} /\ MaxRevision \in Nat
(* RejectDocumentRequest requires a reason; an approval without a note is  *)
(* given _APPROVAL_WITHOUT_NOTE_REASON. *)
ASSUME DecisionsAreJustified ==
  \A r \in Requests : r.route \in {"approve", "reject"} => r.reason # None
ASSUME PipelineDoesNotDecide ==
  PipelineCommands \subseteq
    { c \in Commands : c.action \notin {"registered", "approved", "rejected"} }

Errors == {"not_found", "invalid_request", "invalid_transition", "conflict",
           "unavailable"}

Answers == [error : Errors \cup {None}, version : Nat, shown : Statuses \cup {None},
            revision : Nat]
NoAnswer == [error |-> None, version |-> 0, shown |-> None, revision |-> 0]

Registration == [document : Documents, metadata : Seq(Metadata), revision : Nat]
NothingRegistered == [document |-> NoDocument, metadata |-> <<>>, revision |-> 0]
Stored == [document |-> store.document, metadata |-> metadata,
           revision |-> store.revision]

ApiPhases == {"idle", "lookup", "register", "reread", "locate", "govern", "answered"}

IdleApi == [phase |-> "idle", request |-> CHOOSE r \in Requests : TRUE,
            read |-> NothingRegistered, draft |-> NothingRegistered, answer |-> NoAnswer]

InPhase(p, phase) == api[p].phase = phase

(* The draft is dropped; what was read stays for the properties. *)
Answer(p, read, answer) ==
  api' = [api EXCEPT ![p] = [@ EXCEPT !.phase = "answered", !.read = read,
                                      !.draft = NothingRegistered, !.answer = answer]]
Refusal(error) == [NoAnswer EXCEPT !.error = error]

-----------------------------------------------------------------------------
(* Errors: the domain's, the registry's, and the HTTP status they end in.  *)

MappedErrors ==
  [not_found |-> "not_found", invalid_input |-> "invalid_request",
   invalid_transition |-> "invalid_transition", approval_blocked |-> "invalid_transition",
   concurrency |-> "conflict", content_conflict |-> "conflict",
   version_conflict |-> "conflict", audit_conflict |-> "unavailable",
   clock |-> "unavailable", integrity |-> "unavailable"]

RegistrationError(outcome) ==
  IF outcome = "invalid_transition" THEN "conflict" ELSE MappedErrors[outcome]

(* The errors a route's handler turns into an API error. *)
CaughtBy ==
  [register  |-> {"invalid_request", "conflict", "unavailable"},
   get       |-> {"not_found", "unavailable"},
   approve   |-> Errors,
   reject    |-> Errors,
   reprocess |-> Errors \ {"invalid_request"}]

StatusCodes == [not_found |-> 404, conflict |-> 409, invalid_transition |-> 409,
                invalid_request |-> 422, unavailable |-> 503]

HttpStatus(route, error) ==
  IF error = None THEN IF route = "register" THEN 201 ELSE 200
  ELSE IF error \in CaughtBy[route] THEN StatusCodes[error] ELSE 500

(* The statuses the OpenAPI operation of a route declares. *)
DeclaredStatuses ==
  [register |-> {201, 409, 422, 503}, get |-> {200, 404, 422, 503},
   approve |-> {200, 404, 409, 422, 503}, reject |-> {200, 404, 409, 422, 503},
   reprocess |-> {200, 404, 409, 422, 503}]

-----------------------------------------------------------------------------
(* Registration *)

SameContent(d, r) == { n \in DOMAIN d.versions : d.versions[n].sha256 = r.sha256 }
SameMetadata(registration, n, r) == registration.metadata[n].size = r.size

(* _matching_registration, then _received_projection: the receipt of the   *)
(* first registration of this content, whatever became of it since. *)
Receipt(n, revision) ==
  [error |-> None, version |-> n, shown |-> "received", revision |-> revision]

Replayed(registration, r) ==
  LET n == CHOOSE m \in SameContent(registration.document, r) : TRUE
  IN  IF SameMetadata(registration, n, r)
      THEN Receipt(n, registration.revision)
      ELSE Refusal(RegistrationError("content_conflict"))

RegisterCommand(registration, r) ==
  [action |-> "registered", version |-> Len(registration.metadata) + 1,
   sha256 |-> r.sha256, actor |-> RegistrationActor, reason |-> None, step |-> None]

Lookup(p) ==
  /\ InPhase(p, "lookup")
  /\ LET r == api[p].request
         d == store.document
         c == RegisterCommand(Stored, r)
     IN  IF SameContent(d, r) # {} THEN Answer(p, Stored, Replayed(Stored, r))
         ELSE \E at \in Instants :
           IF RegisterError(d, c, at) # None
           THEN Answer(p, Stored, Refusal(RegistrationError(RegisterError(d, c, at))))
           ELSE api' = [api EXCEPT ![p] =
                  [@ EXCEPT !.phase = "register", !.read = Stored,
                            !.draft = [document |-> Registered(d, c, at),
                                       metadata |-> Append(metadata,
                                         [sha256 |-> r.sha256, size |-> r.size]),
                                       revision |-> store.revision]]]
  /\ UNCHANGED <<store, call, metadata>>

(* validate_registration_metadata_update *)
AppendsOneVersion(candidate) ==
  /\ Len(candidate) = Len(metadata) + 1
  /\ SubSeq(candidate, 1, Len(metadata)) = metadata

RegistrationRevisionMatches(p) == store.revision = api[p].draft.revision

PublishedDocumentOnly(p) == metadata                       \* mutant
PublishedMetadata(p) == api[p].draft.metadata

CompareAndSwapRegistration(p) ==
  /\ InPhase(p, "register")
  /\ LET draft == api[p].draft
         c == RegisterCommand(api[p].read, api[p].request)
     IN  IF ~RegistrationRevisionMatches(p)
         THEN /\ api' = [api EXCEPT ![p].phase = "reread", ![p].draft = NothingRegistered]
              /\ UNCHANGED <<store, metadata>>
         ELSE IF ~ExtendsAudit(store.document, draft.document, c)
         THEN /\ Answer(p, api[p].read, Refusal(RegistrationError("audit_conflict")))
              /\ UNCHANGED <<store, metadata>>
         ELSE IF ~AppendsOneVersion(draft.metadata)
         THEN /\ Answer(p, api[p].read, Refusal(RegistrationError("integrity")))
              /\ UNCHANGED <<store, metadata>>
         ELSE /\ store' = [document |-> draft.document, revision |-> store.revision + 1]
              /\ metadata' = PublishedMetadata(p)
              /\ Answer(p, api[p].read, Receipt(c.version, store.revision + 1))
  /\ UNCHANGED call

RereadRegistration(p) ==
  /\ InPhase(p, "reread")
  /\ IF SameContent(store.document, api[p].request) # {}
     THEN Answer(p, api[p].read, Replayed(Stored, api[p].request))
     ELSE Answer(p, api[p].read, Refusal(RegistrationError("concurrency")))
  /\ UNCHANGED <<store, call, metadata>>

-----------------------------------------------------------------------------
(* Decisions *)

Located(registration, r) ==
  /\ r.number \in DOMAIN registration.metadata
  /\ registration.document.versions[r.number].sha256 = r.sha256

(* What _document_projection, and the constructors it is fed through,      *)
(* cannot show of a registration. *)
WasRecorded(d, n, action) ==
  \E i \in DOMAIN d.history : d.history[i].version = n /\ d.history[i].action = action

Projectable(registration, n) ==
  LET d == registration.document
      v == d.versions[n]
  IN  /\ Len(registration.metadata) = Len(d.versions)
      /\ \A m \in DOMAIN d.versions :
           registration.metadata[m].sha256 = d.versions[m].sha256
      /\ v.status = "rejected" => WasRecorded(d, n, "rejected")
      /\ v.status = "failed" => v.failure # None
      /\ v.status = "superseded" => v.superseded_by \in DOMAIN registration.metadata

Projection(registration, n) ==
  IF Projectable(registration, n)
  THEN [error |-> None, version |-> n, shown |-> registration.document.versions[n].status,
        revision |-> registration.revision]
  ELSE Refusal(MappedErrors["integrity"])

ActionOf == [approve |-> "approved", reject |-> "rejected",
             reprocess |-> "reprocessing_started"]
TargetOf == [approve |-> "approved", reject |-> "rejected", reprocess |-> "processing"]

DecisionCommand(r) ==
  [action |-> ActionOf[r.route], version |-> r.number,
   sha256 |-> IF r.route = "reprocess" THEN r.sha256 ELSE None,
   actor |-> RegistrationActor,
   reason |-> IF r.route = "reprocess" THEN None ELSE r.reason, step |-> None]

(* _expected_revision_for_replay: a version whose latest event is this     *)
(* very action is taken for the retry of the command that wrote it. *)
RevisionAsLocated(registration, r) == registration.revision   \* mutant
ExpectedRevision(registration, r) ==
  LET d == registration.document
      latest == d.history[Len(d.history)]
  IN  IF /\ d.versions[r.number].status = TargetOf[r.route]
         /\ latest.version = r.number
         /\ latest.action = ActionOf[r.route]
         /\ registration.revision > 1
      THEN registration.revision - 1
      ELSE registration.revision

Locate(p) ==
  /\ InPhase(p, "locate")
  /\ LET r == api[p].request
     IN  IF ~Located(Stored, r)
         THEN Answer(p, Stored, Refusal(MappedErrors["not_found"])) /\ UNCHANGED call
         ELSE IF r.route = "get"
         THEN Answer(p, Stored, Projection(Stored, r.number)) /\ UNCHANGED call
         ELSE /\ api' = [api EXCEPT ![p].phase = "govern", ![p].read = Stored]
              /\ call' = [call EXCEPT ![p] =
                   [@ EXCEPT !.phase = "get", !.command = DecisionCommand(r),
                             !.expected = ExpectedRevision(Stored, r)]]
  /\ UNCHANGED <<store, metadata>>

(* _project_updated_snapshot joins the metadata located first with the     *)
(* document the service returned, which is the one stored at that moment. *)
Joined(p) == [document |-> store'.document, metadata |-> api[p].read.metadata,
              revision |-> store'.revision]

DecisionAnswer(p, outcome) ==
  LET r == api[p].request
      shown == Projection(Joined(p), r.number)
  IN  IF outcome \notin {"applied", "replayed"} THEN Refusal(MappedErrors[outcome])
      ELSE IF shown.shown # TargetOf[r.route] THEN Refusal(MappedErrors["integrity"])
      ELSE shown

(* One step of the governance service on behalf of a decision. *)
Govern(p) ==
  /\ InPhase(p, "govern")
  /\ Get(p) \/ Mutate(p) \/ CompareAndSwap(p) \/ Reread(p)
  /\ IF call'[p].phase = "done"
     THEN Answer(p, api[p].read, DecisionAnswer(p, call'[p].outcome))
     ELSE UNCHANGED api
  /\ UNCHANGED metadata

-----------------------------------------------------------------------------

(* A request arrives; clients retry whatever they like. *)
Issue(p) ==
  /\ InPhase(p, "idle")
  /\ \E r \in Requests :
       api' = [api EXCEPT ![p].phase = IF r.route = "register" THEN "lookup" ELSE "locate",
                          ![p].request = r]
  /\ UNCHANGED <<store, call, metadata>>

(* The HTTP response is sent, whether or not it is ever received. *)
Respond(p) ==
  /\ InPhase(p, "answered")
  /\ api' = [api EXCEPT ![p] = IdleApi]
  /\ call' = [call EXCEPT ![p] = IdleCall]
  /\ UNCHANGED <<store, metadata>>

Pipeline ==
  /\ store.revision < MaxRevision
  /\ \E c \in PipelineCommands, at \in Instants : Execute(c, at)
  /\ UNCHANGED <<call, metadata, api>>

Handle(p) == \/ Lookup(p) \/ CompareAndSwapRegistration(p) \/ RereadRegistration(p)
             \/ Locate(p) \/ Govern(p) \/ Respond(p)

RegistryInit ==
  /\ Init
  /\ metadata = [n \in DOMAIN store.document.versions |->
                   [sha256 |-> store.document.versions[n].sha256,
                    size |-> CHOOSE size \in Sizes : TRUE]]
  /\ api = [p \in Callers |-> IdleApi]

RegistryNext == Pipeline \/ \E p \in Callers : Issue(p) \/ Handle(p)

RegistrySpec == RegistryInit /\ [][RegistryNext]_registryVars

-----------------------------------------------------------------------------

RegistryTypeOK ==
  /\ TypeOK
  /\ metadata \in Seq(Metadata)
  /\ api \in [Callers -> [phase : ApiPhases, request : Requests, read : Registration,
                          draft : Registration, answer : Answers]]

Succeeded(p, routes) ==
  /\ InPhase(p, "answered")
  /\ api[p].request.route \in routes
  /\ api[p].answer.error = None

Decisions == {"approve", "reject", "reprocess"}

(* Metadata and document are written by two different compare-and-swaps,   *)
(* and still there is one metadata row per version, for its content.  The  *)
(* constructor of DocumentRegistration refuses anything else. *)
RegistrationIsWhole ==
  /\ Len(metadata) = Len(store.document.versions)
  /\ \A n \in DOMAIN metadata : metadata[n].sha256 = store.document.versions[n].sha256

(* A success is true.  A receipt, fresh or repeated, names a stored version *)
(* that has exactly the declared content and size, also when two clients   *)
(* registered it at the same time; the revision a decision is answered     *)
(* with recorded exactly that decision on the version with the content the *)
(* resource id was derived from: actor, action, reason. *)
SuccessIsTrue ==
  \A p \in Callers :
    LET r == api[p].request
        n == api[p].answer.version
        k == api[p].answer.revision
    IN  /\ Succeeded(p, {"register"}) =>
             /\ n \in DOMAIN metadata
             /\ metadata[n] = [sha256 |-> r.sha256, size |-> r.size]
             /\ \A q \in Callers :
                  /\ Succeeded(q, {"register"})
                  /\ api[q].request = r
                  => api[q].answer.version = n
        /\ Succeeded(p, Decisions) =>
             /\ Located(Stored, r)
             /\ RecordedAt(store.document, k, DecisionCommand(r))

(* The retry of the command the history ends with, on the resource that    *)
(* command decided, never executes it once more, and is answered as a      *)
(* success unless the document moved on. *)
RetryIsRecognised ==
  \A p \in Callers :
    LET d == api[p].read.document
        r == api[p].request
    IN  /\ InPhase(p, "answered")
        /\ r.route \in Decisions
        /\ d # NoDocument
        /\ Located(api[p].read, r)
        /\ MatchesLatestCommand(d, DecisionCommand(r))
        => /\ call[p].outcome # "applied"
           /\ store.revision = api[p].read.revision => api[p].answer.error = None

(* A client may repeat any request: what it is told is true, and the       *)
(* repetition changes nothing. *)
RepetitionIsHarmless == SuccessIsTrue /\ RetryIsRecognised

(* What the OpenAPI operations declare: a request that the route cannot    *)
(* honour in the current state is refused with a declared status (409 for  *)
(* a transition that is not valid for it). *)
EveryAnswerIsDeclared ==
  \A p \in Callers :
    LET route == api[p].request.route
    IN  InPhase(p, "answered") =>
          HttpStatus(route, api[p].answer.error) \in DeclaredStatuses[route]

=============================================================================
