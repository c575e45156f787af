------------------------------ MODULE PtvWrites ------------------------------
(***************************************************************************)
(* Approved proposals written to PTV through the v11 API: applyChanges and *)
(* the other kinds' apply functions, the pipeline they share               *)
(* (src/mcp/proposalPipeline.ts) and the adapter's apply methods           *)
(* (src/ptv/v11/adapter.ts).                                               *)
(*                                                                         *)
(* Several applies run at once on one PTV item of some kind, each taking   *)
(* the steps the code takes: the item is read, merged with the change and  *)
(* validated; the adapter reads PTV's latest version again, or the         *)
(* published one when the restricted read fails; the PUT built on that     *)
(* read is sent; a service's connections go in a second PUT built on the   *)
(* same read; the outcome is audited.  Any read or PUT may fail and a PUT  *)
(* may be carried out without an answer.  Meanwhile people edit the item   *)
(* in PTV's own UI.  A proposal for a new item is a POST instead.          *)
(*                                                                         *)
(* MaxEvents bounds what can go wrong: failed requests, refusals and edits *)
(* made in PTV's own UI.                                                   *)
(***************************************************************************)
EXTENDS WriteMapping, Integers

CONSTANTS Call,        \* applies of approved proposals
          Items,       \* for each kind, the items PTV may hold at first
          Changes,     \* for each kind, the changes that may be applied
          NewItems,    \* for each kind, the items that may be proposed
          Connections, \* the connections the service may have at first
          Details,     \* changes of a connection's extra info
          Edits,       \* for each kind, what is edited in PTV's own UI
          OrganizationArea, \* the area of the organisation of a new service
          MaxEvents

\* The fields of a connection's extra info that a change may touch; others
\* are refused.
CONNECTION_DETAIL_FIELDS ==
  {"chargeType", "descriptions", "chargeDescriptions", "serviceHours", "emails",
   "phoneNumbers", "webPages", "addresses"}

IsText(text) == \A t \in text : t = <<t[1], t[2]>>

IsList(items) == \A i \in items : i = <<i[1], i[2], i[3]>>

\* A connection's numbers: phones and faxes, which its write schema takes as
\* two lists without types.
PlainPhones(phones) == \A p \in phones : p = <<p[1], p[2]>> /\ p[1] \in {"Phone", "Fax"}

IsDetails(details) == DOMAIN details = DetailFields /\ PlainPhones(details.phoneNumbers)

Texts == {"names", "alternativeNames", "summaries", "descriptions"}

\* The list of PTV that holds a text, and the types an organisation's have.
ListOf(text) == IF text \in {"names", "alternativeNames"} THEN "nameList" ELSE "descriptionList"

OrganizationTypes(list) ==
  IF list = "nameList" THEN {"Name", "AlternativeName"} ELSE {"Summary", "Description"}

\* A field of an item PTV holds: an organisation's numbers have no type.
IsField(k, f, value) ==
  /\ f \in {"nameList", "descriptionList"} =>
       /\ IsList(value)
       /\ k = "Organization" => \A i \in value : i[1] \in OrganizationTypes(f)
  /\ k = "Organization" /\ f = "phoneNumbers" => Faxes(value) = {}

ServiceFields ==
  {"names", "summaries", "descriptions", "languages", "publishingStatus", "type",
   "generalDescriptionId", "serviceChannelIds"} \cup Classifications

\* A field a change gives: of a general description's classifications, a
\* list only has those of its own kind.
IsChange(k, f, value) ==
  /\ k = "Service" => f \in ServiceFields
  /\ f \in Texts => IsText(value)
  /\ f = "phoneNumbers" /\ k = "Organization" => PlainPhones(value) /\ Faxes(value) = {}
  /\ f = "phoneNumbers" /\ k = "ServiceLocation" => PlainPhones(value)
  /\ k = "Service" /\ f \in Classifications => value \cap InheritedUris \subseteq Inherited[f]

NewFields(k) ==
  CASE k = "Service" -> ServiceFields \ {"serviceChannelIds"}
    [] k = "Organization" -> OrganizationFields
    [] OTHER -> ChannelTypeFields(k)

\* What PTV holds has the fields of its kind, what is proposed only those
\* the code lets through, and PTV's organisations have an area.
ASSUME WritesAssumption ==
  /\ \A k \in Kinds :
       /\ \A new \in Items[k] :
            DOMAIN new = ReadSchema(k) /\ \A f \in DOMAIN new : IsField(k, f, new[f])
       /\ \A edit \in Edits[k] :
            /\ DOMAIN edit \subseteq ReadSchema(k) \ {"publishingStatus"}
            /\ \A f \in DOMAIN edit : IsField(k, f, edit[f])
       /\ \A changes \in Changes[k] : \A f \in DOMAIN changes : IsChange(k, f, changes[f])
       /\ \A new \in NewItems[k] :
            \A f \in DOMAIN new : f \in NewFields(k) /\ IsChange(k, f, new[f])
  /\ \A all \in Connections : \A ch \in DOMAIN all : IsDetails(all[ch])
  /\ \A change \in Details :
       /\ DOMAIN change.details \subseteq CONNECTION_DETAIL_FIELDS
       /\ IsText(Touched(change.details, "descriptions", {}))
       /\ IsText(Touched(change.details, "chargeDescriptions", {}))
       /\ PlainPhones(Touched(change.details, "phoneNumbers", {}))
  /\ OrganizationArea # {}
  /\ MaxEvents \in Nat

VARIABLES kind,        \* the kind of the item written to
          item,        \* the item's latest version in PTV
          published,   \* the version the public read shows, << >> when none
          connections, \* the service's connections
          created,     \* the items POSTed
          call,        \* the applies
          events       \* what went wrong so far

vars == <<kind, item, published, connections, created, call, events>>

Nothing == << >>

Idle == [pc |-> "idle", what |-> "none", changes |-> Nothing, seen |-> Nothing,
         wire |-> Nothing, uris |-> {}, relations |-> Nothing, before |-> Nothing,
         alone |-> FALSE, refusal |-> "none"]

Init ==
  /\ kind \in Kinds
  /\ item \in Items[kind]
  /\ published = IF item.publishingStatus = {"Published"} THEN item ELSE Nothing
  /\ connections \in IF kind = "Service" THEN Connections ELSE {Nothing}
  /\ created = {}
  /\ call = [c \in Call |-> Idle]
  /\ events = 0

Happens == events < MaxEvents /\ events' = events + 1

\* A person approves a proposal for the item, or for a new item of the kind.
Approve(c) ==
  /\ call[c].pc = "idle"
  /\ \E what \in {"update", "details", "create"} :
       \E changes \in CASE what = "update" -> Changes[kind]
                        [] what = "details" ->
                             IF kind = "Service" /\ DOMAIN connections # {} THEN Details ELSE {}
                        [] what = "create" -> NewItems[kind] :
         call' = [call EXCEPT ![c] = [Idle EXCEPT !.pc = "approved", !.what = what,
                                                  !.changes = changes]]
  /\ UNCHANGED <<kind, item, published, connections, created, events>>

-----------------------------------------------------------------------------
(* Reading.  A restricted read shows the latest version; when it fails the *)
(* public read decides.  Organisations only have the public read.          *)

Latest == IF item.publishingStatus = {"Deleted"} THEN Nothing ELSE WireOf(item)
Public == IF published = Nothing THEN Nothing ELSE WireOf(published)

\* Read the item as `view', an event if that is not what PTV serves.
Reads(view) ==
  \/ /\ view = IF kind = "Organization" THEN Public ELSE Latest
     /\ UNCHANGED events
  \/ /\ kind # "Organization" /\ view = Public /\ Happens

End(c, result) == [call EXCEPT ![c].pc = result]

\* prepareProposal and its siblings, then the validation: the item is read,
\* the change merged into it, and the merged item must keep PTV's rules.
Validate(c) ==
  LET changes == call[c].changes
  IN
  /\ call[c].pc = "approved" /\ call[c].what = "update"
  /\ \E view \in {Latest, Public} :
       /\ Reads(view)
       /\ IF view = Nothing \/ ~Supported(kind, changes)
            THEN call' = End(c, "failed")
            ELSE LET current == DomainOf(kind, view)
                     proposed == Merge(current,
                       [f \in DOMAIN changes \ {"serviceChannelIds"} |-> changes[f]])
                 IN  IF ValidUpdate(kind, proposed, changes)
                       THEN call' = [call EXCEPT ![c].pc = "validated", ![c].seen = current,
                                                 ![c].alone = TRUE]
                       ELSE call' = End(c, "invalid")
  /\ UNCHANGED <<kind, item, published, connections, created>>

\* getConnectionsFor: the connection must exist in the public read when the
\* change is prepared.
ValidateDetails(c) ==
  /\ call[c].pc = "approved" /\ call[c].what = "details"
  /\ call' = IF Public = Nothing \/ call[c].changes.channel \notin DOMAIN connections
               THEN End(c, "failed")
               ELSE [call EXCEPT ![c].pc = "validated", ![c].alone = TRUE]
  /\ UNCHANGED <<kind, item, published, connections, created, events>>

\* getLatestOrNull (getOrNull for an organisation): what the PUT is built
\* on.  A missing item or a Modified version, which the API cannot update,
\* ends the apply.  A linked service's description is read next.
ReadLatest(c) ==
  /\ call[c].pc = "validated" /\ call[c].what = "update"
  /\ \E view \in {Latest, Public} :
       LET linked == kind = "Service" /\ GeneralDescriptionUris(view) # {} IN
       /\ Reads(view)
       /\ call' = IF view = Nothing \/ (view # Nothing /\ Locked(view))
                    THEN End(c, "failed")
                    ELSE [call EXCEPT ![c].pc = IF linked THEN "describe" ELSE "read",
                                      ![c].wire = view,
                                      ![c].relations = connections,
                                      ![c].before = item]
  /\ UNCHANGED <<kind, item, published, connections, created>>

\* generalDescriptionUris: a description PTV answers 404 for brings nothing
\* (getOrNull), and the apply goes on; any other failure ends it.
ReadDescription(c) ==
  /\ call[c].pc = "describe"
  /\ \/ /\ call' = [call EXCEPT ![c].pc = "read",
                                ![c].uris = GeneralDescriptionUris(call[c].wire)]
        /\ UNCHANGED events
     \/ /\ call' \in {End(c, "read"), End(c, "failed")}
        /\ Happens
  /\ UNCHANGED <<kind, item, published, connections, created>>

\* A connection change reads the service the same way, and checks neither
\* its status nor anything else of it but that the channel is connected.
ReadRelations(c) ==
  /\ call[c].pc = "validated" /\ call[c].what = "details"
  /\ \E view \in {Latest, Public} :
       /\ Reads(view)
       /\ call' = IF view = Nothing \/ call[c].changes.channel \notin DOMAIN connections
                    THEN End(c, "failed")
                    ELSE [call EXCEPT ![c].pc = "connect", ![c].before = item,
                                      ![c].relations = connections]
  /\ UNCHANGED <<kind, item, published, connections, created>>

-----------------------------------------------------------------------------
(* Writing. *)

\* PTV holds another item now: no other apply is alone with it any more.
Disturbs(c) == [d \in Call |-> IF d = c THEN call[d] ELSE [call[d] EXCEPT !.alone = FALSE]]

\* PTV's latest version after a PUT, and what the public read shows.
Stored(after) ==
  /\ item' = after
  /\ published' = CASE after.publishingStatus = {"Published"} -> after
                    [] after.publishingStatus = {"Deleted"} -> Nothing
                    [] OTHER -> published

\* The statuses PTV takes; a published item cannot go back to Draft.
TakesStatus(status) ==
  /\ status \in {{"Draft"}, {"Published"}, {"Modified"}, {"Deleted"}}
  /\ item.publishingStatus = {"Published"} => status # {"Draft"}

Refusal(body) ==
  IF Locked(item) \/ item.publishingStatus = {"Deleted"} THEN "locked"
  ELSE IF ~TakesStatus(body.set.publishingStatus) THEN "status"
  ELSE IF kind # "Service" THEN "none"
  ELSE IF LacksRequired(item, body) THEN "required"
  ELSE IF LacksSummary(body) THEN "summary"
  ELSE IF LacksBusinessGroup(Put(item, body, WriteSchema(kind))) THEN "group"
  ELSE "none"

\* The PUT of the item.  What follows it: a service's connections are
\* planned from the record the PUT was built on, and written when they
\* change.
PutItem(c) ==
  LET changes == call[c].changes
      body == BodyOf(kind, changes, call[c].wire, call[c].uris)
      after == Put(item, body, WriteSchema(kind))
      connects == "serviceChannelIds" \in DOMAIN changes
        /\ PlanServiceConnections(call[c].relations, changes["serviceChannelIds"]).changes
      next == IF connects THEN "connect" ELSE "written"
  IN
  /\ call[c].pc = "read"
  /\ \/ /\ Refusal(body) # "none"
        /\ call' = [call EXCEPT ![c].pc = "failed", ![c].refusal = Refusal(body)]
        /\ UNCHANGED <<item, published, events>>
     \/ /\ Refusal(body) = "none"
        /\ Stored(after)
        /\ \/ UNCHANGED events /\ call' = [Disturbs(c) EXCEPT ![c].pc = next]
           \/ Happens /\ call' = [Disturbs(c) EXCEPT ![c].pc = "failed"]
     \/ /\ Happens
        /\ call' = End(c, "failed")
        /\ UNCHANGED <<item, published>>
  /\ UNCHANGED <<kind, connections, created>>

RelationsToSend(c) ==
  IF call[c].what = "details"
    THEN PlanConnectionDetails(call[c].relations, call[c].changes.channel,
                               call[c].changes.details)
    ELSE PlanServiceConnections(call[c].relations,
                                call[c].changes["serviceChannelIds"]).relations

PutRelations(c) ==
  /\ call[c].pc = "connect"
  /\ \/ /\ connections' = PutConnections(RelationsToSend(c))
        /\ \/ UNCHANGED events /\ call' = [Disturbs(c) EXCEPT ![c].pc = "written"]
           \/ Happens /\ call' = [Disturbs(c) EXCEPT ![c].pc = "failed"]
     \/ /\ Happens
        /\ call' = End(c, "failed")
        /\ UNCHANGED connections
  /\ UNCHANGED <<kind, item, published, created>>

\* The outcome is audited as a success; when that record cannot be saved
\* the apply ends as failed, and is recorded as such.
Audit(c) ==
  /\ call[c].pc = "written"
  /\ \/ UNCHANGED events /\ call' = End(c, "done")
     \/ Happens /\ call' = End(c, "failed")
  /\ UNCHANGED <<kind, item, published, connections, created>>

\* The area a new item is given: a service its organisation's, read
\* publicly, or the whole country when it cannot be read.
AreaGiven(area) ==
  CASE kind = "Service" -> OrganizationAreaToV11(area)
    [] kind = "Organization" -> OrganizationAreaToV11Post(OrganizationArea)
    [] OTHER -> {}

\* PTV refuses an area wider than the organisation's and a body without
\* what its kind must have.
CreateRefusal(body, area) ==
  IF ~(AreaGiven(area) \subseteq OrganizationArea) THEN "area"
  ELSE IF \/ ~(RequiredToCreate(kind) \subseteq DOMAIN body)
          \/ kind = "Service" /\ LacksRequired(EmptyItem(kind), [set |-> body, clear |-> {}])
       THEN "required"
  ELSE "none"

\* A new item: validated when it is applied, and POSTed.
Create(c) ==
  LET new == Normalize(kind, call[c].changes)
      body == NewBodyOf(kind, new)
      made == created \cup {[new |-> new, stored |-> Post(kind, body)]}
  IN
  /\ call[c].pc = "approved" /\ call[c].what = "create"
  /\ \E area \in {OrganizationArea, {}} :
       \/ /\ ~ValidNew(kind, new) /\ area = OrganizationArea
          /\ call' = End(c, "invalid") /\ UNCHANGED <<created, events>>
       \/ /\ ValidNew(kind, new)
          /\ IF area = {} THEN kind = "Service" /\ Happens ELSE UNCHANGED events
          /\ IF CreateRefusal(body, area) = "none"
               THEN created' = made /\ call' = End(c, "written")
               ELSE /\ call' = [call EXCEPT ![c].pc = "failed",
                                            ![c].refusal = CreateRefusal(body, area)]
                    /\ UNCHANGED created
       \/ /\ ValidNew(kind, new) /\ area = OrganizationArea /\ Happens
          /\ CreateRefusal(body, area) = "none"
          /\ created' \in {created, made}
          /\ call' = End(c, "failed")
  /\ UNCHANGED <<kind, item, published, connections>>

-----------------------------------------------------------------------------
(* External: people working in PTV's own UI. *)

NobodyIsAlone == [d \in Call |-> [call[d] EXCEPT !.alone = FALSE]]

\* A field is edited, and the edit published or saved as a Modified version
\* over the published one.
EditInPtv ==
  /\ Happens
  /\ \E edit \in Edits[kind] :
       \/ Stored(edit @@ item)
       \/ /\ item.publishingStatus \in {{"Published"}, {"Modified"}}
          /\ item' = ("publishingStatus" :> {"Modified"}) @@ (edit @@ item)
          /\ UNCHANGED published
  /\ call' = NobodyIsAlone
  /\ UNCHANGED <<kind, connections, created>>

PublishInPtv ==
  /\ item.publishingStatus = {"Modified"}
  /\ Stored(("publishingStatus" :> {"Published"}) @@ item)
  /\ call' = NobodyIsAlone
  /\ UNCHANGED <<kind, connections, created, events>>

Step(c) ==
  \/ Approve(c) \/ Validate(c) \/ ValidateDetails(c) \/ ReadLatest(c) \/ ReadDescription(c)
  \/ ReadRelations(c) \/ PutItem(c) \/ PutRelations(c) \/ Audit(c) \/ Create(c)

Next == (\E c \in Call : Step(c)) \/ EditInPtv \/ PublishInPtv

Spec == Init /\ [][Next]_vars
-----------------------------------------------------------------------------
(* Properties.  A call is alone when nothing else wrote to the item since  *)
(* its change was validated.                                               *)

\* The shape of the state.
TypeOK ==
  /\ kind \in Kinds
  /\ DOMAIN item = DOMAIN EmptyItem(kind)
  /\ published # Nothing => DOMAIN published = DOMAIN EmptyItem(kind)
  /\ kind = "Service" => \A ch \in DOMAIN connections : DOMAIN connections[ch] = DetailFields
  /\ \A r \in created : DOMAIN r.stored = DOMAIN EmptyItem(kind)
  /\ \A c \in Call :
       call[c].pc \in {"idle", "approved", "validated", "describe", "read", "connect", "written",
                      "done", "failed", "invalid"}
  /\ events \in 0 .. MaxEvents

Updated(c) == call[c].pc = "done" /\ call[c].alone /\ call[c].what = "update"
Ended(c) == call[c].pc \in {"done", "failed"} /\ call[c].alone /\ call[c].before # Nothing

\* What PTV stores in the lists, by the domain fields that govern it.
GovernedTypes(changes) ==
  {t \in {"Name", "AlternativeName", "Summary", "Description"} :
     CASE t = "Name" -> "names" \in DOMAIN changes
       [] t = "AlternativeName" -> "alternativeNames" \in DOMAIN changes
       [] t = "Summary" -> "summaries" \in DOMAIN changes
       [] t = "Description" -> "descriptions" \in DOMAIN changes}

OtherEntries(items, changes) ==
  {i \in items : /\ i[1] \notin GovernedTypes(changes)
                 /\ (kind \in ChannelTypes /\ "languages" \in DOMAIN changes) =>
                      i[2] \in changes["languages"]}

\* The description of the service was read when it has one.
Informed(c) == kind = "Service" => call[c].uris = GeneralDescriptionUris(call[c].wire)

\* What a change does not touch stays as it was: the lists' other entries,
\* among them the types the domain model does not carry, and every other
\* field.  No classification of the service's own is lost; a description's
\* become its own only where its list would be empty without them, or when
\* PTV did not show the description: then nothing is filtered.
RestIsKept ==
  \A c \in Call : Updated(c) =>
    LET changes == call[c].changes
        before == call[c].before
        governed == DOMAIN changes \cup
          (IF "alternativeNames" \in DOMAIN changes \/ "names" \in DOMAIN changes
              \/ "alternativeNameShownIn" \in DOMAIN changes THEN {"displayNameType"} ELSE {})
    IN  /\ \A f \in {"nameList", "descriptionList"} :
             OtherEntries(item[f], changes) = OtherEntries(before[f], changes)
        /\ \A f \in DOMAIN item \ (governed \cup Classifications \cup
                                      {"nameList", "descriptionList"}) :
             item[f] = before[f]
        /\ \A f \in (DOMAIN item \cap Classifications) \ DOMAIN changes :
             /\ before[f] \ InheritedUris \subseteq item[f]
             /\ item[f] \subseteq before[f] \cup
                  (IF before[f] \ InheritedUris = {} \/ ~Informed(c) THEN InheritedUris ELSE {})

\* What PTV v11 cannot be told: it ignores an empty list that has no delete
\* flag, a number of signatures is sent with the requirement only, and an
\* alternative name is shown in the languages of the names only.
NotSent(fields, stored) ==
  {f \in DOMAIN fields \cap {"signatureQuantity"} :
     Touched(fields, "requiresSignature", {}) # {"yes"}}
    \cup {f \in DOMAIN fields \cap {"alternativeNameShownIn"} :
            ~(fields[f] \subseteq LanguagesIn(ItemsOfType(stored.nameList, "Name")))}

CannotBeTold(c) ==
  LET changes == call[c].changes
      sent == BodyOf(kind, changes, call[c].wire, call[c].uris).set
      Unflagged == {"urls", "accessibility"} \cup (IF kind = "Organization" THEN {} ELSE {"emails"})
  IN  {f \in DOMAIN changes \cap Unflagged : changes[f] = {}}
        \cup {f \in DOMAIN changes \cap Required : changes[f] = {}}
        \cup {f \in DOMAIN changes \cap Texts : changes[f] = {} /\ sent[ListOf(f)] = {}}
        \cup NotSent(changes, item)

StoredTexts(stored, field) ==
  CASE field = "names" -> ItemsOfType(stored.nameList, "Name")
    [] field = "alternativeNames" -> ItemsOfType(stored.nameList, "AlternativeName")
    [] field = "summaries" -> ItemsOfType(stored.descriptionList, "Summary")
    [] field = "descriptions" -> ItemsOfType(stored.descriptionList, "Description")

IsLinked(stored) == stored.generalDescriptionId # {}

\* After an apply that reports success PTV holds what was approved: every
\* touched field has its new value, an emptied one included, and the
\* service is connected to exactly the channels of the change.  A linked
\* description adds its classifications; an approved list loses them when
\* the change unlinks it.
ApprovedIsInPtv ==
  \A c \in Call : Updated(c) =>
    LET changes == call[c].changes
        now == DomainOf(kind, WireOf(item))
        Lost == IF IsLinked(call[c].before) /\ ~IsLinked(item) THEN InheritedUris ELSE {}
        Brought(f) == IF IsLinked(item) THEN Inherited[f] ELSE {}
    IN  \A f \in DOMAIN changes \ CannotBeTold(c) :
          CASE f = "serviceChannelIds" -> DOMAIN connections = changes[f]
            [] f \in Texts -> StoredTexts(item, f) = changes[f]
            [] f \in Classifications ->
                 /\ changes[f] \ Lost \subseteq now[f]
                 /\ now[f] \subseteq changes[f] \cup Brought(f)
            [] OTHER -> now[f] = changes[f]

Numbers(phones) == {p[2] : p \in phones}

\* PTV keeps of a connection what the PUT lists and nothing else, and still a
\* connection that stays keeps its extra info, through any apply that is
\* alone and any failure between its two PUTs; the one a connection change is
\* about ends up with exactly the merged details.  Of a resent connection's
\* numbers none is lost, but its faxes come back as phone numbers.
ConnectionsKeepDetails ==
  \A c \in Call : (Ended(c) /\ kind = "Service") =>
    LET before == call[c].relations
        about == IF call[c].what = "details" THEN {call[c].changes.channel} ELSE {}
    IN  /\ call[c].what = "details" => DOMAIN connections = DOMAIN before
        /\ \A ch \in (DOMAIN connections \cap DOMAIN before) \ about :
             /\ \A f \in DetailFields \ {"phoneNumbers"} : connections[ch][f] = before[ch][f]
             /\ Numbers(connections[ch].phoneNumbers) = Numbers(before[ch].phoneNumbers)
        /\ (call[c].pc = "done" /\ call[c].what = "details") =>
             \A ch \in about :
               ConnectionDetailsToDomain(connections[ch])
                 = Merge(ConnectionDetailsToDomain(before[ch]), call[c].changes.details)

\* Two versions of an item, up to what a general description brings in the
\* lists given.
SameBut(a, b, lists) ==
  /\ DOMAIN a = DOMAIN b
  /\ \A f \in DOMAIN a \ lists : a[f] = b[f]
  /\ \A f \in DOMAIN a \cap lists : a[f] \ InheritedUris = b[f] \ InheritedUris

\* Applying the change once more to what an apply left, whether or not its
\* PUTs were carried out, gives what one complete apply gives: a lost answer
\* or a failed second PUT is put right by approving again.  What a linked
\* description brings is filtered from the lists of a change by the link
\* the item has, so a change of the link itself filters them once only.
AgainIsOnce ==
  \A c \in Call :
    (/\ Ended(c) /\ call[c].what = "update" /\ Informed(c)
     /\ call[c].wire = WireOf(call[c].before)) =>
      LET changes == call[c].changes
          before == call[c].before
          Uris(from) == IF kind = "Service" THEN GeneralDescriptionUris(WireOf(from)) ELSE {}
          Once(from) ==
            Put(from, BodyOf(kind, changes, WireOf(from), Uris(from)), WriteSchema(kind))
          filtered ==
            IF kind = "Service" /\ IsLinked(Once(before)) # IsLinked(before)
              THEN Classifications \cap DOMAIN changes ELSE {}
          Connected(from) ==
            IF "serviceChannelIds" \notin DOMAIN changes THEN from
            ELSE LET plan == PlanServiceConnections(from, changes["serviceChannelIds"])
                 IN  IF plan.changes THEN PutConnections(plan.relations) ELSE from
      IN  /\ SameBut(Once(item), Once(before), filtered)
          /\ kind = "Service" => Connected(connections) = Connected(call[c].relations)

\* A change that was found valid is never refused for a list or a type PTV
\* requires: what the change leaves out is sent from the current record.
RequiredAreSent ==
  \A c \in Call : call[c].refusal = "required" => call[c].what = "create" \/ ~call[c].alone

\* Nor is a new item that was found valid: what its kind must have is
\* required by the validation or filled in.
ValidNewIsComplete ==
  \A c \in Call : call[c].what = "create" => call[c].refusal # "required"

\* A valid new service is never refused for an area wider than its
\* organisation's, unless the organisation could not be read.
AreaFits == \A c \in Call : call[c].refusal = "area" => events > 0

\* A new item holds what was proposed, the accessibility apart: a new
\* channel's is unknown.
CreatedAsProposed ==
  \A r \in created :
    LET now == DomainOf(kind, r.stored)
        given == GivenFields(r.new) \ ({"accessibility"} \cup NotSent(r.new, r.stored))
    IN  /\ \A f \in given \cap Texts : StoredTexts(r.stored, f) = r.new[f]
        /\ \A f \in given \ Texts : now[f] = r.new[f]

\* What PTV holds after an apply or a creation is what was approved.
WrittenAsApproved ==
  /\ ApprovedIsInPtv
  /\ CreatedAsProposed

\* What the validation let through is not refused for a list, a field or a
\* type PTV requires, nor for its area.
ValidIsAccepted ==
  /\ RequiredAreSent
  /\ ValidNewIsComplete
  /\ AreaFits
=============================================================================
