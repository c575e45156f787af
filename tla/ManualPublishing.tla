----------------------------- MODULE ManualPublishing -----------------------------
(***************************************************************************)
(* A change that a person enters in PTV's own UI: it is proposed, approved *)
(* for export, entered field by field from the manual-publishing sheet and *)
(* confirmed once PTV no longer differs from it (src/mcp/proposalQueue.ts).*)
(* The item can be edited by others meanwhile, and days pass.  PTV keeps   *)
(* each field in its own form; every reading converts it, and every sheet, *)
(* difference, validation and content check works on what is read.         *)
(***************************************************************************)
EXTENDS FieldTypes, FieldDiff, ContentChecks

CONSTANTS
    Types,          \* "Service", "Organization", "Connection" or a channel type
    Held,           \* what PTV may hold in each field of an item of each type
    Base,           \* an item of each type
    Proposed,       \* the changes that may be proposed to an item of each type
    Context,        \* what the content checks of services are given
    MaxDay, MaxEdits

VARIABLES
    type,           \* of the item
    ptv,            \* what PTV holds in each field of it
    readable,       \* archived items cannot be read
    day,
    status,         \* of the proposal
    changes,
    entered,        \* the fields entered from the sheet and not edited by others since
    checked,        \* what a confirmation has read from PTV: no reading or one
    editedSince,    \* the fields others edited since that reading
    edits           \* bound: how often others edited the item

vars == <<type, ptv, readable, day, status, changes, entered, checked, editedSince, edits>>

-----------------------------------------------------------------------------
(* Reading and writing one field. *)

Given(list) == IF list = << >> THEN None ELSE list

PhoneFields == {"phoneNumbers", "supportPhones"}

\* Only phone channels' numbers have a type in PTV.
Typed(field) == type = "Phone" /\ field = "phoneNumbers"

\* Connections and organisations lack a text that is empty.
ToDomain(field, wire) ==
  CASE field \in LocalizedFields /\ type \in {"Connection", "Organization"} /\ field # "names" ->
         NonEmpty(LanguageItemsToText(wire))
    [] field \in LocalizedFields /\ ~(type \in {"Connection", "Organization"} /\ field # "names") ->
         LanguageItemsToText(wire)
    [] field = "urls" -> NonEmpty(WebPagesToUrls(wire))
    [] field = "chargeDescriptions" -> NonEmpty(LanguageItemsToText(wire))
    [] field = "chargeType" -> IF wire \in DOMAIN ChargeTypes THEN ChargeTypes[wire] ELSE None
    [] field \in PhoneFields -> Given(Mapped(wire, PhoneToDomain))
    [] field = "serviceHours" -> Given(Mapped(wire, ServiceHourToDomain))
    [] field = "webPages" -> Given(Mapped(wire, WebPageToDomain))
    [] field = "addresses" ->
         Given(Mapped(wire, LAMBDA address :
           IF type = "Connection"
             THEN [LocationAddressToDomain(address) EXCEPT !.purpose = None]
             ELSE LocationAddressToDomain(address)))
    [] field = "deliveryAddresses" -> Given(Mapped(wire, DeliveryAddressToDomain))
    [] field = "formFiles" -> IF wire = << >> THEN None ELSE FormFilesToDomain(wire)
    [] field = "accessibility" -> AccessibilityToDomain(wire)
    [] OTHER -> wire

ToWire(field, value) ==
  CASE field \in LocalizedFields \cup {"chargeDescriptions"} -> TextToLanguageItems(value)
    [] field = "urls" -> UrlsToWebPages(value)
    [] field \in PhoneFields ->
         Mapped(OrDefault(value, << >>), LAMBDA phone : PhoneToWire(phone, Typed(field)))
    [] field = "serviceHours" -> Mapped(OrDefault(value, << >>), ServiceHourToWire)
    [] field = "webPages" -> Mapped(OrDefault(value, << >>), WebLinkToWire)
    [] field = "addresses" -> Mapped(OrDefault(value, << >>), LocationAddressToWire)
    [] field = "deliveryAddresses" -> Mapped(OrDefault(value, << >>), DeliveryAddressToWire)
    [] field = "formFiles" -> FormFilesToWire(OrDefault(value, << >>))
    [] field = "accessibility" ->
         IF value = None THEN << >>
         ELSE AccessibilityToWire(value, DOMAIN LanguageItemsToText(ptv.names))
    [] OTHER -> value

Fields == DOMAIN ptv

Current == [f \in Fields |-> ToDomain(f, ptv[f])]

\* A field's presence replaces it, even with an empty value.
ProposedEntity == [f \in Fields |-> IF f \in DOMAIN changes THEN changes[f] ELSE Current[f]]

\* The proposal against PTV now; nothing when the item cannot be read.
Diff == IF readable THEN DiffFields(Current, changes) ELSE {}

Archives == "publishingStatus" \in DOMAIN changes /\ changes.publishingStatus = "Archived"

\* Mutant: an item that cannot be read differs in nothing.
NothingDiffers == Diff = {}

\* An archive is published once the item can no longer be read.
PublishedInPtv == IF readable THEN Diff = {} ELSE Archives

Sheet == BuildManualPublishSheet(Diff, changes)

-----------------------------------------------------------------------------
(* What each kind's handler gives for a proposed item: the errors of its    *)
(* validator, the findings of its content check, and whether approving it  *)
(* for export reads the item again.                                        *)

ServiceUpdate(entity) ==
  [errors |-> ClassificationErrors(entity),
   findings |-> CheckService(entity, Context),
   exportReads |-> TRUE]

ChannelUpdate(entity) ==
  [errors |-> ValidateChannelLists(entity),
   findings |-> CheckChannel(entity, type, day),
   exportReads |-> FALSE]

ConnectionUpdate(entity) ==
  [errors |-> ValidateConnectionDetails(entity),
   findings |-> CheckConnection(entity, day),
   exportReads |-> FALSE]

OrganisationUpdate(entity) ==
  [errors |-> CheckContactDetails(entity),
   findings |-> CheckOrganization(entity),
   exportReads |-> FALSE]

Handler(entity) ==
  CASE type = "Service" -> ServiceUpdate(entity)
    [] type = "Connection" -> ConnectionUpdate(entity)
    [] type = "Organization" -> OrganisationUpdate(entity)
    [] OTHER -> ChannelUpdate(entity)

Validate(entity) == Handler(entity).errors

Quality(entity) == Handler(entity).findings

ProposedQuality == Quality(ProposedEntity)

-----------------------------------------------------------------------------
Init ==
  /\ type \in Types
  /\ ptv \in UNION {{[Base[type] EXCEPT ![f] = wire] : wire \in Held[type][f]} :
                       f \in DOMAIN Held[type]}
  /\ readable = TRUE
  /\ day = 1
  /\ status = "none"
  /\ changes = << >>
  /\ entered = {}
  /\ checked = {} /\ editedSince = {}
  /\ edits = 0

\* A proposal is stored whatever its difference and its validation say.
Queue(proposed) ==
  /\ status = "none" /\ readable
  /\ status' = "pending"
  /\ changes' = proposed
  /\ UNCHANGED <<type, ptv, readable, day, entered, checked, editedSince, edits>>

\* The export of a service renders it anew, so it must still be there; nothing
\* is validated again, whatever became of the item since it was queued.
ExportForManualPublish == Handler(ProposedEntity).exportReads => readable

ApproveForExport ==
  /\ status = "pending"
  /\ ExportForManualPublish
  /\ status' = "approved"
  /\ UNCHANGED <<type, ptv, readable, day, changes, entered, checked, editedSince, edits>>

\* What PTV may be given for the change of a field: what prints as the sheet says.
Entries(field) ==
  {wire \in Held[type][field] \cup {ToWire(field, changes[field])} :
     LET value == ToDomain(field, wire)
     IN  IF field \in LocalizedFields
           THEN FormatLocalized(value) = FormatLocalized(changes[field])
           ELSE FormatValue(field, value) = FormatValue(field, changes[field])}

Enter(field) ==
  /\ status = "approved" /\ readable
  /\ field \in {row.field : row \in Sheet}
  /\ IF field = "publishingStatus" /\ Archives
       THEN readable' = FALSE /\ UNCHANGED ptv
       ELSE /\ \E wire \in Entries(field) : ptv' = [ptv EXCEPT ![field] = wire]
            /\ UNCHANGED readable
  /\ entered' = entered \cup {field}
  /\ UNCHANGED <<type, day, status, changes, checked, editedSince, edits>>

\* A confirmation reads PTV, awaits the answer, and refuses unless it has the change.
CheckPublished ==
  /\ status = "approved" /\ checked = {}
  /\ PublishedInPtv
  /\ checked' = {[readable |-> readable, item |-> Current]}
  /\ editedSince' = {}
  /\ UNCHANGED <<type, ptv, readable, day, status, changes, entered, edits>>

\* Then it closes the proposal, whatever has happened in PTV meanwhile.
MarkPublished ==
  /\ status = "approved" /\ checked # {}
  /\ status' = "published"
  /\ checked' = {}
  /\ UNCHANGED <<type, ptv, readable, day, changes, entered, editedSince, edits>>

-----------------------------------------------------------------------------
(* Others: PTV's other users, and time. *)

EditElsewhere(field) ==
  /\ readable /\ edits < MaxEdits
  /\ \E wire \in Held[type][field] \ {ptv[field]} : ptv' = [ptv EXCEPT ![field] = wire]
  /\ entered' = entered \ {field}
  /\ editedSince' = editedSince \cup {field}
  /\ edits' = edits + 1
  /\ UNCHANGED <<type, readable, day, status, changes, checked>>

Archive ==
  /\ readable /\ edits < MaxEdits
  /\ readable' = FALSE
  /\ edits' = edits + 1
  /\ editedSince' = Fields
  /\ UNCHANGED <<type, ptv, day, status, changes, entered, checked>>

NextDay ==
  /\ day < MaxDay
  /\ day' = day + 1
  /\ UNCHANGED <<type, ptv, readable, status, changes, entered, checked, editedSince, edits>>

Next ==
  \/ \E proposed \in Proposed[type] : Queue(proposed)
  \/ ApproveForExport
  \/ \E field \in Fields : Enter(field)
  \/ CheckPublished
  \/ MarkPublished
  \/ \E field \in DOMAIN Held[type] : EditElsewhere(field)
  \/ Archive
  \/ NextDay

Spec == Init /\ [][Next]_vars

-----------------------------------------------------------------------------
(* Properties. *)

(* Whatever PTV holds, old names included, is read as a value of the       *)
(* domain model, and whatever was entered is of PTV's schema               *)
(* (channelFields.ts, domain.ts).                                          *)
ReadsFit == \A f \in Fields : InSchema(f, ptv[f]) /\ InDomain(f, Current[f])

(* Statuses and counters stay in their sets as well.                       *)
TypeOK ==
  /\ type \in Types
  /\ ReadsFit
  /\ readable \in BOOLEAN
  /\ day \in 1..MaxDay
  /\ edits \in 0..MaxEdits
  /\ status \in {"none", "pending", "approved", "published"}
  /\ entered \subseteq DOMAIN changes /\ DOMAIN changes \subseteq Fields
  /\ editedSince \subseteq Fields
  /\ \A reading \in checked : \A f \in Fields : InDomain(f, reading.item[f])

\* The days and times an hour is about, read from its ranges of days.
OpenOn(hour) ==
  LET Days(time) ==
        {d \in Weekdays : (d - time.dayFrom) % 7 <= (OrDefault(time.dayTo, time.dayFrom)
                                                       - time.dayFrom) % 7}
      times == ToSet(hour.openingTimes)
  IN  UNION {{<<d, time.from, time.to>> : d \in Days(time)} : time \in times}

OverOneDay(hours) == {hour \in ToSet(OrDefault(hours, << >>)) : hour.type # "OverMidnight"}

(* What is sent to PTV for a service hour (serviceHourToWire) and what the *)
(* sheet prints of it (groupDays) open on the same days at the same times  *)
(* as the hour itself, ranges over the week's end included.                *)
HoursMeanTheSame ==
  "serviceHours" \in DOMAIN changes =>
    \A hour \in OverOneDay(changes.serviceHours) :
      LET groups == ToSet(GroupDays(hour))
          read == ServiceHourToDomain(ServiceHourToWire(hour))
      IN  /\ OpenOn(read) = OpenOn(hour)
          /\ OpenOn(hour) = UNION {{<<d, g.from, g.to>> : d \in g.first..g.last} : g \in groups}

(* A list read from PTV and proposed back differs from PTV in nothing: the *)
(* entries of it that nobody meant to change stay what they were, the ones *)
(* PTV keeps under old names included (phoneToDomain, serviceHourToDomain).*)
ReadsSettle ==
  \A field \in Fields :
    LET read == Current[field]
    IN  Comparable(field, ToDomain(field, ToWire(field, read))) = Comparable(field, read)

\* The values that print whole and that PTV adds nothing to.
Enterable(field, value) ==
  LET all(Holds(_)) == \A i \in DOMAIN value : Holds(value[i])
  IN  /\ value # None
      /\ field \in ListFields \cup {"urls", "chargeDescriptions"} => value # << >>
      /\ field \in LocalizedFields => \A l \in DOMAIN value : value[l] # None
      /\ field \in PhoneFields =>
           all(LAMBDA phone :
             /\ phone.isFinnishServiceNumber # FALSE
             /\ (phone.prefixNumber = None) <=> (phone.isFinnishServiceNumber = TRUE)
             /\ phone.chargeType # None
             /\ (phone.type # None) <=> Typed(field))
      /\ field = "serviceHours" =>
           all(LAMBDA hour :
             /\ hour.validTo # None => hour.validFrom \notin {None, hour.validTo}
             /\ Cardinality({f \in {"isClosed", "isAlwaysOpen", "isReservation"} : hour[f] = TRUE})
                  + (IF hour.openingTimes = << >> THEN 0 ELSE 1) = 1
             /\ hour.type = "OverMidnight" =>
                  \A i \in DOMAIN hour.openingTimes : hour.openingTimes[i].dayTo # None)
      /\ field \in {"addresses", "deliveryAddresses"} =>
           all(LAMBDA address :
             /\ address.kind = "Street" =>
                  /\ DOMAIN address.parts.street = {"fi"}
                  /\ address.parts.postalCode \in DOMAIN MunicipalityOf
                  /\ address.parts.municipality = MunicipalityOf[address.parts.postalCode]
             /\ address.kind # "Other" \/ field = "addresses")
      /\ field \in CodeListFields => all(LAMBDA entry : entry.uri # None)

(* A field that was entered from the sheet, and edited by nobody since, is *)
(* off the sheet: it shows all the comparison asks for ("the sheet empties *)
(* as the change is entered", proposalQueue.ts).  The values it fails for  *)
(* are those that are not Enterable.                                       *)
EnteredLeavesSheet ==
  status = "approved" =>
    \A row \in Sheet : row.field \in entered => ~Enterable(row.field, changes[row.field])

SameMeaning(field, value, proposed) ==
  CASE field = "serviceHours" ->
         LET held == OrDefault(value, << >>)
             asked == OrDefault(proposed, << >>)
             Same(a, b) ==
               /\ \A f \in {"type", "validFrom", "validTo", "additionalInformation"} : a[f] = b[f]
               /\ \A f \in {"isClosed", "isAlwaysOpen", "isReservation"} : IsSet(a[f]) = IsSet(b[f])
               /\ OpenOn(a) = OpenOn(b)
         IN  Len(held) = Len(asked) /\ \A i \in DOMAIN held : Same(held[i], asked[i])
    [] field \in CodeListFields ->
         {entry.uri : entry \in ToSet(value)} = {entry.uri : entry \in ToSet(proposed)}
    [] OTHER -> value = proposed

(* A proposal is closed as published only after PTV had the change: what   *)
(* the confirmation read means, field by field and hours day by day, what  *)
(* was proposed, or is an archive that can no longer be read.  What PTV    *)
(* holds when the proposal is closed may be something else only where      *)
(* others edited the item between that reading and the update              *)
(* (confirmManualPublish, canonicalServiceHours).                          *)
ConfirmedIsInPtv ==
  [][status # "published" /\ status' = "published" =>
       \E reading \in checked :
         /\ IF reading.readable
              THEN \A field \in DOMAIN changes :
                     SameMeaning(field, reading.item[field], changes[field])
              ELSE Archives
         /\ \A field \in DOMAIN changes \ editedSince :
              /\ readable = reading.readable
              /\ Comparable(field, Current[field]) = Comparable(field, reading.item[field])]_vars

(* Once PTV has the change, the content checks find in the item what they  *)
(* find in the proposal as of now, and so does the validator: what was     *)
(* acceptable as proposed stays so once it is read back, and no later      *)
(* change of another field is refused because of it (diffFields,           *)
(* contentChecks.ts, channelRules.ts, changeValidator.ts).                 *)
ReviewedIsPublished ==
  status = "approved" /\ readable /\ Diff = {} =>
    /\ Quality(Current) = ProposedQuality
    /\ Validate(Current) = Validate(ProposedEntity)

(* What the validator says of a service's classes and terms is also an     *)
(* error of the content checks, except that an entry needs a uri and a     *)
(* term one of KOKO (changeValidator.ts, contentChecks.ts).                *)
ClassRulesAgree ==
  type = "Service" /\ readable =>
    \A broken \in Validate(ProposedEntity) :
      broken[1] \in {"serviceClasses", "ontologyTerms"} /\ broken[2] \notin {"uri", "koko"} =>
        \E finding \in Errors(ProposedQuality) : finding.field = broken[1]

(* Once PTV has a change, validator and checks judge it as proposed, and   *)
(* what the one forbids of a service's classes the other reports.          *)
ChecksAgree ==
  /\ ReviewedIsPublished
  /\ ClassRulesAgree

(* The field conversions of three files mean the same: what is shown, what *)
(* is sent and what is read back.                                          *)
ConversionsAgree ==
  /\ ReadsFit
  /\ HoursMeanTheSame
  /\ ReadsSettle
=============================================================================
