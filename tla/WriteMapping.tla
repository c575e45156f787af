---------------------------- MODULE WriteMapping ----------------------------
(***************************************************************************)
(* How a proposal's changes become the body of a v11 PUT or POST, and the  *)
(* rules the changed item is validated against first.                      *)
(*                                                                         *)
(* A change is a function from the domain fields it touches to their new   *)
(* values: a field in its domain is replaced, an empty value clears it, a  *)
(* field outside its domain is left alone.  `current' is the item as PTV's *)
(* GET shows it.                                                           *)
(***************************************************************************)
EXTENDS PtvRecords

OnlyIf(condition, function) == IF condition THEN function ELSE << >>

Touched(changes, field, otherwise) ==
  IF field \in DOMAIN changes THEN changes[field] ELSE otherwise

\* Merging, as the reviewer sees it.
Merge(current, changes) == changes @@ current

-----------------------------------------------------------------------------
(* Services. *)

\* Mutant: the entry types the domain model does not carry are not resent.
ForgetsOtherTypes(items, replaced) == {i \in items : i[1] \in {"Name", "Summary", "Description"} \ replaced}

KeptWireItems(items, replaced) == {i \in items : i[1] \notin replaced}

OwnEntries(entries, inherited) ==
  IF entries \ inherited = {} THEN entries ELSE entries \ inherited

\* Mutant: the current link decides, whatever the change does to it.
AsLinkedNow(changes, current) == current.generalDescriptionId # {}

KeepsGeneralDescription(changes, current) ==
  Touched(changes, "generalDescriptionId", current.generalDescriptionId) # {}

ServiceDescriptions(changes, current) ==
  KeptWireItems(current.descriptionList, {"Summary", "Description"})
    \cup TextToItems(Touched(changes, "summaries",
                             ItemsOfType(current.descriptionList, "Summary")), "Summary")
    \cup TextToItems(Touched(changes, "descriptions",
                             ItemsOfType(current.descriptionList, "Description")), "Description")

\* The classification lists a PUT sets: the ones the change gives entries
\* or empties without a delete flag, and the required ones it leaves alone.
ListsSent(changes, current) ==
  {f \in Classifications \cap DOMAIN changes : f \in Required \/ changes[f] # {}}
    \cup (IF KeepsGeneralDescription(changes, current) THEN {} ELSE Required)

ServiceChangesToV11Body(changes, current, inherited) ==
  LET touches == DOMAIN changes
      unlinks == "generalDescriptionId" \in touches /\ changes["generalDescriptionId"] = {}
  IN  [set |->
         ("publishingStatus" :> Touched(changes, "publishingStatus", current.publishingStatus))
         @@ OnlyIf("type" \in touches \/ unlinks, "type" :> Touched(changes, "type", current.type))
         @@ OnlyIf("names" \in touches,
              "nameList" :> (KeptWireItems(current.nameList, {"Name"})
                               \cup TextToItems(Touched(changes, "names", {}), "Name")))
         @@ OnlyIf({"summaries", "descriptions"} \cap touches # {},
              "descriptionList" :> ServiceDescriptions(changes, current))
         @@ [f \in ListsSent(changes, current) |->
               OwnEntries(Touched(changes, f, current[f]), inherited)]
         @@ OnlyIf("languages" \in touches, "languages" :> Touched(changes, "languages", {}))
         @@ OnlyIf("generalDescriptionId" \in touches /\ ~unlinks,
              "generalDescriptionId" :> Touched(changes, "generalDescriptionId", {})),
       clear |-> {f \in Flagged \cap touches : changes[f] = {}}
                   \cup IF unlinks THEN {"generalDescriptionId"} ELSE {}]

\* What a linked description brings, when PTV shows it.
GeneralDescriptionUris(current) ==
  IF current.generalDescriptionId = {} THEN {} ELSE InheritedUris

-----------------------------------------------------------------------------
(* Channels. *)

CommonChannelFields ==
  {"names", "summaries", "descriptions", "languages", "publishingStatus",
   "isVisibleForAll", "serviceHours"}

ChannelTypeFields(type) ==
  CommonChannelFields \cup
  CASE type = "EChannel" ->
         {"supportPhones", "supportEmails", "urls", "requiresAuthentication",
          "requiresSignature", "signatureQuantity", "accessibility"}
    [] type = "WebPage" -> {"supportPhones", "supportEmails", "urls", "accessibility"}
    [] type = "Phone" -> {"supportPhones", "supportEmails", "urls", "phoneNumbers"}
    [] type = "PrintableForm" ->
         {"supportPhones", "supportEmails", "webPages", "formIdentifiers", "formFiles",
          "deliveryAddresses"}
    [] type = "ServiceLocation" -> {"webPages", "phoneNumbers", "emails", "addresses"}

\* The lists whose emptying has a delete flag, and the ones sent as they are.
FlaggedLists(type) ==
  {"serviceHours", "supportPhones", "supportEmails", "webPages", "deliveryAddresses",
   "formIdentifiers", "formFiles"} \cap ChannelTypeFields(type)

WholeLists(type) ==
  {"urls", "addresses", "emails"} \cap ChannelTypeFields(type)

\* The body's part for the type-specific fields.
ChannelDetailsToV11(changes, type) ==
  LET touches == DOMAIN changes \cap ChannelTypeFields(type)
      lists == FlaggedLists(type) \cap touches
      phones == Touched(changes, "phoneNumbers", {})
      located == type = "ServiceLocation" /\ "phoneNumbers" \in touches
  IN  [set |->
         [f \in {l \in lists : changes[l] # {}} \cup (WholeLists(type) \cap touches)
                  \cup ({"isVisibleForAll", "requiresSignature"} \cap touches)
                  \cup {g \in {"accessibility"} \cap touches : changes[g] # {}} |-> changes[f]]
         @@ OnlyIf(type = "Phone" /\ "phoneNumbers" \in touches, "phoneNumbers" :> phones)
         @@ OnlyIf(located /\ phones # Faxes(phones), "phoneNumbers" :> (phones \ Faxes(phones)))
         @@ OnlyIf(located /\ Faxes(phones) # {}, "faxNumbers" :> Faxes(phones))
         @@ OnlyIf({"requiresSignature", "signatureQuantity"} \subseteq touches
                     /\ changes["requiresSignature"] = {"yes"},
              "signatureQuantity" :> Touched(changes, "signatureQuantity", {})),
       clear |-> {l \in lists : changes[l] = {}}
                   \cup (IF located /\ phones = Faxes(phones) THEN {"phoneNumbers"} ELSE {})
                   \cup (IF located /\ Faxes(phones) = {} THEN {"faxNumbers"} ELSE {})]

\* The entries a channel PUT resends: not of a replaced type, and of a
\* language the channel still has when its languages change.
KeptChannelItems(items, replaced, changes) ==
  {i \in items : /\ i[1] \notin replaced
                 /\ "languages" \in DOMAIN changes => i[2] \in changes["languages"]}

ChannelDescriptions(changes, current) ==
  LET replaced == (IF "descriptions" \in DOMAIN changes THEN {"Description"} ELSE {})
                    \cup (IF "summaries" \in DOMAIN changes THEN {"Summary"} ELSE {})
  IN  KeptChannelItems(current.descriptionList, replaced, changes)
        \cup TextToItems(Touched(changes, "summaries", {}), "Summary")
        \cup TextToItems(Touched(changes, "descriptions", {}), "Description")

ChannelChangesToV11Body(changes, current, type) ==
  LET touches == DOMAIN changes
      details == ChannelDetailsToV11(changes, type)
  IN  [set |->
         ("publishingStatus" :> Touched(changes, "publishingStatus", current.publishingStatus))
         @@ OnlyIf(type = "EChannel",
              "requiresAuthentication" :>
                Touched(changes, "requiresAuthentication", current.requiresAuthentication))
         @@ OnlyIf({"names", "languages"} \cap touches # {},
              "nameList" :> (KeptChannelItems(current.nameList,
                               IF "names" \in touches THEN {"Name"} ELSE {}, changes)
                               \cup TextToItems(Touched(changes, "names", {}), "Name")))
         @@ OnlyIf({"descriptions", "summaries", "languages"} \cap touches # {},
              "descriptionList" :> ChannelDescriptions(changes, current))
         @@ OnlyIf("languages" \in touches, "languages" :> Touched(changes, "languages", {}))
         @@ details.set,
       clear |-> details.clear]

-----------------------------------------------------------------------------
(* Organisations. *)

OrganizationFields ==
  {"names", "alternativeNames", "alternativeNameShownIn", "summaries", "descriptions",
   "businessCode", "publishingStatus", "emails", "phoneNumbers", "webPages", "addresses"}

ContactFields == {"emails", "phoneNumbers", "webPages", "addresses"}

OrganizationNames(changes, current) ==
  [names |-> Touched(changes, "names", ItemsOfType(current.nameList, "Name")),
   alternatives |-> Touched(changes, "alternativeNames",
                            ItemsOfType(current.nameList, "AlternativeName"))]

OrganizationChangesToV11Body(changes, current) ==
  LET touches == DOMAIN changes
      names == OrganizationNames(changes, current)
      shownIn == Touched(changes, "alternativeNameShownIn", current.displayNameType)
  IN  [set |->
         ("publishingStatus" :> Touched(changes, "publishingStatus", current.publishingStatus))
         @@ OnlyIf({"names", "alternativeNames", "alternativeNameShownIn"} \cap touches # {},
              ("nameList" :> (TextToItems(names.names, "Name")
                                \cup TextToItems(names.alternatives, "AlternativeName")))
              @@ ("displayNameType" :> ((shownIn \cap LanguagesIn(names.alternatives))
                                          \cap LanguagesIn(names.names))))
         @@ OnlyIf({"summaries", "descriptions"} \cap touches # {},
              "descriptionList" :>
                (TextToItems(Touched(changes, "summaries",
                   ItemsOfType(current.descriptionList, "Summary")), "Summary")
                 \cup TextToItems(Touched(changes, "descriptions",
                   ItemsOfType(current.descriptionList, "Description")), "Description")))
         @@ OnlyIf("businessCode" \in touches, "businessCode" :> Touched(changes, "businessCode", {}))
         @@ [f \in {g \in ContactFields \cap touches : changes[g] # {}} |-> changes[f]],
       clear |-> {g \in ContactFields \cap touches : changes[g] = {}}]

\* The body of an item's PUT, without the classifications `inherited'.
BodyOf(kind, changes, current, inherited) ==
  CASE kind = "Service" -> ServiceChangesToV11Body(changes, current, inherited)
    [] kind = "Organization" -> OrganizationChangesToV11Body(changes, current)
    [] OTHER -> ChannelChangesToV11Body(changes, current, kind)

-----------------------------------------------------------------------------
(* Connections. *)

\* Mutant: a kept connection is listed by its channel alone.
OnlyTheChannel(details) == [set |-> << >>, clear |-> {}]

\* A connection resent as it was read: the fields it has, faxes and all in
\* the one list of numbers.
RelationToWrite(details) ==
  [set |-> [f \in {g \in DetailFields : details[g] # {}} |-> details[f]], clear |-> {}]

NewRelation == [set |-> << >>, clear |-> {}]

\* Mutant: only the channels to connect are listed.
OnlyTheMissing(connections, desired) ==
  [changes |-> desired # DOMAIN connections,
   relations |-> [ch \in desired \ DOMAIN connections |-> NewRelation]]

\* Mutant: a change that only disconnects channels is not sent.
OnlyConnects(connections, desired) ==
  [changes |-> ~(desired \subseteq DOMAIN connections),
   relations |-> [ch \in desired |->
     IF ch \in DOMAIN connections THEN RelationToWrite(connections[ch]) ELSE NewRelation]]

\* Null when the channels stay the same.
PlanServiceConnections(connections, desired) ==
  IF desired = DOMAIN connections
    THEN [changes |-> FALSE, relations |-> << >>]
    ELSE [changes |-> TRUE,
          relations |-> [ch \in desired |->
            IF ch \in DOMAIN connections THEN RelationToWrite(connections[ch])
                                         ELSE NewRelation]]

\* Exactly these details: an empty field goes with its delete flag.
ConnectionDetailsToWire(details) ==
  LET wire == [f \in DetailFields \cup {"faxNumbers"} |->
        CASE f = "serviceChargeType" -> details.chargeType
          [] f = "description" ->
               TextToItems(details.descriptions, "Description")
                 \cup TextToItems(details.chargeDescriptions, "ChargeTypeAdditionalInfo")
          [] f = "phoneNumbers" -> details.phoneNumbers \ Faxes(details.phoneNumbers)
          [] f = "faxNumbers" -> Faxes(details.phoneNumbers)
          [] OTHER -> details[f]]
  IN  [set |-> [f \in {g \in DOMAIN wire : wire[g] # {}} |-> wire[f]],
       clear |-> {g \in DOMAIN wire : wire[g] = {}}]

PlanConnectionDetails(connections, channel, changes) ==
  [ch \in DOMAIN connections |->
     IF ch = channel
       THEN ConnectionDetailsToWire(Merge(ConnectionDetailsToDomain(connections[ch]), changes))
       ELSE RelationToWrite(connections[ch])]

-----------------------------------------------------------------------------
(* New items: what the caller leaves out is filled in, and a POST sets     *)
(* every field the item then has.                                          *)

GivenFields(item) == {f \in DOMAIN item : item[f] # {}}

NoTexts == [f \in {"names", "summaries", "descriptions"} |-> {}]

NormalizeNewService(input) ==
  input @@ NoTexts @@ [f \in Classifications \cup {"languages", "generalDescriptionId"} |-> {}]
    @@ ("type" :> {"Service"}) @@ ("publishingStatus" :> {"Draft"})

NormalizeNewChannel(input) ==
  input @@ NoTexts @@ ("languages" :> {}) @@ ("isVisibleForAll" :> {"yes"})
    @@ ("publishingStatus" :> {"Draft"})

NormalizeNewOrganization(input) == input @@ NoTexts @@ ("publishingStatus" :> {"Draft"})

Normalize(kind, input) ==
  CASE kind = "Service" -> NormalizeNewService(input)
    [] kind = "Organization" -> NormalizeNewOrganization(input)
    [] OTHER -> NormalizeNewChannel(input)

NewTexts(item) ==
  ("descriptionList" :> (TextToItems(item.summaries, "Summary")
                           \cup TextToItems(item.descriptions, "Description")))
  @@ ("publishingStatus" :> item.publishingStatus)

NewServiceToV11Body(service) ==
  NewTexts(service)
  @@ ("nameList" :> TextToItems(service.names, "Name"))
  @@ [f \in Classifications \cup {"type", "languages"} |-> service[f]]
  @@ OnlyIf(service.generalDescriptionId # {},
            "generalDescriptionId" :> service.generalDescriptionId)

\* What is left out of the proposal is left out of the body, but for what
\* PTV requires.
NewChannelToV11Body(channel, type) ==
  NewTexts(channel)
  @@ ("nameList" :> TextToItems(channel.names, "Name"))
  @@ [f \in {"languages", "isVisibleForAll"} |-> channel[f]]
  @@ ChannelDetailsToV11([f \in GivenFields(channel) |-> channel[f]], type).set
  @@ OnlyIf(type = "ServiceLocation", "displayNameType" :> channel.languages)
  @@ OnlyIf(type = "EChannel", "requiresAuthentication" :>
                                 Touched(channel, "requiresAuthentication", {"no"}))
  @@ OnlyIf(type \in {"EChannel", "WebPage"}, "accessibility" :> {"Unknown"})

NewOrganizationToV11Body(organization) ==
  LET alternatives == Touched(organization, "alternativeNames", {})
  IN  NewTexts(organization)
      @@ ("nameList" :> (TextToItems(organization.names, "Name")
                           \cup TextToItems(alternatives, "AlternativeName")))
      @@ ("displayNameType" :> ((Touched(organization, "alternativeNameShownIn", {})
                                   \cap LanguagesIn(alternatives))
                                  \cap LanguagesIn(organization.names)))
      @@ [f \in GivenFields(organization) \cap ({"businessCode"} \cup ContactFields) |->
            organization[f]]

NewBodyOf(kind, item) ==
  CASE kind = "Service" -> NewServiceToV11Body(item)
    [] kind = "Organization" -> NewOrganizationToV11Body(item)
    [] OTHER -> NewChannelToV11Body(item, kind)

Post(kind, body) == Put(EmptyItem(kind), [set |-> body, clear |-> {}], WriteSchema(kind))

\* An area is the set of <<type, code>> it is limited to, or the whole
\* country; {} is an organisation that could not be read.
OrganizationAreaToV11(area) == IF area = {} THEN {"Nationwide"} ELSE area

\* A POST takes areas of one type, the first.
OrganizationAreaToV11Post(area) ==
  IF area \in {{}, {"Nationwide"}}
    THEN {"Nationwide"}
    ELSE {a \in area : a[1] = (CHOOSE b \in area : TRUE)[1]}

-----------------------------------------------------------------------------
(* Validation of the merged item. *)

HasName(proposed) == proposed.names # {}

WritableStatus(proposed) == proposed.publishingStatus \cap {"Modified", "Withdrawn"} = {}

ServiceTypes == {"Service", "ProfessionalQualification", "PermitOrObligation"}

RequiredClassifications(proposed) ==
  proposed.generalDescriptionId = {} => \A f \in Required : proposed[f] # {}

IndustrialClassTargetGroups(proposed) ==
  proposed.industrialClasses # {} =>
    "KR2" \in proposed.targetGroups /\ proposed.targetGroups \cap BusinessSubgroups # {}

ValidService(proposed) ==
  /\ HasName(proposed) /\ proposed.languages # {}
  /\ \E type \in ServiceTypes : proposed.type = {type}
  /\ RequiredClassifications(proposed)
  /\ WritableStatus(proposed)
  /\ IndustrialClassTargetGroups(proposed)

\* What each type must have, of the fields that are `defined': those the
\* item has and the change touches, all of them for a new channel.
ValidateChannelDetails(proposed, type, defined) ==
  LET Of(field) == Touched(proposed, field, {})
  IN  /\ (type \in {"EChannel", "WebPage"} /\ "urls" \in defined) =>
           LanguagesIn(proposed.names) \subseteq LanguagesIn(Of("urls"))
      /\ (type = "Phone" /\ "phoneNumbers" \in defined) => Of("phoneNumbers") # {}
      /\ (type = "ServiceLocation" /\ "addresses" \in defined) => Of("addresses") # {}
      /\ (type = "PrintableForm" /\ "formFiles" \in defined) => Of("formFiles") # {}
      /\ Of("requiresSignature") = {"yes"} => Of("signatureQuantity") # {}

ValidChannel(proposed, type, defined, creating) ==
  /\ HasName(proposed) /\ proposed.languages # {}
  /\ WritableStatus(proposed)
  /\ creating => LanguagesIn(proposed.names) \subseteq LanguagesIn(proposed.descriptions)
  /\ ValidateChannelDetails(proposed, type, defined)

ValidOrganization(proposed) ==
  /\ HasName(proposed)
  /\ LanguagesIn(proposed.names)
       \subseteq LanguagesIn(proposed.summaries) \cap LanguagesIn(proposed.descriptions)
  /\ Touched(proposed, "alternativeNameShownIn", {})
       \subseteq LanguagesIn(Touched(proposed, "alternativeNames", {}))
  /\ WritableStatus(proposed)

ValidUpdate(kind, proposed, changes) ==
  CASE kind = "Service" -> ValidService(proposed)
    [] kind = "Organization" -> ValidOrganization(proposed)
    [] OTHER -> ValidChannel(proposed, kind, DOMAIN changes \cup GivenFields(proposed), FALSE)

ValidNew(kind, new) ==
  CASE kind = "Service" -> ValidService(new)
    [] kind = "Organization" -> ValidOrganization(new)
    [] OTHER -> ValidChannel(new, kind, ChannelTypeFields(kind), TRUE)

SupportedOrganization(changes) == DOMAIN changes \subseteq OrganizationFields

\* The fields a change of the kind may touch; others are refused.
Supported(kind, changes) ==
  CASE kind = "Organization" -> SupportedOrganization(changes)
    [] kind \in ChannelTypes -> DOMAIN changes \subseteq ChannelTypeFields(kind)
    [] OTHER -> TRUE
=============================================================================
