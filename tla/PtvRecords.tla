----------------------------- MODULE PtvRecords -----------------------------
(***************************************************************************)
(* The PTV items PTV-MCP writes, as PTV stores them, as its v11 GET shows  *)
(* them and as the mappers in src/ptv/v11/mappers read them.               *)
(*                                                                         *)
(* An item is a function from field names to sets: a list field holds its  *)
(* entries, a single value is a singleton or {} (src/ptv/v11/wireModel.ts).*)
(* A localized list of PTV holds <<type, language, text>> entries, a text  *)
(* of the domain model <<language, text>> pairs, a phone number is         *)
(* <<type, number>>.  The kinds of item are the service, the five types of *)
(* channel and the organisation; a service's connections are a function    *)
(* from channels to the connection's extra info.                           *)
(*                                                                         *)
(* What PTV does with a PUT is external; it is modelled from the write     *)
(* schemas vendored in src/ptv/v11/wire-types.ts and from the behaviour    *)
(* the adapter's comments state: a field that is not sent is kept, a list  *)
(* that is sent is replaced, an empty list is ignored, a delete flag       *)
(* clears its field, and a connection PUT replaces all the connections,    *)
(* their extra info included.                                              *)
(***************************************************************************)
CONSTANT Inherited \* what the general description brings, list by list

\* The classification lists of a service: PTV requires the first three when
\* the service has no general description, the others have delete flags.
Required == {"serviceClasses", "ontologyTerms", "targetGroups"}
Flagged == {"lifeEvents", "industrialClasses"}
Classifications == Required \cup Flagged

ChannelTypes == {"EChannel", "Phone", "PrintableForm", "ServiceLocation", "WebPage"}
Kinds == {"Service", "Organization"} \cup ChannelTypes

DetailFields ==
  {"serviceChargeType", "description", "serviceHours", "emails", "phoneNumbers",
   "webPages", "addresses"}

InheritedUris == UNION {Inherited[f] : f \in Classifications}

-----------------------------------------------------------------------------
(* Objects spread into one another, { ...g, ...f }, and the object of one   *)
(* field.                                                                   *)

f @@ g == [x \in DOMAIN f \cup DOMAIN g |-> IF x \in DOMAIN f THEN f[x] ELSE g[x]]

x :> value == [y \in {x} |-> value]

-----------------------------------------------------------------------------
(* Localized lists. *)

LanguagesIn(text) == {t[1] : t \in text}

TextToItems(text, type) == {<<type, t[1], t[2]>> : t \in text}

ItemsOfType(items, type) == {<<i[2], i[3]>> : i \in {j \in items : j[1] = type}}

\* The text of the preferred type, and for a language that has none of it
\* the language's first entry of any type.
PreferredText(items, type) ==
  LET preferred == ItemsOfType(items, type)
      others == {i[2] : i \in items} \ LanguagesIn(preferred)
  IN  preferred \cup {<<l, (CHOOSE i \in items : i[2] = l)[3]>> : l \in others}

-----------------------------------------------------------------------------
(* Reading. *)

\* What PTV's GET shows of a stored item: the general description's
\* classifications are merged into the service's own, unmarked.
WireOf(stored) ==
  IF "generalDescriptionId" \in DOMAIN stored /\ stored.generalDescriptionId # {}
    THEN [f \in DOMAIN stored |->
            IF f \in Classifications THEN stored[f] \cup Inherited[f] ELSE stored[f]]
    ELSE stored

ServiceWireToDomain(wire) ==
  [f \in (DOMAIN wire \ {"nameList", "descriptionList"})
           \cup {"names", "summaries", "descriptions"} |->
     CASE f = "names" -> PreferredText(wire.nameList, "Name")
       [] f = "summaries" -> PreferredText(wire.descriptionList, "Summary")
       [] f = "descriptions" -> PreferredText(wire.descriptionList, "Description")
       [] OTHER -> wire[f]]

ServiceChannelWireToDomain(wire) ==
  [f \in (DOMAIN wire \ {"nameList", "descriptionList"})
           \cup {"names", "summaries", "descriptions"} |->
     CASE f = "names" -> PreferredText(wire.nameList, "Name")
       [] f = "summaries" -> ItemsOfType(wire.descriptionList, "Summary")
       [] f = "descriptions" -> ItemsOfType(wire.descriptionList, "Description")
       [] OTHER -> wire[f]]

\* displayNameType is the set of languages that show the alternative name.
OrganizationWireToDomain(wire) ==
  [f \in (DOMAIN wire \ {"nameList", "descriptionList", "displayNameType"})
           \cup {"names", "alternativeNames", "alternativeNameShownIn", "summaries",
                 "descriptions"} |->
     CASE f = "names" -> PreferredText(wire.nameList, "Name")
       [] f = "alternativeNames" -> ItemsOfType(wire.nameList, "AlternativeName")
       [] f = "alternativeNameShownIn" -> wire.displayNameType
       [] f = "summaries" -> ItemsOfType(wire.descriptionList, "Summary")
       [] f = "descriptions" -> ItemsOfType(wire.descriptionList, "Description")
       [] OTHER -> wire[f]]

DomainOf(kind, wire) ==
  CASE kind = "Service" -> ServiceWireToDomain(wire)
    [] kind = "Organization" -> OrganizationWireToDomain(wire)
    [] OTHER -> ServiceChannelWireToDomain(wire)

ConnectionDetailsToDomain(details) ==
  [f \in (DetailFields \ {"serviceChargeType", "description"})
           \cup {"chargeType", "descriptions", "chargeDescriptions"} |->
     CASE f = "chargeType" -> details.serviceChargeType
       [] f = "descriptions" -> ItemsOfType(details.description, "Description")
       [] f = "chargeDescriptions" ->
            ItemsOfType(details.description, "ChargeTypeAdditionalInfo")
       [] OTHER -> details[f]]

-----------------------------------------------------------------------------
(* What PTV shows of an item of each kind, by the names the domain model    *)
(* has for it: the channel's own address and its web pages are one list.   *)

ItemTexts == {"nameList", "descriptionList", "publishingStatus"}
SupportLists == {"supportPhones", "supportEmails", "serviceHours"}

ServiceOut == ItemTexts \cup Classifications \cup {"languages", "type", "generalDescriptionId"}

ElectronicChannelOut ==
  ItemTexts \cup SupportLists \cup
    {"languages", "isVisibleForAll", "urls", "requiresAuthentication", "requiresSignature",
     "signatureQuantity", "accessibility"}

PhoneChannelOut ==
  ItemTexts \cup SupportLists \cup {"languages", "isVisibleForAll", "urls", "phoneNumbers"}

PrintableFormChannelOut ==
  ItemTexts \cup SupportLists \cup
    {"languages", "isVisibleForAll", "webPages", "formIdentifiers", "formFiles",
     "deliveryAddresses"}

ServiceLocationChannelOut ==
  ItemTexts \cup
    {"languages", "isVisibleForAll", "serviceHours", "webPages", "phoneNumbers", "emails",
     "addresses", "displayNameType"}

WebPageChannelOut ==
  ItemTexts \cup SupportLists \cup {"languages", "isVisibleForAll", "urls", "accessibility"}

OrganizationOut ==
  ItemTexts \cup
    {"displayNameType", "businessCode", "emails", "phoneNumbers", "webPages", "addresses"}

ReadSchema(kind) ==
  CASE kind = "Service" -> ServiceOut
    [] kind = "Organization" -> OrganizationOut
    [] kind = "EChannel" -> ElectronicChannelOut
    [] kind = "Phone" -> PhoneChannelOut
    [] kind = "PrintableForm" -> PrintableFormChannelOut
    [] kind = "ServiceLocation" -> ServiceLocationChannelOut
    [] kind = "WebPage" -> WebPageChannelOut

EmptyItem(kind) == [f \in ReadSchema(kind) |-> {}]

-----------------------------------------------------------------------------
(* The write schemas: the fields a PUT of the kind takes, those it has a   *)
(* delete flag for, and whether its phone numbers carry a type.            *)

ServiceInBase ==
  [takes |-> ItemTexts \cup Classifications \cup {"languages", "type", "generalDescriptionId"},
   clears |-> Flagged \cup {"generalDescriptionId"}, typed |-> FALSE]

ElectronicChannelInBase ==
  [takes |-> ItemTexts \cup SupportLists \cup
     {"languages", "isVisibleForAll", "urls", "webPages", "requiresAuthentication",
      "requiresSignature", "signatureQuantity", "accessibility"},
   clears |-> SupportLists \cup {"webPages"}, typed |-> FALSE]

PhoneChannelInBase ==
  [takes |-> ItemTexts \cup SupportLists \cup
     {"languages", "isVisibleForAll", "urls", "webPages", "phoneNumbers"},
   clears |-> SupportLists \cup {"webPages"}, typed |-> TRUE]

PrintableFormChannelInBase ==
  [takes |-> ItemTexts \cup SupportLists \cup
     {"languages", "isVisibleForAll", "webPages", "formIdentifiers", "formFiles",
      "deliveryAddresses"},
   clears |-> SupportLists \cup
     {"webPages", "formIdentifiers", "formFiles", "deliveryAddresses"}, typed |-> FALSE]

ServiceLocationChannelInBase ==
  [takes |-> ItemTexts \cup SupportLists \cup
     {"languages", "isVisibleForAll", "webPages", "phoneNumbers", "faxNumbers", "emails",
      "addresses", "displayNameType"},
   clears |-> SupportLists \cup {"webPages", "phoneNumbers", "faxNumbers"}, typed |-> FALSE]

WebPageChannelInBase ==
  [takes |-> ItemTexts \cup SupportLists \cup
     {"languages", "isVisibleForAll", "urls", "webPages", "accessibility"},
   clears |-> SupportLists \cup {"webPages"}, typed |-> FALSE]

OrganizationInBase ==
  [takes |-> ItemTexts \cup
     {"displayNameType", "businessCode", "emails", "phoneNumbers", "webPages", "addresses"},
   clears |-> {"emails", "phoneNumbers", "webPages", "addresses"}, typed |-> FALSE]

ContactDetailsInBase == {"emails", "phoneNumbers", "faxNumbers", "webPages", "addresses"}

\* A connection's own fields, and its contact details.
ServiceServiceChannelInBase ==
  [takes |-> {"serviceChargeType", "description", "serviceHours"} \cup ContactDetailsInBase,
   clears |-> {"serviceChargeType", "description", "serviceHours"} \cup ContactDetailsInBase,
   typed |-> FALSE]

WriteSchema(kind) ==
  CASE kind = "Service" -> ServiceInBase
    [] kind = "Organization" -> OrganizationInBase
    [] kind = "EChannel" -> ElectronicChannelInBase
    [] kind = "Phone" -> PhoneChannelInBase
    [] kind = "PrintableForm" -> PrintableFormChannelInBase
    [] kind = "ServiceLocation" -> ServiceLocationChannelInBase
    [] kind = "WebPage" -> WebPageChannelInBase

-----------------------------------------------------------------------------
(* The fields a POST of the kind must have, of those the model carries.    *)

ServiceIn == {"descriptionList", "languages", "publishingStatus"}

ElectronicChannelIn ==
  {"requiresAuthentication", "urls", "nameList", "descriptionList", "languages",
   "accessibility", "publishingStatus"}

PhoneChannelIn == {"publishingStatus", "languages", "nameList", "descriptionList"}

PrintableFormChannelIn ==
  {"formFiles", "nameList", "descriptionList", "languages", "publishingStatus"}

ServiceLocationChannelIn ==
  {"nameList", "descriptionList", "displayNameType", "languages", "addresses",
   "publishingStatus"}

WebPageChannelIn ==
  {"urls", "languages", "nameList", "descriptionList", "accessibility", "publishingStatus"}

OrganizationIn == {"nameList", "descriptionList", "displayNameType", "publishingStatus"}

RequiredToCreate(kind) ==
  CASE kind = "Service" -> ServiceIn
    [] kind = "Organization" -> OrganizationIn
    [] kind = "EChannel" -> ElectronicChannelIn
    [] kind = "Phone" -> PhoneChannelIn
    [] kind = "PrintableForm" -> PrintableFormChannelIn
    [] kind = "ServiceLocation" -> ServiceLocationChannelIn
    [] kind = "WebPage" -> WebPageChannelIn

-----------------------------------------------------------------------------
(* PTV's PUT.  A body is the fields it sets and the fields whose delete    *)
(* flag it carries.                                                        *)

\* The fields that hold one value, which PTV takes as it is sent.
Scalars ==
  {"publishingStatus", "type", "generalDescriptionId", "isVisibleForAll",
   "requiresAuthentication", "requiresSignature", "signatureQuantity", "accessibility",
   "businessCode", "displayNameType"}

Faxes(phones) == {p \in phones : p[1] = "Fax"}

\* Only a phone channel's numbers carry a type in the write schema; other
\* lists take numbers, and faxes in a list of their own.
PutPhones(phones, body, typed) ==
  LET numbers == IF typed THEN phones ELSE phones \ Faxes(phones)
      faxes == IF typed THEN {} ELSE Faxes(phones)
      sent == IF "phoneNumbers" \in DOMAIN body.set THEN body.set.phoneNumbers ELSE {}
      sentFaxes == IF "faxNumbers" \in DOMAIN body.set THEN body.set.faxNumbers ELSE {}
  IN  (CASE "phoneNumbers" \in body.clear -> {}
         [] "phoneNumbers" \notin body.clear /\ sent # {} ->
              IF typed THEN sent ELSE {<<"Phone", p[2]>> : p \in sent}
         [] OTHER -> numbers)
      \cup
      (CASE "faxNumbers" \in body.clear -> {}
         [] "faxNumbers" \notin body.clear /\ sentFaxes # {} -> sentFaxes
         [] OTHER -> faxes)

\* What the schema does not have is not read.
Accepted(body, schema) ==
  [set |-> [f \in DOMAIN body.set \cap schema.takes |-> body.set[f]],
   clear |-> body.clear \cap schema.clears]

Put(stored, sent, schema) ==
  LET body == Accepted(sent, schema)
  IN  [f \in DOMAIN stored |->
         CASE f = "phoneNumbers" -> PutPhones(stored[f], body, schema.typed)
           [] f # "phoneNumbers" /\ f \in body.clear -> {}
           [] f \notin body.clear \cup {"phoneNumbers"} /\ f \in DOMAIN body.set
                /\ (f \in Scalars \/ body.set[f] # {}) -> body.set[f]
           [] OTHER -> stored[f]]

NoDetails == [f \in DetailFields |-> {}]

\* The service's connections are replaced by those a PUT lists, each with the
\* extra info its entry has and no more.
PutConnections(relations) ==
  [ch \in DOMAIN relations |-> Put(NoDetails, relations[ch], ServiceServiceChannelInBase)]

-----------------------------------------------------------------------------
(* Why PTV refuses a service PUT: the version is locked, a list or the     *)
(* type it requires is missing, or no summary is left.                     *)

Locked(stored) == stored.publishingStatus = {"Modified"}

LacksRequired(stored, body) ==
  LET unlinks == "generalDescriptionId" \in body.clear
      keeps == IF "generalDescriptionId" \in DOMAIN body.set
                 THEN TRUE ELSE stored.generalDescriptionId # {} /\ ~unlinks
  IN  \/ ~keeps /\ \E f \in Required : f \notin DOMAIN body.set \/ body.set[f] = {}
      \/ unlinks /\ "type" \notin DOMAIN body.set

LacksSummary(body) ==
  /\ "descriptionList" \in DOMAIN body.set
  /\ ItemsOfType(body.set.descriptionList, "Summary") = {}

\* Businesses, and the groups businesses are divided into.
BusinessSubgroups == {"KR2.1", "KR2.2", "KR2.3"}

LacksBusinessGroup(after) ==
  /\ WireOf(after).industrialClasses # {}
  /\ \/ "KR2" \notin WireOf(after).targetGroups
     \/ WireOf(after).targetGroups \cap BusinessSubgroups = {}
=============================================================================
