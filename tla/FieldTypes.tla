------------------------------- MODULE FieldTypes -------------------------------
(***************************************************************************)
(* The types of the structured fields: of PTV's v11 schemas                *)
(* (src/ptv/v11/wire-types.ts), by their names there, and of the domain    *)
(* model (src/ptv/domain.ts).  A member that may be left out is Optional.  *)
(***************************************************************************)
EXTENDS ChannelFields

Optional(S) == S \cup {None}

Languages == {"fi", "sv", "en", "se", "smn", "sms"}

Day == Nat \ {0}
Time == 0..24

-----------------------------------------------------------------------------
(* PTV's schemas. *)

LanguageItem == Seq(Languages \X STRING)

WireChargeTypes == Optional({"Chargeable", "Charged", "FreeOfCharge", "Free", "Other"})

V4VmOpenApiPhone ==
  [language : Languages, type : Optional({"Phone", "Sms", "Fax"}), prefixNumber : Optional(STRING),
   number : STRING, isFinnishServiceNumber : Optional(BOOLEAN),
   additionalInformation : Optional(STRING), serviceChargeType : WireChargeTypes,
   chargeDescription : Optional(STRING)]

V9VmOpenApiWebPage == Languages \X STRING \X Optional(STRING)

V8VmOpenApiDailyOpeningTime ==
  [dayFrom : Optional(Weekdays), dayTo : Optional(Weekdays), from : Time, to : Time]

V11VmOpenApiServiceHour ==
  [serviceHourType : {"DaysOfTheWeek", "Standard", "Exceptional", "Exception", "OverMidnight",
                      "Special"},
   validFrom : Optional(Day), validTo : Optional(Day), validForNow : BOOLEAN,
   isClosed : BOOLEAN, isAlwaysOpen : BOOLEAN, isReservation : BOOLEAN,
   additionalInformation : LanguageItem, openingHour : Seq(V8VmOpenApiDailyOpeningTime)]

\* The parts of a street, a post office box or another place.
IsAddressBody(parts) ==
  /\ DOMAIN parts = AddressParts
  /\ \A p \in AddressParts :
       IF p \in Texts THEN parts[p] \in LanguageItem ELSE parts[p] \in Optional(STRING)

IsLocationAddress(wire) ==
  /\ wire.subType \in {"Street", "Other", "PostOfficeBox", "Abroad"}
  /\ wire.type \in {"Location", "Postal"}
  /\ IsAddressBody(wire.parts)

IsDeliveryAddress(wire) ==
  /\ wire.subType \in {"Street", "PostOfficeBox", "NoAddress"}
  /\ IsAddressBody(wire.parts)

AccessibilityClassification == Languages \X AccessibilityLevels

AttachmentWithType == Languages \X STRING \X STRING

-----------------------------------------------------------------------------
(* The domain model. *)

IsLocalizedText(text) == DOMAIN text \subseteq Languages /\ \A l \in DOMAIN text : text[l] \in STRING

\* A flag is present only when it is set.
Flag == {TRUE, None}

ChargeType == {"Chargeable", "FreeOfCharge", "Other"}

PhoneNumber ==
  [language : Languages, type : Optional({"Phone", "Sms", "Fax"}), prefixNumber : Optional(STRING),
   number : STRING, isFinnishServiceNumber : Flag, additionalInformation : Optional(STRING),
   chargeType : Optional(ChargeType), chargeDescription : Optional(STRING)]

WebLink == [language : Languages, url : STRING, name : Optional(STRING)]

OpeningTime == [dayFrom : Weekdays, dayTo : Optional(Weekdays), from : Time, to : Time]

IsServiceHour(hour) ==
  /\ hour.type \in {"DaysOfTheWeek", "Exceptional", "OverMidnight"}
  /\ hour.validFrom \in Optional(Day) /\ hour.validTo \in Optional(Day)
  /\ \A flag \in {"validForNow", "isClosed", "isAlwaysOpen", "isReservation"} : hour[flag] \in Flag
  /\ hour.additionalInformation # None => IsLocalizedText(hour.additionalInformation)
  /\ hour.openingTimes \in Seq(OpeningTime)

IsChannelAddress(address) ==
  /\ address.kind \in {"Street", "Other", "Foreign", "PostOfficeBox", "NoAddress"}
  /\ address.purpose \in Optional({"Visiting", "Postal"})
  /\ \A p \in AddressParts :
       address.parts[p] # None => IF p \in Texts THEN IsLocalizedText(address.parts[p])
                                                 ELSE address.parts[p] \in STRING

FormFile == [language : Languages, format : {"PDF", "DOC", "Excel"}, url : STRING]

-----------------------------------------------------------------------------

EachIs(list, Is(_)) == \A i \in DOMAIN list : Is(list[i])

\* Whether PTV may hold a value in a field.
InSchema(field, wire) ==
  CASE field \in {"phoneNumbers", "supportPhones"} -> wire \in Seq(V4VmOpenApiPhone)
    [] field = "serviceHours" -> wire \in Seq(V11VmOpenApiServiceHour)
    [] field \in {"webPages", "urls"} -> wire \in Seq(V9VmOpenApiWebPage)
    [] field = "addresses" -> EachIs(wire, IsLocationAddress)
    [] field = "deliveryAddresses" -> EachIs(wire, IsDeliveryAddress)
    [] field = "accessibility" -> wire \in Seq(AccessibilityClassification)
    [] field = "formFiles" -> wire \in Seq(AttachmentWithType)
    [] field \in {"names", "summaries", "descriptions", "chargeDescriptions"} ->
         wire \in LanguageItem
    [] OTHER -> TRUE

\* Whether a reading of a field is a value of the domain model.
InDomain(field, value) ==
  CASE value = None -> TRUE
    [] field \in {"phoneNumbers", "supportPhones"} /\ value # None -> value \in Seq(PhoneNumber)
    [] field = "serviceHours" /\ value # None -> EachIs(value, IsServiceHour)
    [] field = "webPages" /\ value # None -> value \in Seq(WebLink)
    [] field \in {"addresses", "deliveryAddresses"} /\ value # None ->
         EachIs(value, IsChannelAddress)
    [] field = "formFiles" /\ value # None -> value \in Seq(FormFile)
    [] field = "accessibility" /\ value # None -> value \in AccessibilityLevels
    [] field = "chargeType" /\ value # None -> value \in ChargeType
    [] field \in {"names", "summaries", "descriptions", "chargeDescriptions", "urls"}
         /\ value # None -> IsLocalizedText(value)
    [] OTHER -> TRUE
=============================================================================
