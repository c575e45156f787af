---------------------------- MODULE ChannelFields ----------------------------
(***************************************************************************)
(* The structured fields of channels, connections and organisations: phone *)
(* numbers, web links, service hours and addresses, as PTV's v11 API has   *)
(* them and as the domain model has them, with the conversions both ways   *)
(* (src/ptv/v11/channelFields.ts, src/ptv/serviceHours.ts).                *)
(*                                                                         *)
(* A member that is left out is None.  A flag is TRUE, FALSE or None.  A   *)
(* localized text of PTV is a sequence of <<language, text>>, of the       *)
(* domain model a function from languages to texts.  Days of the week are  *)
(* 1..7, times of day hours, dates days of the model's calendar.           *)
(***************************************************************************)
EXTENDS Integers, Sequences, SequencesExt

CONSTANTS
    None,
    MunicipalityOf \* what PTV derives from a postal code

Mapped(seq, Op(_)) == [i \in DOMAIN seq |-> Op(seq[i])]

IsSet(flag) == flag = TRUE

OrDefault(value, default) == IF value = None THEN default ELSE value

-----------------------------------------------------------------------------
(* Localized texts and links. *)

\* The first text of each language.
LanguageItemsToText(items) ==
  LET given == SelectSeq(items, LAMBDA item : item[2] # None)
      Of(l) == SelectSeq(given, LAMBDA item : item[1] = l)
  IN  [l \in {given[i][1] : i \in DOMAIN given} |-> Of(l)[1][2]]

TextToLanguageItems(text) ==
  IF text = None THEN << >>
  ELSE LET given == {l \in DOMAIN text : text[l] # None}
       IN  Mapped(SetToSeq(given), LAMBDA l : <<l, text[l]>>)

NonEmpty(text) == IF DOMAIN text = {} THEN None ELSE text

\* PTV's page is <<language, url, name>>.
WebPageToDomain(wire) == [language |-> wire[1], url |-> wire[2], name |-> wire[3]]

WebLinkToWire(link) == <<link.language, link.url, link.name>>

\* The first address of each language.
WebPagesToUrls(pages) == LanguageItemsToText(Mapped(pages, LAMBDA page : <<page[1], page[2]>>))

UrlsToWebPages(urls) ==
  Mapped(TextToLanguageItems(urls), LAMBDA item : <<item[1], item[2], None>>)

-----------------------------------------------------------------------------
(* Phone numbers. *)

\* PTV still returns the names charge types had before its version 8.
ChargeTypes ==
  [Chargeable |-> "Chargeable", Charged |-> "Chargeable", FreeOfCharge |-> "FreeOfCharge",
   Free |-> "FreeOfCharge", Other |-> "Other"]

PhoneToDomain(wire) ==
  [language |-> wire.language,
   type |-> IF wire.type \in {None, "Sms", "Fax"} THEN wire.type ELSE "Phone",
   prefixNumber |-> wire.prefixNumber,
   number |-> wire.number,
   isFinnishServiceNumber |-> IF IsSet(wire.isFinnishServiceNumber) THEN TRUE ELSE None,
   additionalInformation |-> wire.additionalInformation,
   chargeType |-> IF wire.serviceChargeType \in DOMAIN ChargeTypes
                    THEN ChargeTypes[wire.serviceChargeType] ELSE None,
   chargeDescription |-> wire.chargeDescription]

PhoneToWire(phone, withType) ==
  LET service == IsSet(phone.isFinnishServiceNumber)
  IN  [language |-> phone.language,
       number |-> phone.number,
       isFinnishServiceNumber |-> IF service THEN TRUE ELSE None,
       prefixNumber |-> IF service THEN None ELSE OrDefault(phone.prefixNumber, "+358"),
       additionalInformation |-> phone.additionalInformation,
       serviceChargeType |-> OrDefault(phone.chargeType, "Chargeable"),
       chargeDescription |-> phone.chargeDescription,
       type |-> IF withType THEN OrDefault(phone.type, "Phone") ELSE None]

-----------------------------------------------------------------------------
(* Service hours. *)

Weekdays == 1..7

\* Mutant: a range that goes over the week's end is one day.
WrapsNoWeek(time) ==
  [i \in 1..(IF time.dayTo < time.dayFrom THEN 1 ELSE time.dayTo - time.dayFrom + 1) |->
     time.dayFrom + i - 1]

\* The days from dayFrom to dayTo, over the end of the week if it comes first.
DaysOfRange(time) ==
  [i \in 1..(((time.dayTo - time.dayFrom) % 7) + 1) |-> ((time.dayFrom + i - 2) % 7) + 1]

\* Except over midnight, a range of days is the same times on each of them.
ExpandOpeningTimes(hour) ==
  LET OnEach(time) ==
        IF time.dayTo \in {None, time.dayFrom}
          THEN <<[time EXCEPT !.dayTo = None]>>
          ELSE Mapped(DaysOfRange(time),
                      LAMBDA day : [time EXCEPT !.dayFrom = day, !.dayTo = None])
  IN  IF hour.type = "OverMidnight" THEN hour.openingTimes
      ELSE FlattenSeq(Mapped(hour.openingTimes, OnEach))

\* Mutant: the type is read as PTV names it.
HourTypeAsIs(wireType) == wireType

HourType(wireType) ==
  CASE wireType \in {"Exceptional", "Exception"} -> "Exceptional"
    [] wireType \in {"OverMidnight", "Special"} -> "OverMidnight"
    [] OTHER -> "DaysOfTheWeek"

\* A time that names no weekday is not read.
ServiceHourToDomain(wire) ==
  LET Flag(flag) == IF IsSet(flag) THEN TRUE ELSE None
  IN  [type |-> HourType(wire.serviceHourType),
       validFrom |-> wire.validFrom, validTo |-> wire.validTo,
       validForNow |-> Flag(wire.validForNow), isClosed |-> Flag(wire.isClosed),
       isAlwaysOpen |-> Flag(wire.isAlwaysOpen), isReservation |-> Flag(wire.isReservation),
       additionalInformation |-> NonEmpty(LanguageItemsToText(wire.additionalInformation)),
       openingTimes |-> SelectSeq(wire.openingHour, LAMBDA time : time.dayFrom \in Weekdays)]

ServiceHourToWire(hour) ==
  [serviceHourType |-> hour.type,
   validFrom |-> hour.validFrom, validTo |-> hour.validTo,
   validForNow |-> OrDefault(hour.validForNow, hour.validTo = None),
   isClosed |-> IsSet(hour.isClosed), isAlwaysOpen |-> IsSet(hour.isAlwaysOpen),
   isReservation |-> IsSet(hour.isReservation),
   additionalInformation |-> TextToLanguageItems(hour.additionalInformation),
   openingHour |-> ExpandOpeningTimes(hour)]

\* In the order of the week, the times of one day in the order of the day.
InOrder(times) ==
  SortSeq(times, LAMBDA a, b :
    a.dayFrom < b.dayFrom \/ (a.dayFrom = b.dayFrom /\ a.from < b.from))

\* Mutant: whether the hour is one of closure is not compared.
CanonicalWithoutClosing(hour) ==
  [type |-> hour.type, validFrom |-> hour.validFrom, validTo |-> hour.validTo,
   isAlwaysOpen |-> IsSet(hour.isAlwaysOpen), isReservation |-> IsSet(hour.isReservation),
   additionalInformation |-> hour.additionalInformation,
   openingTimes |-> InOrder(ExpandOpeningTimes(hour))]

\* Mutant: the times are compared as they are listed.
CanonicalAsListed(hour) ==
  [type |-> hour.type, validFrom |-> hour.validFrom, validTo |-> hour.validTo,
   isClosed |-> IsSet(hour.isClosed), isAlwaysOpen |-> IsSet(hour.isAlwaysOpen),
   isReservation |-> IsSet(hour.isReservation),
   additionalInformation |-> hour.additionalInformation,
   openingTimes |-> hour.openingTimes]

\* What is compared of an hour: times written out and in order, no defaults.
CanonicalServiceHour(hour) ==
  [type |-> hour.type, validFrom |-> hour.validFrom, validTo |-> hour.validTo,
   isClosed |-> IsSet(hour.isClosed), isAlwaysOpen |-> IsSet(hour.isAlwaysOpen),
   isReservation |-> IsSet(hour.isReservation),
   additionalInformation |-> hour.additionalInformation,
   openingTimes |-> InOrder(ExpandOpeningTimes(hour))]

-----------------------------------------------------------------------------
(* Addresses.  PTV keeps the parts of an address in a member named by its  *)
(* sub type; the model keeps the parts and the sub type.                   *)

StreetParts == {"street", "streetNumber", "postalCode", "municipality", "latitude",
                "longitude", "additionalInformation"}
BoxParts == {"postOfficeBox", "postalCode", "additionalInformation"}
Texts == {"street", "postOfficeBox", "additionalInformation", "text", "receiver"}
AddressParts == StreetParts \cup BoxParts \cup Texts

PartsToDomain(wire, parts) ==
  [p \in AddressParts |->
     IF p \notin parts THEN None
     ELSE IF p \in Texts THEN NonEmpty(LanguageItemsToText(wire[p])) ELSE wire[p]]

\* PTV derives the municipality, which its write schemas do not take.
PartsToWire(address, parts) ==
  [p \in AddressParts |->
     CASE p \in parts \cap Texts -> TextToLanguageItems(address[p])
       [] p \in Texts \ parts -> << >>
       [] p = "municipality" /\ p \in parts ->
            IF address.postalCode \in DOMAIN MunicipalityOf
              THEN MunicipalityOf[address.postalCode] ELSE None
       [] p \in parts \ (Texts \cup {"municipality"}) -> address[p]
       [] OTHER -> None]

PartsOf(kind) ==
  CASE kind \in {"Street", "Other"} -> StreetParts
    [] kind = "PostOfficeBox" -> BoxParts
    [] OTHER -> {"text"}

LocationAddressToDomain(wire) ==
  LET kind == CASE wire.subType = "Other" -> "Other"
                [] wire.subType = "Abroad" -> "Foreign"
                [] wire.subType = "PostOfficeBox" -> "PostOfficeBox"
                [] OTHER -> "Street"
  IN  [kind |-> kind, purpose |-> IF wire.type = "Postal" THEN "Postal" ELSE "Visiting",
       parts |-> PartsToDomain(wire.parts, PartsOf(kind))]

LocationAddressToWire(address) ==
  LET kind == IF address.kind \in {"Other", "Foreign", "PostOfficeBox"}
                THEN address.kind ELSE "Street"
  IN  [subType |-> IF kind = "Foreign" THEN "Abroad" ELSE kind,
       type |-> IF address.purpose = "Postal" THEN "Postal" ELSE "Location",
       parts |-> PartsToWire(address.parts, PartsOf(kind))]

DeliveryAddressToDomain(wire) ==
  LET kind == IF wire.subType \in {"PostOfficeBox", "Street"} THEN wire.subType ELSE "NoAddress"
  IN  [kind |-> kind, purpose |-> None,
       parts |-> PartsToDomain(wire.parts, {"receiver"} \cup PartsOf(kind))]

DeliveryAddressToWire(address) ==
  LET kind == IF address.kind \in {"PostOfficeBox", "Street"} THEN address.kind ELSE "NoAddress"
  IN  [subType |-> kind, type |-> None,
       parts |-> PartsToWire(address.parts, {"receiver"} \cup PartsOf(kind))]

-----------------------------------------------------------------------------
(* Accessibility and form files. *)

AccessibilityLevels == {"FullyCompliant", "PartiallyCompliant", "NonCompliant", "Unknown"}

\* PTV has a level for each language, <<language, level>>; the first counts.
AccessibilityToDomain(items) ==
  IF items # << >> /\ items[1][2] \in AccessibilityLevels THEN items[1][2] ELSE None

AccessibilityToWire(level, languages) ==
  Mapped(SetToSeq(languages), LAMBDA language : <<language, level>>)

\* A file is <<language, url, format>>; one of another format is not read.
FormFilesToDomain(items) ==
  Mapped(SelectSeq(items, LAMBDA item : item[3] \in {"PDF", "DOC", "Excel"} /\ item[2] # None),
         LAMBDA item : [language |-> item[1], format |-> item[3], url |-> item[2]])

FormFilesToWire(files) == Mapped(files, LAMBDA file : <<file.language, file.url, file.format>>)
=============================================================================
