----------------------------- MODULE ChannelRules -----------------------------
(***************************************************************************)
(* PTV's hard rules for contact details, service hours, addresses and the  *)
(* extra info of connections (src/validation/channelRules.ts), and those   *)
(* for a service's classifications (src/validation/changeValidator.ts).    *)
(* What a rule's pattern sees in a number, an address or a text is its     *)
(* shape; a validation's errors are <<field, rule>> pairs.                 *)
(***************************************************************************)
EXTENDS ChannelFields, FiniteSets

CONSTANTS
    NumberShape,    \* of a number: onlyDigits, leadingZero, length, digits
    UrlShape,       \* of a URL: http, length, identification
    TextShape,      \* of a text: length, digits and what the content checks find in it
    Emails          \* the well-formed email addresses

PhoneMax == 20
PhoneTextMax == 300
UrlMax == 500
HourInfoMax == 150
AddressInfoMax == 150
ConnectionTextMax == 500
PhoneLanguages == {"fi", "sv", "en"}
MaxServiceClasses == 4
MaxOntologyTerms == 10

Longer(text, max) == text # None /\ TextShape[text].length > max

TextsOf(text) == IF text = None THEN {} ELSE {text[l] : l \in DOMAIN text} \ {None}

Broken(field, rules) == {<<field, rule>> : rule \in {r \in DOMAIN rules : rules[r]}}

ErrorsOfEach(seq, Check(_)) == UNION {Check(seq[i]) : i \in DOMAIN seq}

CheckUrl(url, field) ==
  Broken(field,
    [scheme |-> ~UrlShape[url].http,
     long |-> UrlShape[url].http /\ UrlShape[url].length > UrlMax,
     identification |-> UrlShape[url].identification])

CheckPhone(phone, field) ==
  LET shape == NumberShape[phone.number]
      service == IsSet(phone.isFinnishServiceNumber)
  IN  Broken(field,
        [digits |-> ~shape.onlyDigits,
         long |-> shape.length > PhoneMax,
         leadingZero |-> ~service /\ shape.leadingZero,
         prefix |-> ~service /\ phone.prefixNumber \notin {None, "+358", "+46"},
         language |-> phone.language \notin PhoneLanguages,
         information |-> Longer(phone.additionalInformation, PhoneTextMax),
         charge |-> Longer(phone.chargeDescription, PhoneTextMax)])

CheckServiceHour(hour, field) ==
  LET times == hour.openingTimes
      Ends(time) == /\ hour.type # "OverMidnight"
                    /\ time.to <= time.from /\ time.to # 0
  IN  Broken(field,
        [order |-> hour.validFrom # None /\ hour.validTo # None /\ hour.validTo < hour.validFrom,
         exceptional |-> hour.type = "Exceptional" /\ hour.validFrom = None,
         noTimes |-> /\ times = << >>
                     /\ ~\E flag \in {"isAlwaysOpen", "isReservation", "isClosed"} :
                          IsSet(hour[flag]),
         ends |-> \E i \in DOMAIN times : Ends(times[i]),
         title |-> \E text \in TextsOf(hour.additionalInformation) :
                     Longer(text, HourInfoMax)])

CheckAddress(address, field, delivery) ==
  LET parts == address.parts
  IN  Broken(field,
        [street |-> address.kind = "Street" /\ TextsOf(parts.street) = {},
         postalCode |-> address.kind = "Street" /\ parts.postalCode = None,
         number |-> /\ address.kind = "Street"
                    /\ \E text \in TextsOf(parts.street) : TextShape[text].digits,
         coordinates |-> address.kind = "Other" /\ None \in {parts.latitude, parts.longitude},
         place |-> address.kind = "Other" /\ TextsOf(parts.additionalInformation) = {},
         text |-> address.kind \in {"Foreign", "NoAddress"} /\ TextsOf(parts.text) = {},
         box |-> address.kind = "PostOfficeBox" /\ TextsOf(parts.postOfficeBox) = {},
         onlyDelivery |-> ~delivery /\ address.kind = "NoAddress",
         noDelivery |-> delivery /\ address.kind = "Other",
         information |-> \E text \in TextsOf(parts.additionalInformation) :
                           Longer(text, AddressInfoMax)])

Listed(entity, field) ==
  IF field \in DOMAIN entity /\ entity[field] # None THEN entity[field] ELSE << >>

CheckContactDetails(entity) ==
  ErrorsOfEach(Listed(entity, "webPages"), LAMBDA page : CheckUrl(page.url, "webPages"))
    \cup ErrorsOfEach(Listed(entity, "phoneNumbers"),
                      LAMBDA phone : CheckPhone(phone, "phoneNumbers"))
    \cup ErrorsOfEach(Listed(entity, "emails"),
                      LAMBDA email : Broken("emails", [form |-> email \notin Emails]))
    \cup ErrorsOfEach(Listed(entity, "serviceHours"),
                      LAMBDA hour : CheckServiceHour(hour, "serviceHours"))

ChargeKinds == {"Chargeable", "FreeOfCharge", "Other"}

ValidateConnectionDetails(details) ==
  Broken("chargeType", [kind |-> details.chargeType \notin {None} \cup ChargeKinds])
    \cup UNION {Broken(field, [long |-> \E text \in TextsOf(details[field]) :
                                          Longer(text, ConnectionTextMax)]) :
                field \in {"descriptions", "chargeDescriptions"}}
    \cup CheckContactDetails(details)
    \cup ErrorsOfEach(Listed(details, "addresses"), LAMBDA address :
           IF address.kind \in {"Street", "PostOfficeBox", "Foreign"}
             THEN CheckAddress(address, "addresses", FALSE)
             ELSE {<<"addresses", "postal">>})

\* The lists of a channel (its other rules are in WriteMapping).
ValidateChannelLists(channel) ==
  UNION {Broken("summaries", [long |-> Longer(text, 150)]) : text \in TextsOf(channel.summaries)}
    \cup (IF "urls" \in DOMAIN channel
            THEN UNION {CheckUrl(url, "urls") : url \in TextsOf(channel.urls)} ELSE {})
    \cup ErrorsOfEach(Listed(channel, "formFiles"), LAMBDA file : CheckUrl(file.url, "formFiles"))
    \cup ErrorsOfEach(Listed(channel, "supportPhones"),
                      LAMBDA phone : CheckPhone(phone, "supportPhones"))
    \cup CheckContactDetails(channel)
    \cup ErrorsOfEach(Listed(channel, "addresses"),
                      LAMBDA address : CheckAddress(address, "addresses", FALSE))
    \cup ErrorsOfEach(Listed(channel, "deliveryAddresses"),
                      LAMBDA address : CheckAddress(address, "deliveryAddresses", TRUE))

-----------------------------------------------------------------------------
(* The validator's rules for a service's classifications.  An entry is     *)
(* [code, uri]; a code names a main class or, with a dot, a sub-class:     *)
(* [main, sub].  An ontology term's uri is of KOKO or of another ontology. *)

IsSubClass(code) == code.sub # None

RequiresClassifications(service) == service.generalDescriptionId = None

ClassificationErrors(service) ==
  LET classes == service.serviceClasses
      groups == service.targetGroups
      NoUri(entries) == \E i \in DOMAIN entries : entries[i].uri = None
      Codes(entries) == {entries[i].code : i \in DOMAIN entries}
  IN  Broken("serviceClasses",
        [limit |-> Len(classes) > MaxServiceClasses,
         uri |-> NoUri(classes),
         required |-> RequiresClassifications(service) /\ classes = << >>,
         onlyMain |-> /\ classes # << >>
                      /\ \A code \in Codes(classes) : code # None /\ ~IsSubClass(code)])
      \cup Broken("ontologyTerms",
        [limit |-> Len(service.ontologyTerms) > MaxOntologyTerms,
         uri |-> NoUri(service.ontologyTerms),
         koko |-> \E i \in DOMAIN service.ontologyTerms :
                    service.ontologyTerms[i].uri # None /\ service.ontologyTerms[i].uri.of # "koko",
         required |-> RequiresClassifications(service) /\ service.ontologyTerms = << >>])
      \cup Broken("targetGroups",
        [uri |-> NoUri(groups),
         required |-> RequiresClassifications(service) /\ groups = << >>])
=============================================================================
