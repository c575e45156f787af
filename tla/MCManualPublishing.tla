--------------------------- MODULE MCManualPublishing ---------------------------
(* One item of each kind.  PTV's values have old names, ranges of days,     *)
(* closed days, derived municipalities and classifications of several       *)
(* depths; proposals change one or two fields, to values that PTV gives     *)
(* back as they are and to values that it does not.                         *)
EXTENDS ManualPublishing

-----------------------------------------------------------------------------
(* What the rules and the checks see in texts, numbers and addresses. *)

Shape(length, contacts, style, words) ==
  [length |-> length, digits |-> "phone" \in contacts, contacts |-> contacts, style |-> style, words |-> words,
   copied |-> FALSE, includes |-> {}]

MCTextShape ==
  [clear |-> Shape(40, {}, {}, "clear"),
   other |-> Shape(60, {}, {"passive"}, "other"),
   name |-> [Shape(20, {}, {}, "name") EXCEPT !.includes = {"Town"}],
   number |-> Shape(50, {"phone"}, {"emphasis"}, "number"),
   long |-> [Shape(600, {}, {"longSentence"}, "long") EXCEPT !.copied = TRUE]]

MCNumberShape ==
  [n1 |-> [onlyDigits |-> TRUE, leadingZero |-> FALSE, length |-> 9, digits |-> 9],
   n2 |-> [onlyDigits |-> TRUE, leadingZero |-> FALSE, length |-> 3, digits |-> 3]]

MCUrlShape ==
  [u1 |-> [http |-> TRUE, length |-> 20, identification |-> FALSE],
   u2 |-> [http |-> TRUE, length |-> 20, identification |-> TRUE]]

MCMunicipalityOf == [p1 |-> "091"]

MCContext == [organisationNames |-> [fi |-> "Town", sv |-> "Stad"], creating |-> FALSE,
              generalDescription |-> [id |-> "gd", languages |-> {"fi"}]]

-----------------------------------------------------------------------------
(* What PTV holds. *)

Fi(text) == <<<<"fi", text>>>>
Both(fi, sv) == <<<<"fi", fi>>, <<"sv", sv>>>>

Phone(number, charge) ==
  [language |-> "fi", type |-> None, prefixNumber |-> "+358", number |-> number,
   isFinnishServiceNumber |-> FALSE, additionalInformation |-> None,
   serviceChargeType |-> charge, chargeDescription |-> None]
Service(number) ==
  [Phone(number, "Other") EXCEPT !.prefixNumber = None, !.isFinnishServiceNumber = TRUE]
PhonesIn(kind) ==
  {<<[Phone("n1", "Charged") EXCEPT !.type = kind]>>,
   <<[Service("n2") EXCEPT !.type = kind],
     [Phone("n1", "Free") EXCEPT !.type = IF kind = None THEN None ELSE "Sms"]>>}

Opens(days, from, to) ==
  [i \in 1..Len(days) |-> [dayFrom |-> days[i], dayTo |-> None, from |-> from, to |-> to]]
Hour(kind, times) ==
  [serviceHourType |-> kind, validFrom |-> None, validTo |-> None, validForNow |-> TRUE,
   isClosed |-> FALSE, isAlwaysOpen |-> FALSE, isReservation |-> FALSE,
   additionalInformation |-> << >>, openingHour |-> times]
Dated(kind, from, to, closed) ==
  [Hour(kind, << >>) EXCEPT !.validFrom = from, !.validTo = to, !.isClosed = closed,
                            !.additionalInformation = Fi("clear")]
Hours ==
  {<<Hour("Standard", Opens(<<1, 2, 3>>, 9, 15))>>,
   <<Dated("Exception", 1, 2, TRUE)>>,
   <<[Dated("Exceptional", 1, 3, FALSE) EXCEPT !.openingHour = Opens(<<None>>, 9, 15)]>>,
   <<Hour("Special", <<[dayFrom |-> 5, dayTo |-> 6, from |-> 22, to |-> 2]>>)>>}

WireParts(given) ==
  [p \in AddressParts |-> IF p \in DOMAIN given THEN given[p]
                          ELSE IF p \in Texts THEN << >> ELSE None]
StreetOf(names) ==
  WireParts([street |-> names, streetNumber |-> "1", postalCode |-> "p1", municipality |-> "091"])
Addresses ==
  {<<[subType |-> "Street", type |-> "Location", parts |-> StreetOf(Fi("clear"))]>>,
   <<[subType |-> "Other", type |-> "Location",
      parts |-> WireParts([latitude |-> "60", longitude |-> "24",
                           additionalInformation |-> Fi("clear")])],
     [subType |-> "PostOfficeBox", type |-> "Postal",
      parts |-> WireParts([postOfficeBox |-> Fi("clear"), postalCode |-> "p1"])],
     [subType |-> "Abroad", type |-> "Postal", parts |-> WireParts([text |-> Fi("other")])]>>}
Deliveries ==
  {<<[subType |-> "NoAddress", type |-> None,
      parts |-> WireParts([text |-> Fi("clear"), receiver |-> Fi("other")])]>>,
   <<[subType |-> "Street", type |-> None, parts |-> StreetOf(Fi("clear"))]>>}

Code(main, sub) == [main |-> main, sub |-> sub]
Class(main, sub) == [code |-> Code(main, sub), uri |-> [main |-> main, sub |-> sub, of |-> "koko"]]

TextsHeld == {Both("clear", "name"), Both("other", "clear"), Fi("number")}

MCHeld ==
  [Service |->
     [names |-> {Both("name", "clear"), Both("other", "clear"), Both("clear", "name")},
      summaries |-> TextsHeld,
      serviceClasses |-> {<<Class("P1", "1")>>, <<Class("P1", None)>>,
                          <<Class("P1", "1"), Class("P2", "1")>>},
      targetGroups |-> {<<Class("KR2", None)>>, <<Class("KR1", "1"), Class("KR2", "1")>>},
      generalDescriptionId |-> {None, "gd"}],
   Organization |->
     [descriptions |-> {Both("clear", "long"), Both("number", "long"), Fi("clear")},
      phoneNumbers |-> PhonesIn(None), webPages |-> {<< >>, <<<<"fi", "u1", "clear">>>>}],
   Connection |->
     [descriptions |-> {Fi("long"), << >>}, chargeType |-> {None, "Charged", "Other"},
      chargeDescriptions |-> {<< >>, Fi("clear")}, serviceHours |-> Hours,
      addresses |-> Addresses],
   EChannel |->
     [names |-> TextsHeld \cup {Both("name", "clear")}, urls |-> {<<<<"fi", "u1", None>>>>, <<<<"fi", "u1", None>>, <<"sv", "u1", None>>>>},
      accessibility |-> {<< >>, <<<<"fi", "NonCompliant">>, <<"sv", "Unknown">>>>},
      supportPhones |-> PhonesIn(None)],
   PrintableForm |->
     [summaries |-> TextsHeld, deliveryAddresses |-> Deliveries,
      formFiles |-> {<< >>, <<<<"fi", "u1", "PDF">>, <<"fi", "u2", "odt">>>>}],
   Phone |-> [phoneNumbers |-> PhonesIn("Phone"), serviceHours |-> Hours],
   ServiceLocation |->
     [phoneNumbers |-> PhonesIn(None), serviceHours |-> Hours, addresses |-> Addresses]]

Some(set) == CHOOSE e \in set : TRUE

MCBase ==
  [t \in DOMAIN MCHeld |->
     LET unheld ==
           [names |-> Both("clear", "clear"), summaries |-> Both("other", "name"),
            descriptions |-> Both("clear", "clear"), languages |-> {"fi"},
            publishingStatus |-> "Published", organizationId |-> "org",
            ontologyTerms |-> <<Class("T1", None)>>, serviceChannelIds |-> {"ch"}]
         fields == DOMAIN MCHeld[t] \cup
           (IF t = "Connection" THEN {"phoneNumbers"} ELSE DOMAIN unheld \
              IF t = "Service" THEN {} ELSE {"ontologyTerms", "serviceChannelIds"})
     IN  [f \in fields |-> IF f \in DOMAIN MCHeld[t] THEN Some(MCHeld[t][f])
                           ELSE IF f = "phoneNumbers" THEN << >> ELSE unheld[f]]]

-----------------------------------------------------------------------------
(* What is proposed. *)

Weekly(times) ==
  [ServiceHourToDomain(Hour("Standard", << >>)) EXCEPT !.openingTimes = times]
DayRange(first, last, from, to) == [dayFrom |-> first, dayTo |-> last, from |-> from, to |-> to]

HoursProposed ==
  {<< >>,
   <<Weekly(<<DayRange(1, 3, 9, 15)>>)>>,
   <<Weekly(<<DayRange(6, 1, 10, 12), DayRange(6, None, 8, 9)>>)>>,
   <<ServiceHourToDomain(Dated("Exceptional", 1, 2, TRUE))>>,
   <<ServiceHourToDomain(Dated("Exceptional", 1, 3, TRUE))>>,
   <<[Weekly(<<DayRange(2, None, 9, 15)>>) EXCEPT !.validTo = 2]>>}

PhonesProposed(kind) ==
  {<< >>, <<PhoneToDomain([Phone("n2", "Chargeable") EXCEPT !.type = kind])>>,
   <<[PhoneToDomain(Phone("n2", "Chargeable")) EXCEPT !.prefixNumber = None,
                                                      !.chargeType = None]>>}

AddressesProposed(kind) ==
  LET street == [LocationAddressToDomain(
                   [subType |-> "Street", type |-> "Location", parts |-> StreetOf(Fi("other"))])
                 EXCEPT !.purpose = kind]
  IN  {<< >>, <<street>>, <<[street EXCEPT !.parts.municipality = None]>>,
       <<[street EXCEPT !.parts.street = [fi |-> "number"]]>>}

One(field, values) == {field :> v : v \in values}

TextsProposed == {[fi |-> "other"], [fi |-> "clear", sv |-> "long"]}

MCProposed ==
  [Service |->
     One("names", TextsProposed)
     \cup One("serviceClasses", {<< >>, <<Class("P2", "1")>>, <<Class("P3", None)>>,
                                 [i \in 1..5 |-> Class("P4", "1")],
                                 <<[Class("P1", "1") EXCEPT !.uri = None]>>})
     \cup One("targetGroups", {<<Class("KR2", "1")>>, << >>})
     \cup {("generalDescriptionId" :> None) @@ ("serviceClasses" :> <<Class("P1", "1")>>)}
     \cup One("publishingStatus", {"Archived"}),
   Organization |->
     One("descriptions", TextsProposed) \cup One("phoneNumbers", PhonesProposed(None))
     \cup One("webPages", {<< >>, <<[language |-> "fi", url |-> "u1", name |-> None]>>}),
   Connection |->
     One("chargeType", {"Other"}) \cup One("chargeDescriptions", {[fi |-> "clear"], << >>})
     \cup One("serviceHours", HoursProposed) \cup One("addresses", AddressesProposed(None))
     \cup {("descriptions" :> [fi |-> "number"]) @@ ("chargeType" :> "Other")},
   EChannel |->
     One("names", TextsProposed) \cup One("urls", {[fi |-> "u1"], << >>})
     \cup One("accessibility", {"Unknown"}) \cup One("supportPhones", PhonesProposed(None))
     \cup One("publishingStatus", {"Archived"}),
   PrintableForm |->
     One("summaries", TextsProposed)
     \cup One("deliveryAddresses",
              {<<DeliveryAddressToDomain([subType |-> "NoAddress", type |-> None,
                   parts |-> WireParts([text |-> Fi("other")])])>>})
     \cup One("formFiles", {<<[language |-> "fi", format |-> "PDF", url |-> "u1"]>>}),
   Phone |->
     One("phoneNumbers", PhonesProposed("Phone")) \cup One("serviceHours", HoursProposed),
   ServiceLocation |->
     One("addresses", AddressesProposed("Visiting")) \cup One("serviceHours", HoursProposed)
     \cup {("phoneNumbers" :> ph) @@ ("serviceHours" :> <<Weekly(<<DayRange(1, 3, 9, 15)>>)>>) :
             ph \in PhonesProposed(None)}]
=============================================================================
