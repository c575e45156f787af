------------------------------- MODULE FieldFormat -------------------------------
(***************************************************************************)
(* Field values as PTV's own UI shows them, for the manual-publishing      *)
(* sheet and the content report (src/format/ptvFormat.ts).  A value is     *)
(* printed as the parts that are printed of it; wording is left out.       *)
(***************************************************************************)
EXTENDS ChannelFields

\* "(tyhjä)": the field is to be cleared.
Empty == None

\* Each language's text; the languages are printed in an order of their own.
FormatLocalized(text) ==
  IF text = None THEN {} ELSE {<<l, text[l]>> : l \in {m \in DOMAIN text : text[m] # None}}

FormatCode(entry) == IF entry.code # None THEN entry.code ELSE entry.uri

FormatPhone(phone) ==
  [language |-> phone.language,
   prefix |-> IF IsSet(phone.isFinnishServiceNumber) THEN None
              ELSE OrDefault(phone.prefixNumber, "+358"),
   number |-> phone.number,
   type |-> IF phone.type \in {"Sms", "Fax"} THEN phone.type ELSE None,
   information |-> phone.additionalInformation,
   charge |-> phone.chargeType, price |-> phone.chargeDescription]

\* Consecutive days with the same times as one range.
GroupDays(hour) ==
  LET Add(groups, time) ==
        LET n == Len(groups)
        IN  IF /\ groups # << >>
               /\ groups[n].from = time.from /\ groups[n].to = time.to
               /\ time.dayFrom = groups[n].last + 1
              THEN [groups EXCEPT ![n].last = time.dayFrom]
              ELSE Append(groups, [first |-> time.dayFrom, last |-> time.dayFrom,
                                   from |-> time.from, to |-> time.to])
  IN  FoldLeft(Add, << >>, InOrder(ExpandOpeningTimes(hour)))

\* An hour from a date on prints its dates, any other weekly hour "for now".
FormatPeriod(hour) ==
  [from |-> hour.validFrom,
   to |-> IF hour.validFrom = None \/ hour.validTo = hour.validFrom THEN None ELSE hour.validTo,
   forNow |-> hour.validFrom = None /\ hour.type # "Exceptional"]

FormatTimes(hour) ==
  LET Span(time) == [first |-> time.dayFrom, last |-> OrDefault(time.dayTo, time.dayFrom),
                     from |-> time.from, to |-> time.to]
  IN  CASE IsSet(hour.isClosed) -> [flag |-> "closed"]
        [] ~IsSet(hour.isClosed) /\ IsSet(hour.isAlwaysOpen) -> [flag |-> "always open"]
        [] /\ ~IsSet(hour.isClosed) /\ ~IsSet(hour.isAlwaysOpen)
           /\ IsSet(hour.isReservation) -> [flag |-> "by appointment"]
        [] OTHER -> [spans |-> IF hour.type = "OverMidnight" THEN Mapped(hour.openingTimes, Span)
                                                             ELSE GroupDays(hour)]

FormatServiceHour(hour) ==
  [type |-> hour.type, period |-> FormatPeriod(hour),
   title |-> FormatLocalized(hour.additionalInformation), times |-> FormatTimes(hour)]

\* Of a street and of an address's extra information, the Finnish text if any.
FormatAddress(address) ==
  LET parts == address.parts
      placed == address.kind \in {"Street", "PostOfficeBox"}
      Street(text) == IF text = None THEN {}
                      ELSE {IF "fi" \in DOMAIN text THEN text["fi"]
                            ELSE text[CHOOSE l \in DOMAIN text : TRUE]}
      Finnish(text) == IF text # None /\ "fi" \in DOMAIN text THEN {<<None, text["fi"]>>}
                       ELSE FormatLocalized(text)
  IN  [heading |-> CASE ~placed -> address.kind
                     [] placed /\ address.purpose = "Postal" -> "Postal"
                     [] OTHER -> IF parts.receiver # None THEN "Delivery" ELSE "Visiting",
       receiver |-> IF placed THEN FormatLocalized(parts.receiver) ELSE {},
       line |-> CASE address.kind = "Street" -> Street(parts.street)
                  [] address.kind = "PostOfficeBox" -> FormatLocalized(parts.postOfficeBox)
                  [] address.kind = "Other" -> {<<parts.latitude, parts.longitude>>}
                  [] OTHER -> FormatLocalized(parts.text),
       streetNumber |-> IF address.kind = "Street" THEN parts.streetNumber ELSE None,
       postalCode |-> IF placed THEN parts.postalCode ELSE None,
       information |-> IF placed \/ address.kind = "Other"
                         THEN Finnish(parts.additionalInformation) ELSE {}]

ListFields == {"serviceHours", "phoneNumbers", "supportPhones", "addresses",
               "deliveryAddresses", "serviceClasses", "ontologyTerms", "targetGroups",
               "webPages", "formFiles"}

\* A localized text that was cleared prints nothing, not "(tyhjä)".
FormatValue(field, value) ==
  CASE value = None -> Empty
    [] field \in {"urls", "chargeDescriptions"} /\ value # None -> FormatLocalized(value)
    [] field \in ListFields /\ value # None ->
         (IF value = << >> THEN Empty
          ELSE CASE field = "serviceHours" -> Mapped(value, FormatServiceHour)
                 [] field \in {"phoneNumbers", "supportPhones"} -> Mapped(value, FormatPhone)
                 [] field \in {"addresses", "deliveryAddresses"} -> Mapped(value, FormatAddress)
                 [] field \in {"serviceClasses", "ontologyTerms", "targetGroups"} ->
                      Mapped(value, FormatCode)
                 [] OTHER -> value)
    [] OTHER -> value
=============================================================================
