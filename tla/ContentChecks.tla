----------------------------- MODULE ContentChecks -----------------------------
(***************************************************************************)
(* The deterministic content checks of src/quality/contentChecks.ts.  What *)
(* the checks' patterns find in a text is the text's shape: its contact    *)
(* details, its style hits, its words without case and punctuation, and    *)
(* whether a long sentence of it is in the general description.  A finding *)
(* is its check, severity, field, language and cause.                      *)
(***************************************************************************)
EXTENDS ChannelRules

SummaryMax == 150
DescriptionMax == 5000
OrganizationDescriptionMax == 2500

Finding(check, severity, field, language, cause) ==
  [checkId |-> check, severity |-> severity, field |-> field, language |-> language,
   cause |-> cause]

Errors(findings) == {f \in findings : f.severity = "error"}
Warnings(findings) == {f \in findings : f.severity = "warning"}

FindingIf(condition, finding) == IF condition THEN {finding} ELSE {}

-----------------------------------------------------------------------------
(* Free texts. *)

ContactKinds == {"email", "url", "phone", "address", "hours"}

ContactHits(text) == TextShape[text].contacts \cap ContactKinds

\* The style checks of every language, and the Finnish ones.
StyleChecks ==
  [selfReference |-> "Q-STRUCT-2", law |-> "Q-LAW-1", date |-> "Q-STYLE-7",
   emphasis |-> "Q-STYLE-9", longSentence |-> "Q-STYLE-3", longParagraph |-> "Q-STYLE-3",
   passive |-> "Q-STYLE-2", participial |-> "Q-STYLE-4"]
FinnishStyle == {"passive", "participial"}

StyleFindings(field, language, text) ==
  {Finding(StyleChecks[hit], "warning", field, language, hit) :
     hit \in {h \in TextShape[text].style : h \in FinnishStyle => language = "fi"}}

FreeTextFindings(field, language, text) ==
  {Finding("Q-STRUCT-1", "error", field, language, kind) : kind \in ContactHits(text)}
    \cup StyleFindings(field, language, text)

Normalized(text) == TextShape[text].words

TextOf(text, language) ==
  IF text # None /\ language \in DOMAIN text THEN text[language] ELSE None

LanguageVersions(texts) == UNION {DOMAIN text : text \in texts \ {None}}

NameFindings(name, l) ==
  IF name = None THEN {Finding("Q-LANG-2", "error", "names", l, "missing")}
  ELSE Errors(FreeTextFindings("names", l, name))

SummaryFindings(summary, name, l) ==
  IF summary = None THEN {Finding("Q-SUM-1", "error", "summaries", l, "missing")}
  ELSE FindingIf(TextShape[summary].length > SummaryMax,
                 Finding("Q-SUM-1", "error", "summaries", l, "long"))
       \cup FindingIf(name # None /\ Normalized(summary) = Normalized(name),
                      Finding("Q-SUM-1", "error", "summaries", l, "repeats"))
       \cup FreeTextFindings("summaries", l, summary)

DescriptionFindings(description, max, l) ==
  IF description = None THEN {Finding("Q-DESC-1", "error", "descriptions", l, "missing")}
  ELSE FindingIf(TextShape[description].length > max,
                 Finding("Q-DESC-1", "error", "descriptions", l, "long"))
       \cup FreeTextFindings("descriptions", l, description)

\* Each language version has the texts; without summaries (v12) none is asked.
TextFieldFindings(names, summaries, descriptions, max) ==
  UNION {NameFindings(TextOf(names, l), l)
           \cup (IF summaries = None THEN {}
                 ELSE SummaryFindings(TextOf(summaries, l), TextOf(names, l), l))
           \cup DescriptionFindings(TextOf(descriptions, l), max, l) :
         l \in LanguageVersions({names, summaries, descriptions})}

-----------------------------------------------------------------------------
(* Services. *)

\* A class's code, or the last segment of its uri.
ClassificationCode(entry) == IF entry.code # None THEN entry.code ELSE entry.uri

\* Mutant: a service linked to a general description is held to no limit.
LinkedIsExempt(service) ==
  FindingIf(service.generalDescriptionId = None /\ Len(service.serviceClasses) \notin 1..MaxServiceClasses,
            Finding("Q-CLASS-1", "error", "serviceClasses", None, "number"))

ServiceClassFindings(service) ==
  LET classes == service.serviceClasses
      inherits == service.generalDescriptionId # None
      Error(cause) == {Finding("Q-CLASS-1", "error", "serviceClasses", None, cause)}
  IN  CASE Len(classes) > MaxServiceClasses -> Error("many")
        [] ~inherits /\ classes = << >> -> Error("none")
        [] /\ Len(classes) \in 1..MaxServiceClasses
           /\ ~\E i \in DOMAIN classes : ClassificationCode(classes[i]).sub # None ->
             Error("main")
        [] OTHER -> {}

OntologyTermFindings(service) ==
  LET Error(cause) == {Finding("Q-CLASS-2", "error", "ontologyTerms", None, cause)}
  IN  CASE Len(service.ontologyTerms) > MaxOntologyTerms -> Error("many")
        [] service.generalDescriptionId = None /\ service.ontologyTerms = << >> -> Error("none")
        [] OTHER -> {}

TargetGroupFindings(service) ==
  LET groups == Mapped(service.targetGroups, ClassificationCode)
      Under(main) == {i \in DOMAIN groups : groups[i].main = main /\ groups[i].sub # None}
  IN  FindingIf(/\ \E i \in DOMAIN groups : groups[i].main = "KR2" /\ groups[i].sub = None
                /\ Under("KR2") = {},
                Finding("Q-CLASS-3", "error", "targetGroups", None, "businesses"))
      \cup FindingIf(Cardinality(Under("KR1")) >= 5,
                     Finding("Q-CLASS-3", "warning", "targetGroups", None, "citizens"))

\* A sentence of the linked general description, in the same language.
CopiedFromGeneralDescription(service, description) ==
  UNION {{Finding("Q-GD-1", "error", field, l, "copied") :
            l \in {m \in DOMAIN service[field] :
                     /\ service[field][m] # None /\ m \in description.languages
                     /\ TextShape[service[field][m]].copied}} :
         field \in {"summaries", "descriptions"}}

OrganisationNameFindings(names, organisationNames) ==
  {Finding("Q-NAME-1", "warning", "names", l, "organisation") :
     l \in {m \in DOMAIN names :
              /\ names[m] # None /\ TextOf(organisationNames, m) # None
              /\ TextOf(organisationNames, m) \in TextShape[names[m]].includes}}

\* A context has the organisation's names, the general description read, if
\* any, and whether the service is being created.
CheckService(service, context) ==
  TextFieldFindings(service.names, service.summaries, service.descriptions, DescriptionMax)
    \cup OrganisationNameFindings(service.names, context.organisationNames)
    \cup ServiceClassFindings(service)
    \cup OntologyTermFindings(service)
    \cup TargetGroupFindings(service)
    \cup FindingIf(service.languages = {},
                   Finding("Q-LANG-1", "error", "languages", None, "none"))
    \cup FindingIf(service.serviceChannelIds = {},
                   Finding("Q-STRUCT-5", IF context.creating THEN "warning" ELSE "error",
                           "serviceChannelIds", None, "none"))
    \cup (IF context.generalDescription # None
               /\ service.generalDescriptionId = context.generalDescription.id
            THEN CopiedFromGeneralDescription(service, context.generalDescription) ELSE {})

-----------------------------------------------------------------------------
(* Channels, connections and organisations. *)

PhoneFindings(field, phones) ==
  LET OfLanguage(l) == {i \in DOMAIN phones : phones[i].language = l}
      Warn(l, cause) == Finding("Q-CONTACT-1", "warning", field, l, cause)
  IN  UNION {FindingIf(phones[i].chargeType = "Other" /\ phones[i].chargeDescription = None,
                       Warn(phones[i].language, "price"))
             \cup FindingIf(/\ ~IsSet(phones[i].isFinnishServiceNumber)
                            /\ NumberShape[phones[i].number].digits < 5,
                            Warn(phones[i].language, "short")) : i \in DOMAIN phones}
      \cup UNION {FindingIf(/\ Cardinality(OfLanguage(l)) > 1
                            /\ \E i \in OfLanguage(l) : phones[i].additionalInformation = None,
                            Warn(l, "which")) : l \in {phones[i].language : i \in DOMAIN phones}}

Titled(hour) == TextsOf(hour.additionalInformation) # {}

\* An exceptional hour of a single day has only validFrom.
Ended(hour, today) ==
  LET ends == IF hour.validTo # None THEN hour.validTo
              ELSE IF hour.type = "Exceptional" THEN hour.validFrom ELSE None
  IN  ends # None /\ ends < today

ServiceHourFindings(hours, today) ==
  LET Warn(cause) == Finding("Q-HOURS-1", "warning", "serviceHours", None, cause)
      weekly == {i \in DOMAIN hours : hours[i].type = "DaysOfTheWeek"}
  IN  UNION {FindingIf(Ended(hours[i], today), Warn(<<"ended", hours[i].validTo>>))
             \cup (IF hours[i].type # "Exceptional" THEN {}
                   ELSE FindingIf(hours[i].validFrom = None, Warn("no date"))
                        \cup FindingIf(~Titled(hours[i]), Warn("no title"))) :
             i \in DOMAIN hours}
      \cup FindingIf(Cardinality(weekly) > 1 /\ \E i \in weekly : ~Titled(hours[i]),
                     Warn("schedules"))

ChannelDetailFindings(channel, type, today) ==
  LET Warn(field, cause) == Finding("Q-CONTACT-1", "warning", field, None, cause)
      addresses == Listed(channel, "addresses")
  IN  UNION {PhoneFindings(field, Listed(channel, field)) :
             field \in {"phoneNumbers", "supportPhones"}}
      \cup FindingIf(/\ type = "ServiceLocation" /\ channel.addresses # None
                     /\ ~\E i \in DOMAIN addresses :
                          addresses[i].kind = "Street" /\ addresses[i].purpose # "Postal",
                     Warn("addresses", "street"))
      \cup ServiceHourFindings(Listed(channel, "serviceHours"), today)
      \cup FindingIf(type = "EChannel" /\ channel.accessibility = None,
                     Warn("accessibility", "not given"))

\* A proposal's check is not given the channel's connections, and finds nothing about them.
CheckChannel(channel, type, today) ==
  TextFieldFindings(channel.names, channel.summaries, channel.descriptions, DescriptionMax)
    \cup ChannelDetailFindings(channel, type, today)
    \cup FindingIf(channel.languages = {},
                   Finding("Q-LANG-1", "error", "languages", None, "none"))

CheckConnection(details, today) ==
  UNION {UNION {FreeTextFindings(field, l, details[field][l]) :
                l \in {m \in LanguageVersions({details[field]}) : details[field][m] # None}} :
         field \in {"descriptions", "chargeDescriptions"}}
    \cup FindingIf(details.chargeType = "Other" /\ TextsOf(details.chargeDescriptions) = {},
                   Finding("Q-CONTACT-1", "warning", "chargeDescriptions", None, "charge"))
    \cup PhoneFindings("phoneNumbers", Listed(details, "phoneNumbers"))
    \cup ServiceHourFindings(Listed(details, "serviceHours"), today)

CheckOrganization(organization) ==
  TextFieldFindings(organization.names, OrDefault(organization.summaries, << >>),
                    organization.descriptions, OrganizationDescriptionMax)
    \cup PhoneFindings("phoneNumbers", Listed(organization, "phoneNumbers"))
=============================================================================
