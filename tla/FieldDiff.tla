-------------------------------- MODULE FieldDiff --------------------------------
(***************************************************************************)
(* The comparison of a proposal with its target (src/mcp/proposeChanges.ts)*)
(* and the manual-publishing sheet made from it (src/mcp/manualPublish.ts).*)
(* A difference is a <<field, language>> pair, the language None outside   *)
(* the texts that are compared language by language.                       *)
(***************************************************************************)
EXTENDS FieldFormat, FiniteSets

LocalizedFields == {"names", "summaries", "descriptions"}
CodeListFields == {"serviceClasses", "ontologyTerms", "targetGroups"}

\* Classifications are compared as bags of their uri, or else their code.
CodeListKey(entries) ==
  LET Key(entry) == IF entry.uri # None THEN entry.uri ELSE entry.code
      Keys == Mapped(entries, Key)
  IN  [key \in ToSet(Keys) |-> Cardinality({i \in DOMAIN Keys : Keys[i] = key})]

Comparable(field, value) ==
  IF field = "serviceHours" THEN Mapped(OrDefault(value, << >>), CanonicalServiceHour) ELSE value

Differ(field, before, after) ==
  IF field \in CodeListFields THEN CodeListKey(before) # CodeListKey(after)
  ELSE Comparable(field, before) # Comparable(field, after)

DiffLocalizedField(field, before, after) ==
  LET given(text) == IF text = None THEN {} ELSE DOMAIN text
  IN  {<<field, l>> : l \in {m \in given(before) \cup given(after) :
         ~(m \in given(before) /\ m \in given(after) /\ before[m] = after[m])}}

\* Only the fields a proposal changes are compared.
DiffFields(current, changes) ==
  UNION {IF field \in LocalizedFields
           THEN DiffLocalizedField(field, current[field], changes[field])
           ELSE IF Differ(field, current[field], changes[field]) THEN {<<field, None>>} ELSE {} :
         field \in DOMAIN changes}

-----------------------------------------------------------------------------
(* The sheet: each difference with the value to enter. *)

\* Stated in the steps instead of as fields.
StepFields == {"channelType", "organizationId", "parentOrganizationId", "id"}

SheetField(entry, changes) ==
  LET field == entry[1]
      l == entry[2]
  IN  [field |-> field, language |-> l,
       after |-> IF field \notin LocalizedFields THEN FormatValue(field, changes[field])
                 ELSE IF changes[field] # None /\ l \in DOMAIN changes[field]
                        THEN FormatValue(field, changes[field][l]) ELSE Empty]

BuildManualPublishSheet(diff, changes) ==
  {SheetField(entry, changes) : entry \in {e \in diff : e[1] \notin StepFields}}
=============================================================================
