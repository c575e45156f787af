---------------------------- MODULE MCPtvWrites ----------------------------
(* One item of each kind, whose lists hold an entry of the domain model and *)
(* one it does not carry, changes of one field or of two that depend on     *)
(* each other, and new items of each kind.                                  *)
EXTENDS PtvWrites

Fi(text) == {<<"fi", text>>}
Both(text) == {<<"fi", text>>, <<"sv", text>>}

MCInherited ==
  [f \in Classifications |->
     CASE f = "serviceClasses" -> {"shared", "brought"}
       [] f = "targetGroups" -> {"KR2", "KR2.3"}
       [] OTHER -> {}]

BaseItem(k) ==
  [f \in DOMAIN EmptyItem(k) |->
     CASE f = "nameList" -> TextToItems(Both("old"), "Name")
                              \cup TextToItems(Fi("other"), "AlternativeName")
       [] f = "descriptionList" ->
            TextToItems(Both("old"), "Summary") \cup TextToItems(Both("old"), "Description")
              \cup (IF k = "Organization" THEN {} ELSE TextToItems(Fi("ask"), "UserInstruction"))
       [] f = "languages" -> {"fi", "sv"}
       [] f = "publishingStatus" -> {"Published"}
       [] f = "type" -> {"Service"}
       [] f \in {"generalDescriptionId", "displayNameType", "signatureQuantity"} -> {}
       [] f = "urls" -> Both("old")
       [] f \in {"requiresSignature", "requiresAuthentication"} -> {"no"}
       [] f = "targetGroups" -> {"KR2", "KR2.3"}
       [] f = "phoneNumbers" -> IF k = "ServiceLocation" THEN {<<"Phone", "1">>, <<"Fax", "2">>}
                                                        ELSE {<<"Phone", "1">>}
       [] OTHER -> {"old"}]

MCItems ==
  [k \in Kinds |->
     IF k = "Service"
       THEN {BaseItem(k),
             ("generalDescriptionId" :> {"gd"}) @@ ("serviceClasses" :> {"shared"})
               @@ ("targetGroups" :> {"old"}) @@ ("industrialClasses" :> {}) @@ BaseItem(k),
             ("publishingStatus" :> {"Draft"}) @@ BaseItem(k)}
     ELSE IF k = "WebPage"
       THEN {BaseItem(k),
             ("descriptionList" :> TextToItems(Both("old"), "Description")) @@ BaseItem(k)}
       ELSE {BaseItem(k)}]

One(fields, values) == {f :> v : f \in fields, v \in values}

MCChanges ==
  [k \in Kinds |->
     One({"names"}, {Both("new")}) \cup One({"summaries"}, {Fi("new")})
     \cup One({"descriptions"}, {Both("new"), {}})
     \cup One({"publishingStatus"}, {{"Draft"}, {"Published"}, {"Deleted"}})
     \cup CASE k = "Service" ->
                 One({"serviceClasses"}, {{"new"}, {"brought"}, {"brought", "new"}})
                 \cup One({"lifeEvents", "industrialClasses"}, {{"new"}, {}})
                 \cup One({"generalDescriptionId"}, {{"gd"}, {}})
                 \cup One({"type"}, {{"PermitOrObligation"}})
                 \cup One({"serviceChannelIds"}, {{"ch1"}, {"ch1", "ch2"}, {}})
                 \cup {("generalDescriptionId" :> {}) @@ ("ontologyTerms" :> {"new"}),
                       ("generalDescriptionId" :> {}) @@ ("serviceClasses" :> {"brought", "new"}),
                       ("generalDescriptionId" :> {"gd"}) @@ ("serviceClasses" :> {"brought", "new"}),
                       ("names" :> Fi("new")) @@ ("serviceChannelIds" :> {"ch2"})}
            [] k = "Organization" ->
                 One({"alternativeNames"}, {Both("new"), {}})
                 \cup One({"emails", "phoneNumbers"}, {{<<"Phone", "3">>}, {}})
                 \cup One({"businessCode"}, {{"1"}})
                 \cup {("alternativeNameShownIn" :> {"fi", "sv"}) @@
                         ("alternativeNames" :> Both("new")),
                       ("alternativeNameShownIn" :> {"sv"}) @@
                         ("alternativeNames" :> Both("new")) @@ ("names" :> Fi("new"))}
            [] OTHER ->
                 One({"languages"}, {{"fi"}})
                 \cup One(FlaggedLists(k), {{"new"}, {}})
                 \cup One(WholeLists(k), {Both("new"), {}})
                 \cup One({"phoneNumbers"} \cap ChannelTypeFields(k),
                          {{<<"Phone", "3">>}, {<<"Fax", "3">>}, {}})
                 \cup One({"requiresAuthentication"}, {{"yes"}})
                 \cup One({"signatureQuantity"}, {{2}})
                 \cup {("requiresSignature" :> {"yes"}) @@ ("signatureQuantity" :> {2}),
                       ("names" :> Fi("new")) @@ ("languages" :> {"fi"})}]

NewItem(k) ==
  [f \in DOMAIN DomainOf(k, EmptyItem(k)) \ {"displayNameType", "requiresSignature",
                                            "signatureQuantity", "accessibility"} |->
     CASE f \in {"names", "summaries", "descriptions", "urls"} -> Both("new")
       [] f = "alternativeNames" -> Fi("new")
       [] f \in {"languages", "alternativeNameShownIn"} -> {"fi"}
       [] f = "publishingStatus" -> {"Draft"}
       [] f = "type" -> {"Service"}
       [] f \in {"generalDescriptionId", "industrialClasses"} -> {}
       [] f = "phoneNumbers" -> IF k = "ServiceLocation" THEN {<<"Phone", "1">>, <<"Fax", "2">>}
                                                        ELSE {<<"Phone", "1">>}
       [] f = "isVisibleForAll" -> {"no"}
       [] f = "requiresAuthentication" -> {"yes"}
       [] OTHER -> {"new"}]

Without(new, field) == [f \in DOMAIN new \ {field} |-> new[f]]

MCNewItems ==
  [k \in Kinds |->
     {NewItem(k), ("summaries" :> Fi("new")) @@ NewItem(k)}
       \cup {Without(NewItem(k), f) : f \in DOMAIN NewItem(k)}]

Detail(phones) ==
  [f \in DetailFields |->
     CASE f = "description" -> TextToItems(Fi("old"), "Description")
       [] f = "phoneNumbers" -> phones
       [] f = "emails" -> {}
       [] OTHER -> {"old"}]

MCConnections == {("ch1" :> Detail({<<"Phone", "1">>, <<"Fax", "2">>}))
                    @@ ("ch2" :> Detail({<<"Phone", "1">>}))}

MCDetails ==
  {[channel |-> ch, details |-> d] : ch \in {"ch1", "ch2"},
     d \in {"emails" :> {"new"}, "descriptions" :> {}, "phoneNumbers" :> {<<"Fax", "3">>}}}

MCEdits ==
  [k \in Kinds |-> {IF k = "Organization" THEN "businessCode" :> {"2"}
                                           ELSE "languages" :> {"fi", "sv", "en"}}]

MCArea == {<<"County", 1>>, <<"Municipality", 2>>}

T == INSTANCE TLC
AnyCall == T!Permutations(Call)
=============================================================================
