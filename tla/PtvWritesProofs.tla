--------------------------- MODULE PtvWritesProofs ---------------------------
(***************************************************************************)
(* What PtvWrites guarantees for every set of applies, every item, change, *)
(* connection and edit, and any number of failures.                        *)
(*                                                                         *)
(* First what concerns the steps of an apply: a connection keeps its extra *)
(* info through the PUTs of others, a connection change leaves exactly the *)
(* merged details, and PTV refuses no change that was found valid for      *)
(* something it requires.  Then what concerns the item, kind by kind and   *)
(* field by field: an update keeps what it does not touch, the same update *)
(* twice is the update once, and what PTV holds after an update or a       *)
(* creation is what was approved.                                          *)
(***************************************************************************)
EXTENDS PtvWrites, TLAPS

-----------------------------------------------------------------------------
(* Objects.                                                                 *)

LEMMA Spread ==
  ASSUME NEW f, NEW g
  PROVE  /\ DOMAIN (f @@ g) = DOMAIN f \cup DOMAIN g
         /\ \A x \in DOMAIN f : (f @@ g)[x] = f[x]
         /\ \A x \in DOMAIN g \ DOMAIN f : (f @@ g)[x] = g[x]
  BY DEF @@

LEMMA Single ==
  ASSUME NEW x, NEW v
  PROVE  DOMAIN (x :> v) = {x} /\ (x :> v)[x] = v
  BY DEF :>

LEMMA Optional ==
  ASSUME NEW b \in BOOLEAN, NEW x, NEW v
  PROVE  /\ DOMAIN OnlyIf(b, x :> v) \subseteq {x}
         /\ b => DOMAIN OnlyIf(b, x :> v) = {x} /\ OnlyIf(b, x :> v)[x] = v
         /\ ~b => DOMAIN OnlyIf(b, x :> v) = {}
  <1>1. DOMAIN << >> = {}
    OBVIOUS
  <1>2. b => OnlyIf(b, x :> v) = (x :> v)
    BY DEF OnlyIf
  <1>3. ~b => OnlyIf(b, x :> v) = << >>
    BY DEF OnlyIf
  <1> QED
    BY <1>1, <1>2, <1>3, Single

-----------------------------------------------------------------------------
(* A connection's details, and what its PUT makes of them.                  *)

\* A text that is sent is the one read back, whatever goes with it in the list.
LEMMA TextsReadBack ==
  ASSUME NEW text, IsText(text), NEW other, NEW t, NEW s, t # s
  PROVE  ItemsOfType(TextToItems(text, t) \cup TextToItems(other, s), t) = text
  <1> DEFINE both == TextToItems(text, t) \cup TextToItems(other, s)
  <1>1. \A i \in both : i[1] = t <=> \E x \in text : i = <<t, x[1], x[2]>>
    BY DEF TextToItems
  <1>2. ItemsOfType(both, t) = {<<i[2], i[3]>> : i \in {j \in both : j[1] = t}}
    BY DEF ItemsOfType
  <1>3. ASSUME NEW x \in text PROVE x \in ItemsOfType(both, t)
    <2>1. <<t, x[1], x[2]>> \in both
      BY DEF TextToItems
    <2>2. x = <<x[1], x[2]>>
      BY DEF IsText
    <2> DEFINE i == <<t, x[1], x[2]>>
    <2>3. i \in {j \in both : j[1] = t} /\ i[2] = x[1] /\ i[3] = x[2]
      BY <2>1
    <2> HIDE DEF i
    <2> QED
      BY <1>2, <2>2, <2>3
  <1>4. ASSUME NEW y \in ItemsOfType(both, t) PROVE y \in text
    <2>1. PICK i \in both : i[1] = t /\ y = <<i[2], i[3]>>
      BY <1>2
    <2>2. PICK x \in text : i = <<t, x[1], x[2]>>
      BY <1>1, <2>1
    <2>3. y = <<x[1], x[2]>> /\ x = <<x[1], x[2]>>
      BY <2>1, <2>2 DEF IsText
    <2> QED
      BY <2>3
  <1> QED
    BY <1>3, <1>4

LEMMA ItemsAreText ==
  ASSUME NEW items, NEW t PROVE IsText(ItemsOfType(items, t))
  BY DEF IsText, ItemsOfType

\* What PTV makes of the numbers: those sent, or those it had.
LEMMA PhonesPut ==
  ASSUME NEW phones, PlainPhones(phones), NEW body, 
         "faxNumbers" \in DOMAIN body.set => PlainPhones(body.set.faxNumbers)
  PROVE  PlainPhones(PutPhones(phones, body, FALSE))
  BY DEF PlainPhones, PutPhones, Faxes

InBase == ServiceServiceChannelInBase
Contacts == DetailFields \cup {"faxNumbers"}

LEMMA SchemaTakes == InBase.takes = Contacts /\ InBase.clears = Contacts /\ InBase.typed = FALSE
  BY DEF InBase, ServiceServiceChannelInBase, ContactDetailsInBase, Contacts, DetailFields

\* A PUT of one connection, field by field.
PutOne(stored, sent) == Put(stored, sent, InBase)
FieldByField(stored, sent) ==
  LET after == PutOne(stored, sent)
      body == Accepted(sent, InBase) IN
  /\ DOMAIN after = DetailFields
  /\ \A f \in DetailFields \ {"phoneNumbers"} :
       after[f] = IF f \in sent.clear THEN {}
                  ELSE IF f \in DOMAIN sent.set /\ sent.set[f] # {} THEN sent.set[f]
                  ELSE stored[f]
  /\ after.phoneNumbers = PutPhones(stored.phoneNumbers, body, FALSE)
  /\ body.clear = sent.clear /\ DOMAIN body.set = DOMAIN sent.set
  /\ \A f \in DOMAIN sent.set : body.set[f] = sent.set[f]

LEMMA ConnectionPut ==
  ASSUME NEW stored, DOMAIN stored = DetailFields, NEW sent,
         DOMAIN sent.set \subseteq Contacts, sent.clear \subseteq Contacts
  PROVE  FieldByField(stored, sent)
  <1> DEFINE body == Accepted(sent, InBase)
  <1>1. /\ body.clear = sent.clear /\ DOMAIN body.set = DOMAIN sent.set
        /\ \A f \in DOMAIN sent.set : body.set[f] = sent.set[f]
    BY SchemaTakes DEF Accepted
  <1>2. \A f \in DetailFields : f \notin Scalars
    BY DEF DetailFields, Scalars
  <1> HIDE DEF body
  <1>3. Put(stored, sent, InBase) =
          [f \in DOMAIN stored |->
             CASE f = "phoneNumbers" -> PutPhones(stored[f], body, InBase.typed)
               [] f # "phoneNumbers" /\ f \in body.clear -> {}
               [] f \notin body.clear \cup {"phoneNumbers"} /\ f \in DOMAIN body.set
                    /\ (f \in Scalars \/ body.set[f] # {}) -> body.set[f]
               [] OTHER -> stored[f]]
    BY DEF Put, body
  <1> DEFINE after == Put(stored, sent, InBase)
  <1>4. DOMAIN after = DetailFields
    BY <1>3
  <1>5. after.phoneNumbers = PutPhones(stored.phoneNumbers, body, FALSE)
    BY <1>3, SchemaTakes DEF DetailFields
  <1>6. ASSUME NEW f \in DetailFields \ {"phoneNumbers"}
        PROVE  after[f] = IF f \in sent.clear THEN {}
                          ELSE IF f \in DOMAIN sent.set /\ sent.set[f] # {} THEN sent.set[f]
                          ELSE stored[f]
    BY <1>1, <1>2, <1>3
  <1> HIDE DEF after
  <1> QED
    BY <1>1, <1>4, <1>5, <1>6 DEF after, body, FieldByField, PutOne

LEMMA NothingHeld == IsDetails(NoDetails) /\ \A f \in DetailFields : NoDetails[f] = {}
  BY DEF IsDetails, NoDetails, DetailFields, PlainPhones

\* A connection that is sent again as it was read is not changed, but for its
\* faxes, which are phone numbers now.
LEMMA ResentIsKept ==
  ASSUME NEW details, IsDetails(details)
  PROVE  LET after == PutOne(NoDetails, RelationToWrite(details)) IN
         /\ IsDetails(after)
         /\ \A f \in DetailFields \ {"phoneNumbers"} : after[f] = details[f]
         /\ Numbers(after.phoneNumbers) = Numbers(details.phoneNumbers)
  <1> DEFINE sent == RelationToWrite(details)
             body == Accepted(sent, InBase)
             after == PutOne(NoDetails, sent)
  <1>1. /\ DOMAIN sent.set = {g \in DetailFields : details[g] # {}} /\ sent.clear = {}
        /\ \A f \in DOMAIN sent.set : sent.set[f] = details[f]
    BY DEF RelationToWrite
  <1>2. DOMAIN details = DetailFields /\ PlainPhones(details.phoneNumbers)
    BY DEF IsDetails
  <1>3. "phoneNumbers" \in DetailFields /\ "faxNumbers" \notin DetailFields
        /\ DetailFields \subseteq Contacts
    BY DEF DetailFields, Contacts
  <1> HIDE DEF sent
  <1>4. /\ DOMAIN after = DetailFields
        /\ \A f \in DetailFields \ {"phoneNumbers"} :
             after[f] = IF f \in sent.clear THEN {}
                        ELSE IF f \in DOMAIN sent.set /\ sent.set[f] # {} THEN sent.set[f]
                        ELSE NoDetails[f]
        /\ after.phoneNumbers = PutPhones(NoDetails.phoneNumbers, body, FALSE)
        /\ body.clear = sent.clear /\ DOMAIN body.set = DOMAIN sent.set
        /\ \A f \in DOMAIN sent.set : body.set[f] = sent.set[f]
    <2>1. DOMAIN sent.set \subseteq Contacts /\ sent.clear \subseteq Contacts
      BY <1>1, <1>3
    <2>2. DOMAIN NoDetails = DetailFields
      BY NothingHeld DEF IsDetails
    <2> QED
      BY <2>1, <2>2, ConnectionPut, Zenon DEF FieldByField
  <1> HIDE DEF body, after
  <1>5. \A f \in DetailFields \ {"phoneNumbers"} : after[f] = details[f]
    BY <1>1, <1>4, NothingHeld
  <1>6. /\ body.clear = {} /\ "faxNumbers" \notin DOMAIN body.set
        /\ "phoneNumbers" \in DOMAIN body.set <=> details.phoneNumbers # {}
        /\ "phoneNumbers" \in DOMAIN body.set => body.set.phoneNumbers = details.phoneNumbers
    BY <1>1, <1>3, <1>4
  <1>7. after.phoneNumbers = {<<"Phone", q[2]>> : q \in details.phoneNumbers}
    <2>1. NoDetails.phoneNumbers = {}
      BY <1>3, NothingHeld
    <2> QED
      BY <1>4, <1>6, <2>1 DEF PutPhones, Faxes
  <1>8. PlainPhones(after.phoneNumbers)
    BY <1>7 DEF PlainPhones
  <1>9. Numbers(after.phoneNumbers) = Numbers(details.phoneNumbers)
    <2>1. \A q \in details.phoneNumbers : <<"Phone", q[2]>>[2] = q[2]
      OBVIOUS
    <2>2. \A n \in Numbers(after.phoneNumbers) : n \in Numbers(details.phoneNumbers)
      BY <1>7, <2>1 DEF Numbers
    <2>3. ASSUME NEW q \in details.phoneNumbers PROVE q[2] \in Numbers(after.phoneNumbers)
      <3>1. <<"Phone", q[2]>> \in after.phoneNumbers
        BY <1>7
      <3> QED
        BY <2>1, <3>1 DEF Numbers
    <2> QED
      BY <2>2, <2>3 DEF Numbers
  <1> QED
    BY <1>4, <1>5, <1>8, <1>9 DEF IsDetails, after, sent

\* The fields of extra info as the domain model has them, and as they are sent.
IsInfo(info) ==
  /\ info = [f \in CONNECTION_DETAIL_FIELDS |-> info[f]]
  /\ IsText(info.descriptions) /\ IsText(info.chargeDescriptions)
  /\ PlainPhones(info.phoneNumbers)

InfoWire(info) ==
  [f \in Contacts |->
     CASE f = "serviceChargeType" -> info.chargeType
       [] f = "description" ->
            TextToItems(info.descriptions, "Description")
              \cup TextToItems(info.chargeDescriptions, "ChargeTypeAdditionalInfo")
       [] f = "phoneNumbers" -> info.phoneNumbers \ Faxes(info.phoneNumbers)
       [] f = "faxNumbers" -> Faxes(info.phoneNumbers)
       [] OTHER -> info[f]]

LEMMA InfoIsSent ==
  ASSUME NEW info
  PROVE  LET wire == InfoWire(info)
             sent == ConnectionDetailsToWire(info) IN
         /\ DOMAIN wire = Contacts
         /\ DOMAIN sent.set = {f \in Contacts : wire[f] # {}}
         /\ sent.clear = {f \in Contacts : wire[f] = {}}
         /\ \A f \in DOMAIN sent.set : sent.set[f] = wire[f]
  <1>1. ConnectionDetailsToWire(info) =
          [set |-> [f \in {g \in DOMAIN InfoWire(info) : InfoWire(info)[g] # {}} |-> InfoWire(info)[f]],
           clear |-> {g \in DOMAIN InfoWire(info) : InfoWire(info)[g] = {}}]
    BY Zenon DEF ConnectionDetailsToWire, InfoWire, Contacts
  <1>2. DOMAIN InfoWire(info) = Contacts
    BY DEF InfoWire
  <1> QED
    BY <1>1, <1>2

\* A connection change leaves exactly the details that were sent.
LEMMA SentIsReadBack ==
  ASSUME NEW stored, IsDetails(stored), NEW info, IsInfo(info)
  PROVE  LET after == PutOne(stored, ConnectionDetailsToWire(info)) IN
         /\ IsDetails(after)
         /\ ConnectionDetailsToDomain(after) = info
  <1> DEFINE wire == InfoWire(info)
             sent == ConnectionDetailsToWire(info)
             body == Accepted(sent, InBase)
             after == PutOne(stored, sent)
             phones == info.phoneNumbers
  <1>1. /\ DOMAIN sent.set = {f \in Contacts : wire[f] # {}}
        /\ sent.clear = {f \in Contacts : wire[f] = {}}
        /\ \A f \in DOMAIN sent.set : sent.set[f] = wire[f]
    BY InfoIsSent, Zenon
  <1>2. /\ wire["serviceChargeType"] = info.chargeType
        /\ wire["description"] = TextToItems(info.descriptions, "Description")
                                   \cup TextToItems(info.chargeDescriptions, "ChargeTypeAdditionalInfo")
        /\ wire["phoneNumbers"] = phones \ Faxes(phones)
        /\ wire["faxNumbers"] = Faxes(phones)
        /\ \A f \in {"serviceHours", "emails", "webPages", "addresses"} : wire[f] = info[f]
    BY DEF InfoWire, Contacts, DetailFields
  <1>3. DOMAIN stored = DetailFields
    BY DEF IsDetails
  <1>4. DetailFields \subseteq Contacts /\ "faxNumbers" \in Contacts
    BY DEF DetailFields, Contacts
  <1> HIDE DEF sent, wire
  <1>5. /\ DOMAIN after = DetailFields
        /\ \A f \in DetailFields \ {"phoneNumbers"} :
             after[f] = IF f \in sent.clear THEN {}
                        ELSE IF f \in DOMAIN sent.set /\ sent.set[f] # {} THEN sent.set[f]
                        ELSE stored[f]
        /\ after.phoneNumbers = PutPhones(stored.phoneNumbers, body, FALSE)
        /\ body.clear = sent.clear /\ DOMAIN body.set = DOMAIN sent.set
        /\ \A f \in DOMAIN sent.set : body.set[f] = sent.set[f]
    <2>1. DOMAIN sent.set \subseteq Contacts /\ sent.clear \subseteq Contacts
      BY <1>1
    <2> QED
      BY <1>3, <2>1, ConnectionPut, Zenon DEF FieldByField
  <1> HIDE DEF body, after
  <1>6. \A f \in DetailFields \ {"phoneNumbers"} : after[f] = wire[f]
    BY <1>1, <1>4, <1>5
  <1>7. after.phoneNumbers = phones
    <2>1. /\ "phoneNumbers" \in body.clear <=> phones \ Faxes(phones) = {}
          /\ "phoneNumbers" \in DOMAIN body.set <=> phones \ Faxes(phones) # {}
          /\ phones \ Faxes(phones) # {} => body.set.phoneNumbers = phones \ Faxes(phones)
          /\ "faxNumbers" \in body.clear <=> Faxes(phones) = {}
          /\ "faxNumbers" \in DOMAIN body.set <=> Faxes(phones) # {}
          /\ Faxes(phones) # {} => body.set.faxNumbers = Faxes(phones)
      BY <1>1, <1>2, <1>4, <1>5 DEF DetailFields
    <2>2. after.phoneNumbers = {<<"Phone", p[2]>> : p \in phones \ Faxes(phones)} \cup Faxes(phones)
      BY <1>5, <2>1 DEF PutPhones
    <2>3. \A p \in phones : p = <<p[1], p[2]>> /\ p[1] \in {"Phone", "Fax"}
      BY DEF IsInfo, PlainPhones
    <2>4. \A p \in phones \ Faxes(phones) : p = <<"Phone", p[2]>>
      BY <2>3 DEF Faxes
    <2> QED
      BY <2>2, <2>4 DEF Faxes
  <1>8. IsDetails(after)
    BY <1>5, <1>7 DEF IsDetails, IsInfo
  <1>9. /\ ItemsOfType(after.description, "Description") = info.descriptions
        /\ ItemsOfType(after.description, "ChargeTypeAdditionalInfo") = info.chargeDescriptions
    <2>1. after.description = TextToItems(info.descriptions, "Description")
                                \cup TextToItems(info.chargeDescriptions, "ChargeTypeAdditionalInfo")
      BY <1>2, <1>6 DEF DetailFields
    <2>2. after.description = TextToItems(info.chargeDescriptions, "ChargeTypeAdditionalInfo")
                                \cup TextToItems(info.descriptions, "Description")
      BY <2>1
    <2>3. IsText(info.descriptions) /\ IsText(info.chargeDescriptions)
      BY DEF IsInfo
    <2> QED
      BY <2>1, <2>2, <2>3, TextsReadBack
  <1>10. ConnectionDetailsToDomain(after) = [f \in CONNECTION_DETAIL_FIELDS |-> info[f]]
    <2>1. (DetailFields \ {"serviceChargeType", "description"})
             \cup {"chargeType", "descriptions", "chargeDescriptions"} = CONNECTION_DETAIL_FIELDS
      BY DEF DetailFields, CONNECTION_DETAIL_FIELDS
    <2>2. /\ after.serviceChargeType = info.chargeType
          /\ \A f \in {"serviceHours", "emails", "webPages", "addresses"} : after[f] = info[f]
      BY <1>2, <1>6 DEF DetailFields
    <2> QED
      BY <1>7, <1>9, <2>1, <2>2 DEF ConnectionDetailsToDomain, CONNECTION_DETAIL_FIELDS
  <1> QED
    BY <1>8, <1>10 DEF IsInfo, after, sent

-----------------------------------------------------------------------------
(* A call's record, and what each step makes of it.                         *)

Rec(S) ==
  [pc : S, what : S, changes : S, seen : S, wire : S, uris : S, relations : S, before : S,
   alone : S, refusal : S]

\* Its values may be any.
Shaped == \E S : call \in [Call -> Rec(S)]

\* Call c gets the record q; the others keep theirs, or are not alone any more.
Gets(c, q) ==
  /\ call'[c] = q
  /\ \A d \in Call \ {c} : call'[d] = call[d] \/ call'[d] = [call[d] EXCEPT !.alone = FALSE]

LEMMA IdleShaped == \E S : Idle \in Rec(S)
  <1> DEFINE S == {"idle", "none", Nothing, {}, FALSE}
  <1>1. Idle \in Rec(S)
    BY DEF Idle, Rec
  <1> QED
    BY <1>1

LEMMA OneGets ==
  ASSUME Shaped, NEW c \in Call, NEW q, \E S : q \in Rec(S), call' = [call EXCEPT ![c] = q]
  PROVE  Shaped' /\ Gets(c, q)
  <1>1. PICK S : call \in [Call -> Rec(S)]
    BY DEF Shaped
  <1>2. PICK T : q \in Rec(T)
    OBVIOUS
  <1>3. call \in [Call -> Rec(S \cup T)] /\ q \in Rec(S \cup T)
    BY <1>1, <1>2 DEF Rec
  <1>4. call' \in [Call -> Rec(S \cup T)] /\ call'[c] = q
        /\ \A d \in Call \ {c} : call'[d] = call[d]
    <2> HIDE DEF Rec
    <2> QED
      BY <1>3
  <1> QED
    BY <1>4 DEF Shaped, Gets

\* The record of a call that is not the only one to write any more.
LEMMA Disturbed ==
  ASSUME Shaped, NEW d \in Call
  PROVE  LET q == [call[d] EXCEPT !.alone = FALSE] IN
         /\ \A S : FALSE \in S /\ call[d] \in Rec(S) => q \in Rec(S)
         /\ q.pc = call[d].pc /\ q.what = call[d].what /\ q.changes = call[d].changes
         /\ q.seen = call[d].seen /\ q.wire = call[d].wire /\ q.relations = call[d].relations
         /\ q.before = call[d].before /\ q.refusal = call[d].refusal
         /\ q.alone = FALSE /\ q.uris = call[d].uris
  <1>1. PICK S : call[d] \in Rec(S)
    BY DEF Shaped
  <1> QED
    BY <1>1 DEF Rec

\* The others are not alone with the item any more.
Others(c) == \A d \in Call \ {c} : call'[d] = [call[d] EXCEPT !.alone = FALSE]

LEMMA DisturbsGets ==
  ASSUME Shaped, NEW c \in Call, NEW pc, call' = [Disturbs(c) EXCEPT ![c].pc = pc]
  PROVE  Shaped' /\ Gets(c, [call[c] EXCEPT !.pc = pc]) /\ Others(c)
  <1>1. PICK S : call \in [Call -> Rec(S)]
    BY DEF Shaped
  <1> DEFINE T == S \cup {FALSE, pc}
             q == [call[c] EXCEPT !.pc = pc]
  <1>2. call \in [Call -> Rec(T)] /\ q \in Rec(T)
    BY <1>1 DEF Rec
  <1>3. Disturbs(c) \in [Call -> Rec(T)] /\ Disturbs(c)[c] = call[c]
        /\ \A d \in Call \ {c} : Disturbs(c)[d] = [call[d] EXCEPT !.alone = FALSE]
    <2>1. \A d \in Call : [call[d] EXCEPT !.alone = FALSE] \in Rec(T)
      BY <1>2, Disturbed
    <2> HIDE DEF Rec, T
    <2> QED
      BY <1>2, <2>1 DEF Disturbs
  <1>4. call' = [Disturbs(c) EXCEPT ![c] = q]
    BY <1>3
  <1> HIDE DEF Rec, T, q
  <1>5. call' \in [Call -> Rec(T)] /\ call'[c] = q
        /\ \A d \in Call \ {c} : call'[d] = [call[d] EXCEPT !.alone = FALSE]
    BY <1>2, <1>3, <1>4
  <1> QED
    BY <1>5 DEF Shaped, Gets, Others, q

LEMMA NobodyGets ==
  ASSUME Shaped, call' = NobodyIsAlone
  PROVE  Shaped' /\ \A d \in Call : call'[d] = [call[d] EXCEPT !.alone = FALSE]
  <1>1. PICK S : call \in [Call -> Rec(S)]
    BY DEF Shaped
  <1> DEFINE T == S \cup {FALSE}
  <1>2. \A d \in Call : [call[d] EXCEPT !.alone = FALSE] \in Rec(T)
    <2>1. \A d \in Call : call[d] \in Rec(T)
      BY <1>1 DEF Rec
    <2> QED
      BY <2>1, Disturbed
  <1> HIDE DEF Rec, T
  <1>3. call' \in [Call -> Rec(T)] /\ \A d \in Call : call'[d] = [call[d] EXCEPT !.alone = FALSE]
    BY <1>2 DEF NobodyIsAlone
  <1> QED
    BY <1>3 DEF Shaped

\* A record that changes in one field, or in those that say how far it is.
LEMMA MovesTo ==
  ASSUME Shaped, NEW c \in Call, NEW pc
  PROVE  LET q == [call[c] EXCEPT !.pc = pc] IN
         /\ \E S : q \in Rec(S)
         /\ q.pc = pc /\ q.what = call[c].what /\ q.changes = call[c].changes
         /\ q.seen = call[c].seen /\ q.wire = call[c].wire /\ q.relations = call[c].relations
         /\ q.before = call[c].before /\ q.alone = call[c].alone /\ q.refusal = call[c].refusal
         /\ q.uris = call[c].uris
  <1>1. PICK S : call[c] \in Rec(S)
    BY DEF Shaped
  <1> DEFINE q == [call[c] EXCEPT !.pc = pc]
  <1>2. q \in Rec(S \cup {pc})
    BY <1>1 DEF Rec
  <1>3. /\ q.pc = pc /\ q.what = call[c].what /\ q.changes = call[c].changes
        /\ q.seen = call[c].seen /\ q.wire = call[c].wire /\ q.relations = call[c].relations
        /\ q.before = call[c].before /\ q.alone = call[c].alone /\ q.refusal = call[c].refusal
        /\ q.uris = call[c].uris
    BY <1>1 DEF Rec
  <1> QED
    BY <1>2, <1>3

LEMMA Ends ==
  ASSUME Shaped, NEW c \in Call, NEW pc, call' = End(c, pc)
  PROVE  Shaped' /\ Gets(c, [call[c] EXCEPT !.pc = pc])
  <1>1. PICK S : call \in [Call -> Rec(S)]
    BY DEF Shaped
  <1>2. call' = [call EXCEPT ![c] = [call[c] EXCEPT !.pc = pc]]
    BY <1>1 DEF End
  <1> QED
    BY <1>2, MovesTo, OneGets

\* What is the same in the record q of a call as in r.
Alike(q, r) == q.what = r.what /\ q.changes = r.changes
Kept(q, r)  ==
  /\ Alike(q, r) /\ q.relations = r.relations /\ q.before = r.before
  /\ q.wire = r.wire /\ q.uris = r.uris

LEMMA RefusedIs ==
  ASSUME Shaped, NEW c \in Call, NEW why,
         call' = [call EXCEPT ![c].pc = "failed", ![c].refusal = why]
  PROVE  Shaped' /\ \E q : /\ Gets(c, q) /\ q.pc = "failed" /\ q.refusal = why
                           /\ Kept(q, call[c]) /\ q.alone = call[c].alone
  <1>1. PICK S : call \in [Call -> Rec(S)]
    BY DEF Shaped
  <1> DEFINE q == [call[c] EXCEPT !.pc = "failed", !.refusal = why]
  <1>2. q \in Rec(S \cup {"failed", why})
    BY <1>1 DEF Rec
  <1>3. call' = [call EXCEPT ![c] = q]
    BY <1>1
  <1>4. /\ q.pc = "failed" /\ q.refusal = why
        /\ Kept(q, call[c]) /\ q.alone = call[c].alone
    BY <1>1 DEF Rec, Kept, Alike
  <1> HIDE DEF q
  <1> QED
    BY <1>2, <1>3, <1>4, OneGets

MarkValidated(c, seen) ==
  call' = [call EXCEPT ![c].pc = "validated", ![c].seen = seen, ![c].alone = TRUE]

ValidatedAs(c, q, seen) ==
  /\ Gets(c, q) /\ q.pc = "validated" /\ q.seen = seen /\ q.alone = TRUE
  /\ Kept(q, call[c]) /\ q.refusal = call[c].refusal

LEMMA ValidatedIs ==
  ASSUME Shaped, NEW c \in Call, NEW seen, MarkValidated(c, seen)
  PROVE  Shaped' /\ \E q : ValidatedAs(c, q, seen)
  <1>1. PICK S : call \in [Call -> Rec(S)]
    BY DEF Shaped
  <1> DEFINE q == [call[c] EXCEPT !.pc = "validated", !.seen = seen, !.alone = TRUE]
  <1>2. q \in Rec(S \cup {"validated", seen, TRUE})
    BY <1>1 DEF Rec
  <1>3. call' = [call EXCEPT ![c] = q]
    BY <1>1 DEF MarkValidated
  <1>4. /\ q.pc = "validated" /\ q.seen = seen /\ q.alone = TRUE
        /\ Kept(q, call[c]) /\ q.refusal = call[c].refusal
    BY <1>1 DEF Rec, Kept, Alike
  <1> HIDE DEF q
  <1> QED
    BY <1>2, <1>3, <1>4, OneGets DEF ValidatedAs

LEMMA DetailsValidatedIs ==
  ASSUME Shaped, NEW c \in Call,
         call' = [call EXCEPT ![c].pc = "validated", ![c].alone = TRUE]
  PROVE  Shaped' /\ \E q : /\ Gets(c, q) /\ q.pc = "validated" /\ q.alone = TRUE
                           /\ Kept(q, call[c]) /\ q.refusal = call[c].refusal
  <1>1. PICK S : call \in [Call -> Rec(S)]
    BY DEF Shaped
  <1> DEFINE q == [call[c] EXCEPT !.pc = "validated", !.alone = TRUE]
  <1>2. q \in Rec(S \cup {"validated", TRUE})
    BY <1>1 DEF Rec
  <1>3. call' = [call EXCEPT ![c] = q]
    BY <1>1
  <1>4. q.pc = "validated" /\ q.alone = TRUE /\ Kept(q, call[c]) /\ q.refusal = call[c].refusal
    BY <1>1 DEF Rec, Kept, Alike
  <1> HIDE DEF q
  <1> QED
    BY <1>2, <1>3, <1>4, OneGets

MarkRead(c, pc, wire) ==
  call' = [call EXCEPT ![c].pc = pc, ![c].wire = wire,
                       ![c].relations = connections, ![c].before = item]

LEMMA ReadIs ==
  ASSUME Shaped, NEW c \in Call, NEW pc, NEW wire, MarkRead(c, pc, wire)
  PROVE  Shaped' /\ \E q : /\ Gets(c, q) /\ q.pc = pc /\ q.wire = wire /\ q.before = item
                           /\ q.relations = connections /\ Alike(q, call[c])
                           /\ q.alone = call[c].alone /\ q.refusal = call[c].refusal
                           /\ q.seen = call[c].seen /\ q.uris = call[c].uris
  <1>1. PICK S : call \in [Call -> Rec(S)]
    BY DEF Shaped
  <1> DEFINE q == [call[c] EXCEPT !.pc = pc, !.wire = wire,
                                  !.relations = connections, !.before = item]
  <1>2. q \in Rec(S \cup {pc, wire, connections, item})
    BY <1>1 DEF Rec
  <1>3. call' = [call EXCEPT ![c] = q]
    BY <1>1 DEF MarkRead
  <1>4. /\ q.pc = pc /\ q.wire = wire /\ q.before = item
        /\ q.relations = connections /\ Alike(q, call[c])
        /\ q.alone = call[c].alone /\ q.refusal = call[c].refusal /\ q.seen = call[c].seen
        /\ q.uris = call[c].uris
    BY <1>1 DEF Rec, Alike
  <1> HIDE DEF q
  <1> QED
    BY <1>2, <1>3, <1>4, OneGets

MarkDescribed(c, pc, uris) == call' = [call EXCEPT ![c].pc = pc, ![c].uris = uris]

\* What is the same in a call that read, or did not read, the description.
DescribedAs(c, q, pc, uris) ==
  /\ Gets(c, q) /\ q.pc = pc /\ q.uris = uris /\ Alike(q, call[c])
  /\ q.relations = call[c].relations /\ q.before = call[c].before /\ q.wire = call[c].wire
  /\ q.alone = call[c].alone /\ q.refusal = call[c].refusal /\ q.seen = call[c].seen

LEMMA DescribedIs ==
  ASSUME Shaped, NEW c \in Call, NEW pc, NEW uris, MarkDescribed(c, pc, uris)
  PROVE  Shaped' /\ \E q : DescribedAs(c, q, pc, uris)
  <1>1. PICK S : call \in [Call -> Rec(S)]
    BY DEF Shaped
  <1> DEFINE q == [call[c] EXCEPT !.pc = pc, !.uris = uris]
  <1>2. q \in Rec(S \cup {pc, uris})
    BY <1>1 DEF Rec
  <1>3. call' = [call EXCEPT ![c] = q]
    BY <1>1 DEF MarkDescribed
  <1>4. /\ q.pc = pc /\ q.uris = uris /\ Alike(q, call[c])
        /\ q.relations = call[c].relations /\ q.before = call[c].before /\ q.wire = call[c].wire
        /\ q.alone = call[c].alone /\ q.refusal = call[c].refusal /\ q.seen = call[c].seen
    BY <1>1 DEF Rec, Alike
  <1> HIDE DEF q
  <1> QED
    BY <1>2, <1>3, <1>4, OneGets DEF DescribedAs

MarkConnecting(c) ==
  call' = [call EXCEPT ![c].pc = "connect", ![c].before = item, ![c].relations = connections]

ConnectingAs(c, q) ==
  /\ Gets(c, q) /\ q.pc = "connect" /\ q.before = item /\ q.relations = connections
  /\ Alike(q, call[c]) /\ q.alone = call[c].alone /\ q.refusal = call[c].refusal
  /\ q.uris = call[c].uris

LEMMA RelationsReadIs ==
  ASSUME Shaped, NEW c \in Call, MarkConnecting(c)
  PROVE  Shaped' /\ \E q : ConnectingAs(c, q)
  <1>1. PICK S : call \in [Call -> Rec(S)]
    BY DEF Shaped
  <1> DEFINE q == [call[c] EXCEPT !.pc = "connect", !.before = item, !.relations = connections]
  <1>2. q \in Rec(S \cup {"connect", connections, item})
    BY <1>1 DEF Rec
  <1>3. call' = [call EXCEPT ![c] = q]
    BY <1>1 DEF MarkConnecting
  <1>4. /\ q.pc = "connect" /\ q.before = item /\ q.relations = connections /\ Alike(q, call[c])
        /\ q.alone = call[c].alone /\ q.refusal = call[c].refusal /\ q.uris = call[c].uris
    BY <1>1 DEF Rec, Alike
  <1> HIDE DEF q
  <1> QED
    BY <1>2, <1>3, <1>4, OneGets DEF ConnectingAs

-----------------------------------------------------------------------------
(* The steps of a call, as what they make of its record.                    *)

Begin(c, q) ==
  /\ call[c].pc = "idle" /\ q.pc = "approved"
  /\ q.what \in {"update", "details", "create"}
  /\ q.what = "details" => kind = "Service" /\ q.changes \in Details
  /\ q.what = "update" => q.changes \in Changes[kind]
  /\ q.what = "create" => q.changes \in NewItems[kind]
  /\ q.before = Nothing /\ q.relations = Nothing /\ q.alone = FALSE /\ q.refusal = "none"
  /\ q.uris = {}
  /\ UNCHANGED <<item, published, connections>>

\* A call that ends before it has written anything.
Stop(c, q) ==
  /\ call[c].pc \in {"approved", "validated"} /\ q.pc \in {"failed", "invalid"}
  /\ Kept(q, call[c]) /\ q.alone = call[c].alone /\ q.refusal = call[c].refusal
  /\ UNCHANGED <<item, published, connections>>

ItemValidated(c, q) ==
  /\ call[c].pc = "approved" /\ call[c].what = "update" /\ q.pc = "validated" /\ q.alone = TRUE
  /\ Kept(q, call[c]) /\ q.refusal = call[c].refusal
  /\ \E view \in {Latest, Public} :
       /\ view # Nothing /\ q.seen = DomainOf(kind, view) /\ Supported(kind, q.changes)
       /\ LET kept == DOMAIN q.changes \ {"serviceChannelIds"} IN
          ValidUpdate(kind, Merge(q.seen, [f \in kept |-> q.changes[f]]), q.changes)
  /\ UNCHANGED <<item, published, connections>>

DetailsValidated(c, q) ==
  /\ call[c].pc = "approved" /\ call[c].what = "details" /\ q.pc = "validated" /\ q.alone = TRUE
  /\ Kept(q, call[c]) /\ q.refusal = call[c].refusal
  /\ UNCHANGED <<item, published, connections>>

\* Only a linked service's description is read.
ItemRead(c, q) ==
  /\ call[c].pc = "validated" /\ call[c].what = "update" /\ q.pc \in {"describe", "read"}
  /\ (kind = "Service" /\ q.pc = "read") => GeneralDescriptionUris(q.wire) = {}
  /\ q.wire \in {Latest, Public} \ {Nothing} /\ ~Locked(q.wire)
  /\ q.before = item /\ q.relations = connections
  /\ Alike(q, call[c]) /\ q.alone = call[c].alone /\ q.refusal = call[c].refusal
  /\ q.seen = call[c].seen /\ q.uris = call[c].uris
  /\ UNCHANGED <<item, published, connections>>

Described(c, q) ==
  /\ call[c].pc = "describe" /\ q.pc \in {"read", "failed"}
  /\ q.uris \in {call[c].uris, GeneralDescriptionUris(call[c].wire)} /\ Alike(q, call[c])
  /\ q.relations = call[c].relations /\ q.before = call[c].before /\ q.wire = call[c].wire
  /\ q.alone = call[c].alone /\ q.refusal = call[c].refusal /\ q.seen = call[c].seen
  /\ UNCHANGED <<item, published, connections>>

ConnectionsRead(c, q) ==
  /\ call[c].pc = "validated" /\ call[c].what = "details" /\ q.pc = "connect"
  /\ q.before = item /\ q.relations = connections /\ q.changes.channel \in DOMAIN connections
  /\ Alike(q, call[c]) /\ q.alone = call[c].alone /\ q.refusal = call[c].refusal
  /\ q.uris = call[c].uris
  /\ UNCHANGED <<item, published, connections>>

\* Whether an item's PUT is followed by that of its connections.
Connects(r) ==
  "serviceChannelIds" \in DOMAIN r.changes
    /\ PlanServiceConnections(r.relations, r.changes["serviceChannelIds"]).changes

ItemPut(c, q) ==
  LET body == BodyOf(kind, call[c].changes, call[c].wire, call[c].uris) IN
  /\ call[c].pc = "read" /\ q.pc \in {"connect", "written", "failed"}
  /\ Kept(q, call[c]) /\ q.alone = call[c].alone
  /\ q.refusal = call[c].refusal \/ (q.refusal = Refusal(body) /\ q.refusal # "none")
  /\ \/ UNCHANGED <<item, published>> /\ q.pc = "failed"
     \/ /\ Refusal(body) = "none" /\ Stored(Put(item, body, WriteSchema(kind)))
        /\ Others(c)
        /\ q.pc \in {"failed", IF Connects(q) THEN "connect" ELSE "written"}
  /\ UNCHANGED connections

ConnectionsPut(c, q) ==
  /\ call[c].pc = "connect" /\ q.pc \in {"written", "failed"}
  /\ Kept(q, call[c]) /\ q.alone = call[c].alone /\ q.refusal = call[c].refusal
  /\ \/ connections' = PutConnections(RelationsToSend(c)) /\ Others(c)
     \/ UNCHANGED connections /\ q.pc = "failed"
  /\ UNCHANGED <<item, published>>

Audited(c, q) ==
  /\ call[c].pc = "written" /\ q.pc \in {"done", "failed"}
  /\ Kept(q, call[c]) /\ q.alone = call[c].alone /\ q.refusal = call[c].refusal
  /\ UNCHANGED <<item, published, connections>>

Created(c, q) ==
  /\ call[c].pc = "approved" /\ call[c].what = "create"
  /\ q.pc \in {"invalid", "written", "failed"}
  /\ Kept(q, call[c]) /\ q.alone = call[c].alone
  /\ \/ q.refusal = call[c].refusal
     \/ LET new == Normalize(kind, q.changes) IN
        \E area \in {OrganizationArea, {}} :
          /\ ValidNew(kind, new) /\ q.refusal = CreateRefusal(NewBodyOf(kind, new), area)
          /\ area = {} => kind = "Service" /\ events' > 0
  /\ UNCHANGED <<item, published, connections>>

Outcome(c, q) ==
  \/ Begin(c, q) \/ Stop(c, q) \/ ItemValidated(c, q) \/ DetailsValidated(c, q)
  \/ ItemRead(c, q) \/ Described(c, q) \/ ConnectionsRead(c, q)
  \/ ItemPut(c, q) \/ ConnectionsPut(c, q) \/ Audited(c, q) \/ Created(c, q)

Counts == events \in Nat /\ events' \in Nat /\ events <= events'

LEMMA Events == ASSUME Next PROVE UNCHANGED events \/ Happens
  <1>1. ASSUME NEW c \in Call, Step(c) PROVE UNCHANGED events \/ Happens
    <2>1. CASE Approve(c) \/ ValidateDetails(c)
      BY <2>1 DEF Approve, ValidateDetails
    <2>2. CASE Validate(c) \/ ReadLatest(c) \/ ReadRelations(c)
      BY <2>2, Zenon DEF Validate, ReadLatest, ReadRelations, Reads
    <2>3. CASE ReadDescription(c) \/ PutRelations(c) \/ Audit(c)
      BY <2>3, Zenon DEF ReadDescription, PutRelations, Audit
    <2>4. CASE PutItem(c)
      BY <2>4, Zenon DEF PutItem
    <2>5. CASE Create(c)
      BY <2>5, Zenon DEF Create
    <2> QED
      BY <1>1, <2>1, <2>2, <2>3, <2>4, <2>5, Zenon DEF Step
  <1> QED
    BY <1>1, Zenon DEF Next, EditInPtv, PublishInPtv

LEMMA Counting ==
  ASSUME events \in Nat, Next
  PROVE  Counts
  <1>1. MaxEvents \in Nat
    BY WritesAssumption
  <1>2. Happens => events' = events + 1
    BY DEF Happens
  <1>3. UNCHANGED events \/ Happens
    BY Events
  <1> QED
    BY <1>2, <1>3 DEF Counts

LEMMA ApproveIs ==
  ASSUME Shaped, NEW c \in Call, Approve(c)
  PROVE  Shaped' /\ \E q : Gets(c, q) /\ Begin(c, q)
  <1> DEFINE Approves(what, changes) ==
        /\ changes \in CASE what = "update" -> Changes[kind]
                         [] what = "details" ->
                              IF kind = "Service" /\ DOMAIN connections # {} THEN Details ELSE {}
                         [] what = "create" -> NewItems[kind]
        /\ call' = [call EXCEPT ![c] = [Idle EXCEPT !.pc = "approved", !.what = what,
                                                    !.changes = changes]]
  <1>0. PICK what \in {"update", "details", "create"} : \E changes : Approves(what, changes)
    BY Zenon DEF Approve
  <1>1. PICK changes : Approves(what, changes)
    BY <1>0
  <1>2. /\ what = "details" => kind = "Service" /\ changes \in Details
        /\ what = "update" => changes \in Changes[kind]
        /\ what = "create" => changes \in NewItems[kind]
    BY <1>1
  <1>3. PICK S : Idle \in Rec(S)
    BY IdleShaped
  <1> DEFINE q == [Idle EXCEPT !.pc = "approved", !.what = what, !.changes = changes]
  <1>4. q \in Rec(S \cup {"approved", what, changes})
    BY <1>3 DEF Rec
  <1>5. /\ q.pc = "approved" /\ q.what = what /\ q.changes = changes
        /\ q.before = Nothing /\ q.relations = Nothing /\ q.alone = FALSE /\ q.refusal = "none"
        /\ q.uris = {}
    BY DEF Idle
  <1> HIDE DEF q
  <1>6. Shaped' /\ Gets(c, q)
    BY <1>1, <1>4, OneGets DEF q
  <1>7. Begin(c, q)
    BY <1>1, <1>2, <1>5 DEF Begin, Approve
  <1> QED
    BY <1>6, <1>7

LEMMA ValidateIs ==
  ASSUME Shaped, NEW c \in Call, Validate(c)
  PROVE  Shaped' /\ \E q : Gets(c, q) /\ (Stop(c, q) \/ ItemValidated(c, q))
  <1> DEFINE changes == call[c].changes
             kept == [f \in DOMAIN changes \ {"serviceChannelIds"} |-> changes[f]]
             Current(view) == DomainOf(kind, view)
  <1>1. /\ call[c].pc = "approved" /\ call[c].what = "update"
        /\ UNCHANGED <<item, published, connections>>
    BY DEF Validate
  <1>2. PICK view \in {Latest, Public} :
          IF view = Nothing \/ ~Supported(kind, changes)
            THEN call' = End(c, "failed")
            ELSE IF ValidUpdate(kind, Merge(Current(view), kept), changes)
                   THEN call' = [call EXCEPT ![c].pc = "validated", ![c].seen = Current(view),
                                             ![c].alone = TRUE]
                   ELSE call' = End(c, "invalid")
    BY Zenon DEF Validate
  <1> HIDE DEF changes, kept, Current
  <1>3. CASE call' = End(c, "failed") \/ call' = End(c, "invalid")
    <2>1. PICK pc \in {"failed", "invalid"} : call' = End(c, pc)
      BY <1>3
    <2> DEFINE q == [call[c] EXCEPT !.pc = pc]
    <2>2. Shaped' /\ Gets(c, q)
      BY <2>1, Ends
    <2>3. Stop(c, q)
      BY <1>1, <2>1, MovesTo DEF Stop, Kept, Alike
    <2> QED
      BY <2>2, <2>3
  <1>4. CASE /\ view # Nothing /\ Supported(kind, changes)
             /\ ValidUpdate(kind, Merge(Current(view), kept), changes)
             /\ call' = [call EXCEPT ![c].pc = "validated", ![c].seen = Current(view),
                                     ![c].alone = TRUE]
    <2>0. PICK seen : seen = Current(view)
      OBVIOUS
    <2>1. Shaped' /\ \E q : ValidatedAs(c, q, seen)
      <3>1. MarkValidated(c, seen)
        BY <1>4, <2>0 DEF MarkValidated
      <3> QED
        BY <3>1, ValidatedIs
    <2>2. PICK q : /\ Gets(c, q) /\ q.pc = "validated" /\ q.seen = Current(view)
                   /\ q.alone = TRUE /\ Kept(q, call[c]) /\ q.refusal = call[c].refusal
      BY <2>0, <2>1 DEF ValidatedAs
    <2>3. q.changes = changes
      BY <2>2 DEF Kept, Alike, changes
    <2>4. ValidUpdate(kind, Merge(q.seen, [f \in DOMAIN q.changes \ {"serviceChannelIds"} |->
                                             q.changes[f]]), q.changes)
      BY <1>4, <2>2, <2>3 DEF kept
    <2>5. ItemValidated(c, q)
      BY <1>1, <1>4, <2>2, <2>3, <2>4 DEF ItemValidated, Current
    <2> QED
      BY <2>1, <2>2, <2>5
  <1> QED
    BY <1>2, <1>3, <1>4

LEMMA ValidateDetailsIs ==
  ASSUME Shaped, NEW c \in Call, ValidateDetails(c)
  PROVE  Shaped' /\ \E q : Gets(c, q) /\ (Stop(c, q) \/ DetailsValidated(c, q))
  <1>1. /\ call[c].pc = "approved" /\ call[c].what = "details"
        /\ UNCHANGED <<item, published, connections>>
        /\ \/ call' = End(c, "failed")
           \/ call' = [call EXCEPT ![c].pc = "validated", ![c].alone = TRUE]
    BY DEF ValidateDetails
  <1>2. CASE call' = End(c, "failed")
    <2> DEFINE q == [call[c] EXCEPT !.pc = "failed"]
    <2>1. Shaped' /\ Gets(c, q)
      BY <1>2, Ends
    <2>2. Stop(c, q)
      BY <1>1, MovesTo DEF Stop, Kept, Alike
    <2> QED
      BY <2>1, <2>2
  <1>3. CASE call' = [call EXCEPT ![c].pc = "validated", ![c].alone = TRUE]
    BY <1>1, <1>3, DetailsValidatedIs DEF DetailsValidated
  <1> QED
    BY <1>1, <1>2, <1>3

LEMMA ReadLatestIs ==
  ASSUME Shaped, NEW c \in Call, ReadLatest(c)
  PROVE  Shaped' /\ \E q : Gets(c, q) /\ (Stop(c, q) \/ ItemRead(c, q))
  <1> DEFINE IsLinkedTo(view) == kind = "Service" /\ GeneralDescriptionUris(view) # {}
             Goes(view) == IF IsLinkedTo(view) THEN "describe" ELSE "read"
  <1>1. /\ call[c].pc = "validated" /\ call[c].what = "update"
        /\ UNCHANGED <<item, published, connections>>
        /\ \/ call' = End(c, "failed")
           \/ \E view \in {Latest, Public} :
                view # Nothing /\ ~Locked(view) /\ MarkRead(c, Goes(view), view)
    BY Zenon DEF ReadLatest, MarkRead
  <1> HIDE DEF Goes
  <1>2. CASE call' = End(c, "failed")
    <2> DEFINE q == [call[c] EXCEPT !.pc = "failed"]
    <2>1. Shaped' /\ Gets(c, q)
      BY <1>2, Ends
    <2>2. Stop(c, q)
      BY <1>1, MovesTo DEF Stop, Kept, Alike
    <2> QED
      BY <2>1, <2>2
  <1>3. ASSUME NEW view \in {Latest, Public}, view # Nothing, ~Locked(view),
               MarkRead(c, Goes(view), view)
        PROVE  Shaped' /\ \E q : Gets(c, q) /\ ItemRead(c, q)
    <2>0. PICK pc : pc = Goes(view)
      OBVIOUS
    <2>1. Shaped' /\ \E q : /\ Gets(c, q) /\ q.pc = pc /\ q.wire = view /\ q.before = item
                            /\ q.relations = connections /\ Alike(q, call[c])
                            /\ q.alone = call[c].alone /\ q.refusal = call[c].refusal
                            /\ q.seen = call[c].seen /\ q.uris = call[c].uris
      <3>1. MarkRead(c, pc, view)
        BY <1>3, <2>0
      <3> QED
        BY <3>1, ReadIs
    <2>2. /\ pc \in {"describe", "read"}
          /\ (kind = "Service" /\ pc = "read") => GeneralDescriptionUris(view) = {}
      BY <2>0 DEF Goes
    <2> QED
      BY <1>1, <1>3, <2>1, <2>2 DEF ItemRead
  <1> QED
    BY <1>1, <1>2, <1>3

LEMMA ReadDescriptionIs ==
  ASSUME Shaped, NEW c \in Call, ReadDescription(c)
  PROVE  Shaped' /\ \E q : Gets(c, q) /\ Described(c, q)
  <1>1. /\ call[c].pc = "describe" /\ UNCHANGED <<item, published, connections>>
        /\ \/ MarkDescribed(c, "read", GeneralDescriptionUris(call[c].wire))
           \/ \E pc \in {"read", "failed"} : call' = End(c, pc)
    BY DEF ReadDescription, MarkDescribed
  <1>2. CASE MarkDescribed(c, "read", GeneralDescriptionUris(call[c].wire))
    <2>0. PICK uris : uris = GeneralDescriptionUris(call[c].wire)
      OBVIOUS
    <2>1. Shaped' /\ \E q : DescribedAs(c, q, "read", uris)
      BY <1>2, <2>0, DescribedIs
    <2> QED
      BY <1>1, <2>0, <2>1 DEF Described, DescribedAs
  <1>3. ASSUME NEW pc \in {"read", "failed"}, call' = End(c, pc)
        PROVE  Shaped' /\ \E q : Gets(c, q) /\ Described(c, q)
    <2> DEFINE q == [call[c] EXCEPT !.pc = pc]
    <2>1. Shaped' /\ Gets(c, q)
      BY <1>3, Ends
    <2>2. Described(c, q)
      BY <1>1, <1>3, MovesTo DEF Described, Alike
    <2> QED
      BY <2>1, <2>2
  <1> QED
    BY <1>1, <1>2, <1>3

LEMMA ReadRelationsIs ==
  ASSUME Shaped, NEW c \in Call, ReadRelations(c)
  PROVE  Shaped' /\ \E q : Gets(c, q) /\ (Stop(c, q) \/ ConnectionsRead(c, q))
  <1>1. /\ call[c].pc = "validated" /\ call[c].what = "details"
        /\ UNCHANGED <<item, published, connections>>
        /\ \/ call' = End(c, "failed")
           \/ /\ call[c].changes.channel \in DOMAIN connections
              /\ MarkConnecting(c)
    BY Zenon DEF ReadRelations, MarkConnecting
  <1>2. CASE call' = End(c, "failed")
    <2> DEFINE q == [call[c] EXCEPT !.pc = "failed"]
    <2>1. Shaped' /\ Gets(c, q)
      BY <1>2, Ends
    <2>2. Stop(c, q)
      BY <1>1, MovesTo DEF Stop, Kept, Alike
    <2> QED
      BY <2>1, <2>2
  <1>3. CASE call[c].changes.channel \in DOMAIN connections /\ MarkConnecting(c)
    <2>1. Shaped' /\ \E q : ConnectingAs(c, q)
      BY <1>3, RelationsReadIs
    <2> QED
      BY <1>1, <1>3, <2>1 DEF ConnectionsRead, ConnectingAs, Alike
  <1> QED
    BY <1>1, <1>2, <1>3

LEMMA AuditIs ==
  ASSUME Shaped, NEW c \in Call, Audit(c)
  PROVE  Shaped' /\ \E q : Gets(c, q) /\ Audited(c, q)
  <1>1. PICK pc \in {"done", "failed"} : call' = End(c, pc)
    BY DEF Audit
  <1> DEFINE q == [call[c] EXCEPT !.pc = pc]
  <1>2. Shaped' /\ Gets(c, q)
    BY <1>1, Ends
  <1>3. Audited(c, q)
    BY <1>1, MovesTo DEF Audited, Audit, Kept, Alike
  <1> QED
    BY <1>2, <1>3

LEMMA PutItemIs ==
  ASSUME Shaped, NEW c \in Call, PutItem(c)
  PROVE  Shaped' /\ \E q : Gets(c, q) /\ ItemPut(c, q)
  <1> DEFINE body == BodyOf(kind, call[c].changes, call[c].wire, call[c].uris)
             after == Put(item, body, WriteSchema(kind))
             next == IF Connects(call[c]) THEN "connect" ELSE "written"
             Refused == call' = [call EXCEPT ![c].pc = "failed", ![c].refusal = Refusal(body)]
  <1>1. /\ call[c].pc = "read" /\ UNCHANGED connections
        /\ \/ Refusal(body) # "none" /\ Refused /\ UNCHANGED <<item, published>>
           \/ /\ Refusal(body) = "none" /\ Stored(after)
              /\ \E pc \in {next, "failed"} : call' = [Disturbs(c) EXCEPT ![c].pc = pc]
           \/ call' = End(c, "failed") /\ UNCHANGED <<item, published>>
    BY Zenon DEF PutItem, Connects
  <1>0. next \in {"connect", "written"} OBVIOUS
  <1> HIDE DEF body, after, next
  <1>2. CASE Refusal(body) # "none" /\ Refused /\ UNCHANGED <<item, published>>
    <2>0. PICK why : why = Refusal(body)
      OBVIOUS
    <2>1. call' = [call EXCEPT ![c].pc = "failed", ![c].refusal = why]
      BY <1>2, <2>0
    <2>2. Shaped' /\ \E q : /\ Gets(c, q) /\ q.pc = "failed" /\ q.refusal = why
                            /\ Kept(q, call[c]) /\ q.alone = call[c].alone
      BY <2>1, RefusedIs
    <2> QED
      BY <1>1, <1>2, <2>0, <2>2 DEF ItemPut, body
  <1>3. CASE call' = End(c, "failed") /\ UNCHANGED <<item, published>>
    <2> DEFINE q == [call[c] EXCEPT !.pc = "failed"]
    <2>1. Shaped' /\ Gets(c, q)
      BY <1>3, Ends
    <2>2. ItemPut(c, q)
      BY <1>1, <1>3, MovesTo DEF ItemPut, Kept, Alike
    <2> QED
      BY <2>1, <2>2
  <1>4. ASSUME Refusal(body) = "none", Stored(after), NEW pc \in {next, "failed"},
               call' = [Disturbs(c) EXCEPT ![c].pc = pc]
        PROVE  Shaped' /\ \E q : Gets(c, q) /\ ItemPut(c, q)
    <2> DEFINE q == [call[c] EXCEPT !.pc = pc]
    <2>1. Shaped' /\ Gets(c, q) /\ Others(c)
      BY <1>4, DisturbsGets
    <2>2. /\ q.pc = pc /\ Kept(q, call[c]) /\ q.alone = call[c].alone
          /\ q.refusal = call[c].refusal
      BY MovesTo DEF Kept, Alike
    <2> HIDE DEF q
    <2>3. next = IF Connects(q) THEN "connect" ELSE "written"
      BY <2>2 DEF next, Connects, Kept, Alike
    <2>4. ItemPut(c, q)
      BY <1>0, <1>1, <1>4, <2>1, <2>2, <2>3 DEF ItemPut, Others, body, after
    <2> QED
      BY <2>1, <2>4
  <1> QED
    BY <1>1, <1>2, <1>3, <1>4

LEMMA PutRelationsIs ==
  ASSUME Shaped, NEW c \in Call, PutRelations(c)
  PROVE  Shaped' /\ \E q : Gets(c, q) /\ ConnectionsPut(c, q)
  <1>1. /\ call[c].pc = "connect" /\ UNCHANGED <<item, published>>
        /\ \/ /\ connections' = PutConnections(RelationsToSend(c))
              /\ \E pc \in {"written", "failed"} : call' = [Disturbs(c) EXCEPT ![c].pc = pc]
           \/ call' = End(c, "failed") /\ UNCHANGED connections
    BY DEF PutRelations
  <1>2. CASE call' = End(c, "failed") /\ UNCHANGED connections
    <2> DEFINE q == [call[c] EXCEPT !.pc = "failed"]
    <2>1. Shaped' /\ Gets(c, q)
      BY <1>2, Ends
    <2>2. ConnectionsPut(c, q)
      BY <1>1, <1>2, MovesTo DEF ConnectionsPut, Kept, Alike
    <2> QED
      BY <2>1, <2>2
  <1>3. ASSUME NEW pc \in {"written", "failed"}, call' = [Disturbs(c) EXCEPT ![c].pc = pc],
               connections' = PutConnections(RelationsToSend(c))
        PROVE  Shaped' /\ \E q : Gets(c, q) /\ ConnectionsPut(c, q)
    <2> DEFINE q == [call[c] EXCEPT !.pc = pc]
    <2>1. Shaped' /\ Gets(c, q) /\ Others(c)
      BY <1>3, DisturbsGets
    <2>2. /\ q.pc = pc /\ Kept(q, call[c]) /\ q.alone = call[c].alone
          /\ q.refusal = call[c].refusal
      BY MovesTo DEF Kept, Alike
    <2> HIDE DEF q
    <2>3. ConnectionsPut(c, q)
      BY <1>1, <1>3, <2>1, <2>2 DEF ConnectionsPut, Others
    <2> QED
      BY <2>1, <2>3
  <1> QED
    BY <1>1, <1>2, <1>3

LEMMA CreateIs ==
  ASSUME Shaped, NEW c \in Call, Create(c), events \in Nat
  PROVE  Shaped' /\ \E q : Gets(c, q) /\ Created(c, q)
  <1> DEFINE new == Normalize(kind, call[c].changes)
             body == NewBodyOf(kind, new)
  <1>1. /\ call[c].pc = "approved" /\ call[c].what = "create"
        /\ UNCHANGED <<item, published, connections>>
    BY DEF Create
  <1>2. \/ \E pc \in {"invalid", "written", "failed"} : call' = End(c, pc)
        \/ \E area \in {OrganizationArea, {}} :
             /\ ValidNew(kind, new)
             /\ IF area = {} THEN kind = "Service" /\ Happens ELSE UNCHANGED events
             /\ call' = [call EXCEPT ![c].pc = "failed", ![c].refusal = CreateRefusal(body, area)]
    BY Zenon DEF Create
  <1> HIDE DEF new, body
  <1>3. ASSUME NEW pc \in {"invalid", "written", "failed"}, call' = End(c, pc)
        PROVE  Shaped' /\ \E q : Gets(c, q) /\ Created(c, q)
    <2> DEFINE q == [call[c] EXCEPT !.pc = pc]
    <2>1. Shaped' /\ Gets(c, q)
      BY <1>3, Ends
    <2>2. /\ q.pc = pc /\ Kept(q, call[c]) /\ q.alone = call[c].alone
          /\ q.refusal = call[c].refusal
      BY MovesTo DEF Kept, Alike
    <2> HIDE DEF q
    <2>3. Created(c, q)
      BY <1>1, <1>3, <2>2 DEF Created
    <2> QED
      BY <2>1, <2>3
  <1>4. ASSUME NEW area \in {OrganizationArea, {}}, ValidNew(kind, new),
               IF area = {} THEN kind = "Service" /\ Happens ELSE UNCHANGED events,
               call' = [call EXCEPT ![c].pc = "failed", ![c].refusal = CreateRefusal(body, area)]
        PROVE  Shaped' /\ \E q : Gets(c, q) /\ Created(c, q)
    <2>0. PICK why : why = CreateRefusal(body, area)
      OBVIOUS
    <2>1. call' = [call EXCEPT ![c].pc = "failed", ![c].refusal = why]
      BY <1>4, <2>0
    <2>2. Shaped' /\ \E q : /\ Gets(c, q) /\ q.pc = "failed" /\ q.refusal = why
                            /\ Kept(q, call[c]) /\ q.alone = call[c].alone
      BY <2>1, RefusedIs
    <2>3. PICK q : /\ Gets(c, q) /\ q.pc = "failed" /\ q.refusal = why
                   /\ Kept(q, call[c]) /\ q.alone = call[c].alone
      BY <2>2
    <2>4. q.changes = call[c].changes
      BY <2>3 DEF Kept, Alike
    <2>5. area = {} => kind = "Service" /\ events' > 0
      BY <1>4 DEF Happens
    <2>6. /\ ValidNew(kind, Normalize(kind, q.changes))
          /\ q.refusal = CreateRefusal(NewBodyOf(kind, Normalize(kind, q.changes)), area)
      BY <1>4, <2>0, <2>3, <2>4 DEF new, body
    <2>7. Created(c, q)
      BY <1>1, <2>3, <2>5, <2>6 DEF Created
    <2> QED
      BY <2>2, <2>3, <2>7
  <1> QED
    BY <1>2, <1>3, <1>4

\* What a step may do: a call gets a record as above, or somebody edits the
\* item in PTV.
Edited ==
  /\ \A d \in Call : call'[d] = [call[d] EXCEPT !.alone = FALSE]
  /\ \/ \E edit \in Edits[kind] :
          \/ Stored(edit @@ item)
          \/ /\ item.publishingStatus \in {{"Published"}, {"Modified"}}
             /\ item' = ("publishingStatus" :> {"Modified"}) @@ (edit @@ item)
             /\ UNCHANGED published
     \/ Stored(("publishingStatus" :> {"Published"}) @@ item)
  /\ UNCHANGED connections

LEMMA StepOutcome ==
  ASSUME Shaped, events \in Nat, Next
  PROVE  /\ Shaped' /\ UNCHANGED kind /\ Counts
         /\ \/ \E c \in Call : \E q : Gets(c, q) /\ Outcome(c, q)
            \/ Edited
  <1>1. UNCHANGED kind
    <2>1. ASSUME NEW c \in Call, Step(c) PROVE UNCHANGED kind
      BY <2>1, Zenon DEF Step, Approve, Validate, ValidateDetails, ReadLatest, ReadDescription,
           ReadRelations, PutItem, PutRelations, Audit, Create
    <2> QED
      BY <2>1, Zenon DEF Next, EditInPtv, PublishInPtv
  <1>2. ASSUME NEW c \in Call, Step(c)
        PROVE  Shaped' /\ \E q : Gets(c, q) /\ Outcome(c, q)
    <2>1. CASE Approve(c)
      BY <2>1, ApproveIs DEF Outcome
    <2>2. CASE Validate(c)
      BY <2>2, ValidateIs DEF Outcome
    <2>3. CASE ValidateDetails(c)
      BY <2>3, ValidateDetailsIs DEF Outcome
    <2>4. CASE ReadLatest(c)
      BY <2>4, ReadLatestIs DEF Outcome
    <2>5. CASE ReadRelations(c)
      BY <2>5, ReadRelationsIs DEF Outcome
    <2>6. CASE PutItem(c)
      BY <2>6, PutItemIs DEF Outcome
    <2>7. CASE PutRelations(c)
      BY <2>7, PutRelationsIs DEF Outcome
    <2>8. CASE Audit(c)
      BY <2>8, AuditIs DEF Outcome
    <2>9. CASE Create(c)
      BY <2>9, CreateIs DEF Outcome
    <2>10. CASE ReadDescription(c)
      BY <2>10, ReadDescriptionIs DEF Outcome
    <2> QED
      BY <1>2, <2>1, <2>2, <2>3, <2>4, <2>5, <2>6, <2>7, <2>8, <2>9, <2>10 DEF Step
  <1>3. ASSUME EditInPtv \/ PublishInPtv PROVE Shaped' /\ Edited
    <2>1. call' = NobodyIsAlone /\ UNCHANGED connections
      BY <1>3 DEF EditInPtv, PublishInPtv
    <2>2. Shaped' /\ \A d \in Call : call'[d] = [call[d] EXCEPT !.alone = FALSE]
      BY <2>1, NobodyGets
    <2>3. \/ \E edit \in Edits[kind] :
               \/ Stored(edit @@ item)
               \/ /\ item.publishingStatus \in {{"Published"}, {"Modified"}}
                  /\ item' = ("publishingStatus" :> {"Modified"}) @@ (edit @@ item)
                  /\ UNCHANGED published
          \/ Stored(("publishingStatus" :> {"Published"}) @@ item)
      BY <1>3, Zenon DEF EditInPtv, PublishInPtv
    <2> QED
      BY <2>1, <2>2, <2>3, Zenon DEF Edited
  <1>4. Counts
    BY Counting
  <1> QED
    BY <1>1, <1>2, <1>3, <1>4 DEF Next

-----------------------------------------------------------------------------
(* What is sent of each connection.                                         *)

Sendable(sent) ==
  /\ DOMAIN sent.set \subseteq Contacts /\ sent.clear \subseteq Contacts
  /\ "faxNumbers" \in DOMAIN sent.set => PlainPhones(sent.set.faxNumbers)

LEMMA SentKeepsDetails ==
  ASSUME NEW stored, IsDetails(stored), NEW sent, Sendable(sent)
  PROVE  IsDetails(PutOne(stored, sent))
  <1> DEFINE body == Accepted(sent, InBase)
             after == PutOne(stored, sent)
  <1>1. DOMAIN stored = DetailFields /\ PlainPhones(stored.phoneNumbers)
    BY DEF IsDetails
  <1>2. FieldByField(stored, sent)
    BY <1>1, ConnectionPut DEF Sendable
  <1>3. /\ DOMAIN after = DetailFields
        /\ after.phoneNumbers = PutPhones(stored.phoneNumbers, body, FALSE)
        /\ DOMAIN body.set = DOMAIN sent.set
        /\ \A f \in DOMAIN sent.set : body.set[f] = sent.set[f]
    BY <1>2, Zenon DEF FieldByField
  <1> HIDE DEF body, after
  <1>4. PlainPhones(PutPhones(stored.phoneNumbers, body, FALSE))
    <2>1. "faxNumbers" \in DOMAIN body.set => PlainPhones(body.set.faxNumbers)
      BY <1>3 DEF Sendable
    <2> QED
      BY <1>1, <2>1, PhonesPut, Zenon
  <1>5. IsDetails(after)
    BY <1>3, <1>4 DEF IsDetails
  <1> QED
    BY <1>5 DEF after

LEMMA ResentIsSendable ==
  ASSUME NEW details PROVE Sendable(RelationToWrite(details))
  BY DEF Sendable, RelationToWrite, Contacts, DetailFields

LEMMA NewIsSendable == Sendable(NewRelation)
  <1>1. DOMAIN << >> = {}
    OBVIOUS
  <1> QED
    BY <1>1 DEF Sendable, NewRelation

LEMMA InfoIsSendable ==
  ASSUME NEW info, IsInfo(info) PROVE Sendable(ConnectionDetailsToWire(info))
  <1> DEFINE wire == InfoWire(info)
             sent == ConnectionDetailsToWire(info)
  <1>1. /\ DOMAIN sent.set = {f \in Contacts : wire[f] # {}}
        /\ sent.clear = {f \in Contacts : wire[f] = {}}
        /\ \A f \in DOMAIN sent.set : sent.set[f] = wire[f]
    BY InfoIsSent, Zenon
  <1>2. wire["faxNumbers"] = Faxes(info.phoneNumbers)
    BY DEF InfoWire, Contacts, DetailFields
  <1>3. PlainPhones(Faxes(info.phoneNumbers))
    BY DEF IsInfo, PlainPhones, Faxes
  <1> HIDE DEF wire, sent
  <1>4. Sendable(sent)
    BY <1>1, <1>2, <1>3 DEF Sendable
  <1> QED
    BY <1>4 DEF sent

\* The details read, with a change merged into them, are the domain's.
LEMMA MergedIsInfo ==
  ASSUME NEW details, IsDetails(details), NEW change \in Details
  PROVE  IsInfo(Merge(ConnectionDetailsToDomain(details), change.details))
  <1> DEFINE current == ConnectionDetailsToDomain(details)
             new == change.details
             info == new @@ current
  <1>1. /\ DOMAIN new \subseteq CONNECTION_DETAIL_FIELDS
        /\ IsText(Touched(new, "descriptions", {}))
        /\ IsText(Touched(new, "chargeDescriptions", {}))
        /\ PlainPhones(Touched(new, "phoneNumbers", {}))
    BY WritesAssumption
  <1>2. DOMAIN current = CONNECTION_DETAIL_FIELDS
    BY DEF ConnectionDetailsToDomain, DetailFields, CONNECTION_DETAIL_FIELDS
  <1>3. IsText(current.descriptions) /\ IsText(current.chargeDescriptions)
    BY ItemsAreText DEF ConnectionDetailsToDomain, DetailFields
  <1>4. PlainPhones(current.phoneNumbers)
    BY DEF ConnectionDetailsToDomain, DetailFields, IsDetails
  <1> HIDE DEF current, new
  <1>5. \A f \in CONNECTION_DETAIL_FIELDS :
           info[f] = IF f \in DOMAIN new THEN new[f] ELSE current[f]
    BY <1>1, <1>2 DEF @@
  <1>6. info = [f \in CONNECTION_DETAIL_FIELDS |-> info[f]]
    <2>1. DOMAIN new \cup DOMAIN current = CONNECTION_DETAIL_FIELDS
      BY <1>1, <1>2
    <2>2. info = [f \in CONNECTION_DETAIL_FIELDS |->
                    IF f \in DOMAIN new THEN new[f] ELSE current[f]]
      BY <2>1 DEF @@
    <2> QED
      BY <2>2
  <1> HIDE DEF info
  <1>7. /\ IsText(info.descriptions) /\ IsText(info.chargeDescriptions)
        /\ PlainPhones(info.phoneNumbers)
    <2>1. {"descriptions", "chargeDescriptions", "phoneNumbers"} \subseteq CONNECTION_DETAIL_FIELDS
      BY DEF CONNECTION_DETAIL_FIELDS
    <2> QED
      BY <1>1, <1>3, <1>4, <1>5, <2>1 DEF Touched
  <1> QED
    BY <1>6, <1>7 DEF IsInfo, Merge, info, new, current

\* The connections a call sends, from its record.
Plan(r) ==
  IF r.what = "details"
    THEN PlanConnectionDetails(r.relations, r.changes.channel, r.changes.details)
    ELSE PlanServiceConnections(r.relations, r.changes["serviceChannelIds"]).relations

AllDetails(all) == \A ch \in DOMAIN all : IsDetails(all[ch])

Resends(r, ch) == ch \in DOMAIN r.relations /\ Plan(r)[ch] = RelationToWrite(r.relations[ch])

LEMMA PlannedIs ==
  ASSUME NEW r, AllDetails(r.relations), r.what = "details" => r.changes \in Details
  PROVE  /\ \A ch \in DOMAIN Plan(r) : Sendable(Plan(r)[ch])
         /\ \A ch \in DOMAIN Plan(r) \cap DOMAIN r.relations :
              r.what # "details" \/ ch # r.changes.channel => Resends(r, ch)
         /\ r.what = "details" =>
              /\ DOMAIN Plan(r) = DOMAIN r.relations
              /\ r.changes.channel \in DOMAIN r.relations =>
                   Plan(r)[r.changes.channel] = ConnectionDetailsToWire(
                     Merge(ConnectionDetailsToDomain(r.relations[r.changes.channel]),
                           r.changes.details))
  <1> DEFINE info(ch) == Merge(ConnectionDetailsToDomain(r.relations[ch]), r.changes.details)
             channel == r.changes.channel
             desired == r.changes["serviceChannelIds"]
  <1>1. CASE r.what = "details"
    <2>1. Plan(r) = [ch \in DOMAIN r.relations |->
                       IF ch = channel THEN ConnectionDetailsToWire(info(ch))
                                       ELSE RelationToWrite(r.relations[ch])]
      BY <1>1, Zenon DEF Plan, PlanConnectionDetails
    <2>2. ASSUME NEW ch \in DOMAIN r.relations PROVE IsInfo(info(ch))
      BY <1>1, MergedIsInfo DEF AllDetails
    <2> HIDE DEF info, channel
    <2>3. DOMAIN Plan(r) = DOMAIN r.relations
      BY <2>1
    <2>4. ASSUME NEW ch \in DOMAIN r.relations
          PROVE  /\ Sendable(Plan(r)[ch])
                 /\ ch # channel => Resends(r, ch)
                 /\ ch = channel => Plan(r)[ch] = ConnectionDetailsToWire(info(ch))
      <3>1. CASE ch = channel
        BY <2>1, <2>2, <3>1, InfoIsSendable
      <3>2. CASE ch # channel
        BY <2>1, <3>2, ResentIsSendable DEF Resends
      <3> QED
        BY <3>1, <3>2
    <2> QED
      BY <1>1, <2>3, <2>4 DEF info, channel
  <1>2. CASE r.what # "details"
    <2>1. Plan(r) = IF desired = DOMAIN r.relations THEN << >>
                    ELSE [ch \in desired |->
                            IF ch \in DOMAIN r.relations THEN RelationToWrite(r.relations[ch])
                                                         ELSE NewRelation]
      BY <1>2 DEF Plan, PlanServiceConnections
    <2>2. DOMAIN << >> = {}
      OBVIOUS
    <2>3. CASE desired = DOMAIN r.relations
      BY <1>2, <2>1, <2>2, <2>3
    <2>4. CASE desired # DOMAIN r.relations
      <3>1. DOMAIN Plan(r) = desired
        BY <2>1, <2>4
      <3>2. \A ch \in desired : Plan(r)[ch] = IF ch \in DOMAIN r.relations
                                               THEN RelationToWrite(r.relations[ch])
                                               ELSE NewRelation
        BY <2>1, <2>4
      <3> QED
        BY <1>2, <3>1, <3>2, ResentIsSendable, NewIsSendable DEF Resends
    <2> QED
      BY <2>3, <2>4
  <1> QED
    BY <1>1, <1>2

LEMMA PutKeepsAllDetails ==
  ASSUME NEW plan, \A ch \in DOMAIN plan : Sendable(plan[ch])
  PROVE  AllDetails(PutConnections(plan)) /\ DOMAIN PutConnections(plan) = DOMAIN plan
  <1>1. PutConnections(plan) = [ch \in DOMAIN plan |-> PutOne(NoDetails, plan[ch])]
    BY Zenon DEF PutConnections, PutOne, InBase
  <1>2. \A ch \in DOMAIN plan : IsDetails(PutOne(NoDetails, plan[ch]))
    BY NothingHeld, SentKeepsDetails
  <1> QED
    BY <1>1, <1>2 DEF AllDetails

-----------------------------------------------------------------------------
(* How far a call is, and what its record says then.                        *)

Before == {"idle", "approved", "validated"}
Reading == {"describe", "read"}

Placed(r) ==
  /\ r.alone \in BOOLEAN
  /\ r.pc \in Before => r.before = Nothing
  /\ r.pc \in Before \cup Reading => r.refusal = "none"
  /\ r.pc \in Before \cup {"describe"} => r.uris = {}
  /\ r.uris = {} \/ r.uris = GeneralDescriptionUris(r.wire)
  /\ r.pc # "idle" => r.what \in {"update", "details", "create"}
  /\ r.pc \in Reading => r.what = "update"
  /\ r.pc \in {"validated", "connect"} => r.what \in {"update", "details"}
  /\ r.pc # "idle" /\ r.what = "details" => kind = "Service" /\ r.changes \in Details
  /\ r.pc # "idle" /\ r.what = "update" => r.changes \in Changes[kind]
  /\ r.pc # "idle" /\ r.what = "create" => r.changes \in NewItems[kind]
  /\ r.pc = "approved" => r.alone = FALSE

AllPlaced == \A c \in Call : Placed(call[c])

LEMMA PlacedInit == ASSUME Init PROVE Shaped /\ AllPlaced
  <1>1. PICK S : Idle \in Rec(S)
    BY IdleShaped
  <1>2. call = [c \in Call |-> Idle]
    BY DEF Init
  <1>3. call \in [Call -> Rec(S)]
    BY <1>1, <1>2
  <1>4. Placed(Idle)
    BY DEF Placed, Idle, Before, Reading
  <1> QED
    BY <1>2, <1>3, <1>4 DEF Shaped, AllPlaced

\* Losing the item to another call changes nothing of this.
LEMMA PlacedAlone ==
  ASSUME Shaped, NEW d \in Call, Placed(call[d])
  PROVE  Placed([call[d] EXCEPT !.alone = FALSE])
  <1> DEFINE q == [call[d] EXCEPT !.alone = FALSE]
  <1>1. /\ q.pc = call[d].pc /\ q.what = call[d].what /\ q.changes = call[d].changes
        /\ q.before = call[d].before /\ q.refusal = call[d].refusal /\ q.alone = FALSE
        /\ q.uris = call[d].uris /\ q.wire = call[d].wire
    BY Disturbed
  <1> HIDE DEF q
  <1>2. Placed(q)
    BY <1>1 DEF Placed
  <1> QED
    BY <1>2 DEF q

LEMMA OutcomePlaced ==
  ASSUME NEW c \in Call, NEW q, Placed(call[c]), Outcome(c, q)
  PROVE  Placed(q)
  <1>1. CASE Begin(c, q)
    BY <1>1 DEF Begin, Placed, Before, Reading
  <1>2. CASE Stop(c, q)
    BY <1>2 DEF Stop, Placed, Kept, Alike, Before, Reading
  <1>3. CASE ItemValidated(c, q)
    BY <1>3 DEF ItemValidated, Placed, Kept, Alike, Before, Reading
  <1>4. CASE DetailsValidated(c, q)
    BY <1>4 DEF DetailsValidated, Placed, Kept, Alike, Before, Reading
  <1>5. CASE ItemRead(c, q)
    BY <1>5 DEF ItemRead, Placed, Alike, Before, Reading
  <1>6. CASE ConnectionsRead(c, q)
    BY <1>6 DEF ConnectionsRead, Placed, Alike, Before, Reading
  <1>7. CASE ItemPut(c, q)
    BY <1>7 DEF ItemPut, Placed, Kept, Alike, Before, Reading
  <1>8. CASE ConnectionsPut(c, q)
    BY <1>8 DEF ConnectionsPut, Placed, Kept, Alike, Before, Reading
  <1>9. CASE Audited(c, q)
    BY <1>9 DEF Audited, Placed, Kept, Alike, Before, Reading
  <1>10. CASE Created(c, q)
    BY <1>10 DEF Created, Placed, Kept, Alike, Before, Reading
  <1>11. CASE Described(c, q)
    BY <1>11 DEF Described, Placed, Alike, Before, Reading
  <1> QED
    BY <1>1, <1>2, <1>3, <1>4, <1>5, <1>6, <1>7, <1>8, <1>9, <1>10, <1>11
    DEF Outcome

LEMMA PlacedNext ==
  ASSUME Shaped, AllPlaced, events \in Nat, Next
  PROVE  AllPlaced'
  <1>1. /\ UNCHANGED kind
        /\ (\E c \in Call : \E q : Gets(c, q) /\ Outcome(c, q)) \/ Edited
    BY StepOutcome
  <1>2. \A d \in Call : Placed(call[d]) /\ Placed([call[d] EXCEPT !.alone = FALSE])
    BY PlacedAlone DEF AllPlaced
  <1>3. \A d \in Call : Placed(call'[d])
    <2>1. CASE \E c \in Call : \E q : Gets(c, q) /\ Outcome(c, q)
      <3>1. PICK c, q : c \in Call /\ Gets(c, q) /\ Outcome(c, q)
        BY <2>1
      <3>2. Placed(q)
        BY <1>2, <3>1, OutcomePlaced
      <3>3. \A d \in Call : \/ d = c /\ call'[d] = q
                            \/ call'[d] = call[d]
                            \/ call'[d] = [call[d] EXCEPT !.alone = FALSE]
        BY <3>1 DEF Gets
      <3> QED
        BY <1>2, <3>2, <3>3, Zenon
    <2>2. CASE Edited
      BY <1>2, <2>2, Zenon DEF Edited
    <2> QED
      BY <1>1, <2>1, <2>2
  <1>4. ASSUME NEW d \in Call PROVE Placed(call[d])'
    BY <1>1, <1>3 DEF Placed
  <1> QED
    BY <1>4 DEF AllPlaced

-----------------------------------------------------------------------------
(* The connections, and what a call that is alone with them knows of them.  *)

Linked(r, all) ==
  /\ AllDetails(r.relations)
  /\ r.what = "details" /\ r.pc \in {"connect", "written", "done"} =>
       r.changes.channel \in DOMAIN r.relations
  /\ r.alone = TRUE /\ r.pc \in Reading \cup {"connect"} => all = r.relations
  /\ r.alone = TRUE /\ r.pc \in {"written", "done", "failed"} /\ r.before # Nothing =>
       all = r.relations \/ all = PutConnections(Plan(r))
  /\ r.alone = TRUE /\ r.what = "details" /\ r.pc \in {"written", "done"} =>
       all = PutConnections(Plan(r))

AllLinked == AllDetails(connections) /\ \A c \in Call : Linked(call[c], connections)

LEMMA LinkedInit == ASSUME Init PROVE AllLinked
  <1>1. AllDetails(Nothing)
    BY DEF AllDetails, Nothing
  <1>2. AllDetails(connections)
    BY <1>1, WritesAssumption DEF Init, AllDetails
  <1>3. Linked(Idle, connections)
    BY <1>1 DEF Linked, Idle, Reading
  <1> QED
    BY <1>2, <1>3 DEF AllLinked, Init

LEMMA LinkedAlone ==
  ASSUME Shaped, NEW d \in Call, NEW all, NEW any, Linked(call[d], any)
  PROVE  Linked([call[d] EXCEPT !.alone = FALSE], all)
  <1> DEFINE q == [call[d] EXCEPT !.alone = FALSE]
  <1>1. /\ q.pc = call[d].pc /\ q.what = call[d].what /\ q.changes = call[d].changes
        /\ q.relations = call[d].relations /\ q.alone = FALSE
    BY Disturbed
  <1> HIDE DEF q
  <1>2. Linked(q, all)
    BY <1>1 DEF Linked, Reading
  <1> QED
    BY <1>2 DEF q

LEMMA OutcomeLinked ==
  ASSUME NEW c \in Call, NEW q, Placed(call[c]), AllDetails(connections),
         Linked(call[c], connections), Outcome(c, q)
  PROVE  /\ AllDetails(connections') /\ Linked(q, connections')
         /\ connections' = connections \/ Others(c)
  <1> DEFINE r == call[c]
  <1>0. AllDetails(Nothing)
    BY DEF AllDetails, Nothing
  <1>1. CASE Begin(c, q)
    BY <1>0, <1>1 DEF Begin, Linked, Reading
  <1>2. CASE Stop(c, q)
    BY <1>2 DEF Stop, Linked, Placed, Kept, Alike, Before, Reading
  <1>3. CASE ItemValidated(c, q)
    BY <1>3 DEF ItemValidated, Linked, Kept, Alike, Reading
  <1>4. CASE DetailsValidated(c, q)
    BY <1>4 DEF DetailsValidated, Linked, Kept, Alike, Reading
  <1>5. CASE ItemRead(c, q)
    BY <1>5 DEF ItemRead, Linked, Alike, Reading
  <1>6. CASE ConnectionsRead(c, q)
    BY <1>6 DEF ConnectionsRead, Linked, Alike, Reading
  <1>7. CASE ItemPut(c, q)
    BY <1>7 DEF ItemPut, Linked, Placed, Kept, Alike, Reading
  <1>8. CASE ConnectionsPut(c, q)
    <2>1. /\ r.pc = "connect" /\ q.pc \in {"written", "failed"}
          /\ q.what = r.what /\ q.changes = r.changes /\ q.relations = r.relations
          /\ q.before = r.before /\ q.alone = r.alone
          /\ \/ connections' = PutConnections(RelationsToSend(c)) /\ Others(c)
             \/ UNCHANGED connections /\ q.pc = "failed"
      BY <1>8 DEF ConnectionsPut, Kept, Alike
    <2>2. RelationsToSend(c) = Plan(r)
      BY Zenon DEF RelationsToSend, Plan
    <2>3. Plan(q) = Plan(r)
      BY <2>1, Zenon DEF Plan
    <2>4. r.what = "details" => r.changes \in Details
      BY <2>1 DEF Placed
    <2>5. AllDetails(PutConnections(Plan(r)))
      <3>1. \A ch \in DOMAIN Plan(r) : Sendable(Plan(r)[ch])
        BY <2>4, PlannedIs DEF Linked
      <3> QED
        BY <3>1, PutKeepsAllDetails
    <2> HIDE DEF r
    <2>6. AllDetails(connections')
      BY <2>1, <2>2, <2>5
    <2>7. Linked(q, connections')
      BY <2>1, <2>2, <2>3 DEF Linked, r, Reading
    <2> QED
      BY <2>1, <2>6, <2>7
  <1>9. CASE Audited(c, q)
    <2>1. /\ r.pc = "written" /\ q.pc \in {"done", "failed"} /\ UNCHANGED connections
          /\ q.what = r.what /\ q.changes = r.changes /\ q.relations = r.relations
          /\ q.before = r.before /\ q.alone = r.alone
      BY <1>9 DEF Audited, Kept, Alike
    <2>2. Plan(q) = Plan(r)
      BY <2>1, Zenon DEF Plan
    <2> HIDE DEF r
    <2> QED
      BY <2>1, <2>2 DEF Linked, r, Reading
  <1>10. CASE Created(c, q)
    BY <1>10 DEF Created, Linked, Placed, Kept, Alike, Before, Reading
  <1>11. CASE Described(c, q)
    BY <1>11 DEF Described, Linked, Placed, Alike, Reading
  <1> QED
    BY <1>1, <1>2, <1>3, <1>4, <1>5, <1>6, <1>7, <1>8, <1>9, <1>10, <1>11 DEF Outcome

LEMMA LinkedNext ==
  ASSUME Shaped, AllPlaced, AllLinked, events \in Nat, Next
  PROVE  AllLinked'
  <1>1. (\E c \in Call : \E q : Gets(c, q) /\ Outcome(c, q)) \/ Edited
    BY StepOutcome
  <1>2. \A d \in Call : /\ Linked(call[d], connections)
                        /\ \A all : Linked([call[d] EXCEPT !.alone = FALSE], all)
    BY LinkedAlone DEF AllLinked
  <1>3. AllDetails(connections') /\ \A d \in Call : Linked(call'[d], connections')
    <2>1. CASE \E c \in Call : \E q : Gets(c, q) /\ Outcome(c, q)
      <3>1. PICK c, q : c \in Call /\ Gets(c, q) /\ Outcome(c, q)
        BY <2>1
      <3>2. /\ AllDetails(connections') /\ Linked(q, connections')
            /\ connections' = connections \/ Others(c)
        BY <3>1, OutcomeLinked DEF AllLinked, AllPlaced
      <3>3. \A d \in Call : \/ d = c /\ call'[d] = q
                            \/ call'[d] = call[d] /\ connections' = connections
                            \/ call'[d] = [call[d] EXCEPT !.alone = FALSE]
        BY <3>1, <3>2 DEF Gets, Others
      <3> QED
        BY <1>2, <3>2, <3>3, Zenon
    <2>2. CASE Edited
      <3>1. /\ UNCHANGED connections
            /\ \A d \in Call : call'[d] = [call[d] EXCEPT !.alone = FALSE]
        BY <2>2, Zenon DEF Edited
      <3> QED
        BY <1>2, <3>1, Zenon DEF AllLinked
    <2> QED
      BY <1>1, <2>1, <2>2
  <1> QED
    BY <1>3 DEF AllLinked

\* What the PUT of a call's plan leaves, when it is made of what it read.
LEMMA PlanIsKept ==
  ASSUME NEW r, AllDetails(r.relations), r.what = "details" => r.changes \in Details
  PROVE  LET after == PutConnections(Plan(r))
             channel == r.changes.channel IN
         /\ r.what = "details" => DOMAIN after = DOMAIN r.relations
         /\ \A ch \in DOMAIN after \cap DOMAIN r.relations :
              r.what # "details" \/ ch # channel =>
                /\ \A f \in DetailFields \ {"phoneNumbers"} : after[ch][f] = r.relations[ch][f]
                /\ Numbers(after[ch].phoneNumbers) = Numbers(r.relations[ch].phoneNumbers)
         /\ r.what = "details" /\ channel \in DOMAIN r.relations =>
              ConnectionDetailsToDomain(after[channel])
                = Merge(ConnectionDetailsToDomain(r.relations[channel]), r.changes.details)
  <1> DEFINE after == PutConnections(Plan(r))
             channel == r.changes.channel
             info == Merge(ConnectionDetailsToDomain(r.relations[channel]), r.changes.details)
  <1>1. /\ \A ch \in DOMAIN Plan(r) \cap DOMAIN r.relations :
             r.what # "details" \/ ch # channel => Resends(r, ch)
        /\ r.what = "details" =>
             /\ DOMAIN Plan(r) = DOMAIN r.relations
             /\ channel \in DOMAIN r.relations =>
                  Plan(r)[channel] = ConnectionDetailsToWire(info)
    BY PlannedIs
  <1>2. /\ DOMAIN after = DOMAIN Plan(r)
        /\ \A ch \in DOMAIN Plan(r) \cap DOMAIN r.relations :
             after[ch] = PutOne(NoDetails, Plan(r)[ch])
    BY DEF PutConnections, PutOne, InBase
  <1>3. ASSUME NEW ch \in DOMAIN after \cap DOMAIN r.relations,
               r.what # "details" \/ ch # channel
        PROVE  /\ \A f \in DetailFields \ {"phoneNumbers"} : after[ch][f] = r.relations[ch][f]
               /\ Numbers(after[ch].phoneNumbers) = Numbers(r.relations[ch].phoneNumbers)
    <2>1. after[ch] = PutOne(NoDetails, RelationToWrite(r.relations[ch]))
      BY <1>1, <1>2, <1>3 DEF Resends
    <2>2. IsDetails(r.relations[ch])
      BY DEF AllDetails
    <2> HIDE DEF after
    <2> QED
      BY <2>1, <2>2, ResentIsKept
  <1>4. ASSUME r.what = "details", channel \in DOMAIN r.relations
        PROVE  ConnectionDetailsToDomain(after[channel]) = info
    <2>1. after[channel] = PutOne(NoDetails, ConnectionDetailsToWire(info))
      BY <1>1, <1>2, <1>4
    <2>2. IsDetails(r.relations[channel])
      BY <1>4 DEF AllDetails
    <2>3. IsInfo(info)
      BY <1>4, <2>2, MergedIsInfo
    <2> HIDE DEF after, info, channel
    <2> QED
      BY <2>1, <2>3, NothingHeld, SentIsReadBack
  <1> QED
    BY <1>1, <1>2, <1>3, <1>4

LEMMA LinkedKeepDetails ==
  ASSUME AllPlaced, AllLinked
  PROVE  ConnectionsKeepDetails
  <1> SUFFICES ASSUME NEW c \in Call, Ended(c), kind = "Service"
               PROVE  LET before == call[c].relations
                          about == IF call[c].what = "details" THEN {call[c].changes.channel} ELSE {}
                      IN  /\ call[c].what = "details" => DOMAIN connections = DOMAIN before
                          /\ \A ch \in (DOMAIN connections \cap DOMAIN before) \ about :
                               /\ \A f \in DetailFields \ {"phoneNumbers"} :
                                    connections[ch][f] = before[ch][f]
                               /\ Numbers(connections[ch].phoneNumbers) = Numbers(before[ch].phoneNumbers)
                          /\ (call[c].pc = "done" /\ call[c].what = "details") =>
                               \A ch \in about :
                                 ConnectionDetailsToDomain(connections[ch])
                                   = Merge(ConnectionDetailsToDomain(before[ch]),
                                           call[c].changes.details)
    BY DEF ConnectionsKeepDetails
  <1> DEFINE r == call[c]
             after == PutConnections(Plan(r))
             channel == r.changes.channel
  <1>1. r.pc \in {"done", "failed"} /\ r.alone = TRUE /\ r.before # Nothing
    BY DEF Ended, AllPlaced, Placed
  <1>2. Linked(r, connections) /\ Placed(r)
    BY DEF AllLinked, AllPlaced
  <1>3. AllDetails(r.relations) /\ (r.what = "details" => r.changes \in Details)
    BY <1>1, <1>2 DEF Linked, Placed
  <1>4. /\ connections = r.relations \/ connections = after
        /\ r.what = "details" /\ r.pc = "done" => connections = after /\ channel \in DOMAIN r.relations
    BY <1>1, <1>2 DEF Linked
  <1>5. /\ r.what = "details" => DOMAIN after = DOMAIN r.relations
        /\ \A ch \in DOMAIN after \cap DOMAIN r.relations :
             r.what # "details" \/ ch # channel =>
               /\ \A f \in DetailFields \ {"phoneNumbers"} : after[ch][f] = r.relations[ch][f]
               /\ Numbers(after[ch].phoneNumbers) = Numbers(r.relations[ch].phoneNumbers)
        /\ r.what = "details" /\ channel \in DOMAIN r.relations =>
             ConnectionDetailsToDomain(after[channel])
               = Merge(ConnectionDetailsToDomain(r.relations[channel]), r.changes.details)
    BY <1>3, PlanIsKept
  <1> HIDE DEF after, channel
  <1>6. r.what = "details" => DOMAIN connections = DOMAIN r.relations
    BY <1>4, <1>5
  <1>7. ASSUME NEW ch \in DOMAIN connections \cap DOMAIN r.relations,
               r.what # "details" \/ ch # channel
        PROVE  /\ \A f \in DetailFields \ {"phoneNumbers"} : connections[ch][f] = r.relations[ch][f]
               /\ Numbers(connections[ch].phoneNumbers) = Numbers(r.relations[ch].phoneNumbers)
    BY <1>4, <1>5, <1>7
  <1>8. r.what = "details" /\ r.pc = "done" =>
          ConnectionDetailsToDomain(connections[channel])
            = Merge(ConnectionDetailsToDomain(r.relations[channel]), r.changes.details)
    BY <1>4, <1>5
  <1> QED
    BY <1>6, <1>7, <1>8 DEF channel

-----------------------------------------------------------------------------
(* What is sent of an item: always its status, and what PTV requires.       *)

LEMMA First ==
  \A f, g, x : x \in DOMAIN f => x \in DOMAIN (f @@ g) /\ (f @@ g)[x] = f[x]
  BY DEF @@

LEMMA FirstOfMany ==
  \A a, b, c, d, e, f, g, x : x \in DOMAIN a =>
    /\ x \in DOMAIN (((((a @@ b) @@ c) @@ d) @@ e) @@ f)
    /\ x \in DOMAIN ((((((a @@ b) @@ c) @@ d) @@ e) @@ f) @@ g)
  BY First, ZenonT(60)

\* The parts of a service's body, and of a channel's.
ServiceParts(changes, current, inherited) ==
  LET touches == DOMAIN changes
      unlinks == "generalDescriptionId" \in touches /\ changes["generalDescriptionId"] = {} IN
  [status |-> "publishingStatus" :> Touched(changes, "publishingStatus", current.publishingStatus),
   type |-> OnlyIf("type" \in touches \/ unlinks, "type" :> Touched(changes, "type", current.type)),
   names |-> OnlyIf("names" \in touches,
     "nameList" :> (KeptWireItems(current.nameList, {"Name"})
                      \cup TextToItems(Touched(changes, "names", {}), "Name"))),
   texts |-> OnlyIf({"summaries", "descriptions"} \cap touches # {},
     "descriptionList" :> ServiceDescriptions(changes, current)),
   lists |-> [f \in ListsSent(changes, current) |->
     OwnEntries(Touched(changes, f, current[f]), inherited)],
   languages |-> OnlyIf("languages" \in touches, "languages" :> Touched(changes, "languages", {})),
   link |-> OnlyIf("generalDescriptionId" \in touches /\ ~unlinks,
     "generalDescriptionId" :> Touched(changes, "generalDescriptionId", {})),
   clear |-> {f \in Flagged \cap touches : changes[f] = {}}
               \cup IF unlinks THEN {"generalDescriptionId"} ELSE {}]

LEMMA ServiceBody ==
  ASSUME NEW changes, NEW current, NEW inherited
  PROVE  LET p == ServiceParts(changes, current, inherited)
             body == ServiceChangesToV11Body(changes, current, inherited) IN
         /\ body.set = (((((p.status @@ p.type) @@ p.names) @@ p.texts) @@ p.lists)
                          @@ p.languages) @@ p.link
         /\ body.clear = p.clear
  BY DEF ServiceParts, ServiceChangesToV11Body

ChannelParts(changes, current, type) ==
  LET touches == DOMAIN changes IN
  [status |-> "publishingStatus" :> Touched(changes, "publishingStatus", current.publishingStatus),
   authentication |-> OnlyIf(type = "EChannel",
     "requiresAuthentication" :>
       Touched(changes, "requiresAuthentication", current.requiresAuthentication)),
   names |-> OnlyIf({"names", "languages"} \cap touches # {},
     "nameList" :> (KeptChannelItems(current.nameList,
                      IF "names" \in touches THEN {"Name"} ELSE {}, changes)
                      \cup TextToItems(Touched(changes, "names", {}), "Name"))),
   texts |-> OnlyIf({"descriptions", "summaries", "languages"} \cap touches # {},
     "descriptionList" :> ChannelDescriptions(changes, current)),
   languages |-> OnlyIf("languages" \in touches, "languages" :> Touched(changes, "languages", {})),
   details |-> ChannelDetailsToV11(changes, type)]

LEMMA ChannelBody ==
  ASSUME NEW changes, NEW current, NEW type
  PROVE  LET p == ChannelParts(changes, current, type) IN
         ChannelChangesToV11Body(changes, current, type).set =
           ((((p.status @@ p.authentication) @@ p.names) @@ p.texts) @@ p.languages)
             @@ p.details.set
  BY DEF ChannelParts, ChannelChangesToV11Body

LEMMA StatusIsSent ==
  ASSUME NEW k, NEW changes, NEW current, NEW inherited
  PROVE  "publishingStatus" \in DOMAIN BodyOf(k, changes, current, inherited).set
  <1> DEFINE x == "publishingStatus"
             s == ServiceParts(changes, current, inherited)
             n == ChannelParts(changes, current, k)
  <1>1. \A v : x \in DOMAIN (x :> v)
    BY Single
  <1>2. x \in DOMAIN ServiceChangesToV11Body(changes, current, inherited).set
    <2>1. x \in DOMAIN s.status
      BY <1>1 DEF ServiceParts
    <2>2. ServiceChangesToV11Body(changes, current, inherited).set =
            (((((s.status @@ s.type) @@ s.names) @@ s.texts) @@ s.lists) @@ s.languages) @@ s.link
      BY ServiceBody, Zenon
    <2> HIDE DEF s, x
    <2> QED
      BY <2>1, <2>2, FirstOfMany, Zenon
  <1>3. x \in DOMAIN OrganizationChangesToV11Body(changes, current).set
    BY <1>1, First, Zenon DEF OrganizationChangesToV11Body
  <1>4. x \in DOMAIN ChannelChangesToV11Body(changes, current, k).set
    <2>1. x \in DOMAIN n.status
      BY <1>1 DEF ChannelParts
    <2>2. ChannelChangesToV11Body(changes, current, k).set =
            ((((n.status @@ n.authentication) @@ n.names) @@ n.texts) @@ n.languages)
              @@ n.details.set
      BY ChannelBody, Zenon
    <2> HIDE DEF n, x
    <2> QED
      BY <2>1, <2>2, FirstOfMany, Zenon
  <1> QED
    BY <1>2, <1>3, <1>4, Zenon DEF BodyOf

LEMMA StatusInSchemas ==
  ASSUME NEW k \in Kinds
  PROVE  /\ "publishingStatus" \in ReadSchema(k)
         /\ "publishingStatus" \in WriteSchema(k).takes
         /\ "publishingStatus" \notin WriteSchema(k).clears
  <1> USE DEF ItemTexts, SupportLists, Classifications, Required, Flagged
  <1>1. CASE k = "Service"
    BY <1>1 DEF ReadSchema, WriteSchema, ServiceOut, ServiceInBase
  <1>2. CASE k = "Organization"
    BY <1>2 DEF ReadSchema, WriteSchema, OrganizationOut, OrganizationInBase
  <1>3. CASE k = "EChannel"
    BY <1>3 DEF ReadSchema, WriteSchema, ElectronicChannelOut, ElectronicChannelInBase
  <1>4. CASE k = "Phone"
    BY <1>4 DEF ReadSchema, WriteSchema, PhoneChannelOut, PhoneChannelInBase
  <1>5. CASE k = "PrintableForm"
    BY <1>5 DEF ReadSchema, WriteSchema, PrintableFormChannelOut, PrintableFormChannelInBase
  <1>6. CASE k = "ServiceLocation"
    BY <1>6 DEF ReadSchema, WriteSchema, ServiceLocationChannelOut, ServiceLocationChannelInBase
  <1>7. CASE k = "WebPage"
    BY <1>7 DEF ReadSchema, WriteSchema, WebPageChannelOut, WebPageChannelInBase
  <1> QED
    BY <1>1, <1>2, <1>3, <1>4, <1>5, <1>6, <1>7 DEF Kinds, ChannelTypes

LEMMA ItemAfterPut ==
  ASSUME NEW k \in Kinds, NEW stored, DOMAIN stored = ReadSchema(k),
         NEW body, "publishingStatus" \in DOMAIN body.set
  PROVE  LET after == Put(stored, body, WriteSchema(k)) IN
         DOMAIN after = ReadSchema(k) /\ after.publishingStatus = body.set.publishingStatus
  <1> DEFINE schema == WriteSchema(k)
             told == Accepted(body, schema)
             after == Put(stored, body, schema)
  <1>1. /\ "publishingStatus" \in ReadSchema(k) /\ "publishingStatus" \in schema.takes
        /\ "publishingStatus" \notin schema.clears
    BY StatusInSchemas
  <1> HIDE DEF schema
  <1>2. /\ told.set = [f \in DOMAIN body.set \cap schema.takes |-> body.set[f]]
        /\ told.clear = body.clear \cap schema.clears
    BY DEF Accepted
  <1>3. /\ "publishingStatus" \in DOMAIN told.set /\ "publishingStatus" \notin told.clear
        /\ told.set.publishingStatus = body.set.publishingStatus
    BY <1>1, <1>2
  <1> HIDE DEF told
  <1>4. after = [f \in DOMAIN stored |->
                   CASE f = "phoneNumbers" -> PutPhones(stored[f], told, schema.typed)
                     [] f # "phoneNumbers" /\ f \in told.clear -> {}
                     [] f \notin told.clear \cup {"phoneNumbers"} /\ f \in DOMAIN told.set
                          /\ (f \in Scalars \/ told.set[f] # {}) -> told.set[f]
                     [] OTHER -> stored[f]]
    BY Zenon DEF Put, told
  <1> HIDE DEF after
  <1>5. DOMAIN after = ReadSchema(k) /\ after.publishingStatus = body.set.publishingStatus
    BY <1>1, <1>3, <1>4 DEF Scalars
  <1> QED
    BY <1>5, Zenon DEF after, schema

-----------------------------------------------------------------------------
(* The versions of the item.                                                *)

Statuses == {{"Draft"}, {"Published"}, {"Modified"}, {"Deleted"}}

LEMMA StatusesDiffer ==
  /\ {"Published"} # {"Modified"} /\ {"Published"} # {"Deleted"} /\ {"Published"} # {"Draft"}
  /\ {"Modified"} # {"Deleted"} /\ {"Modified"} # {"Draft"} /\ {"Deleted"} # {"Draft"}
  OBVIOUS

\* The public read shows the latest version, but for a Modified one.
Versions ==
  /\ kind \in Kinds
  /\ DOMAIN item = ReadSchema(kind)
  /\ published # Nothing => DOMAIN published = ReadSchema(kind)
  /\ published # Nothing => item.publishingStatus \in {{"Published"}, {"Modified"}}
  /\ published # Nothing /\ item.publishingStatus = {"Published"} => published = item

LEMMA VersionsInit == ASSUME Init PROVE Versions
  BY WritesAssumption DEF Init, Versions

LEMMA VersionStored ==
  ASSUME Versions, UNCHANGED kind, NEW after, DOMAIN after = ReadSchema(kind), Stored(after),
         published # Nothing =>
           after.publishingStatus \in {{"Published"}, {"Modified"}, {"Deleted"}}
  PROVE  Versions'
  BY StatusesDiffer DEF Versions, Stored

LEMMA VersionEdited ==
  ASSUME Versions, UNCHANGED kind, Edited
  PROVE  Versions'
  <1>1. "publishingStatus" \in DOMAIN item
    BY StatusInSchemas DEF Versions
  <1>2. ASSUME NEW edit \in Edits[kind]
        PROVE  /\ DOMAIN (edit @@ item) = ReadSchema(kind)
               /\ (edit @@ item).publishingStatus = item.publishingStatus
    <2>1. DOMAIN edit \subseteq ReadSchema(kind) \ {"publishingStatus"}
      BY WritesAssumption DEF Versions
    <2> QED
      BY <1>1, <2>1 DEF Versions, @@
  <1>3. ASSUME NEW whole, DOMAIN whole = ReadSchema(kind), NEW status
        PROVE  LET after == ("publishingStatus" :> status) @@ whole IN
               DOMAIN after = ReadSchema(kind) /\ after.publishingStatus = status
    <2>1. "publishingStatus" \in ReadSchema(kind)
      BY StatusInSchemas DEF Versions
    <2> QED
      BY <1>3, <2>1 DEF @@, :>
  <1>4. CASE \E edit \in Edits[kind] : Stored(edit @@ item)
    <2>1. PICK edit \in Edits[kind] : Stored(edit @@ item)
      BY <1>4
    <2>2. PICK after : after = edit @@ item
      OBVIOUS
    <2>3. DOMAIN after = ReadSchema(kind) /\ after.publishingStatus = item.publishingStatus
      BY <1>2, <2>2
    <2>4. Stored(after)
      BY <2>1, <2>2
    <2> QED
      BY <2>3, <2>4, VersionStored DEF Versions
  <1>5. CASE \E edit \in Edits[kind] :
               /\ item' = ("publishingStatus" :> {"Modified"}) @@ (edit @@ item)
               /\ UNCHANGED published
    <2>1. PICK edit \in Edits[kind] :
            /\ item' = ("publishingStatus" :> {"Modified"}) @@ (edit @@ item)
            /\ UNCHANGED published
      BY <1>5
    <2>2. DOMAIN item' = ReadSchema(kind) /\ item'.publishingStatus = {"Modified"}
      BY <1>2, <1>3, <2>1
    <2> QED
      BY <2>1, <2>2, StatusesDiffer DEF Versions
  <1>6. CASE Stored(("publishingStatus" :> {"Published"}) @@ item)
    <2>1. PICK after : after = ("publishingStatus" :> {"Published"}) @@ item
      OBVIOUS
    <2>2. DOMAIN after = ReadSchema(kind) /\ after.publishingStatus = {"Published"}
      BY <1>3, <2>1 DEF Versions
    <2>3. Stored(after)
      BY <1>6, <2>1
    <2> QED
      BY <2>2, <2>3, VersionStored
  <1> QED
    BY <1>4, <1>5, <1>6 DEF Edited

-----------------------------------------------------------------------------
(* A service's body has what PTV requires of it.                            *)

LEMMA Last ==
  \A f, g, x : /\ x \in DOMAIN g => x \in DOMAIN (f @@ g)
               /\ x \in DOMAIN g /\ x \notin DOMAIN f => (f @@ g)[x] = g[x]
               /\ x \notin DOMAIN f /\ x \notin DOMAIN g => x \notin DOMAIN (f @@ g)
  BY DEF @@

LEMMA OneOfSeven ==
  ASSUME NEW a, NEW b, NEW c, NEW d, NEW e, NEW f, NEW g, NEW x
  PROVE  LET all == (((((a @@ b) @@ c) @@ d) @@ e) @@ f) @@ g IN
         /\ x \in DOMAIN b => x \in DOMAIN all
         /\ x \in DOMAIN g => x \in DOMAIN all
         /\ /\ x \in DOMAIN e /\ x \notin DOMAIN a /\ x \notin DOMAIN b
            /\ x \notin DOMAIN c /\ x \notin DOMAIN d
            => x \in DOMAIN all /\ all[x] = e[x]
  <1> DEFINE p2 == a @@ b
             p3 == p2 @@ c
             p4 == p3 @@ d
             p5 == p4 @@ e
             p6 == p5 @@ f
             p7 == p6 @@ g
  <1>2. /\ x \in DOMAIN b => x \in DOMAIN p2
        /\ x \notin DOMAIN a /\ x \notin DOMAIN b => x \notin DOMAIN p2
    BY Last, Zenon
  <1> HIDE DEF p2
  <1>3. /\ x \in DOMAIN p2 => x \in DOMAIN p3
        /\ x \notin DOMAIN p2 /\ x \notin DOMAIN c => x \notin DOMAIN p3
    BY First, Last, Zenon
  <1> HIDE DEF p3
  <1>4. /\ x \in DOMAIN p3 => x \in DOMAIN p4
        /\ x \notin DOMAIN p3 /\ x \notin DOMAIN d => x \notin DOMAIN p4
    BY First, Last, Zenon
  <1> HIDE DEF p4
  <1>5. /\ x \in DOMAIN p4 => x \in DOMAIN p5
        /\ x \in DOMAIN e => x \in DOMAIN p5
        /\ x \in DOMAIN e /\ x \notin DOMAIN p4 => p5[x] = e[x]
    BY First, Last, Zenon
  <1> HIDE DEF p5
  <1>6. x \in DOMAIN p5 => x \in DOMAIN p6 /\ p6[x] = p5[x]
    BY First, Zenon
  <1> HIDE DEF p6
  <1>7. /\ x \in DOMAIN p6 => x \in DOMAIN p7 /\ p7[x] = p6[x]
        /\ x \in DOMAIN g => x \in DOMAIN p7
    BY First, Last, Zenon
  <1> HIDE DEF p7
  <1>8. /\ x \in DOMAIN b => x \in DOMAIN p7
        /\ x \in DOMAIN g => x \in DOMAIN p7
        /\ /\ x \in DOMAIN e /\ x \notin DOMAIN a /\ x \notin DOMAIN b
           /\ x \notin DOMAIN c /\ x \notin DOMAIN d
           => x \in DOMAIN p7 /\ p7[x] = e[x]
    BY <1>2, <1>3, <1>4, <1>5, <1>6, <1>7
  <1> QED
    BY <1>8, Zenon DEF p7, p6, p5, p4, p3, p2

Unlinks(changes) ==
  "generalDescriptionId" \in DOMAIN changes /\ changes["generalDescriptionId"] = {}

LEMMA OptionalField ==
  ASSUME NEW b \in BOOLEAN, NEW x, NEW part, \E v : part = OnlyIf(b, x :> v)
  PROVE  DOMAIN part \subseteq {x} /\ (b => x \in DOMAIN part)
  <1>1. PICK v : part = OnlyIf(b, x :> v)
    OBVIOUS
  <1>2. DOMAIN OnlyIf(b, x :> v) \subseteq {x} /\ (b => DOMAIN OnlyIf(b, x :> v) = {x})
    BY Optional
  <1> QED
    BY <1>1, <1>2

LEMMA ServiceSends ==
  ASSUME NEW changes, NEW current, NEW inherited
  PROVE  LET body == ServiceChangesToV11Body(changes, current, inherited) IN
         /\ Unlinks(changes) => "type" \in DOMAIN body.set
         /\ "generalDescriptionId" \in DOMAIN changes /\ ~Unlinks(changes) =>
              "generalDescriptionId" \in DOMAIN body.set
         /\ "generalDescriptionId" \in body.clear <=> Unlinks(changes)
         /\ \A f \in ListsSent(changes, current) :
              /\ f \in DOMAIN body.set
              /\ body.set[f] = OwnEntries(Touched(changes, f, current[f]), inherited)
  <1> DEFINE p == ServiceParts(changes, current, inherited)
             body == ServiceChangesToV11Body(changes, current, inherited)
  <1>1. /\ body.set = (((((p.status @@ p.type) @@ p.names) @@ p.texts) @@ p.lists)
                         @@ p.languages) @@ p.link
        /\ body.clear = p.clear
    BY ServiceBody, Zenon
  <1>2. DOMAIN p.status = {"publishingStatus"}
    BY Single DEF ServiceParts
  <1> DEFINE touches == DOMAIN changes
             B1 == "type" \in touches \/ Unlinks(changes)
             B2 == "names" \in touches
             B3 == {"summaries", "descriptions"} \cap touches # {}
             B4 == "generalDescriptionId" \in touches /\ ~Unlinks(changes)
  <1>0. B1 \in BOOLEAN /\ B2 \in BOOLEAN /\ B3 \in BOOLEAN /\ B4 \in BOOLEAN
    BY DEF Unlinks
  <1>a. \E v : p.type = OnlyIf(B1, "type" :> v)
    BY DEF ServiceParts, Unlinks
  <1>b. \E v : p.names = OnlyIf(B2, "nameList" :> v)
    BY DEF ServiceParts
  <1>c. \E v : p.texts = OnlyIf(B3, "descriptionList" :> v)
    BY DEF ServiceParts
  <1>d. \E v : p.link = OnlyIf(B4, "generalDescriptionId" :> v)
    BY DEF ServiceParts, Unlinks
  <1>3. /\ DOMAIN p.type \subseteq {"type"} /\ DOMAIN p.names \subseteq {"nameList"}
        /\ DOMAIN p.texts \subseteq {"descriptionList"}
        /\ DOMAIN p.link \subseteq {"generalDescriptionId"}
        /\ B1 => "type" \in DOMAIN p.type
        /\ B4 => "generalDescriptionId" \in DOMAIN p.link
    <2> HIDE DEF B1, B2, B3, B4, p
    <2>1. DOMAIN p.type \subseteq {"type"} /\ (B1 => "type" \in DOMAIN p.type)
      BY <1>0, <1>a, OptionalField
    <2>2. DOMAIN p.names \subseteq {"nameList"} /\ (B2 => "nameList" \in DOMAIN p.names)
      BY <1>0, <1>b, OptionalField
    <2>3. DOMAIN p.texts \subseteq {"descriptionList"} /\ (B3 => "descriptionList" \in DOMAIN p.texts)
      BY <1>0, <1>c, OptionalField
    <2>4. DOMAIN p.link \subseteq {"generalDescriptionId"} /\ (B4 => "generalDescriptionId" \in DOMAIN p.link)
      BY <1>0, <1>d, OptionalField
    <2> QED
      BY <2>1, <2>2, <2>3, <2>4
  <1>4. Unlinks(changes) => "type" \in DOMAIN p.type
    BY <1>3
  <1>5. "generalDescriptionId" \in DOMAIN changes /\ ~Unlinks(changes) =>
          "generalDescriptionId" \in DOMAIN p.link
    BY <1>3
  <1>6. "generalDescriptionId" \in p.clear <=> Unlinks(changes)
    BY DEF ServiceParts, Unlinks, Flagged
  <1>7. p.lists = [f \in ListsSent(changes, current) |->
                     OwnEntries(Touched(changes, f, current[f]), inherited)]
    BY DEF ServiceParts
  <1>8. \A f \in ListsSent(changes, current) :
          f \notin {"publishingStatus", "type", "nameList", "descriptionList"}
    BY DEF ListsSent, Classifications, Required, Flagged
  <1> HIDE DEF p, body
  <1>9. Unlinks(changes) => "type" \in DOMAIN body.set
    BY <1>1, <1>4, OneOfSeven
  <1>10. "generalDescriptionId" \in DOMAIN changes /\ ~Unlinks(changes) =>
              "generalDescriptionId" \in DOMAIN body.set
    BY <1>1, <1>5, OneOfSeven
  <1>11. ASSUME NEW f \in ListsSent(changes, current)
         PROVE  f \in DOMAIN body.set /\ body.set[f] = p.lists[f]
    <2>1. /\ f \in DOMAIN p.lists /\ f \notin DOMAIN p.status /\ f \notin DOMAIN p.type
          /\ f \notin DOMAIN p.names /\ f \notin DOMAIN p.texts
      BY <1>2, <1>3, <1>7, <1>8
    <2> QED
      BY <1>1, <2>1, OneOfSeven
  <1>12. ASSUME NEW f \in ListsSent(changes, current)
         PROVE  /\ f \in DOMAIN body.set
                /\ body.set[f] = OwnEntries(Touched(changes, f, current[f]), inherited)
    BY <1>7, <1>11
  <1> QED
    BY <1>1, <1>6, <1>9, <1>10, <1>12 DEF body

\* What the code reads of a service, in the fields PTV requires.
LEMMA ServiceIsRead ==
  ASSUME NEW stored, DOMAIN stored = ServiceOut
  PROVE  LET wire == WireOf(stored)
             seen == ServiceWireToDomain(wire) IN
         /\ wire["generalDescriptionId"] = stored["generalDescriptionId"]
         /\ Required \cup {"generalDescriptionId"} \subseteq DOMAIN seen
         /\ \A f \in Required \cup {"generalDescriptionId"} : seen[f] = wire[f]
  <1> DEFINE wire == WireOf(stored)
             seen == ServiceWireToDomain(wire)
             fields == Required \cup {"generalDescriptionId"}
  <1>1. "generalDescriptionId" \in ServiceOut /\ "generalDescriptionId" \notin Classifications
    BY DEF ServiceOut, Classifications, Required, Flagged
  <1>2. /\ DOMAIN wire = ServiceOut
        /\ wire["generalDescriptionId"] = stored["generalDescriptionId"]
    BY <1>1 DEF WireOf
  <1>3. fields \subseteq ServiceOut /\
        \A f \in fields : f \notin {"nameList", "descriptionList", "names", "summaries", "descriptions"}
    BY DEF ServiceOut, Classifications, Required
  <1> HIDE DEF wire, fields
  <1>4. seen = [f \in (DOMAIN wire \ {"nameList", "descriptionList"})
                        \cup {"names", "summaries", "descriptions"} |->
                  CASE f = "names" -> PreferredText(wire.nameList, "Name")
                    [] f = "summaries" -> PreferredText(wire.descriptionList, "Summary")
                    [] f = "descriptions" -> PreferredText(wire.descriptionList, "Description")
                    [] OTHER -> wire[f]]
    BY Zenon DEF ServiceWireToDomain
  <1> HIDE DEF seen
  <1>5. fields \subseteq DOMAIN seen /\ \A f \in fields : seen[f] = wire[f]
    BY <1>2, <1>3, <1>4
  <1> QED
    BY <1>2, <1>5 DEF wire, seen, fields

Approved(changes) == [f \in DOMAIN changes \ {"serviceChannelIds"} |-> changes[f]]

LEMMA RequiredIsSent ==
  ASSUME NEW stored, DOMAIN stored = ServiceOut, NEW changes, NEW inherited,
         RequiredClassifications(
           Merge(ServiceWireToDomain(WireOf(stored)), Approved(changes)))
  PROVE  ~LacksRequired(stored, ServiceChangesToV11Body(changes, WireOf(stored), inherited))
  <1> DEFINE wire == WireOf(stored)
             seen == ServiceWireToDomain(wire)
             proposed == Merge(seen, Approved(changes))
             body == ServiceChangesToV11Body(changes, wire, inherited)
             gd == "generalDescriptionId"
             fields == Required \cup {gd}
  <1>1. /\ wire[gd] = stored[gd]
        /\ fields \subseteq DOMAIN seen
        /\ \A f \in fields : seen[f] = wire[f]
    BY ServiceIsRead, Zenon
  <1>2. /\ Unlinks(changes) => "type" \in DOMAIN body.set
        /\ gd \in DOMAIN changes /\ ~Unlinks(changes) => gd \in DOMAIN body.set
        /\ gd \in body.clear <=> Unlinks(changes)
        /\ \A f \in ListsSent(changes, wire) :
             /\ f \in DOMAIN body.set
             /\ body.set[f] = OwnEntries(Touched(changes, f, wire[f]), inherited)
    <2> HIDE DEF wire
    <2> QED
      BY ServiceSends
  <1>3. proposed[gd] = {} => \A f \in Required : proposed[f] # {}
    BY DEF RequiredClassifications
  <1> HIDE DEF seen, wire, body
  <1>4. \A f \in fields : proposed[f] = Touched(changes, f, wire[f])
    <2>1. \A f \in fields : f # "serviceChannelIds"
      BY DEF Required
    <2>2. \A f \in fields : proposed[f] = IF f \in DOMAIN changes THEN changes[f] ELSE seen[f]
      BY <1>1, <2>1 DEF Merge, @@, Approved
    <2> QED
      BY <1>1, <2>2 DEF Touched
  <1> HIDE DEF proposed
  <1>5. \A entries : OwnEntries(entries, inherited) = {} => entries = {}
    BY DEF OwnEntries
  <1>6. CASE Unlinks(changes) \/ (gd \notin DOMAIN changes /\ stored[gd] = {})
    <2>1. proposed[gd] = {} /\ ~KeepsGeneralDescription(changes, wire)
      BY <1>1, <1>4, <1>6 DEF Unlinks, Touched, KeepsGeneralDescription
    <2>2. \A f \in Required : f \in ListsSent(changes, wire)
      BY <2>1 DEF ListsSent
    <2>3. \A f \in Required : f \in DOMAIN body.set /\ body.set[f] # {}
      BY <1>2, <1>3, <1>4, <1>5, <2>1, <2>2
    <2> QED
      BY <1>2, <2>3 DEF LacksRequired, body, wire
  <1>7. CASE ~Unlinks(changes) /\ (gd \in DOMAIN changes \/ stored[gd] # {})
    BY <1>2, <1>7 DEF LacksRequired, body, wire
  <1> QED
    BY <1>6, <1>7

-----------------------------------------------------------------------------
(* A new item's body has what PTV requires of its kind.                     *)

LEMMA TextsOfNew ==
  ASSUME NEW new
  PROVE  DOMAIN NewTexts(new) = {"descriptionList", "publishingStatus"}
  BY DEF NewTexts, @@, :>

LEMMA NewServiceIsComplete ==
  ASSUME NEW new, ValidService(new)
  PROVE  LET body == NewServiceToV11Body(new) IN
         /\ ServiceIn \subseteq DOMAIN body
         /\ ~LacksRequired(EmptyItem("Service"), [set |-> body, clear |-> {}])
  <1> DEFINE gd == "generalDescriptionId"
             texts == NewTexts(new)
             names == "nameList" :> TextToItems(new.names, "Name")
             lists == [f \in Classifications \cup {"type", "languages"} |-> new[f]]
             B == new.generalDescriptionId # {}
             link == OnlyIf(B, gd :> new.generalDescriptionId)
             body == NewServiceToV11Body(new)
             p3 == (texts @@ names) @@ lists
  <1>1. body = p3 @@ link
    BY Zenon DEF NewServiceToV11Body
  <1>2. DOMAIN texts = {"descriptionList", "publishingStatus"} /\ DOMAIN names = {"nameList"}
    BY TextsOfNew, Single
  <1>3. B => gd \in DOMAIN link
    <2>1. B \in BOOLEAN
      OBVIOUS
    <2> HIDE DEF B
    <2> QED
      BY <2>1, OptionalField
  <1>4. /\ DOMAIN lists = Classifications \cup {"type", "languages"}
        /\ \A f \in Required : lists[f] = new[f]
    BY DEF Classifications
  <1>5. \A f \in Required : f \notin {"descriptionList", "publishingStatus", "nameList"}
                            /\ f \in Classifications
    BY DEF Required, Classifications
  <1> HIDE DEF texts, names, lists, link, body
  <1>6. /\ {"descriptionList", "publishingStatus"} \subseteq DOMAIN (texts @@ names)
        /\ DOMAIN (texts @@ names) = {"descriptionList", "publishingStatus", "nameList"}
    BY <1>2 DEF @@
  <1>7. /\ {"descriptionList", "publishingStatus", "languages"} \subseteq DOMAIN p3
        /\ \A f \in Required : f \in DOMAIN p3 /\ p3[f] = new[f]
    BY <1>4, <1>5, <1>6 DEF @@
  <1> HIDE DEF p3
  <1>8. /\ {"descriptionList", "publishingStatus", "languages"} \subseteq DOMAIN body
        /\ \A f \in Required : f \in DOMAIN body /\ body[f] = new[f]
        /\ B => gd \in DOMAIN body
    BY <1>1, <1>3, <1>7 DEF @@
  <1>9. ~LacksRequired(EmptyItem("Service"), [set |-> body, clear |-> {}])
    <2>1. ~B => \A f \in Required : new[f] # {}
      BY DEF ValidService, RequiredClassifications
    <2> HIDE DEF B
    <2>2. gd \in DOMAIN body \/ \A f \in Required : f \in DOMAIN body /\ body[f] # {}
      BY <1>8, <2>1
    <2> QED
      BY <2>2 DEF LacksRequired
  <1> QED
    BY <1>8, <1>9 DEF ServiceIn, body

LEMMA NewOrganizationIsComplete ==
  ASSUME NEW new
  PROVE  OrganizationIn \subseteq DOMAIN NewOrganizationToV11Body(new)
  <1> DEFINE alternatives == Touched(new, "alternativeNames", {})
             texts == NewTexts(new)
             names == "nameList" :> (TextToItems(new.names, "Name")
                                       \cup TextToItems(alternatives, "AlternativeName"))
             shown == "displayNameType" :> ((Touched(new, "alternativeNameShownIn", {})
                                               \cap LanguagesIn(alternatives))
                                              \cap LanguagesIn(new.names))
             rest == [f \in GivenFields(new) \cap ({"businessCode"} \cup ContactFields) |-> new[f]]
  <1>1. NewOrganizationToV11Body(new) = ((texts @@ names) @@ shown) @@ rest
    BY Zenon DEF NewOrganizationToV11Body
  <1>2. /\ DOMAIN texts = {"descriptionList", "publishingStatus"} /\ DOMAIN names = {"nameList"}
        /\ DOMAIN shown = {"displayNameType"}
    BY TextsOfNew, Single
  <1> HIDE DEF texts, names, shown, rest
  <1>3. DOMAIN ((texts @@ names) @@ shown)
          = {"descriptionList", "publishingStatus", "nameList", "displayNameType"}
    BY <1>2 DEF @@
  <1> QED
    BY <1>1, <1>3 DEF OrganizationIn, @@

\* The lists of a channel that are sent.
LEMMA ListsOfChannel ==
  ASSUME NEW new, NEW type
  PROVE  LET given == [f \in GivenFields(new) |-> new[f]]
             sent == DOMAIN ChannelDetailsToV11(given, type).set IN
         GivenFields(new) \cap (FlaggedLists(type) \cup WholeLists(type)) \subseteq sent
  <1> DEFINE changes == [f \in GivenFields(new) |-> new[f]]
             touches == DOMAIN changes \cap ChannelTypeFields(type)
             lists == FlaggedLists(type) \cap touches
             phones == Touched(changes, "phoneNumbers", {})
             located == type = "ServiceLocation" /\ "phoneNumbers" \in touches
             first == {l \in lists : changes[l] # {}} \cup (WholeLists(type) \cap touches)
                        \cup ({"isVisibleForAll", "requiresSignature"} \cap touches)
                        \cup {g \in {"accessibility"} \cap touches : changes[g] # {}}
             a == [f \in first |-> changes[f]]
             b == OnlyIf(type = "Phone" /\ "phoneNumbers" \in touches, "phoneNumbers" :> phones)
             c == OnlyIf(located /\ phones # Faxes(phones),
                         "phoneNumbers" :> (phones \ Faxes(phones)))
             d == OnlyIf(located /\ Faxes(phones) # {}, "faxNumbers" :> Faxes(phones))
             e == OnlyIf({"requiresSignature", "signatureQuantity"} \subseteq touches
                           /\ changes["requiresSignature"] = {"yes"},
                         "signatureQuantity" :> Touched(changes, "signatureQuantity", {}))
             sent == ChannelDetailsToV11(changes, type).set
  <1>1. sent = (((a @@ b) @@ c) @@ d) @@ e
    BY DEF ChannelDetailsToV11
  <1>2. DOMAIN a = first
    OBVIOUS
  <1>3. /\ FlaggedLists(type) \subseteq ChannelTypeFields(type)
        /\ WholeLists(type) \subseteq ChannelTypeFields(type)
    BY DEF FlaggedLists, WholeLists
  <1>4. \A f \in GivenFields(new) : changes[f] # {} /\ f \in DOMAIN changes
    BY DEF GivenFields
  <1>5. GivenFields(new) \cap (FlaggedLists(type) \cup WholeLists(type)) \subseteq first
    <2> HIDE DEF changes
    <2> QED
      BY <1>3, <1>4
  <1> HIDE DEF a, b, c, d, e, first, sent
  <1>6. \A x \in DOMAIN a : x \in DOMAIN sent
    BY <1>1, First, Zenon
  <1> QED
    BY <1>2, <1>5, <1>6 DEF sent

LEMMA AllOfSeven ==
  ASSUME NEW a, NEW b, NEW c, NEW d, NEW e, NEW f, NEW g
  PROVE  DOMAIN a \cup DOMAIN b \cup DOMAIN c \cup DOMAIN d \cup DOMAIN e \cup DOMAIN f \cup DOMAIN g
           \subseteq DOMAIN ((((((a @@ b) @@ c) @@ d) @@ e) @@ f) @@ g)
  <1> DEFINE p2 == a @@ b
             p3 == p2 @@ c
             p4 == p3 @@ d
             p5 == p4 @@ e
             p6 == p5 @@ f
             p7 == p6 @@ g
  <1>2. DOMAIN p2 = DOMAIN a \cup DOMAIN b
    BY Spread
  <1> HIDE DEF p2
  <1>3. DOMAIN p3 = DOMAIN p2 \cup DOMAIN c
    BY Spread
  <1> HIDE DEF p3
  <1>4. DOMAIN p4 = DOMAIN p3 \cup DOMAIN d
    BY Spread
  <1> HIDE DEF p4
  <1>5. DOMAIN p5 = DOMAIN p4 \cup DOMAIN e
    BY Spread
  <1> HIDE DEF p5
  <1>6. DOMAIN p6 = DOMAIN p5 \cup DOMAIN f
    BY Spread
  <1> HIDE DEF p6
  <1>7. DOMAIN p7 = DOMAIN p6 \cup DOMAIN g
    BY Spread
  <1> HIDE DEF p7
  <1>8. DOMAIN a \cup DOMAIN b \cup DOMAIN c \cup DOMAIN d \cup DOMAIN e \cup DOMAIN f \cup DOMAIN g
          \subseteq DOMAIN p7
    BY <1>2, <1>3, <1>4, <1>5, <1>6, <1>7
  <1> QED
    BY <1>8 DEF p7, p6, p5, p4, p3, p2

LEMMA NewChannelIsComplete ==
  ASSUME NEW type \in ChannelTypes, NEW new,
         ValidChannel(new, type, ChannelTypeFields(type), TRUE)
  PROVE  RequiredToCreate(type) \subseteq DOMAIN NewChannelToV11Body(new, type)
  <1> DEFINE a == NewTexts(new)
             b == "nameList" :> TextToItems(new.names, "Name")
             c == [f \in {"languages", "isVisibleForAll"} |-> new[f]]
             d == ChannelDetailsToV11([f \in GivenFields(new) |-> new[f]], type).set
             B1 == type = "ServiceLocation"
             B2 == type = "EChannel"
             B3 == type \in {"EChannel", "WebPage"}
             e == OnlyIf(B1, "displayNameType" :> new.languages)
             f == OnlyIf(B2, "requiresAuthentication" :>
                               Touched(new, "requiresAuthentication", {"no"}))
             g == OnlyIf(B3, "accessibility" :> {"Unknown"})
             body == NewChannelToV11Body(new, type)
             sent == GivenFields(new) \cap (FlaggedLists(type) \cup WholeLists(type))
  <1>1. body = (((((a @@ b) @@ c) @@ d) @@ e) @@ f) @@ g
    BY Zenon DEF NewChannelToV11Body
  <1>2. /\ DOMAIN a = {"descriptionList", "publishingStatus"} /\ DOMAIN b = {"nameList"}
        /\ DOMAIN c = {"languages", "isVisibleForAll"}
    BY TextsOfNew, Single
  <1>3. /\ B1 => "displayNameType" \in DOMAIN e
        /\ B2 => "requiresAuthentication" \in DOMAIN f
        /\ B3 => "accessibility" \in DOMAIN g
    <2>1. B1 \in BOOLEAN /\ B2 \in BOOLEAN /\ B3 \in BOOLEAN
      OBVIOUS
    <2> HIDE DEF B1, B2, B3
    <2>2. B1 => "displayNameType" \in DOMAIN e
      BY <2>1, OptionalField
    <2>3. B2 => "requiresAuthentication" \in DOMAIN f
      <3>1. \E v : f = OnlyIf(B2, "requiresAuthentication" :> v)
        OBVIOUS
      <3> HIDE DEF f
      <3> QED
        BY <2>1, <3>1, OptionalField
    <2>4. B3 => "accessibility" \in DOMAIN g
      BY <2>1, OptionalField
    <2> QED
      BY <2>2, <2>3, <2>4
  <1>4. sent \subseteq DOMAIN d
    BY ListsOfChannel, Zenon
  <1>5. /\ B3 => "urls" \in sent
        /\ B1 => "addresses" \in sent
        /\ type = "PrintableForm" => "formFiles" \in sent
    <2> DEFINE Of(field) == Touched(new, field, {})
    <2>1. new.names # {} /\ ValidateChannelDetails(new, type, ChannelTypeFields(type))
      BY DEF ValidChannel, HasName
    <2>2. LanguagesIn(new.names) # {} /\ \A text : LanguagesIn(text) # {} => text # {}
      BY <2>1 DEF LanguagesIn
    <2>3. \A field : Of(field) # {} => field \in GivenFields(new)
      BY DEF Touched, GivenFields
    <2>4. CASE B3
      <3>1. "urls" \in ChannelTypeFields(type)
        BY <2>4 DEF ChannelTypeFields
      <3>2. LanguagesIn(new.names) \subseteq LanguagesIn(Of("urls"))
        BY <2>1, <2>4, <3>1 DEF ValidateChannelDetails
      <3>3. "urls" \in GivenFields(new) /\ "urls" \in WholeLists(type)
        BY <2>2, <2>3, <3>1, <3>2 DEF WholeLists
      <3> QED
        BY <2>4, <3>3
    <2>5. CASE B1
      <3>1. "addresses" \in ChannelTypeFields(type)
        BY <2>5 DEF ChannelTypeFields
      <3>2. Of("addresses") # {}
        BY <2>1, <2>5, <3>1 DEF ValidateChannelDetails
      <3>3. "addresses" \in GivenFields(new) /\ "addresses" \in WholeLists(type)
        BY <2>3, <3>1, <3>2 DEF WholeLists
      <3> QED
        BY <2>5, <3>3
    <2>6. CASE type = "PrintableForm"
      <3>1. "formFiles" \in ChannelTypeFields(type)
        BY <2>6 DEF ChannelTypeFields
      <3>2. Of("formFiles") # {}
        BY <2>1, <2>6, <3>1 DEF ValidateChannelDetails
      <3>3. "formFiles" \in GivenFields(new) /\ "formFiles" \in FlaggedLists(type)
        BY <2>3, <3>1, <3>2 DEF FlaggedLists
      <3> QED
        BY <2>6, <3>3
    <2> QED
      BY <2>4, <2>5, <2>6
  <1> DEFINE parts == DOMAIN a \cup DOMAIN b \cup DOMAIN c \cup DOMAIN d
                        \cup DOMAIN e \cup DOMAIN f \cup DOMAIN g
  <1>6. parts \subseteq DOMAIN body
    <2> HIDE DEF a, b, c, d, e, f, g, body
    <2> QED
      BY <1>1, AllOfSeven, Zenon
  <1>7. RequiredToCreate(type) \subseteq parts
    <2> HIDE DEF a, b, c, d, e, f, g, body, sent
    <2>1. CASE type = "EChannel"
      BY <1>2, <1>3, <1>4, <1>5, <2>1 DEF RequiredToCreate, ElectronicChannelIn
    <2>2. CASE type = "Phone"
      BY <1>2, <2>2 DEF RequiredToCreate, PhoneChannelIn
    <2>3. CASE type = "PrintableForm"
      BY <1>2, <1>4, <1>5, <2>3 DEF RequiredToCreate, PrintableFormChannelIn
    <2>4. CASE type = "ServiceLocation"
      BY <1>2, <1>3, <1>4, <1>5, <2>4 DEF RequiredToCreate, ServiceLocationChannelIn
    <2>5. CASE type = "WebPage"
      BY <1>2, <1>3, <1>4, <1>5, <2>5 DEF RequiredToCreate, WebPageChannelIn
    <2> QED
      BY <2>1, <2>2, <2>3, <2>4, <2>5 DEF ChannelTypes
  <1> HIDE DEF parts, body
  <1>8. RequiredToCreate(type) \subseteq DOMAIN body
    BY <1>6, <1>7
  <1> QED
    BY <1>8 DEF body

\* What is valid lacks nothing that is required to create it.
LEMMA NewIsComplete ==
  ASSUME NEW k \in Kinds, NEW new, ValidNew(k, new)
  PROVE  LET body == NewBodyOf(k, new) IN
         /\ RequiredToCreate(k) \subseteq DOMAIN body
         /\ k = "Service" => ~LacksRequired(EmptyItem(k), [set |-> body, clear |-> {}])
  <1>1. CASE k = "Service"
    <2>1. ValidService(new) /\ NewBodyOf(k, new) = NewServiceToV11Body(new)
          /\ RequiredToCreate(k) = ServiceIn
      BY <1>1 DEF ValidNew, NewBodyOf, RequiredToCreate
    <2> QED
      BY <1>1, <2>1, NewServiceIsComplete
  <1>2. CASE k = "Organization"
    <2>1. NewBodyOf(k, new) = NewOrganizationToV11Body(new) /\ RequiredToCreate(k) = OrganizationIn
      BY <1>2 DEF NewBodyOf, RequiredToCreate
    <2> QED
      BY <1>2, <2>1, NewOrganizationIsComplete
  <1>3. CASE k \in ChannelTypes
    <2>1. k \notin {"Service", "Organization"}
      BY <1>3 DEF ChannelTypes
    <2>2. /\ ValidChannel(new, k, ChannelTypeFields(k), TRUE)
          /\ NewBodyOf(k, new) = NewChannelToV11Body(new, k)
      BY <2>1 DEF ValidNew, NewBodyOf
    <2> QED
      BY <1>3, <2>1, <2>2, NewChannelIsComplete
  <1> QED
    BY <1>1, <1>2, <1>3 DEF Kinds

\* The area a new item gets is within its organisation's.
LEMMA AreaIsGiven == AreaGiven(OrganizationArea) \subseteq OrganizationArea
  <1>1. OrganizationArea # {}
    BY WritesAssumption
  <1>2. OrganizationAreaToV11(OrganizationArea) = OrganizationArea
    BY <1>1 DEF OrganizationAreaToV11
  <1>3. OrganizationAreaToV11Post(OrganizationArea) \subseteq OrganizationArea
    <2>1. CASE OrganizationArea = {"Nationwide"}
      BY <2>1 DEF OrganizationAreaToV11Post
    <2>2. CASE OrganizationArea # {"Nationwide"}
      <3>1. OrganizationAreaToV11Post(OrganizationArea) =
              {a \in OrganizationArea : a[1] = (CHOOSE b \in OrganizationArea : TRUE)[1]}
        BY <1>1, <2>2 DEF OrganizationAreaToV11Post
      <3> QED
        BY <3>1
    <2> QED
      BY <2>1, <2>2
  <1> QED
    BY <1>2, <1>3 DEF AreaGiven

-----------------------------------------------------------------------------
(* What a call that is alone with a service knows of it, and why a call was *)
(* refused.                                                                 *)

\* What is read of an item that has no Modified version is the item.
LEMMA ItemIsRead ==
  ASSUME Versions, ~Locked(item), NEW view \in {Latest, Public}, view # Nothing
  PROVE  view = WireOf(item)
  BY DEF Versions, Locked, Latest, Public

UpToDate(r) ==
  kind = "Service" /\ r.alone = TRUE /\ r.pc \in {"validated"} \cup Reading /\ r.what = "update"
    /\ ~Locked(item) =>
      /\ RequiredClassifications(Merge(ServiceWireToDomain(WireOf(item)), Approved(r.changes)))
      /\ r.pc \in Reading => r.wire = WireOf(item)

Refusals(r, happened) ==
  /\ r.refusal = "required" => r.what # "create" /\ r.alone = FALSE
  /\ r.refusal = "area" => happened > 0

LEMMA ValidatedIsUpToDate ==
  ASSUME Versions, NEW c \in Call, NEW q, ItemValidated(c, q), kind = "Service", ~Locked(item)
  PROVE  RequiredClassifications(Merge(ServiceWireToDomain(WireOf(item)), Approved(q.changes)))
  <1>1. PICK view \in {Latest, Public} :
          /\ view # Nothing /\ q.seen = DomainOf(kind, view)
          /\ ValidUpdate(kind, Merge(q.seen, Approved(q.changes)), q.changes)
    BY Zenon DEF ItemValidated, Approved
  <1>2. view = WireOf(item)
    BY <1>1, ItemIsRead
  <1>3. q.seen = ServiceWireToDomain(WireOf(item))
    BY <1>1, <1>2 DEF DomainOf
  <1>4. ValidService(Merge(q.seen, Approved(q.changes)))
    BY <1>1 DEF ValidUpdate
  <1> QED
    BY <1>3, <1>4 DEF ValidService

LEMMA PutIsNotRefused ==
  ASSUME Versions, NEW c \in Call, UpToDate(call[c]), call[c].pc = "read",
         call[c].what = "update", call[c].alone = TRUE
  PROVE  Refusal(BodyOf(kind, call[c].changes, call[c].wire, call[c].uris)) # "required"
  <1> DEFINE r == call[c]
             body == BodyOf(kind, r.changes, r.wire, r.uris)
  <1> SUFFICES ASSUME kind = "Service", ~Locked(item), LacksRequired(item, body)
               PROVE  FALSE
    BY DEF Refusal
  <1>1. /\ RequiredClassifications(Merge(ServiceWireToDomain(WireOf(item)), Approved(r.changes)))
        /\ r.wire = WireOf(item)
    BY DEF UpToDate, Reading
  <1>2. body = ServiceChangesToV11Body(r.changes, WireOf(item), r.uris)
    BY <1>1 DEF BodyOf
  <1>3. DOMAIN item = ServiceOut
    BY DEF Versions, ReadSchema
  <1> HIDE DEF body, r
  <1> QED
    BY <1>1, <1>2, <1>3, RequiredIsSent

LEMMA CreationRefused ==
  ASSUME Versions, Counts, NEW c \in Call, NEW q, Created(c, q), Placed(call[c])
  PROVE  Refusals(q, events')
  <1>1. call[c].refusal = "none"
    BY DEF Created, Placed, Before
  <1>2. CASE q.refusal = call[c].refusal
    BY <1>1, <1>2 DEF Refusals
  <1>3. ASSUME NEW new, NEW area \in {OrganizationArea, {}}, ValidNew(kind, new),
               q.refusal = CreateRefusal(NewBodyOf(kind, new), area),
               area = {} => kind = "Service" /\ events' > 0
        PROVE  Refusals(q, events')
    <2>1. /\ RequiredToCreate(kind) \subseteq DOMAIN NewBodyOf(kind, new)
          /\ kind = "Service" =>
               ~LacksRequired(EmptyItem(kind), [set |-> NewBodyOf(kind, new), clear |-> {}])
      BY <1>3, NewIsComplete DEF Versions
    <2>2. q.refusal # "required"
      BY <1>3, <2>1, Zenon DEF CreateRefusal
    <2>3. q.refusal = "area" => area # OrganizationArea
      BY <1>3, AreaIsGiven DEF CreateRefusal
    <2> QED
      BY <1>3, <2>2, <2>3 DEF Refusals
  <1>4. CASE q.refusal # call[c].refusal
    <2>1. PICK new : new = Normalize(kind, q.changes)
      OBVIOUS
    <2>2. PICK area \in {OrganizationArea, {}} :
            /\ ValidNew(kind, new) /\ q.refusal = CreateRefusal(NewBodyOf(kind, new), area)
            /\ area = {} => kind = "Service" /\ events' > 0
      BY <1>4, <2>1 DEF Created, Reading
    <2> QED
      BY <1>3, <2>2
  <1> QED
    BY <1>2, <1>4

LEMMA OutcomeUpToDate ==
  ASSUME Versions, Counts, NEW c \in Call, NEW q, Outcome(c, q), Placed(call[c]),
         UpToDate(call[c]), Refusals(call[c], events), UNCHANGED kind
  PROVE  /\ Versions'
         /\ \/ item' = item /\ UpToDate(q)
            \/ Others(c) /\ q.pc \in {"connect", "written", "failed"}
         /\ Refusals(q, events')
  <1> DEFINE r == call[c]
  <1>0. ASSUME UNCHANGED <<item, published>> PROVE Versions' /\ item' = item
    BY <1>0 DEF Versions
  <1>b. q.pc \notin {"validated"} \cup Reading \/ q.alone = FALSE => UpToDate(q)
    BY DEF UpToDate, Reading
  <1>a. ASSUME q.refusal = r.refusal, Alike(q, r), q.alone = r.alone \/ r.refusal = "none"
        PROVE  Refusals(q, events')
    BY <1>a DEF Refusals, Alike, Counts
  <1>1. CASE Begin(c, q)
    <2>1. UNCHANGED <<item, published>> /\ q.alone = FALSE /\ q.refusal = "none"
      BY <1>1 DEF Begin
    <2>2. Refusals(q, events')
      BY <2>1 DEF Refusals
    <2> QED
      BY <1>0, <1>b, <2>1, <2>2
  <1>2. CASE Stop(c, q)
    <2>1. /\ UNCHANGED <<item, published>> /\ q.pc \notin {"validated"} \cup Reading
          /\ q.refusal = r.refusal /\ Alike(q, r) /\ q.alone = r.alone
      BY <1>2 DEF Stop, Kept, Reading
    <2> QED
      BY <1>0, <1>a, <1>b, <2>1
  <1>3. CASE ItemValidated(c, q)
    <2>1. kind = "Service" /\ ~Locked(item) =>
            RequiredClassifications(Merge(ServiceWireToDomain(WireOf(item)), Approved(q.changes)))
      BY <1>3, ValidatedIsUpToDate
    <2>2. UpToDate(q)
      BY <1>3, <2>1 DEF ItemValidated, UpToDate, Reading
    <2>3. r.refusal = "none"
      BY <1>3 DEF ItemValidated, Placed, Before
    <2> QED
      <3>1. UNCHANGED <<item, published>> /\ q.refusal = r.refusal /\ Alike(q, r)
        BY <1>3 DEF ItemValidated, Kept
      <3> QED
        BY <1>0, <1>a, <2>2, <2>3, <3>1
  <1>4. CASE DetailsValidated(c, q)
    <2>1. r.refusal = "none"
      BY <1>4 DEF DetailsValidated, Placed, Before
    <2> QED
      <3>1. UNCHANGED <<item, published>> /\ q.refusal = r.refusal /\ Alike(q, r)
        BY <1>4 DEF DetailsValidated, Kept
      <3>2. UpToDate(q)
        BY <1>4, <3>1 DEF DetailsValidated, UpToDate, Alike, Reading
      <3> QED
        BY <1>0, <1>a, <2>1, <3>1, <3>2
  <1>5. CASE ItemRead(c, q)
    <2>1. ~Locked(item) => q.wire = WireOf(item)
      BY <1>5, ItemIsRead DEF ItemRead
    <2>2. UpToDate(q)
      BY <1>5, <2>1 DEF ItemRead, UpToDate, Alike, Reading
    <2> QED
      <3>1. /\ UNCHANGED <<item, published>> /\ q.refusal = r.refusal
            /\ Alike(q, r) /\ q.alone = r.alone
        BY <1>5 DEF ItemRead
      <3> QED
        BY <1>0, <1>a, <2>2, <3>1
  <1>6. CASE ConnectionsRead(c, q)
    <2>1. /\ UNCHANGED <<item, published>> /\ q.pc \notin {"validated"} \cup Reading
          /\ q.refusal = r.refusal /\ Alike(q, r) /\ q.alone = r.alone
      BY <1>6 DEF ConnectionsRead, Reading
    <2> QED
      BY <1>0, <1>a, <1>b, <2>1
  <1>7. CASE ItemPut(c, q)
    <2> DEFINE body == BodyOf(kind, r.changes, r.wire, r.uris)
               after == Put(item, body, WriteSchema(kind))
    <2>1. /\ r.pc = "read" /\ q.pc \in {"connect", "written", "failed"}
          /\ Alike(q, r) /\ q.alone = r.alone
          /\ q.refusal = r.refusal \/ q.refusal = Refusal(body)
          /\ \/ UNCHANGED <<item, published>>
             \/ Refusal(body) = "none" /\ Stored(after) /\ Others(c)
      BY <1>7 DEF ItemPut, Kept
    <2>2. r.what = "update" /\ r.alone \in BOOLEAN
      BY <2>1 DEF Placed, Reading
    <2>3. r.alone = TRUE => Refusal(body) # "required"
      BY <2>1, <2>2, PutIsNotRefused
    <2>4. Refusal(body) # "area"
      BY DEF Refusal
    <2>5. Refusals(q, events')
      <3>1. CASE q.refusal = r.refusal
        BY <1>a, <2>1, <3>1
      <3>2. CASE q.refusal = Refusal(body)
        <4> HIDE DEF body
        <4> QED
          BY <2>1, <2>2, <2>3, <2>4, <3>2 DEF Refusals, Alike
      <3> QED
        BY <2>1, <3>1, <3>2
    <2>6. ASSUME Refusal(body) = "none", Stored(after) PROVE Versions'
      <3>1. DOMAIN after = ReadSchema(kind) /\ after.publishingStatus = body.set.publishingStatus
        BY StatusIsSent, ItemAfterPut DEF Versions
      <3>2. item.publishingStatus # {"Modified"} /\ TakesStatus(body.set.publishingStatus)
        BY <2>6 DEF Refusal, Locked
      <3> HIDE DEF after, body
      <3>3. published # Nothing =>
              after.publishingStatus \in {{"Published"}, {"Modified"}, {"Deleted"}}
        BY <3>1, <3>2 DEF Versions, TakesStatus
      <3> QED
        BY <2>6, <3>1, <3>3, VersionStored
    <2>7. Versions'
      BY <1>0, <2>1, <2>6
    <2>8. UpToDate(q)
      BY <2>1 DEF UpToDate, Reading
    <2> QED
      BY <2>1, <2>5, <2>7, <2>8
  <1>8. CASE ConnectionsPut(c, q)
    <2>1. /\ UNCHANGED <<item, published>> /\ q.pc \notin {"validated"} \cup Reading
          /\ q.refusal = r.refusal /\ Alike(q, r) /\ q.alone = r.alone
      BY <1>8 DEF ConnectionsPut, Kept, Reading
    <2> QED
      BY <1>0, <1>a, <1>b, <2>1
  <1>9. CASE Audited(c, q)
    <2>1. /\ UNCHANGED <<item, published>> /\ q.pc \notin {"validated"} \cup Reading
          /\ q.refusal = r.refusal /\ Alike(q, r) /\ q.alone = r.alone
      BY <1>9 DEF Audited, Kept, Reading
    <2> QED
      BY <1>0, <1>a, <1>b, <2>1
  <1>10. CASE Created(c, q)
    <2>1. UNCHANGED <<item, published>> /\ q.pc \notin {"validated"} \cup Reading
      BY <1>10 DEF Created, Reading
    <2>2. Refusals(q, events')
      BY <1>10, CreationRefused
    <2> QED
      BY <1>0, <1>b, <2>1, <2>2
  <1>11. CASE Described(c, q)
    <2>1. /\ UNCHANGED <<item, published>> /\ q.refusal = r.refusal
          /\ Alike(q, r) /\ q.alone = r.alone
      BY <1>11 DEF Described
    <2>2. UpToDate(q)
      BY <1>11, <2>1 DEF Described, UpToDate, Alike, Reading
    <2> QED
      BY <1>0, <1>a, <2>1, <2>2
  <1> QED
    BY <1>1, <1>2, <1>3, <1>4, <1>5, <1>6, <1>7, <1>8, <1>9, <1>10, <1>11 DEF Outcome

AllTold == Versions /\ \A c \in Call : UpToDate(call[c]) /\ Refusals(call[c], events)

LEMMA ToldInit == ASSUME Init PROVE AllTold
  <1>1. UpToDate(Idle) /\ Refusals(Idle, events)
    BY DEF UpToDate, Refusals, Idle, Reading
  <1> QED
    BY <1>1, VersionsInit DEF AllTold, Init

LEMMA ToldAlone ==
  ASSUME Shaped, NEW d \in Call, Refusals(call[d], events), Counts
  PROVE  LET q == [call[d] EXCEPT !.alone = FALSE] IN
         q.alone = FALSE /\ Refusals(q, events')
  <1> DEFINE q == [call[d] EXCEPT !.alone = FALSE]
  <1>1. q.what = call[d].what /\ q.refusal = call[d].refusal /\ q.alone = FALSE
    BY Disturbed
  <1> HIDE DEF q
  <1>2. Refusals(q, events')
    BY <1>1 DEF Refusals, Counts
  <1> QED
    BY <1>1, <1>2 DEF q

\* Nothing is known of an item that another call, or somebody in PTV, writes to.
LEMMA ToldNext ==
  ASSUME Shaped, AllPlaced, AllTold, events \in Nat, Next
  PROVE  AllTold'
  <1>1. /\ UNCHANGED kind /\ Counts
        /\ (\E c \in Call : \E q : Gets(c, q) /\ Outcome(c, q)) \/ Edited
    BY StepOutcome
  <1>2. ASSUME NEW d \in Call, call'[d] = [call[d] EXCEPT !.alone = FALSE]
        PROVE  UpToDate(call[d])' /\ Refusals(call[d], events)'
    <2>1. call'[d].alone = FALSE /\ Refusals(call'[d], events')
      BY <1>1, <1>2, ToldAlone DEF AllTold
    <2> QED
      BY <2>1 DEF UpToDate, Refusals
  <1>3. ASSUME NEW d \in Call, call'[d] = call[d], item' = item
        PROVE  UpToDate(call[d])' /\ Refusals(call[d], events)'
    <2>1. UpToDate(call[d]) /\ Refusals(call[d], events)
      BY DEF AllTold
    <2>2. UpToDate(call[d])'
      BY <1>1, <1>3, <2>1 DEF UpToDate, Locked
    <2>3. Refusals(call[d], events)'
      BY <1>1, <1>3, <2>1 DEF Refusals, Counts
    <2> QED
      BY <2>2, <2>3
  <1>4. CASE \E c \in Call : \E q : Gets(c, q) /\ Outcome(c, q)
    <2>1. PICK c, q : c \in Call /\ Gets(c, q) /\ Outcome(c, q)
      BY <1>4
    <2>2. /\ Versions'
          /\ \/ item' = item /\ UpToDate(q)
             \/ Others(c) /\ q.pc \in {"connect", "written", "failed"}
          /\ Refusals(q, events')
      BY <1>1, <2>1, OutcomeUpToDate DEF AllPlaced, AllTold
    <2>3. call'[c] = q
      BY <2>1 DEF Gets
    <2>4. UpToDate(call[c])' /\ Refusals(call[c], events)'
      <3>1. Refusals(call[c], events)'
        BY <2>2, <2>3 DEF Refusals
      <3>2. UpToDate(call[c])'
        BY <1>1, <2>2, <2>3 DEF UpToDate, Locked, Reading
      <3> QED
        BY <3>1, <3>2
    <2>5. ASSUME NEW d \in Call \ {c} PROVE UpToDate(call[d])' /\ Refusals(call[d], events)'
      <3>1. \/ call'[d] = call[d] /\ item' = item
            \/ call'[d] = [call[d] EXCEPT !.alone = FALSE]
        BY <2>1, <2>2 DEF Gets, Others
      <3> QED
        BY <1>2, <1>3, <3>1
    <2> QED
      BY <2>2, <2>4, <2>5 DEF AllTold
  <1>5. CASE Edited
    <2>1. Versions'
      BY <1>1, <1>5, VersionEdited DEF AllTold
    <2>2. \A d \in Call : call'[d] = [call[d] EXCEPT !.alone = FALSE]
      BY <1>5, Zenon DEF Edited
    <2> QED
      BY <1>2, <2>1, <2>2 DEF AllTold
  <1> QED
    BY <1>1, <1>4, <1>5

-----------------------------------------------------------------------------
(* The invariant, and what follows from it.                                 *)

Inv == Shaped /\ events \in Nat /\ AllPlaced /\ AllLinked /\ AllTold

LEMMA InvInit == ASSUME Init PROVE Inv
  <1>1. events \in Nat
    BY DEF Init
  <1> QED
    BY <1>1, PlacedInit, LinkedInit, ToldInit DEF Inv

LEMMA InvNext == ASSUME Inv, [Next]_vars PROVE Inv'
  <1>1. CASE Next
    <2>1. Shaped' /\ Counts
      BY <1>1, StepOutcome DEF Inv
    <2>2. events' \in Nat
      BY <2>1 DEF Counts
    <2> QED
      BY <1>1, <2>1, <2>2, PlacedNext, LinkedNext, ToldNext DEF Inv
  <1>2. CASE UNCHANGED vars
    <2>1. UNCHANGED <<kind, item, published, connections, call, events>>
      BY <1>2 DEF vars
    <2> QED
      BY <2>1 DEF Inv, Shaped, AllPlaced, AllLinked, AllTold, Placed, Versions, UpToDate, Locked
  <1> QED
    BY <1>1, <1>2

LEMMA InvHolds == Spec => []Inv
  <1>1. Init => Inv
    BY InvInit
  <1>2. Inv /\ [Next]_vars => Inv'
    BY InvNext
  <1> QED
    BY <1>1, <1>2, PTL DEF Spec

\* Although PTV replaces a service's connections by the ones listed, one that
\* stays keeps its extra info (its faxes as phone numbers) through an apply
\* that is alone and a failure between its two PUTs, and the one a connection
\* change is about has exactly the merged details (applyServiceChanges,
\* applyConnectionDetails, toConnectionRelation).
THEOREM ConnectionsKeepTheirDetails == Spec => []ConnectionsKeepDetails
  <1>1. Inv => ConnectionsKeepDetails
    BY LinkedKeepDetails DEF Inv
  <1> QED
    BY <1>1, InvHolds, PTL

\* PTV refuses no change that was found valid for a list or a type it
\* requires while nobody else writes to the item, no valid new item for what
\* its kind must have, and none for its area unless the organisation could
\* not be read (serviceChangesToV11Body, newServiceToV11Body, createService).
THEOREM ValidWritesAreAccepted == Spec => []ValidIsAccepted
  <1>1. Inv => ValidIsAccepted
    <2> SUFFICES ASSUME Inv PROVE ValidIsAccepted
      OBVIOUS
    <2>1. \A c \in Call : Refusals(call[c], events) /\ Placed(call[c])
      BY DEF Inv, AllTold, AllPlaced
    <2>2. RequiredAreSent
      BY <2>1 DEF RequiredAreSent, Refusals
    <2>3. ValidNewIsComplete
      BY <2>1 DEF ValidNewIsComplete, Refusals
    <2>4. AreaFits
      BY <2>1 DEF AreaFits, Refusals
    <2> QED
      BY <2>2, <2>3, <2>4 DEF ValidIsAccepted
  <1> QED
    BY <1>1, InvHolds, PTL

-----------------------------------------------------------------------------
(* The shape of the state.                                                  *)

Places ==
  {"idle", "approved", "validated", "describe", "read", "connect", "written", "done", "failed",
   "invalid"}

Typed ==
  /\ events \in 0 .. MaxEvents
  /\ \A r \in created : DOMAIN r.stored = DOMAIN EmptyItem(kind)
  /\ \A c \in Call : call[c].pc \in Places

LEMMA TypedNext ==
  ASSUME Inv, Typed, Next
  PROVE  Typed'
  <1>1. /\ UNCHANGED kind
        /\ (\E c \in Call : \E q : Gets(c, q) /\ Outcome(c, q)) \/ Edited
    BY StepOutcome DEF Inv
  <1>2. events' \in 0 .. MaxEvents
    <2>1. UNCHANGED events \/ Happens
      BY Events
    <2> QED
      BY <2>1, WritesAssumption DEF Typed, Happens
  <1>3. \A r \in created' : DOMAIN r.stored = DOMAIN EmptyItem(kind)
    <2> DEFINE Made(c) ==
          LET new == Normalize(kind, call[c].changes)
          IN  [new |-> new, stored |-> Post(kind, NewBodyOf(kind, new))]
    <2>1. \/ created' = created
          \/ \E c \in Call : created' = created \cup {Made(c)}
      <3>1. ASSUME NEW c \in Call, Create(c)
            PROVE  created' = created \/ created' = created \cup {Made(c)}
        BY <3>1, Zenon DEF Create
      <3>2. ASSUME ~\E c \in Call : Create(c) PROVE created' = created
        <4>1. ASSUME NEW c \in Call, Step(c) PROVE created' = created
          BY <3>2, <4>1, Zenon DEF Step, Approve, Validate, ValidateDetails, ReadLatest,
             ReadDescription, ReadRelations, PutItem, PutRelations, Audit
        <4> QED
          BY <4>1, Zenon DEF Next, EditInPtv, PublishInPtv
      <3> QED
        BY <3>1, <3>2
    <2>2. \A body : DOMAIN Post(kind, body) = DOMAIN EmptyItem(kind)
      BY DEF Post, Put
    <2>3. \A c \in Call : DOMAIN Made(c).stored = DOMAIN EmptyItem(kind)
      BY <2>2
    <2> HIDE DEF Made
    <2> QED
      BY <2>1, <2>3 DEF Typed
  <1>4. \A d \in Call : call'[d].pc \in Places
    <2>1. \A d \in Call : [call[d] EXCEPT !.alone = FALSE].pc = call[d].pc
      BY Disturbed DEF Inv
    <2>2. \A c \in Call : \A q : Outcome(c, q) => q.pc \in Places
      BY DEF Outcome, Begin, Stop, ItemValidated, DetailsValidated, ItemRead, Described,
             ConnectionsRead, ItemPut, ConnectionsPut, Audited, Created, Places
    <2>3. ASSUME NEW d \in Call
          PROVE  \/ \E c \in Call : Outcome(c, call'[d])
                 \/ call'[d] = call[d]
                 \/ call'[d] = [call[d] EXCEPT !.alone = FALSE]
      BY <1>1, Zenon DEF Gets, Edited
    <2> QED
      BY <2>1, <2>2, <2>3 DEF Typed
  <1> QED
    BY <1>1, <1>2, <1>3, <1>4 DEF Typed

\* The item, what the public read shows of it, its connections and what is
\* created keep the fields of their kind.
THEOREM TypeCorrect == Spec => []TypeOK
  <1>1. Init => Typed
    <2>1. \A c \in Call : Idle.pc \in Places
      BY DEF Idle, Places
    <2> QED
      BY <2>1, WritesAssumption DEF Init, Typed
  <1>2. Inv /\ Typed /\ [Next]_vars => Typed'
    <2> SUFFICES ASSUME Inv, Typed, [Next]_vars PROVE Typed'
      OBVIOUS
    <2>1. CASE UNCHANGED vars
      BY <2>1 DEF vars, Typed
    <2> QED
      BY <2>1, TypedNext
  <1>3. Inv /\ Typed => TypeOK
    <2> SUFFICES ASSUME Inv, Typed PROVE TypeOK
      OBVIOUS
    <2>1. DOMAIN EmptyItem(kind) = ReadSchema(kind)
      BY DEF EmptyItem
    <2> QED
      BY <2>1 DEF Inv, Typed, TypeOK, Places, AllTold, Versions, AllLinked, AllDetails, IsDetails
  <1> QED
    BY <1>1, <1>2, <1>3, InvHolds, PTL DEF Spec

-----------------------------------------------------------------------------
(* What is sent, field by field.                                            *)

\* The object has the field on a condition, with this value.
Has(object, x, b, v) == (x \in DOMAIN object <=> b) /\ (b => object[x] = v)

\* The object is its parts' fields, a field of one part with its value there.
Joins(whole, parts) ==
  \A x : /\ x \in DOMAIN whole <=> \E p \in parts : x \in DOMAIN p
         /\ \A p \in parts :
              x \in DOMAIN p /\ (\A o \in parts : x \in DOMAIN o => o = p) => whole[x] = p[x]

LEMMA JoinsOne == ASSUME NEW f PROVE Joins(f, {f})
  BY DEF Joins

LEMMA JoinsMore ==
  ASSUME NEW f, NEW parts, Joins(f, parts), NEW g
  PROVE  Joins(f @@ g, parts \cup {g})
  <1> DEFINE whole == f @@ g
  <1>0. ASSUME NEW x
        PROVE  /\ x \in DOMAIN whole <=> x \in DOMAIN f \/ x \in DOMAIN g
               /\ x \in DOMAIN f => whole[x] = f[x]
               /\ x \in DOMAIN g /\ x \notin DOMAIN f => whole[x] = g[x]
    BY First, Last
  <1> HIDE DEF whole
  <1>1. ASSUME NEW x PROVE x \in DOMAIN whole <=> \E p \in parts \cup {g} : x \in DOMAIN p
    <2>1. x \in DOMAIN f <=> \E p \in parts : x \in DOMAIN p
      BY DEF Joins
    <2> QED
      BY <1>0, <2>1
  <1>2. ASSUME NEW x, NEW p \in parts \cup {g}, x \in DOMAIN p,
               \A o \in parts \cup {g} : x \in DOMAIN o => o = p
        PROVE  whole[x] = p[x]
    <2>1. /\ x \in DOMAIN f <=> \E o \in parts : x \in DOMAIN o
          /\ \A o \in parts : x \in DOMAIN o /\ (\A n \in parts : x \in DOMAIN n => n = o) =>
               f[x] = o[x]
      BY DEF Joins
    <2>2. CASE x \in DOMAIN f
      <3>1. PICK o \in parts : x \in DOMAIN o
        BY <2>1, <2>2
      <3>2. o = p
        BY <1>2, <3>1
      <3>3. f[x] = p[x]
        BY <1>2, <2>1, <3>1, <3>2
      <3> QED
        BY <1>0, <2>2, <3>3
    <2>3. CASE x \notin DOMAIN f
      <3>1. p = g
        BY <1>2, <2>1, <2>3
      <3> QED
        BY <1>0, <1>2, <2>3, <3>1
    <2> QED
      BY <2>2, <2>3
  <1> QED
    BY <1>1, <1>2 DEF Joins, whole

LEMMA JoinsHas ==
  ASSUME NEW whole, NEW parts, Joins(whole, parts), NEW p \in parts, NEW x, NEW b, NEW v,
         Has(p, x, b, v), \A o \in parts : x \in DOMAIN o => o = p
  PROVE  Has(whole, x, b, v)
  BY DEF Joins, Has

LEMMA JoinsHasNot ==
  ASSUME NEW whole, NEW parts, Joins(whole, parts), NEW x, \A o \in parts : x \notin DOMAIN o
  PROVE  x \notin DOMAIN whole
  BY DEF Joins

LEMMA OptionalHas ==
  ASSUME NEW b \in BOOLEAN, NEW x, NEW v, NEW part, part = OnlyIf(b, x :> v)
  PROVE  Has(part, x, b, v) /\ DOMAIN part \subseteq {x}
  <1>1. /\ DOMAIN OnlyIf(b, x :> v) \subseteq {x}
        /\ b => DOMAIN OnlyIf(b, x :> v) = {x} /\ OnlyIf(b, x :> v)[x] = v
        /\ ~b => DOMAIN OnlyIf(b, x :> v) = {}
    BY Optional
  <1> QED
    BY <1>1 DEF Has

LEMMA SingleHas ==
  ASSUME NEW x, NEW v, NEW part, part = (x :> v)
  PROVE  Has(part, x, TRUE, v) /\ DOMAIN part = {x}
  BY Single DEF Has

\* What PTV makes of a field that is sent on a condition.
Told(stored, f, b, v) == IF b /\ (f \in Scalars \/ v # {}) THEN v ELSE stored[f]

LEMMA PutTold ==
  ASSUME NEW stored, NEW body, NEW schema, NEW f \in DOMAIN stored, f # "phoneNumbers"
  PROVE  LET after == Put(stored, body, schema) IN
         /\ DOMAIN after = DOMAIN stored
         /\ f \in body.clear /\ f \in schema.clears => after[f] = {}
         /\ ~(f \in body.clear /\ f \in schema.clears) =>
              /\ f \notin DOMAIN body.set \/ f \notin schema.takes => after[f] = stored[f]
              /\ \A b, v : Has(body.set, f, b, v) /\ f \in schema.takes =>
                   after[f] = Told(stored, f, b, v)
  <1> DEFINE told == Accepted(body, schema)
             after == Put(stored, body, schema)
  <1>1. /\ told.set = [g \in DOMAIN body.set \cap schema.takes |-> body.set[g]]
        /\ told.clear = body.clear \cap schema.clears
    BY DEF Accepted
  <1>2. /\ DOMAIN told.set = DOMAIN body.set \cap schema.takes
        /\ f \in DOMAIN told.set => told.set[f] = body.set[f]
    BY <1>1
  <1> HIDE DEF told
  <1>3. after = [g \in DOMAIN stored |->
                   CASE g = "phoneNumbers" -> PutPhones(stored[g], told, schema.typed)
                     [] g # "phoneNumbers" /\ g \in told.clear -> {}
                     [] g \notin told.clear \cup {"phoneNumbers"} /\ g \in DOMAIN told.set
                          /\ (g \in Scalars \/ told.set[g] # {}) -> told.set[g]
                     [] OTHER -> stored[g]]
    BY Zenon DEF Put, told
  <1> HIDE DEF after
  <1>4. /\ DOMAIN after = DOMAIN stored
        /\ f \in told.clear => after[f] = {}
        /\ f \notin told.clear /\ f \in DOMAIN told.set /\ (f \in Scalars \/ told.set[f] # {}) =>
             after[f] = told.set[f]
        /\ f \notin told.clear /\ ~(f \in DOMAIN told.set /\ (f \in Scalars \/ told.set[f] # {})) =>
             after[f] = stored[f]
    BY <1>3
  <1> HIDE DEF after
  <1>5. ASSUME ~(f \in body.clear /\ f \in schema.clears), NEW b, NEW v,
               Has(body.set, f, b, v), f \in schema.takes
        PROVE  after[f] = Told(stored, f, b, v)
    BY <1>1, <1>2, <1>4, <1>5 DEF Has, Told
  <1> QED
    BY <1>1, <1>2, <1>4, <1>5 DEF after

\* The numbers PTV has after a PUT.
LEMMA PhonesTold ==
  ASSUME NEW stored, NEW body, NEW schema, "phoneNumbers" \in DOMAIN stored
  PROVE  Put(stored, body, schema)["phoneNumbers"]
           = PutPhones(stored["phoneNumbers"], Accepted(body, schema), schema.typed)
  <1> DEFINE told == Accepted(body, schema)
             after == Put(stored, body, schema)
  <1>3. after = [g \in DOMAIN stored |->
                   CASE g = "phoneNumbers" -> PutPhones(stored[g], told, schema.typed)
                     [] g # "phoneNumbers" /\ g \in told.clear -> {}
                     [] g \notin told.clear \cup {"phoneNumbers"} /\ g \in DOMAIN told.set
                          /\ (g \in Scalars \/ told.set[g] # {}) -> told.set[g]
                     [] OTHER -> stored[g]]
    BY Zenon DEF Put, told
  <1> HIDE DEF after, told
  <1>4. after["phoneNumbers"] = PutPhones(stored["phoneNumbers"], told, schema.typed)
    BY <1>3
  <1> QED
    BY <1>4 DEF after, told

\* The body of a service's PUT.
LEMMA ServiceBodyHas ==
  ASSUME NEW changes, NEW current, NEW inherited
  PROVE  LET body == ServiceChangesToV11Body(changes, current, inherited)
             touches == DOMAIN changes IN
         /\ Has(body.set, "publishingStatus", TRUE,
                Touched(changes, "publishingStatus", current.publishingStatus))
         /\ Has(body.set, "type", "type" \in touches \/ Unlinks(changes),
                Touched(changes, "type", current.type))
         /\ Has(body.set, "nameList", "names" \in touches,
                KeptWireItems(current.nameList, {"Name"})
                  \cup TextToItems(Touched(changes, "names", {}), "Name"))
         /\ Has(body.set, "descriptionList", {"summaries", "descriptions"} \cap touches # {},
                ServiceDescriptions(changes, current))
         /\ \A f \in Classifications :
              Has(body.set, f, f \in ListsSent(changes, current),
                  OwnEntries(Touched(changes, f, current[f]), inherited))
         /\ Has(body.set, "languages", "languages" \in touches, Touched(changes, "languages", {}))
         /\ Has(body.set, "generalDescriptionId",
                "generalDescriptionId" \in touches /\ ~Unlinks(changes),
                Touched(changes, "generalDescriptionId", {}))
         /\ body.clear = {f \in Flagged \cap touches : changes[f] = {}}
                           \cup IF Unlinks(changes) THEN {"generalDescriptionId"} ELSE {}
  <1> DEFINE p == ServiceParts(changes, current, inherited)
             body == ServiceChangesToV11Body(changes, current, inherited)
             touches == DOMAIN changes
             parts == {p.status, p.type, p.names, p.texts, p.lists, p.languages, p.link}
             B1 == "type" \in touches \/ Unlinks(changes)
             B2 == "names" \in touches
             B3 == {"summaries", "descriptions"} \cap touches # {}
             B4 == "languages" \in touches
             B5 == "generalDescriptionId" \in touches /\ ~Unlinks(changes)
             V0 == Touched(changes, "publishingStatus", current.publishingStatus)
             V1 == Touched(changes, "type", current.type)
             V2 == KeptWireItems(current.nameList, {"Name"})
                     \cup TextToItems(Touched(changes, "names", {}), "Name")
             V3 == ServiceDescriptions(changes, current)
             V4 == Touched(changes, "languages", {})
             V5 == Touched(changes, "generalDescriptionId", {})
             L(f) == OwnEntries(Touched(changes, f, current[f]), inherited)
  <1>1. /\ p.status = ("publishingStatus" :> V0)
        /\ p.type = OnlyIf(B1, "type" :> V1)
        /\ p.names = OnlyIf(B2, "nameList" :> V2)
        /\ p.texts = OnlyIf(B3, "descriptionList" :> V3)
        /\ p.lists = [f \in ListsSent(changes, current) |-> L(f)]
        /\ p.languages = OnlyIf(B4, "languages" :> V4)
        /\ p.link = OnlyIf(B5, "generalDescriptionId" :> V5)
        /\ p.clear = {f \in Flagged \cap touches : changes[f] = {}}
                       \cup IF Unlinks(changes) THEN {"generalDescriptionId"} ELSE {}
    BY DEF ServiceParts, Unlinks
  <1>2. B1 \in BOOLEAN /\ B2 \in BOOLEAN /\ B3 \in BOOLEAN /\ B4 \in BOOLEAN /\ B5 \in BOOLEAN
    BY DEF Unlinks
  <1>3. /\ body.set = (((((p.status @@ p.type) @@ p.names) @@ p.texts) @@ p.lists)
                         @@ p.languages) @@ p.link
        /\ body.clear = p.clear
    BY ServiceBody, Zenon
  <1> HIDE DEF p, body, B1, B2, B3, B4, B5, V0, V1, V2, V3, V4, V5, L, touches
  <1>4. Joins(body.set, parts)
    <2>1. Joins(p.status, {p.status})
      BY JoinsOne
    <2>2. Joins(p.status @@ p.type, {p.status} \cup {p.type})
      BY <2>1, JoinsMore
    <2>3. Joins((p.status @@ p.type) @@ p.names, ({p.status} \cup {p.type}) \cup {p.names})
      BY <2>2, JoinsMore
    <2>4. Joins(((p.status @@ p.type) @@ p.names) @@ p.texts,
                (({p.status} \cup {p.type}) \cup {p.names}) \cup {p.texts})
      BY <2>3, JoinsMore
    <2>5. Joins((((p.status @@ p.type) @@ p.names) @@ p.texts) @@ p.lists,
                ((({p.status} \cup {p.type}) \cup {p.names}) \cup {p.texts}) \cup {p.lists})
      BY <2>4, JoinsMore
    <2>6. Joins(((((p.status @@ p.type) @@ p.names) @@ p.texts) @@ p.lists) @@ p.languages,
                (((({p.status} \cup {p.type}) \cup {p.names}) \cup {p.texts}) \cup {p.lists})
                  \cup {p.languages})
      BY <2>5, JoinsMore
    <2>7. Joins(body.set,
                ((((({p.status} \cup {p.type}) \cup {p.names}) \cup {p.texts}) \cup {p.lists})
                  \cup {p.languages}) \cup {p.link})
      BY <1>3, <2>6, JoinsMore
    <2>8. ((((({p.status} \cup {p.type}) \cup {p.names}) \cup {p.texts}) \cup {p.lists})
             \cup {p.languages}) \cup {p.link} = parts
      OBVIOUS
    <2> QED
      BY <2>7, <2>8
  <1>5. /\ Has(p.status, "publishingStatus", TRUE, V0) /\ DOMAIN p.status = {"publishingStatus"}
        /\ Has(p.type, "type", B1, V1) /\ DOMAIN p.type \subseteq {"type"}
        /\ Has(p.names, "nameList", B2, V2) /\ DOMAIN p.names \subseteq {"nameList"}
        /\ Has(p.texts, "descriptionList", B3, V3) /\ DOMAIN p.texts \subseteq {"descriptionList"}
        /\ Has(p.languages, "languages", B4, V4) /\ DOMAIN p.languages \subseteq {"languages"}
        /\ Has(p.link, "generalDescriptionId", B5, V5)
        /\ DOMAIN p.link \subseteq {"generalDescriptionId"}
    <2>1. Has(p.status, "publishingStatus", TRUE, V0) /\ DOMAIN p.status = {"publishingStatus"}
      BY <1>1, SingleHas
    <2>2. Has(p.type, "type", B1, V1) /\ DOMAIN p.type \subseteq {"type"}
      BY <1>1, <1>2, OptionalHas
    <2>3. Has(p.names, "nameList", B2, V2) /\ DOMAIN p.names \subseteq {"nameList"}
      BY <1>1, <1>2, OptionalHas
    <2>4. Has(p.texts, "descriptionList", B3, V3) /\ DOMAIN p.texts \subseteq {"descriptionList"}
      BY <1>1, <1>2, OptionalHas
    <2>5. Has(p.languages, "languages", B4, V4) /\ DOMAIN p.languages \subseteq {"languages"}
      BY <1>1, <1>2, OptionalHas
    <2>6. Has(p.link, "generalDescriptionId", B5, V5)
          /\ DOMAIN p.link \subseteq {"generalDescriptionId"}
      BY <1>1, <1>2, OptionalHas
    <2> QED
      BY <2>1, <2>2, <2>3, <2>4, <2>5, <2>6
  <1>6. /\ DOMAIN p.lists \subseteq Classifications
        /\ \A f \in Classifications : Has(p.lists, f, f \in ListsSent(changes, current), L(f))
    BY <1>1 DEF Has, ListsSent, Classifications
  <1>7. {"publishingStatus", "type", "nameList", "descriptionList", "languages",
         "generalDescriptionId"} \cap Classifications = {}
    BY DEF Classifications, Required, Flagged
  <1>8. /\ p.status \in parts /\ p.type \in parts /\ p.names \in parts /\ p.texts \in parts
        /\ p.lists \in parts /\ p.languages \in parts /\ p.link \in parts
    OBVIOUS
  <1>9. ASSUME NEW x, NEW q \in parts, NEW b, NEW v, Has(q, x, b, v),
               \A o \in parts : x \in DOMAIN o => o = q
        PROVE  Has(body.set, x, b, v)
    <2> HIDE DEF parts
    <2> QED
      BY <1>4, <1>9, JoinsHas
  <1>10. \A o \in parts :
           /\ "publishingStatus" \in DOMAIN o => o = p.status
           /\ "type" \in DOMAIN o => o = p.type
           /\ "nameList" \in DOMAIN o => o = p.names
           /\ "descriptionList" \in DOMAIN o => o = p.texts
           /\ "languages" \in DOMAIN o => o = p.languages
           /\ "generalDescriptionId" \in DOMAIN o => o = p.link
           /\ \A f \in Classifications : f \in DOMAIN o => o = p.lists
    BY <1>5, <1>6, <1>7
  <1> HIDE DEF parts
  <1>11. /\ Has(body.set, "publishingStatus", TRUE, V0)
         /\ Has(body.set, "type", B1, V1)
         /\ Has(body.set, "nameList", B2, V2)
         /\ Has(body.set, "descriptionList", B3, V3)
         /\ Has(body.set, "languages", B4, V4)
         /\ Has(body.set, "generalDescriptionId", B5, V5)
    BY <1>5, <1>8, <1>9, <1>10
  <1>12. \A f \in Classifications : Has(body.set, f, f \in ListsSent(changes, current), L(f))
    BY <1>6, <1>8, <1>9, <1>10
  <1> QED
    BY <1>1, <1>3, <1>11, <1>12 DEF body, B1, B2, B3, B4, B5, V0, V1, V2, V3, V4, V5, L, touches

LEMMA WireFields ==
  ASSUME NEW stored
  PROVE  LET wire == WireOf(stored)
             linked == "generalDescriptionId" \in DOMAIN stored /\ IsLinked(stored) IN
         /\ DOMAIN wire = DOMAIN stored
         /\ \A f \in DOMAIN stored : f \notin Classifications => wire[f] = stored[f]
         /\ \A f \in DOMAIN stored \cap Classifications :
              wire[f] = IF linked THEN stored[f] \cup Inherited[f] ELSE stored[f]
         /\ ~linked => wire = stored
  BY DEF WireOf, IsLinked

\* A service after a PUT of it that is built on it as it is read.
ServiceIs(after, stored, changes, uris) ==
  LET current == WireOf(stored)
      touches == DOMAIN changes IN
  /\ DOMAIN after = ServiceOut
  /\ \A f \in {"publishingStatus", "type", "generalDescriptionId"} :
       after[f] = Touched(changes, f, stored[f])
  /\ after["nameList"] =
       Told(stored, "nameList", "names" \in touches,
            KeptWireItems(stored["nameList"], {"Name"})
              \cup TextToItems(Touched(changes, "names", {}), "Name"))
  /\ after["descriptionList"] =
       Told(stored, "descriptionList", {"summaries", "descriptions"} \cap touches # {},
            ServiceDescriptions(changes, stored))
  /\ after["languages"] =
       Told(stored, "languages", "languages" \in touches, Touched(changes, "languages", {}))
  /\ \A f \in Classifications :
       after[f] = IF f \in Flagged \cap touches /\ changes[f] = {} THEN {}
                  ELSE Told(stored, f, f \in ListsSent(changes, stored),
                            OwnEntries(Touched(changes, f, current[f]), uris))

LEMMA ServiceAfter ==
  ASSUME NEW stored, DOMAIN stored = ServiceOut, NEW changes, NEW uris, NEW new,
         new = Put(stored, ServiceChangesToV11Body(changes, WireOf(stored), uris), ServiceInBase)
  PROVE  ServiceIs(new, stored, changes, uris)
  <1> DEFINE current == WireOf(stored)
             body == ServiceChangesToV11Body(changes, current, uris)
             after == Put(stored, body, ServiceInBase)
             touches == DOMAIN changes
  <1>1. /\ DOMAIN current = ServiceOut
        /\ \A f \in ServiceOut : f \notin Classifications => current[f] = stored[f]
    BY WireFields
  <1>2. ServiceOut = {"nameList", "descriptionList", "publishingStatus", "languages", "type",
                      "generalDescriptionId"} \cup Classifications
    BY DEF ServiceOut, ItemTexts
  <1>3. {"publishingStatus", "type", "nameList", "descriptionList", "languages",
         "generalDescriptionId"} \cap Classifications = {}
    BY DEF Classifications, Required, Flagged
  <1>4. /\ current.publishingStatus = stored["publishingStatus"] /\ current.type = stored["type"]
        /\ current.generalDescriptionId = stored.generalDescriptionId
        /\ current.nameList = stored["nameList"] /\ current.descriptionList = stored.descriptionList
        /\ current.generalDescriptionId = stored["generalDescriptionId"]
    BY <1>1, <1>2, <1>3
  <1>5. ServiceDescriptions(changes, current) = ServiceDescriptions(changes, stored)
    BY <1>4 DEF ServiceDescriptions
  <1>6. ListsSent(changes, current) = ListsSent(changes, stored)
    BY <1>4 DEF ListsSent, KeepsGeneralDescription
  <1> HIDE DEF current
  <1>8. /\ Has(body.set, "publishingStatus", TRUE,
               Touched(changes, "publishingStatus", current.publishingStatus))
        /\ Has(body.set, "type", "type" \in touches \/ Unlinks(changes),
               Touched(changes, "type", current.type))
        /\ Has(body.set, "nameList", "names" \in touches,
               KeptWireItems(current.nameList, {"Name"})
                 \cup TextToItems(Touched(changes, "names", {}), "Name"))
        /\ Has(body.set, "descriptionList", {"summaries", "descriptions"} \cap touches # {},
               ServiceDescriptions(changes, current))
        /\ \A f \in Classifications :
             Has(body.set, f, f \in ListsSent(changes, current),
                 OwnEntries(Touched(changes, f, current[f]), uris))
        /\ Has(body.set, "languages", "languages" \in touches, Touched(changes, "languages", {}))
        /\ Has(body.set, "generalDescriptionId",
               "generalDescriptionId" \in touches /\ ~Unlinks(changes),
               Touched(changes, "generalDescriptionId", {}))
        /\ body.clear = {f \in Flagged \cap touches : changes[f] = {}}
                          \cup IF Unlinks(changes) THEN {"generalDescriptionId"} ELSE {}
    BY ServiceBodyHas
  <1>9. ServiceInBase.takes = ServiceOut
        /\ ServiceInBase.clears = Flagged \cup {"generalDescriptionId"}
    BY DEF ServiceInBase, ServiceOut
  <1>10. "phoneNumbers" \notin ServiceOut
    BY <1>2 DEF Classifications, Required, Flagged
  <1> HIDE DEF body
  <1>11. ASSUME NEW f \in ServiceOut
         PROVE  /\ DOMAIN after = ServiceOut
                /\ f \in body.clear /\ f \in ServiceInBase.clears => after[f] = {}
                /\ ~(f \in body.clear /\ f \in ServiceInBase.clears) =>
                     \A b, v : Has(body.set, f, b, v) => after[f] = Told(stored, f, b, v)
    <2>1. f # "phoneNumbers" /\ f \in DOMAIN stored /\ f \in ServiceInBase.takes
      BY <1>9, <1>10
    <2>2. /\ DOMAIN after = DOMAIN stored
          /\ f \in body.clear /\ f \in ServiceInBase.clears => after[f] = {}
      <3> HIDE DEF ServiceInBase
      <3> QED
        BY <2>1, PutTold
    <2>3. ASSUME ~(f \in body.clear /\ f \in ServiceInBase.clears), NEW b, NEW v,
                 Has(body.set, f, b, v)
          PROVE  after[f] = Told(stored, f, b, v)
      BY <2>1, <2>3, PutTold
    <2> HIDE DEF after
    <2> QED
      BY <2>1, <2>2, <2>3
  <1> HIDE DEF after, touches
  <1>12. /\ {"publishingStatus", "type", "nameList", "descriptionList", "languages"}
              \cap body.clear = {}
         /\ "generalDescriptionId" \in body.clear <=> Unlinks(changes)
         /\ \A f \in Classifications :
              f \in body.clear <=> f \in Flagged \cap touches /\ changes[f] = {}
    BY <1>3, <1>8 DEF Classifications, Required, Flagged
  <1>13. ASSUME NEW f \in ServiceOut, f \notin body.clear, NEW b, NEW v, Has(body.set, f, b, v)
         PROVE  after[f] = Told(stored, f, b, v)
    BY <1>11, <1>13
  <1>14. /\ DOMAIN after = ServiceOut
         /\ after["publishingStatus"] =
              Told(stored, "publishingStatus", TRUE,
                   Touched(changes, "publishingStatus", stored["publishingStatus"]))
         /\ after["type"] = Told(stored, "type", "type" \in touches \/ Unlinks(changes),
                                 Touched(changes, "type", stored["type"]))
         /\ after["nameList"] =
              Told(stored, "nameList", "names" \in touches,
                   KeptWireItems(stored["nameList"], {"Name"})
                     \cup TextToItems(Touched(changes, "names", {}), "Name"))
         /\ after["descriptionList"] =
              Told(stored, "descriptionList", {"summaries", "descriptions"} \cap touches # {},
                   ServiceDescriptions(changes, stored))
         /\ after["languages"] =
              Told(stored, "languages", "languages" \in touches, Touched(changes, "languages", {}))
         /\ Unlinks(changes) => after["generalDescriptionId"] = {}
         /\ ~Unlinks(changes) => after["generalDescriptionId"] =
              Told(stored, "generalDescriptionId",
                   "generalDescriptionId" \in touches /\ ~Unlinks(changes),
                   Touched(changes, "generalDescriptionId", {}))
    <2>1. /\ {"publishingStatus", "type", "nameList", "descriptionList", "languages",
              "generalDescriptionId"} \subseteq ServiceOut
          /\ DOMAIN after = ServiceOut
      BY <1>2, <1>11
    <2>2. after["publishingStatus"] =
              Told(stored, "publishingStatus", TRUE,
                   Touched(changes, "publishingStatus", current.publishingStatus))
      BY <2>1, <1>8, <1>12, <1>13
    <2>3. after["type"] = Told(stored, "type", "type" \in touches \/ Unlinks(changes),
                                 Touched(changes, "type", current.type))
      BY <2>1, <1>8, <1>12, <1>13
    <2>4. after["nameList"] =
              Told(stored, "nameList", "names" \in touches,
                   KeptWireItems(current.nameList, {"Name"})
                     \cup TextToItems(Touched(changes, "names", {}), "Name"))
      BY <2>1, <1>8, <1>12, <1>13
    <2>5. after["descriptionList"] =
              Told(stored, "descriptionList", {"summaries", "descriptions"} \cap touches # {},
                   ServiceDescriptions(changes, current))
      BY <2>1, <1>8, <1>12, <1>13
    <2>6. after["languages"] =
              Told(stored, "languages", "languages" \in touches, Touched(changes, "languages", {}))
      BY <2>1, <1>8, <1>12, <1>13
    <2>7. Unlinks(changes) => after["generalDescriptionId"] = {}
      BY <2>1, <1>9, <1>11, <1>12
    <2>8. ~Unlinks(changes) => after["generalDescriptionId"] =
              Told(stored, "generalDescriptionId",
                   "generalDescriptionId" \in touches /\ ~Unlinks(changes),
                   Touched(changes, "generalDescriptionId", {}))
      BY <2>1, <1>8, <1>12, <1>13
    <2> QED
      BY <2>1, <2>2, <2>3, <2>4, <2>5, <2>6, <2>7, <2>8, <1>4, <1>5
  <1>15. ASSUME NEW f \in Classifications
         PROVE  after[f] = IF f \in Flagged \cap touches /\ changes[f] = {} THEN {}
                           ELSE Told(stored, f, f \in ListsSent(changes, stored),
                                     OwnEntries(Touched(changes, f, current[f]), uris))
    <2>1. f \in ServiceOut
      BY <1>2
    <2>2. CASE f \in Flagged \cap touches /\ changes[f] = {}
      BY <2>1, <2>2, <1>9, <1>11, <1>12
    <2>3. CASE ~(f \in Flagged \cap touches /\ changes[f] = {})
      <3>1. f \notin body.clear
        BY <2>3, <1>12
      <3>2. Has(body.set, f, f \in ListsSent(changes, current),
                 OwnEntries(Touched(changes, f, current[f]), uris))
        BY <1>8
      <3>3. after[f] = Told(stored, f, f \in ListsSent(changes, current),
                            OwnEntries(Touched(changes, f, current[f]), uris))
        BY <2>1, <3>1, <3>2, <1>13
      <3> QED
        BY <2>3, <3>3, <1>6
    <2> QED
      BY <2>2, <2>3
  <1>16. \A f \in {"publishingStatus", "type", "generalDescriptionId"} :
           after[f] = Touched(changes, f, stored[f])
    BY <1>14 DEF Told, Scalars, Touched, Unlinks, touches
  <1> QED
    <2>1. new = after
      BY DEF after, body, current
    <2> QED
      BY <1>14, <1>15, <1>16, <2>1 DEF ServiceIs, current, touches

-----------------------------------------------------------------------------
(* Channels.                                                                *)

SignatureSent(changes) ==
  {"requiresSignature", "signatureQuantity"} \subseteq DOMAIN changes
    /\ changes["requiresSignature"] = {"yes"}

\* The fields of a channel that are sent as they are when they are touched,
\* and of these the ones that are left out when empty.
SentWhole(type) ==
  FlaggedLists(type) \cup WholeLists(type)
    \cup {"isVisibleForAll", "requiresSignature", "accessibility"}

NotEmpty(type) == FlaggedLists(type) \cup {"accessibility"}

\* The part of a channel's body for the fields of its type.
LEMMA DetailsHas ==
  ASSUME NEW type, NEW changes, DOMAIN changes \subseteq ChannelTypeFields(type)
  PROVE  LET details == ChannelDetailsToV11(changes, type)
             touches == DOMAIN changes
             phones == Touched(changes, "phoneNumbers", {})
             located == type = "ServiceLocation" /\ "phoneNumbers" \in touches IN
         /\ \A f \in SentWhole(type) :
              Has(details.set, f, f \in touches /\ (f \in NotEmpty(type) => changes[f] # {}),
                  changes[f])
         /\ Has(details.set, "signatureQuantity", SignatureSent(changes),
                Touched(changes, "signatureQuantity", {}))
         /\ Has(details.set, "phoneNumbers",
                \/ type = "Phone" /\ "phoneNumbers" \in touches
                \/ located /\ phones # Faxes(phones),
                IF type = "Phone" THEN phones ELSE phones \ Faxes(phones))
         /\ Has(details.set, "faxNumbers", located /\ Faxes(phones) # {}, Faxes(phones))
         /\ DOMAIN details.set \subseteq
              SentWhole(type) \cup {"signatureQuantity", "phoneNumbers", "faxNumbers"}
         /\ details.clear \subseteq FlaggedLists(type) \cup {"phoneNumbers", "faxNumbers"}
         /\ \A f \in FlaggedLists(type) :
              f \in details.clear <=> f \in touches /\ changes[f] = {}
         /\ "phoneNumbers" \in details.clear <=> located /\ phones = Faxes(phones)
         /\ "faxNumbers" \in details.clear <=> located /\ Faxes(phones) = {}
  <1> DEFINE details == ChannelDetailsToV11(changes, type)
             touches == DOMAIN changes
             mine == DOMAIN changes \cap ChannelTypeFields(type)
             lists == FlaggedLists(type) \cap mine
             phones == Touched(changes, "phoneNumbers", {})
             located == type = "ServiceLocation" /\ "phoneNumbers" \in touches
             S == {l \in lists : changes[l] # {}} \cup (WholeLists(type) \cap mine)
                    \cup ({"isVisibleForAll", "requiresSignature"} \cap mine)
                    \cup {g \in {"accessibility"} \cap mine : changes[g] # {}}
             B2 == type = "Phone" /\ "phoneNumbers" \in touches
             B3 == located /\ phones # Faxes(phones)
             B4 == located /\ Faxes(phones) # {}
             B5 == SignatureSent(changes)
             V3 == phones \ Faxes(phones)
             V4 == Faxes(phones)
             V5 == Touched(changes, "signatureQuantity", {})
  <1>1. PICK p1 : p1 = [f \in S |-> changes[f]]
    OBVIOUS
  <1>2. PICK p2 : p2 = OnlyIf(B2, "phoneNumbers" :> phones)
    OBVIOUS
  <1>3. PICK p3 : p3 = OnlyIf(B3, "phoneNumbers" :> V3)
    OBVIOUS
  <1>4. PICK p4 : p4 = OnlyIf(B4, "faxNumbers" :> V4)
    OBVIOUS
  <1>5. PICK p5 : p5 = OnlyIf(B5, "signatureQuantity" :> V5)
    OBVIOUS
  <1>6. mine = touches
    OBVIOUS
  <1>7. details.set = (((p1 @@ p2) @@ p3) @@ p4) @@ p5
    BY <1>1, <1>2, <1>3, <1>4, <1>5, <1>6, Zenon DEF ChannelDetailsToV11, SignatureSent
  <1>8. details.clear = {l \in lists : changes[l] = {}}
                   \cup (IF located /\ phones = Faxes(phones) THEN {"phoneNumbers"} ELSE {})
                   \cup (IF located /\ Faxes(phones) = {} THEN {"faxNumbers"} ELSE {})
    BY <1>6 DEF ChannelDetailsToV11
  <1>9. B2 \in BOOLEAN /\ B3 \in BOOLEAN /\ B4 \in BOOLEAN /\ B5 \in BOOLEAN
    BY DEF SignatureSent
  <1>10. /\ FlaggedLists(type) \subseteq
              {"serviceHours", "supportPhones", "supportEmails", "webPages", "deliveryAddresses",
               "formIdentifiers", "formFiles"}
         /\ WholeLists(type) \subseteq {"urls", "addresses", "emails"}
    BY DEF FlaggedLists, WholeLists
  <1>11. /\ {"signatureQuantity", "phoneNumbers", "faxNumbers"} \cap SentWhole(type) = {}
         /\ S \subseteq SentWhole(type)
         /\ {"phoneNumbers", "faxNumbers"} \cap FlaggedLists(type) = {}
    BY <1>10 DEF SentWhole
  <1>12. ASSUME NEW f \in SentWhole(type)
         PROVE  Has(p1, f, f \in touches /\ (f \in NotEmpty(type) => changes[f] # {}), changes[f])
    <2>1. f \in S <=> f \in touches /\ (f \in NotEmpty(type) => changes[f] # {})
      BY <1>6, <1>10 DEF SentWhole, NotEmpty
    <2> HIDE DEF S
    <2> QED
      BY <1>1, <2>1 DEF Has
  <1>13. DOMAIN p1 = S
    BY <1>1
  <1> DEFINE parts == {p1, p2, p3, p4, p5}
  <1> HIDE DEF S, B2, B3, B4, B5, V3, V4, V5, details, phones
  <1>14. Has(p2, "phoneNumbers", B2, phones) /\ DOMAIN p2 \subseteq {"phoneNumbers"}
    BY <1>2, <1>9, OptionalHas
  <1>15. Has(p3, "phoneNumbers", B3, V3) /\ DOMAIN p3 \subseteq {"phoneNumbers"}
    BY <1>3, <1>9, OptionalHas
  <1>16. Has(p4, "faxNumbers", B4, V4) /\ DOMAIN p4 \subseteq {"faxNumbers"}
    BY <1>4, <1>9, OptionalHas
  <1>17. Has(p5, "signatureQuantity", B5, V5) /\ DOMAIN p5 \subseteq {"signatureQuantity"}
    BY <1>5, <1>9, OptionalHas
  <1>18. Joins(details.set, parts)
    <2>1. Joins(p1, {p1})
      BY JoinsOne
    <2>2. Joins(p1 @@ p2, {p1} \cup {p2})
      BY <2>1, JoinsMore
    <2>3. Joins((p1 @@ p2) @@ p3, ({p1} \cup {p2}) \cup {p3})
      BY <2>2, JoinsMore
    <2>4. Joins(((p1 @@ p2) @@ p3) @@ p4, (({p1} \cup {p2}) \cup {p3}) \cup {p4})
      BY <2>3, JoinsMore
    <2>5. Joins(details.set, ((({p1} \cup {p2}) \cup {p3}) \cup {p4}) \cup {p5})
      BY <1>7, <2>4, JoinsMore
    <2>6. ((({p1} \cup {p2}) \cup {p3}) \cup {p4}) \cup {p5} = parts
      OBVIOUS
    <2> QED
      BY <2>5, <2>6
  <1>19. ASSUME NEW x, NEW q \in parts, NEW b, NEW v, Has(q, x, b, v),
                \A o \in parts : x \in DOMAIN o => o = q
         PROVE  Has(details.set, x, b, v)
    <2> HIDE DEF parts
    <2> QED
      BY <1>18, <1>19, JoinsHas
  <1>20. \A f \in SentWhole(type) :
           Has(details.set, f, f \in touches /\ (f \in NotEmpty(type) => changes[f] # {}),
               changes[f])
    <2> SUFFICES ASSUME NEW f \in SentWhole(type)
                 PROVE  Has(details.set, f,
                            f \in touches /\ (f \in NotEmpty(type) => changes[f] # {}), changes[f])
      OBVIOUS
    <2>1. \A o \in parts : f \in DOMAIN o => o = p1
      BY <1>11, <1>14, <1>15, <1>16, <1>17
    <2>2. PICK b : b = (f \in touches /\ (f \in NotEmpty(type) => changes[f] # {}))
      OBVIOUS
    <2>3. Has(p1, f, b, changes[f])
      BY <1>12, <2>2
    <2> QED
      BY <1>19, <2>1, <2>2, <2>3
  <1>21. Has(details.set, "signatureQuantity", B5, V5)
    BY <1>11, <1>13, <1>14, <1>15, <1>16, <1>17, <1>19
  <1>22. Has(details.set, "faxNumbers", B4, V4)
    BY <1>11, <1>13, <1>14, <1>15, <1>16, <1>17, <1>19
  <1>23. Has(details.set, "phoneNumbers", B2 \/ B3, IF type = "Phone" THEN phones ELSE V3)
    <2>1. ~(B2 /\ B3)
      BY DEF B2, B3
    <2>2. (B2 => type = "Phone") /\ (B3 => type # "Phone")
      BY DEF B2, B3
    <2>3. CASE B2
      <3>1. \A o \in parts : "phoneNumbers" \in DOMAIN o => o = p2
        BY <1>11, <1>13, <1>15, <1>16, <1>17, <2>1, <2>3 DEF Has
      <3>2. Has(details.set, "phoneNumbers", B2, phones)
        BY <1>14, <1>19, <3>1
      <3> QED
        BY <2>2, <2>3, <3>2 DEF Has
    <2>4. CASE B3
      <3>1. \A o \in parts : "phoneNumbers" \in DOMAIN o => o = p3
        BY <1>11, <1>13, <1>14, <1>16, <1>17, <2>1, <2>4 DEF Has
      <3>2. Has(details.set, "phoneNumbers", B3, V3)
        BY <1>15, <1>19, <3>1
      <3> QED
        BY <2>2, <2>4, <3>2 DEF Has
    <2>5. CASE ~B2 /\ ~B3
      <3>1. \A o \in parts : "phoneNumbers" \notin DOMAIN o
        BY <1>11, <1>13, <1>14, <1>15, <1>16, <1>17, <2>5 DEF Has
      <3>2. "phoneNumbers" \notin DOMAIN details.set
        <4> HIDE DEF parts
        <4> QED
          BY <1>18, <3>1, JoinsHasNot
      <3> QED
        BY <2>5, <3>2 DEF Has
    <2> QED
      BY <2>3, <2>4, <2>5
  <1>24. DOMAIN details.set \subseteq
           SentWhole(type) \cup {"signatureQuantity", "phoneNumbers", "faxNumbers"}
    <2>1. \A x : x \in DOMAIN details.set => \E q \in parts : x \in DOMAIN q
      BY <1>18, Zenon DEF Joins
    <2> QED
      BY <1>11, <1>13, <1>14, <1>15, <1>16, <1>17, <2>1
  <1>25. /\ details.clear \subseteq FlaggedLists(type) \cup {"phoneNumbers", "faxNumbers"}
         /\ \A f \in FlaggedLists(type) :
              f \in details.clear <=> f \in touches /\ changes[f] = {}
         /\ "phoneNumbers" \in details.clear <=> located /\ phones = Faxes(phones)
         /\ "faxNumbers" \in details.clear <=> located /\ Faxes(phones) = {}
    BY <1>6, <1>8, <1>11
  <1> QED
    BY <1>20, <1>21, <1>22, <1>23, <1>24, <1>25 DEF B2, B3, B4, B5, V3, V4, V5, details, phones

\* The fields of a channel that are sent on a condition of their own.
OwnWay ==
  {"nameList", "descriptionList", "languages", "publishingStatus", "isVisibleForAll",
   "requiresAuthentication", "requiresSignature", "signatureQuantity", "accessibility",
   "phoneNumbers", "displayNameType"}

LEMMA ChannelSchemas ==
  ASSUME NEW type \in ChannelTypes
  PROVE  /\ ReadSchema(type) \subseteq WriteSchema(type).takes
         /\ ReadSchema(type) \subseteq OwnWay \cup FlaggedLists(type) \cup WholeLists(type)
         /\ FlaggedLists(type) \subseteq ReadSchema(type) \cap WriteSchema(type).clears
         /\ WholeLists(type) \subseteq ReadSchema(type)
         /\ {"nameList", "descriptionList", "languages", "publishingStatus", "isVisibleForAll"}
              \subseteq ReadSchema(type)
         /\ "generalDescriptionId" \notin ReadSchema(type)
         /\ "requiresAuthentication" \in ReadSchema(type) <=> type = "EChannel"
         /\ "phoneNumbers" \in ReadSchema(type) <=> type \in {"Phone", "ServiceLocation"}
         /\ type = "Phone" => WriteSchema(type).typed
         /\ type = "ServiceLocation" =>
              /\ WriteSchema(type).typed = FALSE
              /\ {"phoneNumbers", "faxNumbers"} \subseteq
                   WriteSchema(type).takes \cap WriteSchema(type).clears
         /\ type = "Phone" => "phoneNumbers" \notin WriteSchema(type).clears
                               /\ "faxNumbers" \notin WriteSchema(type).takes
  <1> USE DEF ItemTexts, SupportLists, FlaggedLists, WholeLists, ChannelTypeFields,
              CommonChannelFields, OwnWay
  <1>1. CASE type = "EChannel"
    BY <1>1 DEF ReadSchema, WriteSchema, ElectronicChannelOut, ElectronicChannelInBase
  <1>2. CASE type = "Phone"
    BY <1>2 DEF ReadSchema, WriteSchema, PhoneChannelOut, PhoneChannelInBase
  <1>3. CASE type = "PrintableForm"
    BY <1>3 DEF ReadSchema, WriteSchema, PrintableFormChannelOut, PrintableFormChannelInBase
  <1>4. CASE type = "ServiceLocation"
    BY <1>4 DEF ReadSchema, WriteSchema, ServiceLocationChannelOut, ServiceLocationChannelInBase
  <1>5. CASE type = "WebPage"
    BY <1>5 DEF ReadSchema, WriteSchema, WebPageChannelOut, WebPageChannelInBase
  <1> QED
    BY <1>1, <1>2, <1>3, <1>4, <1>5 DEF ChannelTypes

\* The body of a channel's PUT: what is sent besides the type's own fields.
LEMMA ChannelBodyHas ==
  ASSUME NEW type, NEW changes, DOMAIN changes \subseteq ChannelTypeFields(type), NEW current
  PROVE  LET body == ChannelChangesToV11Body(changes, current, type)
             details == ChannelDetailsToV11(changes, type)
             touches == DOMAIN changes IN
         /\ Has(body.set, "publishingStatus", TRUE,
                Touched(changes, "publishingStatus", current.publishingStatus))
         /\ Has(body.set, "requiresAuthentication", type = "EChannel",
                Touched(changes, "requiresAuthentication", current.requiresAuthentication))
         /\ Has(body.set, "nameList", {"names", "languages"} \cap touches # {},
                KeptChannelItems(current.nameList,
                  IF "names" \in touches THEN {"Name"} ELSE {}, changes)
                  \cup TextToItems(Touched(changes, "names", {}), "Name"))
         /\ Has(body.set, "descriptionList",
                {"descriptions", "summaries", "languages"} \cap touches # {},
                ChannelDescriptions(changes, current))
         /\ Has(body.set, "languages", "languages" \in touches, Touched(changes, "languages", {}))
         /\ \A f, b, v : f \notin {"publishingStatus", "requiresAuthentication", "nameList",
                                   "descriptionList", "languages"} =>
              (Has(details.set, f, b, v) => Has(body.set, f, b, v))
         /\ body.clear = details.clear
  <1> DEFINE body == ChannelChangesToV11Body(changes, current, type)
             details == ChannelDetailsToV11(changes, type)
             touches == DOMAIN changes
             B1 == type = "EChannel"
             B2 == {"names", "languages"} \cap touches # {}
             B3 == {"descriptions", "summaries", "languages"} \cap touches # {}
             B4 == "languages" \in touches
             V0 == Touched(changes, "publishingStatus", current.publishingStatus)
             V1 == Touched(changes, "requiresAuthentication", current.requiresAuthentication)
             V2 == KeptChannelItems(current.nameList,
                     IF "names" \in touches THEN {"Name"} ELSE {}, changes)
                     \cup TextToItems(Touched(changes, "names", {}), "Name")
             V3 == ChannelDescriptions(changes, current)
             V4 == Touched(changes, "languages", {})
  <1>1. PICK p0 : p0 = ("publishingStatus" :> V0)
    OBVIOUS
  <1>2. PICK p1 : p1 = OnlyIf(B1, "requiresAuthentication" :> V1)
    OBVIOUS
  <1>3. PICK p2 : p2 = OnlyIf(B2, "nameList" :> V2)
    OBVIOUS
  <1>4. PICK p3 : p3 = OnlyIf(B3, "descriptionList" :> V3)
    OBVIOUS
  <1>5. PICK p4 : p4 = OnlyIf(B4, "languages" :> V4)
    OBVIOUS
  <1>6. PICK p5 : p5 = details.set
    OBVIOUS
  <1>7. body.set = ((((p0 @@ p1) @@ p2) @@ p3) @@ p4) @@ p5 /\ body.clear = details.clear
    BY <1>1, <1>2, <1>3, <1>4, <1>5, <1>6, Zenon DEF ChannelChangesToV11Body
  <1>8. B1 \in BOOLEAN /\ B2 \in BOOLEAN /\ B3 \in BOOLEAN /\ B4 \in BOOLEAN
    OBVIOUS
  <1>9. DOMAIN p5 \cap {"publishingStatus", "requiresAuthentication", "nameList",
                        "descriptionList", "languages"} = {}
    <2>1. DOMAIN p5 \subseteq SentWhole(type) \cup {"signatureQuantity", "phoneNumbers", "faxNumbers"}
      BY <1>6, DetailsHas
    <2> QED
      BY <2>1 DEF SentWhole, FlaggedLists, WholeLists
  <1> DEFINE parts == {p0, p1, p2, p3, p4, p5}
  <1> HIDE DEF B1, B2, B3, B4, V0, V1, V2, V3, V4, body, details
  <1>10. Has(p0, "publishingStatus", TRUE, V0) /\ DOMAIN p0 = {"publishingStatus"}
    BY <1>1, SingleHas
  <1>11. Has(p1, "requiresAuthentication", B1, V1) /\ DOMAIN p1 \subseteq {"requiresAuthentication"}
    BY <1>2, <1>8, OptionalHas
  <1>12. Has(p2, "nameList", B2, V2) /\ DOMAIN p2 \subseteq {"nameList"}
    BY <1>3, <1>8, OptionalHas
  <1>13. Has(p3, "descriptionList", B3, V3) /\ DOMAIN p3 \subseteq {"descriptionList"}
    BY <1>4, <1>8, OptionalHas
  <1>14. Has(p4, "languages", B4, V4) /\ DOMAIN p4 \subseteq {"languages"}
    BY <1>5, <1>8, OptionalHas
  <1>15. Joins(body.set, parts)
    <2>1. Joins(p0, {p0})
      BY JoinsOne
    <2>2. Joins(p0 @@ p1, {p0} \cup {p1})
      BY <2>1, JoinsMore
    <2>3. Joins((p0 @@ p1) @@ p2, ({p0} \cup {p1}) \cup {p2})
      BY <2>2, JoinsMore
    <2>4. Joins(((p0 @@ p1) @@ p2) @@ p3, (({p0} \cup {p1}) \cup {p2}) \cup {p3})
      BY <2>3, JoinsMore
    <2>5. Joins((((p0 @@ p1) @@ p2) @@ p3) @@ p4, ((({p0} \cup {p1}) \cup {p2}) \cup {p3}) \cup {p4})
      BY <2>4, JoinsMore
    <2>6. Joins(body.set, (((({p0} \cup {p1}) \cup {p2}) \cup {p3}) \cup {p4}) \cup {p5})
      BY <1>7, <2>5, JoinsMore
    <2>7. (((({p0} \cup {p1}) \cup {p2}) \cup {p3}) \cup {p4}) \cup {p5} = parts
      OBVIOUS
    <2> QED
      BY <2>6, <2>7
  <1>16. ASSUME NEW x, NEW q \in parts, NEW b, NEW v, Has(q, x, b, v),
                \A o \in parts : x \in DOMAIN o => o = q
         PROVE  Has(body.set, x, b, v)
    <2> HIDE DEF parts
    <2> QED
      BY <1>15, <1>16, JoinsHas
  <1>17. \A o \in parts :
           /\ "publishingStatus" \in DOMAIN o => o = p0
           /\ "requiresAuthentication" \in DOMAIN o => o = p1
           /\ "nameList" \in DOMAIN o => o = p2
           /\ "descriptionList" \in DOMAIN o => o = p3
           /\ "languages" \in DOMAIN o => o = p4
           /\ \A f : f \notin {"publishingStatus", "requiresAuthentication", "nameList",
                               "descriptionList", "languages"} => (f \in DOMAIN o => o = p5)
    BY <1>9, <1>10, <1>11, <1>12, <1>13, <1>14
  <1>18. p0 \in parts /\ p1 \in parts /\ p2 \in parts /\ p3 \in parts /\ p4 \in parts /\ p5 \in parts
    OBVIOUS
  <1> HIDE DEF parts
  <1>19. /\ Has(body.set, "publishingStatus", TRUE, V0)
         /\ Has(body.set, "requiresAuthentication", B1, V1)
         /\ Has(body.set, "nameList", B2, V2)
         /\ Has(body.set, "descriptionList", B3, V3)
         /\ Has(body.set, "languages", B4, V4)
    BY <1>10, <1>11, <1>12, <1>13, <1>14, <1>16, <1>17, <1>18
  <1>20. ASSUME NEW f, NEW b, NEW v, Has(details.set, f, b, v),
                f \notin {"publishingStatus", "requiresAuthentication", "nameList",
                          "descriptionList", "languages"}
         PROVE  Has(body.set, f, b, v)
    BY <1>6, <1>16, <1>17, <1>18, <1>20
  <1> QED
    BY <1>7, <1>19, <1>20 DEF body, details, B1, B2, B3, B4, V0, V1, V2, V3, V4

\* What a channel is after a PUT of it, field by field.
ChannelIs(after, type, stored, changes) ==
  LET touches == DOMAIN changes IN
  /\ DOMAIN after = ReadSchema(type)
  /\ \A f \in ReadSchema(type) \cap ({"publishingStatus", "isVisibleForAll",
         "requiresSignature", "requiresAuthentication"} \cup FlaggedLists(type)) :
       after[f] = Touched(changes, f, stored[f])
  /\ \A f \in WholeLists(type) : after[f] = Told(stored, f, f \in touches, changes[f])
  /\ \A f \in ReadSchema(type) \cap {"accessibility"} :
       after[f] = IF f \in touches /\ changes[f] # {} THEN changes[f] ELSE stored[f]
  /\ \A f \in ReadSchema(type) \cap {"signatureQuantity"} :
       after[f] = IF SignatureSent(changes) THEN changes[f] ELSE stored[f]
  /\ \A f \in ReadSchema(type) \cap {"displayNameType"} : after[f] = stored[f]
  /\ after["nameList"] =
       Told(stored, "nameList", {"names", "languages"} \cap touches # {},
            KeptChannelItems(stored["nameList"],
              IF "names" \in touches THEN {"Name"} ELSE {}, changes)
              \cup TextToItems(Touched(changes, "names", {}), "Name"))
  /\ after["descriptionList"] =
       Told(stored, "descriptionList",
            {"descriptions", "summaries", "languages"} \cap touches # {},
            ChannelDescriptions(changes, stored))
  /\ after["languages"] =
       Told(stored, "languages", "languages" \in touches, Touched(changes, "languages", {}))

LEMMA ChannelAfter ==
  ASSUME NEW type \in ChannelTypes, NEW stored, DOMAIN stored = ReadSchema(type),
         NEW changes, DOMAIN changes \subseteq ChannelTypeFields(type),
         NEW after,
         after = Put(stored, ChannelChangesToV11Body(changes, stored, type), WriteSchema(type))
  PROVE  ChannelIs(after, type, stored, changes)
  <1> DEFINE body == ChannelChangesToV11Body(changes, stored, type)
             details == ChannelDetailsToV11(changes, type)
             schema == WriteSchema(type)
             touches == DOMAIN changes
             Named == {"publishingStatus", "requiresAuthentication", "nameList",
                       "descriptionList", "languages"}
             V2 == KeptChannelItems(stored.nameList,
                     IF "names" \in touches THEN {"Name"} ELSE {}, changes)
                     \cup TextToItems(Touched(changes, "names", {}), "Name")
  <1>1. /\ Has(body.set, "publishingStatus", TRUE,
                Touched(changes, "publishingStatus", stored.publishingStatus))
        /\ Has(body.set, "requiresAuthentication", type = "EChannel",
               Touched(changes, "requiresAuthentication", stored.requiresAuthentication))
        /\ Has(body.set, "nameList", {"names", "languages"} \cap touches # {}, V2)
        /\ Has(body.set, "descriptionList",
               {"descriptions", "summaries", "languages"} \cap touches # {},
               ChannelDescriptions(changes, stored))
        /\ Has(body.set, "languages", "languages" \in touches, Touched(changes, "languages", {}))
        /\ body.clear = details.clear
    BY ChannelBodyHas
  <1>2. ASSUME NEW f, f \notin Named, NEW b, NEW v, Has(details.set, f, b, v)
        PROVE  Has(body.set, f, b, v)
    BY <1>2, ChannelBodyHas
  <1>3. /\ \A f \in SentWhole(type) :
             Has(details.set, f, f \in touches /\ (f \in NotEmpty(type) => changes[f] # {}),
                 changes[f])
        /\ Has(details.set, "signatureQuantity", SignatureSent(changes),
               Touched(changes, "signatureQuantity", {}))
        /\ DOMAIN details.set \subseteq
             SentWhole(type) \cup {"signatureQuantity", "phoneNumbers", "faxNumbers"}
        /\ details.clear \subseteq FlaggedLists(type) \cup {"phoneNumbers", "faxNumbers"}
        /\ \A f \in FlaggedLists(type) : f \in details.clear <=> f \in touches /\ changes[f] = {}
    BY DetailsHas
  <1> HIDE DEF body, details
  <1>4. /\ ReadSchema(type) \subseteq schema.takes
        /\ FlaggedLists(type) \subseteq ReadSchema(type) \cap schema.clears
        /\ WholeLists(type) \subseteq ReadSchema(type)
        /\ {"nameList", "descriptionList", "languages", "publishingStatus", "isVisibleForAll"}
             \subseteq ReadSchema(type)
        /\ "requiresAuthentication" \in ReadSchema(type) <=> type = "EChannel"
    BY ChannelSchemas
  <1>5. /\ FlaggedLists(type) \cap (Named \cup {"phoneNumbers", "signatureQuantity",
             "isVisibleForAll", "requiresSignature", "accessibility", "displayNameType"}) = {}
        /\ WholeLists(type) \cap (Named \cup FlaggedLists(type) \cup {"phoneNumbers"}) = {}
        /\ WholeLists(type) \cap Scalars = {} /\ FlaggedLists(type) \cap Scalars = {}
    BY DEF FlaggedLists, WholeLists, Scalars
  <1> HIDE DEF schema
  <1>6. ASSUME NEW f \in ReadSchema(type), f # "phoneNumbers", NEW b, NEW v,
               Has(body.set, f, b, v), f \notin body.clear
        PROVE  after[f] = Told(stored, f, b, v)
    <2>1. f \in DOMAIN stored /\ f \in schema.takes
      BY <1>4
    <2> QED
      BY <1>6, <2>1, PutTold DEF body, schema
  <1>7. DOMAIN after = ReadSchema(type)
    BY DEF Put
  <1>8. ASSUME NEW f \in FlaggedLists(type) PROVE after[f] = Touched(changes, f, stored[f])
    <2>1. f \in ReadSchema(type) /\ f # "phoneNumbers" /\ f \notin Named /\ f \in schema.clears
      BY <1>4, <1>5
    <2>2. CASE f \in touches /\ changes[f] = {}
      <3>1. f \in body.clear
        BY <1>1, <1>3, <2>2
      <3>2. after[f] = {}
        BY <2>1, <3>1, PutTold DEF body, schema
      <3> QED
        BY <2>2, <3>2 DEF Touched
    <2>3. CASE ~(f \in touches /\ changes[f] = {})
      <3>1. f \notin body.clear
        BY <1>1, <1>3, <2>3
      <3>2. PICK b : b = (f \in touches /\ (f \in NotEmpty(type) => changes[f] # {}))
        OBVIOUS
      <3>3. Has(details.set, f, b, changes[f])
        BY <1>3, <3>2 DEF SentWhole
      <3>4. after[f] = Told(stored, f, b, changes[f])
        BY <1>2, <1>6, <2>1, <3>1, <3>3
      <3> QED
        BY <2>3, <3>2, <3>4 DEF Told, Touched
    <2> QED
      BY <2>2, <2>3
  <1>9. ASSUME NEW f \in WholeLists(type) PROVE after[f] = Told(stored, f, f \in touches, changes[f])
    <2>1. f \in ReadSchema(type) /\ f # "phoneNumbers" /\ f \notin Named /\ f \notin NotEmpty(type)
          /\ f # "faxNumbers"
      BY <1>4, <1>5 DEF NotEmpty, WholeLists
    <2>2. f \notin body.clear
      BY <1>1, <1>3, <1>5, <2>1
    <2>3. Has(details.set, f, f \in touches, changes[f])
      BY <1>3, <2>1 DEF SentWhole, Has
    <2> QED
      BY <1>2, <1>6, <2>1, <2>2, <2>3
  <1>10. {"publishingStatus", "requiresAuthentication", "nameList", "descriptionList", "languages",
          "isVisibleForAll", "requiresSignature", "accessibility", "signatureQuantity",
          "displayNameType"} \cap body.clear = {}
    BY <1>1, <1>3, <1>5
  <1>11. ASSUME NEW f \in ReadSchema(type) \cap {"isVisibleForAll", "requiresSignature"}
         PROVE  after[f] = Touched(changes, f, stored[f])
    <2>1. Has(details.set, f, f \in touches, changes[f])
      BY <1>3, <1>5 DEF SentWhole, NotEmpty, Has
    <2>2. after[f] = Told(stored, f, f \in touches, changes[f])
      BY <1>2, <1>6, <1>10, <2>1
    <2> QED
      BY <2>2 DEF Told, Touched, Scalars
  <1>12. ASSUME NEW f \in ReadSchema(type) \cap {"accessibility"}
         PROVE  after[f] = IF f \in touches /\ changes[f] # {} THEN changes[f] ELSE stored[f]
    <2>1. PICK b : b = (f \in touches /\ changes[f] # {})
      OBVIOUS
    <2>2. Has(details.set, f, b, changes[f])
      BY <1>3, <2>1 DEF SentWhole, NotEmpty, Has
    <2>3. after[f] = Told(stored, f, b, changes[f])
      BY <1>2, <1>6, <1>10, <2>2
    <2> QED
      BY <2>1, <2>3 DEF Told
  <1>13. ASSUME NEW f \in ReadSchema(type) \cap {"signatureQuantity"}
         PROVE  after[f] = IF SignatureSent(changes) THEN changes[f] ELSE stored[f]
    <2>1. after[f] = Told(stored, f, SignatureSent(changes), Touched(changes, "signatureQuantity", {}))
      BY <1>2, <1>3, <1>6, <1>10
    <2> QED
      BY <2>1 DEF Told, Touched, Scalars, SignatureSent
  <1>14. ASSUME NEW f \in ReadSchema(type) \cap {"displayNameType"} PROVE after[f] = stored[f]
    <2>1. Has(details.set, f, FALSE, {})
      BY <1>3 DEF Has, SentWhole, FlaggedLists, WholeLists
    <2>2. after[f] = Told(stored, f, FALSE, {})
      BY <1>2, <1>6, <1>10, <2>1
    <2> QED
      BY <2>2 DEF Told
  <1>15. after["publishingStatus"] = Touched(changes, "publishingStatus", stored["publishingStatus"])
    <2>0. PICK b, v : b = TRUE /\ v = Touched(changes, "publishingStatus", stored["publishingStatus"])
      OBVIOUS
    <2>a. Has(body.set, "publishingStatus", b, v)
      BY <1>1, <2>0
    <2>b. after["publishingStatus"] = Told(stored, "publishingStatus", b, v)
      BY <1>4, <1>6, <1>10, <2>a
    <2>1. after["publishingStatus"] = Told(stored, "publishingStatus", TRUE,
            Touched(changes, "publishingStatus", stored["publishingStatus"]))
      BY <2>0, <2>b
    <2> QED
      BY <2>1 DEF Told, Scalars
  <1>16. "requiresAuthentication" \in ReadSchema(type) =>
           after["requiresAuthentication"] =
             Touched(changes, "requiresAuthentication", stored["requiresAuthentication"])
    <2> SUFFICES ASSUME "requiresAuthentication" \in ReadSchema(type)
                 PROVE  after["requiresAuthentication"] =
                   Touched(changes, "requiresAuthentication", stored["requiresAuthentication"])
      OBVIOUS
    <2>1. after["requiresAuthentication"] = Told(stored, "requiresAuthentication", type = "EChannel",
            Touched(changes, "requiresAuthentication", stored["requiresAuthentication"]))
      BY <1>1, <1>6, <1>10
    <2> QED
      BY <1>4, <2>1 DEF Told, Scalars
  <1>17. after["nameList"] = Told(stored, "nameList", {"names", "languages"} \cap touches # {}, V2)
    <2> HIDE DEF V2
    <2> QED
      BY <1>1, <1>4, <1>6, <1>10
  <1>18. after["descriptionList"] =
           Told(stored, "descriptionList",
                {"descriptions", "summaries", "languages"} \cap touches # {},
                ChannelDescriptions(changes, stored))
    BY <1>1, <1>4, <1>6, <1>10
  <1>19. after["languages"] =
           Told(stored, "languages", "languages" \in touches, Touched(changes, "languages", {}))
    BY <1>1, <1>4, <1>6, <1>10
  <1> QED
    BY <1>7, <1>8, <1>9, <1>11, <1>12, <1>13, <1>14, <1>15, <1>16, <1>17, <1>18, <1>19
       DEF ChannelIs

\* The numbers of a channel after its PUT.
LEMMA ChannelPhones ==
  ASSUME NEW type \in {"Phone", "ServiceLocation"}, NEW stored, DOMAIN stored = ReadSchema(type),
         NEW changes, DOMAIN changes \subseteq ChannelTypeFields(type),
         "phoneNumbers" \in DOMAIN changes /\ type = "ServiceLocation" =>
           PlainPhones(changes["phoneNumbers"]),
         NEW after,
         after = Put(stored, ChannelChangesToV11Body(changes, stored, type), WriteSchema(type))
  PROVE  after["phoneNumbers"] =
           IF /\ "phoneNumbers" \in DOMAIN changes
              /\ type = "Phone" => changes["phoneNumbers"] # {}
             THEN changes["phoneNumbers"] ELSE stored["phoneNumbers"]
  <1> DEFINE body == ChannelChangesToV11Body(changes, stored, type)
             details == ChannelDetailsToV11(changes, type)
             schema == WriteSchema(type)
             told == Accepted(body, schema)
             touches == "phoneNumbers" \in DOMAIN changes
             phones == Touched(changes, "phoneNumbers", {})
             located == type = "ServiceLocation" /\ touches
             old == stored["phoneNumbers"]
  <1>0. type \in ChannelTypes
    BY DEF ChannelTypes
  <1>1. /\ "phoneNumbers" \in ReadSchema(type)
        /\ ReadSchema(type) \subseteq schema.takes
        /\ type = "Phone" => /\ schema.typed = TRUE /\ "phoneNumbers" \notin schema.clears
                             /\ "faxNumbers" \notin schema.takes
        /\ type = "ServiceLocation" =>
             /\ schema.typed = FALSE
             /\ {"phoneNumbers", "faxNumbers"} \subseteq schema.takes \cap schema.clears
    BY <1>0, ChannelSchemas DEF WriteSchema, PhoneChannelInBase
  <1>2. after["phoneNumbers"] = PutPhones(old, told, schema.typed)
    BY <1>1, PhonesTold
  <1>3. /\ Has(details.set, "phoneNumbers",
                (type = "Phone" /\ touches) \/ (located /\ phones # Faxes(phones)),
                IF type = "Phone" THEN phones ELSE phones \ Faxes(phones))
        /\ Has(details.set, "faxNumbers", located /\ Faxes(phones) # {}, Faxes(phones))
        /\ "phoneNumbers" \in details.clear <=> located /\ phones = Faxes(phones)
        /\ "faxNumbers" \in details.clear <=> located /\ Faxes(phones) = {}
    BY DetailsHas
  <1>4. body.clear = details.clear
    BY ChannelBodyHas
  <1>5. ASSUME NEW f \in {"phoneNumbers", "faxNumbers"}, NEW b, NEW v, Has(details.set, f, b, v)
        PROVE  Has(body.set, f, b, v)
    BY <1>5, ChannelBodyHas
  <1>6. /\ told.set = [f \in DOMAIN body.set \cap schema.takes |-> body.set[f]]
        /\ told.clear = body.clear \cap schema.clears
    BY DEF Accepted
  <1>7. touches => phones = changes["phoneNumbers"]
    BY DEF Touched
  <1>8. ~touches => phones = {}
    BY DEF Touched
  <1> HIDE DEF body, details, schema, told, phones
  <1>9. /\ "phoneNumbers" \in DOMAIN body.set <=>
             (type = "Phone" /\ touches) \/ (located /\ phones # Faxes(phones))
        /\ "phoneNumbers" \in DOMAIN body.set =>
             body.set["phoneNumbers"] = IF type = "Phone" THEN phones ELSE phones \ Faxes(phones)
    BY <1>3, <1>5 DEF Has
  <1>10. /\ "faxNumbers" \in DOMAIN body.set <=> located /\ Faxes(phones) # {}
         /\ "faxNumbers" \in DOMAIN body.set => body.set["faxNumbers"] = Faxes(phones)
    BY <1>3, <1>5 DEF Has
  <1>11. CASE type = "Phone"
    <2>1. /\ "phoneNumbers" \in DOMAIN told.set <=> touches
          /\ "phoneNumbers" \in DOMAIN told.set => told.set["phoneNumbers"] = phones
          /\ "phoneNumbers" \notin told.clear /\ "faxNumbers" \notin told.clear
          /\ "faxNumbers" \notin DOMAIN told.set
      BY <1>1, <1>3, <1>4, <1>6, <1>9, <1>11
    <2>2. PutPhones(old, told, TRUE) = IF touches /\ phones # {} THEN phones ELSE old
      BY <2>1 DEF PutPhones
    <2> QED
      BY <1>1, <1>2, <1>7, <1>11, <2>2
  <1>12. CASE type = "ServiceLocation"
    <2>1. /\ "phoneNumbers" \in DOMAIN told.set <=> touches /\ phones # Faxes(phones)
          /\ "phoneNumbers" \in DOMAIN told.set =>
               told.set["phoneNumbers"] = phones \ Faxes(phones)
          /\ "faxNumbers" \in DOMAIN told.set <=> touches /\ Faxes(phones) # {}
          /\ "faxNumbers" \in DOMAIN told.set => told.set["faxNumbers"] = Faxes(phones)
          /\ "phoneNumbers" \in told.clear <=> touches /\ phones = Faxes(phones)
          /\ "faxNumbers" \in told.clear <=> touches /\ Faxes(phones) = {}
      BY <1>1, <1>3, <1>4, <1>6, <1>9, <1>10, <1>12
    <2>2. CASE ~touches
      <3>1. PutPhones(old, told, FALSE) = (old \ Faxes(old)) \cup Faxes(old)
        BY <2>1, <2>2 DEF PutPhones
      <3>2. Faxes(old) \subseteq old
        BY DEF Faxes
      <3> QED
        BY <1>1, <1>2, <1>12, <2>2, <3>1, <3>2
    <2>3. CASE touches
      <3>0. Faxes(phones) \subseteq phones
        BY DEF Faxes
      <3>1. \A p \in phones \ Faxes(phones) : p = <<"Phone", p[2]>>
        BY <1>7, <1>12, <2>3 DEF PlainPhones, Faxes
      <3>2. {<<"Phone", p[2]>> : p \in phones \ Faxes(phones)} = phones \ Faxes(phones)
        BY <3>1
      <3>3. PutPhones(old, told, FALSE) = (phones \ Faxes(phones)) \cup Faxes(phones)
        BY <2>1, <2>3, <3>0, <3>2 DEF PutPhones
      <3> QED
        BY <1>1, <1>2, <1>7, <1>12, <2>3, <3>0, <3>3
    <2> QED
      BY <2>2, <2>3
  <1> QED
    BY <1>11, <1>12

-----------------------------------------------------------------------------
(* Organisations.                                                           *)

NamesTouched(changes) ==
  {"names", "alternativeNames", "alternativeNameShownIn"} \cap DOMAIN changes # {}

ShownIn(changes, current) ==
  (Touched(changes, "alternativeNameShownIn", current.displayNameType)
     \cap LanguagesIn(OrganizationNames(changes, current).alternatives))
    \cap LanguagesIn(OrganizationNames(changes, current).names)

NamesSent(changes, current) ==
  TextToItems(OrganizationNames(changes, current).names, "Name")
    \cup TextToItems(OrganizationNames(changes, current).alternatives, "AlternativeName")

TextsSent(changes, current) ==
  TextToItems(Touched(changes, "summaries",
     ItemsOfType(current.descriptionList, "Summary")), "Summary")
   \cup TextToItems(Touched(changes, "descriptions",
     ItemsOfType(current.descriptionList, "Description")), "Description")

LEMMA OrganizationBodyHas ==
  ASSUME NEW changes, NEW current
  PROVE  LET body == OrganizationChangesToV11Body(changes, current)
             touches == DOMAIN changes IN
         /\ Has(body.set, "publishingStatus", TRUE,
                Touched(changes, "publishingStatus", current.publishingStatus))
         /\ Has(body.set, "nameList", NamesTouched(changes), NamesSent(changes, current))
         /\ Has(body.set, "displayNameType", NamesTouched(changes), ShownIn(changes, current))
         /\ Has(body.set, "descriptionList", {"summaries", "descriptions"} \cap touches # {},
                TextsSent(changes, current))
         /\ Has(body.set, "businessCode", "businessCode" \in touches,
                Touched(changes, "businessCode", {}))
         /\ \A f \in ContactFields :
              Has(body.set, f, f \in touches /\ changes[f] # {}, changes[f])
         /\ "faxNumbers" \notin DOMAIN body.set
         /\ body.clear = {g \in ContactFields \cap touches : changes[g] = {}}
  <1> DEFINE body == OrganizationChangesToV11Body(changes, current)
             touches == DOMAIN changes
             B1 == NamesTouched(changes)
             B2 == {"summaries", "descriptions"} \cap touches # {}
             B3 == "businessCode" \in touches
             V0 == Touched(changes, "publishingStatus", current.publishingStatus)
             V1 == NamesSent(changes, current)
             V2 == ShownIn(changes, current)
             V3 == TextsSent(changes, current)
             V4 == Touched(changes, "businessCode", {})
             S == {g \in ContactFields \cap touches : changes[g] # {}}
  <1>1. PICK p0 : p0 = ("publishingStatus" :> V0)
    OBVIOUS
  <1>2. PICK p1 : p1 = OnlyIf(B1, ("nameList" :> V1) @@ ("displayNameType" :> V2))
    OBVIOUS
  <1>3. PICK p2 : p2 = OnlyIf(B2, "descriptionList" :> V3)
    OBVIOUS
  <1>4. PICK p3 : p3 = OnlyIf(B3, "businessCode" :> V4)
    OBVIOUS
  <1>5. PICK p4 : p4 = [f \in S |-> changes[f]]
    OBVIOUS
  <1>6. body.set = (((p0 @@ p1) @@ p2) @@ p3) @@ p4
    BY <1>1, <1>2, <1>3, <1>4, <1>5, Zenon
       DEF OrganizationChangesToV11Body, NamesTouched, NamesSent, ShownIn, TextsSent
  <1>7. body.clear = {g \in ContactFields \cap touches : changes[g] = {}}
    BY DEF OrganizationChangesToV11Body
  <1>8. B1 \in BOOLEAN /\ B2 \in BOOLEAN /\ B3 \in BOOLEAN
    BY DEF NamesTouched
  <1>9. \A f \in ContactFields : Has(p4, f, f \in touches /\ changes[f] # {}, changes[f])
    BY <1>5 DEF Has
  <1>10. DOMAIN p4 \subseteq {"emails", "phoneNumbers", "webPages", "addresses"}
    BY <1>5 DEF ContactFields
  <1> DEFINE parts == {p0, p1, p2, p3, p4}
  <1> HIDE DEF B1, B2, B3, V0, V1, V2, V3, V4, body, S
  <1>11. Has(p0, "publishingStatus", TRUE, V0) /\ DOMAIN p0 = {"publishingStatus"}
    BY <1>1, SingleHas
  <1>12. /\ Has(p1, "nameList", B1, V1) /\ Has(p1, "displayNameType", B1, V2)
         /\ DOMAIN p1 \subseteq {"nameList", "displayNameType"}
    <2>a. PICK n : n = ("nameList" :> V1)
      OBVIOUS
    <2>b. PICK d : d = ("displayNameType" :> V2)
      OBVIOUS
    <2>c. /\ DOMAIN n = {"nameList"} /\ n["nameList"] = V1
          /\ DOMAIN d = {"displayNameType"} /\ d["displayNameType"] = V2
      BY <2>a, <2>b, Single
    <2>1. PICK g : g = n @@ d
      OBVIOUS
    <2>2. DOMAIN g = {"nameList", "displayNameType"} /\ g["nameList"] = V1
          /\ g["displayNameType"] = V2
      <3>1. DOMAIN g = DOMAIN n \cup DOMAIN d
        BY <2>1, Spread
      <3>2. \A x \in DOMAIN n : g[x] = n[x]
        BY <2>1, Spread
      <3>3. \A x \in DOMAIN d \ DOMAIN n : g[x] = d[x]
        BY <2>1, Last
      <3>4. "displayNameType" \in DOMAIN d \ DOMAIN n
        BY <2>c
      <3> QED
        BY <2>c, <3>1, <3>2, <3>3, <3>4
    <2>3. p1 = IF B1 THEN g ELSE << >>
      BY <1>2, <2>a, <2>b, <2>1 DEF OnlyIf
    <2>4. DOMAIN << >> = {}
      OBVIOUS
    <2> QED
      BY <1>8, <2>2, <2>3, <2>4 DEF Has
  <1>13. Has(p2, "descriptionList", B2, V3) /\ DOMAIN p2 \subseteq {"descriptionList"}
    BY <1>3, <1>8, OptionalHas
  <1>14. Has(p3, "businessCode", B3, V4) /\ DOMAIN p3 \subseteq {"businessCode"}
    BY <1>4, <1>8, OptionalHas
  <1>15. Joins(body.set, parts)
    <2>1. Joins(p0, {p0})
      BY JoinsOne
    <2>2. Joins(p0 @@ p1, {p0} \cup {p1})
      BY <2>1, JoinsMore
    <2>3. Joins((p0 @@ p1) @@ p2, ({p0} \cup {p1}) \cup {p2})
      BY <2>2, JoinsMore
    <2>4. Joins(((p0 @@ p1) @@ p2) @@ p3, (({p0} \cup {p1}) \cup {p2}) \cup {p3})
      BY <2>3, JoinsMore
    <2>5. Joins(body.set, ((({p0} \cup {p1}) \cup {p2}) \cup {p3}) \cup {p4})
      BY <1>6, <2>4, JoinsMore
    <2>6. ((({p0} \cup {p1}) \cup {p2}) \cup {p3}) \cup {p4} = parts
      OBVIOUS
    <2> QED
      BY <2>5, <2>6
  <1>16. ASSUME NEW x, NEW q \in parts, NEW b, NEW v, Has(q, x, b, v),
                \A o \in parts : x \in DOMAIN o => o = q
         PROVE  Has(body.set, x, b, v)
    <2> HIDE DEF parts
    <2> QED
      BY <1>15, <1>16, JoinsHas
  <1>17. \A o \in parts :
           /\ "publishingStatus" \in DOMAIN o => o = p0
           /\ "nameList" \in DOMAIN o => o = p1
           /\ "displayNameType" \in DOMAIN o => o = p1
           /\ "descriptionList" \in DOMAIN o => o = p2
           /\ "businessCode" \in DOMAIN o => o = p3
           /\ \A f \in ContactFields : f \in DOMAIN o => o = p4
           /\ "faxNumbers" \notin DOMAIN o
    BY <1>10, <1>11, <1>12, <1>13, <1>14 DEF ContactFields
  <1>18. p0 \in parts /\ p1 \in parts /\ p2 \in parts /\ p3 \in parts /\ p4 \in parts
    OBVIOUS
  <1> HIDE DEF parts
  <1>19. /\ Has(body.set, "publishingStatus", TRUE, V0)
         /\ Has(body.set, "nameList", B1, V1)
         /\ Has(body.set, "displayNameType", B1, V2)
         /\ Has(body.set, "descriptionList", B2, V3)
         /\ Has(body.set, "businessCode", B3, V4)
    BY <1>11, <1>12, <1>13, <1>14, <1>16, <1>17, <1>18
  <1>20. ASSUME NEW f \in ContactFields
         PROVE  Has(body.set, f, f \in touches /\ changes[f] # {}, changes[f])
    <2>1. PICK b : b = (f \in touches /\ changes[f] # {})
      OBVIOUS
    <2>2. Has(p4, f, b, changes[f])
      BY <1>9, <2>1
    <2>3. Has(body.set, f, b, changes[f])
      BY <1>16, <1>17, <1>18, <2>2
    <2> QED
      BY <2>1, <2>3
  <1>21. "faxNumbers" \notin DOMAIN body.set
    BY <1>15, <1>17, JoinsHasNot
  <1> QED
    BY <1>7, <1>19, <1>20, <1>21 DEF body, B1, B2, B3, V0, V1, V2, V3, V4

\* An organisation after a PUT of it that is built on it.
OrganizationIs(after, stored, changes) ==
  /\ DOMAIN after = OrganizationOut
  /\ \A f \in {"publishingStatus", "businessCode"} \cup ContactFields :
       after[f] = Touched(changes, f, stored[f])
  /\ after["nameList"] =
       Told(stored, "nameList", NamesTouched(changes), NamesSent(changes, stored))
  /\ after["displayNameType"] =
       IF NamesTouched(changes) THEN ShownIn(changes, stored) ELSE stored["displayNameType"]
  /\ after["descriptionList"] =
       Told(stored, "descriptionList", {"summaries", "descriptions"} \cap DOMAIN changes # {},
            TextsSent(changes, stored))

LEMMA OrganizationAfter ==
  ASSUME NEW stored, DOMAIN stored = OrganizationOut, Faxes(stored["phoneNumbers"]) = {},
         NEW changes,
         "phoneNumbers" \in DOMAIN changes =>
           PlainPhones(changes["phoneNumbers"]) /\ Faxes(changes["phoneNumbers"]) = {},
         NEW after,
         after = Put(stored, OrganizationChangesToV11Body(changes, stored), OrganizationInBase)
  PROVE  OrganizationIs(after, stored, changes)
  <1> DEFINE body == OrganizationChangesToV11Body(changes, stored)
             schema == OrganizationInBase
             touches == DOMAIN changes
             told == Accepted(body, schema)
  <1>1. /\ Has(body.set, "publishingStatus", TRUE,
                Touched(changes, "publishingStatus", stored.publishingStatus))
        /\ Has(body.set, "nameList", NamesTouched(changes), NamesSent(changes, stored))
        /\ Has(body.set, "displayNameType", NamesTouched(changes), ShownIn(changes, stored))
        /\ Has(body.set, "descriptionList", {"summaries", "descriptions"} \cap touches # {},
               TextsSent(changes, stored))
        /\ Has(body.set, "businessCode", "businessCode" \in touches,
               Touched(changes, "businessCode", {}))
        /\ \A f \in ContactFields : Has(body.set, f, f \in touches /\ changes[f] # {}, changes[f])
        /\ "faxNumbers" \notin DOMAIN body.set
        /\ body.clear = {g \in ContactFields \cap touches : changes[g] = {}}
    BY OrganizationBodyHas
  <1>2. /\ schema.takes = OrganizationOut
        /\ schema.clears = ContactFields /\ schema.typed = FALSE
        /\ OrganizationOut = {"publishingStatus", "nameList", "displayNameType",
                              "descriptionList", "businessCode"} \cup ContactFields
        /\ {"publishingStatus", "nameList", "displayNameType", "descriptionList", "businessCode"}
             \cap ContactFields = {}
        /\ "phoneNumbers" \in ContactFields /\ "phoneNumbers" \in OrganizationOut
        /\ "faxNumbers" \notin ContactFields
        /\ ContactFields \cap Scalars = {}
    BY DEF OrganizationInBase, OrganizationOut, ItemTexts, ContactFields, Scalars
  <1>3. told.set = [f \in DOMAIN body.set \cap schema.takes |-> body.set[f]]
        /\ told.clear = body.clear \cap schema.clears
    BY DEF Accepted
  <1>4. DOMAIN after = OrganizationOut
    BY DEF Put
  <1> HIDE DEF body, schema
  <1>5. ASSUME NEW f \in OrganizationOut, f # "phoneNumbers", NEW b, NEW v,
               Has(body.set, f, b, v), f \notin body.clear
        PROVE  after[f] = Told(stored, f, b, v)
    BY <1>2, <1>5, PutTold DEF body, schema
  <1>6. after["phoneNumbers"] = PutPhones(stored["phoneNumbers"], told, FALSE)
    BY <1>2, PhonesTold DEF body, schema
  <1> HIDE DEF told
  <1>7. after["phoneNumbers"] = Touched(changes, "phoneNumbers", stored["phoneNumbers"])
    <2> DEFINE phones == changes["phoneNumbers"]
               old == stored["phoneNumbers"]
    <2>1. /\ "faxNumbers" \notin DOMAIN told.set /\ "faxNumbers" \notin told.clear
          /\ "phoneNumbers" \in told.clear <=> "phoneNumbers" \in touches /\ phones = {}
          /\ "phoneNumbers" \in DOMAIN told.set <=> "phoneNumbers" \in touches /\ phones # {}
          /\ "phoneNumbers" \in DOMAIN told.set => told.set["phoneNumbers"] = phones
      BY <1>1, <1>2, <1>3 DEF Has
    <2>2. CASE "phoneNumbers" \in touches /\ phones = {}
      <3>1. PutPhones(old, told, FALSE) = {}
        BY <2>1, <2>2 DEF PutPhones
      <3> QED
        BY <1>6, <2>2, <3>1 DEF Touched
    <2>3. CASE "phoneNumbers" \in touches /\ phones # {}
      <3>1. \A p \in phones : p = <<"Phone", p[2]>>
        BY <2>3 DEF PlainPhones, Faxes
      <3>2. {<<"Phone", p[2]>> : p \in phones} = phones
        BY <3>1
      <3>3. PutPhones(old, told, FALSE) = phones
        BY <2>1, <2>3, <3>2 DEF PutPhones
      <3> QED
        BY <1>6, <2>3, <3>3 DEF Touched
    <2>4. CASE "phoneNumbers" \notin touches
      <3>1. PutPhones(old, told, FALSE) = old
        BY <2>1, <2>4 DEF PutPhones
      <3> QED
        BY <1>6, <2>4, <3>1 DEF Touched
    <2> QED
      BY <2>2, <2>3, <2>4
  <1>8. ASSUME NEW f \in ContactFields PROVE after[f] = Touched(changes, f, stored[f])
    <2>1. CASE f = "phoneNumbers"
      BY <1>7, <2>1
    <2>2. CASE f # "phoneNumbers" /\ f \in touches /\ changes[f] = {}
      <3>1. f \in body.clear /\ f \in schema.clears /\ f \in DOMAIN stored
        BY <1>1, <1>2, <2>2
      <3>2. after[f] = {}
        BY <2>2, <3>1, PutTold DEF body, schema
      <3> QED
        BY <2>2, <3>2 DEF Touched
    <2>3. CASE f # "phoneNumbers" /\ ~(f \in touches /\ changes[f] = {})
      <3>1. f \notin body.clear /\ f \in OrganizationOut
        BY <1>1, <1>2, <2>3
      <3>2. PICK b : b = (f \in touches /\ changes[f] # {})
        OBVIOUS
      <3>3. Has(body.set, f, b, changes[f])
        BY <1>1, <3>2
      <3>4. after[f] = Told(stored, f, b, changes[f])
        BY <1>5, <2>3, <3>1, <3>3
      <3> QED
        BY <2>3, <3>2, <3>4 DEF Told, Touched
    <2> QED
      BY <2>1, <2>2, <2>3
  <1>9. {"publishingStatus", "nameList", "displayNameType", "descriptionList", "businessCode"}
           \subseteq OrganizationOut \ ({"phoneNumbers"} \cup body.clear)
    BY <1>1, <1>2
  <1>10. after["publishingStatus"] = Touched(changes, "publishingStatus", stored["publishingStatus"])
    <2>0. PICK b, v : b = TRUE /\ v = Touched(changes, "publishingStatus", stored["publishingStatus"])
      OBVIOUS
    <2>a. Has(body.set, "publishingStatus", b, v)
      BY <1>1, <2>0
    <2>b. after["publishingStatus"] = Told(stored, "publishingStatus", b, v)
      BY <1>5, <1>9, <2>a
    <2> QED
      BY <2>0, <2>b DEF Told, Scalars
  <1>11. after["businessCode"] = Touched(changes, "businessCode", stored["businessCode"])
    <2>1. after["businessCode"] =
            Told(stored, "businessCode", "businessCode" \in touches,
                 Touched(changes, "businessCode", {}))
      BY <1>1, <1>5, <1>9
    <2> QED
      BY <2>1 DEF Told, Touched, Scalars
  <1>12. after["nameList"] =
           Told(stored, "nameList", NamesTouched(changes), NamesSent(changes, stored))
    BY <1>1, <1>5, <1>9
  <1>13. after["displayNameType"] =
           IF NamesTouched(changes) THEN ShownIn(changes, stored) ELSE stored["displayNameType"]
    <2>1. after["displayNameType"] =
            Told(stored, "displayNameType", NamesTouched(changes), ShownIn(changes, stored))
      BY <1>1, <1>5, <1>9
    <2> QED
      BY <2>1 DEF Told, Scalars
  <1>14. after["descriptionList"] =
           Told(stored, "descriptionList", {"summaries", "descriptions"} \cap DOMAIN changes # {},
                TextsSent(changes, stored))
    BY <1>1, <1>5, <1>9
  <1> QED
    BY <1>4, <1>8, <1>10, <1>11, <1>12, <1>13, <1>14 DEF OrganizationIs

-----------------------------------------------------------------------------
(* What a PUT keeps.                                                        *)

\* An item and the fields of its kind.
Proper(k, stored) ==
  DOMAIN stored = ReadSchema(k) /\ \A f \in DOMAIN stored : IsField(k, f, stored[f])

\* A change the kind lets through.
Possible(k, changes) ==
  Supported(k, changes) /\ \A f \in DOMAIN changes : IsChange(k, f, changes[f])

After(k, stored, changes, uris) ==
  Put(stored, BodyOf(k, changes, WireOf(stored), uris), WriteSchema(k))

\* What the description the item is linked to brings, as PTV shows it.
UrisOf(k, stored) == IF k = "Service" THEN GeneralDescriptionUris(WireOf(stored)) ELSE {}

\* Whether what was read as its description's is that.
Shows(k, stored, uris) == k = "Service" => uris = UrisOf(k, stored)

LEMMA UrisAre ==
  ASSUME NEW k, NEW stored
  PROVE  /\ GeneralDescriptionUris(WireOf(stored)) = GeneralDescriptionUris(stored)
         /\ GeneralDescriptionUris(stored) = IF IsLinked(stored) THEN InheritedUris ELSE {}
  <1>1. "generalDescriptionId" \notin Classifications
    BY DEF Classifications, Required, Flagged
  <1>2. WireOf(stored).generalDescriptionId = stored.generalDescriptionId
    BY <1>1 DEF WireOf
  <1> QED
    BY <1>2 DEF GeneralDescriptionUris, IsLinked

LEMMA ItemsBack ==
  ASSUME NEW items, IsList(items), NEW t
  PROVE  TextToItems(ItemsOfType(items, t), t) = {i \in items : i[1] = t}
  <1> DEFINE text == ItemsOfType(items, t)
             same == {i \in items : i[1] = t}
  <1>1. ASSUME NEW i \in same PROVE i \in TextToItems(text, t)
    <2> DEFINE x == <<i[2], i[3]>>
    <2>1. x \in text
      BY DEF ItemsOfType
    <2>2. i = <<t, i[2], i[3]>>
      BY DEF IsList
    <2>3. i = <<t, x[1], x[2]>>
      BY <2>2
    <2> HIDE DEF x, text
    <2> QED
      BY <2>1, <2>3 DEF TextToItems
  <1>2. ASSUME NEW j \in TextToItems(text, t) PROVE j \in same
    <2>1. PICK x \in text : j = <<t, x[1], x[2]>>
      BY DEF TextToItems
    <2>2. PICK i \in items : i[1] = t /\ x = <<i[2], i[3]>>
      BY DEF ItemsOfType
    <2>3. x[1] = i[2] /\ x[2] = i[3]
      BY <2>2
    <2>4. i = <<i[1], i[2], i[3]>>
      BY DEF IsList
    <2>5. j = i
      BY <2>1, <2>2, <2>3, <2>4
    <2> QED
      BY <2>2, <2>5
  <1> QED
    BY <1>1, <1>2

LEMMA ItemsTyped ==
  ASSUME NEW text, NEW t, NEW i \in TextToItems(text, t)
  PROVE  i[1] = t /\ i = <<i[1], i[2], i[3]>>
  BY DEF TextToItems

\* The texts of a type, in a list with others.
LEMMA TextsOf ==
  ASSUME NEW text, IsText(text), NEW t, NEW others, \A i \in others : i[1] # t
  PROVE  ItemsOfType(others \cup TextToItems(text, t), t) = text
  <1> DEFINE both == others \cup TextToItems(text, t)
  <1>1. ASSUME NEW x \in text PROVE x \in ItemsOfType(both, t)
    <2> DEFINE i == <<t, x[1], x[2]>>
    <2>1. i \in both /\ i[1] = t /\ i[2] = x[1] /\ i[3] = x[2]
      BY DEF TextToItems
    <2>2. x = <<x[1], x[2]>>
      BY DEF IsText
    <2> HIDE DEF i, both
    <2> QED
      BY <2>1, <2>2 DEF ItemsOfType
  <1>2. ASSUME NEW y \in ItemsOfType(both, t) PROVE y \in text
    <2>1. PICK i \in both : i[1] = t /\ y = <<i[2], i[3]>>
      BY DEF ItemsOfType
    <2>2. PICK x \in text : i = <<t, x[1], x[2]>>
      BY <2>1 DEF TextToItems
    <2>3. y = <<x[1], x[2]>> /\ x = <<x[1], x[2]>>
      BY <2>1, <2>2 DEF IsText
    <2> QED
      BY <2>3
  <1> QED
    BY <1>1, <1>2

\* A list's entries of a type are its texts of the type.
LEMMA SameTexts ==
  ASSUME NEW items, NEW others, NEW t,
         \A i : i[1] = t => (i \in items <=> i \in others)
  PROVE  ItemsOfType(items, t) = ItemsOfType(others, t)
  BY DEF ItemsOfType

LEMMA GovernedAre ==
  ASSUME NEW changes
  PROVE  /\ "Name" \in GovernedTypes(changes) <=> "names" \in DOMAIN changes
         /\ "AlternativeName" \in GovernedTypes(changes) <=> "alternativeNames" \in DOMAIN changes
         /\ "Summary" \in GovernedTypes(changes) <=> "summaries" \in DOMAIN changes
         /\ "Description" \in GovernedTypes(changes) <=> "descriptions" \in DOMAIN changes
         /\ GovernedTypes(changes) \subseteq {"Name", "AlternativeName", "Summary", "Description"}
  BY DEF GovernedTypes

LEMMA UrisMatterNot ==
  ASSUME NEW k, k # "Service", NEW stored, NEW changes, NEW uris
  PROVE  After(k, stored, changes, uris) = After(k, stored, changes, {})
  BY DEF After, BodyOf

\* What an update may not change of an item.
RestKept(after, before, changes, uris) ==
  LET governed == DOMAIN changes \cup
        (IF "alternativeNames" \in DOMAIN changes \/ "names" \in DOMAIN changes
            \/ "alternativeNameShownIn" \in DOMAIN changes THEN {"displayNameType"} ELSE {})
  IN  /\ \A f \in {"nameList", "descriptionList"} :
           OtherEntries(after[f], changes) = OtherEntries(before[f], changes)
      /\ \A f \in DOMAIN after \ (governed \cup Classifications \cup
                                    {"nameList", "descriptionList"}) :
           after[f] = before[f]
      /\ \A f \in (DOMAIN after \cap Classifications) \ DOMAIN changes :
           /\ before[f] \ InheritedUris \subseteq after[f]
           /\ after[f] \subseteq before[f] \cup
                (IF before[f] \ InheritedUris = {} \/ ~Shows(kind, before, uris)
                   THEN InheritedUris ELSE {})

LEMMA InheritedIn == ASSUME NEW f \in Classifications PROVE Inherited[f] \subseteq InheritedUris
  BY DEF InheritedUris

\* The numbers of a channel after its PUT.
PhonesAre(after, type, stored, changes) ==
  "phoneNumbers" \in ReadSchema(type) =>
    after["phoneNumbers"] =
      IF /\ "phoneNumbers" \in DOMAIN changes
         /\ type = "Phone" => changes["phoneNumbers"] # {}
        THEN changes["phoneNumbers"] ELSE stored["phoneNumbers"]

\* An item after a PUT of it that is built on it, field by field.
LEMMA ServiceUpdated ==
  ASSUME NEW before, Proper("Service", before), NEW changes, NEW uris,
         NEW after, after = After("Service", before, changes, uris)
  PROVE  ServiceIs(after, before, changes, uris) /\ DOMAIN before = ServiceOut
  <1>1. DOMAIN before = ServiceOut
    BY DEF Proper, ReadSchema
  <1>2. after = Put(before, ServiceChangesToV11Body(changes, WireOf(before), uris), ServiceInBase)
    BY DEF After, BodyOf, WriteSchema
  <1> QED
    BY <1>1, <1>2, ServiceAfter

LEMMA ChannelUpdated ==
  ASSUME NEW type \in ChannelTypes, NEW before, Proper(type, before),
         NEW changes, Possible(type, changes), NEW uris,
         NEW after, after = After(type, before, changes, uris)
  PROVE  /\ ChannelIs(after, type, before, changes) /\ PhonesAre(after, type, before, changes)
         /\ WireOf(before) = before /\ DOMAIN before = ReadSchema(type)
  <1>1. DOMAIN before = ReadSchema(type)
    BY DEF Proper
  <1>2. DOMAIN changes \subseteq ChannelTypeFields(type)
    BY DEF Possible, Supported, SupportedOrganization, ChannelTypes
  <1>3. /\ "generalDescriptionId" \notin DOMAIN before
        /\ type \notin {"Service", "Organization"}
    BY <1>1, ChannelSchemas DEF ChannelTypes
  <1>4. WireOf(before) = before
    BY <1>3 DEF WireOf
  <1>5. after = Put(before, ChannelChangesToV11Body(changes, before, type), WriteSchema(type))
    BY <1>3, <1>4 DEF After, BodyOf
  <1>6. ChannelIs(after, type, before, changes)
    BY <1>1, <1>2, <1>5, ChannelAfter
  <1>7. PhonesAre(after, type, before, changes)
    <2> SUFFICES ASSUME "phoneNumbers" \in ReadSchema(type)
                 PROVE  after["phoneNumbers"] =
                          IF /\ "phoneNumbers" \in DOMAIN changes
                             /\ type = "Phone" => changes["phoneNumbers"] # {}
                            THEN changes["phoneNumbers"] ELSE before["phoneNumbers"]
      BY DEF PhonesAre
    <2>1. type \in {"Phone", "ServiceLocation"}
      BY ChannelSchemas
    <2>2. "phoneNumbers" \in DOMAIN changes /\ type = "ServiceLocation" =>
            PlainPhones(changes["phoneNumbers"])
      BY DEF Possible, IsChange
    <2> QED
      BY <1>1, <1>2, <1>5, <2>1, <2>2, ChannelPhones
  <1> QED
    BY <1>1, <1>4, <1>6, <1>7

\* The lists of an organisation hold texts of two types each, and its
\* numbers are phones.
LEMMA OrganizationProper ==
  ASSUME NEW stored, Proper("Organization", stored)
  PROVE  /\ DOMAIN stored = OrganizationOut /\ WireOf(stored) = stored
         /\ Faxes(stored["phoneNumbers"]) = {}
         /\ IsList(stored["nameList"]) /\ IsList(stored["descriptionList"])
         /\ \A i \in stored["nameList"] : i[1] \in {"Name", "AlternativeName"}
         /\ \A i \in stored["descriptionList"] : i[1] \in {"Summary", "Description"}
  <1>1. /\ DOMAIN stored = OrganizationOut
        /\ IsField("Organization", "nameList", stored["nameList"])
        /\ IsField("Organization", "descriptionList", stored["descriptionList"])
        /\ IsField("Organization", "phoneNumbers", stored["phoneNumbers"])
    BY DEF Proper, ReadSchema, OrganizationOut, ItemTexts
  <1>2. WireOf(stored) = stored
    BY <1>1 DEF WireOf, OrganizationOut, ItemTexts
  <1> QED
    BY <1>1, <1>2 DEF IsField, OrganizationTypes

LEMMA OrganizationUpdated ==
  ASSUME NEW before, Proper("Organization", before), NEW changes, Possible("Organization", changes), NEW uris,
         NEW after, after = After("Organization", before, changes, uris)
  PROVE  OrganizationIs(after, before, changes)
  <1>1. "phoneNumbers" \in DOMAIN changes =>
          PlainPhones(changes["phoneNumbers"]) /\ Faxes(changes["phoneNumbers"]) = {}
    BY DEF Possible, IsChange
  <1>2. DOMAIN before = OrganizationOut /\ WireOf(before) = before
        /\ Faxes(before["phoneNumbers"]) = {}
    BY OrganizationProper
  <1>3. after = Put(before, OrganizationChangesToV11Body(changes, before), OrganizationInBase)
    BY <1>2 DEF After, BodyOf, WriteSchema
  <1> QED
    BY <1>1, <1>2, <1>3, OrganizationAfter

LEMMA ServiceKeepsRest ==
  ASSUME kind = "Service", NEW before, Proper(kind, before), NEW changes,
         NEW uris, uris = {} \/ uris = UrisOf(kind, before),
         NEW after, after = After(kind, before, changes, uris)
  PROVE  RestKept(after, before, changes, uris)
  <1> DEFINE current == WireOf(before)
             touches == DOMAIN changes
  <1>1. ServiceIs(after, before, changes, uris) /\ DOMAIN before = ServiceOut
    BY ServiceUpdated
  <1>3. /\ DOMAIN after = ServiceOut
        /\ \A f \in {"publishingStatus", "type", "generalDescriptionId"} :
             after[f] = Touched(changes, f, before[f])
        /\ after["nameList"] =
             Told(before, "nameList", "names" \in touches,
                  KeptWireItems(before["nameList"], {"Name"})
                    \cup TextToItems(Touched(changes, "names", {}), "Name"))
        /\ after["descriptionList"] =
             Told(before, "descriptionList", {"summaries", "descriptions"} \cap touches # {},
                  ServiceDescriptions(changes, before))
        /\ after["languages"] =
             Told(before, "languages", "languages" \in touches, Touched(changes, "languages", {}))
        /\ \A f \in Classifications :
             after[f] = IF f \in Flagged \cap touches /\ changes[f] = {} THEN {}
                        ELSE Told(before, f, f \in ListsSent(changes, before),
                                  OwnEntries(Touched(changes, f, current[f]), uris))
    BY <1>1 DEF ServiceIs
  <1>4. ServiceOut = {"nameList", "descriptionList", "publishingStatus", "languages", "type",
                      "generalDescriptionId"} \cup Classifications
    BY DEF ServiceOut, ItemTexts
  <1>5. kind \notin ChannelTypes
    BY DEF ChannelTypes
  <1>6. \A items : OtherEntries(items, changes) = {i \in items : i[1] \notin GovernedTypes(changes)}
    BY <1>5 DEF OtherEntries
  <1>7. OtherEntries(after["nameList"], changes) = OtherEntries(before["nameList"], changes)
    <2> DEFINE sent == KeptWireItems(before["nameList"], {"Name"})
                         \cup TextToItems(Touched(changes, "names", {}), "Name")
    <2>1. CASE "names" \in touches
      <3>1. \A i \in sent : i[1] # "Name" => i \in before["nameList"]
        BY ItemsTyped DEF KeptWireItems
      <3>2. \A i \in before["nameList"] : i[1] # "Name" => i \in sent
        BY DEF KeptWireItems
      <3>3. "Name" \in GovernedTypes(changes)
        BY <2>1, GovernedAre
      <3> HIDE DEF sent
      <3>5. \A i : i[1] \notin GovernedTypes(changes) => (i \in sent <=> i \in before["nameList"])
        BY <3>1, <3>2, <3>3
      <3>4. OtherEntries(sent, changes) = OtherEntries(before["nameList"], changes)
        BY <1>6, <3>5
      <3> QED
        BY <1>3, <3>4 DEF Told, sent
    <2>2. CASE "names" \notin touches
      BY <1>3, <2>2 DEF Told
    <2> QED
      BY <2>1, <2>2
  <1>8. OtherEntries(after["descriptionList"], changes)
          = OtherEntries(before["descriptionList"], changes)
    <2> DEFINE old == before["descriptionList"]
               s == Touched(changes, "summaries", ItemsOfType(old, "Summary"))
               d == Touched(changes, "descriptions", ItemsOfType(old, "Description"))
    <2>1. PICK sent : sent = ServiceDescriptions(changes, before)
      OBVIOUS
    <2>2. sent = (KeptWireItems(old, {"Summary", "Description"}) \cup TextToItems(s, "Summary"))
                   \cup TextToItems(d, "Description")
      BY <2>1 DEF ServiceDescriptions
    <2>3. IsList(old)
      BY <1>1, <1>4 DEF Proper, IsField
    <2>4. "summaries" \notin touches => TextToItems(s, "Summary") = {i \in old : i[1] = "Summary"}
      BY <2>3, ItemsBack DEF Touched
    <2>5. "descriptions" \notin touches =>
            TextToItems(d, "Description") = {i \in old : i[1] = "Description"}
      BY <2>3, ItemsBack DEF Touched
    <2> HIDE DEF s, d
    <2>6. \A i \in TextToItems(s, "Summary") : i[1] = "Summary"
      BY ItemsTyped
    <2>7. \A i \in TextToItems(d, "Description") : i[1] = "Description"
      BY ItemsTyped
    <2>8. \A i : i[1] \notin GovernedTypes(changes) => (i \in sent <=> i \in old)
      BY <2>2, <2>4, <2>5, <2>6, <2>7, GovernedAre DEF KeptWireItems
    <2>9. OtherEntries(sent, changes) = OtherEntries(old, changes)
      BY <1>6, <2>8
    <2> QED
      BY <1>3, <2>1, <2>9 DEF Told
  <1>9. ASSUME NEW f \in DOMAIN after \ (touches \cup Classifications \cup
                                           {"nameList", "descriptionList"})
        PROVE  after[f] = before[f]
    <2>1. f \in {"publishingStatus", "type", "generalDescriptionId", "languages"}
      BY <1>3, <1>4
    <2> QED
      BY <1>3, <2>1 DEF Touched, Told
  <1>2. uris = {} \/ uris = GeneralDescriptionUris(before)
    BY UrisAre DEF UrisOf
  <1>10. ASSUME NEW f \in Classifications, f \notin touches
         PROVE  /\ before[f] \ InheritedUris \subseteq after[f]
                /\ after[f] \subseteq before[f] \cup
                     (IF before[f] \ InheritedUris = {} \/ ~Shows(kind, before, uris)
                        THEN InheritedUris ELSE {})
    <2> DEFINE sent == OwnEntries(current[f], uris)
    <2>1. after[f] = Told(before, f, f \in ListsSent(changes, before), sent)
      BY <1>3, <1>10 DEF Touched
    <2>2. f \in DOMAIN before /\ Inherited[f] \subseteq InheritedUris
      BY <1>1, <1>4, InheritedIn
    <2>3. CASE IsLinked(before) /\ uris = InheritedUris
      <3>1. current[f] = before[f] \cup Inherited[f]
        BY <1>1, <1>4, <2>2, <2>3, WireFields DEF IsLinked
      <3>2. sent = IF before[f] \ InheritedUris = {} THEN before[f] \cup Inherited[f]
                   ELSE before[f] \ InheritedUris
        BY <2>2, <2>3, <3>1 DEF OwnEntries
      <3> HIDE DEF sent
      <3> QED
        BY <2>1, <2>2, <3>2 DEF Told
    <2>4. CASE IsLinked(before) /\ uris = {} /\ uris # InheritedUris
      <3>1. current[f] = before[f] \cup Inherited[f]
        BY <1>1, <1>4, <2>2, <2>4, WireFields DEF IsLinked
      <3>2. sent = before[f] \cup Inherited[f]
        BY <2>4, <3>1 DEF OwnEntries
      <3>3. ~Shows(kind, before, uris)
        BY <2>4, UrisAre DEF Shows, UrisOf
      <3> HIDE DEF sent
      <3> QED
        BY <2>1, <2>2, <3>2, <3>3 DEF Told
    <2>5. CASE ~IsLinked(before)
      <3>1. current[f] = before[f] /\ uris = {}
        BY <1>1, <1>2, <1>4, <2>2, <2>5, WireFields, UrisAre DEF IsLinked
      <3>2. sent = before[f]
        BY <3>1 DEF OwnEntries
      <3> HIDE DEF sent
      <3> QED
        BY <2>1, <3>2 DEF Told
    <2> QED
      BY <1>2, <2>3, <2>4, <2>5, UrisAre
  <1> HIDE DEF touches
  <1> QED
    BY <1>7, <1>8, <1>9, <1>10 DEF RestKept, touches

LEMMA ChannelKeepsRest ==
  ASSUME kind \in ChannelTypes, NEW before, Proper(kind, before),
         NEW changes, Possible(kind, changes), NEW uris,
         NEW after, after = After(kind, before, changes, uris)
  PROVE  RestKept(after, before, changes, uris)
  <1> DEFINE touches == DOMAIN changes
  <1>1. PICK type \in ChannelTypes : type = kind
    OBVIOUS
  <1>2. ChannelIs(after, type, before, changes) /\ PhonesAre(after, type, before, changes)
    BY <1>1, ChannelUpdated
  <1>5. /\ DOMAIN after = ReadSchema(type)
        /\ \A f \in ReadSchema(type) \cap ({"publishingStatus", "isVisibleForAll",
               "requiresSignature", "requiresAuthentication"} \cup FlaggedLists(type)) :
             after[f] = Touched(changes, f, before[f])
        /\ \A f \in WholeLists(type) : after[f] = Told(before, f, f \in touches, changes[f])
        /\ \A f \in ReadSchema(type) \cap {"accessibility"} :
             after[f] = IF f \in touches /\ changes[f] # {} THEN changes[f] ELSE before[f]
        /\ \A f \in ReadSchema(type) \cap {"signatureQuantity"} :
             after[f] = IF SignatureSent(changes) THEN changes[f] ELSE before[f]
        /\ \A f \in ReadSchema(type) \cap {"displayNameType"} : after[f] = before[f]
        /\ after["nameList"] =
             Told(before, "nameList", {"names", "languages"} \cap touches # {},
                  KeptChannelItems(before["nameList"],
                    IF "names" \in touches THEN {"Name"} ELSE {}, changes)
                    \cup TextToItems(Touched(changes, "names", {}), "Name"))
        /\ after["descriptionList"] =
             Told(before, "descriptionList",
                  {"descriptions", "summaries", "languages"} \cap touches # {},
                  ChannelDescriptions(changes, before))
        /\ after["languages"] =
             Told(before, "languages", "languages" \in touches, Touched(changes, "languages", {}))
    BY <1>2 DEF ChannelIs
  <1>6. /\ ReadSchema(type) \subseteq OwnWay \cup FlaggedLists(type) \cup WholeLists(type)
        /\ "phoneNumbers" \in ReadSchema(type) <=> type \in {"Phone", "ServiceLocation"}
    BY ChannelSchemas
  <1>7. "phoneNumbers" \in ReadSchema(type) /\ "phoneNumbers" \notin touches =>
          after["phoneNumbers"] = before["phoneNumbers"]
    BY <1>2 DEF PhonesAre
  <1>8. \A items : OtherEntries(items, changes) =
          {i \in items : /\ i[1] \notin GovernedTypes(changes)
                         /\ "languages" \in touches => i[2] \in changes["languages"]}
    BY DEF OtherEntries
  <1>9. OtherEntries(after["nameList"], changes) = OtherEntries(before["nameList"], changes)
    <2> DEFINE old == before["nameList"]
               kept == KeptChannelItems(old, IF "names" \in touches THEN {"Name"} ELSE {}, changes)
               names == TextToItems(Touched(changes, "names", {}), "Name")
    <2>1. PICK sent : sent = kept \cup names
      OBVIOUS
    <2>2. kept = {i \in old : /\ "names" \in touches => i[1] # "Name"
                              /\ "languages" \in touches => i[2] \in changes["languages"]}
      BY DEF KeptChannelItems
    <2>3. \A i \in names : i[1] = "Name" /\ "names" \in touches
      BY ItemsTyped DEF Touched, TextToItems
    <2> HIDE DEF kept, names
    <2>4. \A i : /\ i[1] \notin GovernedTypes(changes)
                 /\ "languages" \in touches => i[2] \in changes["languages"]
                 => (i \in sent <=> i \in old)
      <3>1. "names" \in touches => "Name" \in GovernedTypes(changes)
        BY GovernedAre
      <3> QED
        BY <2>1, <2>2, <2>3, <3>1
    <2>5. OtherEntries(sent, changes) = OtherEntries(old, changes)
      BY <1>8, <2>4
    <2> QED
      BY <1>5, <2>1, <2>5 DEF Told, kept, names
  <1>10. OtherEntries(after["descriptionList"], changes)
           = OtherEntries(before["descriptionList"], changes)
    <2> DEFINE old == before["descriptionList"]
               replaced == (IF "descriptions" \in DOMAIN changes THEN {"Description"} ELSE {})
                             \cup (IF "summaries" \in DOMAIN changes THEN {"Summary"} ELSE {})
               kept == KeptChannelItems(old, replaced, changes)
               s == TextToItems(Touched(changes, "summaries", {}), "Summary")
               d == TextToItems(Touched(changes, "descriptions", {}), "Description")
    <2>1. PICK sent : sent = ChannelDescriptions(changes, before)
      OBVIOUS
    <2>2. sent = (kept \cup s) \cup d
      BY <2>1 DEF ChannelDescriptions
    <2>3. kept = {i \in old : /\ "summaries" \in touches => i[1] # "Summary"
                              /\ "descriptions" \in touches => i[1] # "Description"
                              /\ "languages" \in touches => i[2] \in changes["languages"]}
      BY DEF KeptChannelItems
    <2>4. \A i \in s : i[1] = "Summary" /\ "summaries" \in touches
      BY ItemsTyped DEF Touched, TextToItems
    <2>5. \A i \in d : i[1] = "Description" /\ "descriptions" \in touches
      BY ItemsTyped DEF Touched, TextToItems
    <2> HIDE DEF kept, s, d
    <2>6. \A i : /\ i[1] \notin GovernedTypes(changes)
                 /\ "languages" \in touches => i[2] \in changes["languages"]
                 => (i \in sent <=> i \in old)
      <3>1. /\ "summaries" \in touches => "Summary" \in GovernedTypes(changes)
            /\ "descriptions" \in touches => "Description" \in GovernedTypes(changes)
        BY GovernedAre
      <3> QED
        BY <2>2, <2>3, <2>4, <2>5, <3>1
    <2>7. OtherEntries(sent, changes) = OtherEntries(old, changes)
      BY <1>8, <2>6
    <2> QED
      BY <1>5, <2>1, <2>7 DEF Told
  <1>11. ASSUME NEW f \in ReadSchema(type), f \notin touches,
                f \notin {"nameList", "descriptionList"}
         PROVE  after[f] = before[f]
    <2>1. CASE f \in {"publishingStatus", "isVisibleForAll", "requiresSignature",
                      "requiresAuthentication"} \cup FlaggedLists(type)
      BY <1>5, <1>11, <2>1 DEF Touched
    <2>2. CASE f \in WholeLists(type)
      BY <1>5, <1>11, <2>2 DEF Told
    <2>3. CASE f \in {"accessibility", "displayNameType", "languages", "phoneNumbers"}
      BY <1>5, <1>7, <1>11, <2>3 DEF Told
    <2>4. CASE f = "signatureQuantity"
      BY <1>5, <1>11, <2>4 DEF SignatureSent
    <2>5. f \in OwnWay \cup FlaggedLists(type) \cup WholeLists(type)
      BY <1>6, <1>11
    <2> QED
      BY <1>11, <2>1, <2>2, <2>3, <2>4, <2>5 DEF OwnWay
  <1>12. ReadSchema(type) \cap Classifications = {}
    <2>1. OwnWay \cap Classifications = {}
      BY DEF OwnWay, Classifications, Required, Flagged
    <2>2. FlaggedLists(type) \cap Classifications = {} /\ WholeLists(type) \cap Classifications = {}
      BY DEF FlaggedLists, WholeLists, Classifications, Required, Flagged
    <2>3. ReadSchema(type) \subseteq OwnWay \cup FlaggedLists(type) \cup WholeLists(type)
      BY ChannelSchemas
    <2> QED
      BY <2>1, <2>2, <2>3
  <1> HIDE DEF touches
  <1> QED
    BY <1>5, <1>9, <1>10, <1>11, <1>12 DEF RestKept, touches

LEMMA OrganizationKeepsRest ==
  ASSUME kind = "Organization", NEW before, Proper(kind, before),
         NEW changes, Possible(kind, changes), NEW uris,
         NEW after, after = After(kind, before, changes, uris)
  PROVE  RestKept(after, before, changes, uris)
  <1> DEFINE touches == DOMAIN changes
  <1>1. OrganizationIs(after, before, changes)
    BY OrganizationUpdated
  <1>2. /\ IsList(before["nameList"]) /\ IsList(before["descriptionList"])
        /\ \A i \in before["nameList"] : i[1] \in {"Name", "AlternativeName"}
        /\ \A i \in before["descriptionList"] : i[1] \in {"Summary", "Description"}
    BY OrganizationProper
  <1>6. /\ DOMAIN after = OrganizationOut
        /\ \A f \in {"publishingStatus", "businessCode"} \cup ContactFields :
             after[f] = Touched(changes, f, before[f])
        /\ after["nameList"] =
             Told(before, "nameList", NamesTouched(changes), NamesSent(changes, before))
        /\ after["displayNameType"] =
             IF NamesTouched(changes) THEN ShownIn(changes, before) ELSE before["displayNameType"]
        /\ after["descriptionList"] =
             Told(before, "descriptionList", {"summaries", "descriptions"} \cap touches # {},
                  TextsSent(changes, before))
    BY <1>1 DEF OrganizationIs
  <1>7. \A items : OtherEntries(items, changes) = {i \in items : i[1] \notin GovernedTypes(changes)}
    BY DEF OtherEntries, ChannelTypes
  <1>8. OtherEntries(after["nameList"], changes) = OtherEntries(before["nameList"], changes)
    <2> DEFINE old == before["nameList"]
               n == Touched(changes, "names", ItemsOfType(old, "Name"))
               a == Touched(changes, "alternativeNames", ItemsOfType(old, "AlternativeName"))
    <2>1. PICK sent : sent = NamesSent(changes, before)
      OBVIOUS
    <2>2. sent = TextToItems(n, "Name") \cup TextToItems(a, "AlternativeName")
      BY <2>1 DEF NamesSent, OrganizationNames
    <2>4. "names" \notin touches => TextToItems(n, "Name") = {i \in old : i[1] = "Name"}
      BY <1>2, ItemsBack DEF Touched
    <2>5. "alternativeNames" \notin touches =>
            TextToItems(a, "AlternativeName") = {i \in old : i[1] = "AlternativeName"}
      BY <1>2, ItemsBack DEF Touched
    <2> HIDE DEF n, a
    <2>6. \A i \in TextToItems(n, "Name") : i[1] = "Name"
      BY ItemsTyped
    <2>7. \A i \in TextToItems(a, "AlternativeName") : i[1] = "AlternativeName"
      BY ItemsTyped
    <2>8. \A i : i[1] \notin GovernedTypes(changes) => (i \in sent <=> i \in old)
      BY <1>2, <2>2, <2>4, <2>5, <2>6, <2>7, GovernedAre
    <2>9. OtherEntries(sent, changes) = OtherEntries(old, changes)
      BY <1>7, <2>8
    <2> QED
      BY <1>6, <2>1, <2>9 DEF Told
  <1>9. OtherEntries(after["descriptionList"], changes)
          = OtherEntries(before["descriptionList"], changes)
    <2> DEFINE old == before["descriptionList"]
               s == Touched(changes, "summaries", ItemsOfType(old, "Summary"))
               d == Touched(changes, "descriptions", ItemsOfType(old, "Description"))
    <2>1. PICK sent : sent = TextsSent(changes, before)
      OBVIOUS
    <2>2. sent = TextToItems(s, "Summary") \cup TextToItems(d, "Description")
      BY <2>1 DEF TextsSent
    <2>4. "summaries" \notin touches => TextToItems(s, "Summary") = {i \in old : i[1] = "Summary"}
      BY <1>2, ItemsBack DEF Touched
    <2>5. "descriptions" \notin touches =>
            TextToItems(d, "Description") = {i \in old : i[1] = "Description"}
      BY <1>2, ItemsBack DEF Touched
    <2> HIDE DEF s, d
    <2>6. \A i \in TextToItems(s, "Summary") : i[1] = "Summary"
      BY ItemsTyped
    <2>7. \A i \in TextToItems(d, "Description") : i[1] = "Description"
      BY ItemsTyped
    <2>8. \A i : i[1] \notin GovernedTypes(changes) => (i \in sent <=> i \in old)
      BY <1>2, <2>2, <2>4, <2>5, <2>6, <2>7, GovernedAre
    <2>9. OtherEntries(sent, changes) = OtherEntries(old, changes)
      BY <1>7, <2>8
    <2> QED
      BY <1>6, <2>1, <2>9 DEF Told
  <1>10. ASSUME NEW f \in OrganizationOut, f \notin {"nameList", "descriptionList"}, f \notin touches,
                f = "displayNameType" => ~NamesTouched(changes)
         PROVE  after[f] = before[f]
    <2>1. f \in {"publishingStatus", "businessCode", "displayNameType"} \cup ContactFields
      BY <1>10 DEF OrganizationOut, ItemTexts, ContactFields
    <2> QED
      BY <1>6, <1>10, <2>1 DEF Touched
  <1>11. OrganizationOut \cap Classifications = {}
    BY DEF OrganizationOut, ItemTexts, Classifications, Required, Flagged
  <1> HIDE DEF touches
  <1> QED
    BY <1>6, <1>8, <1>9, <1>10, <1>11 DEF RestKept, NamesTouched, touches

\* What a change does not touch stays as it was.
LEMMA UpdateKeepsRest ==
  ASSUME kind \in Kinds, NEW before, Proper(kind, before), NEW changes, Possible(kind, changes),
         NEW uris, uris = {} \/ uris = UrisOf(kind, before),
         NEW after, after = After(kind, before, changes, uris)
  PROVE  RestKept(after, before, changes, uris)
  BY ServiceKeepsRest, ChannelKeepsRest, OrganizationKeepsRest DEF Kinds

-----------------------------------------------------------------------------
(* A PUT leaves an item with the fields of its kind.                        *)

LEMMA ListTold ==
  ASSUME NEW stored, NEW f, IsList(stored[f]), NEW b, NEW v, IsList(v)
  PROVE  IsList(Told(stored, f, b, v))
  BY DEF Told

LEMMA ItemsAreList == ASSUME NEW text, NEW t PROVE IsList(TextToItems(text, t))
  BY DEF TextToItems, IsList

LEMMA ListsJoined == ASSUME NEW a, NEW b, IsList(a), IsList(b) PROVE IsList(a \cup b)
  BY DEF IsList

LEMMA ListsInSchemas ==
  ASSUME NEW k \in Kinds
  PROVE  "nameList" \in ReadSchema(k) /\ "descriptionList" \in ReadSchema(k)
  <1>1. CASE k = "Service"
    BY <1>1 DEF ReadSchema, ServiceOut, ItemTexts
  <1>2. CASE k = "Organization"
    BY <1>2 DEF ReadSchema, OrganizationOut, ItemTexts
  <1>3. CASE k \in ChannelTypes
    BY <1>3, ChannelSchemas
  <1> QED
    BY <1>1, <1>2, <1>3 DEF Kinds

LEMMA ListsProper ==
  ASSUME NEW k \in Kinds, NEW stored, Proper(k, stored)
  PROVE  /\ IsList(stored["nameList"]) /\ IsList(stored["descriptionList"])
         /\ k = "Organization" => Faxes(stored["phoneNumbers"]) = {}
  <1>1. {"nameList", "descriptionList"} \subseteq ReadSchema(k)
    BY ListsInSchemas
  <1>2. IsList(stored["nameList"]) /\ IsList(stored["descriptionList"])
    BY <1>1 DEF Proper, IsField
  <1> QED
    BY <1>2, OrganizationProper

\* What makes an item that has the fields of its kind proper.
LEMMA ProperIs ==
  ASSUME NEW k \in Kinds, NEW stored, DOMAIN stored = ReadSchema(k),
         IsList(stored["nameList"]), IsList(stored["descriptionList"]),
         k = "Organization" =>
           /\ Faxes(stored["phoneNumbers"]) = {}
           /\ \A i \in stored["nameList"] : i[1] \in {"Name", "AlternativeName"}
           /\ \A i \in stored["descriptionList"] : i[1] \in {"Summary", "Description"}
  PROVE  Proper(k, stored)
  <1> SUFFICES ASSUME NEW f \in DOMAIN stored PROVE IsField(k, f, stored[f])
    BY DEF Proper
  <1> QED
    BY DEF IsField, OrganizationTypes

\* A field of an item after a PUT that sends a value for it.
LEMMA OneOfThree ==
  ASSUME NEW stored, NEW body, NEW schema, NEW f \in DOMAIN stored, f # "phoneNumbers",
         NEW b, NEW v, Has(body.set, f, b, v), NEW after, after = Put(stored, body, schema)
  PROVE  after[f] \in {{}, stored[f], v}
  <1>1. /\ f \in body.clear /\ f \in schema.clears => after[f] = {}
        /\ ~(f \in body.clear /\ f \in schema.clears) =>
              /\ f \notin DOMAIN body.set \/ f \notin schema.takes => after[f] = stored[f]
              /\ Has(body.set, f, b, v) /\ f \in schema.takes => after[f] = Told(stored, f, b, v)
    BY PutTold
  <1> QED
    BY <1>1 DEF Has, Told

\* The lists of texts a body sends.
SendsLists(body, names, texts) ==
  \E b, d : Has(body.set, "nameList", b, names) /\ Has(body.set, "descriptionList", d, texts)

LEMMA ListsPut ==
  ASSUME NEW k \in Kinds, NEW stored, Proper(k, stored), NEW body,
         NEW names, NEW texts, SendsLists(body, names, texts), IsList(names), IsList(texts),
         NEW after, after = Put(stored, body, WriteSchema(k))
  PROVE  /\ DOMAIN after = ReadSchema(k)
         /\ after["nameList"] \in {{}, stored["nameList"], names}
         /\ after["descriptionList"] \in {{}, stored["descriptionList"], texts}
         /\ IsList(after["nameList"]) /\ IsList(after["descriptionList"])
  <1>1. DOMAIN after = ReadSchema(k) /\ DOMAIN stored = ReadSchema(k)
    BY DEF Put, Proper
  <1>2. "nameList" \in ReadSchema(k) /\ "descriptionList" \in ReadSchema(k)
    BY ListsInSchemas
  <1>3. IsList(stored["nameList"]) /\ IsList(stored["descriptionList"]) /\ IsList({})
    BY ListsProper DEF IsList
  <1>4. PICK b, d : Has(body.set, "nameList", b, names) /\ Has(body.set, "descriptionList", d, texts)
    BY DEF SendsLists
  <1>5. after["nameList"] \in {{}, stored["nameList"], names}
    BY <1>1, <1>2, <1>4, OneOfThree
  <1>6. after["descriptionList"] \in {{}, stored["descriptionList"], texts}
    BY <1>1, <1>2, <1>4, OneOfThree
  <1>7. IsList(after["nameList"])
    BY <1>3, <1>5
  <1>8. IsList(after["descriptionList"])
    BY <1>3, <1>6
  <1> QED
    BY <1>1, <1>5, <1>6, <1>7, <1>8

\* An organisation's numbers have no type.
LEMMA OrganizationPhones ==
  ASSUME NEW stored, Proper("Organization", stored), NEW changes, NEW current,
         NEW after, after = Put(stored, OrganizationChangesToV11Body(changes, current),
                                OrganizationInBase)
  PROVE  Faxes(after["phoneNumbers"]) = {}
  <1>1. PICK body : body = OrganizationChangesToV11Body(changes, current)
    OBVIOUS
  <1>2. "faxNumbers" \notin DOMAIN body.set
    BY <1>1, OrganizationBodyHas
  <1>3. "phoneNumbers" \in DOMAIN stored /\ Faxes(stored["phoneNumbers"]) = {}
    BY OrganizationProper DEF OrganizationOut
  <1>4. PICK told : told = Accepted(body, OrganizationInBase)
    OBVIOUS
  <1>5. "faxNumbers" \notin DOMAIN told.set
    BY <1>2, <1>4 DEF Accepted
  <1>6. after["phoneNumbers"] = PutPhones(stored["phoneNumbers"], told, FALSE)
    <2>1. PICK schema : schema = OrganizationInBase
      OBVIOUS
    <2>2. schema.typed = FALSE
      BY <2>1 DEF OrganizationInBase
    <2>3. after["phoneNumbers"]
            = PutPhones(stored["phoneNumbers"], Accepted(body, schema), schema.typed)
      BY <1>1, <1>3, <2>1, PhonesTold
    <2> QED
      BY <1>4, <2>1, <2>2, <2>3
  <1>7. \A sent : Faxes({<<"Phone", p[2]>> : p \in sent}) = {}
    BY DEF Faxes
  <1>8. Faxes({}) = {} /\ Faxes(stored["phoneNumbers"] \ Faxes(stored["phoneNumbers"])) = {}
    BY DEF Faxes
  <1>9. PICK numbers, faxes :
          /\ after["phoneNumbers"] = numbers \cup faxes /\ faxes = {}
          /\ \/ numbers = {}
             \/ numbers = {<<"Phone", p[2]>> : p \in told.set.phoneNumbers}
             \/ numbers = stored["phoneNumbers"] \ Faxes(stored["phoneNumbers"])
    BY <1>3, <1>5, <1>6 DEF PutPhones
  <1> QED
    BY <1>7, <1>8, <1>9

\* A PUT built on any version that was read.
LEMMA PutProper ==
  ASSUME NEW k \in Kinds, NEW stored, Proper(k, stored), NEW base, Proper(k, base),
         NEW changes, Possible(k, changes), NEW uris, NEW after,
         after = Put(stored, BodyOf(k, changes, WireOf(base), uris), WriteSchema(k))
  PROVE  Proper(k, after)
  <1>1. PICK current : current = WireOf(base)
    OBVIOUS
  <1>2. current["nameList"] = base["nameList"] /\ current["descriptionList"] = base["descriptionList"]
    BY <1>1, ListsInSchemas, WireFields DEF Proper, Classifications, Required, Flagged
  <1>3. IsList(current["nameList"]) /\ IsList(current["descriptionList"])
    BY <1>2, ListsProper
  <1>4. PICK body : body = BodyOf(k, changes, current, uris)
    OBVIOUS
  <1>5. after = Put(stored, body, WriteSchema(k))
    BY <1>1, <1>4
  <1>6. CASE k = "Service"
    <2>1. body = ServiceChangesToV11Body(changes, current, uris)
      BY <1>4, <1>6 DEF BodyOf
    <2>2. PICK names, texts :
            /\ names = KeptWireItems(current.nameList, {"Name"})
                         \cup TextToItems(Touched(changes, "names", {}), "Name")
            /\ texts = ServiceDescriptions(changes, current)
      OBVIOUS
    <2>3. SendsLists(body, names, texts)
      BY <2>1, <2>2, ServiceBodyHas DEF SendsLists
    <2>4. IsList(names)
      <3>1. IsList(KeptWireItems(current.nameList, {"Name"}))
        BY <1>3 DEF IsList, KeptWireItems
      <3> QED
        BY <2>2, <3>1, ItemsAreList, ListsJoined
    <2>5. IsList(texts)
      <3>1. PICK a, b, c : /\ a = KeptWireItems(current.descriptionList, {"Summary", "Description"})
                           /\ b = TextToItems(Touched(changes, "summaries",
                                    ItemsOfType(current.descriptionList, "Summary")), "Summary")
                           /\ c = TextToItems(Touched(changes, "descriptions",
                                    ItemsOfType(current.descriptionList, "Description")),
                                    "Description")
        OBVIOUS
      <3>2. IsList(a)
        BY <1>3, <3>1 DEF IsList, KeptWireItems
      <3>3. IsList(b) /\ IsList(c)
        BY <3>1, ItemsAreList
      <3>4. texts = (a \cup b) \cup c
        BY <2>2, <3>1 DEF ServiceDescriptions
      <3> QED
        BY <3>2, <3>3, <3>4, ListsJoined
    <2> QED
      BY <1>5, <1>6, <2>3, <2>4, <2>5, ListsPut, ProperIs
  <1>7. CASE k \in ChannelTypes
    <2>0. k # "Organization" /\ k # "Service"
      BY <1>7 DEF ChannelTypes
    <2>1. body = ChannelChangesToV11Body(changes, current, k)
      BY <1>4, <2>0 DEF BodyOf
    <2>2. PICK names, texts :
            /\ names = KeptChannelItems(current.nameList,
                         IF "names" \in DOMAIN changes THEN {"Name"} ELSE {}, changes)
                         \cup TextToItems(Touched(changes, "names", {}), "Name")
            /\ texts = ChannelDescriptions(changes, current)
      OBVIOUS
    <2>3. DOMAIN changes \subseteq ChannelTypeFields(k)
      BY <1>7 DEF Possible, Supported, SupportedOrganization, ChannelTypes
    <2>4. SendsLists(body, names, texts)
      BY <2>1, <2>2, <2>3, ChannelBodyHas DEF SendsLists
    <2>5. \A items, replaced : IsList(items) => IsList(KeptChannelItems(items, replaced, changes))
      BY DEF IsList, KeptChannelItems
    <2>6. IsList(names)
      BY <1>3, <2>2, <2>5, ItemsAreList, ListsJoined
    <2>7. IsList(texts)
      <3>1. PICK a, b, c : /\ a = KeptChannelItems(current.descriptionList,
                                    (IF "descriptions" \in DOMAIN changes THEN {"Description"} ELSE {})
                                    \cup (IF "summaries" \in DOMAIN changes THEN {"Summary"} ELSE {}),
                                    changes)
                           /\ b = TextToItems(Touched(changes, "summaries", {}), "Summary")
                           /\ c = TextToItems(Touched(changes, "descriptions", {}), "Description")
        OBVIOUS
      <3>2. IsList(a)
        BY <1>3, <2>5, <3>1
      <3>3. IsList(b) /\ IsList(c)
        BY <3>1, ItemsAreList
      <3>4. texts = (a \cup b) \cup c
        BY <2>2, <3>1 DEF ChannelDescriptions
      <3> QED
        BY <3>2, <3>3, <3>4, ListsJoined
    <2> QED
      BY <1>5, <2>0, <2>4, <2>6, <2>7, ListsPut, ProperIs
  <1>8. CASE k = "Organization"
    <2>1. body = OrganizationChangesToV11Body(changes, current)
      BY <1>4, <1>8 DEF BodyOf
    <2>2. PICK names, texts :
            names = NamesSent(changes, current) /\ texts = TextsSent(changes, current)
      OBVIOUS
    <2>3. SendsLists(body, names, texts)
      BY <2>1, <2>2, OrganizationBodyHas DEF SendsLists
    <2>4. IsList(names) /\ IsList(texts)
      BY <2>2, ItemsAreList, ListsJoined DEF NamesSent, TextsSent
    <2>5. \A i \in names : i[1] \in {"Name", "AlternativeName"}
      BY <2>2, ItemsTyped DEF NamesSent
    <2>6. \A i \in texts : i[1] \in {"Summary", "Description"}
      BY <2>2, ItemsTyped DEF TextsSent
    <2>7. /\ DOMAIN after = ReadSchema(k)
          /\ after["nameList"] \in {{}, stored["nameList"], names}
          /\ after["descriptionList"] \in {{}, stored["descriptionList"], texts}
          /\ IsList(after["nameList"]) /\ IsList(after["descriptionList"])
      BY <1>5, <2>3, <2>4, ListsPut
    <2>8. /\ \A i \in stored["nameList"] : i[1] \in {"Name", "AlternativeName"}
          /\ \A i \in stored["descriptionList"] : i[1] \in {"Summary", "Description"}
      BY <1>8, OrganizationProper
    <2>9. Faxes(after["phoneNumbers"]) = {}
      <3>1. after = Put(stored, OrganizationChangesToV11Body(changes, current), OrganizationInBase)
        BY <1>5, <1>8, <2>1 DEF WriteSchema
      <3> QED
        BY <1>8, <3>1, OrganizationPhones
    <2>10. /\ \A i \in after["nameList"] : i[1] \in {"Name", "AlternativeName"}
           /\ \A i \in after["descriptionList"] : i[1] \in {"Summary", "Description"}
      BY <2>5, <2>6, <2>7, <2>8
    <2> QED
      BY <2>7, <2>9, <2>10, ProperIs
  <1> QED
    BY <1>6, <1>7, <1>8 DEF Kinds

LEMMA AfterProper ==
  ASSUME NEW k \in Kinds, NEW before, Proper(k, before), NEW changes, Possible(k, changes), NEW uris,
         NEW after, after = After(k, before, changes, uris)
  PROVE  Proper(k, after)
  BY PutProper DEF After

-----------------------------------------------------------------------------
(* A PUT once more changes nothing.                                         *)

LEMMA ToldAgain ==
  ASSUME NEW before, NEW after, NEW again, NEW f, NEW b, NEW v, NEW w,
         after[f] = Told(before, f, b, v), again[f] = Told(after, f, b, w),
         after[f] \in {before[f], v} => w = v
  PROVE  again[f] = after[f]
  BY DEF Told

LEMMA TouchedAgain ==
  ASSUME NEW before, NEW after, NEW again, NEW f, NEW changes,
         after[f] = Touched(changes, f, before[f]), again[f] = Touched(changes, f, after[f])
  PROVE  again[f] = after[f]
  BY DEF Touched

LEMMA KeptWireAgain ==
  ASSUME NEW items, NEW replaced, NEW texts, \A i \in texts : i[1] \in replaced
  PROVE  KeptWireItems(KeptWireItems(items, replaced) \cup texts, replaced)
           = KeptWireItems(items, replaced)
  BY DEF KeptWireItems

LEMMA KeptChannelAgain ==
  ASSUME NEW items, NEW replaced, NEW changes, NEW texts, \A i \in texts : i[1] \in replaced
  PROVE  KeptChannelItems(KeptChannelItems(items, replaced, changes) \cup texts, replaced, changes)
           = KeptChannelItems(items, replaced, changes)
  BY DEF KeptChannelItems

\* A list of other entries and the texts of two types, given or as they were.
WithTexts(changes, others, items, f, t, g, u) ==
  (others \cup TextToItems(Touched(changes, f, ItemsOfType(items, t)), t))
    \cup TextToItems(Touched(changes, g, ItemsOfType(items, u)), u)

TextsStay(changes, new, items, f, t, g, u) ==
  /\ Touched(changes, f, ItemsOfType(new, t)) = Touched(changes, f, ItemsOfType(items, t))
  /\ Touched(changes, g, ItemsOfType(new, u)) = Touched(changes, g, ItemsOfType(items, u))
  /\ ItemsOfType(new, t) = Touched(changes, f, ItemsOfType(items, t))
  /\ ItemsOfType(new, u) = Touched(changes, g, ItemsOfType(items, u))

\* A list of two types' texts, those the change gives or those it had.
LEMMA TextsAgain ==
  ASSUME NEW changes, NEW items, NEW others, NEW f, NEW g, NEW t, NEW u, t # u,
         f \in DOMAIN changes => IsText(changes[f]), g \in DOMAIN changes => IsText(changes[g]),
         \A i \in others : i[1] \notin {t, u},
         NEW new, new = WithTexts(changes, others, items, f, t, g, u)
  PROVE  TextsStay(changes, new, items, f, t, g, u)
  <1>1. PICK a : a = Touched(changes, f, ItemsOfType(items, t))
    OBVIOUS
  <1>2. PICK b : b = Touched(changes, g, ItemsOfType(items, u))
    OBVIOUS
  <1>3. IsText(a) /\ IsText(b)
    BY <1>1, <1>2, ItemsAreText DEF Touched
  <1>4. ItemsOfType(new, u) = b
    <2>1. \A i \in others \cup TextToItems(a, t) : i[1] # u
      BY ItemsTyped
    <2>2. PICK rest : rest = others \cup TextToItems(a, t)
      OBVIOUS
    <2>3. ItemsOfType(rest \cup TextToItems(b, u), u) = b
      BY <1>3, <2>1, <2>2, TextsOf
    <2> QED
      BY <1>1, <1>2, <2>2, <2>3 DEF WithTexts
  <1>5. ItemsOfType(new, t) = a
    <2>1. \A i \in others \cup TextToItems(b, u) : i[1] # t
      BY ItemsTyped
    <2>2. PICK rest : rest = others \cup TextToItems(b, u)
      OBVIOUS
    <2>3. ItemsOfType(rest \cup TextToItems(a, t), t) = a
      BY <1>3, <2>1, <2>2, TextsOf
    <2>4. new = rest \cup TextToItems(a, t)
      BY <1>1, <1>2, <2>2 DEF WithTexts
    <2> QED
      BY <2>3, <2>4
  <1> QED
    BY <1>1, <1>2, <1>4, <1>5 DEF Touched, TextsStay

LEMMA OwnOnce ==
  ASSUME NEW entries, NEW uris \in {{}, InheritedUris}
  PROVE  /\ OwnEntries(entries, uris) = {} <=> entries = {}
         /\ OwnEntries(entries, uris) \ InheritedUris = entries \ InheritedUris
         /\ OwnEntries(entries, {}) = entries
BY DEF OwnEntries

\* The lists of texts of a service.
LEMMA ServiceTextsAgain ==
  ASSUME NEW before, NEW changes, Possible("Service", changes), NEW after, NEW again,
         NEW u, ServiceIs(after, before, changes, u), NEW y, ServiceIs(again, after, changes, y)
  PROVE  again["nameList"] = after["nameList"] /\ again["descriptionList"] = after["descriptionList"]
<1> DEFINE names == Touched(changes, "names", {})
           T == TextToItems(names, "Name")
           KeptNames(items) == KeptWireItems(items, {"Name"})
<1>1. \A i \in T : i[1] \in {"Name"} BY ItemsTyped
<1>2. KeptNames(KeptNames(before["nameList"]) \cup T) = KeptNames(before["nameList"])
  BY <1>1, KeptWireAgain
<1>3. again["nameList"] = after["nameList"]
  <2> DEFINE b == "names" \in DOMAIN changes
             v == KeptNames(before["nameList"]) \cup T
             w == KeptNames(after["nameList"]) \cup T
  <2>1. after["nameList"] = Told(before, "nameList", b, v) BY DEF ServiceIs
  <2>2. again["nameList"] = Told(after, "nameList", b, w) BY DEF ServiceIs
  <2>3. after["nameList"] \in {before["nameList"], v} => w = v BY <1>2
  <2> HIDE DEF b, v, w
  <2>4. QED BY <2>1, <2>2, <2>3, ToldAgain
<1>4. again["descriptionList"] = after["descriptionList"]
  <2> DEFINE b == {"summaries", "descriptions"} \cap DOMAIN changes # {}
             v == ServiceDescriptions(changes, before)
             w == ServiceDescriptions(changes, after)
             D == before["descriptionList"]
             others == KeptWireItems(D, {"Summary", "Description"})
             S(items) == Touched(changes, "summaries", ItemsOfType(items, "Summary"))
             P(items) == Touched(changes, "descriptions", ItemsOfType(items, "Description"))
  <2>1. after["descriptionList"] = Told(before, "descriptionList", b, v) BY DEF ServiceIs
  <2>2. again["descriptionList"] = Told(after, "descriptionList", b, w) BY DEF ServiceIs
  <2>3. v = (others \cup TextToItems(S(D), "Summary")) \cup TextToItems(P(D), "Description")
    BY DEF ServiceDescriptions
  <2>4. CASE after["descriptionList"] = D
    <3>1. w = v BY <2>4 DEF ServiceDescriptions
    <3> HIDE DEF b, v, w
    <3>2. QED BY <2>1, <2>2, <3>1, ToldAgain
  <2>5. CASE after["descriptionList"] = v
    <3>1. \A i \in others : i[1] \notin {"Summary", "Description"} BY DEF KeptWireItems
    <3>2. /\ "summaries" \in DOMAIN changes => IsText(changes["summaries"])
          /\ "descriptions" \in DOMAIN changes => IsText(changes["descriptions"])
      BY DEF Possible, IsChange, Texts
    <3>3. S(v) = S(D) /\ P(v) = P(D)
      <4> HIDE DEF v, others, D
      <4>1. "Summary" # "Description" OBVIOUS
      <4>2. v = WithTexts(changes, others, D, "summaries", "Summary", "descriptions", "Description")
        BY <2>3 DEF WithTexts
      <4>3. TextsStay(changes, v, D, "summaries", "Summary", "descriptions", "Description")
        BY <3>1, <3>2, <4>1, <4>2, TextsAgain
      <4>4. QED BY <4>3 DEF TextsStay
    <3>4. KeptWireItems(v, {"Summary", "Description"}) = others
      <4> DEFINE texts == TextToItems(S(D), "Summary") \cup TextToItems(P(D), "Description")
      <4>1. \A i \in texts : i[1] \in {"Summary", "Description"} BY ItemsTyped
      <4>2. v = others \cup texts BY <2>3
      <4> HIDE DEF texts, v, D
      <4>3. QED BY <4>1, <4>2, KeptWireAgain
    <3>5. w = (KeptWireItems(v, {"Summary", "Description"}) \cup TextToItems(S(v), "Summary"))
                \cup TextToItems(P(v), "Description")
      BY <2>5 DEF ServiceDescriptions
    <3>6. w = v BY <2>3, <3>3, <3>4, <3>5
    <3> HIDE DEF b, v, w
    <3>7. QED BY <2>1, <2>2, <3>6, ToldAgain
  <2>6. after["descriptionList"] \in {D, v} BY <2>1 DEF Told
  <2>7. QED BY <2>4, <2>5, <2>6
<1>5. QED BY <1>3, <1>4

LEMMA ServiceLinkAgain ==
  ASSUME NEW before, NEW changes, NEW after, NEW u, ServiceIs(after, before, changes, u)
  PROVE  /\ KeepsGeneralDescription(changes, before) <=> IsLinked(after)
         /\ KeepsGeneralDescription(changes, after) <=> IsLinked(after)
         /\ ListsSent(changes, after) = ListsSent(changes, before)
<1>1. after.generalDescriptionId = Touched(changes, "generalDescriptionId", before.generalDescriptionId)
  BY DEF ServiceIs
<1>2. KeepsGeneralDescription(changes, before) <=> IsLinked(after)
  BY <1>1 DEF KeepsGeneralDescription, IsLinked
<1>3. KeepsGeneralDescription(changes, after) <=> IsLinked(after)
  BY <1>1 DEF KeepsGeneralDescription, IsLinked, Touched
<1>4. ListsSent(changes, after) = ListsSent(changes, before) BY <1>2, <1>3 DEF ListsSent
<1>5. QED BY <1>2, <1>3, <1>4

\* A classification list of a service.
LEMMA ServiceListAgain ==
  ASSUME NEW before, DOMAIN before = ServiceOut, NEW changes, NEW after, NEW again,
         NEW u, u = GeneralDescriptionUris(before), ServiceIs(after, before, changes, u),
         NEW y, y = GeneralDescriptionUris(after), ServiceIs(again, after, changes, y),
         NEW f \in Classifications
  PROVE  /\ again[f] \ InheritedUris = after[f] \ InheritedUris
         /\ (f \notin DOMAIN changes \/ (IsLinked(after) <=> IsLinked(before))) => again[f] = after[f]
<1> DEFINE b == f \in ListsSent(changes, before)
           v == OwnEntries(Touched(changes, f, WireOf(before)[f]), u)
           w == OwnEntries(Touched(changes, f, WireOf(after)[f]), y)
<1>1. after[f] = IF f \in Flagged \cap DOMAIN changes /\ changes[f] = {} THEN {}
                 ELSE Told(before, f, b, v)
  BY DEF ServiceIs
<1>2. again[f] = IF f \in Flagged \cap DOMAIN changes /\ changes[f] = {} THEN {}
                 ELSE Told(after, f, f \in ListsSent(changes, after), w)
  BY DEF ServiceIs
<1>3. ListsSent(changes, after) = ListsSent(changes, before) BY ServiceLinkAgain
<1>4. again[f] = IF f \in Flagged \cap DOMAIN changes /\ changes[f] = {} THEN {}
                 ELSE Told(after, f, b, w)
  BY <1>2, <1>3
<1>5. /\ u = IF IsLinked(before) THEN InheritedUris ELSE {}
      /\ y = IF IsLinked(after) THEN InheritedUris ELSE {}
  BY DEF GeneralDescriptionUris, IsLinked
<1>6. f \notin Scalars BY DEF Classifications, Scalars, Required, Flagged
<1>7. CASE f \in Flagged \cap DOMAIN changes /\ changes[f] = {} BY <1>1, <1>4, <1>7
<1>8. CASE ~(f \in Flagged \cap DOMAIN changes /\ changes[f] = {}) /\ f \in DOMAIN changes
  <2>1. v = OwnEntries(changes[f], u) /\ w = OwnEntries(changes[f], y) BY <1>8 DEF Touched
  <2>2. (v = {} <=> changes[f] = {}) /\ v \ InheritedUris = changes[f] \ InheritedUris
    BY <2>1, <1>5, OwnOnce
  <2>3. (w = {} <=> changes[f] = {}) /\ w \ InheritedUris = changes[f] \ InheritedUris
    BY <2>1, <1>5, OwnOnce
  <2>4. (IsLinked(after) <=> IsLinked(before)) => w = v BY <2>1, <1>5
  <2> HIDE DEF v, w, b
  <2>5. QED BY <1>1, <1>4, <1>6, <1>8, <2>2, <2>3, <2>4 DEF Told
<1>9. CASE f \notin DOMAIN changes
  <2>1. b => ~IsLinked(after) BY <1>9, ServiceLinkAgain DEF ListsSent
  <2>2. ~IsLinked(after) => w = after[f]
    <3>1. ~IsLinked(after) => y = {} BY <1>5
    <3>2. ~IsLinked(after) => WireOf(after) = after BY WireFields
    <3>3. QED BY <1>9, <3>1, <3>2, OwnOnce DEF Touched
  <2> HIDE DEF v, w, b
  <2>3. again[f] = after[f] BY <1>4, <1>9, <2>1, <2>2 DEF Told
  <2>4. QED BY <2>3
<1>10. QED BY <1>7, <1>8, <1>9

\* The lists the general description of an item, that a change links or
\* unlinks, changes what is sent of.
Filtered(k, before, after, changes) ==
  IF k = "Service" /\ IsLinked(after) # IsLinked(before)
    THEN Classifications \cap DOMAIN changes ELSE {}

LEMMA ServiceOnceMore ==
  ASSUME NEW before, Proper("Service", before), NEW changes, Possible("Service", changes),
         NEW after, after = After("Service", before, changes, UrisOf("Service", before)),
         NEW again, again = After("Service", after, changes, UrisOf("Service", after))
  PROVE  SameBut(again, after, Filtered("Service", before, after, changes))
<1>0. "Service" \in Kinds BY DEF Kinds
<1>1. Proper("Service", after) BY <1>0, AfterProper
<1>a. /\ UrisOf("Service", before) = GeneralDescriptionUris(before)
      /\ UrisOf("Service", after) = GeneralDescriptionUris(after)
  BY UrisAre DEF UrisOf
<1>2. /\ ServiceIs(after, before, changes, GeneralDescriptionUris(before))
      /\ DOMAIN before = ServiceOut
  BY <1>a, ServiceUpdated
<1>3. /\ ServiceIs(again, after, changes, GeneralDescriptionUris(after))
      /\ DOMAIN after = ServiceOut
  BY <1>1, <1>a, ServiceUpdated
<1>4. DOMAIN again = ServiceOut BY <1>3 DEF ServiceIs
<1>5. again["nameList"] = after["nameList"] /\ again["descriptionList"] = after["descriptionList"]
  BY <1>2, <1>3, ServiceTextsAgain
<1>6. \A f \in {"publishingStatus", "type", "generalDescriptionId"} : again[f] = after[f]
  <2> TAKE f \in {"publishingStatus", "type", "generalDescriptionId"}
  <2>1. after[f] = Touched(changes, f, before[f]) BY <1>2 DEF ServiceIs
  <2>2. again[f] = Touched(changes, f, after[f]) BY <1>3 DEF ServiceIs
  <2>3. QED BY <2>1, <2>2, TouchedAgain
<1>7. again["languages"] = after["languages"]
  <2>1. after["languages"] = Told(before, "languages", "languages" \in DOMAIN changes, Touched(changes, "languages", {}))
    BY <1>2 DEF ServiceIs
  <2>2. again["languages"] = Told(after, "languages", "languages" \in DOMAIN changes, Touched(changes, "languages", {}))
    BY <1>3 DEF ServiceIs
  <2>3. QED BY <2>1, <2>2 DEF Told
<1>8. \A f \in Classifications :
        /\ again[f] \ InheritedUris = after[f] \ InheritedUris
        /\ (f \notin DOMAIN changes \/ (IsLinked(after) <=> IsLinked(before))) => again[f] = after[f]
  BY <1>2, <1>3, ServiceListAgain
<1>9. \A f \in ServiceOut : f \in {"publishingStatus", "type", "generalDescriptionId", "nameList",
                                  "descriptionList", "languages"} \cup Classifications
  BY DEF ServiceOut, ItemTexts
<1> DEFINE lists == Filtered("Service", before, after, changes)
<1>10. lists \subseteq Classifications /\ \A f \in Classifications : f \notin lists =>
          f \notin DOMAIN changes \/ (IsLinked(after) <=> IsLinked(before))
  BY DEF Filtered, IsLinked
<1>11. \A f \in ServiceOut \ lists : again[f] = after[f]
  BY <1>5, <1>6, <1>7, <1>8, <1>9, <1>10
<1>12. \A f \in ServiceOut \cap lists : again[f] \ InheritedUris = after[f] \ InheritedUris
  BY <1>8, <1>10
<1>13. QED BY <1>3, <1>4, <1>11, <1>12 DEF SameBut

LEMMA NoItems == ASSUME NEW t PROVE TextToItems({}, t) = {}
BY DEF TextToItems

\* A list of texts of a channel, after a PUT of it.
ChannelList(after, before, f, b, replaced, changes, texts) ==
  after[f] = Told(before, f, b, KeptChannelItems(before[f], replaced, changes) \cup texts)

LEMMA ChannelListAgain ==
  ASSUME NEW replaced, NEW changes, NEW texts, \A i \in texts : i[1] \in replaced,
         NEW before, NEW after, NEW again, NEW f, NEW b,
         ChannelList(after, before, f, b, replaced, changes, texts),
         ChannelList(again, after, f, b, replaced, changes, texts)
  PROVE  again[f] = after[f]
<1> DEFINE items == before[f]
           v == KeptChannelItems(items, replaced, changes) \cup texts
           w == KeptChannelItems(after[f], replaced, changes) \cup texts
<1>1. KeptChannelItems(v, replaced, changes) = KeptChannelItems(items, replaced, changes)
  BY DEF KeptChannelItems
<1>2. after[f] \in {before[f], v} => w = v BY <1>1
<1> HIDE DEF v, w
<1>3. after[f] = Told(before, f, b, v) /\ again[f] = Told(after, f, b, w) BY DEF v, w, ChannelList
<1>4. QED BY <1>2, <1>3 DEF Told

LEMMA ChannelTextsAgain ==
  ASSUME NEW type, NEW before, NEW changes, NEW after, NEW again,
         ChannelIs(after, type, before, changes), ChannelIs(again, type, after, changes)
  PROVE  again["nameList"] = after["nameList"] /\ again["descriptionList"] = after["descriptionList"]
<1>1. again["nameList"] = after["nameList"]
  <2>1. PICK R : R = IF "names" \in DOMAIN changes THEN {"Name"} ELSE {} OBVIOUS
  <2>2. PICK T : T = TextToItems(Touched(changes, "names", {}), "Name") OBVIOUS
  <2>3. \A i \in T : i[1] \in R
    <3>1. CASE "names" \in DOMAIN changes BY <2>1, <2>2, <3>1, ItemsTyped
    <3>2. CASE "names" \notin DOMAIN changes BY <2>2, <3>2, NoItems DEF Touched
    <3>3. QED BY <3>1, <3>2
  <2>4. PICK b : b = ({"names", "languages"} \cap DOMAIN changes # {}) OBVIOUS
  <2>5. after["nameList"] = Told(before, "nameList", b, KeptChannelItems(before["nameList"], R, changes) \cup T)
    BY <2>1, <2>2, <2>4 DEF ChannelIs
  <2>6. again["nameList"] = Told(after, "nameList", b, KeptChannelItems(after["nameList"], R, changes) \cup T)
    BY <2>1, <2>2, <2>4 DEF ChannelIs
  <2>8. ChannelList(after, before, "nameList", b, R, changes, T)
          /\ ChannelList(again, after, "nameList", b, R, changes, T)
    BY <2>5, <2>6 DEF ChannelList
  <2>9. QED BY <2>3, <2>8, ChannelListAgain
<1>2. again["descriptionList"] = after["descriptionList"]
  <2>1. PICK R : R = (IF "descriptions" \in DOMAIN changes THEN {"Description"} ELSE {})
                       \cup (IF "summaries" \in DOMAIN changes THEN {"Summary"} ELSE {})
    OBVIOUS
  <2>2. PICK T : T = TextToItems(Touched(changes, "summaries", {}), "Summary")
                       \cup TextToItems(Touched(changes, "descriptions", {}), "Description")
    OBVIOUS
  <2>3. \A i \in T : i[1] \in R
    <3>1. \A i \in TextToItems(Touched(changes, "summaries", {}), "Summary") :
            i[1] = "Summary" /\ "summaries" \in DOMAIN changes
      BY ItemsTyped, NoItems DEF Touched
    <3>2. \A i \in TextToItems(Touched(changes, "descriptions", {}), "Description") :
            i[1] = "Description" /\ "descriptions" \in DOMAIN changes
      BY ItemsTyped, NoItems DEF Touched
    <3>3. QED BY <2>1, <2>2, <3>1, <3>2
  <2>4. PICK b : b = ({"descriptions", "summaries", "languages"} \cap DOMAIN changes # {}) OBVIOUS
  <2>5. \A stored : ChannelDescriptions(changes, stored)
                      = KeptChannelItems(stored["descriptionList"], R, changes) \cup T
    BY <2>1, <2>2 DEF ChannelDescriptions
  <2>6. after["descriptionList"] = Told(before, "descriptionList", b, ChannelDescriptions(changes, before))
    BY <2>4 DEF ChannelIs
  <2>7. again["descriptionList"] = Told(after, "descriptionList", b, ChannelDescriptions(changes, after))
    BY <2>4 DEF ChannelIs
  <2>9. after["descriptionList"] = Told(before, "descriptionList", b, KeptChannelItems(before["descriptionList"], R, changes) \cup T)
    BY <2>5, <2>6
  <2>10. again["descriptionList"] = Told(after, "descriptionList", b, KeptChannelItems(after["descriptionList"], R, changes) \cup T)
    BY <2>5, <2>7
  <2>11. ChannelList(after, before, "descriptionList", b, R, changes, T)
           /\ ChannelList(again, after, "descriptionList", b, R, changes, T)
    BY <2>9, <2>10 DEF ChannelList
  <2>12. QED BY <2>3, <2>11, ChannelListAgain
<1>3. QED BY <1>1, <1>2

LEMMA ChannelOnceMore ==
  ASSUME NEW type \in ChannelTypes, NEW before, Proper(type, before),
         NEW changes, Possible(type, changes),
         NEW u, NEW after, after = After(type, before, changes, u),
         NEW y, NEW again, again = After(type, after, changes, y)
  PROVE  again = after
<1>0. type \in Kinds BY DEF Kinds
<1>1. Proper(type, after) BY <1>0, AfterProper
<1>2. ChannelIs(after, type, before, changes) /\ PhonesAre(after, type, before, changes)
  BY ChannelUpdated
<1>3. ChannelIs(again, type, after, changes) /\ PhonesAre(again, type, after, changes)
  BY <1>1, ChannelUpdated
<1>4. DOMAIN again = ReadSchema(type) /\ DOMAIN after = ReadSchema(type) BY <1>2, <1>3 DEF ChannelIs
<1>5. again["nameList"] = after["nameList"] /\ again["descriptionList"] = after["descriptionList"]
  BY <1>2, <1>3, ChannelTextsAgain
<1>6. \A f \in ReadSchema(type) \cap ({"publishingStatus", "isVisibleForAll",
         "requiresSignature", "requiresAuthentication"} \cup FlaggedLists(type)) : again[f] = after[f]
  <2> TAKE f \in ReadSchema(type) \cap ({"publishingStatus", "isVisibleForAll",
         "requiresSignature", "requiresAuthentication"} \cup FlaggedLists(type))
  <2>1. after[f] = Touched(changes, f, before[f]) BY <1>2 DEF ChannelIs
  <2>2. again[f] = Touched(changes, f, after[f]) BY <1>3 DEF ChannelIs
  <2>3. QED BY <2>1, <2>2, TouchedAgain
<1>7. \A f \in WholeLists(type) : again[f] = after[f]
  <2> TAKE f \in WholeLists(type)
  <2>1. after[f] = Told(before, f, f \in DOMAIN changes, changes[f]) BY <1>2 DEF ChannelIs
  <2>2. again[f] = Told(after, f, f \in DOMAIN changes, changes[f]) BY <1>3 DEF ChannelIs
  <2>3. QED BY <2>1, <2>2 DEF Told
<1>8. \A f \in ReadSchema(type) \cap {"accessibility"} : again[f] = after[f]
  <2>1. \A f \in ReadSchema(type) \cap {"accessibility"} :
          after[f] = IF f \in DOMAIN changes /\ changes[f] # {} THEN changes[f] ELSE before[f]
    BY <1>2 DEF ChannelIs
  <2>2. \A f \in ReadSchema(type) \cap {"accessibility"} :
          again[f] = IF f \in DOMAIN changes /\ changes[f] # {} THEN changes[f] ELSE after[f]
    BY <1>3 DEF ChannelIs
  <2>3. QED BY <2>1, <2>2
<1>9. \A f \in ReadSchema(type) \cap {"signatureQuantity"} : again[f] = after[f]
  <2>1. \A f \in ReadSchema(type) \cap {"signatureQuantity"} :
          after[f] = IF SignatureSent(changes) THEN changes[f] ELSE before[f]
    BY <1>2 DEF ChannelIs
  <2>2. \A f \in ReadSchema(type) \cap {"signatureQuantity"} :
          again[f] = IF SignatureSent(changes) THEN changes[f] ELSE after[f]
    BY <1>3 DEF ChannelIs
  <2>3. QED BY <2>1, <2>2
<1>10. \A f \in ReadSchema(type) \cap {"displayNameType"} : again[f] = after[f]
  BY <1>3 DEF ChannelIs
<1>11. again["languages"] = after["languages"]
  <2>1. after["languages"] = Told(before, "languages", "languages" \in DOMAIN changes, Touched(changes, "languages", {}))
    BY <1>2 DEF ChannelIs
  <2>2. again["languages"] = Told(after, "languages", "languages" \in DOMAIN changes, Touched(changes, "languages", {}))
    BY <1>3 DEF ChannelIs
  <2>3. QED BY <2>1, <2>2 DEF Told
<1>12. \A f \in ReadSchema(type) \cap {"phoneNumbers"} : again[f] = after[f]
  <2>1. "phoneNumbers" \in ReadSchema(type) =>
          after["phoneNumbers"] =
            IF "phoneNumbers" \in DOMAIN changes /\ (type = "Phone" => changes["phoneNumbers"] # {})
              THEN changes["phoneNumbers"] ELSE before["phoneNumbers"]
    BY <1>2 DEF PhonesAre
  <2>2. "phoneNumbers" \in ReadSchema(type) =>
          again["phoneNumbers"] =
            IF "phoneNumbers" \in DOMAIN changes /\ (type = "Phone" => changes["phoneNumbers"] # {})
              THEN changes["phoneNumbers"] ELSE after["phoneNumbers"]
    BY <1>3 DEF PhonesAre
  <2>3. QED BY <2>1, <2>2
<1>13. \A f \in ReadSchema(type) : f \in OwnWay \cup FlaggedLists(type) \cup WholeLists(type)
  BY ChannelSchemas
<1>14. \A f \in ReadSchema(type) : again[f] = after[f]
  BY <1>5, <1>6, <1>7, <1>8, <1>9, <1>10, <1>11, <1>12, <1>13 DEF OwnWay
<1>15. again = [f \in ReadSchema(type) |-> again[f]] /\ after = [f \in ReadSchema(type) |-> after[f]]
  BY <1>4 DEF After, Put
<1>16. QED BY <1>14, <1>15

LEMMA OrganizationOnceMore ==
  ASSUME NEW before, Proper("Organization", before),
         NEW changes, Possible("Organization", changes),
         NEW u, NEW after, after = After("Organization", before, changes, u),
         NEW y, NEW again, again = After("Organization", after, changes, y)
  PROVE  again = after
<1>0. "Organization" \in Kinds BY DEF Kinds
<1>1. Proper("Organization", after) BY <1>0, AfterProper
<1>2. OrganizationIs(after, before, changes) BY OrganizationUpdated
<1>3. OrganizationIs(again, after, changes) BY <1>1, OrganizationUpdated
<1>4. DOMAIN again = OrganizationOut /\ DOMAIN after = OrganizationOut
  BY <1>2, <1>3 DEF OrganizationIs
<1>5. \A f \in {"publishingStatus", "businessCode"} \cup ContactFields : again[f] = after[f]
  <2> TAKE f \in {"publishingStatus", "businessCode"} \cup ContactFields
  <2>1. after[f] = Touched(changes, f, before[f]) BY <1>2 DEF OrganizationIs
  <2>2. again[f] = Touched(changes, f, after[f]) BY <1>3 DEF OrganizationIs
  <2>3. QED BY <2>1, <2>2, TouchedAgain
<1>6. \A f \in Texts \cap DOMAIN changes : IsText(changes[f]) BY DEF Possible, IsChange
<1>7. OrganizationNames(changes, after) = OrganizationNames(changes, before)
  <2>1. PICK N : N = before["nameList"] OBVIOUS
  <2>2. PICK M : M = after["nameList"] OBVIOUS
  <2>3. M = Told(before, "nameList", NamesTouched(changes), NamesSent(changes, before))
    BY <1>2, <2>2 DEF OrganizationIs
  <2>4. CASE M = N BY <2>1, <2>2, <2>4 DEF OrganizationNames
  <2>5. CASE M = NamesSent(changes, before)
    <3>1. M = WithTexts(changes, {}, N, "names", "Name", "alternativeNames", "AlternativeName")
      BY <2>1, <2>5 DEF NamesSent, OrganizationNames, WithTexts
    <3>2. "Name" # "AlternativeName" OBVIOUS
    <3>3. "names" \in DOMAIN changes => IsText(changes["names"]) BY <1>6 DEF Texts
    <3>4. "alternativeNames" \in DOMAIN changes => IsText(changes["alternativeNames"]) BY <1>6 DEF Texts
    <3>5. \A i \in {} : i[1] \notin {"Name", "AlternativeName"} OBVIOUS
    <3>6. TextsStay(changes, M, N, "names", "Name", "alternativeNames", "AlternativeName")
      BY <3>1, <3>2, <3>3, <3>4, <3>5, TextsAgain
    <3>7. QED BY <2>1, <2>2, <3>6 DEF TextsStay, OrganizationNames
  <2>6. QED BY <2>1, <2>3, <2>4, <2>5 DEF Told
<1>8. again["nameList"] = after["nameList"]
  <2>1. NamesSent(changes, after) = NamesSent(changes, before) BY <1>7 DEF NamesSent
  <2>2. after["nameList"] = Told(before, "nameList", NamesTouched(changes), NamesSent(changes, before))
    BY <1>2 DEF OrganizationIs
  <2>3. again["nameList"] = Told(after, "nameList", NamesTouched(changes), NamesSent(changes, after))
    BY <1>3 DEF OrganizationIs
  <2>4. QED BY <2>1, <2>2, <2>3 DEF Told
<1>9. again["displayNameType"] = after["displayNameType"]
  <2>1. after["displayNameType"] =
          IF NamesTouched(changes) THEN ShownIn(changes, before) ELSE before["displayNameType"]
    BY <1>2 DEF OrganizationIs
  <2>2. again["displayNameType"] =
          IF NamesTouched(changes) THEN ShownIn(changes, after) ELSE after["displayNameType"]
    BY <1>3 DEF OrganizationIs
  <2>3. CASE NamesTouched(changes)
    <3>1. PICK L : L = LanguagesIn(OrganizationNames(changes, before).alternatives) OBVIOUS
    <3>2. PICK M : M = LanguagesIn(OrganizationNames(changes, before).names) OBVIOUS
    <3>3. after.displayNameType = (Touched(changes, "alternativeNameShownIn", before.displayNameType) \cap L) \cap M
      BY <2>1, <2>3, <3>1, <3>2 DEF ShownIn
    <3>4. again.displayNameType = (Touched(changes, "alternativeNameShownIn", after.displayNameType) \cap L) \cap M
      BY <1>7, <2>2, <2>3, <3>1, <3>2 DEF ShownIn
    <3>5. QED BY <3>3, <3>4 DEF Touched
  <2>4. QED BY <2>2, <2>3
<1>10. again["descriptionList"] = after["descriptionList"]
  <2>1. PICK N : N = before["descriptionList"] OBVIOUS
  <2>2. PICK M : M = after["descriptionList"] OBVIOUS
  <2>3. PICK b : b = ({"summaries", "descriptions"} \cap DOMAIN changes # {}) OBVIOUS
  <2>4. M = Told(before, "descriptionList", b, TextsSent(changes, before))
    BY <1>2, <2>2, <2>3 DEF OrganizationIs
  <2>5. again["descriptionList"] = Told(after, "descriptionList", b, TextsSent(changes, after))
    BY <1>3, <2>3 DEF OrganizationIs
  <2>6. TextsSent(changes, after) = TextsSent(changes, before)
    <3>1. CASE M = N BY <2>1, <2>2, <3>1 DEF TextsSent
    <3>2. CASE M = TextsSent(changes, before)
      <4>1. M = WithTexts(changes, {}, N, "summaries", "Summary", "descriptions", "Description")
        BY <2>1, <3>2 DEF TextsSent, WithTexts
      <4>2. "Summary" # "Description" OBVIOUS
      <4>3. "summaries" \in DOMAIN changes => IsText(changes["summaries"]) BY <1>6 DEF Texts
      <4>4. "descriptions" \in DOMAIN changes => IsText(changes["descriptions"]) BY <1>6 DEF Texts
      <4>5. \A i \in {} : i[1] \notin {"Summary", "Description"} OBVIOUS
      <4>6. TextsStay(changes, M, N, "summaries", "Summary", "descriptions", "Description")
        BY <4>1, <4>2, <4>3, <4>4, <4>5, TextsAgain
      <4>7. QED BY <2>1, <2>2, <4>6 DEF TextsStay, TextsSent
    <3>3. QED BY <2>1, <2>4, <3>1, <3>2 DEF Told
  <2>7. QED BY <2>2, <2>4, <2>5, <2>6 DEF Told
<1>11. \A f \in OrganizationOut : f \in {"publishingStatus", "businessCode", "nameList",
                                        "descriptionList", "displayNameType"} \cup ContactFields
  BY DEF OrganizationOut, ItemTexts, ContactFields
<1>12. \A f \in OrganizationOut : again[f] = after[f]
  BY <1>5, <1>8, <1>9, <1>10, <1>11
<1>13. again = [f \in OrganizationOut |-> again[f]] /\ after = [f \in OrganizationOut |-> after[f]]
  BY <1>4 DEF After, Put
<1>14. QED BY <1>12, <1>13

\* The same change once more leaves the item as it is.
LEMMA UpdateOnceMore ==
  ASSUME NEW k \in Kinds, NEW before, Proper(k, before), NEW changes, Possible(k, changes),
         NEW after, after = After(k, before, changes, UrisOf(k, before)),
         NEW again, again = After(k, after, changes, UrisOf(k, after))
  PROVE  SameBut(again, after, Filtered(k, before, after, changes))
<1>1. k = "Service" \/ k = "Organization" \/ k \in ChannelTypes BY DEF Kinds
<1>2. CASE k = "Service" BY <1>2, ServiceOnceMore
<1>3. CASE k = "Organization" BY <1>3, OrganizationOnceMore DEF SameBut
<1>4. CASE k \in ChannelTypes BY <1>4, ChannelOnceMore DEF SameBut
<1>5. QED BY <1>1, <1>2, <1>3, <1>4

-----------------------------------------------------------------------------
(* The versions of the item have the fields of its kind.                    *)

ProperVersions == Proper(kind, item) /\ (published # Nothing => Proper(kind, published))

LEMMA ProperInit == ASSUME Init PROVE ProperVersions
  BY WritesAssumption DEF Init, ProperVersions, Proper

LEMMA ProperStored ==
  ASSUME ProperVersions, UNCHANGED kind, NEW after, Proper(kind, after), Stored(after)
  PROVE  ProperVersions'
  <1>1. item' = after /\ (published' = after \/ published' = Nothing \/ published' = published)
    BY DEF Stored
  <1> HIDE DEF Stored
  <1> QED
    BY <1>1 DEF ProperVersions

LEMMA ProperEdited ==
  ASSUME ProperVersions, UNCHANGED kind, kind \in Kinds, Edited
  PROVE  ProperVersions'
  <1>1. ASSUME NEW edit \in Edits[kind] PROVE Proper(kind, edit @@ item)
    <2>1. DOMAIN edit \subseteq ReadSchema(kind) /\ \A f \in DOMAIN edit : IsField(kind, f, edit[f])
      BY WritesAssumption
    <2>2. DOMAIN item = ReadSchema(kind) /\ \A f \in DOMAIN item : IsField(kind, f, item[f])
      BY DEF ProperVersions, Proper
    <2>3. DOMAIN (edit @@ item) = ReadSchema(kind)
      BY <2>1, <2>2 DEF @@
    <2>4. \A f \in ReadSchema(kind) : (edit @@ item)[f] = IF f \in DOMAIN edit THEN edit[f] ELSE item[f]
      BY <2>1, <2>2 DEF @@
    <2>5. \A f \in ReadSchema(kind) : IsField(kind, f, (edit @@ item)[f])
      BY <2>1, <2>2, <2>4, Zenon
    <2> QED
      BY <2>3, <2>5 DEF Proper
  <1>2. ASSUME NEW whole, Proper(kind, whole), NEW status
        PROVE  Proper(kind, ("publishingStatus" :> status) @@ whole)
    <2> DEFINE after == ("publishingStatus" :> status) @@ whole
    <2>1. DOMAIN whole = ReadSchema(kind) /\ "publishingStatus" \in ReadSchema(kind)
      BY <1>2, StatusInSchemas DEF Proper
    <2>2. DOMAIN after = ReadSchema(kind)
      BY <2>1 DEF @@, :>
    <2>3. \A f \in ReadSchema(kind) : f # "publishingStatus" => after[f] = whole[f]
      BY <2>1 DEF @@, :>
    <2>4. \A value : IsField(kind, "publishingStatus", value)
      BY DEF IsField
    <2> HIDE DEF after
    <2>5. \A f \in ReadSchema(kind) : IsField(kind, f, after[f])
      BY <1>2, <2>1, <2>3, <2>4 DEF Proper
    <2>6. Proper(kind, after)
      BY <2>2, <2>5 DEF Proper
    <2> QED
      BY <2>6 DEF after
  <1>3. CASE \E edit \in Edits[kind] : Stored(edit @@ item)
    <2>1. PICK edit \in Edits[kind] : Stored(edit @@ item)
      BY <1>3
    <2>2. PICK after : after = edit @@ item
      OBVIOUS
    <2> QED
      BY <1>1, <2>1, <2>2, ProperStored
  <1>4. CASE \E edit \in Edits[kind] :
               /\ item' = ("publishingStatus" :> {"Modified"}) @@ (edit @@ item)
               /\ UNCHANGED published
    <2>1. PICK edit \in Edits[kind] :
            /\ item' = ("publishingStatus" :> {"Modified"}) @@ (edit @@ item)
            /\ UNCHANGED published
      BY <1>4
    <2>2. PICK whole : whole = edit @@ item
      OBVIOUS
    <2>3. Proper(kind, item')
      BY <1>1, <1>2, <2>1, <2>2
    <2> QED
      BY <2>1, <2>3 DEF ProperVersions
  <1>5. CASE Stored(("publishingStatus" :> {"Published"}) @@ item)
    <2>1. PICK after : after = ("publishingStatus" :> {"Published"}) @@ item
      OBVIOUS
    <2>2. Proper(kind, after)
      BY <1>2, <2>1 DEF ProperVersions
    <2> QED
      BY <1>5, <2>1, <2>2, ProperStored
  <1> QED
    BY <1>3, <1>4, <1>5 DEF Edited

-----------------------------------------------------------------------------
(* What a call that is alone with the item knows of it.                     *)

\* The connections once the channels are those of the change.
Joined(from, changes) ==
  IF "serviceChannelIds" \notin DOMAIN changes THEN from
  ELSE LET plan == PlanServiceConnections(from, changes["serviceChannelIds"])
       IN  IF plan.changes THEN PutConnections(plan.relations) ELSE from

\* The change was found valid for this version of the item.
Found(k, stored, changes) ==
  ValidUpdate(k, Merge(DomainOf(k, WireOf(stored)), Approved(changes)), changes)

Reached == {"validated", "describe", "read", "connect", "written", "done"}

Updates(r) ==
  r.what = "update" /\ (r.pc \in Reached \/ (r.pc = "failed" /\ r.before # Nothing))

Wrote(r, k, now, all) ==
  /\ Updates(r) => Possible(k, r.changes)
  /\ r.pc \in Reading => \E base : Proper(k, base) /\ r.wire = WireOf(base)
  /\ Updates(r) /\ r.alone = TRUE =>
       /\ r.pc \in {"validated"} \cup Reading /\ ~Locked(now) => Found(k, now, r.changes)
       /\ r.pc \in Reading => r.before = now /\ (~Locked(now) => r.wire = WireOf(now))
       /\ r.pc # "validated" => Proper(k, r.before)
       /\ r.pc \in {"connect", "written", "done"} =>
            /\ Found(k, r.before, r.changes) /\ r.wire = WireOf(r.before)
            /\ now = After(k, r.before, r.changes, r.uris)
       /\ r.pc = "connect" => Connects(r)
       /\ r.pc \in {"written", "done"} => all = Joined(r.relations, r.changes)
       /\ r.pc = "failed" =>
            /\ now = r.before \/ (/\ now = After(k, r.before, r.changes, r.uris)
                                 /\ r.wire = WireOf(r.before))
            /\ all \in {r.relations, Joined(r.relations, r.changes)}

AllWrote == ProperVersions /\ \A c \in Call : Wrote(call[c], kind, item, connections)

LEMMA WroteInit == ASSUME Init PROVE AllWrote
  <1>1. \A k, now, all : Wrote(Idle, k, now, all)
    BY DEF Wrote, Idle, Updates, Reached, Reading
  <1> QED
    BY <1>1, ProperInit DEF AllWrote, Init

LEMMA WroteAlone ==
  ASSUME Shaped, NEW d \in Call, NEW k, NEW now, NEW all, NEW then, NEW any,
         Wrote(call[d], k, then, any)
  PROVE  Wrote([call[d] EXCEPT !.alone = FALSE], k, now, all)
  <1> DEFINE q == [call[d] EXCEPT !.alone = FALSE]
  <1>1. /\ q.pc = call[d].pc /\ q.what = call[d].what /\ q.changes = call[d].changes
        /\ q.wire = call[d].wire /\ q.before = call[d].before /\ q.alone = FALSE
        /\ q.uris = call[d].uris /\ q.relations = call[d].relations
    BY Disturbed
  <1> HIDE DEF q
  <1>2. Updates(q) <=> Updates(call[d])
    BY <1>1 DEF Updates
  <1>3. Wrote(q, k, now, all)
    BY <1>1, <1>2 DEF Wrote, Reading
  <1> QED
    BY <1>3 DEF q

\* A call that is not an update, or is not that far, has written nothing.
LEMMA WroteNothing ==
  ASSUME NEW q, ~Updates(q), q.pc \notin Reading, NEW k, NEW now, NEW all
  PROVE  Wrote(q, k, now, all)
  BY DEF Wrote, Reading

LEMMA ValidatedWrote ==
  ASSUME Versions, NEW c \in Call, NEW q, Placed(call[c]), ItemValidated(c, q)
  PROVE  Wrote(q, kind, item, connections)
  <1>1. /\ q.pc = "validated" /\ q.what = "update" /\ q.changes = call[c].changes
        /\ call[c].pc = "approved" /\ call[c].what = "update"
    BY DEF ItemValidated, Kept, Alike
  <1>2. PICK view \in {Latest, Public} :
          /\ view # Nothing /\ q.seen = DomainOf(kind, view) /\ Supported(kind, q.changes)
          /\ ValidUpdate(kind, Merge(q.seen, Approved(q.changes)), q.changes)
    BY Zenon DEF ItemValidated, Approved
  <1>3. Possible(kind, q.changes)
    <2>1. q.changes \in Changes[kind] /\ kind \in Kinds
      BY <1>1 DEF Placed, Versions
    <2>2. \A f \in DOMAIN q.changes : IsChange(kind, f, q.changes[f])
      BY <2>1, WritesAssumption
    <2> QED
      BY <1>2, <2>2 DEF Possible
  <1>4. ~Locked(item) => Found(kind, item, q.changes)
    BY <1>2, ItemIsRead DEF Found
  <1> QED
    BY <1>1, <1>3, <1>4 DEF Wrote, Reading

LEMMA ReadWrote ==
  ASSUME Versions, ProperVersions, NEW c \in Call, NEW q, ItemRead(c, q),
         Wrote(call[c], kind, item, connections)
  PROVE  Wrote(q, kind, item, connections)
  <1>1. /\ q.pc \in Reading /\ q.what = "update" /\ q.changes = call[c].changes
        /\ q.before = item /\ q.alone = call[c].alone
        /\ call[c].pc = "validated" /\ call[c].what = "update"
        /\ q.wire \in {Latest, Public} /\ q.wire # Nothing
    BY DEF ItemRead, Alike, Reading
  <1>2. Updates(q) /\ Updates(call[c])
    BY <1>1 DEF Updates, Reached, Reading
  <1>3. Possible(kind, q.changes)
    BY <1>1, <1>2 DEF Wrote, Reading
  <1>4. \E base : Proper(kind, base) /\ q.wire = WireOf(base)
    BY <1>1 DEF Latest, Public, ProperVersions
  <1>5. ~Locked(item) => q.wire = WireOf(item)
    BY <1>1, ItemIsRead
  <1>6. q.alone = TRUE /\ ~Locked(item) => Found(kind, item, q.changes)
    BY <1>1, <1>2 DEF Wrote, Reading
  <1>7. Proper(kind, q.before)
    BY <1>1 DEF ProperVersions
  <1> QED
    BY <1>1, <1>3, <1>4, <1>5, <1>6, <1>7 DEF Wrote, Reading

\* The item's PUT.
LEMMA PutWrote ==
  ASSUME Versions, ProperVersions, UNCHANGED kind, NEW c \in Call, NEW q, ItemPut(c, q),
         Placed(call[c]), Linked(call[c], connections), Wrote(call[c], kind, item, connections)
  PROVE  /\ ProperVersions' /\ Wrote(q, kind, item', connections')
         /\ (item' = item /\ connections' = connections) \/ Others(c)
  <1> DEFINE r == call[c]
             after == Put(item, BodyOf(kind, r.changes, r.wire, r.uris), WriteSchema(kind))
  <1>1. /\ r.pc = "read" /\ q.pc \in {"connect", "written", "failed"}
        /\ q.changes = r.changes /\ q.what = r.what /\ q.alone = r.alone
        /\ q.before = r.before /\ q.wire = r.wire /\ q.relations = r.relations
        /\ q.uris = r.uris
        /\ connections' = connections /\ r.what = "update"
    BY DEF ItemPut, Kept, Alike, Placed, Reading
  <1>2. Possible(kind, r.changes) /\ Updates(r)
    BY <1>1 DEF Wrote, Updates, Reached, Reading
  <1>3. \/ item' = item /\ published' = published /\ q.pc = "failed"
        \/ /\ ~Locked(item) /\ Stored(after) /\ Others(c)
           /\ q.pc \in {"failed", IF Connects(q) THEN "connect" ELSE "written"}
    BY DEF ItemPut, Refusal
  <1>4. Proper(kind, after)
    <2>1. PICK base : Proper(kind, base) /\ r.wire = WireOf(base)
      BY <1>1 DEF Wrote, Reading
    <2> QED
      BY <1>2, <2>1, PutProper DEF Versions, ProperVersions
  <1> HIDE DEF after
  <1>5. ProperVersions'
    <2>1. CASE item' = item /\ published' = published
      BY <2>1 DEF ProperVersions
    <2>2. CASE Stored(after)
      BY <1>4, <2>2, ProperStored
    <2> QED
      BY <1>3, <2>1, <2>2
  <1>6. r.alone = TRUE => /\ r.before = item /\ connections = r.relations
                          /\ ~Locked(item) => /\ r.wire = WireOf(r.before)
                                              /\ after = After(kind, r.before, r.changes, r.uris)
                                              /\ Found(kind, r.before, r.changes)
    BY <1>1, <1>2 DEF Wrote, Linked, After, after, Reading
  <1>7. ~Connects(q) => Joined(q.relations, q.changes) = q.relations
    BY DEF Connects, Joined
  <1>8. Stored(after) => item' = after
    BY DEF Stored
  <1>9. q.alone = TRUE => Proper(kind, q.before)
    BY <1>1, <1>6 DEF ProperVersions
  <1> HIDE DEF r
  <1>10. Wrote(q, kind, item', connections')
    <2>1. CASE item' = item /\ q.pc = "failed"
      BY <1>1, <1>2, <1>6, <1>9, <2>1 DEF Wrote, r, Reading
    <2>2. CASE /\ ~Locked(item) /\ item' = after
               /\ q.pc \in {"failed", IF Connects(q) THEN "connect" ELSE "written"}
      BY <1>1, <1>2, <1>6, <1>7, <1>9, <2>2 DEF Wrote, r, Reading
    <2> QED
      BY <1>3, <1>8, <2>1, <2>2
  <1> QED
    BY <1>1, <1>3, <1>5, <1>10

\* The PUT of the connections.
LEMMA ConnectionsWrote ==
  ASSUME NEW c \in Call, NEW q, ConnectionsPut(c, q), Linked(call[c], connections),
         Wrote(call[c], kind, item, connections)
  PROVE  /\ Wrote(q, kind, item', connections') /\ UNCHANGED <<item, published>>
         /\ connections' = connections \/ Others(c)
  <1> DEFINE r == call[c]
  <1>1. /\ r.pc = "connect" /\ q.pc \in {"written", "failed"}
        /\ q.changes = r.changes /\ q.what = r.what /\ q.alone = r.alone
        /\ q.before = r.before /\ q.wire = r.wire /\ q.relations = r.relations
        /\ q.uris = r.uris
        /\ item' = item /\ published' = published
        /\ \/ connections' = PutConnections(RelationsToSend(c)) /\ Others(c)
           \/ connections' = connections /\ q.pc = "failed"
    BY DEF ConnectionsPut, Kept, Alike
  <1>2. CASE r.what # "update"
    <2>1. ~Updates(q) /\ q.pc \notin Reading
      BY <1>1, <1>2 DEF Updates, Reading
    <2> QED
      BY <1>1, <2>1, WroteNothing
  <1>3. CASE r.what = "update"
    <2>1. Updates(r)
      BY <1>1, <1>3 DEF Updates, Reached, Reading
    <2>2. r.alone = TRUE => connections = r.relations /\ Connects(r)
      BY <1>1, <2>1 DEF Wrote, Linked, Reading
    <2>3. RelationsToSend(c)
            = PlanServiceConnections(r.relations, r.changes["serviceChannelIds"]).relations
      BY <1>3 DEF RelationsToSend
    <2>4. r.alone = TRUE =>
            Joined(r.relations, r.changes) = PutConnections(RelationsToSend(c))
      BY <2>2, <2>3 DEF Joined, Connects
    <2>5. PICK sent : sent = PutConnections(RelationsToSend(c))
      OBVIOUS
    <2> HIDE DEF r
    <2>6. Wrote(q, kind, item', connections')
      BY <1>1, <1>3, <2>1, <2>2, <2>4, <2>5 DEF Wrote, r, Reading
    <2> QED
      BY <1>1, <2>6
  <1> QED
    BY <1>2, <1>3

LEMMA AuditWrote ==
  ASSUME NEW c \in Call, NEW q, Audited(c, q), Wrote(call[c], kind, item, connections)
  PROVE  Wrote(q, kind, item, connections) /\ UNCHANGED <<item, published, connections>>
  <1> DEFINE r == call[c]
  <1>1. /\ r.pc = "written" /\ q.pc \in {"done", "failed"}
        /\ q.changes = r.changes /\ q.what = r.what /\ q.alone = r.alone
        /\ q.before = r.before /\ q.wire = r.wire /\ q.relations = r.relations
        /\ q.uris = r.uris
        /\ UNCHANGED <<item, published, connections>>
    BY DEF Audited, Kept, Alike
  <1>2. Updates(q) => Updates(r)
    BY <1>1 DEF Updates, Reached, Reading
  <1> HIDE DEF r
  <1>3. Wrote(q, kind, item, connections)
    BY <1>1, <1>2 DEF Wrote, r, Reading
  <1> QED
    BY <1>1, <1>3

LEMMA DescribedWrote ==
  ASSUME NEW c \in Call, NEW q, Described(c, q), Placed(call[c]),
         Linked(call[c], connections), Wrote(call[c], kind, item, connections)
  PROVE  Wrote(q, kind, item, connections)
  <1> DEFINE r == call[c]
  <1>1. /\ r.pc = "describe" /\ q.pc \in {"read", "failed"}
        /\ q.changes = r.changes /\ q.what = r.what /\ q.alone = r.alone
        /\ q.before = r.before /\ q.wire = r.wire /\ q.relations = r.relations
    BY DEF Described, Alike
  <1>2. r.what = "update" /\ Updates(r)
    BY <1>1 DEF Placed, Updates, Reached, Reading
  <1>3. r.alone = TRUE => connections = r.relations /\ r.before = item
    BY <1>1, <1>2 DEF Linked, Wrote, Reading
  <1> HIDE DEF r
  <1> QED
    BY <1>1, <1>2, <1>3 DEF Wrote, r, Reading

LEMMA OutcomeWrote ==
  ASSUME Versions, ProperVersions, UNCHANGED kind, NEW c \in Call, NEW q, Outcome(c, q),
         Placed(call[c]), Linked(call[c], connections), Wrote(call[c], kind, item, connections)
  PROVE  /\ ProperVersions' /\ Wrote(q, kind, item', connections')
         /\ (item' = item /\ connections' = connections) \/ Others(c)
  <1>0. UNCHANGED <<item, published>> => ProperVersions'
    BY DEF ProperVersions
  <1>1. ASSUME Begin(c, q) \/ Stop(c, q) \/ DetailsValidated(c, q) \/ ConnectionsRead(c, q) \/ Created(c, q)
        PROVE  /\ ~Updates(q) /\ q.pc \notin Reading
               /\ UNCHANGED <<item, published>> /\ connections' = connections
    BY <1>1 DEF Begin, Stop, DetailsValidated, ConnectionsRead, Created, Kept, Alike,
                Updates, Reached, Placed, Before, Reading
  <1>2. CASE Begin(c, q) \/ Stop(c, q) \/ DetailsValidated(c, q) \/ ConnectionsRead(c, q) \/ Created(c, q)
    BY <1>0, <1>1, <1>2, WroteNothing
  <1>3. CASE ItemValidated(c, q)
    <2>1. UNCHANGED <<item, published>> /\ connections' = connections
      BY <1>3 DEF ItemValidated
    <2>2. Wrote(q, kind, item, connections)
      BY <1>3, ValidatedWrote
    <2> QED
      BY <1>0, <2>1, <2>2
  <1>4. CASE ItemRead(c, q)
    <2>1. UNCHANGED <<item, published>> /\ connections' = connections
      BY <1>4 DEF ItemRead
    <2>2. Wrote(q, kind, item, connections)
      BY <1>4, ReadWrote
    <2> QED
      BY <1>0, <2>1, <2>2
  <1>5. CASE ItemPut(c, q)
    BY <1>5, PutWrote
  <1>6. CASE ConnectionsPut(c, q)
    BY <1>0, <1>6, ConnectionsWrote
  <1>7. CASE Audited(c, q)
    BY <1>0, <1>7, AuditWrote
  <1>8. CASE Described(c, q)
    <2>1. UNCHANGED <<item, published>> /\ connections' = connections
      BY <1>8 DEF Described
    <2>2. Wrote(q, kind, item, connections)
      BY <1>8, DescribedWrote
    <2> QED
      BY <1>0, <2>1, <2>2
  <1> QED
    BY <1>2, <1>3, <1>4, <1>5, <1>6, <1>7, <1>8 DEF Outcome

LEMMA WroteNext ==
  ASSUME Shaped, AllPlaced, AllLinked, AllTold, AllWrote, events \in Nat, Next
  PROVE  AllWrote'
  <1>1. /\ UNCHANGED kind
        /\ (\E c \in Call : \E q : Gets(c, q) /\ Outcome(c, q)) \/ Edited
    BY StepOutcome
  <1>2. ASSUME NEW d \in Call, call'[d] = [call[d] EXCEPT !.alone = FALSE]
        PROVE  Wrote(call'[d], kind, item', connections')
    <2>1. Wrote(call[d], kind, item, connections)
      BY DEF AllWrote
    <2>2. PICK now, all : now = item' /\ all = connections'
      OBVIOUS
    <2>3. Wrote([call[d] EXCEPT !.alone = FALSE], kind, now, all)
      BY <2>1, WroteAlone
    <2> QED
      BY <1>2, <2>2, <2>3
  <1>3. ProperVersions' /\ \A d \in Call : Wrote(call'[d], kind, item', connections')
    <2>1. CASE \E c \in Call : \E q : Gets(c, q) /\ Outcome(c, q)
      <3>1. PICK c, q : c \in Call /\ Gets(c, q) /\ Outcome(c, q)
        BY <2>1
      <3>2. /\ ProperVersions' /\ Wrote(q, kind, item', connections')
            /\ (item' = item /\ connections' = connections) \/ Others(c)
        BY <1>1, <3>1, OutcomeWrote DEF AllWrote, AllTold, AllLinked, AllPlaced
      <3>3. \A d \in Call : \/ d = c /\ call'[d] = q
                            \/ call'[d] = call[d] /\ item' = item /\ connections' = connections
                            \/ call'[d] = [call[d] EXCEPT !.alone = FALSE]
        BY <3>1, <3>2 DEF Gets, Others
      <3>4. ASSUME NEW d \in Call PROVE Wrote(call'[d], kind, item', connections')
        <4>1. CASE d = c /\ call'[d] = q
          BY <3>2, <4>1
        <4>2. CASE call'[d] = call[d] /\ item' = item /\ connections' = connections
          BY <4>2 DEF AllWrote
        <4>3. CASE call'[d] = [call[d] EXCEPT !.alone = FALSE]
          BY <1>2, <4>3
        <4> QED
          BY <3>3, <4>1, <4>2, <4>3
      <3> QED
        BY <3>2, <3>4
    <2>2. CASE Edited
      <3>1. \A d \in Call : call'[d] = [call[d] EXCEPT !.alone = FALSE]
        BY <2>2, Zenon DEF Edited
      <3>2. ProperVersions'
        BY <1>1, <2>2, ProperEdited DEF AllWrote, AllTold, Versions
      <3> QED
        BY <1>2, <3>1, <3>2
    <2> QED
      BY <1>1, <2>1, <2>2
  <1> QED
    BY <1>1, <1>3 DEF AllWrote

WroteInv == Inv /\ AllWrote

LEMMA WroteHolds == Spec => []WroteInv
  <1>1. Init => WroteInv
    BY InvInit, WroteInit DEF WroteInv
  <1>2. WroteInv /\ [Next]_vars => WroteInv'
    <2> SUFFICES ASSUME WroteInv, [Next]_vars PROVE WroteInv'
      OBVIOUS
    <2>1. Inv'
      BY InvNext DEF WroteInv
    <2>2. CASE Next
      BY <2>1, <2>2, WroteNext DEF WroteInv, Inv
    <2>3. CASE UNCHANGED vars
      <3>1. UNCHANGED <<kind, item, published, connections, call>>
        BY <2>3 DEF vars
      <3>2. AllWrote'
        BY <3>1 DEF WroteInv, AllWrote, ProperVersions
      <3> QED
        BY <2>1, <3>2 DEF WroteInv
    <2> QED
      BY <2>2, <2>3
  <1> QED
    BY <1>1, <1>2, PTL DEF Spec

\* What an apply that is alone does not touch of an item stays as it was: the
\* other entries of its lists and every other field.  What the description of
\* a linked service brings becomes the service's own only in a list that has
\* nothing else, or when PTV did not show the description
\* (serviceChangesToV11Body and its siblings resend what a PUT replaces).
THEOREM UpdatesKeepTheRest == Spec => []RestIsKept
  <1>1. WroteInv => RestIsKept
    <2> SUFFICES ASSUME WroteInv, NEW c \in Call, Updated(c)
                 PROVE  /\ RestKept(item, call[c].before, call[c].changes, call[c].uris)
                        /\ Informed(c) <=> Shows(kind, call[c].before, call[c].uris)
      BY Zenon DEF RestIsKept, RestKept
    <2>1. /\ Wrote(call[c], kind, item, connections) /\ kind \in Kinds
          /\ call[c].alone \in BOOLEAN
      BY DEF WroteInv, AllWrote, Inv, AllTold, Versions, AllPlaced, Placed
    <2>2. call[c].pc = "done" /\ call[c].alone = TRUE /\ Updates(call[c])
      BY <2>1 DEF Updated, Updates, Reached
    <2>3. /\ Possible(kind, call[c].changes) /\ Proper(kind, call[c].before)
          /\ item = After(kind, call[c].before, call[c].changes, call[c].uris)
          /\ call[c].wire = WireOf(call[c].before)
      BY <2>1, <2>2 DEF Wrote
    <2>4. call[c].uris = {} \/ call[c].uris = GeneralDescriptionUris(call[c].wire)
      BY DEF WroteInv, Inv, AllPlaced, Placed
    <2>5. CASE kind = "Service"
      <3>1. call[c].uris = {} \/ call[c].uris = UrisOf(kind, call[c].before)
        BY <2>3, <2>4, <2>5 DEF UrisOf
      <3>2. Informed(c) <=> Shows(kind, call[c].before, call[c].uris)
        BY <2>3, <2>5 DEF Informed, Shows, UrisOf
      <3> QED
        BY <2>1, <2>3, <3>1, <3>2, UpdateKeepsRest
    <2>6. CASE kind # "Service"
      <3>1. item = After(kind, call[c].before, call[c].changes, {})
        BY <2>3, <2>6, UrisMatterNot
      <3>2. RestKept(item, call[c].before, call[c].changes, {})
        BY <2>1, <2>3, <3>1, UpdateKeepsRest
      <3> QED
        BY <2>6, <3>2 DEF RestKept, Informed, Shows
    <2> QED
      BY <2>5, <2>6
  <1> QED
    BY <1>1, WroteHolds, PTL

\* Joining the channels of a change twice is joining them once.
LEMMA JoinedAgain ==
  ASSUME NEW from, NEW changes, NEW all, all = Joined(from, changes)
  PROVE  Joined(all, changes) = all
  <1> DEFINE ids == changes["serviceChannelIds"]
             plan == PlanServiceConnections(from, ids)
  <1>1. CASE "serviceChannelIds" \notin DOMAIN changes
    BY <1>1 DEF Joined
  <1>2. CASE "serviceChannelIds" \in DOMAIN changes
    <2>1. DOMAIN all = ids
      <3>1. CASE ids = DOMAIN from
        BY <1>2, <3>1 DEF Joined, PlanServiceConnections
      <3>2. CASE ids # DOMAIN from
        <4>1. plan.changes = TRUE /\ DOMAIN plan.relations = ids
          BY <3>2 DEF PlanServiceConnections
        <4> HIDE DEF plan
        <4>2. all = PutConnections(plan.relations)
          BY <1>2, <4>1 DEF Joined, plan
        <4> QED
          BY <4>1, <4>2 DEF PutConnections
      <3> QED
        BY <3>1, <3>2
    <2>2. PlanServiceConnections(all, ids).changes = FALSE
      BY <2>1 DEF PlanServiceConnections
    <2> QED
      BY <1>2, <2>2 DEF Joined
  <1> QED
    BY <1>1, <1>2

\* Approving once more what an apply that is alone did, or did in part, gives
\* what one complete apply gives, when PTV showed the service's description
\* (applyServiceChanges after a lost answer or a failed second PUT).
THEOREM ApplyingAgainIsOnce == Spec => []AgainIsOnce
  <1>1. WroteInv => AgainIsOnce
    <2> SUFFICES ASSUME WroteInv, NEW c \in Call, Ended(c), call[c].what = "update",
                        Informed(c), call[c].wire = WireOf(call[c].before)
                 PROVE  LET changes == call[c].changes
                            before == call[c].before
                            Once(from) == After(kind, from, changes, UrisOf(kind, from)) IN
                        /\ SameBut(Once(item), Once(before),
                                   Filtered(kind, before, Once(before), changes))
                        /\ Joined(connections, changes) = Joined(call[c].relations, changes)
      BY Zenon DEF AgainIsOnce, After, Filtered, Joined, UrisOf
    <2>1. /\ Wrote(call[c], kind, item, connections) /\ kind \in Kinds
          /\ call[c].alone \in BOOLEAN
      BY DEF WroteInv, AllWrote, Inv, AllTold, Versions, AllPlaced, Placed
    <2>2. /\ call[c].pc \in {"done", "failed"} /\ call[c].alone = TRUE /\ Updates(call[c])
      BY <2>1 DEF Ended, Updates, Reached
    <2>3. PICK changes, before, relations, uris :
            /\ changes = call[c].changes /\ before = call[c].before
            /\ relations = call[c].relations /\ uris = call[c].uris
      OBVIOUS
    <2>4. PICK after : after = After(kind, before, changes, UrisOf(kind, before))
      OBVIOUS
    <2>5. PICK again : again = After(kind, after, changes, UrisOf(kind, after))
      OBVIOUS
    <2>a. After(kind, before, changes, uris) = after
      <3>1. CASE kind = "Service"
        BY <2>3, <2>4, <3>1 DEF Informed, UrisOf
      <3>2. CASE kind # "Service"
        BY <2>4, <3>2, UrisMatterNot
      <3> QED
        BY <3>1, <3>2
    <2>6. /\ Possible(kind, changes) /\ Proper(kind, before) /\ item \in {before, after}
          /\ connections \in {relations, Joined(relations, changes)}
      BY <2>1, <2>2, <2>3, <2>a DEF Wrote
    <2>7. SameBut(again, after, Filtered(kind, before, after, changes))
      BY <2>1, <2>4, <2>5, <2>6, UpdateOnceMore
    <2>8. \A lists : SameBut(after, after, lists)
      BY DEF SameBut
    <2>9. SameBut(After(kind, item, changes, UrisOf(kind, item)), after,
                  Filtered(kind, before, after, changes))
      BY <2>4, <2>5, <2>6, <2>7, <2>8
    <2>10. Joined(connections, changes) = Joined(relations, changes)
      BY <2>6, JoinedAgain
    <2> QED
      BY <2>3, <2>4, <2>9, <2>10
  <1> QED
    BY <1>1, WroteHolds, PTL

-----------------------------------------------------------------------------
(* What was approved is there.                                              *)

LEMMA MergedIs ==
  ASSUME NEW current, NEW changes, NEW proposed, proposed = Merge(current, Approved(changes)),
         NEW f, f # "serviceChannelIds"
  PROVE  /\ f \in DOMAIN changes => f \in DOMAIN proposed /\ proposed[f] = changes[f]
         /\ f \notin DOMAIN changes => /\ f \in DOMAIN proposed <=> f \in DOMAIN current
                                       /\ f \in DOMAIN current => proposed[f] = current[f]
  BY DEF Merge, Approved, @@

\* A list that is sent, unless it is empty.
LEMMA ListThere ==
  ASSUME NEW stored, NEW l \in {"nameList", "descriptionList"}, NEW v, v # {}
  PROVE  Told(stored, l, TRUE, v) = v
  BY DEF Told, Scalars

LEMMA NoTextsIn == ASSUME NEW t PROVE ItemsOfType({}, t) = {}
  BY DEF ItemsOfType

\* What PTV cannot be told of a change, given what was read and what is stored.
Untold(k, changes, wire, uris, stored) ==
  LET sent == BodyOf(k, changes, wire, uris).set
      unflagged == {"urls", "accessibility"} \cup (IF k = "Organization" THEN {} ELSE {"emails"})
  IN  {f \in DOMAIN changes \cap unflagged : changes[f] = {}}
        \cup {f \in DOMAIN changes \cap Required : changes[f] = {}}
        \cup {f \in DOMAIN changes \cap Texts : changes[f] = {} /\ sent[ListOf(f)] = {}}
        \cup NotSent(changes, stored)

\* A touched field is as the change has it.
Lost(before, after) == IF IsLinked(before) /\ ~IsLinked(after) THEN InheritedUris ELSE {}
Brought(after, f) == IF IsLinked(after) THEN Inherited[f] ELSE {}

Shown(k, f, changes, before, after) ==
  LET now == DomainOf(k, WireOf(after))
  IN  /\ f \in Texts => StoredTexts(after, f) = changes[f]
      /\ f \in Classifications =>
           /\ changes[f] \ Lost(before, after) \subseteq now[f]
           /\ now[f] \subseteq changes[f] \cup Brought(after, f)
      /\ f \notin Texts \cup Classifications => now[f] = changes[f]

\* The text of a type that a service's list has, when the change gives it.
LEMMA ServiceTextsThere ==
  ASSUME NEW before, NEW changes, Possible("Service", changes), NEW after,
         NEW u, ServiceIs(after, before, changes, u), Proper("Service", before),
         NEW f \in Texts \cap DOMAIN changes,
         f \notin Untold("Service", changes, WireOf(before), u, after)
  PROVE  StoredTexts(after, f) = changes[f]
  <1>1. IsText(changes[f]) /\ f \in {"names", "summaries", "descriptions"}
    BY DEF Possible, IsChange, ServiceFields, Texts, Classifications, Required, Flagged
  <1>2. PICK body : body = ServiceChangesToV11Body(changes, WireOf(before), u)
    OBVIOUS
  <1>3. ~(changes[f] = {} /\ body.set[ListOf(f)] = {})
    BY <1>2 DEF Untold, BodyOf
  <1>4. PICK current : current = WireOf(before)
    OBVIOUS
  <1>5. current.nameList = before.nameList /\ current.descriptionList = before.descriptionList
    BY <1>4, WireFields DEF Proper, ReadSchema, ServiceOut, ItemTexts, Classifications, Required, Flagged
  <1>6. CASE f = "names"
    <2>1. PICK v : v = KeptWireItems(before["nameList"], {"Name"})
                         \cup TextToItems(changes["names"], "Name")
      OBVIOUS
    <2>2. after["nameList"] = Told(before, "nameList", TRUE, v)
      BY <1>6, <2>1 DEF ServiceIs, Touched
    <2>3. ItemsOfType(v, "Name") = changes["names"]
      <3>1. PICK others : others = KeptWireItems(before["nameList"], {"Name"})
        OBVIOUS
      <3>2. \A i \in others : i[1] # "Name"
        BY <3>1 DEF KeptWireItems
      <3> QED
        BY <1>1, <1>6, <2>1, <3>1, <3>2, TextsOf
    <2>4. body.set["nameList"] = v
      BY <1>2, <1>4, <1>5, <1>6, <2>1, ServiceBodyHas DEF Has, Touched
    <2>5. ~(changes["names"] = {} /\ v = {})
      BY <1>3, <1>6, <2>4 DEF ListOf
    <2>6. ItemsOfType(after["nameList"], "Name") = changes["names"]
      BY <2>2, <2>3, <2>5, ListThere, NoTextsIn
    <2> QED
      BY <1>6, <2>6 DEF StoredTexts
  <1>7. CASE f \in {"summaries", "descriptions"}
    <2>1. PICK v : v = ServiceDescriptions(changes, before)
      OBVIOUS
    <2>2. after["descriptionList"] = Told(before, "descriptionList", TRUE, v)
      <3>1. ({"summaries", "descriptions"} \cap DOMAIN changes # {}) = TRUE
        BY <1>7
      <3> QED
        BY <2>1, <3>1 DEF ServiceIs
    <2>3. PICK others : others = KeptWireItems(before.descriptionList, {"Summary", "Description"})
      OBVIOUS
    <2>4. PICK D : D = before["descriptionList"]
      OBVIOUS
    <2>5. v = WithTexts(changes, others, D, "summaries", "Summary", "descriptions", "Description")
      BY <2>1, <2>3, <2>4 DEF WithTexts, ServiceDescriptions
    <2>6. /\ "summaries" \in DOMAIN changes => IsText(changes["summaries"])
          /\ "descriptions" \in DOMAIN changes => IsText(changes["descriptions"])
      BY DEF Possible, IsChange, Texts
    <2>7. \A i \in others : i[1] \notin {"Summary", "Description"}
      BY <2>3 DEF KeptWireItems
    <2>8. "Summary" # "Description"
      OBVIOUS
    <2>9. TextsStay(changes, v, D, "summaries", "Summary", "descriptions", "Description")
      BY <2>5, <2>6, <2>7, <2>8, TextsAgain
    <2>10. body.set["descriptionList"] = v
      <3>1. Has(body.set, "descriptionList", {"summaries", "descriptions"} \cap DOMAIN changes # {},
                ServiceDescriptions(changes, current))
        BY <1>2, <1>4, ServiceBodyHas
      <3>2. ServiceDescriptions(changes, current) = v
        BY <1>5, <2>1 DEF ServiceDescriptions
      <3> QED
        BY <1>7, <3>1, <3>2 DEF Has
    <2>11. ~(changes[f] = {} /\ v = {})
      BY <1>3, <1>7, <2>10 DEF ListOf
    <2>12. CASE f = "summaries"
      <3>1. ItemsOfType(v, "Summary") = changes["summaries"]
        BY <2>9, <2>12 DEF TextsStay, Touched
      <3>2. ItemsOfType(after["descriptionList"], "Summary") = changes["summaries"]
        BY <2>2, <2>11, <2>12, <3>1, ListThere, NoTextsIn
      <3> QED
        BY <2>12, <3>2 DEF StoredTexts
    <2>13. CASE f = "descriptions"
      <3>1. ItemsOfType(v, "Description") = changes["descriptions"]
        BY <2>9, <2>13 DEF TextsStay, Touched
      <3>2. ItemsOfType(after["descriptionList"], "Description") = changes["descriptions"]
        BY <2>2, <2>11, <2>13, <3>1, ListThere, NoTextsIn
      <3> QED
        BY <2>13, <3>2 DEF StoredTexts
    <2> QED
      BY <1>7, <2>12, <2>13
  <1> QED
    BY <1>1, <1>6, <1>7

LEMMA ServiceListThere ==
  ASSUME NEW before, DOMAIN before = ServiceOut, NEW changes, Possible("Service", changes),
         NEW after, NEW u, u \in {{}, GeneralDescriptionUris(before)},
         ServiceIs(after, before, changes, u),
         NEW f \in Classifications \cap DOMAIN changes, ~(f \in Required /\ changes[f] = {}),
         NEW now, now = after[f] \cup Brought(after, f)
  PROVE  /\ changes[f] \ Lost(before, after) \subseteq now
         /\ now \subseteq changes[f] \cup Brought(after, f)
  <1> DEFINE v == OwnEntries(changes[f], u)
  <1>1. f \notin Scalars /\ (f \in Required \/ f \in Flagged)
    BY DEF Classifications, Scalars, Required, Flagged
  <1>2. after[f] = IF f \in Flagged /\ changes[f] = {} THEN {}
                   ELSE Told(before, f, f \in ListsSent(changes, before), v)
    BY DEF ServiceIs, Touched
  <1>3. CASE changes[f] = {}
    BY <1>1, <1>2, <1>3
  <1>4. CASE changes[f] # {}
    <2>1. f \in ListsSent(changes, before)
      BY <1>4 DEF ListsSent
    <2>2. v # {} /\ changes[f] \ u \subseteq v /\ v \subseteq changes[f]
      BY <1>4 DEF OwnEntries
    <2>3. after[f] = v
      BY <1>1, <1>2, <1>4, <2>1, <2>2 DEF Told
    <2>4. u \subseteq IF IsLinked(before) THEN InheritedUris ELSE {}
      BY DEF GeneralDescriptionUris, IsLinked
    <2>5. changes[f] \cap InheritedUris \subseteq Inherited[f]
      BY DEF Possible, IsChange
    <2> HIDE DEF v
    <2>6. changes[f] \ Lost(before, after) \subseteq now
      BY <2>2, <2>3, <2>4, <2>5 DEF Lost, Brought
    <2>7. now \subseteq changes[f] \cup Brought(after, f)
      BY <2>2, <2>3
    <2> QED
      BY <2>6, <2>7
  <1> QED
    BY <1>3, <1>4

LEMMA ServiceThere ==
  ASSUME NEW before, Proper("Service", before), NEW changes, Possible("Service", changes),
         Found("Service", before, changes),
         NEW u, u \in {{}, UrisOf("Service", before)},
         NEW after, after = After("Service", before, changes, u),
         NEW f \in DOMAIN changes, f # "serviceChannelIds",
         f \notin Untold("Service", changes, WireOf(before), u, after)
  PROVE  Shown("Service", f, changes, before, after)
  <1>1. ServiceIs(after, before, changes, u) /\ DOMAIN before = ServiceOut
    BY ServiceUpdated
  <1>2. DOMAIN after = ServiceOut
    BY <1>1 DEF ServiceIs
  <1>3. f \in Texts \cup Classifications \cup
              {"languages", "publishingStatus", "type", "generalDescriptionId"}
    BY DEF Possible, IsChange, ServiceFields, Texts
  <1>4. PICK now : now = DomainOf("Service", WireOf(after))
    OBVIOUS
  <1>5. ASSUME f \notin Texts PROVE now[f] = WireOf(after)[f] /\ f \in ServiceOut
    <2>1. PICK wire : wire = WireOf(after)
      OBVIOUS
    <2>2. DOMAIN wire = ServiceOut
      BY <1>2, <2>1, WireFields
    <2>3. f \in ServiceOut \ {"nameList", "descriptionList"}
          /\ f \notin {"names", "summaries", "descriptions"}
      BY <1>3, <1>5 DEF ServiceOut, ItemTexts, Texts, Classifications, Required, Flagged
    <2>4. now = ServiceWireToDomain(wire)
      BY <1>4, <2>1 DEF DomainOf
    <2> QED
      BY <2>1, <2>2, <2>3, <2>4 DEF ServiceWireToDomain
  <1>6. CASE f \in Texts
    <2>1. StoredTexts(after, f) = changes[f]
      BY <1>1, <1>6, ServiceTextsThere
    <2> QED
      BY <1>6, <2>1 DEF Shown, Texts, Classifications, Required, Flagged
  <1>7. CASE f \in Classifications
    <2>1. f \notin Texts
      BY <1>7 DEF Texts, Classifications, Required, Flagged
    <2>2. now[f] = after[f] \cup Brought(after, f)
      <3>1. "generalDescriptionId" \in DOMAIN after
        BY <1>2 DEF ServiceOut
      <3> QED
        BY <1>2, <1>5, <1>7, <2>1, <3>1, WireFields DEF Brought
    <2>3. ~(f \in Required /\ changes[f] = {})
      BY DEF Untold
    <2>4. u \in {{}, GeneralDescriptionUris(before)}
      BY UrisAre DEF UrisOf
    <2>5. /\ changes[f] \ Lost(before, after) \subseteq now[f]
          /\ now[f] \subseteq changes[f] \cup Brought(after, f)
      BY <1>1, <1>7, <2>2, <2>3, <2>4, ServiceListThere
    <2> QED
      BY <1>4, <1>7, <2>1, <2>5, Zenon DEF Shown
  <1>8. CASE f \in {"languages", "publishingStatus", "type", "generalDescriptionId"}
    <2>1. f \notin Texts /\ f \notin Classifications
      BY <1>8 DEF Texts, Classifications, Required, Flagged
    <2>2. now[f] = after[f]
      BY <1>2, <1>5, <2>1, WireFields
    <2>3. after[f] = changes[f]
      <3>1. CASE f # "languages"
        BY <1>1, <1>8, <3>1 DEF ServiceIs, Touched
      <3>2. CASE f = "languages"
        <4>1. PICK proposed : proposed = Merge(DomainOf("Service", WireOf(before)), Approved(changes))
          OBVIOUS
        <4>2. proposed["languages"] # {}
          BY <4>1 DEF Found, ValidUpdate, ValidService
        <4>3. changes["languages"] # {}
          BY <3>2, <4>1, <4>2, MergedIs
        <4> QED
          BY <1>1, <3>2, <4>3 DEF ServiceIs, Touched, Told
      <3> QED
        BY <3>1, <3>2
    <2> QED
      BY <1>4, <2>1, <2>2, <2>3, Zenon DEF Shown
  <1> QED
    BY <1>3, <1>6, <1>7, <1>8

\* The text of a type that a channel's list has, when the change gives it.
LEMMA ChannelTextsThere ==
  ASSUME NEW type \in ChannelTypes, NEW before, NEW changes, Possible(type, changes), NEW after,
         ChannelIs(after, type, before, changes), WireOf(before) = before,
         NEW u, NEW f \in Texts \cap DOMAIN changes,
         f \notin Untold(type, changes, before, u, after)
  PROVE  StoredTexts(after, f) = changes[f]
  <1>1. DOMAIN changes \subseteq ChannelTypeFields(type) /\ type \notin {"Service", "Organization"}
    BY DEF Possible, Supported, SupportedOrganization, ChannelTypes
  <1>2. IsText(changes[f]) /\ f \in {"names", "summaries", "descriptions"}
    BY <1>1 DEF Possible, IsChange, Texts, ChannelTypeFields, CommonChannelFields, ChannelTypes
  <1>3. PICK body : body = ChannelChangesToV11Body(changes, before, type)
    OBVIOUS
  <1>4. ~(changes[f] = {} /\ body.set[ListOf(f)] = {})
    BY <1>1, <1>3 DEF Untold, BodyOf
  <1>5. CASE f = "names"
    <2>1. PICK others : others = KeptChannelItems(before["nameList"], {"Name"}, changes)
      OBVIOUS
    <2>2. PICK v : v = others \cup TextToItems(changes["names"], "Name")
      OBVIOUS
    <2>3. v = KeptChannelItems(before["nameList"], IF "names" \in DOMAIN changes THEN {"Name"} ELSE {}, changes)
                \cup TextToItems(Touched(changes, "names", {}), "Name")
      BY <1>5, <2>1, <2>2 DEF Touched
    <2>4. ({"names", "languages"} \cap DOMAIN changes # {}) = TRUE
      BY <1>5
    <2>5. after["nameList"] = Told(before, "nameList", TRUE, v)
      BY <2>3, <2>4 DEF ChannelIs
    <2>6. ItemsOfType(v, "Name") = changes["names"]
      <3>1. \A i \in others : i[1] # "Name"
        BY <2>1 DEF KeptChannelItems
      <3> QED
        BY <1>2, <1>5, <2>2, <3>1, TextsOf
    <2>7. body.set["nameList"] = v
      <3>1. Has(body.set, "nameList", {"names", "languages"} \cap DOMAIN changes # {},
                KeptChannelItems(before.nameList, IF "names" \in DOMAIN changes THEN {"Name"} ELSE {},
                                 changes)
                  \cup TextToItems(Touched(changes, "names", {}), "Name"))
        BY <1>1, <1>3, ChannelBodyHas
      <3> QED
        BY <2>3, <2>4, <3>1 DEF Has
    <2>8. v # {}
      BY <1>4, <1>5, <2>6, <2>7, NoTextsIn DEF ListOf
    <2>9. after["nameList"] = v
      BY <2>5, <2>8, ListThere
    <2> QED
      BY <1>5, <2>6, <2>9 DEF StoredTexts
  <1>6. CASE f \in {"summaries", "descriptions"}
    <2>1. PICK v : v = ChannelDescriptions(changes, before)
      OBVIOUS
    <2>2. ({"descriptions", "summaries", "languages"} \cap DOMAIN changes # {}) = TRUE
      BY <1>6
    <2>3. after["descriptionList"] = Told(before, "descriptionList", TRUE, v)
      BY <2>1, <2>2 DEF ChannelIs
    <2>4. body.set["descriptionList"] = v
      <3>1. Has(body.set, "descriptionList",
                {"descriptions", "summaries", "languages"} \cap DOMAIN changes # {},
                ChannelDescriptions(changes, before))
        BY <1>1, <1>3, ChannelBodyHas
      <3> QED
        BY <2>1, <2>2, <3>1 DEF Has
    <2>5. PICK replaced : replaced = (IF "descriptions" \in DOMAIN changes THEN {"Description"} ELSE {})
                                       \cup (IF "summaries" \in DOMAIN changes THEN {"Summary"} ELSE {})
      OBVIOUS
    <2>6. PICK kept : kept = KeptChannelItems(before.descriptionList, replaced, changes)
      OBVIOUS
    <2>7. \A i \in kept : i[1] \notin replaced
      BY <2>6 DEF KeptChannelItems
    <2>8. PICK S, D : /\ S = TextToItems(Touched(changes, "summaries", {}), "Summary")
                      /\ D = TextToItems(Touched(changes, "descriptions", {}), "Description")
      OBVIOUS
    <2>9. v = (kept \cup S) \cup D
      BY <2>1, <2>5, <2>6, <2>8 DEF ChannelDescriptions
    <2>10. CASE f = "summaries"
      <3>1. PICK others : others = kept \cup D
        OBVIOUS
      <3>2. \A i \in others : i[1] # "Summary"
        BY <2>5, <2>7, <2>8, <2>10, <3>1, ItemsTyped
      <3>3. v = others \cup TextToItems(changes["summaries"], "Summary")
        BY <2>8, <2>9, <2>10, <3>1 DEF Touched
      <3>4. ItemsOfType(v, "Summary") = changes["summaries"]
        BY <1>2, <2>10, <3>2, <3>3, TextsOf
      <3>5. v # {}
        BY <1>4, <2>4, <2>10, <3>4, NoTextsIn DEF ListOf
      <3>6. after["descriptionList"] = v
        BY <2>3, <3>5, ListThere
      <3> QED
        BY <2>10, <3>4, <3>6 DEF StoredTexts
    <2>11. CASE f = "descriptions"
      <3>1. PICK others : others = kept \cup S
        OBVIOUS
      <3>2. \A i \in others : i[1] # "Description"
        BY <2>5, <2>7, <2>8, <2>11, <3>1, ItemsTyped
      <3>3. v = others \cup TextToItems(changes["descriptions"], "Description")
        BY <2>8, <2>9, <2>11, <3>1 DEF Touched
      <3>4. ItemsOfType(v, "Description") = changes["descriptions"]
        BY <1>2, <2>11, <3>2, <3>3, TextsOf
      <3>5. v # {}
        BY <1>4, <2>4, <2>11, <3>4, NoTextsIn DEF ListOf
      <3>6. after["descriptionList"] = v
        BY <2>3, <3>5, ListThere
      <3> QED
        BY <2>11, <3>4, <3>6 DEF StoredTexts
    <2> QED
      BY <1>6, <2>10, <2>11
  <1> QED
    BY <1>2, <1>5, <1>6

\* The fields a channel's change may give, by how they are sent.
LEMMA ChannelFieldsSent ==
  ASSUME NEW type \in ChannelTypes, NEW f \in ChannelTypeFields(type), f \notin Texts
  PROVE  /\ f \in ReadSchema(type) /\ f \notin Classifications
         /\ f \notin {"nameList", "descriptionList", "names", "summaries", "descriptions"}
         /\ f \in {"languages", "accessibility", "signatureQuantity", "phoneNumbers",
                   "publishingStatus", "isVisibleForAll", "requiresSignature",
                   "requiresAuthentication"} \cup FlaggedLists(type) \cup WholeLists(type)
         /\ f \in WholeLists(type) => f \in {"urls", "addresses", "emails"}
         /\ f = "addresses" => type = "ServiceLocation"
  <1> USE DEF ChannelTypeFields, CommonChannelFields, Texts, ReadSchema, Classifications, Required,
              Flagged, FlaggedLists, WholeLists, ItemTexts, SupportLists
  <1>1. CASE type = "EChannel"
    BY <1>1 DEF ElectronicChannelOut
  <1>2. CASE type = "Phone"
    BY <1>2 DEF PhoneChannelOut
  <1>3. CASE type = "PrintableForm"
    BY <1>3 DEF PrintableFormChannelOut
  <1>4. CASE type = "ServiceLocation"
    BY <1>4 DEF ServiceLocationChannelOut
  <1>5. CASE type = "WebPage"
    BY <1>5 DEF WebPageChannelOut
  <1> QED
    BY <1>1, <1>2, <1>3, <1>4, <1>5 DEF ChannelTypes

LEMMA ChannelThere ==
  ASSUME NEW type \in ChannelTypes, NEW before, Proper(type, before), NEW changes,
         Possible(type, changes), Found(type, before, changes),
         NEW u, NEW after, after = After(type, before, changes, u),
         NEW f \in DOMAIN changes, f \notin Untold(type, changes, WireOf(before), u, after)
  PROVE  Shown(type, f, changes, before, after)
  <1>1. /\ ChannelIs(after, type, before, changes) /\ PhonesAre(after, type, before, changes)
        /\ WireOf(before) = before /\ DOMAIN before = ReadSchema(type)
    BY ChannelUpdated
  <1>2. DOMAIN after = ReadSchema(type)
    BY <1>1 DEF ChannelIs
  <1>3. f \in ChannelTypeFields(type) /\ type \notin {"Service", "Organization"}
    BY DEF Possible, Supported, SupportedOrganization, ChannelTypes
  <1>4. CASE f \in Texts
    <2>1. StoredTexts(after, f) = changes[f]
      BY <1>1, <1>4, ChannelTextsThere
    <2> QED
      BY <1>4, <2>1 DEF Shown, Texts, Classifications, Required, Flagged
  <1>5. CASE f \notin Texts
    <2>1. /\ f \in ReadSchema(type) /\ f \notin Classifications
          /\ f \notin {"nameList", "descriptionList", "names", "summaries", "descriptions"}
          /\ f \in {"languages", "accessibility", "signatureQuantity", "phoneNumbers",
                    "publishingStatus", "isVisibleForAll", "requiresSignature",
                    "requiresAuthentication"} \cup FlaggedLists(type) \cup WholeLists(type)
          /\ f \in WholeLists(type) => f \in {"urls", "addresses", "emails"}
          /\ f = "addresses" => type = "ServiceLocation"
      BY <1>3, <1>5, ChannelFieldsSent
    <2>2. PICK now : now = DomainOf(type, WireOf(after))
      OBVIOUS
    <2>3. now[f] = after[f]
      <3>1. WireOf(after) = after
        <4>1. Proper(type, after)
          BY AfterProper DEF Kinds
        <4> QED
          BY <4>1, ChannelUpdated
      <3>2. now = ServiceChannelWireToDomain(after)
        BY <1>3, <2>2, <3>1 DEF DomainOf
      <3> QED
        BY <1>2, <2>1, <3>2 DEF ServiceChannelWireToDomain
    <2>4. PICK proposed : proposed = Merge(DomainOf(type, WireOf(before)), Approved(changes))
      OBVIOUS
    <2>5. /\ proposed["languages"] # {}
          /\ ValidateChannelDetails(proposed, type, DOMAIN changes \cup GivenFields(proposed))
      BY <1>3, <2>4 DEF Found, ValidUpdate, ValidChannel
    <2>6. /\ f # "serviceChannelIds" /\ f \in DOMAIN proposed /\ proposed[f] = changes[f]
      <3>1. f # "serviceChannelIds"
        BY <1>3 DEF ChannelTypeFields, CommonChannelFields, ChannelTypes
      <3> QED
        BY <2>4, <3>1, MergedIs
    <2>7. /\ type = "Phone" /\ f = "phoneNumbers" => changes[f] # {}
          /\ f = "addresses" => changes[f] # {}
      BY <2>1, <2>5, <2>6 DEF ValidateChannelDetails, Touched
    <2>8. f \in {"urls", "emails", "accessibility"} => changes[f] # {}
      BY <1>3 DEF Untold
    <2>9. f = "signatureQuantity" => SignatureSent(changes)
      BY DEF Untold, NotSent, Touched, SignatureSent
    <2>10. after[f] = changes[f]
      <3>1. CASE f \in {"publishingStatus", "isVisibleForAll", "requiresSignature",
                        "requiresAuthentication"} \cup FlaggedLists(type)
        BY <1>1, <2>1, <3>1 DEF ChannelIs, Touched
      <3>2. CASE f \in WholeLists(type)
        <4>1. changes[f] # {}
          BY <2>1, <2>7, <2>8, <3>2
        <4>2. after[f] = Told(before, f, f \in DOMAIN changes, changes[f])
          BY <1>1, <3>2 DEF ChannelIs
        <4> QED
          BY <4>1, <4>2 DEF Told
      <3>3. CASE f = "accessibility"
        BY <1>1, <2>1, <2>8, <3>3 DEF ChannelIs
      <3>4. CASE f = "signatureQuantity"
        BY <1>1, <2>1, <2>9, <3>4 DEF ChannelIs
      <3>5. CASE f = "phoneNumbers"
        BY <1>1, <2>1, <2>7, <3>5 DEF PhonesAre
      <3>6. CASE f = "languages"
        BY <1>1, <2>5, <2>6, <3>6 DEF ChannelIs, Told, Touched
      <3> QED
        BY <2>1, <3>1, <3>2, <3>3, <3>4, <3>5, <3>6
    <2> QED
      BY <1>5, <2>1, <2>2, <2>3, <2>10, Zenon DEF Shown
  <1> QED
    BY <1>4, <1>5

\* The text of a type that an organisation's list has, when the change gives it.
LEMMA OrganizationTextsThere ==
  ASSUME NEW before, Proper("Organization", before), WireOf(before) = before,
         NEW changes, Possible("Organization", changes),
         NEW after, OrganizationIs(after, before, changes),
         NEW u, NEW f \in Texts \cap DOMAIN changes,
         f \notin Untold("Organization", changes, before, u, after)
  PROVE  StoredTexts(after, f) = changes[f]
  <1>1. \A g \in Texts \cap DOMAIN changes : IsText(changes[g])
    BY DEF Possible, IsChange
  <1>2. PICK body : body = OrganizationChangesToV11Body(changes, before)
    OBVIOUS
  <1>3. ~(changes[f] = {} /\ body.set[ListOf(f)] = {})
    BY <1>2 DEF Untold, BodyOf
  <1>4. CASE f \in {"names", "alternativeNames"}
    <2>1. PICK N : N = before["nameList"]
      OBVIOUS
    <2>2. PICK v : v = NamesSent(changes, before)
      OBVIOUS
    <2>3. TextsStay(changes, v, N, "names", "Name", "alternativeNames", "AlternativeName")
      <3>1. v = WithTexts(changes, {}, N, "names", "Name", "alternativeNames", "AlternativeName")
        BY <2>1, <2>2 DEF NamesSent, OrganizationNames, WithTexts
      <3>2. "Name" # "AlternativeName"
        OBVIOUS
      <3>3. "names" \in DOMAIN changes => IsText(changes["names"])
        BY <1>1 DEF Texts
      <3>4. "alternativeNames" \in DOMAIN changes => IsText(changes["alternativeNames"])
        BY <1>1 DEF Texts
      <3>5. \A i \in {} : i[1] \notin {"Name", "AlternativeName"}
        OBVIOUS
      <3> QED
        BY <3>1, <3>2, <3>3, <3>4, <3>5, TextsAgain
    <2>4. NamesTouched(changes) = TRUE
      BY <1>4 DEF NamesTouched
    <2>5. body.set["nameList"] = v
      <3>1. Has(body.set, "nameList", NamesTouched(changes), NamesSent(changes, before))
        BY <1>2, OrganizationBodyHas
      <3> QED
        BY <2>2, <2>4, <3>1 DEF Has
    <2>6. after["nameList"] = Told(before, "nameList", TRUE, v)
      BY <2>2, <2>4 DEF OrganizationIs
    <2>7. ~(changes[f] = {} /\ v = {})
      BY <1>3, <1>4, <2>5 DEF ListOf
    <2>8. CASE f = "names"
      <3>1. ItemsOfType(v, "Name") = changes["names"]
        BY <2>3, <2>8 DEF TextsStay, Touched
      <3>2. ItemsOfType(after["nameList"], "Name") = changes["names"]
        BY <2>6, <2>7, <2>8, <3>1, ListThere, NoTextsIn
      <3> QED
        BY <2>8, <3>2 DEF StoredTexts
    <2>9. CASE f = "alternativeNames"
      <3>1. ItemsOfType(v, "AlternativeName") = changes["alternativeNames"]
        BY <2>3, <2>9 DEF TextsStay, Touched
      <3>2. ItemsOfType(after["nameList"], "AlternativeName") = changes["alternativeNames"]
        BY <2>6, <2>7, <2>9, <3>1, ListThere, NoTextsIn
      <3> QED
        BY <2>9, <3>2 DEF StoredTexts
    <2> QED
      BY <1>4, <2>8, <2>9
  <1>5. CASE f \in {"summaries", "descriptions"}
    <2>1. PICK D : D = before["descriptionList"]
      OBVIOUS
    <2>2. PICK v : v = TextsSent(changes, before)
      OBVIOUS
    <2>3. TextsStay(changes, v, D, "summaries", "Summary", "descriptions", "Description")
      <3>1. v = WithTexts(changes, {}, D, "summaries", "Summary", "descriptions", "Description")
        BY <2>1, <2>2 DEF TextsSent, WithTexts
      <3>2. "Summary" # "Description"
        OBVIOUS
      <3>3. "summaries" \in DOMAIN changes => IsText(changes["summaries"])
        BY <1>1 DEF Texts
      <3>4. "descriptions" \in DOMAIN changes => IsText(changes["descriptions"])
        BY <1>1 DEF Texts
      <3>5. \A i \in {} : i[1] \notin {"Summary", "Description"}
        OBVIOUS
      <3> QED
        BY <3>1, <3>2, <3>3, <3>4, <3>5, TextsAgain
    <2>4. ({"summaries", "descriptions"} \cap DOMAIN changes # {}) = TRUE
      BY <1>5
    <2>5. body.set["descriptionList"] = v
      <3>1. Has(body.set, "descriptionList", {"summaries", "descriptions"} \cap DOMAIN changes # {},
                TextsSent(changes, before))
        BY <1>2, OrganizationBodyHas
      <3> QED
        BY <2>2, <2>4, <3>1 DEF Has
    <2>6. after["descriptionList"] = Told(before, "descriptionList", TRUE, v)
      BY <2>2, <2>4 DEF OrganizationIs
    <2>7. ~(changes[f] = {} /\ v = {})
      BY <1>3, <1>5, <2>5 DEF ListOf
    <2>8. CASE f = "summaries"
      <3>1. ItemsOfType(v, "Summary") = changes["summaries"]
        BY <2>3, <2>8 DEF TextsStay, Touched
      <3>2. ItemsOfType(after["descriptionList"], "Summary") = changes["summaries"]
        BY <2>6, <2>7, <2>8, <3>1, ListThere, NoTextsIn
      <3> QED
        BY <2>8, <3>2 DEF StoredTexts
    <2>9. CASE f = "descriptions"
      <3>1. ItemsOfType(v, "Description") = changes["descriptions"]
        BY <2>3, <2>9 DEF TextsStay, Touched
      <3>2. ItemsOfType(after["descriptionList"], "Description") = changes["descriptions"]
        BY <2>6, <2>7, <2>9, <3>1, ListThere, NoTextsIn
      <3> QED
        BY <2>9, <3>2 DEF StoredTexts
    <2> QED
      BY <1>5, <2>8, <2>9
  <1> QED
    BY <1>4, <1>5 DEF Texts

\* The languages the alternative name is shown in, when there is a name for each.
LEMMA ShownInThere ==
  ASSUME NEW before, Proper("Organization", before), WireOf(before) = before,
         NEW changes, Possible("Organization", changes),
         Found("Organization", before, changes),
         NEW after, OrganizationIs(after, before, changes),
         "alternativeNameShownIn" \in DOMAIN changes,
         "alternativeNameShownIn" \notin NotSent(changes, after)
  PROVE  after["displayNameType"] = changes["alternativeNameShownIn"]
  <1>1. \A g \in Texts \cap DOMAIN changes : IsText(changes[g])
    BY DEF Possible, IsChange
  <1>2. PICK shown : shown = changes["alternativeNameShownIn"]
    OBVIOUS
  <1>3. PICK names : names = OrganizationNames(changes, before).names
    OBVIOUS
  <1>4. PICK others : others = OrganizationNames(changes, before).alternatives
    OBVIOUS
  <1>5. NamesTouched(changes) = TRUE
    BY DEF NamesTouched
  <1>6. after["displayNameType"] = (shown \cap LanguagesIn(others)) \cap LanguagesIn(names)
    BY <1>2, <1>3, <1>4, <1>5 DEF OrganizationIs, ShownIn, Touched
  <1>7. shown \subseteq LanguagesIn(others)
    <2>1. PICK old : old = DomainOf("Organization", WireOf(before))
      OBVIOUS
    <2>2. PICK proposed : proposed = Merge(old, Approved(changes))
      OBVIOUS
    <2>3. /\ "alternativeNames" \in DOMAIN old
          /\ old["alternativeNames"] = ItemsOfType(before["nameList"], "AlternativeName")
      BY <2>1 DEF DomainOf, OrganizationWireToDomain
    <2>4. Touched(proposed, "alternativeNames", {}) = others
      <3>1. CASE "alternativeNames" \in DOMAIN changes
        <4>1. /\ "alternativeNames" \in DOMAIN proposed
              /\ proposed["alternativeNames"] = changes["alternativeNames"]
          BY <2>2, <3>1, MergedIs
        <4> QED
          BY <1>4, <3>1, <4>1 DEF Touched, OrganizationNames
      <3>2. CASE "alternativeNames" \notin DOMAIN changes
        <4>1. /\ "alternativeNames" \in DOMAIN proposed
              /\ proposed["alternativeNames"] = old["alternativeNames"]
          BY <2>2, <2>3, <3>2, MergedIs
        <4> QED
          BY <1>4, <2>3, <3>2, <4>1 DEF Touched, OrganizationNames
      <3> QED
        BY <3>1, <3>2
    <2>5. Touched(proposed, "alternativeNameShownIn", {}) = shown
      <3>1. /\ "alternativeNameShownIn" \in DOMAIN proposed
            /\ proposed["alternativeNameShownIn"] = changes["alternativeNameShownIn"]
        BY <2>2, MergedIs
      <3> QED
        BY <1>2, <3>1 DEF Touched
    <2>6. ValidOrganization(proposed)
      BY <2>1, <2>2 DEF Found, ValidUpdate
    <2> QED
      BY <2>4, <2>5, <2>6 DEF ValidOrganization
  <1>8. shown \subseteq LanguagesIn(ItemsOfType(after["nameList"], "Name"))
    BY <1>2 DEF NotSent
  <1>9. PICK v : v = NamesSent(changes, before)
    OBVIOUS
  <1>10. after["nameList"] = Told(before, "nameList", TRUE, v)
    BY <1>5, <1>9 DEF OrganizationIs
  <1>11. v = TextToItems(names, "Name") \cup TextToItems(others, "AlternativeName")
    BY <1>3, <1>4, <1>9 DEF NamesSent
  <1>12. CASE v = {}
    <2>1. others = {}
      BY <1>11, <1>12 DEF TextToItems
    <2>2. shown = {}
      BY <1>7, <2>1 DEF LanguagesIn
    <2> QED
      BY <1>2, <1>6, <2>2
  <1>13. CASE v # {}
    <2>1. IsText(names)
      BY <1>1, <1>3, ItemsAreText DEF OrganizationNames, Touched, Texts
    <2>2. PICK rest : rest = TextToItems(others, "AlternativeName")
      OBVIOUS
    <2>3. \A i \in rest : i[1] # "Name"
      BY <2>2 DEF TextToItems
    <2>4. v = rest \cup TextToItems(names, "Name")
      BY <1>11, <2>2
    <2>5. ItemsOfType(v, "Name") = names
      BY <2>1, <2>3, <2>4, TextsOf
    <2>6. after["nameList"] = v
      BY <1>10, <1>13, ListThere
    <2> QED
      BY <1>2, <1>6, <1>7, <1>8, <2>5, <2>6
  <1> QED
    BY <1>12, <1>13

LEMMA OrganizationThere ==
  ASSUME NEW before, Proper("Organization", before), NEW changes, Possible("Organization", changes),
         Found("Organization", before, changes),
         NEW u, NEW after, after = After("Organization", before, changes, u),
         NEW f \in DOMAIN changes,
         f \notin Untold("Organization", changes, WireOf(before), u, after)
  PROVE  Shown("Organization", f, changes, before, after)
  <1>1. OrganizationIs(after, before, changes)
    BY OrganizationUpdated
  <1>2. WireOf(before) = before
    BY OrganizationProper
  <1>3. DOMAIN after = OrganizationOut /\ WireOf(after) = after
    <2>1. Proper("Organization", after)
      BY AfterProper DEF Kinds
    <2> QED
      BY <2>1, OrganizationProper
  <1>4. f \in OrganizationFields
    BY DEF Possible, Supported, SupportedOrganization, ChannelTypes
  <1>5. CASE f \in Texts
    <2>1. StoredTexts(after, f) = changes[f]
      BY <1>1, <1>2, <1>5, OrganizationTextsThere
    <2> QED
      BY <1>5, <2>1 DEF Shown, Texts, Classifications, Required, Flagged
  <1>6. CASE f \notin Texts
    <2>1. /\ f \in {"publishingStatus", "businessCode", "alternativeNameShownIn"} \cup ContactFields
          /\ f \notin Classifications
      BY <1>4, <1>6 DEF OrganizationFields, Texts, Classifications, Required, Flagged, ContactFields
    <2>2. PICK now : now = DomainOf("Organization", WireOf(after))
      OBVIOUS
    <2>3. now = OrganizationWireToDomain(after)
      BY <1>3, <2>2 DEF DomainOf
    <2>4. now[f] = changes[f]
      <3>1. CASE f = "alternativeNameShownIn"
        <4>1. now[f] = after["displayNameType"]
          BY <2>3, <3>1 DEF OrganizationWireToDomain
        <4>2. f \notin NotSent(changes, after)
          BY DEF Untold
        <4> QED
          BY <1>1, <1>2, <3>1, <4>1, <4>2, ShownInThere
      <3>2. CASE f # "alternativeNameShownIn"
        <4>1. now[f] = after[f]
          BY <1>3, <1>6, <2>1, <2>3, <3>2
             DEF OrganizationWireToDomain, OrganizationOut, ItemTexts, ContactFields, Texts
        <4>2. after[f] = changes[f]
          BY <1>1, <2>1, <3>2 DEF OrganizationIs, Touched
        <4> QED
          BY <4>1, <4>2
      <3> QED
        BY <3>1, <3>2
    <2> QED
      BY <1>6, <2>1, <2>2, <2>4, Zenon DEF Shown
  <1> QED
    BY <1>5, <1>6

LEMMA UpdateThere ==
  ASSUME NEW k \in Kinds, NEW before, Proper(k, before), NEW changes, Possible(k, changes),
         Found(k, before, changes), NEW u, k = "Service" => u \in {{}, UrisOf(k, before)},
         NEW after, after = After(k, before, changes, u),
         NEW f \in DOMAIN changes, f # "serviceChannelIds",
         f \notin Untold(k, changes, WireOf(before), u, after)
  PROVE  Shown(k, f, changes, before, after)
  <1>1. CASE k = "Service"
    BY <1>1, ServiceThere
  <1>2. CASE k = "Organization"
    BY <1>2, OrganizationThere
  <1>3. CASE k \in ChannelTypes
    BY <1>3, ChannelThere
  <1> QED
    BY <1>1, <1>2, <1>3 DEF Kinds

\* What was approved, as the property has it.
Holds(k, f, changes, before, after, all) ==
  LET now == DomainOf(k, WireOf(after))
  IN  CASE f = "serviceChannelIds" -> DOMAIN all = changes[f]
        [] f \in Texts -> StoredTexts(after, f) = changes[f]
        [] f \in Classifications ->
             /\ changes[f] \ Lost(before, after) \subseteq now[f]
             /\ now[f] \subseteq changes[f] \cup Brought(after, f)
        [] OTHER -> now[f] = changes[f]

LEMMA ShownHolds ==
  ASSUME NEW k, NEW changes, NEW f \in DOMAIN changes, NEW before, NEW after, NEW all,
         f = "serviceChannelIds" => DOMAIN all = changes[f],
         f # "serviceChannelIds" => Shown(k, f, changes, before, after)
  PROVE  Holds(k, f, changes, before, after, all)
  <1>1. Texts \cap Classifications = {} /\ "serviceChannelIds" \notin Texts \cup Classifications
    BY DEF Texts, Classifications, Required, Flagged
  <1>2. PICK now : now = DomainOf(k, WireOf(after))
    OBVIOUS
  <1>3. CASE f = "serviceChannelIds"
    BY <1>1, <1>3 DEF Holds
  <1>4. CASE f \in Texts
    BY <1>1, <1>4 DEF Holds, Shown
  <1>5. CASE f \in Classifications
    <2>1. /\ changes[f] \ Lost(before, after) \subseteq now[f]
          /\ now[f] \subseteq changes[f] \cup Brought(after, f)
      BY <1>1, <1>2, <1>5, Zenon DEF Shown
    <2> QED
      BY <1>1, <1>2, <1>5, <2>1, Zenon DEF Holds
  <1>6. CASE f # "serviceChannelIds" /\ f \notin Texts \cup Classifications
    <2>1. now[f] = changes[f]
      BY <1>2, <1>6, Zenon DEF Shown
    <2> QED
      BY <1>2, <1>6, <2>1, Zenon DEF Holds
  <1> QED
    BY <1>3, <1>4, <1>5, <1>6

LEMMA JoinedAll ==
  ASSUME NEW from, NEW changes, "serviceChannelIds" \in DOMAIN changes
  PROVE  DOMAIN Joined(from, changes) = changes["serviceChannelIds"]
  <1> DEFINE ids == changes["serviceChannelIds"]
             plan == PlanServiceConnections(from, ids)
  <1>1. CASE ids = DOMAIN from
    BY <1>1 DEF Joined, PlanServiceConnections
  <1>2. CASE ids # DOMAIN from
    <2>1. plan.changes = TRUE /\ DOMAIN plan.relations = ids
      BY <1>2 DEF PlanServiceConnections
    <2> HIDE DEF plan
    <2>2. Joined(from, changes) = PutConnections(plan.relations)
      BY <2>1 DEF Joined, plan
    <2> QED
      BY <2>1, <2>2 DEF PutConnections
  <1> QED
    BY <1>1, <1>2

LEMMA ApprovedIsThere == WroteInv => ApprovedIsInPtv
  <1> SUFFICES ASSUME WroteInv, NEW c \in Call, Updated(c),
                      NEW f \in DOMAIN call[c].changes \ CannotBeTold(c)
               PROVE  Holds(kind, f, call[c].changes, call[c].before, item, connections)
    BY Zenon DEF ApprovedIsInPtv, Holds, Lost, Brought
  <1>1. /\ Wrote(call[c], kind, item, connections) /\ kind \in Kinds
        /\ call[c].alone \in BOOLEAN
    BY DEF WroteInv, AllWrote, Inv, AllTold, Versions, AllPlaced, Placed
  <1>2. call[c].pc = "done" /\ call[c].alone = TRUE /\ Updates(call[c])
    BY <1>1 DEF Updated, Updates, Reached
  <1>3. PICK changes, before, relations, wire, uris :
          /\ changes = call[c].changes /\ before = call[c].before
          /\ relations = call[c].relations /\ wire = call[c].wire /\ uris = call[c].uris
    OBVIOUS
  <1>4. /\ Possible(kind, changes) /\ Proper(kind, before) /\ Found(kind, before, changes)
        /\ wire = WireOf(before) /\ item = After(kind, before, changes, uris)
        /\ connections = Joined(relations, changes)
    BY <1>1, <1>2, <1>3 DEF Wrote
  <1>5. CannotBeTold(c) = Untold(kind, changes, WireOf(before), uris, item)
    BY <1>3, <1>4, Zenon DEF CannotBeTold, Untold
  <1>a. kind = "Service" => uris \in {{}, UrisOf(kind, before)}
    BY <1>3, <1>4 DEF WroteInv, Inv, AllPlaced, Placed, UrisOf
  <1>6. f = "serviceChannelIds" => DOMAIN connections = changes[f]
    BY <1>3, <1>4, JoinedAll
  <1>7. f # "serviceChannelIds" => Shown(kind, f, changes, before, item)
    BY <1>1, <1>3, <1>4, <1>5, <1>a, UpdateThere
  <1> QED
    BY <1>3, <1>6, <1>7, ShownHolds

-----------------------------------------------------------------------------
(* A new item is what was proposed.                                         *)

\* The object has the field, with this value.
Gives(object, x, v) == x \in DOMAIN object /\ object[x] = v

LEMMA FirstGives ==
  ASSUME NEW f, NEW g, NEW x, NEW v, Gives(f, x, v)
  PROVE  Gives(f @@ g, x, v)
  BY DEF Gives, @@

LEMMA SecondGives ==
  ASSUME NEW f, NEW g, NEW x, NEW v, x \notin DOMAIN f, Gives(g, x, v)
  PROVE  Gives(f @@ g, x, v)
  BY DEF Gives, @@

LEMMA OneGives ==
  ASSUME NEW x, NEW v
  PROVE  Gives(x :> v, x, v) /\ \A y : y # x => y \notin DOMAIN (x :> v)
  BY DEF Gives, :>

LEMMA NeitherHas ==
  ASSUME NEW f, NEW g, NEW x, x \notin DOMAIN f, x \notin DOMAIN g
  PROVE  x \notin DOMAIN (f @@ g)
  BY DEF @@

LEMMA OptionalHasNot ==
  ASSUME NEW b, NEW x, NEW v, NEW y, y # x
  PROVE  y \notin DOMAIN OnlyIf(b, x :> v)
  BY DEF OnlyIf, :>

\* What a new item's POST gives, PTV has, but for the numbers.
LEMMA PostGives ==
  ASSUME NEW k, NEW body, NEW f \in ReadSchema(k) \cap WriteSchema(k).takes, f # "phoneNumbers",
         NEW v, Gives(body, f, v)
  PROVE  Post(k, body)[f] = v
  <1> DEFINE sent == [set |-> body, clear |-> {}]
  <1>1. Has(sent.set, f, TRUE, v)
    BY DEF Gives, Has
  <1>2. f \notin sent.clear
    OBVIOUS
  <1>3. PICK none : none = EmptyItem(k)
    OBVIOUS
  <1>4. f \in DOMAIN none /\ none[f] = {}
    BY <1>3 DEF EmptyItem
  <1> HIDE DEF sent
  <1>5. Put(none, sent, WriteSchema(k))[f] = Told(none, f, TRUE, v)
    <2>1. PICK to, schema : to = sent /\ schema = WriteSchema(k)
      OBVIOUS
    <2>2. /\ f \in schema.takes /\ ~(f \in to.clear /\ f \in schema.clears)
          /\ Has(to.set, f, TRUE, v)
      BY <1>1, <1>2, <2>1
    <2>3. Put(none, to, schema)[f] = Told(none, f, TRUE, v)
      <3>1. \A b, w : Has(to.set, f, b, w) /\ f \in schema.takes =>
              Put(none, to, schema)[f] = Told(none, f, b, w)
        BY <1>4, <2>2, PutTold
      <3> QED
        BY <2>2, <3>1
    <2> QED
      BY <2>1, <2>3
  <1> QED
    BY <1>3, <1>4, <1>5 DEF Told, Post, sent

\* The numbers a new channel of a list without types has.
LEMMA PostPhones ==
  ASSUME NEW k, "phoneNumbers" \in ReadSchema(k),
         WriteSchema(k).typed = FALSE, "phoneNumbers" \in WriteSchema(k).takes,
         NEW body, NEW phones, PlainPhones(phones),
         phones \ Faxes(phones) # {} => Gives(body, "phoneNumbers", phones \ Faxes(phones)),
         phones \ Faxes(phones) = {} => "phoneNumbers" \notin DOMAIN body,
         Faxes(phones) # {} => Gives(body, "faxNumbers", Faxes(phones))
                               /\ "faxNumbers" \in WriteSchema(k).takes,
         Faxes(phones) = {} => "faxNumbers" \notin DOMAIN body
  PROVE  Post(k, body)["phoneNumbers"] = phones
  <1> DEFINE sent == [set |-> body, clear |-> {}]
             told == Accepted(sent, WriteSchema(k))
             numbers == phones \ Faxes(phones)
             faxes == Faxes(phones)
  <1>1. /\ told.set = [f \in DOMAIN body \cap WriteSchema(k).takes |-> body[f]]
        /\ told.clear = {}
    BY DEF Accepted
  <1>2. PICK none : none = EmptyItem(k)
    OBVIOUS
  <1>3. "phoneNumbers" \in DOMAIN none /\ none["phoneNumbers"] = {}
    BY <1>2 DEF EmptyItem
  <1>4. Post(k, body)["phoneNumbers"] = PutPhones({}, told, FALSE)
    BY <1>2, <1>3, PhonesTold DEF Post
  <1>5. faxes \subseteq phones /\ Faxes({}) = {}
    BY DEF Faxes
  <1>6. {<<"Phone", p[2]>> : p \in numbers} = numbers
    <2>1. \A p \in numbers : p = <<"Phone", p[2]>>
      BY DEF PlainPhones, Faxes
    <2> QED
      BY <2>1
  <1>7. /\ "phoneNumbers" \in DOMAIN told.set <=> numbers # {}
        /\ "phoneNumbers" \in DOMAIN told.set => told.set["phoneNumbers"] = numbers
        /\ "faxNumbers" \in DOMAIN told.set <=> faxes # {}
        /\ "faxNumbers" \in DOMAIN told.set => told.set["faxNumbers"] = faxes
    BY <1>1 DEF Gives
  <1> HIDE DEF told, numbers, faxes
  <1>8. PutPhones({}, told, FALSE) = numbers \cup faxes
    BY <1>1, <1>5, <1>6, <1>7 DEF PutPhones
  <1>9. numbers \cup faxes = phones
    BY <1>5 DEF numbers, faxes
  <1> QED
    BY <1>4, <1>8, <1>9

-----------------------------------------------------------------------------
(* What is proposed.                                                        *)

LEMMA MadeOf ==
  ASSUME NEW k \in Kinds, NEW changes \in NewItems[k], NEW new, new = Normalize(k, changes)
  PROVE  /\ {"names", "summaries", "descriptions", "publishingStatus"} \subseteq DOMAIN new
         /\ k = "Service" => Classifications \cup {"languages", "generalDescriptionId", "type"}
                               \subseteq DOMAIN new
         /\ k \in ChannelTypes => {"languages", "isVisibleForAll"} \subseteq DOMAIN new
         /\ \A f \in GivenFields(new) : f \in NewFields(k) /\ IsChange(k, f, new[f])
  <1>1. \A f \in DOMAIN changes : f \in NewFields(k) /\ IsChange(k, f, changes[f])
    BY WritesAssumption
  <1>2. CASE k = "Service"
    <2>1. new = (((changes @@ NoTexts)
                   @@ [f \in Classifications \cup {"languages", "generalDescriptionId"} |-> {}])
                   @@ ("type" :> {"Service"})) @@ ("publishingStatus" :> {"Draft"})
      BY <1>2 DEF Normalize, NormalizeNewService
    <2>2. /\ DOMAIN new = DOMAIN changes \cup {"names", "summaries", "descriptions"}
                            \cup Classifications \cup {"languages", "generalDescriptionId"}
                            \cup {"type", "publishingStatus"}
          /\ \A f \in DOMAIN changes : new[f] = changes[f]
          /\ \A f \in DOMAIN new \ DOMAIN changes :
               f \notin {"type", "publishingStatus"} => new[f] = {}
      BY <2>1 DEF @@, :>, NoTexts
    <2>3. \A f \in {"type", "publishingStatus"} : f \in NewFields(k) /\ \A v : IsChange(k, f, v)
      BY <1>2 DEF NewFields, ServiceFields, IsChange, Texts, Classifications, Required, Flagged
    <2> QED
      BY <1>1, <1>2, <2>2, <2>3 DEF GivenFields, ChannelTypes
  <1>3. CASE k = "Organization"
    <2>1. new = (changes @@ NoTexts) @@ ("publishingStatus" :> {"Draft"})
      BY <1>3 DEF Normalize, NormalizeNewOrganization
    <2>2. /\ DOMAIN new = DOMAIN changes \cup {"names", "summaries", "descriptions"}
                            \cup {"publishingStatus"}
          /\ \A f \in DOMAIN changes : new[f] = changes[f]
          /\ \A f \in DOMAIN new \ DOMAIN changes : f # "publishingStatus" => new[f] = {}
      BY <2>1 DEF @@, :>, NoTexts
    <2>3. "publishingStatus" \in NewFields(k) /\ \A v : IsChange(k, "publishingStatus", v)
      BY <1>3 DEF NewFields, OrganizationFields, IsChange, Texts
    <2> QED
      BY <1>1, <1>3, <2>2, <2>3 DEF GivenFields, ChannelTypes
  <1>4. CASE k \in ChannelTypes
    <2>0. k \notin {"Service", "Organization"}
      BY <1>4 DEF ChannelTypes
    <2>1. new = (((changes @@ NoTexts) @@ ("languages" :> {})) @@ ("isVisibleForAll" :> {"yes"}))
                  @@ ("publishingStatus" :> {"Draft"})
      BY <2>0 DEF Normalize, NormalizeNewChannel
    <2>2. /\ DOMAIN new = DOMAIN changes \cup {"names", "summaries", "descriptions"}
                            \cup {"languages", "isVisibleForAll", "publishingStatus"}
          /\ \A f \in DOMAIN changes : new[f] = changes[f]
          /\ \A f \in DOMAIN new \ DOMAIN changes :
               f \notin {"isVisibleForAll", "publishingStatus"} => new[f] = {}
      BY <2>1 DEF @@, :>, NoTexts
    <2>3. \A f \in {"isVisibleForAll", "publishingStatus"} :
             f \in NewFields(k) /\ \A v : IsChange(k, f, v)
      BY <2>0 DEF NewFields, ChannelTypeFields, CommonChannelFields, IsChange, Texts
    <2> QED
      BY <1>1, <2>0, <2>2, <2>3 DEF GivenFields
  <1> QED
    BY <1>2, <1>3, <1>4 DEF Kinds

\* A list of the texts of two types.
LEMMA TwoTexts ==
  ASSUME NEW a, NEW b, IsText(a), IsText(b), NEW t, NEW u, t # u,
         NEW v, v = TextToItems(a, t) \cup TextToItems(b, u)
  PROVE  ItemsOfType(v, t) = a /\ ItemsOfType(v, u) = b
  <1>1. PICK A, B : A = TextToItems(a, t) /\ B = TextToItems(b, u)
    OBVIOUS
  <1>2. (\A i \in A : i[1] # u) /\ (\A i \in B : i[1] # t)
    BY <1>1, ItemsTyped
  <1>3. v = A \cup TextToItems(b, u) /\ v = B \cup TextToItems(a, t)
    BY <1>1
  <1>4. ItemsOfType(v, u) = b
    BY <1>2, <1>3, TextsOf
  <1>5. ItemsOfType(v, t) = a
    BY <1>2, <1>3, TextsOf
  <1> QED
    BY <1>4, <1>5

\* The two lists of a new item.
TextsAre(stored, new) ==
  /\ stored["nameList"] = TextToItems(new["names"], "Name")
                            \cup TextToItems(Touched(new, "alternativeNames", {}), "AlternativeName")
  /\ stored["descriptionList"] = TextToItems(new["summaries"], "Summary")
                                   \cup TextToItems(new["descriptions"], "Description")

AreTexts(new) == \A f \in Texts \cap DOMAIN new : IsText(new[f])

LEMMA TextsMade ==
  ASSUME NEW new, {"names", "summaries", "descriptions"} \subseteq DOMAIN new, AreTexts(new),
         NEW stored, TextsAre(stored, new), NEW f \in Texts \cap DOMAIN new
  PROVE  StoredTexts(stored, f) = new[f]
  <1>1. PICK names, others, summaries, descriptions :
          /\ names = new["names"] /\ others = Touched(new, "alternativeNames", {})
          /\ summaries = new["summaries"] /\ descriptions = new["descriptions"]
    OBVIOUS
  <1>2. IsText(names) /\ IsText(others) /\ IsText(summaries) /\ IsText(descriptions)
    BY <1>1 DEF AreTexts, Texts, Touched, IsText
  <1>3. PICK N, D : N = stored["nameList"] /\ D = stored["descriptionList"]
    OBVIOUS
  <1>4. /\ N = TextToItems(names, "Name") \cup TextToItems(others, "AlternativeName")
        /\ D = TextToItems(summaries, "Summary") \cup TextToItems(descriptions, "Description")
    BY <1>1, <1>3 DEF TextsAre
  <1>5. "Name" # "AlternativeName" /\ "Summary" # "Description"
    OBVIOUS
  <1>6. ItemsOfType(N, "Name") = names /\ ItemsOfType(N, "AlternativeName") = others
    BY <1>2, <1>4, <1>5, TwoTexts
  <1>7. ItemsOfType(D, "Summary") = summaries /\ ItemsOfType(D, "Description") = descriptions
    BY <1>2, <1>4, <1>5, TwoTexts
  <1>8. CASE f = "names"
    BY <1>1, <1>3, <1>6, <1>8 DEF StoredTexts
  <1>9. CASE f = "alternativeNames"
    BY <1>1, <1>3, <1>6, <1>9 DEF StoredTexts, Touched
  <1>10. CASE f = "summaries"
    BY <1>1, <1>3, <1>7, <1>10 DEF StoredTexts
  <1>11. CASE f = "descriptions"
    BY <1>1, <1>3, <1>7, <1>11 DEF StoredTexts
  <1> QED
    BY <1>8, <1>9, <1>10, <1>11 DEF Texts

LEMMA NewTextsGive ==
  ASSUME NEW new
  PROVE  /\ Gives(NewTexts(new), "publishingStatus", new["publishingStatus"])
         /\ Gives(NewTexts(new), "descriptionList", TextToItems(new["summaries"], "Summary")
                                                 \cup TextToItems(new["descriptions"], "Description"))
         /\ DOMAIN NewTexts(new) = {"publishingStatus", "descriptionList"}
  BY DEF NewTexts, Gives, @@, :>

\* A new item as the property has it.
AsProposed(k, new, stored) ==
  LET now == DomainOf(k, stored)
      given == GivenFields(new) \ ({"accessibility"} \cup NotSent(new, stored))
  IN  /\ \A f \in given \cap Texts : StoredTexts(stored, f) = new[f]
      /\ \A f \in given \ Texts : now[f] = new[f]

LEMMA ServiceMade ==
  ASSUME NEW new, {"names", "summaries", "descriptions", "publishingStatus"} \subseteq DOMAIN new,
         Classifications \cup {"languages", "generalDescriptionId", "type"} \subseteq DOMAIN new,
         AreTexts(new), \A f \in GivenFields(new) : f \in NewFields("Service"),
         NEW stored, stored = Post("Service", NewServiceToV11Body(new))
  PROVE  AsProposed("Service", new, stored)
  <1> DEFINE lists == [f \in Classifications \cup {"type", "languages"} |-> new[f]]
             names == "nameList" :> TextToItems(new.names, "Name")
             link == OnlyIf(new.generalDescriptionId # {},
                            "generalDescriptionId" :> new.generalDescriptionId)
             body == NewServiceToV11Body(new)
  <1>1. PICK p1, p2, p3, p4 : p1 = NewTexts(new) /\ p2 = names /\ p3 = lists /\ p4 = link
    OBVIOUS
  <1>2. PICK b : b = ((p1 @@ p2) @@ p3) @@ p4
    OBVIOUS
  <1>3. b = body
    BY <1>1, <1>2, Zenon DEF NewServiceToV11Body
  <1>4. /\ Gives(p1, "publishingStatus", new["publishingStatus"])
        /\ Gives(p1, "descriptionList", TextToItems(new["summaries"], "Summary")
                                          \cup TextToItems(new["descriptions"], "Description"))
        /\ DOMAIN p1 = {"publishingStatus", "descriptionList"}
    BY <1>1, NewTextsGive
  <1>5. Gives(p2, "nameList", TextToItems(new["names"], "Name")) /\ DOMAIN p2 = {"nameList"}
    BY <1>1 DEF Gives, :>
  <1>6. DOMAIN p3 = Classifications \cup {"type", "languages"} /\ \A f \in DOMAIN p3 : p3[f] = new[f]
    BY <1>1
  <1>7. ReadSchema("Service") = ServiceOut /\ ServiceOut \subseteq WriteSchema("Service").takes
        /\ "phoneNumbers" \notin ServiceOut
    BY DEF ReadSchema, WriteSchema, ServiceInBase, ServiceOut, ItemTexts, Classifications,
           Required, Flagged
  <1>8. ServiceOut = {"publishingStatus", "descriptionList", "nameList"} \cup Classifications
                       \cup {"type", "languages", "generalDescriptionId"}
        /\ Classifications \cap {"publishingStatus", "descriptionList", "nameList", "type",
                                 "languages", "generalDescriptionId"} = {}
    BY DEF ServiceOut, ItemTexts, Classifications, Required, Flagged
  <1>9. Gives(b, "publishingStatus", new["publishingStatus"])
    BY <1>2, <1>4, FirstGives
  <1>10. Gives(b, "descriptionList", TextToItems(new["summaries"], "Summary")
                                       \cup TextToItems(new["descriptions"], "Description"))
    BY <1>2, <1>4, FirstGives
  <1>11. Gives(b, "nameList", TextToItems(new["names"], "Name"))
    <2>1. Gives(p1 @@ p2, "nameList", TextToItems(new["names"], "Name"))
      BY <1>4, <1>5, SecondGives
    <2> QED
      BY <1>2, <2>1, FirstGives
  <1>12. ASSUME NEW f \in Classifications \cup {"type", "languages"} PROVE Gives(b, f, new[f])
    <2>1. f \notin DOMAIN (p1 @@ p2)
      BY <1>4, <1>5, <1>8, NeitherHas
    <2>2. Gives(p3, f, new[f])
      BY <1>6 DEF Gives
    <2>3. Gives((p1 @@ p2) @@ p3, f, new[f])
      BY <2>1, <2>2, SecondGives
    <2> QED
      BY <1>2, <2>3, FirstGives
  <1>13. ASSUME new["generalDescriptionId"] # {}
         PROVE  Gives(b, "generalDescriptionId", new["generalDescriptionId"])
    <2>1. "generalDescriptionId" \notin DOMAIN ((p1 @@ p2) @@ p3)
      <3>1. "generalDescriptionId" \notin DOMAIN (p1 @@ p2)
        BY <1>4, <1>5, NeitherHas
      <3> QED
        BY <1>6, <1>8, <3>1, NeitherHas
    <2>2. Gives(p4, "generalDescriptionId", new["generalDescriptionId"])
      BY <1>1, <1>13 DEF OnlyIf, Gives, :>
    <2> QED
      BY <1>2, <2>1, <2>2, SecondGives
  <1> HIDE DEF names, lists, link, body
  <1>14. stored = Post("Service", b)
    BY <1>3 DEF body
  <1>15. ASSUME NEW f \in ServiceOut, NEW v, Gives(b, f, v) PROVE stored[f] = v
    BY <1>7, <1>14, <1>15, PostGives
  <1>16. TextsAre(stored, new)
    <2>1. TextToItems(Touched(new, "alternativeNames", {}), "AlternativeName") = {}
      <3>1. Touched(new, "alternativeNames", {}) = {}
        BY DEF Touched, GivenFields, NewFields, ServiceFields, Classifications, Required, Flagged
      <3> QED
        BY <3>1 DEF TextToItems
    <2>2. stored["nameList"] = TextToItems(new["names"], "Name")
      BY <1>8, <1>11, <1>15
    <2>3. stored["descriptionList"] = TextToItems(new["summaries"], "Summary")
                                       \cup TextToItems(new["descriptions"], "Description")
      BY <1>8, <1>10, <1>15
    <2> QED
      BY <2>1, <2>2, <2>3 DEF TextsAre
  <1>17. ASSUME NEW f \in GivenFields(new) \ Texts PROVE DomainOf("Service", stored)[f] = new[f]
    <2>1. /\ f \in Classifications \cup {"languages", "publishingStatus", "type", "generalDescriptionId"}
          /\ f \in ServiceOut \ {"nameList", "descriptionList"}
          /\ f \notin {"names", "summaries", "descriptions"}
      BY <1>8, <1>17 DEF NewFields, ServiceFields, Texts
    <2>2. Gives(b, f, new[f])
      BY <1>9, <1>12, <1>13, <1>17, <2>1 DEF GivenFields
    <2>3. stored[f] = new[f]
      BY <1>15, <2>1, <2>2
    <2>4. DOMAIN stored = ServiceOut
      BY <1>7, <1>14 DEF Post, Put, EmptyItem
    <2>5. DomainOf("Service", stored) = ServiceWireToDomain(stored)
      BY DEF DomainOf
    <2> QED
      BY <2>1, <2>3, <2>4, <2>5 DEF ServiceWireToDomain
  <1>18. ASSUME NEW f \in GivenFields(new) \cap Texts PROVE StoredTexts(stored, f) = new[f]
    <2>1. f \in Texts \cap DOMAIN new
      BY DEF GivenFields
    <2> QED
      BY <1>16, <2>1, TextsMade
  <1> QED
    BY <1>17, <1>18, Zenon DEF AsProposed

LEMMA OrganizationMade ==
  ASSUME NEW new, {"names", "summaries", "descriptions", "publishingStatus"} \subseteq DOMAIN new,
         AreTexts(new), ValidOrganization(new),
         \A f \in GivenFields(new) : f \in OrganizationFields /\ IsChange("Organization", f, new[f]),
         NEW stored, stored = Post("Organization", NewOrganizationToV11Body(new))
  PROVE  AsProposed("Organization", new, stored)
  <1> DEFINE alternatives == Touched(new, "alternativeNames", {})
             names == "nameList" :> (TextToItems(new.names, "Name")
                                       \cup TextToItems(alternatives, "AlternativeName"))
             shown == "displayNameType" :> ((Touched(new, "alternativeNameShownIn", {})
                                               \cap LanguagesIn(alternatives))
                                              \cap LanguagesIn(new.names))
             rest == [f \in GivenFields(new) \cap ({"businessCode"} \cup ContactFields) |-> new[f]]
             body == NewOrganizationToV11Body(new)
  <1>1. PICK p1, p2, p3, p4 : p1 = NewTexts(new) /\ p2 = names /\ p3 = shown /\ p4 = rest
    OBVIOUS
  <1>2. PICK b : b = ((p1 @@ p2) @@ p3) @@ p4
    OBVIOUS
  <1>3. b = body
    BY <1>1, <1>2, Zenon DEF NewOrganizationToV11Body
  <1>4. PICK N : N = TextToItems(new["names"], "Name")
                       \cup TextToItems(Touched(new, "alternativeNames", {}), "AlternativeName")
    OBVIOUS
  <1>5. PICK D : D = TextToItems(new["summaries"], "Summary")
                       \cup TextToItems(new["descriptions"], "Description")
    OBVIOUS
  <1>6. PICK S : S = (Touched(new, "alternativeNameShownIn", {})
                        \cap LanguagesIn(Touched(new, "alternativeNames", {})))
                       \cap LanguagesIn(new["names"])
    OBVIOUS
  <1>7. /\ Gives(p1, "publishingStatus", new["publishingStatus"])
        /\ Gives(p1, "descriptionList", D)
        /\ DOMAIN p1 = {"publishingStatus", "descriptionList"}
    BY <1>1, <1>5, NewTextsGive
  <1>8. Gives(p2, "nameList", N) /\ DOMAIN p2 = {"nameList"}
    BY <1>1, <1>4 DEF Gives, :>
  <1>9. Gives(p3, "displayNameType", S) /\ DOMAIN p3 = {"displayNameType"}
    BY <1>1, <1>6 DEF Gives, :>
  <1>10. /\ DOMAIN p4 = GivenFields(new) \cap ({"businessCode"} \cup ContactFields)
         /\ \A f \in DOMAIN p4 : p4[f] = new[f]
    BY <1>1
  <1>11. /\ ReadSchema("Organization") = OrganizationOut
         /\ OrganizationOut \subseteq WriteSchema("Organization").takes
         /\ WriteSchema("Organization").typed = FALSE
    BY DEF ReadSchema, WriteSchema, OrganizationInBase, OrganizationOut, ItemTexts
  <1>12. OrganizationOut = {"publishingStatus", "descriptionList", "nameList", "displayNameType",
                            "businessCode"} \cup ContactFields
         /\ ContactFields \cap {"publishingStatus", "descriptionList", "nameList", "displayNameType",
                                "businessCode", "faxNumbers"} = {}
         /\ "phoneNumbers" \in ContactFields
    BY DEF OrganizationOut, ItemTexts, ContactFields
  <1>13. Gives(b, "publishingStatus", new["publishingStatus"])
    BY <1>2, <1>7, FirstGives
  <1>14. Gives(b, "descriptionList", D)
    BY <1>2, <1>7, FirstGives
  <1>15. Gives(b, "nameList", N)
    <2>1. Gives(p1 @@ p2, "nameList", N)
      BY <1>7, <1>8, SecondGives
    <2> QED
      BY <1>2, <2>1, FirstGives
  <1>16. Gives(b, "displayNameType", S)
    <2>1. "displayNameType" \notin DOMAIN (p1 @@ p2)
      BY <1>7, <1>8, NeitherHas
    <2>2. Gives((p1 @@ p2) @@ p3, "displayNameType", S)
      BY <1>9, <2>1, SecondGives
    <2> QED
      BY <1>2, <2>2, FirstGives
  <1>17. ASSUME NEW f, f \notin {"publishingStatus", "descriptionList", "nameList", "displayNameType"}
         PROVE  f \notin DOMAIN ((p1 @@ p2) @@ p3)
    <2>1. f \notin DOMAIN (p1 @@ p2)
      BY <1>7, <1>8, <1>17, NeitherHas
    <2> QED
      BY <1>9, <1>17, <2>1, NeitherHas
  <1>18. ASSUME NEW f \in GivenFields(new) \cap ({"businessCode"} \cup ContactFields)
         PROVE  Gives(b, f, new[f])
    <2>1. f \notin DOMAIN ((p1 @@ p2) @@ p3)
      BY <1>12, <1>17
    <2>2. Gives(p4, f, new[f])
      BY <1>10 DEF Gives
    <2> QED
      BY <1>2, <2>1, <2>2, SecondGives
  <1>19. "faxNumbers" \notin DOMAIN b
    <2>1. "faxNumbers" \notin DOMAIN ((p1 @@ p2) @@ p3)
      BY <1>17
    <2> QED
      BY <1>2, <1>10, <1>12, <2>1, NeitherHas
  <1> HIDE DEF alternatives, names, shown, rest, body
  <1>20. stored = Post("Organization", b)
    BY <1>3 DEF body
  <1>21. ASSUME NEW f \in OrganizationOut, f # "phoneNumbers", NEW v, Gives(b, f, v)
         PROVE  stored[f] = v
    BY <1>11, <1>20, <1>21, PostGives
  <1>22. stored["nameList"] = N
    BY <1>12, <1>15, <1>21
  <1>23. stored["descriptionList"] = D
    BY <1>12, <1>14, <1>21
  <1>24. TextsAre(stored, new)
    BY <1>4, <1>5, <1>22, <1>23 DEF TextsAre
  <1>25. ASSUME NEW f \in GivenFields(new) \cap Texts PROVE StoredTexts(stored, f) = new[f]
    <2>1. f \in Texts \cap DOMAIN new
      BY DEF GivenFields
    <2> QED
      BY <1>24, <2>1, TextsMade
  <1>26. DOMAIN stored = OrganizationOut
    BY <1>11, <1>20 DEF Post, Put, EmptyItem
  <1>27. DomainOf("Organization", stored) = OrganizationWireToDomain(stored)
    BY DEF DomainOf
  <1>28. ASSUME NEW f \in GivenFields(new) \ Texts, f \notin NotSent(new, stored)
         PROVE  DomainOf("Organization", stored)[f] = new[f]
    <2>1. f \in {"publishingStatus", "businessCode", "alternativeNameShownIn"} \cup ContactFields
      BY <1>28 DEF OrganizationFields, Texts, ContactFields
    <2>2. CASE f = "alternativeNameShownIn"
      <3>1. stored["displayNameType"] = S
        BY <1>12, <1>16, <1>21
      <3>2. PICK shownIn, others, ns :
              /\ shownIn = new["alternativeNameShownIn"]
              /\ others = Touched(new, "alternativeNames", {}) /\ ns = new["names"]
        OBVIOUS
      <3>3. "alternativeNameShownIn" \in DOMAIN new
        BY <2>2 DEF GivenFields
      <3>4. S = (shownIn \cap LanguagesIn(others)) \cap LanguagesIn(ns)
        BY <1>6, <3>2, <3>3 DEF Touched
      <3>5. shownIn \subseteq LanguagesIn(others)
        BY <3>2, <3>3 DEF ValidOrganization, Touched
      <3>6. ItemsOfType(stored["nameList"], "Name") = ns
        <4>1. IsText(ns) /\ IsText(others)
          BY <3>2 DEF AreTexts, Texts, Touched, IsText
        <4>2. "Name" # "AlternativeName"
          OBVIOUS
        <4>3. N = TextToItems(ns, "Name") \cup TextToItems(others, "AlternativeName")
          BY <1>4, <3>2
        <4> QED
          BY <1>22, <4>1, <4>2, <4>3, TwoTexts
      <3>7. shownIn \subseteq LanguagesIn(ItemsOfType(stored["nameList"], "Name"))
        BY <1>28, <2>2, <3>2, <3>3 DEF NotSent
      <3>8. S = shownIn
        BY <3>4, <3>5, <3>6, <3>7
      <3> QED
        BY <1>27, <2>2, <3>1, <3>2, <3>8 DEF OrganizationWireToDomain
    <2>3. CASE f # "alternativeNameShownIn"
      <3>1. f \in OrganizationOut \ {"nameList", "descriptionList", "displayNameType"}
            /\ f \notin {"names", "alternativeNames", "summaries", "descriptions"}
        BY <1>12, <1>28, <2>1, <2>3 DEF Texts
      <3>2. stored[f] = new[f]
        <4>1. CASE f = "phoneNumbers"
          <5>1. PICK phones : phones = new["phoneNumbers"]
            OBVIOUS
          <5>2. PlainPhones(phones) /\ Faxes(phones) = {} /\ phones # {}
            BY <1>28, <4>1, <5>1 DEF IsChange, GivenFields
          <5>3. Gives(b, "phoneNumbers", phones)
            BY <1>12, <1>18, <1>28, <4>1, <5>1
          <5>4. phones \ Faxes(phones) = phones
            BY <5>2
          <5>5. "phoneNumbers" \in ReadSchema("Organization")
                /\ "phoneNumbers" \in WriteSchema("Organization").takes
            BY <1>11, <1>12
          <5>6. Post("Organization", b)["phoneNumbers"] = phones
            BY <1>11, <1>19, <5>2, <5>3, <5>4, <5>5, PostPhones
          <5> QED
            BY <1>20, <4>1, <5>1, <5>6
        <4>2. CASE f # "phoneNumbers"
          <5>1. Gives(b, f, new[f])
            BY <1>13, <1>18, <1>28, <2>1, <2>3
          <5> QED
            BY <1>21, <3>1, <4>2, <5>1
        <4> QED
          BY <4>1, <4>2
      <3> QED
        BY <1>26, <1>27, <2>3, <3>1, <3>2 DEF OrganizationWireToDomain
    <2> QED
      BY <2>2, <2>3
  <1> QED
    BY <1>25, <1>28, Zenon DEF AsProposed

LEMMA ChannelMade ==
  ASSUME NEW type \in ChannelTypes, NEW new,
         {"names", "summaries", "descriptions", "publishingStatus"} \subseteq DOMAIN new,
         {"languages", "isVisibleForAll"} \subseteq DOMAIN new, AreTexts(new),
         \A f \in GivenFields(new) : f \in ChannelTypeFields(type) /\ IsChange(type, f, new[f]),
         NEW stored, stored = Post(type, NewChannelToV11Body(new, type))
  PROVE  AsProposed(type, new, stored)
  <1> DEFINE names == "nameList" :> TextToItems(new.names, "Name")
             always == [f \in {"languages", "isVisibleForAll"} |-> new[f]]
             given == [f \in GivenFields(new) |-> new[f]]
             details == ChannelDetailsToV11(given, type).set
             located == OnlyIf(type = "ServiceLocation", "displayNameType" :> new.languages)
             authentication == OnlyIf(type = "EChannel", "requiresAuthentication" :>
                                        Touched(new, "requiresAuthentication", {"no"}))
             unknown == OnlyIf(type \in {"EChannel", "WebPage"}, "accessibility" :> {"Unknown"})
             body == NewChannelToV11Body(new, type)
  <1>1. PICK p1, p2, p3, p4 : p1 = NewTexts(new) /\ p2 = names /\ p3 = always /\ p4 = details
    OBVIOUS
  <1>2. PICK p5, p6, p7 : p5 = located /\ p6 = authentication /\ p7 = unknown
    OBVIOUS
  <1>3. PICK q : q = (p1 @@ p2) @@ p3
    OBVIOUS
  <1>4. PICK r : r = q @@ p4
    OBVIOUS
  <1>5. PICK b : b = ((r @@ p5) @@ p6) @@ p7
    OBVIOUS
  <1>6. b = body
    BY <1>1, <1>2, <1>3, <1>4, <1>5, Zenon DEF NewChannelToV11Body
  <1>7. PICK D : D = TextToItems(new["summaries"], "Summary")
                       \cup TextToItems(new["descriptions"], "Description")
    OBVIOUS
  <1>8. /\ Gives(p1, "publishingStatus", new["publishingStatus"])
        /\ Gives(p1, "descriptionList", D)
        /\ DOMAIN p1 = {"publishingStatus", "descriptionList"}
    BY <1>1, <1>7, NewTextsGive
  <1>9. Gives(p2, "nameList", TextToItems(new["names"], "Name")) /\ DOMAIN p2 = {"nameList"}
    BY <1>1 DEF Gives, :>
  <1>10. /\ DOMAIN p3 = {"languages", "isVisibleForAll"}
         /\ \A f \in DOMAIN p3 : Gives(p3, f, new[f])
    BY <1>1 DEF Gives
  <1>11. PICK g : g = given
    OBVIOUS
  <1>12. DOMAIN g = GivenFields(new) /\ \A f \in DOMAIN g : g[f] = new[f] /\ g[f] # {}
    BY <1>11 DEF GivenFields
  <1>13. p4 = ChannelDetailsToV11(g, type).set
    BY <1>1, <1>11
  <1>14. DOMAIN g \subseteq ChannelTypeFields(type)
    BY <1>12
  <1>15. \A f : f # "displayNameType" => f \notin DOMAIN p5
    BY <1>2, OptionalHasNot
  <1>16. \A f : f # "requiresAuthentication" => f \notin DOMAIN p6
    BY <1>2, OptionalHasNot
  <1>17. \A f : f # "accessibility" => f \notin DOMAIN p7
    BY <1>2, OptionalHasNot
  <1>18. ASSUME type = "EChannel", "requiresAuthentication" \in DOMAIN new
         PROVE  Gives(p6, "requiresAuthentication", new["requiresAuthentication"])
    BY <1>2, <1>18 DEF OnlyIf, Gives, Touched, :>
  <1> HIDE DEF names, always, given, details, located, authentication, unknown, body
  <1>19. ASSUME NEW f, NEW v, Gives(r, f, v) PROVE Gives(b, f, v)
    <2>1. Gives(r @@ p5, f, v)
      BY <1>19, FirstGives
    <2>2. Gives((r @@ p5) @@ p6, f, v)
      BY <2>1, FirstGives
    <2> QED
      BY <1>5, <2>2, FirstGives
  <1>20. ASSUME NEW f, NEW v, Gives(q, f, v) PROVE Gives(b, f, v)
    <2>1. Gives(r, f, v)
      BY <1>4, <1>20, FirstGives
    <2> QED
      BY <1>19, <2>1
  <1>21. ASSUME NEW f, f \notin {"publishingStatus", "descriptionList", "nameList", "languages",
                                 "isVisibleForAll"}
         PROVE  f \notin DOMAIN q
    <2>1. f \notin DOMAIN (p1 @@ p2)
      BY <1>8, <1>9, <1>21, NeitherHas
    <2> QED
      BY <1>3, <1>10, <1>21, <2>1, NeitherHas
  <1>22. ASSUME NEW f, NEW v, Gives(p4, f, v),
                f \notin {"publishingStatus", "descriptionList", "nameList", "languages",
                          "isVisibleForAll"}
         PROVE  Gives(b, f, v)
    <2>1. f \notin DOMAIN q
      BY <1>21, <1>22
    <2>2. Gives(r, f, v)
      BY <1>4, <1>22, <2>1, SecondGives
    <2> QED
      BY <1>19, <2>2
  <1>23. Gives(b, "publishingStatus", new["publishingStatus"])
    <2>1. Gives(p1 @@ p2, "publishingStatus", new["publishingStatus"])
      BY <1>8, FirstGives
    <2>2. Gives(q, "publishingStatus", new["publishingStatus"])
      BY <1>3, <2>1, FirstGives
    <2> QED
      BY <1>20, <2>2
  <1>24. Gives(b, "descriptionList", D)
    <2>1. Gives(p1 @@ p2, "descriptionList", D)
      BY <1>8, FirstGives
    <2>2. Gives(q, "descriptionList", D)
      BY <1>3, <2>1, FirstGives
    <2> QED
      BY <1>20, <2>2
  <1>25. Gives(b, "nameList", TextToItems(new["names"], "Name"))
    <2>1. Gives(p1 @@ p2, "nameList", TextToItems(new["names"], "Name"))
      BY <1>8, <1>9, SecondGives
    <2>2. Gives(q, "nameList", TextToItems(new["names"], "Name"))
      BY <1>3, <2>1, FirstGives
    <2> QED
      BY <1>20, <2>2
  <1>26. ASSUME NEW f \in {"languages", "isVisibleForAll"} PROVE Gives(b, f, new[f])
    <2>1. f \notin DOMAIN (p1 @@ p2)
      BY <1>8, <1>9, NeitherHas
    <2>2. Gives(p3, f, new[f])
      BY <1>10
    <2>3. Gives(q, f, new[f])
      BY <1>3, <2>1, <2>2, SecondGives
    <2> QED
      BY <1>20, <2>3
  <1>27. stored = Post(type, b)
    BY <1>6 DEF body
  <1>28. ReadSchema(type) \subseteq WriteSchema(type).takes
    BY ChannelSchemas
  <1>29. ASSUME NEW f \in ReadSchema(type), f # "phoneNumbers", NEW v, Gives(b, f, v)
         PROVE  stored[f] = v
    BY <1>27, <1>28, <1>29, PostGives
  <1>30. {"nameList", "descriptionList", "languages", "publishingStatus", "isVisibleForAll"}
           \subseteq ReadSchema(type)
    BY ChannelSchemas
  <1>31. TextsAre(stored, new)
    <2>1. TextToItems(Touched(new, "alternativeNames", {}), "AlternativeName") = {}
      <3>1. "alternativeNames" \notin ChannelTypeFields(type)
        BY DEF ChannelTypeFields, CommonChannelFields, ChannelTypes
      <3>2. Touched(new, "alternativeNames", {}) = {}
        BY <3>1 DEF Touched, GivenFields
      <3> QED
        BY <3>2 DEF TextToItems
    <2>2. stored["nameList"] = TextToItems(new["names"], "Name")
      BY <1>25, <1>29, <1>30
    <2>3. stored["descriptionList"] = D
      BY <1>24, <1>29, <1>30
    <2> QED
      BY <1>7, <2>1, <2>2, <2>3 DEF TextsAre
  <1>32. ASSUME NEW f \in GivenFields(new) \cap Texts PROVE StoredTexts(stored, f) = new[f]
    <2>1. f \in Texts \cap DOMAIN new
      BY DEF GivenFields
    <2> QED
      BY <1>31, <2>1, TextsMade
  <1>33. DOMAIN stored = ReadSchema(type)
    BY <1>27 DEF Post, Put, EmptyItem
  <1>34. DomainOf(type, stored) = ServiceChannelWireToDomain(stored)
    BY DEF DomainOf, ChannelTypes
  <1>35. ASSUME NEW f \in GivenFields(new) \ Texts, f # "accessibility", f \notin NotSent(new, stored)
         PROVE  stored[f] = new[f]
    <2>1. /\ f \in ReadSchema(type)
          /\ f \in {"languages", "accessibility", "signatureQuantity", "phoneNumbers",
                    "publishingStatus", "isVisibleForAll", "requiresSignature",
                    "requiresAuthentication"} \cup FlaggedLists(type) \cup WholeLists(type)
      BY <1>35, ChannelFieldsSent
    <2>2. f \in ChannelTypeFields(type) /\ f \in DOMAIN g /\ g[f] = new[f] /\ g[f] # {}
      BY <1>12, <1>35
    <2>3. CASE f \in FlaggedLists(type) \cup WholeLists(type) \cup {"requiresSignature"}
      <3>1. /\ f \in SentWhole(type)
            /\ f \notin {"publishingStatus", "descriptionList", "nameList", "languages",
                         "isVisibleForAll", "phoneNumbers"}
        BY <2>3 DEF SentWhole, FlaggedLists, WholeLists
      <3>2. Has(p4, f, f \in DOMAIN g /\ (f \in NotEmpty(type) => g[f] # {}), g[f])
        BY <1>13, <1>14, <3>1, DetailsHas
      <3>3. Gives(p4, f, new[f])
        BY <2>2, <3>2 DEF Has, Gives
      <3>4. Gives(b, f, new[f])
        BY <1>22, <3>1, <3>3
      <3> QED
        BY <1>29, <2>1, <3>1, <3>4
    <2>4. CASE f = "signatureQuantity"
      <3>1. SignatureSent(g)
        <4>1. Touched(new, "requiresSignature", {}) = {"yes"}
          BY <1>35, <2>2, <2>4 DEF NotSent, GivenFields
        <4>2. "requiresSignature" \in GivenFields(new) /\ new["requiresSignature"] = {"yes"}
          BY <4>1 DEF Touched, GivenFields
        <4> QED
          BY <1>12, <2>2, <2>4, <4>2 DEF SignatureSent
      <3>2. Has(p4, "signatureQuantity", SignatureSent(g), Touched(g, "signatureQuantity", {}))
        BY <1>13, <1>14, DetailsHas
      <3>3. Gives(p4, "signatureQuantity", new["signatureQuantity"])
        BY <2>2, <2>4, <3>1, <3>2 DEF Has, Gives, Touched
      <3>4. Gives(b, "signatureQuantity", new["signatureQuantity"])
        BY <1>22, <3>3
      <3> QED
        BY <1>29, <2>1, <2>4, <3>4
    <2>5. CASE f \in {"languages", "isVisibleForAll"}
      BY <1>26, <1>29, <2>1, <2>5
    <2>6. CASE f = "publishingStatus"
      BY <1>23, <1>29, <2>1, <2>6
    <2>7. CASE f = "requiresAuthentication"
      <3>1. type = "EChannel"
        BY <2>2, <2>7 DEF ChannelTypeFields, CommonChannelFields, ChannelTypes
      <3>2. Gives(p6, f, new[f])
        BY <1>18, <1>35, <2>7, <3>1 DEF GivenFields
      <3>3. f \notin DOMAIN p4
        <4>1. DOMAIN p4 \subseteq
                SentWhole(type) \cup {"signatureQuantity", "phoneNumbers", "faxNumbers"}
          BY <1>13, <1>14, DetailsHas
        <4> QED
          BY <2>7, <4>1 DEF SentWhole, FlaggedLists, WholeLists
      <3>4. f \notin DOMAIN q
        BY <1>21, <2>7
      <3>5. f \notin DOMAIN r
        BY <1>4, <3>3, <3>4, NeitherHas
      <3>6. f \notin DOMAIN (r @@ p5)
        BY <1>15, <2>7, <3>5, NeitherHas
      <3>7. Gives((r @@ p5) @@ p6, f, new[f])
        BY <3>2, <3>6, SecondGives
      <3>8. Gives(b, f, new[f])
        BY <1>5, <3>7, FirstGives
      <3> QED
        BY <1>29, <2>1, <2>7, <3>8
    <2>8. CASE f = "phoneNumbers"
      <3>1. type \in {"Phone", "ServiceLocation"}
        BY <2>1, <2>8, ChannelSchemas
      <3>2. PICK phones : phones = new["phoneNumbers"]
        OBVIOUS
      <3>3. Touched(g, "phoneNumbers", {}) = phones /\ "phoneNumbers" \in DOMAIN g /\ phones # {}
        BY <2>2, <2>8, <3>2 DEF Touched
      <3>4. Has(p4, "phoneNumbers",
                \/ type = "Phone" /\ "phoneNumbers" \in DOMAIN g
                \/ (type = "ServiceLocation" /\ "phoneNumbers" \in DOMAIN g)
                     /\ phones # Faxes(phones),
                IF type = "Phone" THEN phones ELSE phones \ Faxes(phones))
        BY <1>13, <1>14, <3>3, DetailsHas
      <3>5. Has(p4, "faxNumbers",
                (type = "ServiceLocation" /\ "phoneNumbers" \in DOMAIN g) /\ Faxes(phones) # {},
                Faxes(phones))
        BY <1>13, <1>14, <3>3, DetailsHas
      <3>6. ASSUME NEW x \in {"phoneNumbers", "faxNumbers"}, x \notin DOMAIN p4
            PROVE  x \notin DOMAIN b
        <4>1. x \notin DOMAIN q
          BY <1>21, <3>6
        <4>2. x \notin DOMAIN r
          BY <1>4, <3>6, <4>1, NeitherHas
        <4>3. x \notin DOMAIN (r @@ p5)
          BY <1>15, <4>2, NeitherHas
        <4>4. x \notin DOMAIN ((r @@ p5) @@ p6)
          BY <1>16, <4>3, NeitherHas
        <4> QED
          BY <1>5, <1>17, <4>4, NeitherHas
      <3>7. CASE type = "ServiceLocation"
        <4>1. /\ WriteSchema(type).typed = FALSE
              /\ {"phoneNumbers", "faxNumbers"} \subseteq WriteSchema(type).takes
          BY <3>7, ChannelSchemas
        <4>2. PlainPhones(phones)
          BY <1>35, <2>8, <3>2, <3>7 DEF IsChange
        <4>3. Faxes(phones) \subseteq phones
          BY DEF Faxes
        <4>4. phones \ Faxes(phones) # {} => Gives(b, "phoneNumbers", phones \ Faxes(phones))
          <5>1. ASSUME phones \ Faxes(phones) # {} PROVE Gives(p4, "phoneNumbers", phones \ Faxes(phones))
            BY <3>3, <3>4, <3>7, <5>1 DEF Has, Gives
          <5> QED
            BY <1>22, <5>1
        <4>5. phones \ Faxes(phones) = {} => "phoneNumbers" \notin DOMAIN b
          <5>1. ASSUME phones \ Faxes(phones) = {} PROVE "phoneNumbers" \notin DOMAIN p4
            BY <3>4, <3>7, <4>3, <5>1 DEF Has
          <5> QED
            BY <3>6, <5>1
        <4>6. Faxes(phones) # {} => Gives(b, "faxNumbers", Faxes(phones))
          <5>1. ASSUME Faxes(phones) # {} PROVE Gives(p4, "faxNumbers", Faxes(phones))
            BY <3>3, <3>5, <3>7, <5>1 DEF Has, Gives
          <5> QED
            BY <1>22, <5>1
        <4>7. Faxes(phones) = {} => "faxNumbers" \notin DOMAIN b
          <5>1. ASSUME Faxes(phones) = {} PROVE "faxNumbers" \notin DOMAIN p4
            BY <3>5, <5>1 DEF Has
          <5> QED
            BY <3>6, <5>1
        <4>8. "phoneNumbers" \in ReadSchema(type)
          BY <2>1, <2>8
        <4>9. Post(type, b)["phoneNumbers"] = phones
          BY <4>1, <4>2, <4>4, <4>5, <4>6, <4>7, <4>8, PostPhones
        <4> QED
          BY <1>27, <2>8, <3>2, <4>9
      <3>8. CASE type = "Phone"
        <4>1. /\ WriteSchema(type).typed = TRUE
              /\ "faxNumbers" \notin WriteSchema(type).takes
              /\ "phoneNumbers" \in WriteSchema(type).takes
          BY <1>28, <2>1, <2>8, <3>8, ChannelSchemas
        <4>2. Gives(p4, "phoneNumbers", phones)
          BY <3>3, <3>4, <3>8 DEF Has, Gives
        <4>3. Gives(b, "phoneNumbers", phones)
          BY <1>22, <4>2
        <4>4. PICK told : told = Accepted([set |-> b, clear |-> {}], WriteSchema(type))
          OBVIOUS
        <4>5. /\ told.set = [x \in DOMAIN b \cap WriteSchema(type).takes |-> b[x]]
              /\ told.clear = {}
          BY <4>4 DEF Accepted
        <4>6. /\ "phoneNumbers" \in DOMAIN told.set /\ told.set["phoneNumbers"] = phones
              /\ "faxNumbers" \notin DOMAIN told.set
          BY <4>1, <4>3, <4>5 DEF Gives
        <4>7. PutPhones({}, told, TRUE) = phones
          BY <3>3, <4>5, <4>6 DEF PutPhones
        <4>8. PICK none : none = EmptyItem(type)
          OBVIOUS
        <4>9. "phoneNumbers" \in DOMAIN none /\ none["phoneNumbers"] = {}
          BY <2>1, <2>8, <4>8 DEF EmptyItem
        <4>10. Post(type, b)["phoneNumbers"] = PutPhones({}, told, WriteSchema(type).typed)
          BY <4>4, <4>8, <4>9, PhonesTold DEF Post
        <4> QED
          BY <1>27, <2>8, <3>2, <4>1, <4>7, <4>10
      <3> QED
        BY <3>1, <3>7, <3>8
    <2> QED
      BY <1>35, <2>1, <2>3, <2>4, <2>5, <2>6, <2>7, <2>8
  <1>36. ASSUME NEW f \in GivenFields(new) \ Texts, f # "accessibility", f \notin NotSent(new, stored)
         PROVE  DomainOf(type, stored)[f] = new[f]
    <2>1. f \in ReadSchema(type) \ {"nameList", "descriptionList"}
          /\ f \notin {"names", "summaries", "descriptions"}
      BY <1>36, ChannelFieldsSent
    <2>2. stored[f] = new[f]
      BY <1>35, <1>36
    <2> QED
      BY <1>33, <1>34, <2>1, <2>2 DEF ServiceChannelWireToDomain
  <1> QED
    BY <1>32, <1>36, Zenon DEF AsProposed

\* Every item created is the POST of a valid proposal.
MadeRight(r, k) ==
  \E changes \in NewItems[k] :
    LET new == Normalize(k, changes)
    IN  /\ r = [new |-> new, stored |-> Post(k, NewBodyOf(k, new))]
        /\ ValidNew(k, new)

AllMade == \A r \in created : MadeRight(r, kind)

LEMMA MadeNext == ASSUME Inv, AllMade, Next PROVE AllMade'
  <1>1. UNCHANGED kind
    BY StepOutcome DEF Inv
  <1>2. ASSUME NEW c \in Call, Create(c) PROVE \A r \in created' : MadeRight(r, kind)
    <2>1. PICK changes : changes = call[c].changes
      OBVIOUS
    <2>2. PICK new : new = Normalize(kind, changes)
      OBVIOUS
    <2>3. PICK made : made = [new |-> new, stored |-> Post(kind, NewBodyOf(kind, new))]
      OBVIOUS
    <2>4. /\ call[c].pc = "approved" /\ call[c].what = "create"
          /\ created' = created \/ (created' = created \cup {made} /\ ValidNew(kind, new))
      BY <1>2, <2>1, <2>2, <2>3, Zenon DEF Create
    <2>5. changes \in NewItems[kind]
      BY <2>1, <2>4 DEF Inv, AllTold, AllPlaced, Placed
    <2>6. ValidNew(kind, new) => MadeRight(made, kind)
      BY <2>2, <2>3, <2>5, Zenon DEF MadeRight
    <2> QED
      BY <2>4, <2>6 DEF AllMade
  <1>3. ASSUME ~\E c \in Call : Create(c) PROVE created' = created
    <2>1. ASSUME NEW c \in Call, Step(c) PROVE created' = created
      BY <1>3, <2>1, Zenon DEF Step, Approve, Validate, ValidateDetails, ReadLatest,
         ReadDescription, ReadRelations, PutItem, PutRelations, Audit
    <2> QED
      BY <2>1, Zenon DEF Next, EditInPtv, PublishInPtv
  <1>4. \A r \in created' : MadeRight(r, kind)
    BY <1>2, <1>3 DEF AllMade
  <1> QED
    BY <1>1, <1>4 DEF AllMade

LEMMA MadeIsProposed ==
  ASSUME NEW k \in Kinds, NEW r, MadeRight(r, k)
  PROVE  AsProposed(k, r.new, r.stored)
  <1>1. PICK changes \in NewItems[k] :
          LET new == Normalize(k, changes)
          IN  /\ r = [new |-> new, stored |-> Post(k, NewBodyOf(k, new))]
              /\ ValidNew(k, new)
    BY DEF MadeRight
  <1>2. PICK new : new = Normalize(k, changes)
    OBVIOUS
  <1>3. PICK stored : stored = Post(k, NewBodyOf(k, new))
    OBVIOUS
  <1>4. r.new = new /\ r.stored = stored /\ ValidNew(k, new)
    BY <1>1, <1>2, <1>3
  <1>5. /\ {"names", "summaries", "descriptions", "publishingStatus"} \subseteq DOMAIN new
        /\ k = "Service" => Classifications \cup {"languages", "generalDescriptionId", "type"}
                              \subseteq DOMAIN new
        /\ k \in ChannelTypes => {"languages", "isVisibleForAll"} \subseteq DOMAIN new
        /\ \A f \in GivenFields(new) : f \in NewFields(k) /\ IsChange(k, f, new[f])
    BY <1>2, MadeOf
  <1>6. AreTexts(new)
    BY <1>5 DEF AreTexts, GivenFields, IsChange, IsText
  <1>7. CASE k = "Service"
    <2>1. stored = Post("Service", NewServiceToV11Body(new))
      BY <1>3, <1>7 DEF NewBodyOf
    <2> QED
      BY <1>4, <1>5, <1>6, <1>7, <2>1, ServiceMade
  <1>8. CASE k = "Organization"
    <2>1. stored = Post("Organization", NewOrganizationToV11Body(new))
      BY <1>3, <1>8 DEF NewBodyOf
    <2>2. ValidOrganization(new)
      BY <1>4, <1>8 DEF ValidNew
    <2>3. NewFields(k) = OrganizationFields
      BY <1>8 DEF NewFields
    <2> QED
      BY <1>4, <1>5, <1>6, <1>8, <2>1, <2>2, <2>3, OrganizationMade
  <1>9. CASE k \in ChannelTypes
    <2>0. k \notin {"Service", "Organization"}
      BY <1>9 DEF ChannelTypes
    <2>1. stored = Post(k, NewChannelToV11Body(new, k))
      BY <1>3, <2>0 DEF NewBodyOf
    <2>2. NewFields(k) = ChannelTypeFields(k)
      BY <2>0 DEF NewFields
    <2> QED
      BY <1>4, <1>5, <1>6, <1>9, <2>1, <2>2, ChannelMade
  <1> QED
    BY <1>7, <1>8, <1>9 DEF Kinds

\* What an apply that is alone reports as done PTV holds as it was approved,
\* but for what it cannot be told and the inherited classifications a change
\* that unlinks the service loses; and a new item, its connections left out,
\* as it was proposed (applyServiceChanges and its siblings, createService
\* and its siblings in src/ptv/v11/writeMapping.ts).
THEOREM WritesAreAsApproved == Spec => []WrittenAsApproved
  <1>1. Init => AllMade
    BY DEF Init, AllMade
  <1>2. Inv /\ AllMade /\ [Next]_vars => AllMade'
    <2>1. Inv /\ AllMade /\ Next => AllMade'
      BY MadeNext
    <2>2. AllMade /\ UNCHANGED vars => AllMade'
      BY DEF AllMade, vars
    <2> QED
      BY <2>1, <2>2
  <1>3. WroteInv /\ AllMade => WrittenAsApproved
    <2> SUFFICES ASSUME WroteInv, AllMade PROVE CreatedAsProposed
      BY ApprovedIsThere DEF WrittenAsApproved
    <2>1. kind \in Kinds
      BY DEF WroteInv, Inv, AllTold, Versions
    <2>2. \A r \in created : AsProposed(kind, r.new, r.stored)
      BY <2>1, MadeIsProposed DEF AllMade
    <2> QED
      BY <2>2, Zenon DEF AsProposed, CreatedAsProposed
  <1>4. WroteInv => Inv
    BY DEF WroteInv
  <1> QED
    BY <1>1, <1>2, <1>3, <1>4, WroteHolds, PTL DEF Spec
=============================================================================
