------------------------------- MODULE Documents -------------------------------
(***************************************************************************)
(* The JSON:API documents a service sends and receives (jsonapi): a model  *)
(* object is dumped by the serializer mixins and what was written is read  *)
(* by the same model at the other end; the source of a validation error    *)
(* and its JSON pointer (web/handlers.py); and the sort parameter          *)
(* (jsonapi/query.py, web/dependencies/jsonapi.py).  A member has one of a *)
(* few values: "none" (None), "empty", "full"; what is written is a        *)
(* function from the members present to their values.                      *)
(***************************************************************************)
EXTENDS Integers, Sequences, FiniteSets, SequencesExt

CONSTANTS Chars,      \* characters of a part of a location
          MaxPart,    \* its length
          MaxItems    \* resources in a document

ASSUME DocumentsAssumption == MaxPart \in Nat /\ MaxItems \in Nat

VARIABLES exchange,   \* the document: where it is, its model, it, as written, as read
          location,   \* of a validation error
          sorting     \* elements of the sort parameter, each a list split by commas

documentsVars == <<exchange, location, sorting>>
-------------------------------------------------------------------------------
MetaMember == {"none", "empty", "full"}
LinksMember == {"none", "empty", "full"}
JsonapiMember == {"none", "full"}

(* The relationships of a resource: none, an empty mapping, or one that    *)
(* links something or nothing (data is None).                              *)
RelationshipsMember == {"none", "empty", "null", "full"}

(* A model with values, one with a null in a field that has a default, or  *)
(* in one that has not, a plain mapping.                                   *)
AttributesMember == {"none", "full", "null", "null!", "mapping"}

ResourceBase == [meta : MetaMember, links : LinksMember, relationships : RelationshipsMember,
                 attributes : AttributesMember]

(* The members a resource model requires besides the type.                 *)
Identified == {"id"}
Anonymous == {}

DocumentModel == [many |-> {TRUE, FALSE}, requires |-> Identified,
                  members |-> {"data", "meta", "jsonapi", "links", "included"}]
PostDocument == [many |-> {FALSE}, requires |-> Anonymous,
                 members |-> {"data", "meta", "jsonapi", "links"}]
PatchDocument == [many |-> {FALSE}, requires |-> Identified,
                  members |-> {"data", "meta", "jsonapi", "links"}]
PatchMultiDocument == [many |-> {TRUE}, requires |-> Identified,
                       members |-> {"data", "meta", "jsonapi", "links"}]
PostMultiDocument == [many |-> {TRUE}, requires |-> Identified,
                      members |-> {"data", "meta", "jsonapi", "links"}]
Models == {DocumentModel, PostDocument, PatchDocument, PatchMultiDocument, PostMultiDocument}

Resource(model, base) ==
  [m \in {"type"} \union DOMAIN base \union model.requires |-> IF m \in DOMAIN base THEN base[m] ELSE "full"]
Plain == [meta |-> "none", links |-> "none", relationships |-> "none", attributes |-> "full"]
Top == [meta |-> "none", jsonapi |-> "full", links |-> "none", included |-> "none"]

(* A resource of any shape in a plain document, and a document of any shape *)
(* with plain resources.                                                   *)
Composed(model) ==
  LET of(many, data, top) == [many |-> many, data |-> data, meta |-> top.meta, jsonapi |-> top.jsonapi,
                              links |-> top.links, included |-> top.included]
      plain(n) == [k \in 1..n |-> Resource(model, Plain)]
      tops == {[meta |-> t, jsonapi |-> j, links |-> l, included |-> i] :
                 t \in MetaMember, j \in JsonapiMember, l \in LinksMember,
                 i \in IF "included" \in model.members THEN {"none", "empty", "full"} ELSE {"none"}}
  IN {of(m, <<Resource(model, b)>>, Top) : m \in model.many, b \in ResourceBase}
       \union {of(m, plain(n), t) : m \in model.many, n \in 0..MaxItems, t \in tops}

Valid(doc) == doc.many \/ Len(doc.data) = 1
-------------------------------------------------------------------------------
(* dict(), without what is None. *)
Kept(members, absent) == [m \in {x \in DOMAIN members : members[x] \notin absent} |-> members[m]]

MutResourceMeta == {"none", "empty"}

(* What _add_core_fields leaves out of a resource.                         *)
ResourceMeta == {"none"}

(* model_dump(exclude_none=True) of the attributes. *)
DumpAttributes(a) == IF a \in {"null", "null!"} THEN "lacking" ELSE a

(* ResourceSerializerMixin.to_jsonapi; a relationship to nothing is written *)
(* without data.                                                           *)
DumpResource(r) ==
  LET core == Kept([m \in DOMAIN r \ {"links", "attributes", "relationships"} |-> r[m]], ResourceMeta)
      rest == Kept([links |-> r.links, attributes |-> DumpAttributes(r.attributes),
                    relationships |-> r.relationships], {"none"})
  IN [m \in DOMAIN core \union {x \in DOMAIN rest : ~ (x = "relationships" /\ rest[x] = "empty")} |->
        IF m \in DOMAIN core THEN core[m] ELSE rest[m]]

Dumps(doc) == \A i \in DOMAIN doc.data : doc.data[i].attributes # "mapping"

(* DocumentSerializerMixin.to_jsonapi: no data, meta or included that is   *)
(* empty.                                                                  *)
DumpDocument(doc) ==
  LET top == Kept([meta |-> doc.meta, jsonapi |-> doc.jsonapi, included |-> doc.included], {"none", "empty"})
      all == Kept([links |-> doc.links], {"none"})
      data == [i \in DOMAIN doc.data |-> DumpResource(doc.data[i])]
      names == DOMAIN top \union DOMAIN all \union (IF data = << >> THEN {} ELSE {"data"})
  IN [m \in names |-> IF m = "data" THEN [many |-> doc.many, items |-> data]
                       ELSE IF m \in DOMAIN top THEN top[m] ELSE all[m]]

OrNone(wire, m, default) == IF m \in DOMAIN wire THEN wire[m] ELSE default

ReadResource(wire) ==
  [m \in DOMAIN wire \union {"meta", "links", "relationships", "attributes"} |->
     IF m = "attributes" /\ OrNone(wire, m, "none") = "lacking" THEN "null" ELSE OrNone(wire, m, "none")]

(* The model rejects a document without a required member or with one it   *)
(* does not know, and a resource likewise.                                 *)
Accepts(model, wire, strict) ==
  /\ "data" \in DOMAIN wire /\ DOMAIN wire \subseteq model.members
  /\ wire["data"].many \in model.many
  /\ \A i \in DOMAIN wire["data"].items :
       LET item == wire["data"].items[i] IN
       /\ model.requires \union {"type"} \subseteq DOMAIN item
       /\ DOMAIN item \subseteq {"type", "meta", "links", "relationships", "attributes"} \union model.requires
       /\ strict => OrNone(item, "attributes", "none") # "lacking"

ReadDocument(wire) ==
  [many |-> wire["data"].many,
   data |-> [i \in DOMAIN wire["data"].items |-> ReadResource(wire["data"].items[i])],
   meta |-> OrNone(wire, "meta", "none"), jsonapi |-> OrNone(wire, "jsonapi", "full"),
   links |-> OrNone(wire, "links", "none"), included |-> OrNone(wire, "included", "none")]
-------------------------------------------------------------------------------
Strict(doc) == \E i \in DOMAIN doc.data : doc.data[i].attributes = "null!"
Unwritten == [m \in {} |-> "none"]
NoExchange == [at |-> "none"]
NothingYet == exchange = NoExchange /\ location = << >> /\ sorting = << >>

DocumentsTypeOK ==
  /\ exchange.at \in {"none", "composed", "raised", "written", "read", "rejected"}
  /\ exchange.at \in {"written", "read", "rejected"} => DOMAIN exchange.wire \subseteq exchange.model.members
  /\ exchange.at = "read" => Valid(exchange.read) /\ \A i \in DOMAIN exchange.read.data :
                                exchange.read.data[i].attributes \in AttributesMember \ {"null!"}
  /\ exchange # NoExchange => location = << >> /\ sorting = << >>

DocumentsInit == exchange = NoExchange /\ location = << >> /\ sorting = << >>

Compose(model, doc) ==
  /\ Valid(doc)
  /\ exchange' = [at |-> "composed", model |-> model, doc |-> doc, wire |-> Unwritten, read |-> doc]
  /\ UNCHANGED <<location, sorting>>

(* JSONAPIResponse, or the body a client sends: the dump. *)
Write ==
  /\ exchange.at = "composed"
  /\ exchange' = IF Dumps(exchange.doc) THEN [exchange EXCEPT !.at = "written", !.wire = DumpDocument(exchange.doc)]
                 ELSE [exchange EXCEPT !.at = "raised"]
  /\ UNCHANGED <<location, sorting>>

Read ==
  /\ exchange.at = "written"
  /\ exchange' = IF Accepts(exchange.model, exchange.wire, Strict(exchange.doc))
                 THEN [exchange EXCEPT !.at = "read", !.read = ReadDocument(exchange.wire)]
                 ELSE [exchange EXCEPT !.at = "rejected"]
  /\ UNCHANGED <<location, sorting>>
-------------------------------------------------------------------------------
Replace(s, c, by) == FlattenSeq([i \in DOMAIN s |-> IF s[i] = c THEN by ELSE <<s[i]>>])

MutEscape(part) == Replace(Replace(part, "/", <<"~", "1">>), "~", <<"~", "0">>)

(* "~" first, then "/". *)
Escape(part) == Replace(Replace(part, "~", <<"~", "0">>), "/", <<"~", "1">>)

Pointer(parts) == FlattenSeq([i \in DOMAIN parts |-> <<"/">> \o Escape(parts[i])])

(* ErrorSourceBuilder.build: which member names the place, and how. *)
ErrorSource(loc) ==
  CASE loc = << >> -> <<"nowhere", << >> >>
    [] loc # << >> /\ loc[1] = "body" ->
         <<"pointer", IF Len(loc) = 1 THEN <<"/">> ELSE Pointer(Tail(loc))>>
    [] loc # << >> /\ loc[1] \in {"query", "header"} ->
         <<loc[1], IF Len(loc) = 1 THEN << >> ELSE loc[2]>>

Parts == UNION {[1..n -> Chars] : n \in 0..MaxPart}
Locations == {<<"body">> \o p : p \in UNION {[1..n -> Parts] : n \in 0..2}}
               \union {<<f, p>> : f \in {"query", "header"}, p \in Parts}

Locate(loc) ==
  /\ location' = loc
  /\ UNCHANGED <<exchange, sorting>>

(* The pattern of ErrorSource.pointer: parts after a slash, no bare tilde. *)
WellFormed(pointer) ==
  /\ pointer # << >> => pointer[1] = "/"
  /\ \A i \in DOMAIN pointer : pointer[i] = "~" =>
       i < Len(pointer) /\ pointer[i + 1] \in {"0", "1"}
-------------------------------------------------------------------------------
(* One field as it is written: blanks before it, dashes, and a name that   *)
(* fits the pattern, does not, or is not there.                            *)
Raw == [blank : BOOLEAN, dashes : 0..2, name : {"name", "bad", ""}]
Fits(raw) == raw.name = "name" /\ ~ raw.blank

FromRaw(raw) == [name |-> raw.name, descending |-> raw.dashes > 0]

Rejected == [ok |-> FALSE, fields |-> << >>]
Sort(raws) == [ok |-> TRUE, fields |-> [i \in DOMAIN raws |-> FromRaw(raws[i])]]

(* Sort.from_string: split, strip, leave out what is empty. *)
FromString(raws) ==
  LET given == FlattenSeq([i \in DOMAIN raws |->
                 IF raws[i].name # "" \/ raws[i].dashes > 0 THEN <<raws[i]>> ELSE << >>])
  IN IF \A i \in DOMAIN given : given[i].name = "name" THEN Sort(given) ELSE Rejected

(* parse_sort: one field per element, which has to fit as it is. *)
ParseSort(elements) ==
  IF \A i \in DOMAIN elements : Len(elements[i]) = 1 /\ Fits(elements[i][1])
  THEN Sort([i \in DOMAIN elements |-> elements[i][1]]) ELSE Rejected

SortBy(elements) ==
  /\ sorting' = elements
  /\ UNCHANGED <<exchange, location>>

DocumentsNext ==
  \/ Write \/ Read
  \/ /\ NothingYet
     /\ \/ \E model \in Models : \E doc \in Composed(model) : Compose(model, doc)
        \/ \E loc \in Locations : Locate(loc)
        \/ \E a \in Raw, b \in Raw : SortBy(<<<<a>>>>) \/ SortBy(<<<<a, b>>>>) \/ SortBy(<<<<a>>, <<b>>>>)

DocumentsSpec == DocumentsInit /\ [][DocumentsNext]_documentsVars
-------------------------------------------------------------------------------
(* What is written is read back as the document it was, but for empty      *)
(* members, which are the same as none, and the jsonapi member, which gets *)
(* its default; only an empty collection, whose data is not written at     *)
(* all, and a null in a field without a default are rejected at the other  *)
(* end (serializers.py:7-118, document.py:328-654).                        *)
RoundTrip ==
  LET doc == exchange.doc
      some(x) == IF x = "empty" THEN "none" ELSE x
  IN /\ exchange.at = "rejected" => doc.data = << >> \/ Strict(doc)
     /\ exchange.at = "read" =>
          exchange.read = [doc EXCEPT !.meta = some(@), !.included = some(@), !.jsonapi = "full",
            !.data = [i \in DOMAIN doc.data |-> [doc.data[i] EXCEPT !.relationships = some(@)]]]

(* The source of an error is accepted by its model, and tells where it is: *)
(* two places have the same only if one is the body and the other its      *)
(* member with the empty name (handlers.py:24-45, document.py:153).        *)
SourceTells ==
  location # << >> =>
    /\ ErrorSource(location)[1] = "pointer" => WellFormed(ErrorSource(location)[2])
    /\ \A other \in Locations : ErrorSource(other) = ErrorSource(location) =>
         other = location \/ ErrorSource(other)[2] = <<"/">>

(* The two readers of a sort agree on what the stricter one accepts, field *)
(* by field (query.py:59-83, dependencies/jsonapi.py:33-35).               *)
SortersAgree ==
  sorting # << >> /\ ParseSort(sorting).ok => ParseSort(sorting) = FromString(FlattenSeq(sorting))

(* Both sides read a string alike: the pointer of an error, and the sort   *)
(* of a query (handlers.py:21-45, query.py:48-85).                         *)
ReadersAgree == SourceTells /\ SortersAgree
===============================================================================
