------------------------------- MODULE Codecs -------------------------------
(***************************************************************************)
(* The two wire protocols: internal/protocol/json and internal/protocol/query. *)
(*                                                                           *)
(* A JSON body is a value.  A Query request is a function from keys to text;   *)
(* a key is kept split at its dots, so that "Attribute.1.Name" is              *)
(* <<"Attribute", "1", "Name">>.  An XML body is a sequence of elements.       *)
(* Escaping, percent-encoding and number formats beyond plain decimals are    *)
(* left out.                                                                 *)
(***************************************************************************)
EXTENDS ShapeRegistry, Values

\* What decodeShape answers when nothing is there (found = FALSE), and when a
\* primitive cannot be parsed.
Missing == [missing |-> TRUE]
Invalid == [invalid |-> TRUE]

\* -------------------------------- names ---------------------------------

HasSuffix(name, suffix) ==
  /\ Len(name) >= Len(suffix)
  /\ SubSeq(name, Len(name) - Len(suffix) + 1, Len(name)) = suffix

TrimSuffix(name, suffix) == SubSeq(name, 1, Len(name) - Len(suffix))

singularize(name) ==
  IF HasSuffix(name, "ies") THEN TrimSuffix(name, "ies") \o "y"
  ELSE IF HasSuffix(name, "sses") THEN TrimSuffix(name, "es")
  ELSE IF HasSuffix(name, "s") THEN TrimSuffix(name, "s")
  ELSE name

SpecialNames == [QueueAttributeMap |-> "Attribute",
                 MessageBodyAttributeMap |-> "MessageAttribute",
                 MessageSystemAttributeMap |-> "Attribute",
                 MessageSystemAttributeList |-> "MessageSystemAttributeName",
                 TagMap |-> "Tag"]

\* Goes by the name of the member, as for any other member.
collectionWireName_Member(member, shape) == singularize(member)
collectionWireName(member, shape) ==
  IF shape.name \in DOMAIN SpecialNames THEN SpecialNames[shape.name]
  ELSE IF HasSuffix(shape.name, "List") THEN TrimSuffix(shape.name, "List")
  ELSE IF HasSuffix(shape.name, "Map") THEN TrimSuffix(shape.name, "Map")
  ELSE singularize(member)

IsCollection(shape) == shape.type \in {"list", "map"}

\* No member of the table has a locationName.
memberWireName(member, shape) ==
  IF IsCollection(shape) THEN collectionWireName(member, shape) ELSE member

\* --------------------------- Query: decoding ----------------------------

\* values.Get returns the first value of a key, and those of the URL come first.
mergeValues(url, body) ==
  [key \in DOMAIN url \cup DOMAIN body |->
     IF key \in DOMAIN url THEN url[key] ELSE body[key]]

Get(values, key) == IF key \in DOMAIN values THEN values[key] ELSE ""

\* The segments that follow prefix in some key.
SegmentsAfter(values, prefix) ==
  {key[Len(prefix) + 1] : key \in {k \in DOMAIN values :
                                     Len(k) > Len(prefix) /\ IsPrefix(prefix, k)}}

\* Sorted as text: 10 comes before 2.
collectIndices_AsText(values, prefix) ==
  LET found == UNION {FromText(segment) : segment \in SegmentsAfter(values, prefix)}
      asText == <<0, 1>> \o [i \in 1..10 |-> i + 9] \o <<2>> \o [i \in 1..5 |-> i + 19]
                 \o [i \in 1..7 |-> i + 2]
  IN  SelectSeq(asText, LAMBDA i : i \in found)

\* Those that are numbers, in ascending order.
collectIndices(values, prefix) ==
  LET found == UNION {FromText(segment) : segment \in SegmentsAfter(values, prefix)}
  IN  SelectSeq([i \in 1..Cardinality(Digits) |-> i - 1], LAMBDA i : i \in found)

decodePrimitive(shape, raw) ==
  CASE shape.type = "integer" ->
         IF FromText(raw) = {} THEN Invalid ELSE Int64(CHOOSE i \in FromText(raw) : TRUE)
    [] shape.type = "boolean" ->
         IF raw \in {"true", "false"} THEN Bool(raw = "true") ELSE Invalid
    [] OTHER -> Str(raw)

\* An object of named parts; of two with one name the later stays.
Entries(parts) ==
  Obj([name \in {parts[i].name : i \in DOMAIN parts} |->
         parts[CHOOSE i \in DOMAIN parts :
                 /\ parts[i].name = name
                 /\ \A j \in DOMAIN parts : parts[j].name = name => j <= i].value])

\* The structure, list or map made of decoded parts: a bad part spoils the whole,
\* the parts that are missing are passed over, and without any there is nothing.
Collected(type, parts) ==
  LET found == SelectSeq(parts, LAMBDA part : part.value # Missing)
  IN  IF \E i \in DOMAIN parts : parts[i].value = Invalid THEN Invalid
      ELSE IF found = <<>> THEN Missing
      ELSE IF type = "list" THEN Items([i \in DOMAIN found |-> found[i].value])
      ELSE Entries(found)

RECURSIVE decodeShape(_, _, _)
decodeShape(values, shape, prefix) ==
  LET At(index) == prefix \o <<ToString(index)>>
      \* A part that was not found may still be plain text under its own key.
      Part(part, key) ==
        LET found == decodeShape(values, part, key)
        IN  IF found = Missing /\ Get(values, key) # ""
            THEN decodePrimitive(part, values[key]) ELSE found
      indices == collectIndices(values, prefix)
  IN  CASE shape.type = "structure" ->
             Collected(shape.type, [i \in DOMAIN shape.members |->
               LET name == shape.members[i][1]
                   member == shape.members[i][2]
               IN  [name |-> name,
                    value |-> decodeShape(values, member,
                                Append(prefix, memberWireName(name, member)))]])
        [] shape.type = "list" ->
             Collected(shape.type, [i \in DOMAIN indices |->
               [value |-> Part(shape.member, At(indices[i]))]])
        [] shape.type = "map" ->
             Collected(shape.type, [i \in DOMAIN indices |->
               LET name == Get(values, Append(At(indices[i]), "Name"))
               IN  [name |-> name,
                    value |-> IF name = "" THEN Missing
                              ELSE Part(shape.value, Append(At(indices[i]), "Value"))]])
        [] OTHER ->
             IF prefix \in DOMAIN values THEN decodePrimitive(shape, values[prefix])
             ELSE Missing

\* A decoded request: the operation and its input, or the error.
Decoded(operation, input) == [operation |-> operation, input |-> input]

DecodeQuery(request) ==
  LET values == mergeValues(request.url, request.body)
      action == Get(values, <<"Action">>)
      input == decodeShape(values, Operations[action].input, <<>>)
  IN  IF request.malformed THEN Failure(New("MalformedQueryString"))
      ELSE IF ~IsOperation(action) THEN Failure(New("UnsupportedOperation"))
      ELSE IF input = Invalid THEN Failure(New("InvalidParameterValue"))
      ELSE Decoded(action, IF input = Missing THEN Obj(<<>>) ELSE input)

\* ---------------------------- JSON: decoding ----------------------------

\* The decoder keeps numbers as literals; this makes integers of them.
RECURSIVE normalizeNumbers(_)
normalizeNumbers(value) ==
  CASE Is("literal", value) ->
         IF FromText(value.literal) = {} THEN Str(value.literal)
         ELSE Int64(CHOOSE i \in FromText(value.literal) : TRUE)
    [] Is("items", value) ->
         Items([i \in DOMAIN value.items |-> normalizeNumbers(value.items[i])])
    [] Is("object", value) ->
         Obj([name \in DOMAIN value.object |-> normalizeNumbers(value.object[name])])
    [] OTHER -> value

NoBody == [empty |-> TRUE]

DecodeJSON(request) ==
  LET action == ActionFromTarget(request.target)
  IN  IF action = {} THEN Failure(New("UnsupportedOperation"))
      ELSE IF request.malformed THEN Failure(New("MalformedInput"))
      ELSE Decoded(CHOOSE a \in action : TRUE,
                   IF request.json = NoBody THEN Obj(<<>>)
                   ELSE normalizeNumbers(request.json))

\* ------------------------------ responses -------------------------------

Leaf(name, value) == [element |-> name, text |-> value]
Node(name, children) == [element |-> name, children |-> children]

\* Elements named name for each item of a list or entry of a map, and what is
\* between the tags of any other member.
RECURSIVE encodeShape(_, _, _)
encodeShape(shape, value, name) ==
  LET \* One element around a value.
      Element(part, partValue, tag) ==
        IF part.type = "structure" THEN Node(tag, encodeShape(part, partValue, tag))
        ELSE Leaf(tag, FormatPrimitive(partValue))
      Member(i) ==
        LET member == shape.members[i][1]
            memberShape == shape.members[i][2]
            wireName == memberWireName(member, memberShape)
        IN  IF member \notin DOMAIN value.object THEN <<>>
            ELSE IF IsCollection(memberShape)
                 THEN encodeShape(memberShape, value.object[member], wireName)
                 ELSE <<Element(memberShape, value.object[member], wireName)>>
  IN  CASE shape.type = "structure" ->
             FlattenSeq([i \in DOMAIN shape.members |-> Member(i)])
        [] shape.type = "list" ->
             [i \in DOMAIN value.items |-> Element(shape.member, value.items[i], name)]
        [] shape.type = "map" ->
             \* The code sorts the names; no reader depends on their order.
             LET names == SetToSeq(DOMAIN value.object)
             IN  [i \in DOMAIN names |->
                    Node(name, <<Leaf("Name", names[i]),
                                 Element(shape.value, value.object[names[i]], "Value")>>)]

RECURSIVE Marshal(_)
Marshal(value) ==
  CASE Is("number", value) -> [literal |-> ToString(value.number)]
    [] Is("items", value) ->
         Items([i \in DOMAIN value.items |-> Marshal(value.items[i])])
    [] Is("object", value) ->
         Obj([name \in DOMAIN value.object |-> Marshal(value.object[name])])
    [] OTHER -> value

Reply(status, type, body) == [status |-> status, contentType |-> type, body |-> body]

EncodeQuery(operation, output) ==
  LET shape == Operations[operation].output
      root == operation \o "Response"
  IN  Reply(200, "text/xml",
            Node(root, IF shape = NoShape \/ DOMAIN output.object = {} THEN <<>>
                       ELSE <<Node(operation \o "Result", encodeShape(shape, output, ""))>>))

EncodeJSON(operation, output) ==
  LET shape == Operations[operation].output
  IN  Reply(200, "application/x-amz-json-1.0",
            IF shape = NoShape \/ DOMAIN output.object = {} THEN NoBody ELSE Marshal(output))

EncodeErrorQuery(error) ==
  Reply(error.status, "text/xml",
        Node("ErrorResponse", <<Node("Error", <<Leaf("Type", error.fault),
                                               Leaf("Code", error.code)>>)>>))

EncodeErrorJSON(error) ==
  Reply(error.status, "application/x-amz-json-1.0",
        Obj([__type |-> Str("com.amazonaws.sqs#" \o error.code)]))

\* Handlers tell an absent list or map from an empty one nowhere, which leaves
\* this of a value.
RECURSIVE Meaning(_)
Meaning(value) ==
  CASE Is("items", value) ->
         Items([i \in DOMAIN value.items |-> Meaning(value.items[i])])
    [] Is("object", value) ->
         LET Empty(part) == part \in {Items(<<>>), Obj(<<>>)}
             kept == {name \in DOMAIN value.object : ~Empty(Meaning(value.object[name]))}
         IN  Obj([name \in kept |-> Meaning(value.object[name])])
    [] OTHER -> value

\* ------------------------------- clients --------------------------------
\* How clients of either protocol write a request and read a reply.  The names
\* of repeated members in a Query request or an XML reply are those the
\* repository's tests and names.go use.

ClientNames == [
  AWSAccountIdList |-> "AWSAccountId", ActionNameList |-> "ActionName",
  AttributeNameList |-> "AttributeName", BinaryList |-> "Binary",
  BatchResultErrorEntryList |-> "BatchResultErrorEntry",
  ChangeMessageVisibilityBatchRequestEntryList |-> "ChangeMessageVisibilityBatchRequestEntry",
  ChangeMessageVisibilityBatchResultEntryList |-> "ChangeMessageVisibilityBatchResultEntry",
  DeleteMessageBatchRequestEntryList |-> "DeleteMessageBatchRequestEntry",
  DeleteMessageBatchResultEntryList |-> "DeleteMessageBatchResultEntry",
  ListMessageMoveTasksResultEntryList |-> "ListMessageMoveTasksResultEntry",
  MessageAttributeNameList |-> "MessageAttributeName", MessageList |-> "Message",
  MessageBodyAttributeMap |-> "MessageAttribute",
  MessageBodySystemAttributeMap |-> "MessageBodySystemAttribute",
  MessageSystemAttributeList |-> "MessageSystemAttributeName",
  MessageSystemAttributeMap |-> "Attribute", QueueAttributeMap |-> "Attribute",
  QueueUrlList |-> "QueueUrl", StringList |-> "String",
  SendMessageBatchRequestEntryList |-> "SendMessageBatchRequestEntry",
  SendMessageBatchResultEntryList |-> "SendMessageBatchResultEntry",
  TagKeyList |-> "TagKey", TagMap |-> "Tag"]

ClientName(member, shape) ==
  IF IsCollection(shape) THEN ClientNames[shape.name] ELSE member

\* The fields of a Query form: pairs of a key and its text.
RECURSIVE Form(_, _, _)
Form(shape, value, key) ==
  LET At(i) == Append(key, ToString(i))
  IN  CASE shape.type = "structure" ->
             UNION {LET member == shape.members[i][1]
                        part == shape.members[i][2]
                    IN  IF member \notin DOMAIN value.object THEN {}
                        ELSE Form(part, value.object[member],
                                  Append(key, ClientName(member, part))) :
                    i \in DOMAIN shape.members}
        [] shape.type = "list" ->
             UNION {Form(shape.member, value.items[i], At(i)) : i \in DOMAIN value.items}
        [] shape.type = "map" ->
             LET names == SetToSeq(DOMAIN value.object)
             IN  UNION {{<<Append(At(i), "Name"), names[i]>>}
                          \cup Form(shape.value, value.object[names[i]], Append(At(i), "Value")) :
                        i \in DOMAIN names}
        [] OTHER -> {<<key, FormatPrimitive(value)>>}

Fields(pairs) ==
  [key \in {pair[1] : pair \in pairs} |-> (CHOOSE pair \in pairs : pair[1] = key)[2]]

\* A request as it reaches the server.  The URL carries a Query request made by
\* GET, and the path the queue of a Query request that names none.
NoTarget == [prefix |-> "", operation |-> ""]

HTTPRequest(target, contentType, url, body, json, path, malformed) ==
  [target |-> target, contentType |-> contentType, url |-> url, body |-> body,
   json |-> json, path |-> path, malformed |-> malformed]

QueryValues(ask) ==
  Fields(Form(Operations[ask.operation].input, ask.input, <<>>)
           \cup {<<<<"Action">>, ask.operation>>})

\* The same request in the form a client of each kind gives it; one of them posts
\* to the path of the queue and does not name it otherwise.
Written(ask, wire, malformed) ==
  CASE wire = "json" ->
         HTTPRequest([prefix |-> "AmazonSQS", operation |-> ask.operation],
                     "application/x-amz-json-1.0", <<>>, <<>>,
                     IF ask.input = Obj(<<>>) THEN NoBody ELSE Marshal(ask.input), "", malformed)
    [] wire = "form" ->
         HTTPRequest(NoTarget, "application/x-www-form-urlencoded", <<>>,
                     QueryValues(ask), NoBody, "", malformed)
    [] wire = "path" ->
         LET bare == [name \in DOMAIN ask.input.object \ {"QueueUrl"} |-> ask.input.object[name]]
         IN  HTTPRequest(NoTarget, "application/x-www-form-urlencoded", <<>>,
                         QueryValues([ask EXCEPT !.input = Obj(bare)]), NoBody,
                         stringValue(ask.input, "QueueUrl"), malformed)
    [] wire = "url" ->
         HTTPRequest(NoTarget, "", QueryValues(ask), <<>>, NoBody, "", malformed)

ReadText(shape, text) ==
  CASE shape.type = "integer" -> Int64(CHOOSE i \in FromText(text) : TRUE)
    [] shape.type = "boolean" -> Bool(text = "true")
    [] OTHER -> Str(text)

RECURSIVE ReadElements(_, _)
ReadElements(shape, elements) ==
  LET Part(part, e) == IF part.type = "structure" THEN ReadElements(part, e.children)
                       ELSE ReadText(part, e.text)
      Named(name, es) == SelectSeq(es, LAMBDA e : e.element = name)
      PartsOf(i) == Named(ClientName(shape.members[i][1], shape.members[i][2]), elements)
      Value(part, es) ==
        CASE part.type = "list" -> Items([i \in DOMAIN es |-> Part(part.member, es[i])])
          [] part.type = "map" ->
               LET KeyOf(e) == Named("Name", e.children)[1].text
               IN  Obj([key \in {KeyOf(es[i]) : i \in DOMAIN es} |->
                          LET e == CHOOSE e \in Range(es) : KeyOf(e) = key
                          IN  Part(part.value, Named("Value", e.children)[1])])
          [] OTHER -> Part(part, es[1])
      present == {i \in DOMAIN shape.members : PartsOf(i) # <<>>}
  IN  Obj([name \in {shape.members[i][1] : i \in present} |->
             LET i == CHOOSE i \in present : shape.members[i][1] = name
             IN  Value(shape.members[i][2], PartsOf(i))])

RECURSIVE ReadValue(_, _)
ReadValue(shape, value) ==
  CASE shape.type = "structure" ->
         Obj([name \in DOMAIN value.object |->
                LET i == CHOOSE i \in DOMAIN shape.members : shape.members[i][1] = name
                IN  ReadValue(shape.members[i][2], value.object[name])])
    [] shape.type = "list" ->
         Items([i \in DOMAIN value.items |-> ReadValue(shape.member, value.items[i])])
    [] shape.type = "map" ->
         Obj([name \in DOMAIN value.object |-> ReadValue(shape.value, value.object[name])])
    [] shape.type = "integer" -> ReadText(shape, value.literal)
    [] OTHER -> value

\* What the client makes of the reply: its output, or the error code and status.
ReadReply(operation, wire, reply) ==
  LET shape == Operations[operation].output
      json == wire = "json"
  IN  IF reply.contentType # (IF json THEN "application/x-amz-json-1.0" ELSE "text/xml")
      THEN [unreadable |-> reply]
      ELSE IF reply.status # 200
           THEN [refused |-> IF json THEN reply.body.object.__type.text
                             ELSE "com.amazonaws.sqs#" \o reply.body.children[1].children[2].text,
                 status |-> reply.status]
      ELSE IF json
           THEN [output |-> IF reply.body = NoBody THEN Obj(<<>>) ELSE ReadValue(shape, reply.body)]
           ELSE [output |-> IF reply.body.children = <<>> THEN Obj(<<>>)
                            ELSE ReadElements(shape, reply.body.children[1].children)]
=============================================================================
