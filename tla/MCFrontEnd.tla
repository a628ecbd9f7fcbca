----------------------------- MODULE MCFrontEnd -----------------------------
(***************************************************************************)
(* FrontEnd for TLC: two accounts, one of them with temporary credentials, a  *)
(* client that lists and one that changes the list, and probes: every          *)
(* operation with inputs that set each member alone and all members at once,   *)
(* and every way to sign.                                                     *)
(***************************************************************************)
EXTENDS FrontEnd, ShapeRegistry

CONSTANTS lister, changer

\* ------------------------------- protocols ------------------------------

Wire == INSTANCE Codecs
MCHTTPWritten(ask, wire, malformed) == Wire!Written(ask, wire, malformed)
MCJSONDecoded(request) == Wire!DecodeJSON(request)
MCQueryDecoded(request) == Wire!DecodeQuery(request)
MCJSONEncoded(operation, output) == Wire!EncodeJSON(operation, output)
MCQueryEncoded(operation, output) == Wire!EncodeQuery(operation, output)
MCJSONError(error) == Wire!EncodeErrorJSON(error)
MCQueryError(error) == Wire!EncodeErrorQuery(error)
MCReplyRead(operation, wire, reply) == Wire!ReadReply(operation, wire, reply)
MCMeaningOf(value) == Wire!Meaning(value)

\* ------------------------------ credentials -----------------------------

MCKeys == {"AKHome", "AKGuest", "AKLost"}
MCRegistered == {"AKHome", "AKGuest"}
MCSecretOf == [AKHome |-> "s1", AKGuest |-> "s2"]
MCTokenOf == [AKHome |-> NoToken, AKGuest |-> "t2"]
MCAccountOf == [AKHome |-> "a", AKGuest |-> "b"]
MCExpiryOf == [AKHome |-> Never, AKGuest |-> 1]

Signing(scheme, key, secret, token, ahead, expires) ==
  [scheme |-> scheme, key |-> key, secret |-> secret, token |-> token,
   region |-> "r", hash |-> "", ahead |-> ahead, expires |-> expires]
Home == Signing("header", "AKHome", "s1", NoToken, 0, 0)
Guest == Signing("header", "AKGuest", "s2", "t2", 0, 0)

\* One thing at a time is off, or just within its limit.
Signings ==
  {Signing("header", "AKHome", "s1", NoToken, ahead, 0) : ahead \in -2..2}
    \cup {Signing("presigned", "AKHome", "s1", NoToken, ahead, expires) :
            ahead \in -1..1, expires \in 0..2}
    \cup {Signing("none", "AKHome", "s1", NoToken, 0, 0),
          Signing("header", "AKLost", "s1", NoToken, 0, 0),
          Signing("header", "AKHome", "s2", NoToken, 0, 0),
          Signing("header", "AKGuest", "s2", NoToken, 0, 0),
          [Home EXCEPT !.region = "elsewhere"], [Home EXCEPT !.hash = "none"], Guest}

Request(operation, input, wire, signing) ==
  [ask |-> [operation |-> operation, input |-> Obj(input)], wire |-> wire,
   signing |-> signing, malformed |-> FALSE, alone |-> FALSE]

\* ------------------------- listing and changing -------------------------

MCQueueKeys ==
  <<<<"a", "q">>, <<"b", "q">>, <<"a", "q_">>, <<"b", "q_">>, <<"a", "qx">>, <<"b", "qx">>>>
MCInitialPolicy ==
  (<<"a", "q_">> :> "a:q") @@ (<<"a", "qx">> :> "a:q_") @@ (<<"b", "q">> :> "")

Create(name, policy, wire) ==
  Request("CreateQueue",
          [QueueName |-> Str(name), Attributes |-> Obj([RedrivePolicy |-> Str(policy)])],
          wire, Home)
Delete(name) == Request("DeleteQueue", [QueueUrl |-> Str("a/" \o name)], "path", Home)
Names(prefix, max, wire, signing) ==
  Request("ListQueues", [QueueNamePrefix |-> Str(prefix), MaxResults |-> Int64(max)],
          wire, signing)
Sources(wire) ==
  Request("ListDeadLetterSourceQueues",
          [QueueUrl |-> Str("a/q"), MaxResults |-> Int64(1)], wire, Home)
Start == Request("StartMessageMoveTask", [SourceArn |-> Str("a:q_")], "json", Home)
Cancel(members) ==
  Request("CancelMessageMoveTask",
          [member \in members |->
             Str(IF member = "TaskHandle" THEN "a:q_#1" ELSE "a:q_")], "json", Home)

\* Every page is signed and checked again in strict mode.
MCRequests == [
  strict |-> (lister :> {Names("q_", 1, "json", Home)})
               @@ (changer :> {Start, Cancel({"SourceArn", "TaskHandle"})}),
  bypass |-> (lister :> {Names("", 1, "form", Home), Sources("path")})
               @@ (changer :> {Create("q", "", "form"), Delete("q"), Delete("q_")})]

\* Clients of the SDK send the members of the model only.
SDKRequests == [
  bypass |-> (lister :> {Names("", 1, "form", Home)})
               @@ (changer :> {Delete("q_"), Start, Cancel({"TaskHandle"})})]

\* -------------------------------- samples -------------------------------

\* All members of a shape, lists with n items.
RECURSIVE Full(_, _, _)
Full(shape, tag, n) ==
  CASE shape.type = "structure" ->
         Obj([name \in {shape.members[i][1] : i \in DOMAIN shape.members} |->
                LET i == CHOOSE i \in DOMAIN shape.members : shape.members[i][1] = name
                IN  Full(shape.members[i][2], tag \o "." \o name, n)])
    [] shape.type = "list" ->
         Items([i \in 1..n |-> Full(shape.member, tag \o "." \o ToString(i), 2)])
    [] shape.type = "map" ->
         Obj([k \in {"k1", "k2"} |-> Full(shape.value, tag \o "." \o k, 2)])
    [] shape.type = "integer" -> Int64(7)
    [] shape.type = "boolean" -> Bool(TRUE)
    [] OTHER -> Str(tag)

\* That, and each member alone with each of its own samples.  An item without
\* members is nothing a client can write in a Query request.
RECURSIVE Samples(_)
Samples(shape) ==
  CASE shape.type = "structure" ->
         {Full(shape, "", 11)}
           \cup UNION {{Obj([name \in {shape.members[i][1]} |-> v]) :
                          v \in Samples(shape.members[i][2])} : i \in DOMAIN shape.members}
    [] shape.type = "list" ->
         {Items(<<>>)}
           \cup {Items(<<v>>) : v \in {v \in Samples(shape.member) : MeaningOf(v) # Obj(<<>>)}}
    [] shape.type = "map" ->
         {Obj(<<>>)} \cup {Obj([k1 |-> v]) : v \in Samples(shape.value)}
    [] shape.type = "integer" -> {Int64(0), Int64(12)}
    [] shape.type = "boolean" -> {Bool(TRUE), Bool(FALSE)}
    [] shape.type = "none" -> {Obj(<<>>)}
    [] OTHER -> {Str(""), Str(".a")}

ProbeRequests ==
  UNION {{Request(o, input.object, wire, Home) :
            input \in Samples(Operations[o].input), wire \in {"json", "form", "url"}} :
           o \in DOMAIN Operations}
    \cup {Request("GetQueueUrl", [QueueName |-> Str("q")], "url", signing) : signing \in Signings}
    \cup {[Request("GetQueueUrl", [QueueName |-> Str("q")], wire, Home)
             EXCEPT !.malformed = TRUE] : wire \in {"json", "form"}}
MCProbes ==
  (lister :> {[request EXCEPT !.alone = TRUE] : request \in ProbeRequests}) @@ (changer :> {})

NoProbes == [c \in Clients |-> {}]

MCOtherResults ==
  [o \in DOMAIN Operations |->
     {Success(output) : output \in Samples(Operations[o].output)}
       \cup {Failure(New("OverLimit")), Failure(InternalError)}]
=============================================================================
