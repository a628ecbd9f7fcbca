------------------------------ MODULE FrontEnd ------------------------------
(***************************************************************************)
(* Requests on their way through the server: httpx.Handler.ServeHTTP, which  *)
(* authenticates, decodes, dispatches and encodes; the process it runs in    *)
(* (cmd/sqsd/main.go); and behind it the handlers of service/sqs.go that      *)
(* list and look up queues, with the two that change the list and the two     *)
(* that start and cancel move tasks.  Requests of several clients are in      *)
(* progress at once.  A handler is one step here; its statements, the          *)
(* attributes and the messages are in QueueRegistry, MoveTasks, MessageSteps   *)
(* and MessagePlane.                                                          *)
(*                                                                           *)
(* What the codecs and the clients' serializers compute are parameters: those  *)
(* of the code are in Codecs.                                                 *)
(***************************************************************************)
EXTENDS Values, Authentication

CONSTANTS
  Clients,
  Requests,        \* mode -> client -> what it may ask: [ask, wire, signing, malformed, alone]
  Probes,          \* client -> what it may ask when nobody else asks anything
  OtherResults,    \* operation -> results, for the handlers that are elsewhere
  QueueKeys,       \* the <<account, name>> in use, a sequence in order of name
  InitialPolicy,   \* queue the database already has -> its RedrivePolicy
  ServerAccount,   \* cfg.AccountID
  Modes,           \* subset of {"strict", "bypass"}: cfg.AuthMode
  DeleteCooldown,  \* cfg.DeleteCooldown
  MaxClock,        \* bound on the clock
  MaxExits,        \* bound on the times the process ends
  MaxTasks,        \* bound on the move tasks of a queue
  HTTPWritten(_, _, _),                    \* a client's request as it is sent
  JSONDecoded(_), QueryDecoded(_),         \* DecodeRequest of both protocols
  JSONEncoded(_, _), QueryEncoded(_, _),   \* EncodeResponse
  JSONError(_), QueryError(_),             \* EncodeError
  ReplyRead(_, _, _),                      \* what a client makes of a reply
  MeaningOf(_)                             \* what handlers can tell of a value

Keys == Range(QueueKeys)
Before(k, l) ==
  \E i, j \in DOMAIN QueueKeys : i < j /\ QueueKeys[i] = k /\ QueueKeys[j] = l

\* The accounts requests can be for.
Accounts == {ServerAccount} \cup {AccountOf[key] : key \in Registered}

\* Every account may use every name.
ASSUME FrontEndAssumption ==
  /\ QueueKeys \in Seq(Keys) /\ IsInjective(QueueKeys)
  /\ \A key \in Keys, account \in Accounts : <<account, key[2]>> \in Keys
  /\ DOMAIN InitialPolicy \subseteq Keys
  /\ DeleteCooldown \in Nat /\ MaxClock \in Nat /\ MaxExits \in Nat /\ MaxTasks \in Nat \ {0}
  /\ Modes \subseteq {"strict", "bypass"}

VARIABLES
  clock,
  process,         \* "up", "closing" once the listener is closed, or "down"
  exits,           \* how often the process ended
  mode,            \* how requests are authenticated
  rows,            \* the queues table: key -> row
  tasks,           \* message_move_tasks: source key -> its tasks
  conn,            \* for each client the request it waits for
  listing          \* for each client the listing it pages through, with history

vars == <<clock, process, exits, mode, rows, tasks, conn, listing>>

\* -------------------------------- tables --------------------------------

URL(key) == key[1] \o "/" \o key[2]
ARN(key) == key[1] \o ":" \o key[2]

\* A row; till is reuse_blocked_till of a deleted one, policy its RedrivePolicy.
Row(policy) == [live |-> TRUE, policy |-> policy, till |-> 0]

InitialRows == [key \in DOMAIN InitialPolicy |-> Row(InitialPolicy[key])]

LiveIn(table) == {key \in DOMAIN table : table[key].live}
Live == LiveIn(rows)

Without(table, key) == [k \in DOMAIN table \ {key} |-> table[k]]
With(table, key, value) ==
  [k \in DOMAIN table \cup {key} |-> IF k = key THEN value ELSE table[k]]

\* What an operation answers, with the tables it leaves.
Outcome(result, newRows, newTasks) ==
  [result |-> result, rows |-> newRows, tasks |-> newTasks]
Answered(result) == Outcome(result, rows, tasks)
Output(f) == Success(Obj(f))
Refused(code) == Answered(Failure(New(code)))

\* ------------------------------- lookups --------------------------------

\* queueURLFromRequest: the member QueueUrl, or the path of the request.
queueURLFromRequest(input, path) ==
  IF stringValue(input, "QueueUrl") # "" THEN stringValue(input, "QueueUrl") ELSE path

\* The live queue with this URL or ARN: one or none.
lookupQueueByURL(url) == {key \in Live : URL(key) = url}
lookupQueueByARN(arn) == {key \in Live : ARN(key) = arn}

GetQueueURL(input, account) ==
  LET key == <<account, stringValue(input, "QueueName")>>
  IN  IF key \in Live THEN Answered(Output([QueueUrl |-> Str(URL(key))]))
      ELSE Refused("QueueDoesNotExist")

\* ------------------------ creating and deleting -------------------------

\* Every other name of an instance stands for one the pattern refuses; the faulty
\* one takes any name.
validQueueName_Any(name) == TRUE
validQueueName(name) == \E key \in Keys : key[2] = name

\* The policy of the request, defaulting to none; other attributes, and what
\* validateQueueAttributes makes of them, are in QueueRegistry.
RedrivePolicyOf(input) ==
  LET attributes == stringMapValue(input, "Attributes")
  IN  IF "RedrivePolicy" \in DOMAIN attributes THEN attributes["RedrivePolicy"] ELSE ""

CreateQueue(input, account, now) ==
  LET key == <<account, stringValue(input, "QueueName")>>
      policy == RedrivePolicyOf(input)
      created == Output([QueueUrl |-> Str(URL(key))])
  IN  IF ~validQueueName(key[2]) THEN Refused("InvalidParameterValue")
      ELSE IF key \in DOMAIN rows /\ ~rows[key].live /\ now < rows[key].till
      THEN Refused("QueueDeletedRecently")
      ELSE IF key \in Live /\ rows[key].policy # policy THEN Refused("QueueNameExists")
      ELSE IF key \in Live THEN Answered(created)
      ELSE \* A tombstone takes its tasks with it (ON DELETE CASCADE).
           Outcome(created, With(rows, key, Row(policy)), Without(tasks, key))

DeleteQueue(input, path, now) ==
  LET found == lookupQueueByURL(queueURLFromRequest(input, path))
  IN  IF found = {} THEN Refused("QueueDoesNotExist")
      ELSE Outcome(Success(Obj(<<>>)),
                   [key \in DOMAIN rows |->
                      IF key \in found
                      THEN [rows[key] EXCEPT !.live = FALSE, !.till = now + DeleteCooldown]
                      ELSE rows[key]],
                   tasks)

\* ------------------------------- listing --------------------------------

\* The text is base64 of the offset, which hides nothing.
encodeNextToken(offset) == IF offset <= 0 THEN "" ELSE ToString(offset)

\* A set, empty for a token that is none.
decodeNextToken(token) == IF token = "" THEN {0} ELSE FromText(token)

\* Where the next page begins; the faulty one passes over a queue.
NextOffset_SkipsOne(start, maxResults) == start + maxResults + 1
NextOffset(start, maxResults) == start + maxResults

\* Whether there is one; the faulty one offers a page after the last.
HasMore_IfLimited(rest, maxResults) == maxResults > 0
HasMore(rest, maxResults) == maxResults > 0 /\ maxResults < Len(rest)

\* The page of urls at offset, in the member named by the operation.
Page(urls, offset, maxResults, member) ==
  LET start == Min({offset, Len(urls)})
      rest == SubSeq(urls, start + 1, Len(urls))
      more == HasMore(rest, maxResults)
      page == IF more THEN SubSeq(rest, 1, Min({maxResults, Len(rest)})) ELSE rest
      token == encodeNextToken(NextOffset(start, maxResults))
  IN  Output([name \in {member} \cup (IF more /\ token # "" THEN {"NextToken"} ELSE {}) |->
                IF name = member THEN Items([i \in DOMAIN page |-> Str(page[i])])
                ELSE Str(token)])

PageOf(input, urls, member) ==
  LET maxResults == int64Value(input, "MaxResults", 0)
      offset == decodeNextToken(stringValue(input, "NextToken"))
  IN  IF maxResults = {} \/ offset = {} THEN Refused("InvalidParameterValue")
      ELSE Answered(Page(urls, CHOOSE o \in offset : TRUE,
                         CHOOSE m \in maxResults : TRUE, member))

\* SQLite's LIKE with the prefix as its pattern: an underscore matches any
\* character and case is ignored.
Letters == <<"ABCDEFGHIJKLMNOPQRSTUVWXYZ", "abcdefghijklmnopqrstuvwxyz">>
Char(s, i) == SubSeq(s, i, i)
Lower(c) ==
  IF \E i \in 1..26 : Char(Letters[1], i) = c
  THEN Char(Letters[2], CHOOSE i \in 1..26 : Char(Letters[1], i) = c) ELSE c
HasPrefix(name, prefix) ==
  Len(prefix) <= Len(name) /\ SubSeq(name, 1, Len(prefix)) = prefix
LikePrefix(name, prefix) ==
  /\ Len(prefix) <= Len(name)
  /\ \A i \in 1..Len(prefix) :
       Char(prefix, i) = "_" \/ Lower(Char(prefix, i)) = Lower(Char(name, i))

\* The members of a set of keys in order of name.
Position(key, keys) == Cardinality({k \in keys : Before(k, key)})
InOrder(keys) ==
  [i \in 1..Cardinality(keys) |-> CHOOSE key \in keys : Position(key, keys) = i - 1]

\* The URLs of the rows a listing matches, deleted ones passed over.
ListedURLs(matched) ==
  LET keys == InOrder(Live \cap matched) IN [i \in DOMAIN keys |-> URL(keys[i])]

ListQueues(input, account) ==
  LET prefix == stringValue(input, "QueueNamePrefix")
  IN  PageOf(input,
             ListedURLs({key \in Keys : key[1] = account /\ LikePrefix(key[2], prefix)}),
             "QueueUrls")

\* strings.Contains, of a policy that is not empty.
stringsContains(raw, needle) ==
  \E i \in 1..(Len(raw) - Len(needle) + 1) : SubSeq(raw, i, i + Len(needle) - 1) = needle

ListDeadLetterSourceQueues(input, path) ==
  LET found == lookupQueueByURL(queueURLFromRequest(input, path))
      target == ARN(CHOOSE key \in found : TRUE)
  IN  IF found = {} THEN Refused("QueueDoesNotExist")
      ELSE PageOf(input,
                  ListedURLs({key \in Live : stringsContains(rows[key].policy, target)}),
                  "queueUrls")

\* Queues have URLs and ARNs of their own, and a page token means what it was made
\* from.
ASSUME TextAssumption ==
  /\ \A k, l \in Keys : URL(k) = URL(l) \/ ARN(k) = ARN(l) => k = l
  /\ \A key \in Keys : stringsContains(ARN(key), ARN(key))
  /\ \A i \in 1..Len(QueueKeys) :
       encodeNextToken(i) # "" /\ decodeNextToken(encodeNextToken(i)) = {i}

\* ------------------------------ move tasks ------------------------------

TaskHandle(key, i) == ARN(key) \o "#" \o ToString(i)

\* The tasks of a queue: how many were started, and whether the last one runs.
TasksOf(key) ==
  IF key \in DOMAIN tasks THEN tasks[key] ELSE [started |-> 0, running |-> FALSE]

\* Both look the source up by the member SourceArn of the input.  A running task
\* may have ended in the pass the request began with, and a new one may end
\* before the answer: what tasks move is in MoveTasks.
StartMessageMoveTask(input) ==
  LET source == lookupQueueByARN(stringValue(input, "SourceArn"))
      key == CHOOSE k \in source : TRUE
      started == TasksOf(key).started
      Handle(i) == Output([TaskHandle |-> Str(TaskHandle(key, i))])
  IN  IF source = {} THEN {Refused("ResourceNotFoundException")}
      ELSE {Answered(Handle(started)) : found \in {TasksOf(key).running} \ {FALSE}}
             \cup {Outcome(Handle(started + 1), rows,
                           With(tasks, key, [started |-> started + 1, running |-> runs])) :
                     runs \in BOOLEAN}

\* Also a task that has ended is cancelled.
CancelMessageMoveTask(input) ==
  LET source == lookupQueueByARN(stringValue(input, "SourceArn"))
      key == CHOOSE k \in source : TRUE
      handle == stringValue(input, "TaskHandle")
      started == TasksOf(key).started
  IN  IF source = {} \/ \A i \in 1..started : TaskHandle(key, i) # handle
      THEN Refused("ResourceNotFoundException")
      ELSE Outcome(Output([ApproximateNumberOfMessagesMoved |-> Int64(0)]), rows,
                   IF handle = TaskHandle(key, started)
                   THEN [tasks EXCEPT ![key].running = FALSE] ELSE tasks)

\* ------------------------------ dispatching -----------------------------

\* Whether a Query request is one by its content type, its body or its URL.
detectWireProtocol(http) ==
  IF http.target.prefix = "AmazonSQS" THEN "json"
  ELSE IF http.contentType = "application/x-amz-json-1.0" THEN "json"
  ELSE IF http.contentType = "application/x-www-form-urlencoded" THEN "query"
  ELSE IF <<"Action">> \in DOMAIN http.body \cup DOMAIN http.url THEN "query"
  ELSE "json"

DecodeRequest(http) ==
  IF detectWireProtocol(http) = "json" THEN JSONDecoded(http) ELSE QueryDecoded(http)

EncodeReply(http, operation, result) ==
  CASE detectWireProtocol(http) = "json" /\ Is("output", result) ->
         JSONEncoded(operation, result.output)
    [] detectWireProtocol(http) = "query" /\ Is("output", result) ->
         QueryEncoded(operation, result.output)
    [] detectWireProtocol(http) = "json" /\ Is("error", result) -> JSONError(result.error)
    [] detectWireProtocol(http) = "query" /\ Is("error", result) -> QueryError(result.error)

\* The outcomes of the handler that Dispatch finds for the operation.
Dispatch(operation, input, path, account, now) ==
  CASE operation = "CreateQueue" -> {CreateQueue(input, account, now)}
    [] operation = "DeleteQueue" -> {DeleteQueue(input, path, now)}
    [] operation = "GetQueueUrl" -> {GetQueueURL(input, account)}
    [] operation = "ListQueues" -> {ListQueues(input, account)}
    [] operation = "ListDeadLetterSourceQueues" -> {ListDeadLetterSourceQueues(input, path)}
    [] operation = "StartMessageMoveTask" -> StartMessageMoveTask(input)
    [] operation = "CancelMessageMoveTask" -> {CancelMessageMoveTask(input)}
    [] OTHER -> {Answered(result) : result \in OtherResults[operation]}

\* ------------------------------- requests -------------------------------

\* The form of a request; one that lists begins with the first page.
WellFormed(request) ==
  /\ DOMAIN request = {"ask", "wire", "signing", "malformed", "alone"}
  /\ DOMAIN request.ask = {"operation", "input"} /\ DOMAIN request.ask.input = {"object"}
  /\ request.signing.ahead \in Int /\ request.signing.expires \in Int
StartsListing(request) ==
  LET prefix == stringValue(request.ask.input, "QueueNamePrefix")
  IN  /\ "NextToken" \notin DOMAIN request.ask.input.object
      /\ int64Value(request.ask.input, "MaxResults", 0) \subseteq Int
      /\ \A key \in Keys : HasPrefix(key[2], prefix) => LikePrefix(key[2], prefix)

ListingOperations == {"ListQueues", "ListDeadLetterSourceQueues"}

ASSUME RequestsAssumption ==
  \A c \in Clients :
    /\ \A m \in Modes : \A request \in Requests[m][c] :
         /\ WellFormed(request) /\ ~request.alone
         /\ request.ask.operation \in ListingOperations => StartsListing(request)
    /\ \A request \in Probes[c] : WellFormed(request) /\ request.alone

NoConn == [stage |-> "idle"]

\* A listing in progress or complete, with the queues that were present when it
\* began, those it should show, and those created and deleted since: history.
NoListing == [stage |-> "none"]

Listed(output, operation) ==
  LET member == IF operation = "ListQueues" THEN "QueueUrls" ELSE "queueUrls"
  IN  IF member \in DOMAIN output.object THEN output.object[member].items ELSE <<>>

HTTPOf(request) == HTTPWritten(request.ask, request.wire, request.malformed)

CanonicalOf(request) == buildCanonicalRequest(HTTPOf(request), request.signing.hash)

\* What the client signed when it asked.
AuthOf(k) == Signed(k.request.signing, k.asked, CanonicalOf(k.request))

\* The caller's account, as far as a signature names a registered key.
AccountIn(request) ==
  IF mode = "bypass" THEN ServerAccount
  ELSE IF request.signing.key \in Registered THEN AccountOf[request.signing.key]
  ELSE NoAccount

\* Which queues a listing asks for, and which it may answer with: LIKE and the
\* substring match take in more.
Due(request, key) ==
  LET input == request.ask.input
      prefix == stringValue(input, "QueueNamePrefix")
  IN  IF request.ask.operation = "ListQueues"
      THEN key[1] = AccountIn(request) /\ HasPrefix(key[2], prefix)
      ELSE \E target \in Keys : /\ URL(target) = stringValue(input, "QueueUrl")
                               /\ rows[key].policy = ARN(target)
Eligible(request, key) ==
  LET input == request.ask.input
  IN  request.ask.operation = "ListQueues" =>
        key[1] = AccountIn(request) /\ LikePrefix(key[2], stringValue(input, "QueueNamePrefix"))

NewListing(request) ==
  [stage |-> "going", request |-> request, token |-> "", seen |-> <<>>,
   present |-> Live, due |-> {key \in Live : Due(request, key)}, created |-> {}, deleted |-> {}]

\* The request for the page after those the client has.
PageRequest(l) ==
  IF l.token = "" THEN l.request
  ELSE [l.request EXCEPT !.ask.input.object = With(@, "NextToken", Str(l.token))]

Init ==
  /\ clock = 0 /\ process = "up" /\ exits = 0
  /\ mode \in Modes
  /\ rows = InitialRows
  /\ tasks = [key \in {} |-> [started |-> 0, running |-> FALSE]]
  /\ conn = [c \in Clients |-> NoConn]
  /\ listing = [c \in Clients |-> NoListing]

\* -------------------------------- clients -------------------------------

Sent(request) == [stage |-> "sent", request |-> request, asked |-> clock]

Idle(c) == conn[c] = NoConn /\ listing[c].stage # "going"

\* MaxTasks as a guard; only one client at a time starts tasks.
Startable(request) ==
  request.ask.operation = "StartMessageMoveTask" =>
    /\ \A key \in DOMAIN tasks : tasks[key].started < MaxTasks
    /\ \A c \in Clients : conn[c] # NoConn => conn[c].request.ask.operation # request.ask.operation

\* A client asks.  A list operation with a page size begins a listing.
Ask(c) ==
  /\ process = "up" /\ Idle(c)
  /\ \A d \in Clients : conn[d] # NoConn => ~conn[d].request.alone
  /\ \E request \in Requests[mode][c] :
       /\ Startable(request)
       /\ conn' = [conn EXCEPT ![c] = Sent(request)]
       /\ listing' = [listing EXCEPT ![c] =
                        IF request.ask.operation \in ListingOperations
                        THEN NewListing(request) ELSE NoListing]
  /\ UNCHANGED <<clock, process, exits, mode, rows, tasks>>

\* A probe is asked alone, of a server that nothing was asked of yet.
Probe(c) ==
  /\ process = "up" /\ exits = 0 /\ \A d \in Clients : Idle(d) /\ listing[d] = NoListing
  /\ rows = InitialRows /\ DOMAIN tasks = {}
  /\ \E request \in Probes[c] : conn' = [conn EXCEPT ![c] = Sent(request)]
  /\ UNCHANGED <<clock, process, exits, mode, rows, tasks, listing>>

\* It goes on with a listing: the next page, or again the one that was cut off.
AskNext(c) ==
  /\ process = "up" /\ conn[c] = NoConn /\ listing[c].stage = "going"
  /\ \A d \in Clients : conn[d] # NoConn => ~conn[d].request.alone
  /\ conn' = [conn EXCEPT ![c] = Sent(PageRequest(listing[c]))]
  /\ UNCHANGED <<clock, process, exits, mode, rows, tasks, listing>>

\* -------------------------------- server --------------------------------

AtStage(c, stage) == process # "down" /\ conn[c].stage = stage

Reject(c, code) ==
  conn' = [conn EXCEPT ![c] = [stage |-> "handled", request |-> @.request,
                               result |-> Failure(New(code))]]
Advance(c, stage) == conn' = [conn EXCEPT ![c] = [@ EXCEPT !.stage = stage]]
Verified(c, account) ==
  conn' = [conn EXCEPT ![c] = [stage |-> "verified", request |-> @.request, account |-> account]]

\* ServeHTTP up to Authenticate, which in bypass mode has nothing to check.
Receive(c) ==
  /\ process = "up" /\ AtStage(c, "sent")
  /\ IF mode = "bypass" THEN Verified(c, ServerAccount)
     ELSE IF ~HasSignature(AuthOf(conn[c])) THEN Reject(c, "InvalidSecurity")
     ELSE conn' = [conn EXCEPT ![c] = [stage |-> "received", request |-> @.request,
                                       asked |-> @.asked, received |-> clock]]
  /\ UNCHANGED <<clock, process, exits, mode, rows, tasks, listing>>

CheckIdentity(c) ==
  /\ AtStage(c, "received")
  /\ IF lookupIdentity(AuthOf(conn[c]), clock) THEN Advance(c, "known")
     ELSE Reject(c, "InvalidSecurity")
  /\ UNCHANGED <<clock, process, exits, mode, rows, tasks, listing>>

CheckScope(c) ==
  /\ AtStage(c, "known")
  /\ IF validateScope(AuthOf(conn[c]), clock) THEN Advance(c, "scoped")
     ELSE Reject(c, "InvalidSecurity")
  /\ UNCHANGED <<clock, process, exits, mode, rows, tasks, listing>>

\* The canonical form is made of the request as it came, which is as it was sent.
CheckSignature(c) ==
  LET auth == AuthOf(conn[c])
  IN  /\ AtStage(c, "scoped")
      /\ IF presignedInTime(auth, clock) /\ SignatureMatches(auth, CanonicalOf(conn[c].request))
         THEN Verified(c, IdentityOf(auth).account)
         ELSE Reject(c, "InvalidSecurity")
      /\ UNCHANGED <<clock, process, exits, mode, rows, tasks, listing>>

\* What a listing in progress has to know of a change.
Noted(l, newRows) ==
  IF l.stage # "going" THEN l
  ELSE [l EXCEPT !.created = @ \cup (LiveIn(newRows) \ Live),
                 !.deleted = @ \cup (Live \ LiveIn(newRows))]

\* DecodeRequest and Dispatch.
Handle(c) ==
  LET request == conn[c].request
      http == HTTPOf(request)
      decoded == DecodeRequest(http)
      Done(result) ==
        conn' = [conn EXCEPT ![c] = [stage |-> "handled", request |-> request, result |-> result]]
  IN  /\ AtStage(c, "verified")
      /\ \/ /\ Is("error", decoded)
            /\ Done(decoded) /\ UNCHANGED <<rows, tasks, listing>>
         \/ /\ ~Is("error", decoded)
            /\ \E outcome \in Dispatch(decoded.operation, decoded.input, http.path,
                                      conn[c].account, clock) :
                 /\ Done(outcome.result)
                 /\ rows' = outcome.rows /\ tasks' = outcome.tasks
                 /\ listing' = [d \in Clients |-> Noted(listing[d], outcome.rows)]
      /\ UNCHANGED <<clock, process, exits, mode>>

\* What the client makes of the reply to this request, and what it should.
Reading(k) ==
  LET operation == k.request.ask.operation
  IN  ReplyRead(operation, k.request.wire, EncodeReply(HTTPOf(k.request), operation, k.result))

Meant(result) ==
  IF Is("error", result)
  THEN [refused |-> "com.amazonaws.sqs#" \o result.error.code, status |-> result.error.status]
  ELSE [output |-> MeaningOf(result.output)]

\* A listing with one more page; the last one has no token.
WithPage(l, urls, token) ==
  [l EXCEPT !.seen = l.seen \o urls, !.token = token,
            !.stage = IF token = "" THEN "complete" ELSE "going"]

\* The reply is written and read; an error ends a listing.
Respond(c) ==
  /\ AtStage(c, "handled")
  /\ LET read == Reading(conn[c])
         operation == conn[c].request.ask.operation
     IN  listing' = [listing EXCEPT ![c] =
           IF listing[c].stage # "going" THEN listing[c]
           ELSE IF ~Is("output", read) THEN NoListing
           ELSE WithPage(listing[c], Listed(read.output, operation),
                         stringValue(read.output, "NextToken"))]
  /\ conn' = [conn EXCEPT ![c] = NoConn]
  /\ UNCHANGED <<clock, process, exits, mode, rows, tasks>>

\* -------------------------------- process -------------------------------

Tick ==
  /\ clock < MaxClock /\ clock' = clock + 1
  /\ UNCHANGED <<process, exits, mode, rows, tasks, conn, listing>>

\* A signal closes the listener.
Stop ==
  /\ process = "up" /\ exits < MaxExits /\ process' = "closing"
  /\ UNCHANGED <<clock, exits, mode, rows, tasks, conn, listing>>

\* Then ListenAndServe returns, and main with it: it does not wait for Shutdown.
\* A crash looks the same.  The requests in progress are cut off.
Exit ==
  /\ process # "down" /\ exits < MaxExits
  /\ process' = "down" /\ exits' = exits + 1
  /\ conn' = [c \in Clients |-> NoConn]
  /\ UNCHANGED <<clock, mode, rows, tasks, listing>>

\* Started again on the same database and configuration.
Restart ==
  /\ process = "down" /\ process' = "up"
  /\ UNCHANGED <<clock, exits, mode, rows, tasks, conn, listing>>

Serve(c) ==
  \/ Receive(c) \/ CheckIdentity(c) \/ CheckScope(c) \/ CheckSignature(c)
  \/ Handle(c) \/ Respond(c)

Next ==
  \/ \E c \in Clients : Ask(c) \/ Probe(c) \/ AskNext(c) \/ Serve(c)
  \/ Tick \/ Stop \/ Exit \/ Restart

Spec == Init /\ [][Next]_vars

\* The Go scheduler runs every handler, and none of its steps waits: a request is
\* answered unless the process ends.  (This is what weak fairness of Serve comes to,
\* in a form without ENABLED.)  A client that lists goes on.
FairSpec ==
  /\ Spec
  /\ \A c \in Clients : []<>(conn[c] = NoConn \/ process # "up") /\ WF_vars(AskNext(c))

\* ------------------------------ properties ------------------------------

\* Types; a request in progress is one the client may ask or a page of its listing.
FrontTypeOK ==
  /\ clock \in 0..MaxClock /\ process \in {"up", "closing", "down"} /\ exits \in 0..MaxExits
  /\ mode \in Modes
  /\ DOMAIN rows \subseteq Keys
  /\ \A key \in DOMAIN rows : rows[key].live \in BOOLEAN /\ rows[key].till \in Nat
  /\ DOMAIN tasks \subseteq DOMAIN rows
  /\ \A key \in DOMAIN tasks : tasks[key].started \in 1..MaxTasks /\ tasks[key].running \in BOOLEAN
  /\ \A c \in Clients :
       /\ conn[c].stage \in {"idle", "sent", "received", "known", "scoped", "verified", "handled"}
       /\ listing[c].stage \in {"none", "going", "complete"}
       /\ conn[c] # NoConn =>
            IF conn[c].request.alone THEN listing[c] = NoListing
            ELSE conn[c].request \in Requests[mode][c]
                                      \cup {PageRequest(l) : l \in {listing[c]} \ {NoListing}}

\* The handler is given what the client asked: the members it set, read back from
\* the form, the URL or the JSON body, and the queue it named there or by its path.
\* (protocol/query/decode.go, names.go, protocol/json/codec.go, queueURLFromRequest)
HandledAsMeant ==
  \A c \in Clients :
    LET request == conn[c].request
        http == HTTPOf(request)
        decoded == DecodeRequest(http)
        queue == queueURLFromRequest(decoded.input, http.path)
        named == IF queue = "" THEN decoded.input
                 ELSE Obj(With(decoded.input.object, "QueueUrl", Str(queue)))
    IN  conn[c].stage = "verified" /\ ~request.malformed =>
          /\ decoded.operation = request.ask.operation
          /\ MeaningOf(named) = MeaningOf(request.ask.input)

\* The client reads in its own protocol what the handler answered, an error with
\* its code and status.  (EncodeResponse and EncodeError of both protocols)
ReadAsAnswered ==
  \A c \in Clients :
    conn[c].stage = "handled" =>
      LET read == Reading(conn[c])
      IN  Meant(conn[c].result) =
            IF Is("output", read) THEN [output |-> MeaningOf(read.output)] ELSE read

\* Whatever a request meets on its way, the operation stays the one asked for; a
\* listing handler reads the prefix, the token, the queue and the page size of the
\* client, and the client the page and the token of the handler.
\* (ListQueues, ListDeadLetterSourceQueues behind both protocols)
ListingsCarried ==
  \A c \in Clients :
    LET request == conn[c].request
        asked == request.ask.input
        http == HTTPOf(request)
        decoded == DecodeRequest(http)
        lists == request.ask.operation \in ListingOperations
        read == Reading(conn[c])
    IN  /\ conn[c].stage = "verified" /\ ~Is("error", decoded) =>
             /\ decoded.operation = request.ask.operation
             /\ lists => /\ \A name \in {"QueueNamePrefix", "NextToken"} :
                              stringValue(decoded.input, name) = stringValue(asked, name)
                         /\ queueURLFromRequest(decoded.input, http.path)
                              = stringValue(asked, "QueueUrl")
                         /\ int64Value(decoded.input, "MaxResults", 0)
                              = int64Value(asked, "MaxResults", 0)
        /\ conn[c].stage = "handled" /\ lists /\ Is("output", read) =>
             /\ ~Is("error", conn[c].result)
             /\ Listed(read.output, request.ask.operation)
                  = Listed(conn[c].result.output, request.ask.operation)
             /\ stringValue(read.output, "NextToken")
                  = stringValue(conn[c].result.output, "NextToken")

\* A request is accepted only if it was acceptable by the end of the checks and
\* since their beginning, and refused only if it was not throughout.  Each check
\* reads the clock for itself.  (auth.go: lookupIdentity, validateScope,
\* authenticateQuerySigned)
VerdictRight ==
  [][\A c \in Clients :
       conn[c].stage \in {"received", "known", "scoped"} =>
         /\ conn'[c].stage = "verified" =>
              /\ Acceptable(AuthOf(conn[c]), clock, conn[c].received)
              /\ conn'[c].account = AccountOf[conn[c].request.signing.key]
         /\ conn'[c].stage = "handled" =>
              ~Acceptable(AuthOf(conn[c]), conn[c].received, clock)]_vars

\* Whatever is created and deleted meanwhile and however often a page has to be
\* asked for again: a listing shows only queues of the caller that were there, one
\* it shows twice was pushed on by the creation of an earlier one, and one that was
\* there throughout is missing only if an earlier one was deleted.
\* (ListQueues, ListDeadLetterSourceQueues, encodeNextToken)
ListingAccurate ==
  \A c \in Clients :
    LET l == listing[c]
        Shown(i) == CHOOSE key \in Keys : Str(URL(key)) = l.seen[i]
        Earlier(keys, key) == \E k \in keys : Before(k, key) /\ Eligible(l.request, k)
        shown == {Shown(i) : i \in DOMAIN l.seen}
    IN  l # NoListing =>
          /\ \A key \in shown : Eligible(l.request, key) /\ key \in l.present \cup l.created
          /\ \A i, j \in DOMAIN l.seen :
               i # j /\ Shown(i) = Shown(j) => Earlier(l.created, Shown(i))
          /\ l.stage = "complete" =>
               \A key \in l.due \ (shown \cup l.deleted) : Earlier(l.deleted, key)

\* Paging ends, unless the server does.  (encodeNextToken, decodeNextToken)
ListingEnds ==
  \A c \in Clients :
    listing[c].stage = "going" ~> (listing[c].stage # "going" \/ process # "up")

\* A task that is there can be cancelled by its handle.  README.md:5 and :10 of the
\* repository: clients should work without changing their request shape, and
\* CancelMessageMoveTask is implemented.
CancelFindsTask ==
  \A c \in Clients :
    LET k == conn[c]
        handle == stringValue(k.request.ask.input, "TaskHandle")
    IN  /\ k.stage = "handled"
        /\ k.request.ask.operation = "CancelMessageMoveTask"
        /\ \E key \in Live \cap DOMAIN tasks :
             \E i \in 1..tasks[key].started : TaskHandle(key, i) = handle
        => Is("output", k.result)
=============================================================================
