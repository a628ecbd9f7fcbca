---------------------------- MODULE ShapeRegistry ----------------------------
(***************************************************************************)
(* The table of operations and shapes that both codecs work from            *)
(* (internal/model: registry_gen.go, types.go, registry.go).  A shape       *)
(* refers to the shapes of its members directly; the lists of required      *)
(* members, enumerations and errors are never read at run time and are      *)
(* left out, as are the exceptions, which have only a message.              *)
(***************************************************************************)
EXTENDS Sequences

\* --------------------------- forms of shapes ----------------------------

\* A structure, with its members in memberOrder: <<name, shape>>.
Structure(members) == [type |-> "structure", members |-> members]

List(name, member) == [type |-> "list", name |-> name, member |-> member]

Map(name, value) == [type |-> "map", name |-> name, value |-> value]

Text == [type |-> "string"]

Number == [type |-> "integer"]

Flag == [type |-> "boolean"]

\* The shape of what an operation without input or output reads or returns.
NoShape == [type |-> "none"]

Operation(input, output) == [input |-> input, output |-> output]

\* ------------------------------- shapes ---------------------------------

String == Text
Long == Number
NullableInteger == Number
Boolean == Flag
TagValue == Text
QueueAttributeName == Text
BoxedInteger == Number
Token == Text
NullableLong == Number
MessageAttributeName == Text
MessageSystemAttributeName == Text
Binary == Text
TagKey == Text

AWSAccountIdList == List("AWSAccountIdList", String)
ActionNameList == List("ActionNameList", String)
AddPermissionRequest == Structure(<<
  <<"AWSAccountIds", AWSAccountIdList>>, <<"Actions", ActionNameList>>,
  <<"Label", String>>, <<"QueueUrl", String>>>>)
CancelMessageMoveTaskRequest == Structure(<<<<"TaskHandle", String>>>>)
CancelMessageMoveTaskResult == Structure(<<
  <<"ApproximateNumberOfMessagesMoved", Long>>>>)
ChangeMessageVisibilityRequest == Structure(<<
  <<"QueueUrl", String>>, <<"ReceiptHandle", String>>,
  <<"VisibilityTimeout", NullableInteger>>>>)
ChangeMessageVisibilityBatchRequestEntry == Structure(<<
  <<"Id", String>>, <<"ReceiptHandle", String>>,
  <<"VisibilityTimeout", NullableInteger>>>>)
ChangeMessageVisibilityBatchRequestEntryList ==
  List("ChangeMessageVisibilityBatchRequestEntryList", ChangeMessageVisibilityBatchRequestEntry)
ChangeMessageVisibilityBatchRequest == Structure(<<
  <<"Entries", ChangeMessageVisibilityBatchRequestEntryList>>,
  <<"QueueUrl", String>>>>)
BatchResultErrorEntry == Structure(<<
  <<"Code", String>>, <<"Id", String>>, <<"Message", String>>,
  <<"SenderFault", Boolean>>>>)
BatchResultErrorEntryList ==
  List("BatchResultErrorEntryList", BatchResultErrorEntry)
ChangeMessageVisibilityBatchResultEntry == Structure(<<<<"Id", String>>>>)
ChangeMessageVisibilityBatchResultEntryList ==
  List("ChangeMessageVisibilityBatchResultEntryList", ChangeMessageVisibilityBatchResultEntry)
ChangeMessageVisibilityBatchResult == Structure(<<
  <<"Failed", BatchResultErrorEntryList>>,
  <<"Successful", ChangeMessageVisibilityBatchResultEntryList>>>>)
QueueAttributeMap == Map("QueueAttributeMap", String)
TagMap == Map("TagMap", TagValue)
CreateQueueRequest == Structure(<<
  <<"Attributes", QueueAttributeMap>>, <<"QueueName", String>>,
  <<"tags", TagMap>>>>)
CreateQueueResult == Structure(<<<<"QueueUrl", String>>>>)
DeleteMessageRequest == Structure(<<
  <<"QueueUrl", String>>, <<"ReceiptHandle", String>>>>)
DeleteMessageBatchRequestEntry == Structure(<<
  <<"Id", String>>, <<"ReceiptHandle", String>>>>)
DeleteMessageBatchRequestEntryList ==
  List("DeleteMessageBatchRequestEntryList", DeleteMessageBatchRequestEntry)
DeleteMessageBatchRequest == Structure(<<
  <<"Entries", DeleteMessageBatchRequestEntryList>>, <<"QueueUrl", String>>>>)
DeleteMessageBatchResultEntry == Structure(<<<<"Id", String>>>>)
DeleteMessageBatchResultEntryList ==
  List("DeleteMessageBatchResultEntryList", DeleteMessageBatchResultEntry)
DeleteMessageBatchResult == Structure(<<
  <<"Failed", BatchResultErrorEntryList>>,
  <<"Successful", DeleteMessageBatchResultEntryList>>>>)
DeleteQueueRequest == Structure(<<<<"QueueUrl", String>>>>)
AttributeNameList == List("AttributeNameList", QueueAttributeName)
GetQueueAttributesRequest == Structure(<<
  <<"AttributeNames", AttributeNameList>>, <<"QueueUrl", String>>>>)
GetQueueAttributesResult == Structure(<<<<"Attributes", QueueAttributeMap>>>>)
GetQueueUrlRequest == Structure(<<
  <<"QueueName", String>>, <<"QueueOwnerAWSAccountId", String>>>>)
GetQueueUrlResult == Structure(<<<<"QueueUrl", String>>>>)
ListDeadLetterSourceQueuesRequest == Structure(<<
  <<"MaxResults", BoxedInteger>>, <<"NextToken", Token>>,
  <<"QueueUrl", String>>>>)
QueueUrlList == List("QueueUrlList", String)
ListDeadLetterSourceQueuesResult == Structure(<<
  <<"NextToken", Token>>, <<"queueUrls", QueueUrlList>>>>)
ListMessageMoveTasksRequest == Structure(<<
  <<"MaxResults", NullableInteger>>, <<"SourceArn", String>>>>)
ListMessageMoveTasksResultEntry == Structure(<<
  <<"ApproximateNumberOfMessagesMoved", Long>>,
  <<"ApproximateNumberOfMessagesToMove", NullableLong>>,
  <<"DestinationArn", String>>, <<"FailureReason", String>>,
  <<"MaxNumberOfMessagesPerSecond", NullableInteger>>,
  <<"SourceArn", String>>, <<"StartedTimestamp", Long>>,
  <<"Status", String>>, <<"TaskHandle", String>>>>)
ListMessageMoveTasksResultEntryList ==
  List("ListMessageMoveTasksResultEntryList", ListMessageMoveTasksResultEntry)
ListMessageMoveTasksResult == Structure(<<
  <<"Results", ListMessageMoveTasksResultEntryList>>>>)
ListQueueTagsRequest == Structure(<<<<"QueueUrl", String>>>>)
ListQueueTagsResult == Structure(<<<<"Tags", TagMap>>>>)
ListQueuesRequest == Structure(<<
  <<"MaxResults", BoxedInteger>>, <<"NextToken", Token>>,
  <<"QueueNamePrefix", String>>>>)
ListQueuesResult == Structure(<<
  <<"NextToken", Token>>, <<"QueueUrls", QueueUrlList>>>>)
PurgeQueueRequest == Structure(<<<<"QueueUrl", String>>>>)
MessageAttributeNameList ==
  List("MessageAttributeNameList", MessageAttributeName)
MessageSystemAttributeList ==
  List("MessageSystemAttributeList", MessageSystemAttributeName)
ReceiveMessageRequest == Structure(<<
  <<"AttributeNames", AttributeNameList>>,
  <<"MaxNumberOfMessages", NullableInteger>>,
  <<"MessageAttributeNames", MessageAttributeNameList>>,
  <<"MessageSystemAttributeNames", MessageSystemAttributeList>>,
  <<"QueueUrl", String>>, <<"ReceiveRequestAttemptId", String>>,
  <<"VisibilityTimeout", NullableInteger>>,
  <<"WaitTimeSeconds", NullableInteger>>>>)
MessageSystemAttributeMap == Map("MessageSystemAttributeMap", String)
BinaryList == List("BinaryList", Binary)
StringList == List("StringList", String)
MessageAttributeValue == Structure(<<
  <<"BinaryListValues", BinaryList>>, <<"BinaryValue", Binary>>,
  <<"DataType", String>>, <<"StringListValues", StringList>>,
  <<"StringValue", String>>>>)
MessageBodyAttributeMap ==
  Map("MessageBodyAttributeMap", MessageAttributeValue)
Message == Structure(<<
  <<"Attributes", MessageSystemAttributeMap>>, <<"Body", String>>,
  <<"MD5OfBody", String>>, <<"MD5OfMessageAttributes", String>>,
  <<"MessageAttributes", MessageBodyAttributeMap>>, <<"MessageId", String>>,
  <<"ReceiptHandle", String>>>>)
MessageList == List("MessageList", Message)
ReceiveMessageResult == Structure(<<<<"Messages", MessageList>>>>)
RemovePermissionRequest == Structure(<<
  <<"Label", String>>, <<"QueueUrl", String>>>>)
MessageSystemAttributeValue == Structure(<<
  <<"BinaryListValues", BinaryList>>, <<"BinaryValue", Binary>>,
  <<"DataType", String>>, <<"StringListValues", StringList>>,
  <<"StringValue", String>>>>)
MessageBodySystemAttributeMap ==
  Map("MessageBodySystemAttributeMap", MessageSystemAttributeValue)
SendMessageRequest == Structure(<<
  <<"DelaySeconds", NullableInteger>>,
  <<"MessageAttributes", MessageBodyAttributeMap>>,
  <<"MessageBody", String>>, <<"MessageDeduplicationId", String>>,
  <<"MessageGroupId", String>>,
  <<"MessageSystemAttributes", MessageBodySystemAttributeMap>>,
  <<"QueueUrl", String>>>>)
SendMessageResult == Structure(<<
  <<"MD5OfMessageAttributes", String>>, <<"MD5OfMessageBody", String>>,
  <<"MD5OfMessageSystemAttributes", String>>, <<"MessageId", String>>,
  <<"SequenceNumber", String>>>>)
SendMessageBatchRequestEntry == Structure(<<
  <<"DelaySeconds", NullableInteger>>, <<"Id", String>>,
  <<"MessageAttributes", MessageBodyAttributeMap>>,
  <<"MessageBody", String>>, <<"MessageDeduplicationId", String>>,
  <<"MessageGroupId", String>>,
  <<"MessageSystemAttributes", MessageBodySystemAttributeMap>>>>)
SendMessageBatchRequestEntryList ==
  List("SendMessageBatchRequestEntryList", SendMessageBatchRequestEntry)
SendMessageBatchRequest == Structure(<<
  <<"Entries", SendMessageBatchRequestEntryList>>, <<"QueueUrl", String>>>>)
SendMessageBatchResultEntry == Structure(<<
  <<"Id", String>>, <<"MD5OfMessageAttributes", String>>,
  <<"MD5OfMessageBody", String>>,
  <<"MD5OfMessageSystemAttributes", String>>, <<"MessageId", String>>,
  <<"SequenceNumber", String>>>>)
SendMessageBatchResultEntryList ==
  List("SendMessageBatchResultEntryList", SendMessageBatchResultEntry)
SendMessageBatchResult == Structure(<<
  <<"Failed", BatchResultErrorEntryList>>,
  <<"Successful", SendMessageBatchResultEntryList>>>>)
SetQueueAttributesRequest == Structure(<<
  <<"Attributes", QueueAttributeMap>>, <<"QueueUrl", String>>>>)
StartMessageMoveTaskRequest == Structure(<<
  <<"DestinationArn", String>>,
  <<"MaxNumberOfMessagesPerSecond", NullableInteger>>,
  <<"SourceArn", String>>>>)
StartMessageMoveTaskResult == Structure(<<<<"TaskHandle", String>>>>)
TagQueueRequest == Structure(<<<<"QueueUrl", String>>, <<"Tags", TagMap>>>>)
TagKeyList == List("TagKeyList", TagKey)
UntagQueueRequest == Structure(<<
  <<"QueueUrl", String>>, <<"TagKeys", TagKeyList>>>>)

\* ----------------------------- operations -------------------------------

\* The 23 operations, each with what it reads and what it returns.
Operations == [
  AddPermission |-> Operation(AddPermissionRequest, NoShape),
  CancelMessageMoveTask |-> Operation(CancelMessageMoveTaskRequest, CancelMessageMoveTaskResult),
  ChangeMessageVisibility |-> Operation(ChangeMessageVisibilityRequest, NoShape),
  ChangeMessageVisibilityBatch |-> Operation(ChangeMessageVisibilityBatchRequest, ChangeMessageVisibilityBatchResult),
  CreateQueue |-> Operation(CreateQueueRequest, CreateQueueResult),
  DeleteMessage |-> Operation(DeleteMessageRequest, NoShape),
  DeleteMessageBatch |-> Operation(DeleteMessageBatchRequest, DeleteMessageBatchResult),
  DeleteQueue |-> Operation(DeleteQueueRequest, NoShape),
  GetQueueAttributes |-> Operation(GetQueueAttributesRequest, GetQueueAttributesResult),
  GetQueueUrl |-> Operation(GetQueueUrlRequest, GetQueueUrlResult),
  ListDeadLetterSourceQueues |-> Operation(ListDeadLetterSourceQueuesRequest, ListDeadLetterSourceQueuesResult),
  ListMessageMoveTasks |-> Operation(ListMessageMoveTasksRequest, ListMessageMoveTasksResult),
  ListQueueTags |-> Operation(ListQueueTagsRequest, ListQueueTagsResult),
  ListQueues |-> Operation(ListQueuesRequest, ListQueuesResult),
  PurgeQueue |-> Operation(PurgeQueueRequest, NoShape),
  ReceiveMessage |-> Operation(ReceiveMessageRequest, ReceiveMessageResult),
  RemovePermission |-> Operation(RemovePermissionRequest, NoShape),
  SendMessage |-> Operation(SendMessageRequest, SendMessageResult),
  SendMessageBatch |-> Operation(SendMessageBatchRequest, SendMessageBatchResult),
  SetQueueAttributes |-> Operation(SetQueueAttributesRequest, NoShape),
  StartMessageMoveTask |-> Operation(StartMessageMoveTaskRequest, StartMessageMoveTaskResult),
  TagQueue |-> Operation(TagQueueRequest, NoShape),
  UntagQueue |-> Operation(UntagQueueRequest, NoShape)]

\* Registry.TargetPrefix and Registry.ActionFromTarget: the operation a target
\* header names, if it is one of the table.
ActionFromTarget(target) ==
  IF target.prefix = "AmazonSQS" /\ target.operation \in DOMAIN Operations
  THEN {target.operation} ELSE {}

IsOperation(name) == name \in DOMAIN Operations
=============================================================================
