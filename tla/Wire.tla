-------------------------------- MODULE Wire --------------------------------
(***************************************************************************)
(* The generated code of proto/: how a method of the client stub reaches   *)
(* the method of quashserver.Server, by way of a name on the wire and of   *)
(* the tables gRPC looks the name up in.  Encoding is the library's.       *)
(***************************************************************************)
EXTENDS Naturals, Sequences, Functions

\* interface QuashServiceServer: what quashserver.Server has to implement.
Unary == {"SetKV", "GetKV", "DeleteKV", "CreateTopic", "RemoveTopic",
          "AddSubscriber", "RemoveSubscriber"}
Streaming == {"Publish", "Consume"}
Methods == Unary \cup Streaming

\* The message types, numbered from 1 here, and the methods' input and output
\* types by their index.
goTypes ==
  << "SetKVRequest", "SetKVResponse", "GetKVRequest", "GetKVResponse",
     "DeleteKVRequest", "DeleteKVResponse", "PublishRequest",
     "PublishResponse", "ConsumeRequest", "ConsumeResponse",
     "QueueTopicListResponse", "QueueMetric", "QueueTopicMetricResponse",
     "QueryTopicListRequest", "QueryTopicMetricRequest",
     "CreateTopicRequest", "CreateTopicResponse", "RemoveTopicRequest",
     "RemoveTopicResponse", "AddSubscriberRequest", "AddSubscriberResponse",
     "RemoveSubscriberRequest", "RemoveSubscriberResponse",
     "QueueMetricEntry", "QueueTopicMetricEntry" >>

inputIdx ==
  [SetKV |-> 0, GetKV |-> 2, DeleteKV |-> 4, CreateTopic |-> 15,
   RemoveTopic |-> 17, AddSubscriber |-> 19, RemoveSubscriber |-> 21,
   Publish |-> 6, Consume |-> 8]

\* A method's output type follows its input type.
Input(m) == goTypes[inputIdx[m] + 1]
Output(m) == goTypes[inputIdx[m] + 2]

\* "/quash_proto.QuashService/SetKV": the name of a service and of a method.
FullMethodName ==
  [SetKV            |-> <<"quash_proto.QuashService", "SetKV">>,
   GetKV            |-> <<"quash_proto.QuashService", "GetKV">>,
   DeleteKV         |-> <<"quash_proto.QuashService", "DeleteKV">>,
   CreateTopic      |-> <<"quash_proto.QuashService", "CreateTopic">>,
   RemoveTopic      |-> <<"quash_proto.QuashService", "RemoveTopic">>,
   AddSubscriber    |-> <<"quash_proto.QuashService", "AddSubscriber">>,
   RemoveSubscriber |-> <<"quash_proto.QuashService", "RemoveSubscriber">>,
   Publish          |-> <<"quash_proto.QuashService", "Publish">>,
   Consume          |-> <<"quash_proto.QuashService", "Consume">>]

\* A handler decodes the request into a new message of its type, and calls a
\* method of the server.
Handler(type, method) == [decodes |-> type, runs |-> method]

UnaryHandler ==
  [SetKV            |-> Handler("SetKVRequest", "SetKV"),
   GetKV            |-> Handler("GetKVRequest", "GetKV"),
   DeleteKV         |-> Handler("DeleteKVRequest", "DeleteKV"),
   CreateTopic      |-> Handler("CreateTopicRequest", "CreateTopic"),
   RemoveTopic      |-> Handler("RemoveTopicRequest", "RemoveTopic"),
   AddSubscriber    |-> Handler("AddSubscriberRequest", "AddSubscriber"),
   RemoveSubscriber |-> Handler("RemoveSubscriberRequest", "RemoveSubscriber")]

StreamHandler ==
  [Publish |-> Handler("PublishRequest", "Publish"),
   Consume |-> Handler("ConsumeRequest", "Consume")]

Entry(name, handler) == [name |-> name, handler |-> handler]

\* The names the server answers to, with the handler of each.
ServiceDesc ==
  [name |-> "quash_proto.QuashService",
   methods |->
     <<Entry("SetKV", UnaryHandler.SetKV),
       Entry("GetKV", UnaryHandler.GetKV),
       Entry("DeleteKV", UnaryHandler.DeleteKV),
       Entry("CreateTopic", UnaryHandler.CreateTopic),
       Entry("RemoveTopic", UnaryHandler.RemoveTopic),
       Entry("AddSubscriber", UnaryHandler.AddSubscriber),
       Entry("RemoveSubscriber", UnaryHandler.RemoveSubscriber)>>,
   streams |->
     <<Entry("Publish", StreamHandler.Publish),
       Entry("Consume", StreamHandler.Consume)>>]

\* RegisterQuashServiceServer: the services the server knows, by name.
Registered == {ServiceDesc}

-----------------------------------------------------------------------------

\* A unary stub: the request, and room for the response, of its types.
Invoke ==
  [m \in Unary |-> [name |-> FullMethodName[m], in |-> Input(m),
                    out |-> Output(m)]]

\* A streaming stub opens a stream by its place in ServiceDesc.streams.
NewStream ==
  [Publish |-> [desc |-> 1, name |-> FullMethodName["Publish"]],
   Consume |-> [desc |-> 2, name |-> FullMethodName["Consume"]]]

\* grpc's server finds the service by its name, then the method among the
\* unary and the streaming ones.
Dispatch(name) ==
  LET sd == CHOOSE d \in Registered : d.name = name[1]
      found == {e \in Range(sd.methods \o sd.streams) : e.name = name[2]} IN
  IF found # {} THEN (CHOOSE e \in found : TRUE).handler
                ELSE Handler("none", "Unimplemented")
=============================================================================
