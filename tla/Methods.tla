------------------------------ MODULE Methods ------------------------------
(***************************************************************************)
(* The calls the adapters intercept, one record per wrapped method of      *)
(* adapter/*, and chaos.Point.  Every method has the same skeleton: ask    *)
(* Enabled, Eval the operation, run Before; when Before returns an error,  *)
(* report it and return it in the library's own error model, otherwise     *)
(* make the wrapped call, report its outcome and return it.  The record    *)
(* holds what differs from method to method:                               *)
(*                                                                         *)
(*   op       what the rules match on: kind, method and attribute keys     *)
(*            (names and attribute values are left out)                    *)
(*   takes    the caller hands the method a context                        *)
(*   ctx      the context Before sleeps against                            *)
(*   native   per error of Before, what the caller gets                    *)
(*   resume   errors of Before after which the wrapped call is still made  *)
(*   early    those of them that are reported before the call, as no error *)
(*   charge   per error of Before that ends the call, what the budget gets *)
(*   finish   the order of Outcome and After                               *)
(*   counts   per result of the wrapped call, what the budget gets         *)
(*   conn     the method runs on one connection, which the caller keeps    *)
(*   closes   ConnDrop closes that connection                              *)
(*   calls    there is a wrapped call at all                               *)
(***************************************************************************)
EXTENDS Sequences

(* The errors a fault chain can end with, and what a wrapped call can give. *)
Errors == {"ctx", "error", "connDrop", "disconnect", "status4xx", "status5xx",
           "header", "slow", "truncate"}
Results == {"ok", "response5xx", "fail"}

Op(kind, method, attrs) == [kind |-> kind, method |-> method, attrs |-> attrs]

(* What most adapters do with a fault: ConnDrop becomes the library's lost- *)
(* connection error, the rest passes through.                              *)
DropAs(native) == [e \in Errors |-> IF e = "connDrop" THEN native ELSE e]

Failed(r) == IF r = "fail" THEN "failure" ELSE "success"

Intercept(op, ctx, native, finish) ==
  [op |-> op, takes |-> ctx = "caller", ctx |-> ctx, native |-> native, resume |-> {}, early |-> {},
   charge |-> [e \in Errors |-> "failure"], finish |-> finish,
   counts |-> [r \in Results |-> Failed(r)], results |-> {"ok", "fail"},
   conn |-> FALSE, closes |-> FALSE, calls |-> TRUE]

(* The wrapped call's own error surfaces later, from the value it returned. *)
Deferred(m) == [m EXCEPT !.counts = [r \in Results |-> "success"]]

-----------------------------------------------------------------------------
(* adapter/kafka *)
KafkaMapErr == DropAs("io.ErrUnexpectedEOF")
\* the slot goes back before the outcome is on record
KafkaReleaseFirst == <<"after", "outcome">>
KafkaReportOutcome == <<"outcome", "after">>
KafkaWriterOp == Op("kafka", "write", {})
KafkaReaderOp(method) == Op("kafka", method, {"group"})
KafkaWriteMessages == Intercept(KafkaWriterOp, "caller", KafkaMapErr, KafkaReportOutcome)
KafkaReadMessage   == Intercept(KafkaReaderOp("read"), "caller", KafkaMapErr, KafkaReportOutcome)
KafkaFetchMessage  == Intercept(KafkaReaderOp("fetch"), "caller", KafkaMapErr, KafkaReportOutcome)
KafkaCommitMessages == Intercept(KafkaReaderOp("commit"), "caller", KafkaMapErr, KafkaReportOutcome)

(* adapter/rabbitmq: only PublishWithContext has a context to sleep against *)
RabbitMapErr == DropAs("amqp.ErrClosed")
RabbitReportOutcome == <<"outcome", "after">>
RabbitOp(method, attrs) == Op("rabbitmq", method, attrs)
RabbitPublishWithContext ==
  Intercept(RabbitOp("publish", {"exchange", "routing_key"}), "caller",
            RabbitMapErr, RabbitReportOutcome)
RabbitPublish == [RabbitPublishWithContext EXCEPT !.takes = FALSE, !.ctx = "background"]
RabbitConsume == Intercept(RabbitOp("consume", {"queue"}), "background",
                           RabbitMapErr, RabbitReportOutcome)
RabbitAck     == Intercept(RabbitOp("ack", {}), "background", RabbitMapErr, RabbitReportOutcome)
RabbitNack    == Intercept(RabbitOp("nack", {}), "background", RabbitMapErr, RabbitReportOutcome)
RabbitChannel == Intercept(RabbitOp("channel", {}), "background",
                           RabbitMapErr, RabbitReportOutcome)

(* adapter/nats *)
NatsMapErr == DropAs("nats.ErrConnectionClosed")
NatsReportOutcome == <<"outcome", "after">>
NatsOp(method, queue) == Op("nats", method, IF queue THEN {"queue"} ELSE {})
NatsPublish   == Intercept(NatsOp("publish", FALSE), "background", NatsMapErr, NatsReportOutcome)
NatsRequest   == Intercept(NatsOp("request", FALSE), "background", NatsMapErr, NatsReportOutcome)
NatsDrain     == Intercept(NatsOp("drain", FALSE), "background", NatsMapErr, NatsReportOutcome)
NatsSubscribe == Intercept(NatsOp("subscribe", FALSE), "background",
                           NatsMapErr, NatsReportOutcome)
NatsQueueSubscribe == Intercept(NatsOp("subscribe", TRUE), "background",
                                NatsMapErr, NatsReportOutcome)
NatsDial      == Intercept(NatsOp("dial", FALSE), "background", NatsMapErr, NatsReportOutcome)

(* adapter/redis: a pipeline that is empty goes straight to the client *)
RedisMapErr == DropAs("net.OpError{read}")
RedisReportOutcome == <<"outcome", "after">>
\* the hook sleeps against its own context
RedisProcessHookBackground ==
  [Intercept(Op("redis", "single", {"key"}), "background", RedisMapErr, RedisReportOutcome)
     EXCEPT !.takes = TRUE]
RedisProcessHook == Intercept(Op("redis", "single", {"key"}), "caller",
                              RedisMapErr, RedisReportOutcome)
RedisDialHook == Intercept(Op("redis", "dial", {}), "caller", RedisMapErr, RedisReportOutcome)
RedisPipelineMethods == {"pipeline", "tx"}
RedisProcessPipelineHook(method) ==
  Intercept(Op("redis", method, {}), "caller", RedisMapErr, RedisReportOutcome)

(* adapter/mongo: before reports a fault itself; FindOne carries it in the  *)
(* SingleResult it returns.  The method is always "command", which command  *)
(* it is (insert, find, ...) is the operation's name.                       *)
MongoMapErr == DropAs("mongo.CommandError{NetworkError}")
MongoReportOutcome == <<"outcome", "after">>
MongoOp == Op("mongo", "command", {"db", "coll"})
MongoBefore == Intercept(MongoOp, "caller", MongoMapErr, MongoReportOutcome)
MongoInsertOne == MongoBefore
MongoFindOne   == MongoBefore
MongoFind      == MongoBefore
MongoAggregate == MongoBefore
MongoUpdateOne == MongoBefore
MongoDeleteOne == MongoBefore

(* adapter/aws *)
AwsMapErr == DropAs("net.OpError{dial}")
AwsReportOutcome == <<"outcome", "after">>
AwsOp == Op("aws", "request", {"service", "operation", "region"})
AwsHandleFinalize == Intercept(AwsOp, "caller", AwsMapErr, AwsReportOutcome)
AwsHandleBuild    == Intercept(AwsOp, "caller", AwsMapErr, AwsReportOutcome)

-----------------------------------------------------------------------------
(* adapter/grpc: an error that is not a status becomes codes.Internal *)
GrpcToStatus == [e \in Errors |-> IF e = "connDrop" THEN "codes.Unavailable" ELSE "codes.Internal"]
GrpcReportOutcome == <<"outcome", "after">>
GrpcUnaryClient  == Intercept(Op("grpc.client", "unary", {}), "caller",
                              GrpcToStatus, GrpcReportOutcome)
GrpcUnaryServer  == Intercept(Op("grpc.server", "unary", {}), "caller",
                              GrpcToStatus, GrpcReportOutcome)
GrpcStreamClient == Intercept(Op("grpc.client", "stream", {}), "caller",
                              GrpcToStatus, GrpcReportOutcome)
GrpcStreamServer == Intercept(Op("grpc.server", "stream", {}), "caller",
                              GrpcToStatus, GrpcReportOutcome)

(* adapter/net: the one adapter that gives Disconnect a native form *)
NetMapErr == [DropAs("net.OpError{unexpected EOF}") EXCEPT !["disconnect"] = "net.OpError{EOF}"]
NetReportOutcome == <<"outcome", "after">>
NetOp(method) == Op("net", method, {"network"})
NetRead  == Intercept(NetOp("read"), "background", NetMapErr, NetReportOutcome)
NetWrite == Intercept(NetOp("write"), "background", NetMapErr, NetReportOutcome)
NetDialContext == Intercept(NetOp("dial"), "caller", NetMapErr, NetReportOutcome)

(* adapter/io: a stream fault is reported as a success at once and then     *)
(* shapes the call (Stream has the bytes); the others are returned as they  *)
(* are, ConnDrop included                                                  *)
IoReportOutcome == <<"outcome", "after">>
IoOp(method) == Op("io", method, {})
IoShaped(method) ==
  [Intercept(IoOp(method), "background", [e \in Errors |-> e], IoReportOutcome)
     EXCEPT !.resume = {"slow", "truncate"}, !.early = {"slow", "truncate"}]
IoRead  == IoShaped("read")
IoWrite == IoShaped("write")

-----------------------------------------------------------------------------
(* adapter/http: a status fault becomes a response, which counts against   *)
(* the budget from 500 on; a header fault lets the request go on           *)
HttpTranslateError == [e \in Errors |-> IF e = "connDrop" THEN "net.OpError{dial}" ELSE "url.Error"]
HttpSynthResponse(native) == 
  [native EXCEPT !["status4xx"] = "response4xx", !["status5xx"] = "response5xx"]
HttpReportOutcome == <<"outcome">>
\* a synthesized response is never reported as an error
HttpRoundTripUncharged ==
  [Intercept(Op("http.client", "METHOD", {"host"}), "caller",
             HttpSynthResponse(HttpTranslateError), HttpReportOutcome \o <<"after">>)
     EXCEPT !.resume = {"header"}, !.charge["status4xx"] = "success",
            !.charge["status5xx"] = "success", !.results = Results]
HttpRoundTrip ==
  [Intercept(Op("http.client", "METHOD", {"host"}), "caller",
             HttpSynthResponse(HttpTranslateError), HttpReportOutcome \o <<"after">>)
     EXCEPT !.resume = {"header"}, !.charge["status4xx"] = "success",
            !.results = Results]

(* adapter/httpsrv: the client sees what handleErr renders; a response of   *)
(* the handler counts as a failure from 500 on                             *)
HttpsrvHandleErr(hijacker) ==
  [e \in Errors |-> CASE e = "status4xx" -> "response4xx"
                      [] e = "connDrop" /\ hijacker -> "connection closed"
                      [] OTHER -> "response5xx"]
HttpsrvReportOutcome == <<"outcome">>
HttpsrvStatus(r) == IF r = "response5xx" THEN "failure" ELSE "success"
HttpsrvMiddleware(hijacker) ==
  [Intercept(Op("http.server", "METHOD", {"remote"}), "caller",
             HttpsrvHandleErr(hijacker), HttpsrvReportOutcome \o <<"after">>)
     EXCEPT !.resume = {"header"}, !.results = {"ok", "response5xx"},
            !.counts = [r \in Results |-> HttpsrvStatus(r)]]

(* chaos.Point: no wrapped call, and After comes before Outcome *)
PointWith ==
  [Intercept(Op("explicit", "", {}), "caller", [e \in Errors |-> e], <<"after", "outcome">>)
     EXCEPT !.calls = FALSE]
Point == PointWith

-----------------------------------------------------------------------------
(* adapter/pgx: a pool reports and translates; a connection or transaction  *)
(* also closes what it runs on when the fault is ConnDrop.  QueryRow and    *)
(* SendBatch return before the server's answer is known.                   *)
PgxTranslate == DropAs("net.OpError{read}")
PgxFinish == <<"outcome", "after">>
PgxOpQuery(method) == Op("pgx", method, {"table", "args", "tx", "sql"})
PgxOpBatch == Op("pgx", "batch", {"batch_size", "tx"})
PgxOpBegin == Op("pgx", "begin", {"iso_level", "access_mode", "deferrable"})
PgxOpAcquire == Op("pgx", "acquire", {})
PgxDirect(op) == Intercept(op, "caller", PgxTranslate, PgxFinish)

PgxPoolQuery     == PgxDirect(PgxOpQuery("query"))
PgxPoolExec      == PgxDirect(PgxOpQuery("exec"))
PgxPoolQueryRow  == Deferred(PgxDirect(PgxOpQuery("queryrow")))
PgxPoolSendBatch == Deferred(PgxDirect(PgxOpBatch))
PgxPoolBegin     == PgxDirect(PgxOpBegin)
PgxPoolBeginTx   == PgxDirect(PgxOpBegin)
PgxPoolAcquire   == PgxDirect(PgxOpAcquire)

\* the sentinel is looked for in the translated error
PgxConnRunChaosTranslated(op) == [PgxDirect(op) EXCEPT !.conn = TRUE]
PgxConnRunChaos(op) == [PgxDirect(op) EXCEPT !.conn = TRUE, !.closes = TRUE]
PgxConnQuery     == PgxConnRunChaos(PgxOpQuery("query"))
PgxConnExec      == PgxConnRunChaos(PgxOpQuery("exec"))
PgxConnQueryRow  == Deferred(PgxConnRunChaos(PgxOpQuery("queryrow")))
PgxConnSendBatch == Deferred(PgxConnRunChaos(PgxOpBatch))
PgxConnBegin     == PgxConnRunChaos(PgxOpBegin)
PgxConnBeginTx   == PgxConnRunChaos(PgxOpBegin)

PgxTxRunChaos(op) == [PgxDirect(op) EXCEPT !.conn = TRUE, !.closes = TRUE]
PgxTxQuery     == PgxTxRunChaos(PgxOpQuery("query"))
PgxTxExec      == PgxTxRunChaos(PgxOpQuery("exec"))
PgxTxQueryRow  == Deferred(PgxTxRunChaos(PgxOpQuery("queryrow")))
PgxTxSendBatch == Deferred(PgxTxRunChaos(PgxOpBatch))

(* adapter/sql, on a connection that executes directly and on a statement   *)
(* (which has no context); SqlDriver has the choice between the two         *)
SqlTranslate == DropAs("driver.ErrBadConn")
SqlReportOutcome == <<"outcome", "after">>
SqlConnRunChaos == Intercept(Op("sql", "VERB", {"query"}), "caller", SqlTranslate, SqlReportOutcome)
SqlStmtRunChaos == [SqlConnRunChaos EXCEPT !.takes = FALSE, !.ctx = "background"]

-----------------------------------------------------------------------------
BrokerMethods ==
  {KafkaWriteMessages, KafkaReadMessage, KafkaFetchMessage, KafkaCommitMessages,
   RabbitPublishWithContext, RabbitPublish, RabbitConsume, RabbitAck, RabbitNack,
   RabbitChannel, NatsPublish, NatsRequest, NatsDrain, NatsSubscribe,
   NatsQueueSubscribe, NatsDial}
StoreMethods ==
  {RedisProcessHook, RedisDialHook, MongoInsertOne, MongoFindOne, MongoFind,
   MongoAggregate, MongoUpdateOne, MongoDeleteOne, AwsHandleFinalize,
   AwsHandleBuild, SqlConnRunChaos, SqlStmtRunChaos}
  \cup {RedisProcessPipelineHook(method) : method \in RedisPipelineMethods}
PgxMethods ==
  {PgxPoolQuery, PgxPoolExec, PgxPoolQueryRow, PgxPoolSendBatch, PgxPoolBegin,
   PgxPoolBeginTx, PgxPoolAcquire, PgxConnQuery, PgxConnExec, PgxConnQueryRow,
   PgxConnSendBatch, PgxConnBegin, PgxConnBeginTx, PgxTxQuery, PgxTxExec,
   PgxTxQueryRow, PgxTxSendBatch}
WireMethods ==
  {GrpcUnaryClient, GrpcUnaryServer, GrpcStreamClient, GrpcStreamServer,
   NetRead, NetWrite, NetDialContext, IoRead, IoWrite, HttpRoundTrip, Point}
  \cup {HttpsrvMiddleware(hijacker) : hijacker \in BOOLEAN}
AllMethods == BrokerMethods \cup StoreMethods \cup PgxMethods \cup WireMethods

=============================================================================
