--------------------------- MODULE AdaptersProofs ---------------------------
(***************************************************************************)
(* Proofs about Adapters, for any number of callers, any fault chains and  *)
(* any cap.                                                                *)
(***************************************************************************)
EXTENDS Adapters, SequenceTheorems, TLAPS

(* The two steps a method settles its call with, in its order. *)
First(m)  == IF m.op.kind = "explicit" THEN "after" ELSE "outcome"
Second(m) == IF m.op.kind = "explicit" THEN "outcome" ELSE "after"

Ordered(m) == m.finish = <<First(m), Second(m)>>

(* A concatenation, spelled out. *)
LEMMA Spelled ==
  ASSUME NEW S, NEW s \in Seq(S), NEW t \in Seq(S), NEW u \in Seq(S), Len(u) = Len(s) + Len(t),
         \A i \in 1 .. Len(s) : u[i] = s[i], \A i \in 1 .. Len(t) : u[Len(s) + i] = t[i]
  PROVE  s \o t = u
<1>1. s \o t \in Seq(S) /\ Len(s \o t) = Len(u)
  BY ConcatProperties
<1>2. ASSUME NEW i \in 1 .. Len(s \o t) PROVE (s \o t)[i] = u[i]
  <2>1. Len(s) \in Nat /\ Len(t) \in Nat /\ i \in 1 .. Len(s) + Len(t)
    BY <1>1
  <2>2. (s \o t)[i] = IF i <= Len(s) THEN s[i] ELSE t[i - Len(s)]
    BY <2>1, ConcatProperties
  <2>3. CASE i <= Len(s)
    BY <2>1, <2>2, <2>3
  <2>4. CASE i > Len(s)
    <3>1. i - Len(s) \in 1 .. Len(t) /\ Len(s) + (i - Len(s)) = i
      BY <2>1, <2>4
    <3>2. (s \o t)[i] = t[i - Len(s)]
      BY <2>1, <2>2, <2>4
    <3> QED
      BY <3>1, <3>2
  <2> QED
    BY <2>1, <2>3, <2>4
<1> QED
  BY <1>1, <1>2, SeqEqual

LEMMA OneTwo ==
  ASSUME NEW a, NEW b, NEW c
  PROVE  <<a>> \o <<b, c>> = <<a, b, c>>
<1> DEFINE S == {a, b, c}
<1>0. a \in S /\ b \in S /\ c \in S
  OBVIOUS
<1> HIDE DEF S
<1> DEFINE s == <<a>> t == <<b, c>> u == <<a, b, c>>
<1>1. s \in Seq(S) /\ t \in Seq(S) /\ u \in Seq(S) /\ Len(s) = 1 /\ Len(t) = 2 /\ Len(u) = 3
  BY <1>0
<1>2. \A i \in 1 .. 1 : u[i] = s[i]
  OBVIOUS
<1>3. \A i \in 1 .. 2 : u[1 + i] = t[i]
  OBVIOUS
<1> HIDE DEF s, t, u
<1>4. Len(u) = Len(s) + Len(t)
  BY <1>1
<1>5. (\A i \in 1 .. Len(s) : u[i] = s[i]) /\ (\A i \in 1 .. Len(t) : u[Len(s) + i] = t[i])
  BY <1>1, <1>2, <1>3
<1>6. s \o t = u
  BY <1>1, <1>4, <1>5, Spelled, Zenon
<1> QED
  BY <1>6 DEF s, t, u

LEMMA TwoOne ==
  ASSUME NEW a, NEW b, NEW c
  PROVE  <<a, b>> \o <<c>> = <<a, b, c>>
<1> DEFINE S == {a, b, c}
<1>0. a \in S /\ b \in S /\ c \in S
  OBVIOUS
<1> HIDE DEF S
<1> DEFINE s == <<a, b>> t == <<c>> u == <<a, b, c>>
<1>1. s \in Seq(S) /\ t \in Seq(S) /\ u \in Seq(S) /\ Len(s) = 2 /\ Len(t) = 1 /\ Len(u) = 3
  BY <1>0
<1>2. \A i \in 1 .. 2 : u[i] = s[i]
  OBVIOUS
<1>3. \A i \in 1 .. 1 : u[2 + i] = t[i]
  OBVIOUS
<1> HIDE DEF s, t, u
<1>4. Len(u) = Len(s) + Len(t)
  BY <1>1
<1>5. (\A i \in 1 .. Len(s) : u[i] = s[i]) /\ (\A i \in 1 .. Len(t) : u[Len(s) + i] = t[i])
  BY <1>1, <1>2, <1>3
<1>6. s \o t = u
  BY <1>1, <1>4, <1>5, Spelled, Zenon
<1> QED
  BY <1>6 DEF s, t, u

LEMMA OneOne ==
  ASSUME NEW a, NEW b
  PROVE  <<a>> \o <<b>> = <<a, b>>
<1> DEFINE S == {a, b}
<1>0. a \in S /\ b \in S
  OBVIOUS
<1> HIDE DEF S
<1> DEFINE s == <<a>> t == <<b>> u == <<a, b>>
<1>1. s \in Seq(S) /\ t \in Seq(S) /\ u \in Seq(S) /\ Len(s) = 1 /\ Len(t) = 1 /\ Len(u) = 2
  BY <1>0
<1>2. \A i \in 1 .. 1 : u[i] = s[i]
  OBVIOUS
<1>3. \A i \in 1 .. 1 : u[1 + i] = t[i]
  OBVIOUS
<1> HIDE DEF s, t, u
<1>4. Len(u) = Len(s) + Len(t)
  BY <1>1
<1>5. (\A i \in 1 .. Len(s) : u[i] = s[i]) /\ (\A i \in 1 .. Len(t) : u[Len(s) + i] = t[i])
  BY <1>1, <1>2, <1>3
<1>6. s \o t = u
  BY <1>1, <1>4, <1>5, Spelled, Zenon
<1> QED
  BY <1>6 DEF s, t, u

LEMMA OneByOne ==
  ASSUME NEW a, NEW b
  PROVE  Append(<< >>, a) = <<a>> /\ Append(<<a>>, b) = <<a, b>>
<1> DEFINE S == {a, b}
<1>0. a \in S /\ b \in S
  OBVIOUS
<1> HIDE DEF S
<1>1. << >> \in Seq(S) /\ <<a>> \in Seq(S)
  BY <1>0
<1>2. Append(<< >>, a) = << >> \o <<a>> /\ Append(<<a>>, b) = <<a>> \o <<b>>
  BY <1>0, <1>1, AppendIsConcat, Zenon
<1>3. << >> \o <<a>> = <<a>>
  OBVIOUS
<1> QED
  BY <1>2, <1>3, OneOne, Zenon

LEMMA NoneTwo ==
  ASSUME NEW a, NEW b
  PROVE  << >> \o <<a, b>> = <<a, b>> /\ <<a, b>> \o << >> = <<a, b>>
  OBVIOUS

LEMMA InterceptOrdered ==
  ASSUME NEW op, NEW ctx, NEW native, NEW f, op.kind # "explicit", f = <<"outcome", "after">>
  PROVE  Ordered(Intercept(op, ctx, native, f))
  BY DEF Ordered, First, Second, Intercept

(* Changing what is not the operation nor the order. *)
LEMMA StillOrdered ==
  ASSUME NEW m, NEW n, Ordered(m), n.op = m.op, n.finish = m.finish
  PROVE  Ordered(n)
  BY DEF Ordered, First, Second

LEMMA OpKind ==
  ASSUME NEW kind, NEW method, NEW attrs
  PROVE  Op(kind, method, attrs).kind = kind
  BY DEF Op

LEMMA BrokersOrdered == \A m \in BrokerMethods : Ordered(m)
<1>1. \A m \in {KafkaWriteMessages, KafkaReadMessage, KafkaFetchMessage, KafkaCommitMessages} : Ordered(m)
  <2> USE InterceptOrdered, OpKind DEF KafkaReportOutcome, KafkaWriterOp, KafkaReaderOp
  <2>1. Ordered(KafkaWriteMessages) BY DEF KafkaWriteMessages
  <2>2. Ordered(KafkaReadMessage) BY DEF KafkaReadMessage
  <2>3. Ordered(KafkaFetchMessage) BY DEF KafkaFetchMessage
  <2>4. Ordered(KafkaCommitMessages) BY DEF KafkaCommitMessages
  <2> HIDE InterceptOrdered, OpKind
  <2> QED BY <2>1, <2>2, <2>3, <2>4
<1>2. ASSUME NEW method, NEW attrs, NEW ctx
      PROVE  Ordered(Intercept(RabbitOp(method, attrs), ctx, RabbitMapErr, RabbitReportOutcome))
  BY InterceptOrdered, OpKind DEF RabbitOp, RabbitReportOutcome
<1>3. \A m \in {RabbitPublishWithContext, RabbitConsume, RabbitAck, RabbitNack, RabbitChannel} : Ordered(m)
  BY <1>2 DEF RabbitPublishWithContext, RabbitConsume, RabbitAck, RabbitNack, RabbitChannel
<1>4. Ordered(RabbitPublish)
  <2>1. RabbitPublish.op = RabbitPublishWithContext.op /\ RabbitPublish.finish = RabbitPublishWithContext.finish
    BY DEF RabbitPublish, RabbitPublishWithContext, Intercept
  <2> QED BY <1>3, <2>1, StillOrdered
<1>5. ASSUME NEW method, NEW queue \in BOOLEAN
      PROVE  Ordered(Intercept(NatsOp(method, queue), "background", NatsMapErr, NatsReportOutcome))
  BY InterceptOrdered, OpKind DEF NatsOp, NatsReportOutcome
<1>6. \A m \in {NatsPublish, NatsRequest, NatsDrain, NatsSubscribe, NatsQueueSubscribe, NatsDial} : Ordered(m)
  BY <1>5 DEF NatsPublish, NatsRequest, NatsDrain, NatsSubscribe, NatsQueueSubscribe, NatsDial
<1> QED
  BY <1>1, <1>3, <1>4, <1>6 DEF BrokerMethods

LEMMA StoresOrdered == \A m \in StoreMethods : Ordered(m)
<1>1. Ordered(RedisProcessHook) /\ Ordered(RedisDialHook)
  BY InterceptOrdered, OpKind DEF RedisProcessHook, RedisDialHook, RedisReportOutcome
<1>2. ASSUME NEW method PROVE Ordered(RedisProcessPipelineHook(method))
  BY InterceptOrdered, OpKind DEF RedisProcessPipelineHook, RedisReportOutcome
<1>3. Ordered(MongoBefore)
  BY InterceptOrdered, OpKind DEF MongoBefore, MongoOp, MongoReportOutcome
<1>4. \A m \in {MongoInsertOne, MongoFindOne, MongoFind, MongoAggregate, MongoUpdateOne, MongoDeleteOne} : Ordered(m)
  BY <1>3 DEF MongoInsertOne, MongoFindOne, MongoFind, MongoAggregate, MongoUpdateOne, MongoDeleteOne
<1>5. Ordered(AwsHandleFinalize) /\ Ordered(AwsHandleBuild)
  BY InterceptOrdered, OpKind DEF AwsHandleFinalize, AwsHandleBuild, AwsOp, AwsReportOutcome
<1>6. Ordered(SqlConnRunChaos)
  BY InterceptOrdered, OpKind DEF SqlConnRunChaos, SqlReportOutcome
<1>7. Ordered(SqlStmtRunChaos)
  <2>1. SqlStmtRunChaos.op = SqlConnRunChaos.op /\ SqlStmtRunChaos.finish = SqlConnRunChaos.finish
    BY DEF SqlStmtRunChaos, SqlConnRunChaos, Intercept
  <2> QED BY <1>6, <2>1, StillOrdered
<1> QED
  BY <1>1, <1>2, <1>4, <1>5, <1>6, <1>7 DEF StoreMethods

LEMMA PgxOrdered == \A m \in PgxMethods : Ordered(m)
<1> DEFINE PgxOp(op) == op.kind = "pgx"
<1>1. ASSUME NEW op, PgxOp(op) PROVE Ordered(PgxDirect(op))
  BY <1>1, InterceptOrdered DEF PgxDirect, PgxFinish
<1>2. ASSUME NEW op PROVE /\ Deferred(PgxDirect(op)).op = PgxDirect(op).op
                          /\ Deferred(PgxDirect(op)).finish = PgxDirect(op).finish
  BY DEF Deferred, PgxDirect, Intercept
<1>3. ASSUME NEW op PROVE /\ PgxConnRunChaos(op).op = PgxDirect(op).op
                          /\ PgxConnRunChaos(op).finish = PgxDirect(op).finish
                          /\ Deferred(PgxConnRunChaos(op)).op = PgxDirect(op).op
                          /\ Deferred(PgxConnRunChaos(op)).finish = PgxDirect(op).finish
  BY DEF PgxConnRunChaos, Deferred, PgxDirect, Intercept
<1>4. ASSUME NEW op PROVE /\ PgxTxRunChaos(op).op = PgxDirect(op).op
                          /\ PgxTxRunChaos(op).finish = PgxDirect(op).finish
                          /\ Deferred(PgxTxRunChaos(op)).op = PgxDirect(op).op
                          /\ Deferred(PgxTxRunChaos(op)).finish = PgxDirect(op).finish
  BY DEF PgxTxRunChaos, Deferred, PgxDirect, Intercept
<1>5. ASSUME NEW op, PgxOp(op)
      PROVE  /\ Ordered(PgxDirect(op)) /\ Ordered(Deferred(PgxDirect(op)))
             /\ Ordered(PgxConnRunChaos(op)) /\ Ordered(Deferred(PgxConnRunChaos(op)))
             /\ Ordered(PgxTxRunChaos(op)) /\ Ordered(Deferred(PgxTxRunChaos(op)))
  <2>1. Ordered(PgxDirect(op))
    BY <1>1, <1>5
  <2> QED
    BY <2>1, <1>2, <1>3, <1>4, StillOrdered
<1>6. PgxOp(PgxOpBatch) /\ PgxOp(PgxOpBegin) /\ PgxOp(PgxOpAcquire)
  BY OpKind DEF PgxOpBatch, PgxOpBegin, PgxOpAcquire
<1>7. ASSUME NEW method PROVE PgxOp(PgxOpQuery(method))
  BY OpKind DEF PgxOpQuery
<1> HIDE DEF PgxOp
<1>8. \A m \in {PgxPoolQuery, PgxPoolExec, PgxPoolQueryRow, PgxPoolSendBatch, PgxPoolBegin, PgxPoolBeginTx, PgxPoolAcquire} :
        Ordered(m)
  BY <1>5, <1>6, <1>7 DEF PgxPoolQuery, PgxPoolExec, PgxPoolQueryRow, PgxPoolSendBatch, PgxPoolBegin, PgxPoolBeginTx, PgxPoolAcquire
<1>9. \A m \in {PgxConnQuery, PgxConnExec, PgxConnQueryRow, PgxConnSendBatch, PgxConnBegin, PgxConnBeginTx} : Ordered(m)
  BY <1>5, <1>6, <1>7 DEF PgxConnQuery, PgxConnExec, PgxConnQueryRow, PgxConnSendBatch, PgxConnBegin, PgxConnBeginTx
<1>10. \A m \in {PgxTxQuery, PgxTxExec, PgxTxQueryRow, PgxTxSendBatch} : Ordered(m)
  BY <1>5, <1>6, <1>7 DEF PgxTxQuery, PgxTxExec, PgxTxQueryRow, PgxTxSendBatch
<1> QED
  BY <1>8, <1>9, <1>10 DEF PgxMethods

LEMMA WiresOrdered == \A m \in WireMethods : Ordered(m)
<1>1. \A m \in {GrpcUnaryClient, GrpcUnaryServer, GrpcStreamClient, GrpcStreamServer} : Ordered(m)
  <2> USE InterceptOrdered, OpKind DEF GrpcReportOutcome
  <2>1. Ordered(GrpcUnaryClient) BY DEF GrpcUnaryClient
  <2>2. Ordered(GrpcUnaryServer) BY DEF GrpcUnaryServer
  <2>3. Ordered(GrpcStreamClient) BY DEF GrpcStreamClient
  <2>4. Ordered(GrpcStreamServer) BY DEF GrpcStreamServer
  <2> HIDE InterceptOrdered, OpKind
  <2> QED BY <2>1, <2>2, <2>3, <2>4
<1>2. \A m \in {NetRead, NetWrite, NetDialContext} : Ordered(m)
  BY InterceptOrdered, OpKind DEF NetRead, NetWrite, NetDialContext, NetOp, NetReportOutcome
<1>3. ASSUME NEW method PROVE Ordered(IoShaped(method))
  <2> DEFINE m == Intercept(IoOp(method), "background", [e \in Errors |-> e], IoReportOutcome)
  <2>1. Ordered(m)
    BY InterceptOrdered, OpKind DEF IoOp, IoReportOutcome
  <2>2. IoShaped(method).op = m.op /\ IoShaped(method).finish = m.finish
    BY DEF IoShaped, Intercept
  <2> QED BY <2>1, <2>2, StillOrdered
<1>4. <<"outcome">> \o <<"after">> = <<"outcome", "after">>
  BY OneOne, Zenon
<1>5. HttpRoundTrip.finish = <<"outcome", "after">> /\ HttpRoundTrip.op.kind = "http.client"
  BY <1>4 DEF HttpRoundTrip, HttpReportOutcome, Intercept, Op
<1>6. ASSUME NEW hijacker
      PROVE  /\ HttpsrvMiddleware(hijacker).finish = <<"outcome", "after">>
             /\ HttpsrvMiddleware(hijacker).op.kind = "http.server"
  BY <1>4 DEF HttpsrvMiddleware, HttpsrvReportOutcome, Intercept, Op
<1>7. Ordered(HttpRoundTrip) /\ \A hijacker \in BOOLEAN : Ordered(HttpsrvMiddleware(hijacker))
  BY <1>5, <1>6 DEF Ordered, First, Second
<1>8. Point.finish = <<"after", "outcome">> /\ Point.op.kind = "explicit"
  BY DEF Point, PointWith, Intercept, Op
<1>9. Ordered(Point)
  BY <1>8 DEF Ordered, First, Second
<1> QED
  BY <1>1, <1>2, <1>3, <1>7, <1>9 DEF WireMethods, IoRead, IoWrite

(* Every adapter reports and then releases; chaos.Point does it in the     *)
(* other order.                                                            *)
LEMMA MethodsOrdered == \A m \in AllMethods : Ordered(m)
  BY BrokersOrdered, StoresOrdered, PgxOrdered, WiresOrdered DEF AllMethods

-----------------------------------------------------------------------------
(* A call that has not asked the engine has nothing to settle. *)
Untouched(k) ==
  k.done = << >> /\ k.todo \in {<< >>, <<"eval">>, <<"call">>} /\ ~k.fired /\ k.err = "nil"

(* What is settled and what is still to do make a and then b; a wrapped    *)
(* call that is made after them follows an error of Before.                *)
DueIn(k, a, b) ==
  \/ k.done = << >> /\ k.todo \in {<<"before">>, <<a, b>>, <<"call", a, b>>}
  \/ k.done = << >> /\ k.todo = <<a, b, "call">> /\ k.err # "nil"
  \/ k.done = <<a>> /\ k.todo = <<b>>
  \/ k.done = <<a>> /\ k.todo = <<b, "call">> /\ k.err # "nil"
  \/ k.done = <<a, b>> /\ k.todo = << >>
  \/ k.done = <<a, b>> /\ k.todo = <<"call">> /\ k.err # "nil"

Due(k) == DueIn(k, First(k.method), Second(k.method))

CallFields == {"method", "evald", "fired", "chain", "err", "got", "todo", "done", "reports"}
IsCall(k) == DOMAIN k = CallFields

Good(k) ==
  /\ IsCall(k) /\ k.method \in AllMethods /\ k.evald \in BOOLEAN /\ k.fired \in BOOLEAN
  /\ ~k.evald => Untouched(k)
  /\ k.evald => \/ k.todo = << >> /\ (k.err = "panic" \/ k.got = "panic")
                \/ k.err # "panic" /\ Due(k)

(* A faulted call that Before let through, until it begins to be settled.  *)
Faulted(k) == k.evald /\ k.fired /\ k.err = "nil" /\ k.done = << >> /\ k.todo # << >>

SettleInv ==
  /\ call = [c \in Callers |-> call[c]] /\ holds \in [Callers -> BOOLEAN]
  /\ \A c \in Callers : Good(call[c]) /\ (Faulted(call[c]) => holds[c])

(* Only the caller that takes a step is to be looked at. *)
LEMMA OneCall ==
  ASSUME SettleInv, NEW c \in Callers, NEW r, Becomes(c, r), Good(r), NEW h \in BOOLEAN,
         holds' = [holds EXCEPT ![c] = h], Faulted(r) => h
  PROVE  SettleInv'
<1>1. call' = [call EXCEPT ![c] = r] /\ call = [d \in Callers |-> call[d]]
  BY DEF Becomes, SettleInv
<1>2. call'[c] = r /\ \A d \in Callers \ {c} : call'[d] = call[d]
  BY <1>1
<1>3. holds'[c] = h /\ \A d \in Callers \ {c} : holds'[d] = holds[d]
  BY DEF SettleInv
<1>4. holds' \in [Callers -> BOOLEAN]
  BY Zenon DEF SettleInv
<1>5. call' = [d \in Callers |-> call'[d]]
  BY <1>1
<1>6. ASSUME NEW d \in Callers PROVE Good(call'[d]) /\ (Faulted(call'[d]) => holds'[d])
  BY <1>2, <1>3, Zenon DEF SettleInv
<1>7. ASSUME NEW d \in Callers PROVE Good(call[d])' /\ (Faulted(call[d])' => holds'[d])
  BY <1>6 DEF Good, Faulted, IsCall, CallFields, Untouched, Due, DueIn, First, Second
<1> QED
  BY <1>4, <1>5, <1>7, Zenon DEF SettleInv

LEMMA OneCallOnly ==
  ASSUME SettleInv, NEW c \in Callers, NEW r, Becomes(c, r), Good(r), holds' = holds, Faulted(r) => holds[c]
  PROVE  SettleInv'
<1>1. holds[c] \in BOOLEAN /\ holds \in [Callers -> BOOLEAN]
  BY DEF SettleInv
<1>2. holds' = [holds EXCEPT ![c] = holds[c]]
  BY <1>1, Zenon
<1> QED
  BY <1>1, <1>2, OneCall, Zenon

(* Where a call is, and so what it has done, shows in its next step. *)
LEMMA TwoSteps ==
  ASSUME NEW m
  PROVE  /\ First(m) \in {"outcome", "after"} /\ Second(m) \in {"outcome", "after"}
         /\ First(m) # Second(m)
  BY DEF First, Second

LEMMA AtEval ==
  ASSUME NEW k, Good(k), k.todo # << >>, Head(k.todo) = "eval"
  PROVE  ~k.evald /\ k.todo = <<"eval">> /\ Untouched(k)
<1> DEFINE a == First(k.method) b == Second(k.method)
<1>1. a # "eval" /\ b # "eval"
  BY TwoSteps
<1>2. k.evald => DueIn(k, a, b)
  BY DEF Good, Due
<1> HIDE DEF a, b
<1>3. ~k.evald
  BY <1>1, <1>2 DEF DueIn
<1> QED
  BY <1>3 DEF Good, Untouched

LEMMA AtBefore ==
  ASSUME NEW k, Good(k), k.todo # << >>, Head(k.todo) = "before"
  PROVE  k.evald /\ k.todo = <<"before">> /\ k.done = << >> /\ k.err # "panic"
<1> DEFINE a == First(k.method) b == Second(k.method)
<1>1. a # "before" /\ b # "before"
  BY TwoSteps
<1>2. k.evald
  BY DEF Good, Untouched
<1>3. k.err # "panic" /\ DueIn(k, a, b)
  BY <1>2 DEF Good, Due
<1> HIDE DEF a, b
<1> QED
  BY <1>1, <1>2, <1>3 DEF DueIn

LEMMA AtCall ==
  ASSUME NEW k, Good(k), k.todo # << >>, Head(k.todo) = "call"
  PROVE  \/ ~k.evald /\ k.todo = <<"call">> /\ Untouched(k)
         \/ /\ k.evald /\ k.err # "panic" /\ k.done = << >>
            /\ Tail(k.todo) = <<First(k.method), Second(k.method)>>
         \/ /\ k.evald /\ k.err # "panic" /\ k.done = <<First(k.method), Second(k.method)>>
            /\ k.err # "nil" /\ Tail(k.todo) = << >>
<1> DEFINE a == First(k.method) b == Second(k.method)
<1>1. a # "call" /\ b # "call"
  BY TwoSteps
<1>2. CASE ~k.evald
  BY <1>2 DEF Good, Untouched
<1>3. CASE k.evald
  <2>1. k.err # "panic" /\ DueIn(k, a, b)
    BY <1>3 DEF Good, Due
  <2> HIDE DEF a, b
  <2>2. \/ k.done = << >> /\ k.todo = <<"call", a, b>>
        \/ k.done = <<a, b>> /\ k.todo = <<"call">> /\ k.err # "nil"
    BY <1>1, <2>1 DEF DueIn
  <2>3. Tail(<<"call", a, b>>) = <<a, b>> /\ Tail(<<"call">>) = << >>
    OBVIOUS
  <2>4. \/ k.done = << >> /\ Tail(k.todo) = <<a, b>>
        \/ k.done = <<a, b>> /\ Tail(k.todo) = << >> /\ k.err # "nil"
    BY <2>2, <2>3
  <2> QED
    BY <1>3, <2>1, <2>4 DEF a, b
<1> QED
  BY <1>2, <1>3 DEF Good

(* Outcome or After of a call. *)
LEMMA AtSettle ==
  ASSUME NEW k, Good(k), k.todo # << >>, Head(k.todo) \in {"outcome", "after"}
  PROVE  /\ k.evald /\ k.err # "panic"
         /\ \/ /\ Head(k.todo) = First(k.method) /\ k.done = << >>
               /\ \/ Tail(k.todo) = <<Second(k.method)>>
                  \/ Tail(k.todo) = <<Second(k.method), "call">> /\ k.err # "nil"
            \/ /\ Head(k.todo) = Second(k.method) /\ k.done = <<First(k.method)>>
               /\ \/ Tail(k.todo) = << >>
                  \/ Tail(k.todo) = <<"call">> /\ k.err # "nil"
<1> DEFINE a == First(k.method) b == Second(k.method)
<1>1. k.evald
  BY DEF Good, Untouched
<1>2. k.err # "panic" /\ DueIn(k, a, b)
  BY <1>1 DEF Good, Due
<1> HIDE DEF a, b
<1>3. \/ k.done = << >> /\ k.todo = <<a, b>>
      \/ k.done = << >> /\ k.todo = <<a, b, "call">> /\ k.err # "nil"
      \/ k.done = <<a>> /\ k.todo = <<b>>
      \/ k.done = <<a>> /\ k.todo = <<b, "call">> /\ k.err # "nil"
  BY <1>2 DEF DueIn
<1>4. /\ Head(<<a, b>>) = a /\ Tail(<<a, b>>) = <<b>>
      /\ Head(<<a, b, "call">>) = a /\ Tail(<<a, b, "call">>) = <<b, "call">>
      /\ Head(<<b>>) = b /\ Tail(<<b>>) = << >>
      /\ Head(<<b, "call">>) = b /\ Tail(<<b, "call">>) = <<"call">>
  OBVIOUS
<1>5. \/ /\ Head(k.todo) = a /\ k.done = << >>
         /\ Tail(k.todo) = <<b>> \/ (Tail(k.todo) = <<b, "call">> /\ k.err # "nil")
      \/ /\ Head(k.todo) = b /\ k.done = <<a>>
         /\ Tail(k.todo) = << >> \/ (Tail(k.todo) = <<"call">> /\ k.err # "nil")
  BY <1>3, <1>4
<1> QED
  BY <1>1, <1>2, <1>5 DEF a, b

(* Either step settles its half, and what is left still fits. *)
LEMMA Settles ==
  ASSUME NEW k, Good(k), k.todo # << >>, Head(k.todo) \in {"outcome", "after"},
         NEW r, IsCall(r), r.method = k.method, r.evald = k.evald, r.fired = k.fired, r.err = k.err,
         r.todo = Tail(k.todo), r.done = Append(k.done, Head(k.todo))
  PROVE  Good(r) /\ ~Faulted(r)
<1> DEFINE a == First(k.method) b == Second(k.method) h == Head(k.todo) t == Tail(k.todo)
<1>1. /\ k.evald /\ k.err # "panic"
      /\ \/ /\ h = a /\ k.done = << >>
            /\ t = <<b>> \/ (t = <<b, "call">> /\ k.err # "nil")
         \/ /\ h = b /\ k.done = <<a>>
            /\ t = << >> \/ (t = <<"call">> /\ k.err # "nil")
  BY AtSettle
<1>2. r.todo = t /\ r.done = Append(k.done, h)
  OBVIOUS
<1> HIDE DEF a, b, h, t
<1>3. Append(<< >>, a) = <<a>> /\ Append(<<a>>, b) = <<a, b>>
  BY OneByOne, Zenon
<1>4. \/ r.done = <<a>> /\ (t = <<b>> \/ (t = <<b, "call">> /\ k.err # "nil"))
      \/ r.done = <<a, b>> /\ (t = << >> \/ (t = <<"call">> /\ k.err # "nil"))
  BY <1>1, <1>2, <1>3
<1>5. DueIn(r, a, b)
  BY <1>2, <1>4, Zenon DEF DueIn
<1>6. r.done # << >>
  <2>1. <<a>> # << >> /\ <<a, b>> # << >>
    OBVIOUS
  <2> QED
    BY <1>4, <2>1, Zenon
<1>7. Due(r)
  BY <1>5 DEF Due, a, b
<1> QED
  BY <1>1, <1>6, <1>7 DEF Good, Faulted

LEMMA CallerGood ==
  ASSUME SettleInv, NEW c \in Callers
  PROVE  Good(call[c]) /\ (Faulted(call[c]) => holds[c]) /\ holds[c] \in BOOLEAN
  BY DEF SettleInv

LEMMA NewCallGood ==
  ASSUME NEW m \in AllMethods, NEW t \in {<< >>, <<"eval">>, <<"call">>}
  PROVE  Good([NewCall(m) EXCEPT !.todo = t]) /\ ~Faulted([NewCall(m) EXCEPT !.todo = t])
<1> DEFINE n == NewCall(m)
           r == [n EXCEPT !.todo = t]
<1>1. /\ IsCall(n) /\ n.method = m /\ n.evald = FALSE /\ n.fired = FALSE /\ n.err = "nil"
      /\ n.done = << >>
  BY DEF NewCall, IsCall, CallFields
<1> HIDE DEF n
<1>2. /\ IsCall(r) /\ r.method = n.method /\ r.evald = n.evald /\ r.fired = n.fired /\ r.err = n.err
      /\ r.todo = t /\ r.done = n.done
  BY <1>1 DEF IsCall, CallFields
<1> HIDE DEF r
<1>3. Good(r) /\ ~Faulted(r)
  BY <1>1, <1>2 DEF Good, Untouched, Faulted
<1> QED
  BY <1>3 DEF r, n

LEMMA FreshCallGood ==
  ASSUME NEW m \in AllMethods
  PROVE  Good(NewCall(m)) /\ ~Faulted(NewCall(m))
<1> DEFINE n == NewCall(m)
<1>1. /\ IsCall(n) /\ n.method = m /\ n.evald = FALSE /\ n.fired = FALSE /\ n.err = "nil"
      /\ n.todo = << >> /\ n.done = << >>
  BY DEF NewCall, IsCall, CallFields
<1> HIDE DEF n
<1>2. Good(n) /\ ~Faulted(n)
  BY <1>1 DEF Good, Untouched, Faulted
<1> QED
  BY <1>2 DEF n

LEMMA StartSettles == ASSUME SettleInv, NEW c \in Callers, NEW m \in Usable, Start(c, m) PROVE SettleInv'
<1>1. PICK t \in {<< >>, <<"eval">>, <<"call">>} : Becomes(c, [NewCall(m) EXCEPT !.todo = t])
  BY DEF Start, WrappedCall
<1>2. m \in AllMethods
  BY AdaptersAssumption
<1>3. holds' = holds
  BY DEF Start
<1> QED
  BY <1>1, <1>2, <1>3, NewCallGood, OneCallOnly

LEMMA EvalSettles == ASSUME SettleInv, NEW c \in Callers, Eval(c) PROVE SettleInv'
<1> DEFINE k == call[c]
<1>0. Good(k) /\ ~k.evald /\ k.todo = <<"eval">> /\ Untouched(k)
  BY CallerGood, AtEval DEF Eval, At
<1>1. CASE Becomes(c, [k EXCEPT !.todo = <<"before">>, !.evald = TRUE]) /\ holds' = holds
  <2> DEFINE r == [k EXCEPT !.todo = <<"before">>, !.evald = TRUE]
  <2>1. /\ IsCall(r) /\ r.method = k.method /\ r.evald = TRUE /\ r.fired = k.fired /\ r.err = k.err
        /\ r.todo = <<"before">> /\ r.done = k.done
    BY <1>0 DEF Good, IsCall, CallFields
  <2>2. Becomes(c, r)
    BY <1>1
  <2> HIDE DEF r
  <2>3. Good(r) /\ ~Faulted(r)
    BY <1>0, <2>1 DEF Good, Untouched, Due, DueIn, Faulted
  <2> QED
    BY <1>1, <2>2, <2>3, OneCallOnly
<1>2. ASSUME NEW chain \in Chains, holds' = [holds EXCEPT ![c] = TRUE],
             Becomes(c, [k EXCEPT !.todo = <<"before">>, !.evald = TRUE, !.fired = TRUE, !.chain = chain])
      PROVE  SettleInv'
  <2> DEFINE r == [k EXCEPT !.todo = <<"before">>, !.evald = TRUE, !.fired = TRUE, !.chain = chain]
  <2>1. /\ IsCall(r) /\ r.method = k.method /\ r.evald = TRUE /\ r.fired = TRUE /\ r.err = k.err
        /\ r.todo = <<"before">> /\ r.done = k.done
    BY <1>0 DEF Good, IsCall, CallFields
  <2>2. Becomes(c, r)
    BY <1>2
  <2> HIDE DEF r
  <2>3. Good(r)
    BY <1>0, <2>1 DEF Good, Untouched, Due, DueIn
  <2> QED
    BY <1>2, <2>2, <2>3, OneCall
<1> QED
  BY <1>1, <1>2 DEF Eval

(* The steps left after Before, whatever it returned. *)
LEMMA AfterBefore ==
  ASSUME NEW m \in AllMethods
  PROVE  LET a == First(m)
             b == Second(m)
         IN  /\ m.finish = <<a, b>>
             /\ WrappedCall(m) \o m.finish \in {<<a, b>>, <<"call", a, b>>}
             /\ m.finish \o WrappedCall(m) \in {<<a, b>>, <<a, b, "call">>}
<1> DEFINE a == First(m) b == Second(m)
<1>1. m.finish = <<a, b>>
  BY MethodsOrdered DEF Ordered
<1>2. WrappedCall(m) = <<"call">> \/ WrappedCall(m) = << >>
  BY DEF WrappedCall
<1> HIDE DEF a, b
<1>3. /\ WrappedCall(m) \o m.finish \in {<<a, b>>, <<"call", a, b>>}
      /\ m.finish \o WrappedCall(m) \in {<<a, b>>, <<a, b, "call">>}
  <2>1. <<"call">> \o <<a, b>> = <<"call", a, b>> /\ <<a, b>> \o <<"call">> = <<a, b, "call">>
    BY OneTwo, TwoOne, Zenon
  <2>2. << >> \o <<a, b>> = <<a, b>> /\ <<a, b>> \o << >> = <<a, b>>
    BY NoneTwo, Zenon
  <2> QED
    BY <1>1, <1>2, <2>1, <2>2
<1> QED
  BY <1>1, <1>3 DEF a, b

LEMMA FailsSettles ==
  ASSUME SettleInv, NEW c \in Callers, At(c, "before"), NEW e \in Errors, Fails(c, e)
  PROVE  SettleInv'
<1> DEFINE k == call[c]
           m == k.method
           a == First(m)
           b == Second(m)
           t == IF e \notin m.resume THEN m.finish
                ELSE IF e \in m.early THEN m.finish \o WrappedCall(m)
                ELSE WrappedCall(m) \o m.finish
           r == [k EXCEPT !.err = e, !.chain = << >>, !.todo = t]
<1>0. Good(k) /\ k.evald /\ k.todo = <<"before">> /\ k.done = << >>
  BY CallerGood, AtBefore DEF At
<1>1. t \in {<<a, b>>, <<"call", a, b>>, <<a, b, "call">>}
  BY <1>0, AfterBefore DEF Good
<1>2. Becomes(c, r) /\ holds' = [holds EXCEPT ![c] = FALSE]
  BY DEF Fails, Release
<1> HIDE DEF t
<1>3. /\ IsCall(r) /\ r.method = k.method /\ r.evald = k.evald /\ r.fired = k.fired /\ r.err = e
      /\ r.todo = t /\ r.done = k.done
  BY <1>0 DEF Good, IsCall, CallFields
<1> HIDE DEF r
<1>4. e # "nil" /\ e # "panic"
  BY DEF Errors
<1>5. DueIn(r, a, b)
  <2> HIDE DEF a, b
  <2> QED BY <1>0, <1>1, <1>3, <1>4 DEF DueIn
<1>6. Due(r)
  BY <1>3, <1>5 DEF Due
<1>7. Good(r) /\ ~Faulted(r)
  BY <1>0, <1>3, <1>4, <1>6 DEF Good, Faulted
<1> QED
  BY <1>2, <1>7, OneCall

LEMMA PanicSettles == ASSUME SettleInv, NEW c \in Callers, ApplyPanic(c) PROVE SettleInv'
<1> DEFINE k == call[c]
           r == [k EXCEPT !.err = "panic", !.chain = << >>, !.todo = << >>]
<1>0. Good(k) /\ k.evald
  BY CallerGood, AtBefore DEF ApplyPanic, At
<1>1. Becomes(c, r) /\ holds' = [holds EXCEPT ![c] = FALSE]
  BY DEF ApplyPanic, Release
<1>2. /\ IsCall(r) /\ r.method = k.method /\ r.evald = k.evald /\ r.fired = k.fired /\ r.err = "panic"
      /\ r.todo = << >>
  BY <1>0 DEF Good, IsCall, CallFields
<1> HIDE DEF r
<1>3. Good(r) /\ ~Faulted(r)
  BY <1>0, <1>2 DEF Good, Faulted
<1> QED
  BY <1>1, <1>3, OneCall

LEMMA WakeSettles == ASSUME SettleInv, NEW c \in Callers, Wake(c) PROVE SettleInv'
<1> DEFINE k == call[c]
           r == [k EXCEPT !.chain = Tail(@)]
<1>0. Good(k) /\ k.evald /\ k.todo = <<"before">> /\ k.done = << >> /\ k.err # "panic" /\ (Faulted(k) => holds[c])
  BY CallerGood, AtBefore DEF Wake, At
<1>1. Becomes(c, r) /\ holds' = holds
  BY DEF Wake
<1>2. /\ IsCall(r) /\ r.method = k.method /\ r.evald = k.evald /\ r.fired = k.fired /\ r.err = k.err
      /\ r.todo = k.todo /\ r.done = k.done
  BY <1>0 DEF Good, IsCall, CallFields
<1> HIDE DEF r
<1>3. Due(r)
  BY <1>0, <1>2 DEF Due, DueIn
<1>4. Good(r) /\ (Faulted(r) => Faulted(k))
  BY <1>0, <1>2, <1>3 DEF Good, Faulted
<1> QED
  BY <1>0, <1>1, <1>4, OneCallOnly

LEMMA ProceedSettles == ASSUME SettleInv, NEW c \in Callers, Proceed(c) PROVE SettleInv'
<1> DEFINE k == call[c]
           a == First(k.method)
           b == Second(k.method)
           t == WrappedCall(k.method) \o k.method.finish
           r == [k EXCEPT !.todo = t]
<1>0. /\ Good(k) /\ k.evald /\ k.todo = <<"before">> /\ k.done = << >> /\ k.err # "panic"
      /\ (Faulted(k) => holds[c])
  BY CallerGood, AtBefore DEF Proceed, At
<1>1. Becomes(c, r) /\ holds' = holds
  BY DEF Proceed
<1>2. t \in {<<a, b>>, <<"call", a, b>>}
  BY <1>0, AfterBefore DEF Good
<1> HIDE DEF t
<1>3. /\ IsCall(r) /\ r.method = k.method /\ r.evald = k.evald /\ r.fired = k.fired /\ r.err = k.err
      /\ r.todo = t /\ r.done = k.done
  BY <1>0 DEF Good, IsCall, CallFields
<1> HIDE DEF r
<1>4. DueIn(r, a, b)
  <2> HIDE DEF a, b
  <2> QED BY <1>0, <1>2, <1>3 DEF DueIn
<1>5. Due(r)
  BY <1>3, <1>4 DEF Due
<1>6. Good(r)
  BY <1>0, <1>3, <1>5 DEF Good
<1>7. Faulted(r) => Faulted(k)
  BY <1>0, <1>3 DEF Faulted
<1> QED
  BY <1>0, <1>1, <1>6, <1>7, OneCallOnly

LEMMA ReturnSettles == ASSUME SettleInv, NEW c \in Callers, Return(c) PROVE SettleInv'
<1> DEFINE k == call[c]
           a == First(k.method)
           b == Second(k.method)
<1>0. Good(k) /\ (Faulted(k) => holds[c]) /\ k.todo # << >> /\ Head(k.todo) = "call"
  BY CallerGood DEF Return, At
<1>1. PICK g : Becomes(c, [k EXCEPT !.got = g, !.todo = Tail(@)]) /\ holds' = holds
  BY DEF Return
<1> DEFINE r == [k EXCEPT !.got = g, !.todo = Tail(@)]
<1>2. /\ IsCall(r) /\ r.method = k.method /\ r.evald = k.evald /\ r.fired = k.fired /\ r.err = k.err
      /\ r.todo = Tail(k.todo) /\ r.done = k.done
  BY <1>0 DEF Good, IsCall, CallFields
<1>3. Becomes(c, r)
  BY <1>1
<1> HIDE DEF r
<1>4. CASE ~k.evald /\ k.todo = <<"call">> /\ Untouched(k)
  <2>1. Tail(<<"call">>) = << >>
    OBVIOUS
  <2>2. Good(r) /\ ~Faulted(r)
    BY <1>0, <1>2, <1>4, <2>1 DEF Good, Untouched, Faulted
  <2> QED
    BY <1>1, <1>3, <2>2, OneCallOnly
<1>5. CASE k.evald /\ k.err # "panic" /\ k.done = << >> /\ Tail(k.todo) = <<a, b>>
  <2>1. DueIn(r, a, b)
    BY <1>2, <1>5 DEF DueIn
  <2>2. Good(r)
    BY <1>0, <1>2, <1>5, <2>1 DEF Good, Due
  <2>3. Faulted(r) => Faulted(k)
    BY <1>0, <1>2 DEF Faulted
  <2> QED
    BY <1>0, <1>1, <1>3, <2>2, <2>3, OneCallOnly
<1>6. CASE k.evald /\ k.err # "panic" /\ k.done = <<a, b>> /\ k.err # "nil" /\ Tail(k.todo) = << >>
  <2>1. DueIn(r, a, b)
    BY <1>2, <1>6 DEF DueIn
  <2>2. Good(r)
    BY <1>0, <1>2, <1>6, <2>1 DEF Good, Due
  <2>3. ~Faulted(r)
    BY <1>2, <1>6 DEF Faulted
  <2> QED
    BY <1>1, <1>3, <2>2, <2>3, OneCallOnly
<1> QED
  BY <1>0, <1>4, <1>5, <1>6, AtCall

LEMMA CallPanicsSettles == ASSUME SettleInv, NEW c \in Callers, CallPanics(c) PROVE SettleInv'
<1> DEFINE k == call[c]
           r == [k EXCEPT !.got = "panic", !.todo = << >>]
<1>0. Good(k)
  BY CallerGood DEF CallPanics
<1>1. Becomes(c, r) /\ holds' = [holds EXCEPT ![c] = FALSE]
  BY DEF CallPanics
<1>2. /\ IsCall(r) /\ r.method = k.method /\ r.evald = k.evald /\ r.fired = k.fired /\ r.err = k.err
      /\ r.todo = << >> /\ r.done = k.done /\ r.got = "panic"
  BY <1>0 DEF Good, IsCall, CallFields
<1> HIDE DEF r
<1>3. Good(r) /\ ~Faulted(r)
  BY <1>0, <1>2 DEF Good, Untouched, Faulted
<1> QED
  BY <1>1, <1>3, OneCall

LEMMA OutcomeSettles == ASSUME SettleInv, NEW c \in Callers, Outcome(c) PROVE SettleInv'
<1> DEFINE k == call[c]
           x == Charged(c)
           r == [k EXCEPT !.todo = Tail(@), !.done = Append(@, "outcome"), !.reports = Append(@, x)]
<1>0. Good(k) /\ k.todo # << >> /\ Head(k.todo) = "outcome"
  BY CallerGood DEF Outcome, At
<1>1. Becomes(c, r) /\ holds' = holds
  BY DEF Outcome
<1> HIDE DEF x
<1>2. /\ IsCall(r) /\ r.method = k.method /\ r.evald = k.evald /\ r.fired = k.fired /\ r.err = k.err
      /\ r.todo = Tail(k.todo) /\ r.done = Append(k.done, "outcome")
  BY <1>0 DEF Good, IsCall, CallFields
<1> HIDE DEF r
<1>3. Good(r) /\ ~Faulted(r)
  BY <1>0, <1>2, Settles
<1> QED
  BY <1>1, <1>3, OneCallOnly

LEMMA AfterSettles == ASSUME SettleInv, NEW c \in Callers, After(c) PROVE SettleInv'
<1> DEFINE k == call[c]
           r == [k EXCEPT !.todo = Tail(@), !.done = Append(@, "after")]
<1>0. Good(k) /\ k.todo # << >> /\ Head(k.todo) = "after"
  BY CallerGood DEF After, At
<1>1. Becomes(c, r) /\ holds' = [holds EXCEPT ![c] = FALSE]
  BY DEF After, Release
<1>2. /\ IsCall(r) /\ r.method = k.method /\ r.evald = k.evald /\ r.fired = k.fired /\ r.err = k.err
      /\ r.todo = Tail(k.todo) /\ r.done = Append(k.done, "after")
  BY <1>0 DEF Good, IsCall, CallFields
<1> HIDE DEF r
<1>3. Good(r) /\ ~Faulted(r)
  BY <1>0, <1>2, Settles
<1> QED
  BY <1>1, <1>3, OneCall

LEMMA SettleStarts == Init => SettleInv
<1> SUFFICES ASSUME Init PROVE SettleInv
  OBVIOUS
<1> DEFINE m == CHOOSE m \in Usable : TRUE
           n == NewCall(m)
<1>1. m \in AllMethods
  BY AdaptersAssumption
<1>2. call = [c \in Callers |-> n] /\ holds = [c \in Callers |-> FALSE]
  BY DEF Init
<1>3. Good(n) /\ ~Faulted(n)
  BY <1>1, FreshCallGood
<1> HIDE DEF n
<1>5. holds \in [Callers -> BOOLEAN]
  BY <1>2, Zenon
<1>6. call = [c \in Callers |-> call[c]] /\ \A c \in Callers : call[c] = n
  BY <1>2
<1> QED
  BY <1>3, <1>5, <1>6, Zenon DEF SettleInv

LEMMA SettleKeeps == SettleInv /\ [Next]_vars => SettleInv'
<1> SUFFICES ASSUME SettleInv, [Next]_vars PROVE SettleInv'
  OBVIOUS
<1>1. ASSUME UNCHANGED <<call, holds>> PROVE SettleInv'
  BY <1>1 DEF SettleInv, Good, Faulted, IsCall, CallFields, Untouched, Due, DueIn, First, Second
<1>2. ASSUME NEW c \in Callers, ApplyFault(c) \/ Interrupt(c) PROVE SettleInv'
  <2>1. CASE ApplyFault(c)
    BY <2>1, FailsSettles DEF ApplyFault
  <2>2. CASE Interrupt(c)
    <3>1. "ctx" \in Errors
      BY DEF Errors
    <3> QED
      BY <2>2, <3>1, FailsSettles DEF Interrupt
  <2> QED
    BY <1>2, <2>1, <2>2
<1>3. ASSUME NEW c \in Callers, Advance(c) PROVE SettleInv'
  BY <1>2, <1>3, EvalSettles, PanicSettles, ProceedSettles, ReturnSettles, OutcomeSettles, AfterSettles
     DEF Advance
<1>4. ASSUME NEW c \in Callers, Reconnect(c) PROVE SettleInv'
  <2>1. Becomes(c, NewCall(call[c].method)) /\ holds' = holds
    BY <1>4 DEF Reconnect
  <2>2. call[c].method \in AllMethods
    BY CallerGood DEF Good
  <2> QED
    BY <2>1, <2>2, FreshCallGood, OneCallOnly
<1>5. ASSUME NEW c \in Callers, Cancel(c) PROVE SettleInv'
  BY <1>1, <1>5 DEF Cancel
<1>6. ASSUME UNCHANGED vars PROVE SettleInv'
  BY <1>1, <1>6 DEF vars
<1> QED
  BY <1>3, <1>4, <1>5, <1>6, StartSettles, WakeSettles, CallPanicsSettles DEF Next

(* Every call through every adapter that consulted the engine and did not   *)
(* panic has, when it is over, run Outcome once and After once, in the      *)
(* adapters' order: for any number of callers, fault chains and             *)
(* cancellations, and whoever else panics.                                  *)
THEOREM CallsSettleOnce == Spec => []SettledOnce
<1>1. SettleInv => SettledOnce
  <2> SUFFICES ASSUME SettleInv, NEW c \in Callers, Idle(c), call[c].evald, ~Unwound(c)
               PROVE  call[c].done = SettleOrder(call[c].method)
    BY DEF SettledOnce
  <2> DEFINE m == call[c].method
             a == First(m)
             b == Second(m)
  <2>1. call[c].err # "panic" /\ call[c].got # "panic"
    BY DEF Unwound
  <2>2. call[c].todo = << >> /\ DueIn(call[c], a, b)
    BY <2>1, CallerGood DEF Good, Idle, Due
  <2>3. SettleOrder(m) = <<a, b>>
    BY DEF SettleOrder, First, Second
  <2> HIDE DEF a, b
  <2>4. call[c].done = <<a, b>>
    BY <2>2 DEF DueIn
  <2> QED
    BY <2>3, <2>4
<1> QED
  BY <1>1, SettleStarts, SettleKeeps, PTL DEF Spec

(* A call that a fault let through has its slot while the wrapped call      *)
(* runs and until its outcome is on record, whichever adapter made it,      *)
(* panics and cancellations included.                                       *)
THEOREM SlotsAreHeldThroughCalls == Spec => []HeldThroughCall
<1>1. SettleInv => HeldThroughCall
  <2> SUFFICES ASSUME SettleInv, NEW c \in Callers, call[c].fired, call[c].err = "nil",
                      At(c, "call") \/ (At(c, "outcome") /\ call[c].method.op.kind # "explicit")
               PROVE  holds[c]
    BY DEF HeldThroughCall
  <2> DEFINE k == call[c]
  <2>0. Good(k) /\ (Faulted(k) => holds[c]) /\ k.todo # << >>
    BY CallerGood DEF At
  <2>1. CASE At(c, "call")
    <3>1. k.evald /\ k.done = << >>
      BY <2>0, <2>1, AtCall DEF At, Untouched
    <3> QED
      BY <2>0, <3>1 DEF Faulted
  <2>2. CASE At(c, "outcome") /\ k.method.op.kind # "explicit"
    <3>1. Second(k.method) # "outcome"
      BY <2>2 DEF Second
    <3>2. k.evald /\ k.done = << >>
      BY <2>0, <2>2, <3>1, AtSettle DEF At
    <3> QED
      BY <2>0, <3>2 DEF Faulted
  <2> QED
    BY <2>1, <2>2
<1> QED
  BY <1>1, SettleStarts, SettleKeeps, PTL DEF Spec

=============================================================================
