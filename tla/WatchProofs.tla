---------------------------- MODULE WatchProofs ----------------------------
(***************************************************************************)
(* What holds of blocking queries for any values, any length of the log    *)
(* and any choices of the caller: each query is the one that was meant, a  *)
(* caller that goes on from headers().index() never spins, and without     *)
(* stale reads or a restore it is never told something older.              *)
(***************************************************************************)
EXTENDS Watch, ParametersProofs

-----------------------------------------------------------------------------
(***************************************************************************)
(* A query asks for the consistency of the call or, if it names none, of   *)
(* the endpoint object, and for the wait and index of block_for, if given. *)
(***************************************************************************)
LEMMA RequestIs ==
  ASSUME config \in Configs, NEW block, NEW v,
         block = <<>> \/ block = <<<<"block_for", v>>>>
  PROVE  Request(block) = [consistency |-> Chosen,
                           wait  |-> IF block = <<>> THEN None ELSE v[1],
                           index |-> IF block = <<>> THEN 0 ELSE v[2]]
<1> DEFINE S  == {<<"consistency", config.endpoint>>, <<"consistency", config.given>>, <<"block_for", v>>}
           e  == Argument("consistency", config.endpoint)
           g  == Argument("consistency", config.given)
           eg == e \o g
           args == eg \o block
<1>1. /\ config.endpoint \in {Default, "stale"} /\ config.given \in {None, Default, "stale"}
      /\ None # Default /\ None # "stale"
  BY DEF Configs, None, Default
<1>2. e \in Seq(S) /\ LastIs(e, "consistency", config.endpoint) /\ \A k : Given(k, e) <=> k = "consistency"
  <2>1. e = <<<<"consistency", config.endpoint>>>>
    BY <1>1 DEF Argument
  <2>2. <<"consistency", config.endpoint>> \in S
    OBVIOUS
  <2> HIDE DEF e, S
  <2> QED
    BY <2>1, <2>2, OneArgument
<1>3. /\ g \in Seq(S) /\ \A k : k # "consistency" => ~ Given(k, g)
      /\ config.given = None => ~ Given("consistency", g)
      /\ config.given # None => LastIs(g, "consistency", config.given)
  <2>1. CASE config.given = None
    <3>1. g = <<>>
      BY <2>1 DEF Argument
    <3> HIDE DEF g, S
    <3> QED
      BY <2>1, <3>1, NoArgument
  <2>2. CASE config.given # None
    <3>1. g = <<<<"consistency", config.given>>>>
      BY <2>2 DEF Argument
    <3>2. <<"consistency", config.given>> \in S
      OBVIOUS
    <3> HIDE DEF g, S
    <3> QED
      BY <2>2, <3>1, <3>2, OneArgument
  <2> QED
    BY <2>1, <2>2
<1>4. /\ block \in Seq(S) /\ ~ Given("consistency", block)
      /\ block = <<>> => ~ Given("block_for", block)
      /\ block # <<>> => LastIs(block, "block_for", v)
  <2>1. CASE block = <<>>
    <3> HIDE DEF S
    <3> QED
      BY <2>1, NoArgument
  <2>2. CASE block # <<>>
    <3>1. block = <<<<"block_for", v>>>>
      BY <2>2
    <3>2. <<"block_for", v>> \in S
      OBVIOUS
    <3> HIDE DEF S
    <3> QED
      BY <2>2, <3>1, <3>2, OneArgument
  <2> QED
    BY <2>1, <2>2
<1> HIDE DEF S, e, g
<1>5. eg \in Seq(S) /\ LastIs(eg, "consistency", Chosen) /\ ~ Given("block_for", eg)
  <2>1. /\ eg \in Seq(S)
        /\ \A k : Given(k, eg) <=> Given(k, e) \/ Given(k, g)
        /\ \A k, w : LastIs(g, k, w) => LastIs(eg, k, w)
        /\ \A k, w : LastIs(e, k, w) /\ ~ Given(k, g) => LastIs(eg, k, w)
    BY <1>2, <1>3, LastOfBoth
  <2> HIDE DEF eg
  <2>2. CASE config.given = None
    <3>1. Chosen = config.endpoint
      BY <2>2 DEF Chosen
    <3> QED
      BY <1>2, <1>3, <2>1, <2>2, <3>1
  <2>3. CASE config.given # None
    <3>1. Chosen = config.given
      BY <2>3 DEF Chosen
    <3> QED
      BY <1>2, <1>3, <2>1, <2>3, <3>1
  <2> QED
    BY <1>2, <1>3, <2>1, <2>2, <2>3
<1> HIDE DEF eg
<1>6. /\ args \in Seq(S) /\ LastIs(args, "consistency", Chosen)
      /\ block = <<>> => ~ Given("block_for", args)
      /\ block # <<>> => LastIs(args, "block_for", v)
  BY <1>4, <1>5, LastOfBoth
<1>7. args = Arguments(block)
  BY DEF Arguments, eg, e, g
<1> HIDE DEF args
<1> DEFINE q == ConsulQuery([dc |-> Empty, token |-> Empty], args)
<1>8. /\ \A i \in DOMAIN args :
           args[i][1] # "token" /\ IsLast(args, i) =>
             /\ args[i][1] \in DOMAIN q <=> Printed(args[i][1], args[i][2])
             /\ Printed(args[i][1], args[i][2]) => q[args[i][1]] = args[i][2]
      /\ \A k : k # "dc" /\ ~ Given(k, args) => k \notin DOMAIN q
  BY <1>6, ConsulQueryIs
<1> HIDE DEF q
<1>9. /\ "consistency" \in DOMAIN q <=> Chosen # Default
      /\ Chosen # Default => q["consistency"] = Chosen
  <2>1. PICK i \in DOMAIN args : args[i] = <<"consistency", Chosen>> /\ IsLast(args, i)
    BY <1>6 DEF LastIs
  <2>2. args[i][1] = "consistency" /\ args[i][2] = Chosen
    BY <2>1
  <2>3. Printed("consistency", Chosen) <=> Chosen # Default
    BY DEF Printed, StringKeywords
  <2> QED
    BY <1>8, <2>1, <2>2, <2>3
<1>10. /\ block = <<>> => "block_for" \notin DOMAIN q
       /\ block # <<>> => "block_for" \in DOMAIN q /\ q["block_for"] = v
  <2>1. ASSUME block # <<>>
        PROVE  "block_for" \in DOMAIN q /\ q["block_for"] = v
    <3>1. PICK i \in DOMAIN args : args[i] = <<"block_for", v>> /\ IsLast(args, i)
      BY <1>6, <2>1 DEF LastIs
    <3>2. args[i][1] = "block_for" /\ args[i][2] = v
      BY <3>1
    <3>3. Printed("block_for", v)
      BY DEF Printed, StringKeywords
    <3> QED
      BY <1>8, <3>1, <3>2, <3>3
  <2> QED
    BY <1>6, <1>8, <2>1
<1>11. Request(block) = [consistency |-> IF "consistency" \in DOMAIN q THEN q["consistency"] ELSE Default,
                         wait  |-> (IF "block_for" \in DOMAIN q THEN PrintBlockFor(q["block_for"])
                                    ELSE [wait |-> None, index |-> 0]).wait,
                         index |-> (IF "block_for" \in DOMAIN q THEN PrintBlockFor(q["block_for"])
                                    ELSE [wait |-> None, index |-> 0]).index]
  BY <1>7 DEF Request, q
<1> QED
  BY <1>9, <1>10, <1>11 DEF PrintBlockFor

-----------------------------------------------------------------------------
(***************************************************************************)
(* The inductive invariant: a query is what its caller meant by it, an     *)
(* answer without a wait is news, and the leader is not behind the caller. *)
(***************************************************************************)
LogInv == log \in Seq(Stored)
Follows == last # Unknown /\ ~ (config.by = "item" /\ last = Empty)
FromInv == Follows => from = told
QueryInv ==
  phase # "idle" =>
    /\ query.consistency = Chosen
    /\ Chosen # "stale" => at = "leader"
    /\ Follows => query.index = told
NewsInv == phase = "answered" /\ reply.status # 500 /\ ~ reply.waited => reply.index > query.index
OrderInv ==
  Chosen # "stale" /\ ~ restored =>
    /\ told <= Len(log)
    /\ phase = "answered" /\ reply.status # 500 => reply.index \in told .. Len(log)

WatchInv == TypeOK /\ LogInv /\ FromInv /\ QueryInv /\ NewsInv /\ OrderInv

(* At first the caller knows nothing and one thing is stored.              *)
LEMMA WatchInit == Init => WatchInv
<1> SUFFICES ASSUME Init
             PROVE  WatchInv
  OBVIOUS
<1> USE WatchAssumption
<1>1. log \in Seq(Stored) /\ Len(log) = 1 /\ DOMAIN log = 1 .. 1 /\ 1 \in 1 .. MaxIndex
  <2>1. PICK v \in Stored : log = <<v>>
    BY DEF Init
  <2>2. <<v>> \in Seq(Stored) /\ Len(<<v>>) = 1
    BY <2>1
  <2> QED
    BY <2>1, <2>2, LenProperties
<1>2. NoQuery \in [consistency : {Default, "stale"}, wait : {None, "interval"}, index : 0 .. MaxIndex]
  BY DEF NoQuery
<1>3. NoReply \in [status : {200, 404, 500}, index : 0 .. MaxIndex, value : Stored, waited : BOOLEAN]
  BY DEF NoReply, Stored
<1>4. TypeOK
  <2>1. Len(log) \in 1 .. MaxIndex /\ behind \in DOMAIN log /\ \A i \in DOMAIN log : log[i] \in Stored
    BY <1>1, ElementOfSeq DEF Init
  <2>2. 0 \in 0 .. MaxIndex
    OBVIOUS
  <2> QED
    BY <1>2, <1>3, <2>1, <2>2 DEF Init, TypeOK
<1> QED
  BY <1>1, <1>4 DEF Init, WatchInv, LogInv, FromInv, Follows, QueryInv, NewsInv, OrderInv

(* The call is over and nothing of it is left, what the caller knows set   *)
(* aside.                                                                  *)
LEMMA OverStep ==
  ASSUME WatchInv, Over, UNCHANGED <<config, caller>>,
         log' \in Seq(Stored), Len(log') \in 1 .. MaxIndex, behind' \in DOMAIN log',
         restored' \in BOOLEAN, ~ restored' => UNCHANGED servers
  PROVE  WatchInv'
<1> USE WatchAssumption DEF WatchInv
<1>1. NoQuery \in [consistency : {Default, "stale"}, wait : {None, "interval"}, index : 0 .. MaxIndex]
  BY DEF NoQuery
<1>2. NoReply \in [status : {200, 404, 500}, index : 0 .. MaxIndex, value : Stored, waited : BOOLEAN]
  BY DEF NoReply, Stored
<1>3. TypeOK'
  <2>1. \A i \in DOMAIN log' : log'[i] \in Stored
    BY ElementOfSeq, LenProperties
  <2> QED
    BY <1>1, <1>2, <2>1 DEF TypeOK, Over, caller
<1>4. LogInv' /\ FromInv' /\ QueryInv' /\ NewsInv'
  BY DEF LogInv, FromInv, Follows, QueryInv, NewsInv, Over, caller
<1>5. OrderInv'
  BY DEF OrderInv, Over, caller, servers, Chosen
<1> QED
  BY <1>3, <1>4, <1>5

(* The answer is what the server has applied, at once only if it is news.  *)
LEMMA AnswerStep ==
  ASSUME WatchInv, NEW waited \in BOOLEAN, phase \in {"sent", "blocked"}, Answer(waited),
         News \/ waited
  PROVE  WatchInv'
<1> USE WatchAssumption DEF WatchInv
<1>1. Applied \in DOMAIN log /\ DOMAIN log = 1 .. Len(log) /\ Len(log) \in 1 .. MaxIndex
  BY LenProperties DEF Applied, TypeOK, LogInv
<1>2. Applied \in 0 .. MaxIndex /\ Applied > 0 /\ log[Applied] \in Stored
  BY <1>1 DEF TypeOK
<1>3. /\ phase' = "answered" /\ reply'.index = Applied /\ reply'.waited = waited
      /\ UNCHANGED <<config, servers, query, at, caller>>
  BY DEF Answer
<1>4. reply' \in [status : {200, 404, 500}, index : 0 .. MaxIndex, value : Stored, waited : BOOLEAN]
  BY <1>2 DEF Answer
<1>5. TypeOK' /\ LogInv' /\ FromInv' /\ QueryInv'
  BY <1>3, <1>4 DEF TypeOK, LogInv, FromInv, Follows, QueryInv, servers, caller, Chosen
<1>6. NewsInv'
  BY <1>2, <1>3 DEF NewsInv, News
<1>7. OrderInv'
  <2>1. Chosen # "stale" => Applied = Len(log)
    BY DEF QueryInv, Applied
  <2> QED
    BY <1>2, <1>3, <2>1 DEF OrderInv, servers, caller, Chosen, TypeOK
<1> QED
  BY <1>5, <1>6, <1>7

(* Every step keeps the inductive invariant of the watcher. *)
LEMMA WatchStep == WatchInv /\ [Next]_vars => WatchInv'
<1> SUFFICES ASSUME WatchInv, [Next]_vars
             PROVE  WatchInv'
  OBVIOUS
<1> USE WatchAssumption
<1>1. CASE Ask
  <2> USE DEF WatchInv
  <2> DEFINE block == IF last = Unknown THEN <<>> ELSE <<<<"block_for", <<"interval", from>>>>>>
             v == <<"interval", from>>
  <2>1. /\ phase = "idle" /\ phase' = "sent" /\ query' = Request(block)
        /\ at' \in {"leader"} \cup {s \in {"follower"} : query'.consistency = "stale"}
        /\ UNCHANGED <<config, servers, reply, caller>>
    BY <1>1 DEF Ask
  <2>2. block = <<>> <=> last = Unknown
    <3>1. \A x : <<x>> # <<>>
      OBVIOUS
    <3> QED
      BY <3>1
  <2>3. query' = [consistency |-> Chosen,
                  wait  |-> IF last = Unknown THEN None ELSE "interval",
                  index |-> IF last = Unknown THEN 0 ELSE from]
    <3>1. config \in Configs /\ (block = <<>> \/ block = <<<<"block_for", v>>>>)
      BY DEF TypeOK
    <3>2. v[1] = "interval" /\ v[2] = from
      OBVIOUS
    <3> HIDE DEF block, v
    <3> QED
      BY <2>1, <2>2, <3>1, <3>2, RequestIs
  <2> HIDE DEF block
  <2>4. Chosen \in {Default, "stale"} /\ from \in 0 .. MaxIndex
    BY DEF Chosen, Configs, TypeOK, None, Default
  <2>5. /\ query' \in [consistency : {Default, "stale"}, wait : {None, "interval"}, index : 0 .. MaxIndex]
        /\ query'.consistency = Chosen
        /\ last # Unknown => query'.index = from
    BY <2>3, <2>4
  <2>6. TypeOK' /\ LogInv' /\ FromInv' /\ NewsInv' /\ OrderInv'
    BY <2>1, <2>5 DEF TypeOK, LogInv, FromInv, Follows, NewsInv, OrderInv, servers, caller, Chosen
  <2>7. QueryInv'
    BY <2>1, <2>5 DEF QueryInv, FromInv, Follows, caller, Chosen
  <2> QED
    BY <2>6, <2>7
<1>2. CASE Return
  <2> USE DEF WatchInv
  <2>1. phase = "answered" /\ Over /\ UNCHANGED <<config, servers>>
    BY <1>2 DEF Return
  <2>2. CASE UNCHANGED caller
    <3>1. Len(log) \in 1 .. MaxIndex /\ behind \in DOMAIN log /\ restored \in BOOLEAN
      BY DEF TypeOK
    <3> QED
      BY <2>1, <2>2, <3>1, OverStep DEF LogInv, servers
  <2>3. CASE ~ UNCHANGED caller
    <3> DEFINE response == CASE config.api = "item" -> ItemResponse
                             [] config.api = "tree" -> TreeResponse
                             [] config.api = "list" -> ListResponse
    <3>1. /\ response.data # Thrown
          /\ from' = IF config.by = "item" THEN ModifyIndex(response) ELSE response.headers.index
          /\ last' = response.data
          /\ told' = reply.index
      BY <1>2, <2>3 DEF Return
    <3>2. config.api \in {"item", "tree", "list"}
      BY DEF TypeOK, Configs
    <3>3. reply.status # 500 /\ response.headers.index = reply.index
          /\ response.data \in {reply.value, Empty}
      BY <3>1, <3>2 DEF ItemResponse, TreeResponse, ListResponse, Response, Headers, NoHeaders, Thrown
    <3> HIDE DEF response
    <3>4. reply.index \in 0 .. MaxIndex /\ reply.value \in Stored
      BY DEF TypeOK
    <3>5. from' \in 0 .. MaxIndex /\ told' \in 0 .. MaxIndex /\ last' \in Stored \cup {Unknown}
      BY <3>1, <3>3, <3>4 DEF ModifyIndex, Stored
    <3>6. NoQuery \in [consistency : {Default, "stale"}, wait : {None, "interval"}, index : 0 .. MaxIndex]
      BY DEF NoQuery
    <3>7. NoReply \in [status : {200, 404, 500}, index : 0 .. MaxIndex, value : Stored, waited : BOOLEAN]
      BY DEF NoReply, Stored
    <3>8. TypeOK' /\ LogInv'
      BY <2>1, <3>5, <3>6, <3>7 DEF TypeOK, LogInv, Over, servers
    <3>9. FromInv' /\ QueryInv' /\ NewsInv'
      BY <2>1, <3>1, <3>3 DEF FromInv, Follows, ModifyIndex, QueryInv, NewsInv, Over
    <3>10. OrderInv'
      BY <2>1, <3>1, <3>3, <3>4 DEF OrderInv, Over, servers, Chosen, TypeOK
    <3> QED
      BY <3>8, <3>9, <3>10
  <2> QED
    BY <2>2, <2>3
<1>3. CASE RequestTimesOut \/ TransferFails
  <2>1. Over /\ UNCHANGED <<config, servers, caller>>
    BY <1>3 DEF RequestTimesOut, TransferFails
  <2>2. LogInv /\ Len(log) \in 1 .. MaxIndex /\ behind \in DOMAIN log /\ restored \in BOOLEAN
    BY DEF WatchInv, TypeOK
  <2> QED
    BY <2>1, <2>2, OverStep DEF LogInv, servers
<1>4. CASE Arrive \/ Wake
  BY <1>4, AnswerStep DEF Arrive, Wake
<1>5. CASE WaitOver
  BY <1>5, AnswerStep DEF WaitOver
<1>6. CASE Block
  BY <1>6 DEF Block, WatchInv, TypeOK, LogInv, FromInv, Follows, QueryInv, NewsInv, OrderInv, servers, caller, Chosen
<1>7. CASE ServerError
  <2>1. reply' = [status |-> 500, index |-> 0, value |-> Empty, waited |-> FALSE]
    BY <1>7 DEF ServerError, NoReply
  <2>2. /\ reply' \in [status : {200, 404, 500}, index : 0 .. MaxIndex, value : Stored, waited : BOOLEAN]
        /\ reply'.status = 500
    BY <2>1 DEF Stored
  <2> QED
    BY <1>7, <2>2
       DEF ServerError, WatchInv, TypeOK, LogInv, FromInv, Follows, QueryInv, NewsInv, OrderInv, servers, caller, Chosen
<1>8. ASSUME NEW v \in Stored, Write(v)
      PROVE  WatchInv'
  <2> USE DEF WatchInv
  <2>1. /\ log' = Append(log, v) /\ Len(log) < MaxIndex
        /\ UNCHANGED <<config, behind, restored, call, caller>>
    BY <1>8 DEF Write
  <2>2. /\ log \in Seq(Stored) /\ Len(log) \in 1 .. MaxIndex /\ DOMAIN log = 1 .. Len(log)
        /\ log' \in Seq(Stored) /\ Len(log') = Len(log) + 1 /\ DOMAIN log' = 1 .. Len(log')
    BY <2>1, AppendProperties, LenProperties DEF LogInv, TypeOK
  <2>3. Len(log') \in 1 .. MaxIndex /\ behind' \in DOMAIN log'
    BY <2>1, <2>2 DEF TypeOK
  <2>4. \A i \in DOMAIN log' : log'[i] \in Stored
    BY <2>2, ElementOfSeq
  <2>5. TypeOK' /\ LogInv' /\ FromInv' /\ QueryInv' /\ NewsInv'
    BY <2>1, <2>2, <2>3, <2>4 DEF TypeOK, LogInv, FromInv, Follows, QueryInv, NewsInv, call, caller, Chosen
  <2>6. OrderInv'
    BY <2>1, <2>2 DEF OrderInv, call, caller, Chosen, TypeOK
  <2> QED
    BY <2>5, <2>6
<1>9. CASE CatchUp
  <2> USE DEF WatchInv
  <2>1. behind' \in DOMAIN log
    BY <1>9, LenProperties DEF CatchUp, LogInv, TypeOK
  <2> QED
    BY <1>9, <2>1 DEF CatchUp, TypeOK, LogInv, FromInv, Follows, QueryInv, NewsInv, OrderInv, call, caller, Chosen
<1>10. ASSUME NEW i \in 1 .. Len(log) - 1, Restore(i)
       PROVE  WatchInv'
  <2> USE DEF WatchInv
  <2>1. log \in Seq(Stored) /\ Len(log) \in 1 .. MaxIndex /\ DOMAIN log = 1 .. Len(log)
    BY LenProperties DEF LogInv, TypeOK
  <2>2. /\ restored' = TRUE /\ log' = SubSeq(log, 1, i)
        /\ behind' = IF behind > i THEN i ELSE behind
        /\ UNCHANGED <<config, caller>>
        /\ Over \/ (UNCHANGED call /\ phase \notin {"sent", "blocked"})
    BY <1>10 DEF Restore
  <2>3. log' \in Seq(Stored) /\ Len(log') = i /\ DOMAIN log' = 1 .. i
    BY <2>1, <2>2, SubSeqProperties, LenProperties
  <2>4. Len(log') \in 1 .. MaxIndex /\ behind' \in DOMAIN log' /\ \A j \in DOMAIN log' : log'[j] \in Stored
    BY <2>1, <2>2, <2>3, ElementOfSeq DEF TypeOK
  <2>5. CASE Over
    BY <2>2, <2>3, <2>4, <2>5, OverStep
  <2>6. CASE UNCHANGED call
    <3>1. TypeOK'
      BY <2>2, <2>3, <2>4, <2>6 DEF TypeOK, call, caller
    <3>2. LogInv' /\ FromInv' /\ QueryInv' /\ NewsInv' /\ OrderInv'
      BY <2>2, <2>3, <2>6 DEF LogInv, FromInv, Follows, QueryInv, NewsInv, OrderInv, call, caller, Chosen
    <3> QED
      BY <3>1, <3>2
  <2> QED
    BY <2>2, <2>5, <2>6
<1>11. CASE UNCHANGED vars
  BY <1>11 DEF vars, WatchInv, TypeOK, LogInv, FromInv, Follows, QueryInv, NewsInv, OrderInv, servers, call, caller, Chosen
<1> QED
  BY <1>1, <1>2, <1>3, <1>4, <1>5, <1>6, <1>7, <1>8, <1>9, <1>10, <1>11 DEF Next

(* The invariant holds of any caller and any server.                       *)
THEOREM WatchInvariance == Spec => []WatchInv
BY WatchInit, WatchStep, PTL DEF Spec

(* Indexes stay within what the servers may have had, and every response   *)
(* and query keeps its type.                                               *)
THEOREM WatchTypeCorrect == Spec => []TypeOK
<1>1. WatchInv => TypeOK
  BY DEF WatchInv
<1> QED
  BY <1>1, WatchInvariance, PTL

(***************************************************************************)
(* A caller never spins, unless by the modifyIndex of a missing item: a    *)
(* response that repeats the index of the one before it has waited.        *)
(***************************************************************************)
THEOREM HeadersNeverSpin == Spec => []QueryWaits
<1>1. WatchInv => QueryWaits
  <2> SUFFICES ASSUME WatchInv, ToldAgain, ~ (config.by = "item" /\ last = Empty)
               PROVE  FALSE
    BY DEF QueryWaits
  <2>1. query.index = told /\ reply.index = told
    BY DEF WatchInv, QueryInv, ToldAgain, Follows
  <2>2. reply.index > query.index
    BY DEF WatchInv, NewsInv, ToldAgain
  <2>3. told \in 0 .. MaxIndex
    BY DEF WatchInv, TypeOK
  <2> QED
    BY <2>1, <2>2, <2>3
<1> QED
  BY <1>1, WatchInvariance, PTL

(***************************************************************************)
(* Unless stale reads were asked for or the servers are restored, a caller *)
(* is never told something older than what it was told before.             *)
(***************************************************************************)
THEOREM ToldInOrder == Spec => InOrder
<1>1. WatchInv /\ [Next]_vars => [Chosen # "stale" /\ ~ restored => told' >= told]_vars
  <2> SUFFICES ASSUME WatchInv, Next, Chosen # "stale", ~ restored
               PROVE  told' >= told
    BY DEF vars
  <2>1. told \in Nat
    BY WatchAssumption DEF WatchInv, TypeOK
  <2>2. CASE Return
    <3>1. CASE UNCHANGED caller
      BY <2>1, <3>1 DEF caller
    <3>2. CASE ~ UNCHANGED caller
      <4>1. phase = "answered" /\ told' = reply.index
        BY <2>2, <3>2 DEF Return
      <4>2. reply.status # 500
        <5>1. config.api \in {"item", "tree", "list"}
          BY DEF WatchInv, TypeOK, Configs
        <5> QED
          BY <2>2, <3>2, <5>1 DEF Return, ItemResponse, TreeResponse, ListResponse, Response, Thrown
      <4> QED
        BY <2>1, <4>1, <4>2 DEF WatchInv, OrderInv
    <3> QED
      BY <3>1, <3>2
  <2>3. CASE ~ Return
    <3>1. UNCHANGED told
      BY <2>3 DEF Next, Ask, RequestTimesOut, TransferFails, Arrive, Block, Wake, WaitOver, ServerError,
                  CatchUp, Write, Restore, Answer, caller
    <3> QED
      BY <2>1, <3>1
  <2> QED
    BY <2>2, <2>3
<1> QED
  BY <1>1, WatchInvariance, PTL DEF Spec, InOrder
=============================================================================
