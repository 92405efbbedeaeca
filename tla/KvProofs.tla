------------------------------ MODULE KvProofs ------------------------------
(***************************************************************************)
(* Theorems about Kv and Sessions: what a caller of lock() or commit() has *)
(* reason to think it locked it holds at the server, and what it updates   *)
(* on the strength of something read had not changed meanwhile; and every  *)
(* method is one atomic operation of the store (AtomicStore).  All that    *)
(* for any callers that lock and unlock with sessions, any keys and any    *)
(* number of calls, and whatever the network does.                         *)
(***************************************************************************)
EXTENDS Kv, ParametersProofs, FiniteSetTheorems

(***************************************************************************)
(* keyPath() leaves dots alone and libcurl takes "." out of a path; keys,  *)
(* prefixes and ids of sessions that are only a dot are asked for as "".   *)
(***************************************************************************)
Undotted ==
  /\ "." \notin SessionIds
  /\ \A w \in Workloads : "." \notin w.keys \cup w.prefixes

(***************************************************************************)
(* Callers lock and unlock with sessions only: without one lock() and      *)
(* unlock() are plain writes (see LockAcquired).                           *)
(***************************************************************************)
Sessioned == \A w \in Workloads : ~ w.bare

(* The operations that the store knows, by what they are about.            *)
KeyVerbs  == {"set", "cas", "lock", "unlock", "delete", "delete-cas", "get",
              "check-index", "check-not-exists", "check-session"}
TreeVerbs == {"get-tree", "delete-tree", "keys"}
OfSession == {"create", "renew", "destroy"}

GoodOp(op) ==
  /\ op = Op(op.verb, op.at, op.index, op.session, op.body)
  /\ op.verb \in KeyVerbs \cup TreeVerbs \cup OfSession
  /\ op.verb \in KeyVerbs => op.at \in Keys
  /\ op.verb \in TreeVerbs => op.at \in DOMAIN Under
  /\ op.verb = "lock" => op.session \in SessionIds

(* One operation, or a transaction of two.                                 *)
GoodOps(ops) ==
  /\ \/ ops = <<ops[1]>>
     \/ ops = <<ops[1], ops[2]>> /\ GoodOp(ops[2]) /\ ops[2].verb # "create" /\ ops[1].verb # "create"
  /\ GoodOp(ops[1])

(* What the server reads in a request are the operations it was made for,  *)
(* with indexes as doubles in a transaction.                               *)
ReadBack(c) ==
  Decode(c.request) = IF c.method = "commit" THEN <<TxnOp(c.ops[1]), TxnOp(c.ops[2])>> ELSE c.ops
GoodCall(c) ==
  /\ GoodOps(c.ops)
  /\ ReadBack(c)
  /\ c.method = "commit" => c.request.verb = "TXN" /\ c.ops = <<c.ops[1], c.ops[2]>>
  /\ c.method # "commit" => c.ops = <<c.ops[1]>>
  /\ c.method = "lock" => c.request.verb = "PUT"
  /\ c.method = "create" <=> c.ops[1].verb = "create"
  /\ c.method = "create" => c.request.verb = "CREATE"
  /\ \A n \in DOMAIN c.ops : c.ops[n].verb = "lock" => c.method \in {"lock", "commit"}

ServerTypes(s) ==
  /\ DOMAIN s = {"store", "index", "sessions", "named"}
  /\ s.index \in Nat
  /\ DOMAIN s.store = Keys
  /\ \A k \in Keys :
       /\ DOMAIN s.store[k] = {"modify", "value", "session"}
       /\ s.store[k].modify \in 0 .. s.index
       /\ s.store[k].session \in DOMAIN s.sessions \cup {NoSession}
  /\ DOMAIN s.sessions \subseteq s.named
  /\ s.named \subseteq SessionIds

(* A call without a body may be processed twice, any other once.           *)
FateOK(t) ==
  /\ DOMAIN fate[t] = {"expect", "before", "repeated", "broken", "times", "took", "says", "made"}
  /\ fate[t].repeated \in BOOLEAN
  /\ fate[t].times \in Nat
  /\ net[t] = "none" => fate[t].times = 0 /\ ~ fate[t].repeated
  /\ net[t] = "sent" => fate[t].times <= IF fate[t].repeated THEN 1 ELSE 0
  /\ net[t] = "answered" => fate[t].times <= IF fate[t].repeated THEN 2 ELSE 1

KvTypes ==
  /\ workload \in Workloads
  /\ ServerTypes(server)
  /\ DOMAIN call = Callers /\ DOMAIN reply = Callers /\ DOMAIN fate = Callers
  /\ net \in [Callers -> {"none", "sent", "answered"}]
  /\ session \in [Callers -> server.named \cup {NoSession}]
  /\ holds \in [Callers -> SUBSET Keys]

(* A call on its way locks for the session of its caller.                  *)
CallOK(t) ==
  net[t] # "none" =>
    /\ GoodCall(call[t])
    /\ \A n \in DOMAIN call[t].ops :
         call[t].ops[n].verb = "lock" => session[t] = call[t].ops[n].session
    /\ call[t].method = "create" => session[t] = NoSession

(* A session that create() is about to return has a name of the server's.  *)
CreatedOK(t) ==
  net[t] = "answered" /\ call[t].method = "create" /\ Success(reply[t].status) =>
    reply[t].made[1] \in server.named

(* The keys that a call locks if it is a success.                          *)
LockedBy(c, as) ==
  IF as \notin {"ok", "true"} THEN {}
  ELSE {op.at : op \in {c.ops[n] : n \in {m \in DOMAIN c.ops : c.ops[m].verb = "lock"}}}

SessionAt(s, k) == s.store[k].session

(***************************************************************************)
(* What a call that is about to return as a success has locked, and nobody *)
(* has ended since it was sent, is locked for the session of its caller.   *)
(***************************************************************************)
LockOK(t) ==
  net[t] = "answered" =>
    \A k \in LockedBy(call[t], Result(call[t].method, reply[t])) \ fate[t].broken :
      SessionAt(server, k) = session[t]

(* What a caller has reason to think it locked.                            *)
HoldOK(t) ==
  /\ session[t] = NoSession => holds[t] = {}
  /\ \A k \in holds[t] : SessionAt(server, k) = session[t]

CallerOK(t) == FateOK(t) /\ CallOK(t) /\ CreatedOK(t) /\ LockOK(t) /\ HoldOK(t)

(* A late call is one that a caller could have made.                       *)
LateOK ==
  /\ orphans \in Seq(Range(orphans))
  /\ \A c \in Range(orphans) : GoodCall(c)

KvInv ==
  /\ KvTypes
  /\ \A t \in Callers : CallerOK(t)
  /\ LateOK
-----------------------------------------------------------------------------
(* The query of a request: its one argument, if that is printed.           *)
LEMMA NoKeywords ==
  ASSUME NEW j, j \notin {"dc", "token"}
  PROVE  j \notin DOMAIN ConsulQuery([dc |-> Empty, token |-> Empty],
                                     <<<<"token", Empty>>, <<"dc", Empty>>>> \o <<>>)
<1> DEFINE token == <<"token", Empty>>
           dc == <<"dc", Empty>>
           S == {token, dc}
           args == <<token, dc>> \o <<>>
<1>1. <<token, dc>> \in Seq(S) /\ <<>> \in Seq(S)
  OBVIOUS
<1>2. ~ Given(j, <<token, dc>>)
  BY DEF Given
<1> HIDE DEF S, token, dc
<1>3. ~ Given(j, <<>>)
  BY DEF Given
<1>4. args \in Seq(S) /\ ~ Given(j, args)
  BY <1>1, <1>2, <1>3, LastOfBoth
<1> HIDE DEF args
<1> DEFINE consul == [dc |-> Empty, token |-> Empty]
<1> HIDE DEF consul
<1>5. \A k : k # "dc" /\ ~ Given(k, args) => k \notin DOMAIN ConsulQuery(consul, args)
  BY <1>4, ConsulQueryIs
<1> QED
  BY <1>4, <1>5, Zenon DEF args, token, dc, consul

(* The query of a request with one keyword.                                 *)
LEMMA OneKeyword ==
  ASSUME NEW k, NEW v, k \notin {"dc", "token"}
  PROVE  LET q == ConsulQuery([dc |-> Empty, token |-> Empty],
                              <<<<"token", Empty>>, <<"dc", Empty>>>> \o <<<<k, v>>>>)
         IN  /\ k \in DOMAIN q <=> Printed(k, v)
             /\ Printed(k, v) => q[k] = v
             /\ \A j : j \notin {k, "dc", "token"} => j \notin DOMAIN q
<1> DEFINE token == <<"token", Empty>>
           dc == <<"dc", Empty>>
           pair == <<k, v>>
           S == {token, dc, pair}
           args == <<token, dc>> \o <<pair>>
           consul == [dc |-> Empty, token |-> Empty]
           q == ConsulQuery(consul, args)
<1>1. <<token, dc>> \in Seq(S)
  OBVIOUS
<1>2. \A j : j \notin {"dc", "token"} => ~ Given(j, <<token, dc>>)
  BY DEF Given
<1>3. /\ <<<<k, v>>>> \in Seq(S)
      /\ LastIs(<<<<k, v>>>>, k, v)
      /\ \A j : Given(j, <<<<k, v>>>>) <=> j = k
  <2>1. <<k, v>> \in S
    BY DEF pair
  <2> HIDE DEF S
  <2> QED
    BY <2>1, OneArgument
<1>4. pair[1] = k /\ pair[2] = v
  OBVIOUS
<1>5. <<pair>> \in Seq(S) /\ LastIs(<<pair>>, k, v) /\ \A j : Given(j, <<pair>>) <=> j = k
  BY <1>3, Zenon DEF pair
<1> HIDE DEF S, token, dc
<1>6. /\ args \in Seq(S)
      /\ \A j : Given(j, args) <=> Given(j, <<token, dc>>) \/ Given(j, <<pair>>)
      /\ LastIs(args, k, v)
  <2>1. /\ args \in Seq(S)
        /\ \A j : Given(j, args) <=> Given(j, <<token, dc>>) \/ Given(j, <<pair>>)
        /\ \A j, w : LastIs(<<pair>>, j, w) => LastIs(args, j, w)
    <3> HIDE DEF pair
    <3> QED
      BY <1>1, <1>5, LastOfBoth
  <2> HIDE DEF args, pair
  <2> QED
    BY <1>5, <2>1
<1> HIDE DEF args, consul
<1>7. /\ \A i \in DOMAIN args :
           args[i][1] # "token" /\ IsLast(args, i) =>
             /\ args[i][1] \in DOMAIN q <=> Printed(args[i][1], args[i][2])
             /\ Printed(args[i][1], args[i][2]) => q[args[i][1]] = args[i][2]
      /\ \A j : j # "dc" /\ ~ Given(j, args) => j \notin DOMAIN q
  BY <1>6, ConsulQueryIs
<1>8. PICK i \in DOMAIN args : args[i] = pair /\ IsLast(args, i)
  BY <1>6 DEF LastIs, pair
<1> HIDE DEF q, pair
<1>9. /\ k \in DOMAIN q <=> Printed(k, v)
      /\ Printed(k, v) => q[k] = v
  BY <1>4, <1>7, <1>8
<1>10. \A j : j \notin {k, "dc", "token"} => j \notin DOMAIN q
  BY <1>2, <1>5, <1>6, <1>7
<1> QED
  BY <1>9, <1>10, Zenon DEF q, args, pair, token, dc, consul

(* The query of a request, and its fields unless its path is a dot.        *)
QueryOf(args) == ConsulQuery([dc |-> Empty, token |-> Empty],
                             <<<<"token", Empty>>, <<"dc", Empty>>>> \o args)
HasFields(r, verb, at, b, query) == r.verb = verb /\ r.path = at /\ r.body = b /\ r.query = query

(* What the server gets of a request.                                       *)
LEMMA HttpFields ==
  ASSUME NEW verb, NEW at, at # ".", NEW args, NEW b
  PROVE  HasFields(Http(verb, at, args, b), verb, at, b, QueryOf(args))
<1> DEFINE q == QueryOf(args)
<1>1. Http(verb, at, args, b) = [verb |-> verb, path |-> at, body |-> b, ops |-> <<>>, query |-> q]
  BY Zenon DEF Http, Squashed, QueryOf
<1> HIDE DEF q
<1>2. HasFields(Http(verb, at, args, b), verb, at, b, q)
  BY <1>1 DEF HasFields
<1> QED
  BY <1>2, Zenon DEF q

(* Requests without a keyword of their own.                                *)
LEMMA PlainRequests ==
  ASSUME NEW at, at # ".", NEW b
  PROVE  /\ Decode(Http("GET", at, <<>>, b)) = <<Op("get", at, 0, NoSession, b)>>
         /\ Decode(Http("PUT", at, <<>>, b)) = <<Op("set", at, 0, NoSession, b)>>
         /\ Decode(Http("DELETE", at, <<>>, b)) = <<Op("delete", at, 0, NoSession, b)>>
<1>1. ASSUME NEW verb, NEW r, r = Http(verb, at, <<>>, b)
      PROVE  /\ r.verb = verb /\ r.path = at /\ r.body = b
             /\ \A j \in {"recurse", "keys", "cas", "acquire", "release"} : j \notin DOMAIN r.query
  <2>1. \A j : j \notin {"dc", "token"} => j \notin DOMAIN QueryOf(<<>>)
    BY NoKeywords, Zenon DEF QueryOf
  <2>2. HasFields(Http(verb, at, <<>>, b), verb, at, b, QueryOf(<<>>))
    BY HttpFields, Zenon
  <2> QED
    BY <1>1, <2>1, <2>2 DEF HasFields
<1>2. ASSUME NEW r, r.verb = "GET", r.path = at, r.body = b,
             \A j \in {"recurse", "keys", "cas", "acquire", "release"} : j \notin DOMAIN r.query
      PROVE  Decode(r) = <<Op("get", at, 0, NoSession, b)>>
  BY <1>2 DEF Decode
<1>3. ASSUME NEW r, r.verb = "PUT", r.path = at, r.body = b,
             \A j \in {"recurse", "keys", "cas", "acquire", "release"} : j \notin DOMAIN r.query
      PROVE  Decode(r) = <<Op("set", at, 0, NoSession, b)>>
  BY <1>3 DEF Decode
<1>4. ASSUME NEW r, r.verb = "DELETE", r.path = at, r.body = b,
             \A j \in {"recurse", "keys", "cas", "acquire", "release"} : j \notin DOMAIN r.query
      PROVE  Decode(r) = <<Op("delete", at, 0, NoSession, b)>>
  BY <1>4 DEF Decode
<1> QED
  BY <1>1, <1>2, <1>3, <1>4

(* The keyword of a request is shown in its query if it is printed.        *)
Words == {"recurse", "keys", "cas", "acquire", "release"}
Shown(r, at, b, k, v) ==
  /\ r.path = at /\ r.body = b
  /\ \A j \in Words \ {k} : j \notin DOMAIN r.query
  /\ k \in DOMAIN r.query /\ r.query[k] = v
Unshown(r, at, b) ==
  /\ r.path = at /\ r.body = b
  /\ \A j \in Words : j \notin DOMAIN r.query

(* Requests with one.                                                      *)
LEMMA KeywordRequests ==
  ASSUME NEW verb, NEW at, at # ".", NEW k \in Words, NEW v, NEW b,
         NEW r, r = Http(verb, at, <<<<k, v>>>>, b)
  PROVE  /\ r.verb = verb
         /\ k \in {"recurse", "keys", "cas"} \/ v # Empty => Shown(r, at, b, k, v)
         /\ k \in {"acquire", "release"} /\ v = Empty => Unshown(r, at, b)
<1>1. k \notin {"dc", "token"}
  BY DEF Words
<1> DEFINE q == QueryOf(<<<<k, v>>>>)
<1>2. /\ k \in DOMAIN q <=> Printed(k, v)
      /\ Printed(k, v) => q[k] = v
      /\ \A j : j \notin {k, "dc", "token"} => j \notin DOMAIN q
  BY <1>1, OneKeyword, Zenon DEF QueryOf
<1>3. HasFields(Http(verb, at, <<<<k, v>>>>, b), verb, at, b, q)
  BY HttpFields, Zenon
<1>4. /\ k \in {"recurse", "keys", "cas"} => Printed(k, v)
      /\ k \in {"acquire", "release"} => (Printed(k, v) <=> v # Empty)
  BY DEF Printed, StringKeywords
<1> HIDE DEF q
<1>5. r.verb = verb /\ r.path = at /\ r.body = b /\ r.query = q
  BY <1>3 DEF HasFields
<1>6. \A j \in Words \ {k} : j \notin DOMAIN q
  BY <1>2 DEF Words
<1>7. k \in {"recurse", "keys", "cas", "acquire", "release"}
  BY DEF Words
<1> QED
  BY <1>2, <1>4, <1>5, <1>6, <1>7 DEF Shown, Unshown

(* The server reads the keys with a prefix, or their items.                *)
LEMMA GetRequests ==
  ASSUME NEW at, at # ".", NEW b, NEW v
  PROVE  /\ Decode(Http("GET", at, <<<<"recurse", v>>>>, b)) = <<Op("get-tree", at, 0, NoSession, b)>>
         /\ Decode(Http("GET", at, <<<<"keys", v>>>>, b)) = <<Op("keys", at, 0, NoSession, b)>>
<1>1. ASSUME NEW r, r.verb = "GET"
      PROVE  /\ Shown(r, at, b, "recurse", v) => Decode(r) = <<Op("get-tree", at, 0, NoSession, b)>>
             /\ Shown(r, at, b, "keys", v) => Decode(r) = <<Op("keys", at, 0, NoSession, b)>>
  BY <1>1 DEF Decode, Shown, Words
<1>2. ASSUME NEW k \in {"recurse", "keys"}, NEW r, r = Http("GET", at, <<<<k, v>>>>, b)
      PROVE  r.verb = "GET" /\ Shown(r, at, b, k, v)
  BY <1>2, KeywordRequests DEF Words
<1> QED
  BY <1>1, <1>2, Zenon

(* It erases the keys with a prefix, or one that has not changed.          *)
LEMMA DeleteRequests ==
  ASSUME NEW at, at # ".", NEW b, NEW v
  PROVE  /\ Decode(Http("DELETE", at, <<<<"recurse", v>>>>, b)) = <<Op("delete-tree", at, 0, NoSession, b)>>
         /\ Decode(Http("DELETE", at, <<<<"cas", v>>>>, b)) = <<Op("delete-cas", at, v, NoSession, b)>>
<1>1. ASSUME NEW r, r.verb = "DELETE"
      PROVE  /\ Shown(r, at, b, "recurse", v) => Decode(r) = <<Op("delete-tree", at, 0, NoSession, b)>>
             /\ Shown(r, at, b, "cas", v) => Decode(r) = <<Op("delete-cas", at, v, NoSession, b)>>
  BY <1>1 DEF Decode, Shown, Words
<1>2. ASSUME NEW k \in {"recurse", "cas"}, NEW r, r = Http("DELETE", at, <<<<k, v>>>>, b)
      PROVE  r.verb = "DELETE" /\ Shown(r, at, b, k, v)
  BY <1>2, KeywordRequests DEF Words
<1> QED
  BY <1>1, <1>2, Zenon

(* It sets a key that has not changed.                                     *)
LEMMA CompareRequest ==
  ASSUME NEW at, at # ".", NEW b, NEW v
  PROVE  Decode(Http("PUT", at, <<<<"cas", v>>>>, b)) = <<Op("cas", at, v, NoSession, b)>>
<1>1. ASSUME NEW r, r.verb = "PUT", Shown(r, at, b, "cas", v)
      PROVE  Decode(r) = <<Op("cas", at, v, NoSession, b)>>
  BY <1>1 DEF Decode, Shown, Words
<1>2. ASSUME NEW r, r = Http("PUT", at, <<<<"cas", v>>>>, b)
      PROVE  r.verb = "PUT" /\ Shown(r, at, b, "cas", v)
  BY <1>2, KeywordRequests DEF Words
<1> QED
  BY <1>1, <1>2, Zenon

(* It locks one for the session that is named, or sets it if none is.      *)
LEMMA AcquireRequest ==
  ASSUME NEW at, at # ".", NEW b, NEW v
  PROVE  Decode(Http("PUT", at, <<<<"acquire", v>>>>, b)) =
           IF v = Empty THEN <<Op("set", at, 0, NoSession, b)>> ELSE <<Op("lock", at, 0, v, b)>>
<1>1. ASSUME NEW r, r.verb = "PUT"
      PROVE  /\ Shown(r, at, b, "acquire", v) => Decode(r) = <<Op("lock", at, 0, v, b)>>
             /\ Unshown(r, at, b) => Decode(r) = <<Op("set", at, 0, NoSession, b)>>
  BY <1>1 DEF Decode, Shown, Unshown, Words
<1>2. ASSUME NEW r, r = Http("PUT", at, <<<<"acquire", v>>>>, b)
      PROVE  /\ r.verb = "PUT"
             /\ v # Empty => Shown(r, at, b, "acquire", v)
             /\ v = Empty => Unshown(r, at, b)
  BY <1>2, KeywordRequests DEF Words
<1> QED
  BY <1>1, <1>2, Zenon

(* And unlocks it.                                                         *)
LEMMA ReleaseRequest ==
  ASSUME NEW at, at # ".", NEW b, NEW v, v # Empty
  PROVE  Decode(Http("PUT", at, <<<<"release", v>>>>, b)) = <<Op("unlock", at, 0, v, b)>>
<1>1. ASSUME NEW r, r.verb = "PUT", Shown(r, at, b, "release", v)
      PROVE  Decode(r) = <<Op("unlock", at, 0, v, b)>>
  BY <1>1 DEF Decode, Shown, Words
<1>2. ASSUME NEW r, r = Http("PUT", at, <<<<"release", v>>>>, b)
      PROVE  r.verb = "PUT" /\ Shown(r, at, b, "release", v)
  BY <1>2, KeywordRequests DEF Words
<1> QED
  BY <1>1, <1>2, Zenon

(* Requests about sessions.                                                *)
LEMMA SessionRequests ==
  ASSUME NEW id, id # ".", NEW b
  PROVE  /\ Decode(Http("CREATE", id, <<>>, b)) = <<Op("create", Empty, 0, NoSession, b)>>
         /\ Decode(Http("RENEW", id, <<>>, b)) = <<Op("renew", Empty, 0, id, Empty)>>
         /\ Decode(Http("DESTROY", id, <<>>, b)) = <<Op("destroy", Empty, 0, id, Empty)>>
<1>1. ASSUME NEW verb, NEW r, r = Http(verb, id, <<>>, b)
      PROVE  r.verb = verb /\ r.path = id /\ r.body = b
  <2>1. HasFields(Http(verb, id, <<>>, b), verb, id, b, QueryOf(<<>>))
    BY HttpFields, Zenon
  <2> QED
    BY <1>1, <2>1 DEF HasFields
<1>2. ASSUME NEW r, r.path = id, r.body = b
      PROVE  /\ r.verb = "CREATE" => Decode(r) = <<Op("create", Empty, 0, NoSession, b)>>
             /\ r.verb = "RENEW" => Decode(r) = <<Op("renew", Empty, 0, id, Empty)>>
             /\ r.verb = "DESTROY" => Decode(r) = <<Op("destroy", Empty, 0, id, Empty)>>
  BY <1>2 DEF Decode
<1> QED
  BY <1>1, <1>2

(* A call as Begin makes it.                                               *)
CallOf(method, ops) == [method |-> method, ops |-> ops, request |-> Request(method, ops)]

(* What a caller asks for, and with which request.                          *)
LEMMA CallFields ==
  ASSUME NEW method, NEW ops
  PROVE  LET c == CallOf(method, ops)
         IN  c.method = method /\ c.ops = ops /\ c.request = Request(method, ops)
<1> DEFINE r == Request(method, ops)
<1>1. CallOf(method, ops) = [method |-> method, ops |-> ops, request |-> r]
  BY Zenon DEF CallOf
<1> HIDE DEF r
<1>2. LET c == CallOf(method, ops) IN c.method = method /\ c.ops = ops /\ c.request = r
  BY <1>1
<1> QED
  BY <1>2, Zenon DEF r

(* The request of each method.                                             *)
LEMMA RequestOf ==
  ASSUME NEW op
  PROVE  /\ Request("item", <<op>>) = Http("GET", op.at, <<>>, Empty)
         /\ Request("items", <<op>>) = Http("GET", op.at, <<<<"recurse", TRUE>>>>, Empty)
         /\ Request("keys", <<op>>) = Http("GET", op.at, <<<<"keys", TRUE>>>>, Empty)
         /\ Request("set", <<op>>) = Http("PUT", op.at, <<>>, op.body)
         /\ Request("erase", <<op>>) = Http("DELETE", op.at, <<>>, Empty)
         /\ Request("eraseAll", <<op>>) = Http("DELETE", op.at, <<<<"recurse", TRUE>>>>, Empty)
         /\ Request("compareSet", <<op>>) = Http("PUT", op.at, <<<<"cas", op.index>>>>, op.body)
         /\ Request("compareErase", <<op>>) = Http("DELETE", op.at, <<<<"cas", op.index>>>>, Empty)
         /\ Request("lock", <<op>>) = Http("PUT", op.at, <<<<"acquire", op.session>>>>, op.body)
         /\ Request("unlock", <<op>>) = Http("PUT", op.at, <<<<"release", op.session>>>>, op.body)
         /\ Request("create", <<op>>) = Http("CREATE", Empty, <<>>, op.body)
         /\ Request("renew", <<op>>) = Http("RENEW", op.session, <<>>, Empty)
         /\ Request("destroy", <<op>>) = Http("DESTROY", op.session, <<>>, Empty)
<1>1. <<op>>[1] = op
  OBVIOUS
<1>2. /\ Request("item", <<op>>) = ItemRequest(op)
      /\ Request("items", <<op>>) = ItemsRequest(op)
      /\ Request("keys", <<op>>) = KeysRequest(op)
      /\ Request("set", <<op>>) = SetRequest(op)
      /\ Request("erase", <<op>>) = EraseRequest(op)
      /\ Request("eraseAll", <<op>>) = EraseAllRequest(op)
  BY <1>1 DEF Request
<1>3. /\ Request("compareSet", <<op>>) = CompareSetRequest(op)
      /\ Request("compareErase", <<op>>) = CompareEraseRequest(op)
      /\ Request("lock", <<op>>) = LockRequest(op)
      /\ Request("unlock", <<op>>) = UnlockRequest(op)
      /\ Request("create", <<op>>) = CreateSessionRequest(op)
      /\ Request("renew", <<op>>) = RenewRequest(op)
      /\ Request("destroy", <<op>>) = DestroyRequest(op)
  BY <1>1 DEF Request
<1> QED
  BY <1>2, <1>3, Zenon
     DEF ItemRequest, ItemsRequest, KeysRequest, SetRequest, EraseRequest, EraseAllRequest,
         CompareSetRequest, CompareEraseRequest, LockRequest, UnlockRequest,
         CreateSessionRequest, RenewRequest, DestroyRequest

(* The request of a transaction.                                            *)
LEMMA CommitRequestOf ==
  ASSUME NEW one, NEW two
  PROVE  LET r == Request("commit", <<one, two>>)
         IN  r.verb = "TXN" /\ r.ops = <<TxnOp(one), TxnOp(two)>>
<1> DEFINE http == Http("TXN", Empty, <<<<"consistency", Default>>>>, "operations")
           r == Request("commit", <<one, two>>)
           ops == [n \in DOMAIN <<one, two>> |-> TxnOp(<<one, two>>[n])]
<1>1. r = CommitRequest(<<one, two>>)
  BY DEF Request
<1>2. r = [http EXCEPT !.ops = ops]
  BY <1>1, Zenon DEF CommitRequest
<1>3. ops = <<TxnOp(one), TxnOp(two)>>
  BY DOMAIN <<one, two>> = 1 .. 2
<1>4. DOMAIN http = {"verb", "path", "body", "ops", "query"} /\ http.verb = "TXN"
  <2> DEFINE q == QueryOf(<<<<"consistency", Default>>>>)
  <2>1. http = [verb |-> "TXN", path |-> Squashed(Empty), body |-> "operations", ops |-> <<>>, query |-> q]
    BY Zenon DEF Http, QueryOf
  <2> HIDE DEF q, http
  <2> QED
    BY <2>1
<1> HIDE DEF http, r, ops
<1>5. r.verb = "TXN" /\ r.ops = ops
  BY <1>2, <1>4
<1> QED
  BY <1>3, <1>5, Zenon DEF r

(* A method that asks for one operation, if the server reads that.         *)
LEMMA SingleGood ==
  ASSUME NEW m, m # "commit", NEW op, GoodOp(op),
         Decode(Request(m, <<op>>)) = <<op>>,
         m = "create" <=> op.verb = "create",
         m = "create" => Request(m, <<op>>).verb = "CREATE",
         m = "lock" => Request(m, <<op>>).verb = "PUT",
         op.verb = "lock" => m = "lock"
  PROVE  GoodCall(CallOf(m, <<op>>))
<1> DEFINE c == CallOf(m, <<op>>)
<1>1. <<op>>[1] = op /\ DOMAIN <<op>> = {1}
  BY 1 .. 1 = {1}
<1>2. c.method = m /\ c.ops = <<op>> /\ c.request = Request(m, <<op>>)
  BY CallFields
<1> HIDE DEF c
<1>3. GoodOps(c.ops)
  BY <1>1, <1>2 DEF GoodOps
<1>4. ReadBack(c)
  BY <1>2 DEF ReadBack
<1>5. GoodCall(c)
  BY <1>1, <1>2, <1>3, <1>4 DEF GoodCall
<1> QED
  BY <1>5 DEF c

(* Fields of an operation.                                                 *)
LEMMA OpFields ==
  ASSUME NEW v, NEW at, NEW i, NEW id, NEW b
  PROVE  LET op == Op(v, at, i, id, b)
         IN  /\ op.verb = v /\ op.at = at /\ op.index = i /\ op.session = id /\ op.body = b
             /\ op = Op(op.verb, op.at, op.index, op.session, op.body)
BY DEF Op

(* Every method on a key has the server do what its comment says.          *)
LEMMA KeyCalls ==
  ASSUME NEW k \in Keys, k # ".", NEW b, NEW i
  PROVE  /\ GoodCall(CallOf("item", <<Op("get", k, 0, NoSession, Empty)>>))
         /\ GoodCall(CallOf("set", <<Op("set", k, 0, NoSession, b)>>))
         /\ GoodCall(CallOf("erase", <<Op("delete", k, 0, NoSession, Empty)>>))
         /\ GoodCall(CallOf("compareSet", <<Op("cas", k, i, NoSession, b)>>))
         /\ GoodCall(CallOf("compareErase", <<Op("delete-cas", k, i, NoSession, Empty)>>))
<1>1. ASSUME NEW op, op = Op("get", k, 0, NoSession, Empty)
      PROVE  GoodCall(CallOf("item", <<op>>))
  <2>1. GoodOp(op) /\ op.at = k /\ op.verb = "get"
    BY <1>1, OpFields DEF GoodOp, KeyVerbs, TreeVerbs
  <2>2. Decode(Request("item", <<op>>)) = <<op>>
    <3>1. Request("item", <<op>>) = Http("GET", k, <<>>, Empty)
      BY <2>1, RequestOf
    <3> QED
      BY <1>1, <3>1, PlainRequests, Zenon
  <2> QED
    BY <2>1, <2>2, SingleGood
<1>2. ASSUME NEW op, op = Op("set", k, 0, NoSession, b)
      PROVE  GoodCall(CallOf("set", <<op>>))
  <2>1. GoodOp(op) /\ op.at = k /\ op.verb = "set" /\ op.body = b
    BY <1>2, OpFields DEF GoodOp, KeyVerbs, TreeVerbs
  <2>2. Decode(Request("set", <<op>>)) = <<op>>
    <3>1. Request("set", <<op>>) = Http("PUT", k, <<>>, b)
      BY <2>1, RequestOf
    <3> QED
      BY <1>2, <3>1, PlainRequests, Zenon
  <2> QED
    BY <2>1, <2>2, SingleGood
<1>3. ASSUME NEW op, op = Op("delete", k, 0, NoSession, Empty)
      PROVE  GoodCall(CallOf("erase", <<op>>))
  <2>1. GoodOp(op) /\ op.at = k /\ op.verb = "delete"
    BY <1>3, OpFields DEF GoodOp, KeyVerbs, TreeVerbs
  <2>2. Decode(Request("erase", <<op>>)) = <<op>>
    <3>1. Request("erase", <<op>>) = Http("DELETE", k, <<>>, Empty)
      BY <2>1, RequestOf
    <3> QED
      BY <1>3, <3>1, PlainRequests, Zenon
  <2> QED
    BY <2>1, <2>2, SingleGood
<1>4. ASSUME NEW op, op = Op("cas", k, i, NoSession, b)
      PROVE  GoodCall(CallOf("compareSet", <<op>>))
  <2>1. GoodOp(op) /\ op.at = k /\ op.verb = "cas" /\ op.body = b /\ op.index = i
    BY <1>4, OpFields DEF GoodOp, KeyVerbs, TreeVerbs
  <2>2. Decode(Request("compareSet", <<op>>)) = <<op>>
    <3>1. Request("compareSet", <<op>>) = Http("PUT", k, <<<<"cas", i>>>>, b)
      BY <2>1, RequestOf
    <3> QED
      BY <1>4, <3>1, CompareRequest, Zenon
  <2> QED
    BY <2>1, <2>2, SingleGood
<1>5. ASSUME NEW op, op = Op("delete-cas", k, i, NoSession, Empty)
      PROVE  GoodCall(CallOf("compareErase", <<op>>))
  <2>1. GoodOp(op) /\ op.at = k /\ op.verb = "delete-cas" /\ op.index = i
    BY <1>5, OpFields DEF GoodOp, KeyVerbs, TreeVerbs
  <2>2. Decode(Request("compareErase", <<op>>)) = <<op>>
    <3>1. Request("compareErase", <<op>>) = Http("DELETE", k, <<<<"cas", i>>>>, Empty)
      BY <2>1, RequestOf
    <3> QED
      BY <1>5, <3>1, DeleteRequests, Zenon
  <2> QED
    BY <2>1, <2>2, SingleGood
<1> QED
  BY <1>1, <1>2, <1>3, <1>4, <1>5

(* So has every method on a session, lock() and unlock() included.         *)
LEMMA SessionCalls ==
  ASSUME NEW id \in SessionIds, id # ".", NEW b, NEW k \in Keys, k # "."
  PROVE  /\ GoodCall(CallOf("lock", <<Op("lock", k, 0, id, b)>>))
         /\ GoodCall(CallOf("unlock", <<Op("unlock", k, 0, id, b)>>))
<1> id # Empty
  BY StoreAssumption DEF NoSession, Empty
<1>1. ASSUME NEW op, op = Op("lock", k, 0, id, b)
      PROVE  GoodCall(CallOf("lock", <<op>>))
  <2>1. GoodOp(op) /\ op.at = k /\ op.verb = "lock" /\ op.body = b /\ op.session = id
    BY <1>1, OpFields DEF GoodOp, KeyVerbs, TreeVerbs
  <2>2. Decode(Request("lock", <<op>>)) = <<op>> /\ Request("lock", <<op>>).verb = "PUT"
    <3>1. Request("lock", <<op>>) = Http("PUT", k, <<<<"acquire", id>>>>, b)
      BY <2>1, RequestOf
    <3>2. HasFields(Request("lock", <<op>>), "PUT", k, b, QueryOf(<<<<"acquire", id>>>>))
      BY <3>1, HttpFields, Zenon
    <3>3. Decode(Http("PUT", k, <<<<"acquire", id>>>>, b)) =
            IF id = Empty THEN <<Op("set", k, 0, NoSession, b)>> ELSE <<Op("lock", k, 0, id, b)>>
      BY AcquireRequest, Zenon
    <3>4. Request("lock", <<op>>).verb = "PUT"
      BY <3>2 DEF HasFields
    <3> QED
      BY <1>1, <3>1, <3>3, <3>4, Zenon
  <2> QED
    BY <2>1, <2>2, SingleGood
<1>2. ASSUME NEW op, op = Op("unlock", k, 0, id, b)
      PROVE  GoodCall(CallOf("unlock", <<op>>))
  <2>1. GoodOp(op) /\ op.at = k /\ op.verb = "unlock" /\ op.body = b /\ op.session = id
    BY <1>2, OpFields DEF GoodOp, KeyVerbs, TreeVerbs
  <2>2. Decode(Request("unlock", <<op>>)) = <<op>>
    <3>1. Request("unlock", <<op>>) = Http("PUT", k, <<<<"release", id>>>>, b)
      BY <2>1, RequestOf
    <3> QED
      BY <1>2, <3>1, ReleaseRequest, Zenon
  <2> QED
    BY <2>1, <2>2, SingleGood
<1> QED
  BY <1>1, <1>2

(* Sessions are created, renewed and destroyed as the methods say.          *)
LEMMA LifeCalls ==
  ASSUME NEW id, id # ".", NEW b
  PROVE  /\ GoodCall(CallOf("create", <<Op("create", Empty, 0, NoSession, b)>>))
         /\ GoodCall(CallOf("renew", <<Op("renew", Empty, 0, id, Empty)>>))
         /\ GoodCall(CallOf("destroy", <<Op("destroy", Empty, 0, id, Empty)>>))
<1>1. ASSUME NEW op, op = Op("create", Empty, 0, NoSession, b)
      PROVE  GoodCall(CallOf("create", <<op>>))
  <2>1. GoodOp(op) /\ op.verb = "create" /\ op.body = b
    BY <1>1, OpFields DEF GoodOp, KeyVerbs, TreeVerbs, OfSession
  <2>2. Decode(Request("create", <<op>>)) = <<op>> /\ Request("create", <<op>>).verb = "CREATE"
    <3>1. Request("create", <<op>>) = Http("CREATE", Empty, <<>>, b)
      BY <2>1, RequestOf
    <3>2. Empty # "."
      BY DEF Empty
    <3>3. HasFields(Request("create", <<op>>), "CREATE", Empty, b, QueryOf(<<>>))
      BY <3>1, <3>2, HttpFields, Zenon
    <3>4. Decode(Http("CREATE", Empty, <<>>, b)) = <<Op("create", Empty, 0, NoSession, b)>>
      BY <3>2, SessionRequests, Zenon
    <3>5. Request("create", <<op>>).verb = "CREATE"
      BY <3>3 DEF HasFields
    <3> QED
      BY <1>1, <3>1, <3>4, <3>5, Zenon
  <2> QED
    BY <2>1, <2>2, SingleGood
<1>2. ASSUME NEW op, op = Op("renew", Empty, 0, id, Empty)
      PROVE  GoodCall(CallOf("renew", <<op>>))
  <2>1. GoodOp(op) /\ op.verb = "renew" /\ op.session = id
    BY <1>2, OpFields DEF GoodOp, KeyVerbs, TreeVerbs, OfSession
  <2>2. Decode(Request("renew", <<op>>)) = <<op>>
    <3>1. Request("renew", <<op>>) = Http("RENEW", id, <<>>, Empty)
      BY <2>1, RequestOf
    <3> QED
      BY <1>2, <3>1, SessionRequests, Zenon
  <2> QED
    BY <2>1, <2>2, SingleGood
<1>3. ASSUME NEW op, op = Op("destroy", Empty, 0, id, Empty)
      PROVE  GoodCall(CallOf("destroy", <<op>>))
  <2>1. GoodOp(op) /\ op.verb = "destroy" /\ op.session = id
    BY <1>3, OpFields DEF GoodOp, KeyVerbs, TreeVerbs, OfSession
  <2>2. Decode(Request("destroy", <<op>>)) = <<op>>
    <3>1. Request("destroy", <<op>>) = Http("DESTROY", id, <<>>, Empty)
      BY <2>1, RequestOf
    <3> QED
      BY <1>3, <3>1, SessionRequests, Zenon
  <2> QED
    BY <2>1, <2>2, SingleGood
<1> QED
  BY <1>1, <1>2, <1>3

(* And every method on the keys with a prefix.                             *)
LEMMA TreeCalls ==
  ASSUME NEW p \in DOMAIN Under, p # "."
  PROVE  /\ GoodCall(CallOf("items", <<Op("get-tree", p, 0, NoSession, Empty)>>))
         /\ GoodCall(CallOf("keys", <<Op("keys", p, 0, NoSession, Empty)>>))
         /\ GoodCall(CallOf("eraseAll", <<Op("delete-tree", p, 0, NoSession, Empty)>>))
<1>1. ASSUME NEW op, op = Op("get-tree", p, 0, NoSession, Empty)
      PROVE  GoodCall(CallOf("items", <<op>>))
  <2>1. GoodOp(op) /\ op.at = p /\ op.verb = "get-tree"
    BY <1>1, OpFields DEF GoodOp, KeyVerbs, TreeVerbs
  <2>2. Decode(Request("items", <<op>>)) = <<op>>
    <3>1. Request("items", <<op>>) = Http("GET", p, <<<<"recurse", TRUE>>>>, Empty)
      BY <2>1, RequestOf
    <3> QED
      BY <1>1, <3>1, GetRequests, Zenon
  <2> QED
    BY <2>1, <2>2, SingleGood
<1>2. ASSUME NEW op, op = Op("keys", p, 0, NoSession, Empty)
      PROVE  GoodCall(CallOf("keys", <<op>>))
  <2>1. GoodOp(op) /\ op.at = p /\ op.verb = "keys"
    BY <1>2, OpFields DEF GoodOp, KeyVerbs, TreeVerbs
  <2>2. Decode(Request("keys", <<op>>)) = <<op>>
    <3>1. Request("keys", <<op>>) = Http("GET", p, <<<<"keys", TRUE>>>>, Empty)
      BY <2>1, RequestOf
    <3> QED
      BY <1>2, <3>1, GetRequests, Zenon
  <2> QED
    BY <2>1, <2>2, SingleGood
<1>3. ASSUME NEW op, op = Op("delete-tree", p, 0, NoSession, Empty)
      PROVE  GoodCall(CallOf("eraseAll", <<op>>))
  <2>1. GoodOp(op) /\ op.at = p /\ op.verb = "delete-tree"
    BY <1>3, OpFields DEF GoodOp, KeyVerbs, TreeVerbs
  <2>2. Decode(Request("eraseAll", <<op>>)) = <<op>>
    <3>1. Request("eraseAll", <<op>>) = Http("DELETE", p, <<<<"recurse", TRUE>>>>, Empty)
      BY <2>1, RequestOf
    <3> QED
      BY <1>3, <3>1, DeleteRequests, Zenon
  <2> QED
    BY <2>1, <2>2, SingleGood
<1> QED
  BY <1>1, <1>2, <1>3

(* A transaction has its two operations, with their indexes as doubles.    *)
LEMMA CommitCalls ==
  ASSUME NEW one, NEW two, GoodOp(one), GoodOp(two), one.verb # "create", two.verb # "create"
  PROVE  GoodCall(CallOf("commit", <<one, two>>))
<1> DEFINE ops == <<one, two>>
           c == CallOf("commit", ops)
<1>1. ops[1] = one /\ ops[2] = two
  OBVIOUS
<1> HIDE DEF ops
<1>2. c.method = "commit" /\ c.ops = ops /\ c.request = Request("commit", ops)
  BY CallFields
<1>3. Request("commit", ops).verb = "TXN" /\ Request("commit", ops).ops = <<TxnOp(one), TxnOp(two)>>
  BY CommitRequestOf DEF ops
<1> HIDE DEF c
<1>4. ops = <<ops[1], ops[2]>>
  BY <1>1 DEF ops
<1>5. GoodOps(c.ops)
  BY <1>1, <1>2, <1>4 DEF GoodOps
<1>6. ReadBack(c)
  <2>1. Decode(c.request) = c.request.ops
    BY <1>2, <1>3 DEF Decode
  <2> QED
    BY <1>1, <1>2, <1>3, <2>1 DEF ReadBack
<1>7. GoodCall(c)
  BY <1>1, <1>2, <1>3, <1>4, <1>5, <1>6 DEF GoodCall
<1> QED
  BY <1>7 DEF c, ops

-----------------------------------------------------------------------------
(***************************************************************************)
(* What an operation does to the server: only a yes changes it, the names  *)
(* it has given are never taken back, and a key stays locked for a session *)
(* unless the operation ends that lock.                                    *)
(***************************************************************************)
IsOutcome(o) == DOMAIN o = {"server", "says", "made"}
Leaves(s, i, o) ==
  /\ IsOutcome(o)
  /\ ServerTypes(o.server)
  /\ o.server.index \in {s.index, i}
  /\ o.server.named = s.named
  /\ o.says \in {"yes", "no", "error"}
  /\ o.says # "yes" => o.server = s

(* The fields of an outcome.                                               *)
LEMMA OutcomeFields ==
  ASSUME NEW s, NEW says, NEW made
  PROVE  LET o == Outcome(s, says, made)
         IN  IsOutcome(o) /\ o.server = s /\ o.says = says /\ o.made = made
BY DEF Outcome, IsOutcome

(* A write changes the lock of its key only.                                *)
LEMMA WriteLeaves ==
  ASSUME NEW s, ServerTypes(s), NEW k \in Keys, NEW v,
         NEW owner \in DOMAIN s.sessions \cup {NoSession}, NEW i \in Nat, s.index <= i
  PROVE  LET o == Write(s, k, v, owner, i)
         IN  /\ Leaves(s, i, o)
             /\ o.says = "yes"
             /\ \A l \in Keys : SessionAt(o.server, l) = IF l = k THEN owner ELSE SessionAt(s, l)
<1> DEFINE item == [modify |-> i, value |-> v, session |-> owner]
           n == [s EXCEPT !.index = i, !.store[k] = item]
           o == Write(s, k, v, owner, i)
<1>1. o = Outcome(n, "yes", <<<<k, item>>>>)
  BY Zenon DEF Write
<1>2. IsOutcome(o) /\ o.server = n /\ o.says = "yes"
  BY <1>1, OutcomeFields
<1>3. DOMAIN item = {"modify", "value", "session"} /\ item.modify = i /\ item.session = owner
  OBVIOUS
<1> HIDE DEF item, o
<1>4. /\ DOMAIN n = DOMAIN s /\ n.index = i /\ n.sessions = s.sessions /\ n.named = s.named
      /\ n.store = [s.store EXCEPT ![k] = item]
  BY DEF ServerTypes
<1> HIDE DEF n
<1>5. DOMAIN n.store = Keys /\ \A l \in Keys : n.store[l] = IF l = k THEN item ELSE s.store[l]
  BY <1>4 DEF ServerTypes
<1>6. ServerTypes(n)
  BY <1>3, <1>4, <1>5 DEF ServerTypes
<1>7. \A l \in Keys : SessionAt(n, l) = IF l = k THEN owner ELSE SessionAt(s, l)
  BY <1>3, <1>5 DEF SessionAt
<1>8. Leaves(s, i, o)
  BY <1>2, <1>4, <1>6 DEF Leaves
<1> QED
  BY <1>2, <1>7, <1>8 DEF o

(* Deletion ends the locks of the keys it deletes.                          *)
LEMMA DeletedLeaves ==
  ASSUME NEW s, ServerTypes(s), NEW ks, NEW i \in Nat, s.index <= i
  PROVE  LET o == Deleted(s, ks, i)
         IN  /\ Leaves(s, i, o)
             /\ o.says = "yes"
             /\ \A l \in Keys : SessionAt(o.server, l) = IF l \in ks THEN NoSession ELSE SessionAt(s, l)
<1> DEFINE store == [k \in Keys |-> IF k \in ks THEN NoItem ELSE s.store[k]]
           n == [s EXCEPT !.index = i, !.store = store]
           o == Deleted(s, ks, i)
<1>1. o = Outcome(n, "yes", <<>>)
  BY DEF Deleted, ServerTypes
<1>2. IsOutcome(o) /\ o.server = n /\ o.says = "yes"
  BY <1>1, OutcomeFields
<1>3. /\ DOMAIN NoItem = {"modify", "value", "session"} /\ NoItem.modify = 0
      /\ NoItem.session = NoSession
  BY DEF NoItem
<1>4. DOMAIN store = Keys /\ \A l \in Keys : store[l] = IF l \in ks THEN NoItem ELSE s.store[l]
  OBVIOUS
<1> HIDE DEF store, o
<1>5. /\ DOMAIN n = DOMAIN s /\ n.index = i /\ n.sessions = s.sessions /\ n.named = s.named
      /\ n.store = store
  BY DEF ServerTypes
<1> HIDE DEF n
<1>6. ServerTypes(n)
  BY <1>3, <1>4, <1>5 DEF ServerTypes
<1>7. \A l \in Keys : SessionAt(n, l) = IF l \in ks THEN NoSession ELSE SessionAt(s, l)
  BY <1>3, <1>4, <1>5 DEF SessionAt
<1>8. Leaves(s, i, o)
  BY <1>2, <1>5, <1>6 DEF Leaves
<1> QED
  BY <1>2, <1>7, <1>8 DEF o

(* Invalidation ends the locks of its session only.                         *)
LEMMA InvalidateLeaves ==
  ASSUME NEW s, ServerTypes(s), NEW id, NEW i \in Nat, s.index <= i
  PROVE  LET n == Invalidate(s, id, i)
         IN  /\ ServerTypes(n) /\ n.index = i /\ n.named = s.named
             /\ \A l \in Keys : SessionAt(s, l) # id => SessionAt(n, l) = SessionAt(s, l)
<1> DEFINE held == {k \in Keys : s.store[k].session = id}
           rest == [x \in DOMAIN s.sessions \ {id} |-> s.sessions[x]]
           store == [k \in Keys |-> IF k \notin held THEN s.store[k]
                                    ELSE IF s.sessions[id] = "delete" THEN NoItem
                                    ELSE [s.store[k] EXCEPT !.session = NoSession, !.modify = i]]
           n == Invalidate(s, id, i)
<1>1. n = [s EXCEPT !.index = i, !.sessions = rest, !.store = store]
  BY DEF Invalidate, ServerTypes
<1>2. /\ DOMAIN NoItem = {"modify", "value", "session"} /\ NoItem.modify = 0
      /\ NoItem.session = NoSession
  BY DEF NoItem
<1>3. DOMAIN rest = DOMAIN s.sessions \ {id}
  OBVIOUS
<1>4. /\ DOMAIN store = Keys
      /\ \A l \in Keys : s.store[l].session # id => store[l] = s.store[l]
      /\ \A l \in Keys : s.store[l].session = id =>
           /\ DOMAIN store[l] = {"modify", "value", "session"}
           /\ store[l].modify \in {0, i} /\ store[l].session = NoSession
  <2>1. DOMAIN store = Keys /\ \A l \in Keys : s.store[l].session # id => store[l] = s.store[l]
    OBVIOUS
  <2>2. ASSUME NEW l \in Keys, s.store[l].session = id
        PROVE  /\ DOMAIN store[l] = {"modify", "value", "session"}
               /\ store[l].modify \in {0, i} /\ store[l].session = NoSession
    <3> DEFINE freed == [s.store[l] EXCEPT !.session = NoSession, !.modify = i]
    <3>1. DOMAIN freed = {"modify", "value", "session"} /\ freed.modify = i /\ freed.session = NoSession
      BY DEF ServerTypes
    <3>2. store[l] \in {NoItem, freed}
      BY <2>2
    <3> HIDE DEF store, freed
    <3> QED
      BY <1>2, <3>1, <3>2
  <2> HIDE DEF store
  <2> QED
    BY <2>1, <2>2
<1> HIDE DEF rest, store
<1>5. /\ DOMAIN n = DOMAIN s /\ n.index = i /\ n.sessions = rest /\ n.named = s.named
      /\ n.store = store
  BY <1>1 DEF ServerTypes
<1> HIDE DEF n
<1>6. ServerTypes(n)
  <2>1. ASSUME NEW k \in Keys
        PROVE  /\ DOMAIN n.store[k] = {"modify", "value", "session"}
               /\ n.store[k].modify \in 0 .. n.index
               /\ n.store[k].session \in DOMAIN n.sessions \cup {NoSession}
    BY <1>3, <1>4, <1>5 DEF ServerTypes
  <2> QED
    BY <1>3, <1>4, <1>5, <2>1 DEF ServerTypes
<1>7. \A l \in Keys : SessionAt(s, l) # id => SessionAt(n, l) = SessionAt(s, l)
  BY <1>4, <1>5 DEF SessionAt
<1> QED
  BY <1>5, <1>6, <1>7 DEF n

(* A read, a refusal and an error leave the server as it is.               *)
LEMMA SameLeaves ==
  ASSUME NEW s, ServerTypes(s), NEW i, NEW o, IsOutcome(o), o.server = s,
         o.says \in {"yes", "no", "error"}
  PROVE  Leaves(s, i, o)
BY DEF Leaves

(* Reading changes nothing.                                                 *)
LEMMA ReadLeaves ==
  ASSUME NEW s, NEW ks
  PROVE  LET o == Read(s, ks)
         IN  /\ IsOutcome(o) /\ o.server = s /\ o.says = "yes"
             /\ IsOutcome(KeysOnly(o)) /\ KeysOnly(o).server = s /\ KeysOnly(o).says = "yes"
<1> DEFINE there == SetToSeq({k \in ks : Valid(s.store[k])})
           made == [n \in DOMAIN there |-> <<there[n], s.store[there[n]]>>]
           o == Read(s, ks)
<1>1. o = Outcome(s, "yes", made)
  BY Zenon DEF Read
<1> HIDE DEF made, o
<1>2. IsOutcome(o) /\ o.server = s /\ o.says = "yes"
  BY <1>1, OutcomeFields
<1>3. IsOutcome(KeysOnly(o)) /\ KeysOnly(o).server = s /\ KeysOnly(o).says = "yes"
  BY <1>2 DEF KeysOnly, IsOutcome
<1> QED
  BY <1>2, <1>3 DEF o

KeepsLocks(s, op, o) ==
  /\ \A k \in Keys, id \in SessionIds :
       SessionAt(s, k) = id /\ ~ (o.says = "yes" /\ EndsLock(op, k, id)) => SessionAt(o.server, k) = id
  /\ op.verb = "lock" /\ o.says = "yes" => SessionAt(o.server, op.at) = op.session

(* A server that does not change keeps its locks.                           *)
LEMMA SameKeepsLocks ==
  ASSUME NEW s, NEW op, NEW o, o.server = s, op.verb # "lock" \/ o.says # "yes"
  PROVE  KeepsLocks(s, op, o)
BY DEF KeepsLocks

(* Refusal changes nothing.                                                 *)
LEMMA RefuseFields ==
  ASSUME NEW s
  PROVE  IsOutcome(Refuse(s)) /\ Refuse(s).server = s /\ Refuse(s).says = "no"
BY OutcomeFields DEF Refuse

(* One operation.                                                           *)
LEMMA StepLeaves ==
  ASSUME NEW s, ServerTypes(s), NEW op, GoodOp(op), op.verb # "create", NEW i \in Nat, s.index <= i
  PROVE  Leaves(s, i, Step(s, op, i)) /\ KeepsLocks(s, op, Step(s, op, i))
<1> DEFINE o == Step(s, op, i)
           k == op.at
           owner == SessionAt(s, k)
<1>1. \A id \in SessionIds : id # NoSession
  BY StoreAssumption
<1>2. ASSUME k \in Keys
      PROVE  owner \in DOMAIN s.sessions \cup {NoSession}
  BY <1>2 DEF ServerTypes, SessionAt
<1>3. CASE o = Refuse(s)
  BY <1>3, RefuseFields, SameLeaves, SameKeepsLocks
<1>4. ASSUME op.verb \in {"set", "cas"}, o # Refuse(s)
      PROVE  Leaves(s, i, o) /\ KeepsLocks(s, op, o)
  <2>1. k \in Keys
    BY <1>4 DEF GoodOp, KeyVerbs
  <2>2. o = Write(s, k, op.body, owner, i)
    BY <1>4 DEF Step, SessionAt
  <2>3. /\ Leaves(s, i, o)
        /\ \A l \in Keys : SessionAt(o.server, l) = IF l = k THEN owner ELSE SessionAt(s, l)
    BY <1>2, <2>1, <2>2, WriteLeaves
  <2> HIDE DEF o
  <2> QED
    BY <1>4, <2>3 DEF KeepsLocks
<1>5. CASE op.verb = "lock" /\ op.session \notin DOMAIN s.sessions
  <2>1. o = Outcome(s, "error", <<>>)
    BY <1>5 DEF Step
  <2>2. IsOutcome(o) /\ o.server = s /\ o.says = "error"
    BY <2>1, OutcomeFields
  <2> HIDE DEF o
  <2> QED
    BY <2>2, SameLeaves, SameKeepsLocks DEF o
<1>6. ASSUME op.verb = "lock", op.session \in DOMAIN s.sessions, o # Refuse(s)
      PROVE  Leaves(s, i, o) /\ KeepsLocks(s, op, o)
  <2>1. k \in Keys /\ op.session \in SessionIds
    BY <1>6 DEF GoodOp, KeyVerbs
  <2>2. o = Write(s, k, op.body, op.session, i) /\ owner \in {NoSession, op.session}
    BY <1>6 DEF Step, SessionAt
  <2>3. /\ Leaves(s, i, o)
        /\ \A l \in Keys : SessionAt(o.server, l) = IF l = k THEN op.session ELSE SessionAt(s, l)
    BY <1>6, <2>1, <2>2, WriteLeaves
  <2> HIDE DEF o
  <2> QED
    BY <1>1, <1>6, <2>1, <2>2, <2>3 DEF KeepsLocks
<1>7. ASSUME op.verb = "unlock", o # Refuse(s)
      PROVE  Leaves(s, i, o) /\ KeepsLocks(s, op, o)
  <2>1. k \in Keys
    BY <1>7 DEF GoodOp, KeyVerbs
  <2>2. o = Write(s, k, op.body, NoSession, i) /\ owner = op.session
    BY <1>7 DEF Step, SessionAt
  <2>3. /\ Leaves(s, i, o) /\ o.says = "yes"
        /\ \A l \in Keys : SessionAt(o.server, l) = IF l = k THEN NoSession ELSE SessionAt(s, l)
    BY <2>1, <2>2, WriteLeaves
  <2> HIDE DEF o
  <2> QED
    BY <1>7, <2>2, <2>3 DEF KeepsLocks, EndsLock
<1>8. ASSUME op.verb \in {"delete", "delete-cas"}, o # Refuse(s)
      PROVE  Leaves(s, i, o) /\ KeepsLocks(s, op, o)
  <2>1. o = Deleted(s, {k}, i)
    BY <1>8 DEF Step
  <2>2. /\ Leaves(s, i, o) /\ o.says = "yes"
        /\ \A l \in Keys : SessionAt(o.server, l) = IF l \in {k} THEN NoSession ELSE SessionAt(s, l)
    BY <2>1, DeletedLeaves
  <2> HIDE DEF o
  <2> QED
    BY <1>8, <2>2 DEF KeepsLocks, EndsLock
<1>9. ASSUME op.verb = "delete-tree"
      PROVE  Leaves(s, i, o) /\ KeepsLocks(s, op, o)
  <2>1. o = Deleted(s, Under[k], i)
    BY <1>9 DEF Step
  <2>2. /\ Leaves(s, i, o) /\ o.says = "yes"
        /\ \A l \in Keys : SessionAt(o.server, l) = IF l \in Under[k] THEN NoSession ELSE SessionAt(s, l)
    BY <2>1, DeletedLeaves
  <2> HIDE DEF o
  <2> QED
    BY <1>9, <2>2 DEF KeepsLocks, EndsLock
<1>10. ASSUME op.verb \in {"get", "get-tree", "keys", "check-index", "check-session",
                           "check-not-exists", "renew"},
              o # Refuse(s)
       PROVE  Leaves(s, i, o) /\ KeepsLocks(s, op, o)
  <2>1. o \in {Read(s, {k}), Read(s, Under[k]), KeysOnly(Read(s, Under[k])), Outcome(s, "yes", <<>>)}
    BY <1>10 DEF Step
  <2>2. IsOutcome(o) /\ o.server = s /\ o.says = "yes"
    BY <2>1, ReadLeaves, OutcomeFields
  <2> HIDE DEF o
  <2> QED
    BY <1>10, <2>2, SameLeaves, SameKeepsLocks
<1>11. ASSUME op.verb = "destroy"
       PROVE  Leaves(s, i, o) /\ KeepsLocks(s, op, o)
  <2> DEFINE n == IF op.session \in DOMAIN s.sessions THEN Invalidate(s, op.session, i) ELSE s
  <2>1. o = Outcome(n, "yes", <<>>)
    BY <1>11 DEF Step
  <2>2. IsOutcome(o) /\ o.server = n /\ o.says = "yes"
    BY <2>1, OutcomeFields
  <2>3. /\ ServerTypes(n) /\ n.index \in {s.index, i} /\ n.named = s.named
        /\ \A l \in Keys : SessionAt(s, l) # op.session => SessionAt(n, l) = SessionAt(s, l)
    <3> DEFINE gone == Invalidate(s, op.session, i)
    <3>1. /\ ServerTypes(gone) /\ gone.index = i /\ gone.named = s.named
          /\ \A l \in Keys : SessionAt(s, l) # op.session => SessionAt(gone, l) = SessionAt(s, l)
      BY InvalidateLeaves
    <3>2. n = gone \/ n = s
      OBVIOUS
    <3> HIDE DEF n, gone
    <3> QED
      BY <3>1, <3>2
  <2> HIDE DEF o, n
  <2> QED
    BY <1>11, <2>2, <2>3 DEF Leaves, KeepsLocks, EndsLock
<1> QED
  BY <1>3, <1>4, <1>5, <1>6, <1>7, <1>8, <1>9, <1>10, <1>11
     DEF GoodOp, KeyVerbs, TreeVerbs, OfSession

(***************************************************************************)
(* One more operation of a transaction, after what those before it came    *)
(* to, and the recursion of Together for one operation and for two.        *)
(***************************************************************************)
After(s, r, op) ==
  IF r.says # "yes" THEN r
  ELSE LET o == Step(r.server, op, s.index + 1)
       IN  IF o.says = "yes" THEN [o EXCEPT !.made = r.made \o @]
           ELSE Outcome(s, o.says, <<>>)
IsRun(s, ops, run) ==
  run = [n \in 0 .. Len(ops) |->
           IF n = 0 THEN Outcome(s, "yes", <<>>) ELSE After(s, run[n - 1], ops[n])]

(* Together is the end of a run, if there is one.                           *)
LEMMA TogetherRuns ==
  ASSUME NEW s, NEW ops, \E run : IsRun(s, ops, run)
  PROVE  \E run : IsRun(s, ops, run) /\ Together(s, ops) = run[Len(ops)]
<1> DEFINE run == CHOOSE f :
             f = [n \in 0 .. Len(ops) |->
                    IF n = 0 THEN Outcome(s, "yes", <<>>)
                    ELSE IF f[n - 1].says # "yes" THEN f[n - 1]
                    ELSE LET o == Step(f[n - 1].server, ops[n], s.index + 1)
                         IN  IF o.says = "yes" THEN [o EXCEPT !.made = f[n - 1].made \o @]
                             ELSE Outcome(s, o.says, <<>>)]
<1>1. Together(s, ops) = run[Len(ops)]
  BY Zenon DEF Together
<1>2. IsRun(s, ops, run)
  BY Zenon DEF IsRun, After
<1> QED
  BY <1>1, <1>2

(* A run of one or two operations takes them one after the other.           *)
LEMMA TogetherIs ==
  ASSUME NEW s, NEW one, NEW two
  PROVE  /\ Together(s, <<one>>) = After(s, Outcome(s, "yes", <<>>), one)
         /\ Together(s, <<one, two>>) = After(s, After(s, Outcome(s, "yes", <<>>), one), two)
<1> DEFINE r0 == Outcome(s, "yes", <<>>)
           r1 == After(s, r0, one)
           r2 == After(s, r1, two)
<1>1. ASSUME NEW ops, Len(ops) = 1, ops[1] = one
      PROVE  Together(s, ops) = r1
  <2> DEFINE f == [n \in 0 .. 1 |-> IF n = 0 THEN r0 ELSE r1]
  <2>1. f[0] = r0 /\ f[1] = r1
    <3> HIDE DEF r0, r1
    <3> QED
      OBVIOUS
  <2>2. \A n \in 0 .. 1 : f[n] = IF n = 0 THEN r0 ELSE After(s, f[n - 1], ops[n])
    <3>1. f[1] = After(s, f[1 - 1], ops[1])
      BY <1>1, <2>1
    <3> HIDE DEF f, r0, r1
    <3> QED
      BY <2>1, <3>1
  <2>3. IsRun(s, ops, f)
    <3>1. f = [n \in 0 .. 1 |-> IF n = 0 THEN r0 ELSE After(s, f[n - 1], ops[n])]
      <4>1. f = [n \in 0 .. 1 |-> f[n]]
        <5> HIDE DEF r0, r1
        <5> QED
          OBVIOUS
      <4> HIDE DEF f, r0, r1
      <4> QED
        BY <2>2, <4>1
    <3> HIDE DEF f
    <3> QED
      BY <1>1, <3>1 DEF IsRun
  <2>4. PICK run : IsRun(s, ops, run) /\ Together(s, ops) = run[Len(ops)]
    BY <2>3, TogetherRuns
  <2>5. run = [n \in 0 .. 1 |-> IF n = 0 THEN r0 ELSE After(s, run[n - 1], ops[n])]
    BY <1>1, <2>4 DEF IsRun
  <2> HIDE DEF r0
  <2>6. run[0] = r0 /\ run[1] = After(s, run[1 - 1], ops[1])
    BY <2>5
  <2> QED
    BY <1>1, <2>4, <2>6
<1>2. ASSUME NEW ops, Len(ops) = 2, ops[1] = one, ops[2] = two
      PROVE  Together(s, ops) = r2
  <2> DEFINE f == [n \in 0 .. 2 |-> IF n = 0 THEN r0 ELSE IF n = 1 THEN r1 ELSE r2]
  <2>1. f[0] = r0 /\ f[1] = r1 /\ f[2] = r2
    <3> HIDE DEF r0, r1, r2
    <3> QED
      OBVIOUS
  <2>2. \A n \in 0 .. 2 : f[n] = IF n = 0 THEN r0 ELSE After(s, f[n - 1], ops[n])
    <3>1. f[1] = After(s, f[1 - 1], ops[1]) /\ f[2] = After(s, f[2 - 1], ops[2])
      BY <1>2, <2>1
    <3> HIDE DEF f, r0, r1, r2
    <3> QED
      BY <2>1, <3>1
  <2>3. IsRun(s, ops, f)
    <3>1. f = [n \in 0 .. 2 |-> IF n = 0 THEN r0 ELSE After(s, f[n - 1], ops[n])]
      <4>1. f = [n \in 0 .. 2 |-> f[n]]
        <5> HIDE DEF r0, r1, r2
        <5> QED
          OBVIOUS
      <4> HIDE DEF f, r0, r1, r2
      <4> QED
        BY <2>2, <4>1
    <3> HIDE DEF f
    <3> QED
      BY <1>2, <3>1 DEF IsRun
  <2>4. PICK run : IsRun(s, ops, run) /\ Together(s, ops) = run[Len(ops)]
    BY <2>3, TogetherRuns
  <2>5. run = [n \in 0 .. 2 |-> IF n = 0 THEN r0 ELSE After(s, run[n - 1], ops[n])]
    BY <1>2, <2>4 DEF IsRun
  <2> HIDE DEF r0
  <2>6. run[0] = r0 /\ run[1] = After(s, run[1 - 1], ops[1]) /\ run[2] = After(s, run[2 - 1], ops[2])
    BY <2>5
  <2> QED
    BY <1>2, <2>4, <2>6
<1> HIDE DEF r0, r1, r2
<1>3. Len(<<one>>) = 1 /\ <<one>>[1] = one /\ Len(<<one, two>>) = 2
      /\ <<one, two>>[1] = one /\ <<one, two>>[2] = two
  OBVIOUS
<1>4. Together(s, <<one>>) = r1 /\ Together(s, <<one, two>>) = r2
  BY <1>1, <1>2, <1>3
<1> QED
  BY <1>4 DEF r0, r1, r2

(* One more operation of a transaction that has been well so far.          *)
LEMMA AfterLeaves ==
  ASSUME NEW s, ServerTypes(s), NEW r, Leaves(s, s.index + 1, r), r.says = "yes",
         NEW op, GoodOp(op), op.verb # "create"
  PROVE  LET a == After(s, r, op)
         IN  /\ Leaves(s, s.index + 1, a)
             /\ a.says = "yes" => KeepsLocks(r.server, op, a)
<1> DEFINE i == s.index + 1
           o == Step(r.server, op, i)
           a == After(s, r, op)
<1>1. ServerTypes(r.server) /\ i \in Nat /\ r.server.index <= i /\ r.server.named = s.named
  BY DEF Leaves, ServerTypes
<1>2. Leaves(r.server, i, o) /\ KeepsLocks(r.server, op, o)
  BY <1>1, StepLeaves
<1>3. a = IF o.says = "yes" THEN [o EXCEPT !.made = r.made \o @] ELSE Outcome(s, o.says, <<>>)
  BY DEF After
<1> HIDE DEF o, a
<1>4. CASE o.says = "yes"
  <2> DEFINE made == r.made \o o.made
  <2>1. a = [o EXCEPT !.made = made]
    BY <1>2, <1>3, <1>4 DEF Leaves, IsOutcome
  <2> HIDE DEF made
  <2>2. IsOutcome(a) /\ a.server = o.server /\ a.says = o.says
    BY <1>2, <2>1 DEF Leaves, IsOutcome
  <2>3. KeepsLocks(r.server, op, a)
    BY <1>2, <2>2 DEF KeepsLocks
  <2>4. Leaves(s, i, a)
    BY <1>1, <1>2, <1>4, <2>2 DEF Leaves
  <2> QED
    BY <2>3, <2>4 DEF a
<1>5. CASE o.says # "yes"
  <2>1. IsOutcome(a) /\ a.server = s /\ a.says = o.says
    BY <1>3, <1>5, OutcomeFields
  <2>2. Leaves(s, i, a)
    BY <1>2, <2>1, SameLeaves DEF Leaves
  <2> QED
    BY <1>5, <2>1, <2>2 DEF a
<1> QED
  BY <1>4, <1>5

(* What a call does to the server, and to the locks of a session.          *)
EndsAny(ops, k, id) == \E n \in DOMAIN ops : EndsLock(ops[n], k, id)
KeepsAll(s, ops, o) ==
  /\ \A k \in Keys, id \in SessionIds :
       SessionAt(s, k) = id /\ ~ (o.says = "yes" /\ EndsAny(ops, k, id)) => SessionAt(o.server, k) = id
  /\ \A n \in DOMAIN ops :
       ops[n].verb = "lock" /\ o.says = "yes" /\ ~ EndsAny(ops, ops[n].at, ops[n].session) =>
         SessionAt(o.server, ops[n].at) = ops[n].session

(* So it leaves the server well-formed and the locks of others alone.       *)
LEMMA TogetherLeaves ==
  ASSUME NEW s, ServerTypes(s), NEW ops, GoodOps(ops), ops[1].verb # "create"
  PROVE  Leaves(s, s.index + 1, Together(s, ops)) /\ KeepsAll(s, ops, Together(s, ops))
<1> DEFINE r0 == Outcome(s, "yes", <<>>)
           one == ops[1]
           two == ops[2]
           r1 == After(s, r0, one)
           r2 == After(s, r1, two)
<1>1. IsOutcome(r0) /\ r0.server = s /\ r0.says = "yes"
  BY OutcomeFields
<1>2. Leaves(s, s.index + 1, r0)
  BY <1>1, SameLeaves
<1>3. GoodOp(one) /\ one.verb # "create"
  BY DEF GoodOps
<1>4. Leaves(s, s.index + 1, r1) /\ (r1.says = "yes" => KeepsLocks(s, one, r1))
  BY <1>1, <1>2, <1>3, AfterLeaves
<1> HIDE DEF r0, r1
<1>5. \A id \in SessionIds, k \in Keys :
        r1.says # "yes" /\ SessionAt(s, k) = id => SessionAt(r1.server, k) = id
  BY <1>4 DEF Leaves
<1>6. CASE ops = <<one>>
  <2>1. Together(s, ops) = r1
    BY <1>6, TogetherIs, Zenon DEF r0, r1
  <2>2. DOMAIN ops = {1}
    <3> HIDE DEF one
    <3> QED
      BY <1>6, 1 .. 1 = {1}
  <2>3. KeepsAll(s, ops, r1)
    BY <1>4, <1>5, <2>2 DEF KeepsAll, KeepsLocks, EndsAny
  <2> QED
    BY <1>4, <2>1, <2>3
<1>7. CASE ops = <<one, two>> /\ GoodOp(two) /\ two.verb # "create"
  <2>1. Together(s, ops) = r2
    <3>1. Together(s, <<one, two>>) = r2
      <4> HIDE DEF one, two
      <4> QED
        BY TogetherIs, Zenon DEF r0, r1
    <3> HIDE DEF r2, one, two
    <3> QED
      BY <1>7, <3>1
  <2>2. DOMAIN ops = {1, 2}
    <3> HIDE DEF one, two
    <3> QED
      BY <1>7, 1 .. 2 = {1, 2}
  <2>3. CASE r1.says # "yes"
    <3>1. r2 = r1
      BY <2>3 DEF After
    <3>2. KeepsAll(s, ops, r1)
      BY <1>5, <2>3 DEF KeepsAll
    <3> QED
      BY <1>4, <2>1, <3>1, <3>2
  <2>4. CASE r1.says = "yes"
    <3>1. Leaves(s, s.index + 1, r2) /\ (r2.says = "yes" => KeepsLocks(r1.server, two, r2))
      BY <1>4, <1>7, <2>4, AfterLeaves
    <3> HIDE DEF r2
    <3>2. KeepsLocks(s, one, r1)
      BY <1>4, <2>4
    <3>3. CASE r2.says # "yes"
      BY <3>1, <3>3, <2>1 DEF Leaves, KeepsAll
    <3>4. CASE r2.says = "yes"
      <4>1. KeepsLocks(r1.server, two, r2)
        BY <3>1, <3>4
      <4>2. /\ one.verb = "lock" => one.at \in Keys /\ one.session \in SessionIds
            /\ two.verb = "lock" => two.at \in Keys /\ two.session \in SessionIds
        BY <1>3, <1>7 DEF GoodOp, KeyVerbs
      <4>3. ASSUME NEW k \in Keys, NEW id \in SessionIds, ~ EndsAny(ops, k, id)
            PROVE  /\ SessionAt(s, k) = id => SessionAt(r2.server, k) = id
                   /\ SessionAt(r1.server, k) = id => SessionAt(r2.server, k) = id
        BY <2>2, <3>2, <4>1, <4>3 DEF KeepsLocks, EndsAny
      <4>4. one.verb = "lock" => SessionAt(r1.server, one.at) = one.session
        BY <2>4, <3>2 DEF KeepsLocks
      <4>5. two.verb = "lock" => SessionAt(r2.server, two.at) = two.session
        BY <3>4, <4>1 DEF KeepsLocks
      <4>6. KeepsAll(s, ops, r2)
        BY <2>2, <3>4, <4>2, <4>3, <4>4, <4>5 DEF KeepsAll
      <4> QED
        BY <2>1, <3>1, <4>6
    <3> QED
      BY <3>3, <3>4
  <2> QED
    BY <2>3, <2>4
<1> QED
  BY <1>6, <1>7 DEF GoodOps

(* An index that has gone through a double changes no lock.                *)
LEMMA TxnOpSame ==
  ASSUME NEW op, GoodOp(op)
  PROVE  /\ GoodOp(TxnOp(op))
         /\ TxnOp(op).verb = op.verb /\ TxnOp(op).at = op.at /\ TxnOp(op).session = op.session
<1> DEFINE i == DumpDouble(op.index)
           p == TxnOp(op)
<1>1. DOMAIN op = {"verb", "at", "index", "session", "body"}
  <2>1. op = [verb |-> op.verb, at |-> op.at, index |-> op.index, session |-> op.session,
              body |-> op.body]
    BY Zenon DEF GoodOp, Op
  <2> QED
    BY <2>1
<1>2. p = [op EXCEPT !.index = i]
  BY DEF TxnOp
<1> HIDE DEF i, p
<1>3. /\ p.verb = op.verb /\ p.at = op.at /\ p.index = i /\ p.session = op.session /\ p.body = op.body
      /\ p = [verb |-> op.verb, at |-> op.at, index |-> i, session |-> op.session, body |-> op.body]
  BY <1>1, <1>2
<1>4. p = Op(p.verb, p.at, p.index, p.session, p.body)
  BY <1>3 DEF Op
<1>5. GoodOp(p)
  BY <1>3, <1>4 DEF GoodOp
<1> QED
  BY <1>3, <1>5 DEF p

(* A new session has a name that the server now knows.                     *)
LEMMA NewSessionLeaves ==
  ASSUME NEW s, ServerTypes(s), NEW b, NEW id \in SessionIds
  PROVE  LET o == NewSession(s, b, id)
         IN  /\ ServerTypes(o.server) /\ s.named \subseteq o.server.named
             /\ o.says = "yes" /\ o.made = <<id>> /\ id \in o.server.named
             /\ \A k \in Keys : SessionAt(o.server, k) = SessionAt(s, k)
<1> DEFINE sessions == [x \in DOMAIN s.sessions \cup {id} |-> IF x = id THEN b ELSE s.sessions[x]]
           n == [s EXCEPT !.index = s.index + 1, !.named = s.named \cup {id}, !.sessions = sessions]
           o == NewSession(s, b, id)
<1>1. o = Outcome(n, "yes", <<id>>)
  BY DEF NewSession, ServerTypes
<1>2. o.server = n /\ o.says = "yes" /\ o.made = <<id>>
  <2> HIDE DEF n, o
  <2> QED
    BY <1>1, OutcomeFields
<1>3. DOMAIN sessions = DOMAIN s.sessions \cup {id}
  OBVIOUS
<1> HIDE DEF sessions, o
<1>4. /\ DOMAIN n = DOMAIN s /\ n.index = s.index + 1 /\ n.named = s.named \cup {id}
      /\ n.sessions = sessions /\ n.store = s.store
  BY DEF ServerTypes
<1> HIDE DEF n
<1>5. ServerTypes(n)
  <2>1. ASSUME NEW k \in Keys
        PROVE  /\ DOMAIN n.store[k] = {"modify", "value", "session"}
               /\ n.store[k].modify \in 0 .. n.index
               /\ n.store[k].session \in DOMAIN n.sessions \cup {NoSession}
    BY <1>3, <1>4 DEF ServerTypes
  <2> QED
    BY <1>3, <1>4, <2>1 DEF ServerTypes
<1>6. \A k \in Keys : SessionAt(n, k) = SessionAt(s, k)
  BY <1>4 DEF SessionAt
<1> QED
  BY <1>2, <1>4, <1>5, <1>6 DEF o

(***************************************************************************)
(* What the server makes of a call: nothing but a yes changes it, and then *)
(* only those locks end that the call ends; what it locks and does not end *)
(* itself is locked.                                                       *)
(***************************************************************************)
LEMMA CallLeaves ==
  ASSUME NEW s, ServerTypes(s), NEW c, GoodCall(c), NEW o \in Outcomes(s, Decode(c.request))
  PROVE  /\ ServerTypes(o.server) /\ s.named \subseteq o.server.named
         /\ o.says # "yes" => o.server = s
         /\ KeepsAll(s, c.ops, o)
         /\ c.method = "create" => o.says = "yes" /\ o.made[1] \in o.server.named
<1> DEFINE ops == c.ops
           read == Decode(c.request)
<1>1. GoodOps(ops)
  BY DEF GoodCall
<1>2. CASE c.method = "create"
  <2>1. read = ops /\ ops = <<ops[1]>> /\ ops[1].verb = "create"
    BY <1>2 DEF GoodCall, ReadBack
  <2>2. DOMAIN ops = {1} /\ ops # <<>>
    <3> DEFINE one == ops[1]
    <3>1. ops = <<one>>
      BY <2>1
    <3> HIDE DEF one, ops
    <3> QED
      BY <3>1, 1 .. 1 = {1}
  <2>3. PICK id \in SessionIds : o = NewSession(s, ops[1].body, id)
    <3> HIDE DEF ops, read
    <3> QED
      BY <2>1, <2>2 DEF Outcomes, read
  <2>4. /\ ServerTypes(o.server) /\ s.named \subseteq o.server.named
        /\ o.says = "yes" /\ o.made = <<id>> /\ id \in o.server.named
        /\ \A k \in Keys : SessionAt(o.server, k) = SessionAt(s, k)
    BY <2>3, NewSessionLeaves
  <2>5. KeepsAll(s, ops, o)
    BY <2>1, <2>2, <2>4 DEF KeepsAll
  <2>6. o.made[1] = id
    BY <2>4
  <2> QED
    BY <2>4, <2>5, <2>6
<1>3. CASE c.method # "create" /\ c.method # "commit"
  <2>1. read = ops /\ ops[1].verb # "create"
    BY <1>3 DEF GoodCall, ReadBack
  <2>2. o = Together(s, ops)
    <3> HIDE DEF ops, read
    <3> QED
      BY <2>1 DEF Outcomes, read
  <2>3. Leaves(s, s.index + 1, o) /\ KeepsAll(s, ops, o)
    BY <1>1, <2>1, <2>2, TogetherLeaves
  <2> QED
    BY <1>3, <2>3 DEF Leaves
<1>4. CASE c.method = "commit"
  <2> DEFINE one == ops[1]
             two == ops[2]
             p == TxnOp(one)
             q == TxnOp(two)
  <2>1. read = <<p, q>> /\ ops = <<one, two>>
    BY <1>4 DEF GoodCall, ReadBack
  <2>2. GoodOp(one) /\ one.verb # "create" /\ GoodOp(two) /\ two.verb # "create"
    <3>1. ops # <<one>>
      <4>1. Len(<<one, two>>) = 2 /\ Len(<<one>>) = 1
        OBVIOUS
      <4> HIDE DEF one, two, ops
      <4> QED
        BY <2>1, <4>1
    <3> QED
      BY <1>1, <3>1 DEF GoodOps
  <2>3. /\ GoodOp(p) /\ p.verb = one.verb /\ p.at = one.at /\ p.session = one.session
        /\ GoodOp(q) /\ q.verb = two.verb /\ q.at = two.at /\ q.session = two.session
    BY <2>2, TxnOpSame
  <2> HIDE DEF one, two, p, q, ops, read
  <2>4. DOMAIN ops = {1, 2} /\ ops[1] = one /\ ops[2] = two
    BY <2>1, 1 .. 2 = {1, 2}
  <2>5. DOMAIN read = {1, 2} /\ read[1] = p /\ read[2] = q /\ read = <<read[1], read[2]>>
    BY <2>1, 1 .. 2 = {1, 2}
  <2>6. GoodOps(read) /\ read[1].verb # "create"
    BY <2>2, <2>3, <2>5 DEF GoodOps
  <2>7. o = Together(s, read)
    BY <2>6 DEF Outcomes, read
  <2>8. Leaves(s, s.index + 1, o) /\ KeepsAll(s, read, o)
    BY <2>6, <2>7, TogetherLeaves
  <2>9. \A k, id : EndsAny(read, k, id) <=> EndsAny(ops, k, id)
    <3>1. \A k, id : /\ EndsLock(p, k, id) <=> EndsLock(one, k, id)
                     /\ EndsLock(q, k, id) <=> EndsLock(two, k, id)
      BY <2>3 DEF EndsLock
    <3> QED
      BY <2>4, <2>5, <3>1 DEF EndsAny
  <2>10. KeepsAll(s, ops, o)
    BY <2>3, <2>4, <2>5, <2>8, <2>9 DEF KeepsAll
  <2> QED
    BY <1>4, <2>8, <2>10 DEF Leaves, ops
<1> QED
  BY <1>2, <1>3, <1>4

(* A method that locks reports success only if the server said yes.        *)
LEMMA LockedMeansYes ==
  ASSUME NEW c, GoodCall(c), NEW n \in DOMAIN c.ops, c.ops[n].verb = "lock",
         NEW o, NEW r \in {Unable, Answer(c.request, o)},
         Result(c.method, r) \in {"ok", "true"}
  PROVE  o.says = "yes"
<1>1. Unable.status = 500
  BY DEF Unable, NoReply
<1>2. /\ Answer(c.request, o).status = Status(c.request, o)
      /\ Answer(c.request, o).yes = (o.says = "yes")
  BY DEF Answer
<1>3. CASE c.method = "commit"
  <2>1. Result(c.method, r) = CommitResult(r)
    BY <1>3 DEF Result
  <2>2. r.status = 200
    BY <2>1 DEF CommitResult
  <2>3. r = Answer(c.request, o)
    BY <1>1, <2>2
  <2>4. c.request.verb = "TXN"
    BY <1>3 DEF GoodCall
  <2> QED
    BY <1>2, <2>2, <2>3, <2>4 DEF Status
<1>4. CASE c.method = "lock"
  <2>1. Result(c.method, r) = BoolResult(r)
    BY <1>4 DEF Result
  <2>2. Success(r.status) /\ r.yes
    BY <2>1 DEF BoolResult, StatusError
  <2>3. r = Answer(c.request, o)
    BY <1>1, <2>2 DEF Success
  <2> QED
    BY <1>2, <2>2, <2>3
<1> QED
  BY <1>3, <1>4 DEF GoodCall

-----------------------------------------------------------------------------
(* The invariant holds at the start.                                       *)
LEMMA KvInit == Init => KvInv
<1> SUFFICES ASSUME Init
             PROVE  KvInv
  OBVIOUS
<1>1. workload \in Workloads /\ workload.start \in Nat
  BY KvAssumption DEF Init
<1>2. ServerTypes(server)
  <2> DEFINE i == workload.start
             item == IF i = 0 THEN NoItem ELSE [NoItem EXCEPT !.modify = i]
             store == [k \in Keys |-> item]
             none == [x \in {} |-> Empty]
  <2>1. server = [store |-> store, index |-> i, sessions |-> none, named |-> {}]
    BY Zenon DEF Init, Found
  <2>2. DOMAIN item = {"modify", "value", "session"} /\ item.modify = i /\ item.session = NoSession
    BY <1>1 DEF NoItem
  <2>3. DOMAIN none = {}
    OBVIOUS
  <2>4. DOMAIN store = Keys /\ \A k \in Keys : store[k] = item
    <3> HIDE DEF item
    <3> QED
      OBVIOUS
  <2> HIDE DEF item, store, none
  <2> QED
    BY <1>1, <2>1, <2>2, <2>3, <2>4 DEF ServerTypes
<1>3. KvTypes
  BY <1>1, <1>2 DEF Init, KvTypes
<1>4. ASSUME NEW t \in Callers
      PROVE  CallerOK(t)
  <2>1. net[t] = "none" /\ holds[t] = {} /\ fate[t] = NoFate
    BY DEF Init
  <2>2. FateOK(t)
    BY <2>1 DEF FateOK, NoFate
  <2> QED
    BY <2>1, <2>2 DEF CallerOK, CallOK, CreatedOK, LockOK, HoldOK
<1>5. LateOK
  BY DEF Init, LateOK, Range
<1> QED
  BY <1>3, <1>4, <1>5 DEF KvInv

(***************************************************************************)
(* Something takes effect at the server, for one caller or for none: what  *)
(* the others hold is still theirs, and so is what their calls have locked *)
(* and nobody has ended.                                                   *)
(***************************************************************************)
LEMMA EffectKeeps ==
  ASSUME KvInv, NEW ops, NEW o, ServerTypes(o.server), server.named \subseteq o.server.named,
         o.says # "yes" => o.server = server,
         KeepsAll(server, ops, o), TakeEffect(o, ops), session' = session
  PROVE  /\ ServerTypes(server') /\ server.named \subseteq server'.named
         /\ holds' \in [Callers -> SUBSET Keys]
         /\ session' \in [Callers -> server'.named \cup {NoSession}]
         /\ \A t \in Callers : HoldOK(t)'
         /\ \A t \in Callers, k \in Keys :
              /\ ~ (o.says = "yes" /\ k \in Ended(t, ops))
              /\ session[t] # NoSession /\ SessionAt(server, k) = session[t]
              => SessionAt(server', k) = session[t]
<1>1. ServerTypes(server') /\ server.named \subseteq server'.named
      /\ session' \in [Callers -> server'.named \cup {NoSession}]
  BY DEF TakeEffect, KvInv, KvTypes
<1>2. holds' \in [Callers -> SUBSET Keys] /\ \A t \in Callers : holds'[t] \subseteq holds[t]
  BY DEF TakeEffect, KvInv, KvTypes
<1>3. ASSUME NEW t \in Callers, session[t] # NoSession, NEW k \in Keys,
             SessionAt(server, k) = session[t], ~ (o.says = "yes" /\ k \in Ended(t, ops))
      PROVE  SessionAt(server', k) = session[t]
  <2>1. session[t] \in SessionIds
    BY <1>3 DEF KvInv, KvTypes, ServerTypes
  <2>2. k \in Ended(t, ops) <=> EndsAny(ops, k, session[t])
    BY DEF Ended, EndsAny
  <2>3. server' = o.server
    BY DEF TakeEffect
  <2> QED
    BY <1>3, <2>1, <2>2, <2>3 DEF KeepsAll
<1>4. ASSUME NEW t \in Callers
      PROVE  HoldOK(t)'
  <2>1. HoldOK(t)
    BY DEF KvInv, CallerOK
  <2>2. session'[t] = session[t]
    OBVIOUS
  <2>3. ASSUME NEW k \in holds'[t]
        PROVE  SessionAt(server', k) = session[t]
    <3>1. k \in Keys /\ k \in holds[t] /\ ~ (o.says = "yes" /\ k \in Ended(t, ops))
      BY <1>2, <2>3 DEF TakeEffect, KvInv, KvTypes
    <3> QED
      BY <1>3, <2>1, <3>1 DEF HoldOK
  <2> QED
    BY <1>2, <2>1, <2>2, <2>3 DEF HoldOK
<1> QED
  BY <1>1, <1>2, <1>3, <1>4

LocksFor(t, as, k) ==
  /\ k \in Keys /\ session[t] \in SessionIds /\ session[t] # NoSession
  /\ as \in {"ok", "true"}
  /\ \E n \in DOMAIN call[t].ops :
       /\ call[t].ops[n].verb = "lock" /\ call[t].ops[n].at = k
       /\ call[t].ops[n].session = session[t]

(* The keys a call locks are keys, and locked for a session of its caller. *)
LEMMA LockedKeys ==
  ASSUME KvInv, NEW t \in Callers, net[t] # "none", NEW as, NEW k \in LockedBy(call[t], as)
  PROVE  LocksFor(t, as, k)
<1>1. as \in {"ok", "true"}
      /\ \E n \in DOMAIN call[t].ops : call[t].ops[n].verb = "lock" /\ call[t].ops[n].at = k
  BY DEF LockedBy
<1>2. PICK n \in DOMAIN call[t].ops : call[t].ops[n].verb = "lock" /\ call[t].ops[n].at = k
  BY <1>1
<1>3. GoodCall(call[t]) /\ call[t].ops[n].session = session[t]
  BY <1>2 DEF KvInv, CallerOK, CallOK
<1>4. GoodOp(call[t].ops[n])
  <2> DEFINE ops == call[t].ops
             one == ops[1]
             two == ops[2]
  <2>1. GoodOps(ops) /\ n \in DOMAIN ops
    BY <1>3 DEF GoodCall
  <2>2. \/ ops = <<one>> /\ GoodOp(one)
        \/ ops = <<one, two>> /\ GoodOp(one) /\ GoodOp(two)
    BY <2>1 DEF GoodOps
  <2> HIDE DEF ops
  <2>3. CASE ops = <<one>> /\ GoodOp(one)
    <3> HIDE DEF one
    <3>1. DOMAIN ops = 1 .. 1
      BY <2>3
    <3>2. n = 1
      BY <2>1, <3>1
    <3> QED
      BY <2>3, <3>2 DEF one, ops
  <2>4. CASE ops = <<one, two>> /\ GoodOp(one) /\ GoodOp(two)
    <3> HIDE DEF one, two
    <3>1. DOMAIN ops = 1 .. 2
      BY <2>4
    <3>2. n \in {1, 2}
      BY <2>1, <3>1
    <3> QED
      BY <2>4, <3>2 DEF one, two, ops
  <2> QED
    BY <2>2, <2>3, <2>4
<1>5. k \in Keys /\ session[t] \in SessionIds
  BY <1>2, <1>3, <1>4 DEF GoodOp, KeyVerbs
<1> QED
  BY <1>1, <1>2, <1>3, <1>5, StoreAssumption DEF LocksFor

(* A caller whose own call does not move keeps its part of the invariant.  *)
LEMMA CallerKeeps ==
  ASSUME KvInv, NEW t \in Callers,
         call'[t] = call[t], net'[t] = net[t], reply'[t] = reply[t], session'[t] = session[t],
         server.named \subseteq server'.named,
         fate[t].broken \subseteq fate'[t].broken,
         \A k \in Keys :
           /\ net[t] # "none" /\ k \notin fate'[t].broken
           /\ session[t] # NoSession /\ SessionAt(server, k) = session[t]
           => SessionAt(server', k) = session[t]
  PROVE  CallOK(t)' /\ CreatedOK(t)' /\ LockOK(t)'
<1>1. CallOK(t)'
  BY DEF KvInv, CallerOK, CallOK
<1>2. CreatedOK(t)'
  BY DEF KvInv, CallerOK, CreatedOK
<1>3. LockOK(t)'
  <2> DEFINE as == Result(call[t].method, reply[t])
  <2> SUFFICES ASSUME net[t] = "answered", NEW k \in LockedBy(call[t], as) \ fate'[t].broken
               PROVE  SessionAt(server', k) = session[t]
    BY DEF LockOK
  <2>1. k \in Keys /\ session[t] # NoSession
    BY LockedKeys DEF LocksFor
  <2>2. SessionAt(server, k) = session[t]
    BY DEF KvInv, CallerOK, LockOK
  <2> QED
    BY <2>1, <2>2
<1> QED
  BY <1>1, <1>2, <1>3

(* A call begins, if it is one that the server reads as it was meant.      *)
LEMMA BeginKeeps ==
  ASSUME KvInv, NEW t \in Callers, NEW method, NEW ops, NEW expect,
         Begin(t, method, ops, expect), GoodCall(CallOf(method, ops)),
         \A n \in DOMAIN ops : ops[n].verb = "lock" => session[t] = ops[n].session,
         method = "create" => session[t] = NoSession
  PROVE  KvInv'
<1> DEFINE c == CallOf(method, ops)
<1>1. call' = [call EXCEPT ![t] = c]
  BY Zenon DEF Begin, CallOf
<1>2. c.method = method /\ c.ops = ops
  BY CallFields
<1> HIDE DEF c
<1>3. /\ net[t] = "none" /\ net' = [net EXCEPT ![t] = "sent"]
      /\ fate' = [fate EXCEPT ![t] = [fate[t] EXCEPT !.expect = expect]]
      /\ holds' = [holds EXCEPT ![t] = holds[t] \ Ended(t, ops)]
      /\ server' = server /\ reply' = reply /\ orphans' = orphans /\ session' = session
      /\ workload' = workload
  BY DEF Begin
<1>4. KvTypes'
  BY <1>1, <1>3 DEF KvInv, KvTypes
<1>5. /\ call'[t] = c /\ net'[t] = "sent"
      /\ \A u \in Callers \ {t} : call'[u] = call[u] /\ net'[u] = net[u] /\ fate'[u] = fate[u]
      /\ fate'[t] = [fate[t] EXCEPT !.expect = expect]
      /\ \A u \in Callers : holds'[u] \subseteq holds[u]
  BY <1>1, <1>3 DEF KvInv, KvTypes
<1>6. FateOK(t) /\ FateOK(t)'
  <2>1. FateOK(t)
    BY DEF KvInv, CallerOK
  <2>2. /\ DOMAIN fate'[t] = DOMAIN fate[t] /\ fate'[t].repeated = fate[t].repeated
        /\ fate'[t].times = fate[t].times
    BY <1>5, <2>1 DEF FateOK
  <2> QED
    BY <1>3, <1>5, <2>1, <2>2 DEF FateOK
<1>7. CallOK(t)'
  BY <1>2, <1>3, <1>5 DEF CallOK, c
<1>8. ASSUME NEW u \in Callers
      PROVE  CallerOK(u)'
  <2>1. HoldOK(u)'
    BY <1>3, <1>5 DEF KvInv, CallerOK, HoldOK
  <2>2. CASE u = t
    BY <1>5, <1>6, <1>7, <2>1, <2>2 DEF CallerOK, CreatedOK, LockOK
  <2>3. CASE u # t
    <3>1. FateOK(u)'
      BY <1>5, <2>3 DEF KvInv, CallerOK, FateOK
    <3>2. CallOK(u)' /\ CreatedOK(u)' /\ LockOK(u)'
      BY <1>3, <1>5, <2>3, CallerKeeps
    <3> QED
      BY <2>1, <3>1, <3>2 DEF CallerOK
  <2> QED
    BY <2>2, <2>3
<1> QED
  BY <1>3, <1>4, <1>8 DEF KvInv, LateOK

(* The server processes a call.                                            *)
LEMMA ProcessKeeps ==
  ASSUME KvInv, NEW t \in Callers, Process(t)
  PROVE  KvInv'
<1> DEFINE c == call[t]
           r == c.request
           ops == c.ops
<1>1. PICK o \in Outcomes(server, Decode(r)), fails \in BOOLEAN :
        /\ TakeEffect(o, ops)
        /\ fate' = [u \in Callers |->
                [fate[u] EXCEPT
                   !.broken = Breaks(u, ops, o.says = "yes"),
                   !.before = IF u = t /\ fate[t].expect # {} THEN server.store ELSE @,
                   !.times = IF u = t THEN @ + 1 ELSE @,
                   !.took = IF u = t THEN @ \/ o.says = "yes" ELSE @,
                   !.says = IF u = t THEN o.says ELSE @,
                   !.made = IF u = t THEN o.made ELSE @]]
        /\ reply' = [reply EXCEPT ![t] = IF fails THEN Unable ELSE Answer(r, o)]
  BY Zenon DEF Process
<1>2. /\ net[t] = "sent" /\ net' = [net EXCEPT ![t] = "answered"]
      /\ call' = call /\ orphans' = orphans /\ session' = session /\ workload' = workload
  BY DEF Process, callerVars
<1>3. GoodCall(c)
  BY <1>2 DEF KvInv, CallerOK, CallOK
<1>4. /\ ServerTypes(o.server) /\ server.named \subseteq o.server.named
      /\ o.says # "yes" => o.server = server
      /\ KeepsAll(server, ops, o)
      /\ c.method = "create" => o.says = "yes" /\ o.made[1] \in o.server.named
  <2>1. ServerTypes(server)
    BY DEF KvInv, KvTypes
  <2> QED
    BY <1>3, <2>1, CallLeaves
<1>5. /\ ServerTypes(server') /\ server.named \subseteq server'.named
      /\ holds' \in [Callers -> SUBSET Keys]
      /\ session' \in [Callers -> server'.named \cup {NoSession}]
      /\ \A u \in Callers : HoldOK(u)'
      /\ \A u \in Callers, k \in Keys :
           /\ ~ (o.says = "yes" /\ k \in Ended(u, ops))
           /\ session[u] # NoSession /\ SessionAt(server, k) = session[u]
           => SessionAt(server', k) = session[u]
  BY <1>1, <1>2, <1>4, EffectKeeps
<1>6. /\ DOMAIN fate' = Callers
      /\ \A u \in Callers :
           /\ DOMAIN fate'[u] = DOMAIN fate[u]
           /\ fate'[u].repeated = fate[u].repeated
           /\ fate'[u].broken = Breaks(u, ops, o.says = "yes")
           /\ fate'[u].times = IF u = t THEN fate[u].times + 1 ELSE fate[u].times
  <2>1. DOMAIN fate' = Callers
    BY <1>1
  <2>2. ASSUME NEW u \in Callers
        PROVE  /\ DOMAIN fate'[u] = DOMAIN fate[u]
               /\ fate'[u].repeated = fate[u].repeated
               /\ fate'[u].broken = Breaks(u, ops, o.says = "yes")
               /\ fate'[u].times = IF u = t THEN fate[u].times + 1 ELSE fate[u].times
    <3> DEFINE f == fate[u]
               broken == Breaks(u, ops, o.says = "yes")
               before == IF u = t /\ fate[t].expect # {} THEN server.store ELSE f.before
               times == IF u = t THEN f.times + 1 ELSE f.times
               took == IF u = t THEN f.took \/ o.says = "yes" ELSE f.took
               says == IF u = t THEN o.says ELSE f.says
               made == IF u = t THEN o.made ELSE f.made
    <3>1. DOMAIN f = {"expect", "before", "repeated", "broken", "times", "took", "says", "made"}
      BY DEF KvInv, CallerOK, FateOK
    <3>2. fate'[u] = [f EXCEPT !.broken = broken, !.before = before, !.times = times, !.took = took,
                                !.says = says, !.made = made]
      BY <1>1, <3>1
    <3> HIDE DEF f, broken, before, took, says, made, times
    <3>3. /\ DOMAIN fate'[u] = DOMAIN f /\ fate'[u].repeated = f.repeated
          /\ fate'[u].broken = broken /\ fate'[u].times = times
      BY <3>1, <3>2
    <3> QED
      BY <3>3 DEF f, broken, times
  <2> QED
    BY <2>1, <2>2
<1>7. /\ \A u \in Callers : fate[u].broken \subseteq fate'[u].broken
      /\ \A u \in Callers : net[u] # "none" /\ o.says = "yes" => Ended(u, ops) \subseteq fate'[u].broken
  BY <1>6 DEF Breaks
<1>8. KvTypes'
  BY <1>1, <1>2, <1>5, <1>6 DEF KvInv, KvTypes
<1>9. net'[t] = "answered" /\ reply'[t] \in {Unable, Answer(r, o)}
      /\ \A u \in Callers \ {t} : net'[u] = net[u] /\ reply'[u] = reply[u]
  BY <1>1, <1>2 DEF KvInv, KvTypes
<1>10. ASSUME NEW u \in Callers
       PROVE  FateOK(u)'
  <2>1. FateOK(u)
    BY DEF KvInv, CallerOK
  <2> QED
    BY <1>2, <1>6, <1>9, <2>1 DEF FateOK
<1>11. CallOK(t)'
  BY <1>2, <1>9 DEF KvInv, CallerOK, CallOK
<1>12. CreatedOK(t)'
  <2> SUFFICES ASSUME c.method = "create", Success(reply'[t].status)
               PROVE  reply'[t].made[1] \in server'.named
    BY <1>2 DEF CreatedOK
  <2>1. Unable.status = 500
    BY DEF Unable, NoReply
  <2>2. reply'[t] = Answer(r, o)
    BY <1>9, <2>1 DEF Success
  <2>3. r.verb = "CREATE"
    BY <1>3 DEF GoodCall
  <2>4. reply'[t].made = o.made
    BY <2>2, <2>3 DEF Answer
  <2>5. server' = o.server
    BY <1>1 DEF TakeEffect
  <2> QED
    BY <1>4, <2>4, <2>5
<1>13. LockOK(t)'
  <2>1. ASSUME NEW as, NEW k \in LockedBy(c, as)
        PROVE  LocksFor(t, as, k)
    <3>1. net[t] # "none"
      BY <1>2
    <3> QED
      BY <3>1, LockedKeys, Zenon
  <2> SUFFICES ASSUME NEW as, as = Result(c.method, reply'[t]),
                      NEW k \in LockedBy(c, as), k \notin fate'[t].broken
               PROVE  SessionAt(server', k) = session[t]
    BY <1>2 DEF LockOK
  <2>2. /\ k \in Keys /\ session[t] \in SessionIds /\ as \in {"ok", "true"}
        /\ \E n \in DOMAIN ops : /\ ops[n].verb = "lock" /\ ops[n].at = k
                                 /\ ops[n].session = session[t]
    BY <2>1 DEF LocksFor
  <2>3. PICK n \in DOMAIN ops : ops[n].verb = "lock" /\ ops[n].at = k /\ ops[n].session = session[t]
    BY <2>2
  <2>4. o.says = "yes"
    BY <1>3, <1>9, <2>2, <2>3, LockedMeansYes
  <2>5. ~ EndsAny(ops, k, session[t])
    BY <1>2, <1>6, <2>2, <2>4 DEF Breaks, Ended, EndsAny
  <2>6. server' = o.server
    BY <1>1 DEF TakeEffect
  <2> QED
    BY <1>4, <2>2, <2>3, <2>4, <2>5, <2>6 DEF KeepsAll
<1>14. ASSUME NEW u \in Callers
       PROVE  CallerOK(u)'
  <2>1. CASE u = t
    BY <1>5, <1>10, <1>11, <1>12, <1>13, <2>1 DEF CallerOK
  <2>2. CASE u # t
    <3>1. CallOK(u)' /\ CreatedOK(u)' /\ LockOK(u)'
      BY <1>2, <1>5, <1>6, <1>7, <1>9, <2>2, CallerKeeps
    <3> QED
      BY <1>5, <1>10, <3>1 DEF CallerOK
  <2> QED
    BY <2>1, <2>2
<1> QED
  BY <1>2, <1>8, <1>14 DEF KvInv, LateOK

(* An operation that takes effect is remembered by the calls on their way.  *)
LEMMA BreaksAdds ==
  ASSUME NEW u, NEW ops, NEW yes \in BOOLEAN
  PROVE  /\ fate[u].broken \subseteq Breaks(u, ops, yes)
         /\ net[u] # "none" /\ yes => Ended(u, ops) \subseteq Breaks(u, ops, yes)
BY Zenon DEF Breaks

(* Something takes effect for no caller that still waits for it.           *)
LEMMA LateEffectKeeps ==
  ASSUME KvInv, NEW ops, NEW o, ServerTypes(o.server), server.named \subseteq o.server.named,
         o.says # "yes" => o.server = server,
         KeepsAll(server, ops, o), TakeEffect(o, ops),
         fate' = [u \in Callers |-> [fate[u] EXCEPT !.broken = Breaks(u, ops, o.says = "yes")]],
         LateOK', UNCHANGED <<call, net, reply, callerVars, calls, workload>>
  PROVE  KvInv'
<1>1. /\ call' = call /\ net' = net /\ reply' = reply /\ session' = session /\ workload' = workload
  BY DEF callerVars
<1>2. /\ ServerTypes(server') /\ server.named \subseteq server'.named
      /\ holds' \in [Callers -> SUBSET Keys]
      /\ session' \in [Callers -> server'.named \cup {NoSession}]
      /\ \A u \in Callers : HoldOK(u)'
      /\ \A u \in Callers, k \in Keys :
           /\ ~ (o.says = "yes" /\ k \in Ended(u, ops))
           /\ session[u] # NoSession /\ SessionAt(server, k) = session[u]
           => SessionAt(server', k) = session[u]
  BY <1>1, EffectKeeps
<1>3. /\ DOMAIN fate' = Callers
      /\ \A u \in Callers :
           /\ DOMAIN fate'[u] = DOMAIN fate[u]
           /\ fate'[u].repeated = fate[u].repeated
           /\ fate'[u].broken = Breaks(u, ops, o.says = "yes")
           /\ fate'[u].times = fate[u].times
  BY DEF KvInv, CallerOK, FateOK
<1>4. /\ \A u \in Callers : fate[u].broken \subseteq fate'[u].broken
      /\ \A u \in Callers : net[u] # "none" /\ o.says = "yes" => Ended(u, ops) \subseteq fate'[u].broken
  <2> DEFINE yes == o.says = "yes"
  <2>1. yes \in BOOLEAN
    OBVIOUS
  <2> HIDE DEF yes
  <2>2. ASSUME NEW u \in Callers
        PROVE  /\ fate[u].broken \subseteq fate'[u].broken
               /\ net[u] # "none" /\ yes => Ended(u, ops) \subseteq fate'[u].broken
    <3>1. fate'[u].broken = Breaks(u, ops, yes)
      BY <1>3, Zenon DEF yes
    <3>2. /\ fate[u].broken \subseteq Breaks(u, ops, yes)
          /\ net[u] # "none" /\ yes => Ended(u, ops) \subseteq Breaks(u, ops, yes)
      BY <2>1, BreaksAdds, Zenon
    <3> QED
      BY <3>1, <3>2, Zenon
  <2> QED
    BY <2>2, Zenon DEF yes
<1>5. KvTypes'
  BY <1>1, <1>2, <1>3 DEF KvInv, KvTypes
<1>6. ASSUME NEW u \in Callers
      PROVE  CallerOK(u)'
  <2>1. FateOK(u)'
    BY <1>1, <1>3 DEF KvInv, CallerOK, FateOK
  <2>2. CallOK(u)' /\ CreatedOK(u)' /\ LockOK(u)'
    BY <1>1, <1>2, <1>4, CallerKeeps
  <2> QED
    BY <1>2, <2>1, <2>2 DEF CallerOK
<1> QED
  BY <1>5, <1>6 DEF KvInv

(* A call that its caller has given up takes effect.                       *)
LEMMA OrphanKeeps ==
  ASSUME KvInv, NEW n \in DOMAIN orphans, ProcessOrphan(n)
  PROVE  KvInv'
<1> DEFINE c == orphans[n]
<1>1. PICK o \in Outcomes(server, Decode(c.request)) :
        /\ TakeEffect(o, c.ops)
        /\ fate' = [u \in Callers |-> [fate[u] EXCEPT !.broken = Breaks(u, c.ops, o.says = "yes")]]
  BY Zenon DEF ProcessOrphan
<1>2. /\ ServerTypes(o.server) /\ server.named \subseteq o.server.named
      /\ o.says # "yes" => o.server = server
      /\ KeepsAll(server, c.ops, o)
  BY CallLeaves DEF KvInv, KvTypes, LateOK, Range
<1>3. LateOK'
  BY RemoveLeaves DEF KvInv, LateOK, ProcessOrphan
<1>4. UNCHANGED <<call, net, reply, callerVars, calls, workload>>
  BY DEF ProcessOrphan
<1> QED
  BY <1>1, <1>2, <1>3, <1>4, LateEffectKeeps

(* A session ends at the server, and with it the locks of its caller.      *)
LEMMA ExpireKeeps ==
  ASSUME KvInv, NEW id, Expire(id)
  PROVE  KvInv'
<1> DEFINE n == Expired(server, id)
           o == Outcome(n, "yes", <<>>)
           op == Op("destroy", Empty, 0, id, Empty)
           ops == <<op>>
<1>1. /\ TakeEffect(o, ops)
      /\ fate' = [u \in Callers |-> [fate[u] EXCEPT !.broken = Breaks(u, ops, TRUE)]]
      /\ UNCHANGED <<call, net, reply, orphans, callerVars, calls, workload>>
  BY Zenon DEF Expire
<1>2. /\ ServerTypes(n) /\ n.named = server.named
      /\ \A l \in Keys : SessionAt(server, l) # id => SessionAt(n, l) = SessionAt(server, l)
  <2>1. server.index + 1 \in Nat /\ server.index <= server.index + 1 /\ ServerTypes(server)
    BY DEF KvInv, KvTypes, ServerTypes
  <2> QED
    BY <2>1, InvalidateLeaves DEF Expired
<1>3. op.verb = "destroy" /\ op.session = id
  BY OpFields
<1> HIDE DEF n, op
<1>4. o.server = n /\ o.says = "yes"
  BY OutcomeFields
<1>5. DOMAIN ops = {1} /\ ops[1] = op
  BY 1 .. 1 = {1}
<1> HIDE DEF o, ops
<1>6. KeepsAll(server, ops, o)
  BY <1>2, <1>3, <1>4, <1>5 DEF KeepsAll, EndsAny, EndsLock
<1>7. fate' = [u \in Callers |-> [fate[u] EXCEPT !.broken = Breaks(u, ops, o.says = "yes")]]
  <2>1. (o.says = "yes") = TRUE
    BY <1>4
  <2> QED
    BY <1>1, <2>1, Zenon
<1>8. LateOK'
  BY <1>1 DEF KvInv, LateOK
<1> QED
  BY <1>1, <1>2, <1>4, <1>6, <1>7, <1>8, LateEffectKeeps

(* The server cannot, and the transfer is repeated.                        *)
LEMMA RejectKeeps ==
  ASSUME KvInv, NEW t \in Callers, Reject(t)
  PROVE  KvInv'
<1>1. /\ net[t] = "sent" /\ net' = [net EXCEPT ![t] = "answered"]
      /\ reply' = [reply EXCEPT ![t] = Unable]
      /\ server' = server /\ call' = call /\ orphans' = orphans /\ session' = session
      /\ fate' = fate /\ holds' = holds /\ workload' = workload
  BY DEF Reject, callerVars
<1>2. net'[t] = "answered" /\ reply'[t] = Unable
      /\ \A u \in Callers \ {t} : net'[u] = net[u] /\ reply'[u] = reply[u]
  BY <1>1 DEF KvInv, KvTypes
<1>3. KvTypes'
  BY <1>1 DEF KvInv, KvTypes
<1>4. Unable.status = 500 /\ ~ Success(500)
  BY DEF Unable, NoReply, Success
<1>5. ASSUME NEW m
      PROVE  Result(m, Unable) \notin {"ok", "true"}
  BY <1>4 DEF Result, GetResult, CommitResult, SetResult, BoolResult, VoidResult, StatusError
<1>6. ASSUME NEW u \in Callers
      PROVE  CallerOK(u)'
  <2>1. FateOK(u)' /\ HoldOK(u)'
    BY <1>1, <1>2 DEF KvInv, CallerOK, FateOK, HoldOK
  <2>2. CASE u = t
    <3>1. CallOK(t)'
      BY <1>1 DEF KvInv, CallerOK, CallOK
    <3>2. CreatedOK(t)'
      BY <1>2, <1>4 DEF CreatedOK
    <3>3. LockedBy(call'[t], Result(call'[t].method, reply'[t])) = {}
      BY <1>2, <1>5 DEF LockedBy
    <3> QED
      BY <2>1, <2>2, <3>1, <3>2, <3>3 DEF CallerOK, LockOK
  <2>3. CASE u # t
    <3>1. CallOK(u)' /\ CreatedOK(u)' /\ LockOK(u)'
      BY <1>1, <1>2, <2>3, CallerKeeps
    <3> QED
      BY <2>1, <3>1 DEF CallerOK
  <2> QED
    BY <2>2, <2>3
<1> QED
  BY <1>1, <1>3, <1>6 DEF KvInv, LateOK

(* libcurl sends a request without a body again.                            *)
LEMMA RepeatKeeps ==
  ASSUME KvInv, NEW t \in Callers, Repeat(t)
  PROVE  KvInv'
<1>1. /\ net[t] = "answered" /\ net' = [net EXCEPT ![t] = "sent"] /\ ~ fate[t].repeated
      /\ fate' = [fate EXCEPT ![t] = [fate[t] EXCEPT !.repeated = TRUE]]
      /\ server' = server /\ call' = call /\ orphans' = orphans /\ session' = session
      /\ reply' = reply /\ holds' = holds /\ workload' = workload
  BY DEF Repeat, callerVars
<1>2. net'[t] = "sent" /\ fate'[t] = [fate[t] EXCEPT !.repeated = TRUE]
      /\ \A u \in Callers \ {t} : net'[u] = net[u] /\ fate'[u] = fate[u]
  BY <1>1 DEF KvInv, KvTypes
<1>3. KvTypes'
  BY <1>1 DEF KvInv, KvTypes
<1>4. FateOK(t)'
  <2>1. FateOK(t)
    BY DEF KvInv, CallerOK
  <2>2. /\ DOMAIN fate'[t] = DOMAIN fate[t] /\ fate'[t].repeated = TRUE
        /\ fate'[t].times = fate[t].times
    BY <1>2, <2>1 DEF FateOK
  <2> QED
    BY <1>1, <1>2, <2>1, <2>2 DEF FateOK
<1>5. ASSUME NEW u \in Callers
      PROVE  CallerOK(u)'
  <2>1. HoldOK(u)'
    BY <1>1 DEF KvInv, CallerOK, HoldOK
  <2>2. CASE u = t
    <3>1. CallOK(t)'
      BY <1>1 DEF KvInv, CallerOK, CallOK
    <3> QED
      BY <1>2, <1>4, <2>1, <2>2, <3>1 DEF CallerOK, CreatedOK, LockOK
  <2>3. CASE u # t
    <3>1. FateOK(u)'
      BY <1>2, <2>3 DEF KvInv, CallerOK, FateOK
    <3>2. CallOK(u)' /\ CreatedOK(u)' /\ LockOK(u)'
      BY <1>1, <1>2, <2>3, CallerKeeps
    <3> QED
      BY <2>1, <3>1, <3>2 DEF CallerOK
  <2> QED
    BY <2>2, <2>3
<1> QED
  BY <1>1, <1>3, <1>5 DEF KvInv, LateOK

(* A call ends: its history is forgotten.                                  *)
LEMMA EndKeeps ==
  ASSUME KvInv, NEW t \in Callers, Ends(t),
         server' = server, workload' = workload,
         session' \in [Callers -> server.named \cup {NoSession}],
         holds' \in [Callers -> SUBSET Keys],
         HoldOK(t)',
         \A u \in Callers \ {t} : session'[u] = session[u] /\ holds'[u] = holds[u],
         LateOK'
  PROVE  KvInv'
<1>1. /\ net' = [net EXCEPT ![t] = "none"]
      /\ call' = [call EXCEPT ![t] = NoCall]
      /\ reply' = [reply EXCEPT ![t] = NoReply]
      /\ fate' = [fate EXCEPT ![t] = NoFate]
  BY DEF Ends
<1>2. /\ net'[t] = "none" /\ fate'[t] = NoFate
      /\ \A u \in Callers \ {t} : /\ net'[u] = net[u] /\ call'[u] = call[u] /\ reply'[u] = reply[u]
                                  /\ fate'[u] = fate[u]
  BY <1>1 DEF KvInv, KvTypes
<1>3. KvTypes'
  BY <1>1 DEF KvInv, KvTypes
<1>4. ASSUME NEW u \in Callers
      PROVE  CallerOK(u)'
  <2>1. CASE u = t
    <3>1. FateOK(t)'
      BY <1>2 DEF FateOK, NoFate
    <3> QED
      BY <1>2, <2>1, <3>1 DEF CallerOK, CallOK, CreatedOK, LockOK
  <2>2. CASE u # t
    <3>1. FateOK(u)' /\ HoldOK(u)'
      BY <1>2, <2>2 DEF KvInv, CallerOK, FateOK, HoldOK
    <3>2. CallOK(u)' /\ CreatedOK(u)' /\ LockOK(u)'
      BY <1>2, <2>2, CallerKeeps
    <3> QED
      BY <3>1, <3>2 DEF CallerOK
  <2> QED
    BY <2>1, <2>2
<1> QED
  BY <1>3, <1>4 DEF KvInv

(* A caller gives up; the server may still have its request.                *)
LEMMA GiveUpKeeps ==
  ASSUME KvInv, NEW t \in Callers, GiveUp(t)
  PROVE  KvInv'
<1>1. /\ Ends(t) /\ server' = server /\ workload' = workload /\ session' = session /\ holds' = holds
      /\ net[t] # "none" /\ (orphans' = orphans \/ orphans' = Append(orphans, call[t]))
  BY DEF GiveUp
<1>2. HoldOK(t)'
  BY <1>1 DEF KvInv, CallerOK, HoldOK
<1>3. GoodCall(call[t])
  BY <1>1 DEF KvInv, CallerOK, CallOK
<1>4. LateOK'
  <2>1. LateOK
    BY DEF KvInv
  <2>2. CASE orphans' = orphans
    BY <2>1, <2>2 DEF LateOK
  <2>3. CASE orphans' = Append(orphans, call[t])
    <3>1. orphans' \in Seq(Range(orphans')) /\ Range(orphans') \subseteq Range(orphans) \cup {call[t]}
      BY <2>1, <2>3, AppendAdds DEF LateOK
    <3> QED
      BY <1>3, <2>1, <3>1 DEF LateOK
  <2> QED
    BY <1>1, <2>2, <2>3
<1>5. session' \in [Callers -> server.named \cup {NoSession}] /\ holds' \in [Callers -> SUBSET Keys]
  BY <1>1 DEF KvInv, KvTypes
<1> QED
  BY <1>1, <1>2, <1>4, <1>5, EndKeeps

(* A method returns: what it has locked is held from now on.               *)
LEMMA ReturnKeeps ==
  ASSUME KvInv, NEW t \in Callers, Return(t)
  PROVE  KvInv'
<1> DEFINE c == call[t]
           as == Result(c.method, reply[t])
           locked == LockedBy(c, as)
<1>1. /\ Ends(t) /\ server' = server /\ workload' = workload /\ orphans' = orphans
      /\ net[t] = "answered"
      /\ session' = IF c.method = "create" /\ as = "ok"
                    THEN [session EXCEPT ![t] = reply[t].made[1]] ELSE session
      /\ holds' = [holds EXCEPT ![t] = @ \cup (locked \ fate[t].broken)]
  <2>1. locked = Locked(t, as)
    BY Zenon DEF Locked, LockedBy
  <2> HIDE DEF locked
  <2> QED
    BY <2>1, Zenon DEF Return
<1>2. \A k \in locked \ fate[t].broken :
        k \in Keys /\ session[t] # NoSession /\ SessionAt(server, k) = session[t]
  <2>1. net[t] # "none"
    BY <1>1
  <2>2. \A k \in LockedBy(c, as) : LocksFor(t, as, k)
    BY <2>1, LockedKeys, Zenon
  <2>3. \A k \in locked \ fate[t].broken : SessionAt(server, k) = session[t]
    BY <1>1, Zenon DEF KvInv, CallerOK, LockOK
  <2> HIDE DEF as
  <2> QED
    BY <2>2, <2>3 DEF LocksFor
<1>3. c.method = "create" => session[t] = NoSession
  BY <1>1 DEF KvInv, CallerOK, CallOK
<1> HIDE DEF locked
<1>4. /\ holds' \in [Callers -> SUBSET Keys]
      /\ holds'[t] = holds[t] \cup (locked \ fate[t].broken)
      /\ \A u \in Callers \ {t} : holds'[u] = holds[u]
  BY <1>1, <1>2 DEF KvInv, KvTypes
<1>5. HoldOK(t)
  BY DEF KvInv, CallerOK
<1>6. CASE c.method = "create" /\ as = "ok"
  <2>1. as = VoidResult(reply[t])
    BY <1>6 DEF Result
  <2>2. Success(reply[t].status)
    BY <1>6, <2>1 DEF VoidResult, StatusError
  <2>3. reply[t].made[1] \in server.named
    BY <1>1, <1>6, <2>2 DEF KvInv, CallerOK, CreatedOK
  <2>4. session' = [session EXCEPT ![t] = reply[t].made[1]]
    BY <1>1, <1>6
  <2>5. /\ session' \in [Callers -> server.named \cup {NoSession}]
        /\ \A u \in Callers \ {t} : session'[u] = session[u]
    BY <2>3, <2>4 DEF KvInv, KvTypes
  <2>6. holds'[t] = {}
    BY <1>2, <1>3, <1>4, <1>5, <1>6 DEF HoldOK
  <2>7. HoldOK(t)'
    BY <2>6 DEF HoldOK
  <2> QED
    BY <1>1, <1>4, <2>5, <2>7, EndKeeps DEF KvInv, LateOK
<1>7. CASE ~ (c.method = "create" /\ as = "ok")
  <2>1. session' = session
    BY <1>1, <1>7
  <2>2. HoldOK(t)'
    BY <1>1, <1>2, <1>4, <1>5, <2>1 DEF HoldOK
  <2>3. session' \in [Callers -> server.named \cup {NoSession}]
    BY <2>1 DEF KvInv, KvTypes
  <2> QED
    BY <1>1, <1>4, <2>1, <2>2, <2>3, EndKeeps DEF KvInv, LateOK
<1> QED
  BY <1>6, <1>7

-----------------------------------------------------------------------------
(* A method that asks for one operation is called.                         *)
LEMMA OneBegins ==
  ASSUME KvInv, NEW t \in Callers, NEW method, NEW op, NEW expect,
         Begin(t, method, <<op>>, expect), GoodCall(CallOf(method, <<op>>)),
         op.verb = "lock" => session[t] = op.session,
         method = "create" => session[t] = NoSession
  PROVE  KvInv'
<1> DEFINE ops == <<op>>
<1>1. DOMAIN ops = {1} /\ ops[1] = op
  BY 1 .. 1 = {1}
<1>2. Begin(t, method, ops, expect) /\ GoodCall(CallOf(method, ops))
  BY Zenon
<1> HIDE DEF ops
<1>3. \A n \in DOMAIN ops : ops[n].verb = "lock" => session[t] = ops[n].session
  BY <1>1
<1> QED
  BY <1>2, <1>3, BeginKeeps

(* Every operation of a transaction is one that the store knows.           *)
LEMMA OperationsGood ==
  ASSUME KvInv, NEW t \in Callers, NEW op \in Operations(t)
  PROVE  /\ GoodOp(op) /\ op.verb # "create"
         /\ op.verb = "lock" => session[t] = op.session
<1>1. workload \in Workloads /\ session[t] \in SessionIds \cup {NoSession}
  BY DEF KvInv, KvTypes, ServerTypes
<1>2. workload.keys \subseteq Keys /\ workload.prefixes \subseteq DOMAIN Under
  BY <1>1, KvAssumption
<1>3. PICK v, at, i, id, b :
        /\ op = Op(v, at, i, id, b)
        /\ \/ v \in KeyVerbs \ {"lock"} /\ at \in workload.keys
           \/ v \in TreeVerbs /\ at \in workload.prefixes
           \/ v = "lock" /\ at \in workload.keys /\ id = session[t] /\ session[t] # NoSession
  <2>0. {"set", "cas"} \subseteq KeyVerbs \ {"lock"}
    BY DEF KeyVerbs
  <2>1. CASE \E k \in workload.keys, b \in workload.bodies : op = Op("set", k, 0, NoSession, b)
    BY <2>0, <2>1, Zenon
  <2>2. CASE \E k \in workload.keys, b \in workload.bodies : op = Op("cas", k, IndexRead(t, k), NoSession, b)
    BY <2>0, <2>2, Zenon
  <2>3. CASE \E k \in workload.keys, v \in {"check-index", "delete-cas"} :
               op = Op(v, k, IndexRead(t, k), NoSession, Empty)
    BY <2>3, Zenon DEF KeyVerbs
  <2>4. CASE \E k \in workload.keys, v \in {"get", "check-not-exists", "delete"} :
               op = Op(v, k, 0, NoSession, Empty)
    BY <2>4, Zenon DEF KeyVerbs
  <2>5. CASE \E p \in workload.prefixes, v \in {"get-tree", "delete-tree"} : op = Op(v, p, 0, NoSession, Empty)
    BY <2>5, Zenon DEF TreeVerbs
  <2>6. CASE /\ session[t] # NoSession
             /\ \E k \in workload.keys, v \in {"lock", "unlock", "check-session"} :
                  op = Op(v, k, 0, session[t], Empty)
    BY <2>6, Zenon DEF KeyVerbs
  <2> QED
    BY <2>1, <2>2, <2>3, <2>4, <2>5, <2>6 DEF Operations
<1>4. /\ op.verb = v /\ op.at = at /\ op.session = id
      /\ op = Op(op.verb, op.at, op.index, op.session, op.body)
  BY <1>3, OpFields
<1> QED
  BY <1>1, <1>2, <1>3, <1>4 DEF GoodOp, KeyVerbs, TreeVerbs, OfSession

(* Every method keeps the invariant when it is called.                     *)
LEMMA InvokeKeeps ==
  ASSUME Undotted, Sessioned, KvInv, NEW t \in Callers, Invoke(t)
  PROVE  KvInv'
<1>1. /\ workload \in Workloads /\ session[t] \in SessionIds \cup {NoSession}
      /\ workload.keys \subseteq Keys /\ workload.prefixes \subseteq DOMAIN Under
  BY KvAssumption DEF KvInv, KvTypes, ServerTypes
<1>2. /\ \A k \in workload.keys : k \in Keys /\ k # "."
      /\ \A p \in workload.prefixes : p \in DOMAIN Under /\ p # "."
      /\ session[t] # NoSession => session[t] \in SessionIds /\ session[t] # "."
      /\ ~ workload.bare
  BY <1>1 DEF Undotted, Sessioned
<1>0. /\ \A verb \in {"get", "delete", "delete-cas", "set", "cas", "get-tree", "keys", "delete-tree"} : verb # "lock"
      /\ \A method \in {"item", "erase", "compareErase", "set", "compareSet", "items", "keys", "eraseAll", "lock"} :
           method # "create"
  OBVIOUS
<1>3. ASSUME NEW verb, NEW at, NEW i, NEW id, NEW b, NEW method, NEW expect,
             Begin(t, method, <<Op(verb, at, i, id, b)>>, expect),
             GoodCall(CallOf(method, <<Op(verb, at, i, id, b)>>)),
             verb = "lock" => session[t] = id,
             method = "create" => session[t] = NoSession
      PROVE  KvInv'
  <2> DEFINE op == Op(verb, at, i, id, b)
  <2>1. op.verb = verb /\ op.session = id
    BY OpFields
  <2>2. Begin(t, method, <<op>>, expect) /\ GoodCall(CallOf(method, <<op>>))
    BY <1>3, Zenon
  <2> HIDE DEF op
  <2> QED
    BY <1>0, <1>3, <2>1, <2>2, OneBegins
<1>4. ASSUME NEW k \in workload.keys, Item(t, k) \/ Erase(t, k) \/ CompareErase(t, k)
      PROVE  KvInv'
  <2>1. /\ GoodCall(CallOf("item", <<Op("get", k, 0, NoSession, Empty)>>))
        /\ GoodCall(CallOf("erase", <<Op("delete", k, 0, NoSession, Empty)>>))
        /\ GoodCall(CallOf("compareErase", <<Op("delete-cas", k, IndexRead(t, k), NoSession, Empty)>>))
    BY <1>2, KeyCalls, Zenon
  <2>2. CASE Item(t, k)
    BY <1>0, <1>3, <2>1, <2>2, Zenon DEF Item
  <2>3. CASE Erase(t, k)
    BY <1>0, <1>3, <2>1, <2>3, Zenon DEF Erase
  <2>4. CASE CompareErase(t, k)
    BY <1>0, <1>3, <2>1, <2>4, Zenon DEF CompareErase
  <2> QED
    BY <1>4, <2>2, <2>3, <2>4
<1>5. ASSUME NEW k \in workload.keys, NEW b,
             SetKey(t, k, b) \/ CompareSet(t, k, b) \/ Lock(t, k, b) \/ Unlock(t, k, b)
      PROVE  KvInv'
  <2>1. /\ GoodCall(CallOf("set", <<Op("set", k, 0, NoSession, b)>>))
        /\ GoodCall(CallOf("compareSet", <<Op("cas", k, IndexRead(t, k), NoSession, b)>>))
    BY <1>2, KeyCalls, Zenon
  <2>2. session[t] # NoSession =>
          /\ GoodCall(CallOf("lock", <<Op("lock", k, 0, session[t], b)>>))
          /\ GoodCall(CallOf("unlock", <<Op("unlock", k, 0, session[t], b)>>))
    BY <1>2, SessionCalls, Zenon
  <2>3. CASE SetKey(t, k, b)
    BY <1>0, <1>3, <2>1, <2>3, Zenon DEF SetKey
  <2>4. CASE CompareSet(t, k, b)
    BY <1>0, <1>3, <2>1, <2>4, Zenon DEF CompareSet
  <2>5. CASE Lock(t, k, b)
    BY <1>2, <1>3, <2>2, <2>5, Zenon DEF Lock
  <2>6. CASE Unlock(t, k, b)
    BY <1>2, <1>3, <2>2, <2>6, Zenon DEF Unlock
  <2> QED
    BY <1>5, <2>3, <2>4, <2>5, <2>6
<1>6. ASSUME NEW p \in workload.prefixes, Items(t, p) \/ KeysOf(t, p) \/ EraseAll(t, p)
      PROVE  KvInv'
  <2>1. /\ GoodCall(CallOf("items", <<Op("get-tree", p, 0, NoSession, Empty)>>))
        /\ GoodCall(CallOf("keys", <<Op("keys", p, 0, NoSession, Empty)>>))
        /\ GoodCall(CallOf("eraseAll", <<Op("delete-tree", p, 0, NoSession, Empty)>>))
    BY <1>2, TreeCalls, Zenon
  <2>2. CASE Items(t, p)
    BY <1>0, <1>3, <2>1, <2>2, Zenon DEF Items
  <2>3. CASE KeysOf(t, p)
    BY <1>0, <1>3, <2>1, <2>3, Zenon DEF KeysOf
  <2>4. CASE EraseAll(t, p)
    BY <1>0, <1>3, <2>1, <2>4, Zenon DEF EraseAll
  <2> QED
    BY <1>6, <2>2, <2>3, <2>4
<1>7. ASSUME NEW b, CreateSession(t, b)
      PROVE  KvInv'
  <2>1. GoodCall(CallOf("create", <<Op("create", Empty, 0, NoSession, b)>>))
    BY "a" # ".", LifeCalls, Zenon
  <2> QED
    BY <1>3, <1>7, <2>1, Zenon DEF CreateSession
<1>8. ASSUME Renew(t) \/ Destroy(t)
      PROVE  KvInv'
  <2>1. session[t] # NoSession =>
          /\ GoodCall(CallOf("renew", <<Op("renew", Empty, 0, session[t], Empty)>>))
          /\ GoodCall(CallOf("destroy", <<Op("destroy", Empty, 0, session[t], Empty)>>))
    BY <1>2, LifeCalls, Zenon
  <2>2. CASE Renew(t)
    BY <1>0, <1>3, <2>1, <2>2, Zenon DEF Renew
  <2>3. CASE Destroy(t)
    BY <1>0, <1>3, <2>1, <2>3, Zenon DEF Destroy
  <2> QED
    BY <1>8, <2>2, <2>3
<1>9. ASSUME NEW one \in Operations(t), NEW two \in Operations(t), Commit(t, one, two)
      PROVE  KvInv'
  <2> DEFINE ops == <<one, two>>
             expect == Relied(t, one) \cup IF Touches(one, two.at) THEN {} ELSE Relied(t, two)
  <2>1. /\ GoodOp(one) /\ one.verb # "create" /\ (one.verb = "lock" => session[t] = one.session)
        /\ GoodOp(two) /\ two.verb # "create" /\ (two.verb = "lock" => session[t] = two.session)
    BY OperationsGood
  <2>2. Begin(t, "commit", ops, expect)
    BY <1>9, Zenon DEF Commit
  <2>3. GoodCall(CallOf("commit", ops))
    BY <2>1, CommitCalls, Zenon
  <2>4. DOMAIN ops = {1, 2} /\ ops[1] = one /\ ops[2] = two
    BY 1 .. 2 = {1, 2}
  <2> HIDE DEF ops, expect
  <2>5. \A n \in DOMAIN ops : ops[n].verb = "lock" => session[t] = ops[n].session
    BY <2>1, <2>4
  <2> QED
    BY <2>2, <2>3, <2>5, BeginKeeps
<1> QED
  BY <1>4, <1>5, <1>6, <1>7, <1>8, <1>9, Zenon DEF Invoke

(* So does every other step.                                               *)
LEMMA KvStep ==
  ASSUME Undotted, Sessioned, KvInv, [Next]_vars
  PROVE  KvInv'
<1>1. ASSUME NEW t \in Callers,
             Invoke(t) \/ Process(t) \/ Reject(t) \/ Repeat(t) \/ GiveUp(t) \/ Return(t)
      PROVE  KvInv'
  BY <1>1, InvokeKeeps, ProcessKeeps, RejectKeeps, RepeatKeeps, GiveUpKeeps, ReturnKeeps, Zenon
<1>2. ASSUME NEW n \in DOMAIN orphans, ProcessOrphan(n)
      PROVE  KvInv'
  BY <1>2, OrphanKeeps, Zenon
<1>3. ASSUME NEW id, Expire(id)
      PROVE  KvInv'
  BY <1>3, ExpireKeeps, Zenon
<1>4. CASE UNCHANGED vars
  BY <1>4 DEF vars, callerVars, KvInv, KvTypes, CallerOK, FateOK, CallOK, CreatedOK, LockOK, HoldOK, LateOK
<1> QED
  BY <1>1, <1>2, <1>3, <1>4, Zenon DEF Next
-----------------------------------------------------------------------------
(***************************************************************************)
(* The inductive invariant: every call that is on its way, or late, is one *)
(* that the server reads as its method means it; a request without a body  *)
(* is processed twice at most, any other once; and what a successful call  *)
(* locked, and nobody has ended since it was sent, is locked at the server *)
(* when the call returns.                                                  *)
(***************************************************************************)
THEOREM KvInvariance ==
  ASSUME Undotted, Sessioned
  PROVE  Spec => []KvInv
<1>1. KvInv /\ [Next]_vars => KvInv'
  BY KvStep
<1> QED
  BY <1>1, KvInit, PTL DEF Spec

(***************************************************************************)
(* The types of the state, and the bound on how often a request is         *)
(* processed.                                                              *)
(***************************************************************************)
THEOREM KvTypeCorrect ==
  ASSUME Undotted, Sessioned
  PROVE  Spec => []TypeOK
<1>1. KvInv => TypeOK
  <2> SUFFICES ASSUME KvInv
               PROVE  TypeOK
    OBVIOUS
  <2>1. /\ \A k \in Keys : server.store[k].modify \in 0 .. server.index
        /\ \A k \in Keys : server.store[k].session \in DOMAIN server.sessions \cup {NoSession}
        /\ DOMAIN server.sessions \subseteq server.named /\ server.named \subseteq SessionIds
    BY DEF KvInv, KvTypes, ServerTypes
  <2>2. /\ net \in [Callers -> {"none", "sent", "answered"}]
        /\ \A t \in Callers : session[t] \in server.named \cup {NoSession} /\ holds[t] \subseteq Keys
    BY DEF KvInv, KvTypes
  <2>3. \A t \in Callers : fate[t].times \in 0 .. 2
    BY <2>2 DEF KvInv, CallerOK, FateOK
  <2> QED
    BY <2>1, <2>2, <2>3 DEF TypeOK
<1> QED
  BY <1>1, KvInvariance, PTL

(***************************************************************************)
(* A caller that lock() with a session or commit() told that it has locked *)
(* a key holds the key at the server, until it unlocks it, loses its       *)
(* session or someone erases the key, however many requests are lost, late *)
(* or repeated.                                                            *)
(***************************************************************************)
THEOREM LocksAreHeld ==
  ASSUME Undotted, Sessioned
  PROVE  Spec => []HeldAtServer
<1>1. KvInv => HeldAtServer
  BY DEF KvInv, CallerOK, HoldOK, HeldAtServer, SessionAt
<1> QED
  BY <1>1, KvInvariance, PTL

(***************************************************************************)
(* "Returns true if the lock is acquired": for callers that have sessions, *)
(* a key that lock() or a transaction has locked is locked.                *)
(***************************************************************************)
THEOREM LocksAreAcquired ==
  ASSUME Undotted, Sessioned
  PROVE  Spec => []LockAcquired
<1>1. KvInv => LockAcquired
  BY DEF KvInv, CallerOK, HoldOK, LockAcquired, SessionAt
<1> QED
  BY <1>1, KvInvariance, PTL

(***************************************************************************)
(* No two callers with sessions of their own think that they hold the same *)
(* key: the mutual exclusion that lock() is for.                           *)
(***************************************************************************)
OneHolder == \A t, u \in Callers : session[t] # session[u] => holds[t] \cap holds[u] = {}

(* Whoever calls, however many, and however often: lock() excludes.        *)
THEOREM LocksExclude ==
  ASSUME Undotted, Sessioned
  PROVE  Spec => []OneHolder
<1>1. KvInv => OneHolder
  BY DEF KvInv, CallerOK, HoldOK, OneHolder
<1> QED
  BY <1>1, KvInvariance, PTL

(***************************************************************************)
(* The server reads in every request on its way, late ones included, the   *)
(* operations that the caller of the method meant.                         *)
(***************************************************************************)
ReadAsMeant ==
  /\ \A t \in Callers : net[t] # "none" => ReadBack(call[t])
  /\ \A n \in DOMAIN orphans : ReadBack(orphans[n])

(* No method asks the server for anything but what it was called for.      *)
THEOREM AsTheCallerMeant ==
  ASSUME Undotted, Sessioned
  PROVE  Spec => []ReadAsMeant
<1>1. KvInv => ReadAsMeant
  BY DEF KvInv, CallerOK, CallOK, LateOK, Range, GoodCall, ReadAsMeant
<1> QED
  BY <1>1, KvInvariance, PTL
-----------------------------------------------------------------------------
(***************************************************************************)
(* No lost update.  An item that somebody has read is older than what the  *)
(* store has now, or that very item, or the key is gone: a store with the  *)
(* index of the item has the item.                                         *)
(***************************************************************************)
Old(s, k, item) ==
  /\ item.modify \in 0 .. s.index
  /\ item.modify = 0 => item = NoItem
  /\ s.store[k].modify = 0 \/ item.modify < s.store[k].modify \/ item = s.store[k]

(* What is not valid is no item at all.                                    *)
NoneIsNoItem(s) == \A k \in Keys : s.store[k].modify = 0 => s.store[k] = NoItem

(* What item() and items() are about to return.                            *)
ReplyOld(t) ==
  net[t] = "answered" /\ call[t].method \in {"item", "items"} =>
    \A n \in DOMAIN reply[t].made :
      reply[t].made[n][1] \in Keys => Old(server, reply[t].made[n][1], reply[t].made[n][2])

(* The operation takes effect only if the item e[2] is found at e[1].      *)
Based(op, e) ==
  /\ op.at = e[1]
  /\ \/ op.verb \in {"cas", "check-index"} /\ op.index = LoadUint64(e[2].modify)
     \/ op.verb = "check-not-exists" /\ e[2] = NoItem

ExpectOK(t) ==
  net[t] # "none" =>
    \A e \in fate[t].expect :
      /\ call[t].method \in {"compareSet", "commit"}
      /\ e[1] \in Keys /\ Old(server, e[1], e[2])
      /\ \/ Based(call[t].ops[1], e)
         \/ /\ call[t].method = "commit"
            /\ Based(call[t].ops[2], e)
            /\ ~ Touches(call[t].ops[1], e[1]) /\ call[t].ops[1].verb # "destroy"

(* The call that is about to return as a success found what it expected.   *)
FoundOK(t) ==
  net[t] = "answered" /\ Result(call[t].method, reply[t]) \in Yes =>
    \A e \in fate[t].expect : e[2].modify < Exact + 3 => fate[t].before[e[1]] = e[2]

(* item() and items() read.                                                *)
ReadOK(t) ==
  net[t] # "none" /\ call[t].method \in {"item", "items"} =>
    call[t].ops[1].verb \in {"get", "get-tree"}

ReaderOK(t) ==
  /\ \A k \in Keys : Old(server, k, known[t][k])
  /\ ReadOK(t) /\ ReplyOld(t) /\ ExpectOK(t) /\ FoundOK(t)

UpdateInv ==
  /\ NoneIsNoItem(server)
  /\ DOMAIN known = Callers /\ DOMAIN result = Callers
  /\ \A t \in Callers : ReaderOK(t)
(***************************************************************************)
(* What the prover does not know of the powers of two.                     *)
(***************************************************************************)
PowersOfTwo ==
  /\ 2 ^ 0 = 1
  /\ \A n \in Nat : 2 ^ n \in Nat \ {0} /\ 2 ^ (n + 1) = 2 * 2 ^ n

(* From 4 on they are divisible by 4.                                      *)
LEMMA FoursOfTwo ==
  ASSUME PowersOfTwo, NEW n \in Nat, n >= 2
  PROVE  2 ^ (n - 2) \in Nat \ {0} /\ 2 ^ n = 4 * 2 ^ (n - 2)
<1> DEFINE p == n - 2
<1>1. p \in Nat /\ p + 1 \in Nat /\ (p + 1) + 1 = n
  OBVIOUS
<1>2. /\ 2 ^ p \in Nat \ {0} /\ 2 ^ (p + 1) = 2 * 2 ^ p
      /\ 2 ^ (p + 1) \in Nat \ {0} /\ 2 ^ ((p + 1) + 1) = 2 * 2 ^ (p + 1)
  BY <1>1 DEF PowersOfTwo
<1>3. 2 ^ n = 2 * 2 ^ (p + 1)
  BY <1>1, <1>2
<1> HIDE DEF p
<1> QED
  BY <1>2, <1>3 DEF p

(* Four times and more.                                                    *)
LEMMA FourTimes ==
  ASSUME NEW a \in Nat \ {0}, NEW p \in Nat \ {0}
  PROVE  4 * a <= a * (4 * p)
<1>1. a * (4 * p) = 4 * (a * p) /\ a * p \in Nat
  OBVIOUS
<1>2. a * p = a * (p - 1) + a /\ a * (p - 1) \in Nat
  OBVIOUS
<1> QED
  BY <1>1, <1>2

(* Up to the first index that a double rounds up, none is rounded up.      *)
LEMMA DoubleOfSmall ==
  ASSUME PowersOfTwo, NEW m \in Nat, m < Exact + 3
  PROVE  Double(m) \in 0 .. m /\ (m > 0 => Double(m) > 0)
<1> DEFINE q == 2 ^ (Precision - 2)
<1>1. q \in Nat \ {0} /\ Exact = 4 * q
  BY NumbersAssumption, FoursOfTwo DEF Exact
<1> HIDE DEF q
<1>2. CASE m <= Exact
  BY <1>1, <1>2 DEF Double
<1>3. CASE m > Exact
  <2> DEFINE Fits(e) == Exact * 2 ^ e <= 2 * m /\ m < Exact * 2 ^ e
             E == CHOOSE e \in 0 .. m : Fits(e)
             ulp == Ulp(m)
             below == m \div ulp
             half == 2 * (m % ulp)
  <2>1. 2 ^ 1 = 2 /\ 2 ^ 0 = 1
    <3>1. 0 \in Nat /\ 0 + 1 = 1
      OBVIOUS
    <3> QED
      BY <3>1 DEF PowersOfTwo
  <2>2. Fits(1) /\ 1 \in 0 .. m
    BY <1>1, <1>3, <2>1
  <2>3. E \in 0 .. m /\ Fits(E)
    <3> HIDE DEF Fits
    <3> QED
      BY <2>2
  <2>4. ASSUME NEW e \in 0 .. m, Fits(e)
        PROVE  e = 1
    <3> DEFINE power == 2 ^ e
    <3>0. e \in Nat /\ Exact * power <= 2 * m /\ m < Exact * power
      BY <2>4
    <3> HIDE DEF Fits
    <3>1. e # 0
      <4>1. ASSUME e = 0
            PROVE  power = 1
        BY <2>1, <4>1
      <4> HIDE DEF power
      <4> QED
        BY <1>1, <1>3, <3>0, <4>1
    <3>2. ASSUME e >= 2
          PROVE  FALSE
      <4> DEFINE p == 2 ^ (e - 2)
      <4>1. p \in Nat \ {0} /\ power = 4 * p
        BY <3>0, <3>2, FoursOfTwo
      <4> HIDE DEF p, power
      <4>2. Exact * (4 * p) <= 2 * m
        BY <3>0, <4>1
      <4>3. Exact \in Nat \ {0}
        BY <1>1
      <4>4. 4 * Exact <= Exact * (4 * p)
        BY <4>1, <4>3, FourTimes
      <4>5. 4 * Exact <= 2 * m
        <5> DEFINE x == Exact * (4 * p)
        <5>1. x \in Nat
          BY <4>1, <4>3
        <5> HIDE DEF x
        <5>2. x <= 2 * m /\ 4 * Exact <= x
          BY <4>2, <4>4 DEF x
        <5> QED
          BY <4>3, <5>1, <5>2
      <4> QED
        BY <1>1, <4>5
    <3> QED
      BY <3>1, <3>2
  <2>5. ulp = 2
    <3>1. E = 1
      BY <2>3, <2>4
    <3>2. ulp = 2 ^ E
      BY Zenon DEF Ulp
    <3> QED
      BY <2>1, <3>1, <3>2
  <2>6. Double(m) = ulp * (IF half < ulp \/ (half = ulp /\ below % 2 = 0) THEN below ELSE below + 1)
    BY <1>1, <1>3 DEF Double
  <2> HIDE DEF ulp
  <2>7. m = Exact + 1 \/ m = Exact + 2
    BY <1>1, <1>3
  <2>8. CASE m = Exact + 1
    <3>1. below = 2 * q /\ half = 2 /\ below % 2 = 0
      BY <1>1, <2>5, <2>8
    <3> QED
      BY <1>1, <2>5, <2>6, <2>8, <3>1
  <2>9. CASE m = Exact + 2
    <3>1. below = 2 * q + 1 /\ half = 0
      BY <1>1, <2>5, <2>9
    <3> QED
      BY <1>1, <2>5, <2>6, <2>9, <3>1
  <2> QED
    BY <2>7, <2>8, <2>9
<1> QED
  BY <1>1, <1>2, <1>3
(***************************************************************************)
(* What an operation at index i does to an item: it leaves it, erases it   *)
(* or gives it that index; and it leaves those that it does not touch.     *)
(***************************************************************************)
Moved(s, n, i, k) ==
  n.store[k] = s.store[k] \/ n.store[k] = NoItem \/ n.store[k].modify = i

(* A write.                                                                *)
LEMMA WriteMoves ==
  ASSUME NEW s, ServerTypes(s), NEW at, NEW v, NEW owner, NEW i, NEW k \in Keys
  PROVE  LET n == Write(s, at, v, owner, i).server
         IN  Moved(s, n, i, k) /\ (k # at => n.store[k] = s.store[k])
<1> DEFINE item == [modify |-> i, value |-> v, session |-> owner]
           n == [s EXCEPT !.index = i, !.store[at] = item]
           o == Write(s, at, v, owner, i)
<1>1. o = Outcome(n, "yes", <<<<at, item>>>>)
  BY Zenon DEF Write
<1>2. o.server = n
  BY <1>1, OutcomeFields
<1>3. item.modify = i
  OBVIOUS
<1> HIDE DEF item, o
<1>4. n.store = [s.store EXCEPT ![at] = item]
  BY DEF ServerTypes
<1> HIDE DEF n
<1>5. n.store[k] = IF k = at THEN item ELSE s.store[k]
  BY <1>4 DEF ServerTypes
<1> QED
  BY <1>2, <1>3, <1>5 DEF Moved, o

(* A deletion.                                                             *)
LEMMA DeletedMoves ==
  ASSUME NEW s, ServerTypes(s), NEW ks, NEW i, NEW k \in Keys
  PROVE  LET n == Deleted(s, ks, i).server
         IN  Moved(s, n, i, k) /\ (k \notin ks => n.store[k] = s.store[k])
<1> DEFINE store == [l \in Keys |-> IF l \in ks THEN NoItem ELSE s.store[l]]
           n == [s EXCEPT !.index = i, !.store = store]
           o == Deleted(s, ks, i)
<1>1. o = Outcome(n, "yes", <<>>)
  BY DEF Deleted, ServerTypes
<1>2. o.server = n
  BY <1>1, OutcomeFields
<1>3. store[k] = IF k \in ks THEN NoItem ELSE s.store[k]
  OBVIOUS
<1> HIDE DEF store, o
<1>4. n.store = store
  BY DEF ServerTypes
<1> HIDE DEF n
<1> QED
  BY <1>2, <1>3, <1>4 DEF Moved, o

(* The end of a session.                                                   *)
LEMMA InvalidateMoves ==
  ASSUME NEW s, ServerTypes(s), NEW id, NEW i, NEW k \in Keys
  PROVE  Moved(s, Invalidate(s, id, i), i, k)
<1> DEFINE held == {l \in Keys : s.store[l].session = id}
           rest == [x \in DOMAIN s.sessions \ {id} |-> s.sessions[x]]
           store == [l \in Keys |-> IF l \notin held THEN s.store[l]
                                    ELSE IF s.sessions[id] = "delete" THEN NoItem
                                    ELSE [s.store[l] EXCEPT !.session = NoSession, !.modify = i]]
           freed == [s.store[k] EXCEPT !.session = NoSession, !.modify = i]
           n == Invalidate(s, id, i)
<1>1. n = [s EXCEPT !.index = i, !.sessions = rest, !.store = store]
  BY DEF Invalidate, ServerTypes
<1>2. freed.modify = i
  BY DEF ServerTypes
<1>3. store[k] \in {s.store[k], NoItem, freed}
  OBVIOUS
<1> HIDE DEF store, rest, freed, n
<1>4. n.store = store
  BY <1>1 DEF ServerTypes
<1> QED
  BY <1>2, <1>3, <1>4 DEF Moved, n

(* Any operation.                                                          *)
LEMMA StepMoves ==
  ASSUME NEW s, ServerTypes(s), NEW op, GoodOp(op), op.verb # "create", NEW i, NEW k \in Keys
  PROVE  LET n == Step(s, op, i).server
         IN  /\ Moved(s, n, i, k)
             /\ ~ Touches(op, k) /\ op.verb # "destroy" => n.store[k] = s.store[k]
<1> DEFINE o == Step(s, op, i)
           at == op.at
<1>1. CASE o.server = s
  BY <1>1 DEF Moved
<1>2. ASSUME o.server # s
      PROVE  o # Refuse(s) /\ o # Outcome(s, "error", <<>>) /\ o # Outcome(s, "yes", <<>>)
  <2>1. /\ Refuse(s).server = s
        /\ Outcome(s, "error", <<>>).server = s /\ Outcome(s, "yes", <<>>).server = s
    BY RefuseFields, OutcomeFields
  <2> HIDE DEF o
  <2> QED
    BY <1>2, <2>1
<1>3. CASE op.verb \in {"set", "cas", "lock", "unlock"} /\ o.server # s
  <2>1. \E owner : o = Write(s, at, op.body, owner, i)
    <3>1. CASE op.verb = "set"
      BY <3>1 DEF Step
    <3>2. CASE op.verb = "cas"
      BY <1>2, <1>3, <3>2 DEF Step
    <3>3. CASE op.verb = "lock"
      BY <1>2, <1>3, <3>3 DEF Step
    <3>4. CASE op.verb = "unlock"
      BY <1>2, <1>3, <3>4 DEF Step
    <3> QED
      BY <1>3, <3>1, <3>2, <3>3, <3>4
  <2>2. PICK owner : o = Write(s, at, op.body, owner, i)
    BY <2>1
  <2> HIDE DEF o
  <2> QED
    BY <2>2, WriteMoves DEF o, Touches
<1>4. CASE op.verb \in {"delete", "delete-cas"} /\ o.server # s
  <2>1. o = Deleted(s, {at}, i)
    <3>1. CASE op.verb = "delete"
      BY <3>1 DEF Step
    <3>2. CASE op.verb = "delete-cas"
      BY <1>2, <1>4, <3>2 DEF Step
    <3> QED
      BY <1>4, <3>1, <3>2
  <2> HIDE DEF o
  <2> QED
    BY <2>1, DeletedMoves DEF o, Touches
<1>5. CASE op.verb = "delete-tree"
  <2>1. o = Deleted(s, Under[at], i)
    BY <1>5 DEF Step
  <2> HIDE DEF o
  <2> QED
    BY <1>5, <2>1, DeletedMoves DEF o, Touches
<1>6. ASSUME op.verb \in {"get", "get-tree", "keys", "check-index", "check-session",
                          "check-not-exists", "renew"}
      PROVE  o.server = s
  <2>1. o \in {Read(s, {at}), Read(s, Under[at]), KeysOnly(Read(s, Under[at])),
               Outcome(s, "yes", <<>>), Refuse(s)}
    BY <1>6 DEF Step
  <2> HIDE DEF o
  <2> QED
    BY <2>1, ReadLeaves, OutcomeFields, RefuseFields
<1>7. CASE op.verb = "destroy"
  <2> DEFINE n == IF op.session \in DOMAIN s.sessions THEN Invalidate(s, op.session, i) ELSE s
  <2>1. o = Outcome(n, "yes", <<>>)
    BY <1>7 DEF Step
  <2>2. o.server = n
    BY <2>1, OutcomeFields
  <2>3. Moved(s, n, i, k)
    BY InvalidateMoves DEF Moved
  <2> HIDE DEF o, n
  <2> QED
    BY <1>7, <2>2, <2>3 DEF o
<1> HIDE DEF o
<1>8. op.verb \in {"set", "cas", "lock", "unlock", "delete", "delete-cas", "delete-tree", "destroy",
                   "get", "get-tree", "keys", "check-index", "check-session", "check-not-exists",
                   "renew"}
  BY DEF GoodOp, KeyVerbs, TreeVerbs, OfSession
<1> QED
  BY <1>1, <1>3, <1>4, <1>5, <1>6, <1>7, <1>8 DEF o

(* What a yes says that the store had.                                     *)
Finds(s, op) ==
  /\ op.verb = "cas" => s.store[op.at].modify = op.index
  /\ op.verb = "check-index" => s.store[op.at].modify = op.index /\ op.index # 0
  /\ op.verb = "check-not-exists" => s.store[op.at].modify = 0

(* An operation that takes effect has found it.                            *)
LEMMA StepFinds ==
  ASSUME NEW s, NEW op, NEW i, Step(s, op, i).says = "yes"
  PROVE  Finds(s, op)
<1> DEFINE o == Step(s, op, i)
<1>1. o # Refuse(s)
  <2> HIDE DEF o
  <2> QED
    BY RefuseFields DEF o
<1>2. CASE op.verb = "cas"
  BY <1>1, <1>2 DEF Step, Finds
<1>3. CASE op.verb = "check-index"
  BY <1>1, <1>3 DEF Step, Valid, Finds
<1>4. CASE op.verb = "check-not-exists"
  BY <1>1, <1>4 DEF Step, Valid, Finds
<1> QED
  BY <1>2, <1>3, <1>4 DEF Finds

(* One more operation of a transaction that has been well so far.          *)
LEMMA AfterMoves ==
  ASSUME NEW s, ServerTypes(s), NEW r, Leaves(s, s.index + 1, r), r.says = "yes",
         NEW op, GoodOp(op), op.verb # "create",
         After(s, r, op).says = "yes"
  PROVE  LET a == After(s, r, op)
         IN  /\ Finds(r.server, op)
             /\ \A k \in Keys :
                  /\ Moved(r.server, a.server, s.index + 1, k)
                  /\ ~ Touches(op, k) /\ op.verb # "destroy" => a.server.store[k] = r.server.store[k]
<1> DEFINE i == s.index + 1
           o == Step(r.server, op, i)
           a == After(s, r, op)
           made == r.made \o o.made
<1>1. ServerTypes(r.server) /\ i \in Nat /\ r.server.index <= i
  BY DEF Leaves, ServerTypes
<1>2. Leaves(r.server, i, o)
  BY <1>1, StepLeaves
<1>3. a = IF o.says = "yes" THEN [o EXCEPT !.made = made] ELSE Outcome(s, o.says, <<>>)
  BY <1>2 DEF After, Leaves, IsOutcome
<1>4. \A k \in Keys :
        /\ Moved(r.server, o.server, i, k)
        /\ ~ Touches(op, k) /\ op.verb # "destroy" => o.server.store[k] = r.server.store[k]
  BY <1>1, StepMoves
<1> HIDE DEF o, made, a
<1>5. o.says = "yes"
  BY <1>3, OutcomeFields DEF a
<1>6. a.server = o.server
  BY <1>2, <1>3, <1>5 DEF Leaves, IsOutcome
<1>7. Finds(r.server, op)
  BY <1>5, StepFinds DEF o
<1> QED
  BY <1>4, <1>6, <1>7 DEF a

(***************************************************************************)
(* One operation, or a transaction of two: the store moves to one index,   *)
(* and both operations have found what they ask for, the second one if the *)
(* first does not touch it.                                                *)
(***************************************************************************)
BothFind(s, ops) ==
  /\ Finds(s, ops[1])
  /\ /\ ops = <<ops[1], ops[2]>> /\ ops[2].at \in Keys
     /\ ~ Touches(ops[1], ops[2].at) /\ ops[1].verb # "destroy"
     => Finds(s, ops[2])

(* So does what the server makes of them.                                  *)
LEMMA TogetherMoves ==
  ASSUME NEW s, ServerTypes(s), NEW ops, GoodOps(ops), ops[1].verb # "create"
  PROVE  LET o == Together(s, ops)
         IN  /\ \A k \in Keys : Moved(s, o.server, s.index + 1, k)
             /\ o.says = "yes" => BothFind(s, ops)
<1> DEFINE i == s.index + 1
           r0 == Outcome(s, "yes", <<>>)
           one == ops[1]
           two == ops[2]
           r1 == After(s, r0, one)
           r2 == After(s, r1, two)
           o == Together(s, ops)
<1>1. IsOutcome(r0) /\ r0.server = s /\ r0.says = "yes"
  BY OutcomeFields
<1>2. Leaves(s, i, r0)
  BY <1>1, SameLeaves
<1>3. GoodOp(one) /\ one.verb # "create"
  BY DEF GoodOps
<1>4. Leaves(s, i, r1)
  BY <1>1, <1>2, <1>3, AfterLeaves
<1>5. r1.says = "yes" =>
        /\ Finds(s, one)
        /\ \A k \in Keys :
             /\ Moved(s, r1.server, i, k)
             /\ ~ Touches(one, k) /\ one.verb # "destroy" => r1.server.store[k] = s.store[k]
  BY <1>1, <1>2, <1>3, AfterMoves
<1>6. \A k \in Keys : Moved(s, s, i, k)
  BY DEF Moved
<1>7. \A k \in Keys : Moved(s, r1.server, i, k)
  BY <1>4, <1>5, <1>6 DEF Leaves
<1>8. CASE ops = <<one>>
  <2>1. o = r1
    BY <1>8, TogetherIs, Zenon
  <2>2. ops # <<one, two>>
    <3>1. Len(<<one, two>>) = 2 /\ Len(<<one>>) = 1
      OBVIOUS
    <3> HIDE DEF one, two
    <3> QED
      BY <1>8, <3>1
  <2> HIDE DEF o, r1
  <2> QED
    BY <1>5, <1>7, <2>1, <2>2 DEF BothFind, o
<1>9. CASE ops = <<one, two>> /\ GoodOp(two) /\ two.verb # "create"
  <2>1. o = r2
    <3>1. Together(s, <<one, two>>) = r2
      <4> HIDE DEF one, two
      <4> QED
        BY TogetherIs, Zenon
    <3> HIDE DEF r2, one, two
    <3> QED
      BY <1>9, <3>1
  <2> HIDE DEF r1
  <2>2. CASE r1.says # "yes"
    <3>1. r2 = r1
      BY <2>2 DEF After
    <3> HIDE DEF o, r2
    <3> QED
      BY <1>7, <2>1, <2>2, <3>1 DEF o
  <2>3. CASE r1.says = "yes"
    <3>1. Leaves(s, i, r2)
      BY <1>4, <1>9, <2>3, AfterLeaves
    <3>2. r2.says = "yes" => Finds(r1.server, two) /\ \A k \in Keys : Moved(r1.server, r2.server, i, k)
      BY <1>4, <1>9, <2>3, AfterMoves
    <3> HIDE DEF r2
    <3>3. \A k \in Keys : Moved(s, r2.server, i, k)
      BY <1>6, <1>7, <3>1, <3>2 DEF Leaves, Moved
    <3>4. ASSUME two.at \in Keys, ~ Touches(one, two.at), one.verb # "destroy", r2.says = "yes"
          PROVE  Finds(s, two)
      BY <1>5, <2>3, <3>2, <3>4 DEF Finds
    <3> HIDE DEF o
    <3> QED
      BY <1>5, <2>1, <2>3, <3>3, <3>4 DEF BothFind, o
  <2> QED
    BY <2>2, <2>3
<1> QED
  BY <1>8, <1>9 DEF GoodOps

(* The store after any call, and what a call finds that takes effect.      *)
LEMMA CallMoves ==
  ASSUME NEW s, ServerTypes(s), NEW c, GoodCall(c), NEW o \in Outcomes(s, Decode(c.request))
  PROVE  /\ s.index <= o.server.index
         /\ \A k \in Keys : Moved(s, o.server, s.index + 1, k)
         /\ o.says = "yes" /\ c.method # "create" => BothFind(s, Decode(c.request))
<1> DEFINE ops == c.ops
           read == Decode(c.request)
<1>1. GoodOps(ops)
  BY DEF GoodCall
<1>2. CASE c.method = "create"
  <2>1. read = ops /\ ops = <<ops[1]>> /\ ops[1].verb = "create"
    BY <1>2 DEF GoodCall, ReadBack
  <2>2. ops # <<>>
    <3> DEFINE one == ops[1]
    <3>1. ops = <<one>>
      BY <2>1
    <3> HIDE DEF one, ops
    <3> QED
      BY <3>1
  <2>3. PICK id \in SessionIds : o = NewSession(s, ops[1].body, id)
    <3> HIDE DEF ops, read
    <3> QED
      BY <2>1, <2>2 DEF Outcomes, read
  <2> DEFINE sessions == [x \in DOMAIN s.sessions \cup {id} |->
                            IF x = id THEN ops[1].body ELSE s.sessions[x]]
             n == [s EXCEPT !.index = s.index + 1, !.named = s.named \cup {id}, !.sessions = sessions]
  <2>4. o = Outcome(n, "yes", <<id>>)
    BY <2>3 DEF NewSession, ServerTypes
  <2>5. o.server = n
    BY <2>4, OutcomeFields
  <2> HIDE DEF sessions
  <2>6. n.store = s.store /\ n.index = s.index + 1
    BY DEF ServerTypes
  <2> HIDE DEF n
  <2> QED
    BY <1>2, <2>5, <2>6 DEF Moved, ServerTypes
<1>3. c.method # "create" => GoodOps(read) /\ read[1].verb # "create"
  <2>1. CASE c.method # "create" /\ c.method # "commit"
    BY <1>1, <2>1 DEF GoodCall, ReadBack
  <2>2. CASE c.method = "commit"
    <3> DEFINE one == ops[1]
               two == ops[2]
               p == TxnOp(one)
               q == TxnOp(two)
    <3>1. read = <<p, q>> /\ ops = <<one, two>>
      BY <2>2 DEF GoodCall, ReadBack
    <3>2. GoodOp(one) /\ one.verb # "create" /\ GoodOp(two) /\ two.verb # "create"
      <4>1. ops # <<one>>
        <5>1. Len(<<one, two>>) = 2 /\ Len(<<one>>) = 1
          OBVIOUS
        <5> HIDE DEF one, two, ops
        <5> QED
          BY <3>1, <5>1
      <4> QED
        BY <1>1, <4>1 DEF GoodOps
    <3>3. /\ GoodOp(p) /\ p.verb = one.verb
          /\ GoodOp(q) /\ q.verb = two.verb
      BY <3>2, TxnOpSame
    <3> HIDE DEF one, two, p, q, ops, read
    <3>4. read[1] = p /\ read[2] = q /\ read = <<read[1], read[2]>>
      BY <3>1
    <3> QED
      BY <3>2, <3>3, <3>4 DEF GoodOps
  <2> QED
    BY <2>1, <2>2
<1>4. CASE c.method # "create"
  <2>1. o = Together(s, read)
    <3> HIDE DEF read
    <3> QED
      BY <1>3, <1>4 DEF Outcomes, read
  <2>2. Leaves(s, s.index + 1, o)
    BY <1>3, <1>4, <2>1, TogetherLeaves
  <2>3. /\ \A k \in Keys : Moved(s, o.server, s.index + 1, k)
        /\ o.says = "yes" => BothFind(s, read)
    BY <1>3, <1>4, <2>1, TogetherMoves
  <2>4. s.index <= o.server.index
    BY <2>2 DEF Leaves, ServerTypes
  <2> QED
    BY <2>3, <2>4
<1> QED
  BY <1>2, <1>4

-----------------------------------------------------------------------------
(* No item is older than any.                                              *)
LEMMA NoItemOld ==
  ASSUME NEW s, ServerTypes(s), NEW k \in Keys
  PROVE  Old(s, k, NoItem)
<1>1. NoItem.modify = 0
  BY DEF NoItem
<1>2. s.index \in Nat /\ s.store[k].modify \in Nat
  BY DEF ServerTypes
<1> QED
  BY <1>1, <1>2 DEF Old

(* What was old stays old, and what is not valid is no item.               *)
LEMMA OldStays ==
  ASSUME NEW s, ServerTypes(s), NEW n, ServerTypes(n), s.index <= n.index,
         \A k \in Keys : Moved(s, n, s.index + 1, k)
  PROVE  /\ \A k \in Keys : \A item : Old(s, k, item) => Old(n, k, item)
         /\ NoneIsNoItem(s) => NoneIsNoItem(n)
<1>1. NoItem.modify = 0 /\ s.index \in Nat /\ n.index \in Nat
  BY DEF NoItem, ServerTypes
<1>2. ASSUME NEW k \in Keys, NEW item, Old(s, k, item)
      PROVE  Old(n, k, item)
  <2>1. Moved(s, n, s.index + 1, k)
    OBVIOUS
  <2>2. s.store[k].modify \in 0 .. s.index /\ n.store[k].modify \in 0 .. n.index
    BY DEF ServerTypes
  <2> QED
    BY <1>1, <1>2, <2>1, <2>2 DEF Old, Moved
<1>3. ASSUME NoneIsNoItem(s), NEW k \in Keys, n.store[k].modify = 0
      PROVE  n.store[k] = NoItem
  <2>1. Moved(s, n, s.index + 1, k)
    OBVIOUS
  <2> QED
    BY <1>1, <1>3, <2>1 DEF Moved, NoneIsNoItem
<1> QED
  BY <1>2, <1>3 DEF NoneIsNoItem

(***************************************************************************)
(* An index that was rounded, once or twice, is found only at the item it  *)
(* was read of: those that came after it have greater ones.                *)
(***************************************************************************)
LEMMA FoundIsExpected ==
  ASSUME PowersOfTwo, NEW s, ServerTypes(s), NoneIsNoItem(s), NEW e, e[1] \in Keys,
         Old(s, e[1], e[2]), e[2].modify < Exact + 3,
         NEW op, Based(op, e),
         NEW p, p.verb = op.verb, p.at = op.at, p.index \in {op.index, DumpDouble(op.index)},
         Finds(s, p)
  PROVE  s.store[e[1]] = e[2]
<1> DEFINE k == e[1]
           item == e[2]
           m == item.modify
           d == Double(m)
           now == s.store[k].modify
<1>1. m \in Nat /\ s.index \in Nat /\ now \in Nat
  BY DEF Old, ServerTypes
<1>2. /\ now = 0 => s.store[k] = NoItem
      /\ m = 0 => item = NoItem
      /\ now = 0 \/ m < now \/ item = s.store[k]
  BY DEF NoneIsNoItem, Old
<1>3. CASE op.verb = "check-not-exists"
  BY <1>2, <1>3 DEF Based, Finds
<1>4. CASE op.verb \in {"cas", "check-index"} /\ op.index = LoadUint64(m)
  <2>1. d \in 0 .. m /\ (m > 0 => d > 0)
    BY <1>1, DoubleOfSmall
  <2>2. Double(d) \in 0 .. d /\ (d > 0 => Double(d) > 0)
    <3>1. d \in Nat /\ d < Exact + 3
      <4>1. Exact \in Nat
        BY NumbersAssumption, FoursOfTwo DEF Exact
      <4> HIDE DEF d, m
      <4> QED
        BY <1>1, <2>1, <4>1 DEF m
    <3> QED
      BY <3>1, DoubleOfSmall
  <2>3. p.index \in {d, Double(d)}
    BY <1>4 DEF LoadUint64, DumpDouble
  <2>4. now = p.index
    BY <1>4 DEF Finds, Based
  <2> HIDE DEF d, m, now
  <2>5. now <= m /\ (now = 0 => m = 0)
    BY <1>1, <2>1, <2>2, <2>3, <2>4
  <2> QED
    BY <1>1, <1>2, <2>5
<1> QED
  BY <1>3, <1>4 DEF Based

-----------------------------------------------------------------------------
(* The items that a read finds are those of the store.                     *)
Told(s, made) ==
  \A n \in DOMAIN made : made[n][1] \in Keys => made[n][2] = s.store[made[n][1]]

(* The keys of a read are in some order.                                   *)
LEMMA SetToSeqIs ==
  ASSUME NEW S, IsFiniteSet(S)
  PROVE  SetToSeq(S) \in [1 .. Cardinality(S) -> S] /\ Cardinality(S) \in Nat
<1>1. Cardinality(S) \in Nat /\ ExistsBijection(1 .. Cardinality(S), S)
  BY FS_CardinalityType
<1>2. \E f \in [1 .. Cardinality(S) -> S] : IsInjective(f)
  <2>1. PICK f \in Bijection(1 .. Cardinality(S), S) : TRUE
    BY <1>1 DEF ExistsBijection
  <2>2. f \in Injection(1 .. Cardinality(S), S)
    BY <2>1 DEF Bijection
  <2> QED
    BY <2>2 DEF Injection, IsInjective
<1> QED
  BY <1>1, <1>2 DEF SetToSeq

(* A read.                                                                 *)
LEMMA ReadTold ==
  ASSUME NEW s, NEW ks, ks \subseteq Keys
  PROVE  LET made == Read(s, ks).made
         IN  Told(s, made) /\ made \in Seq(Keys \X {s.store[k] : k \in Keys})
<1> DEFINE S == {k \in ks : Valid(s.store[k])}
           there == SetToSeq(S)
           made == [n \in DOMAIN there |-> <<there[n], s.store[there[n]]>>]
           o == Read(s, ks)
<1>1. o = Outcome(s, "yes", made)
  BY Zenon DEF Read
<1>2. o.made = made
  <2> HIDE DEF made, o
  <2> QED
    BY <1>1, OutcomeFields
<1>3. IsFiniteSet(S)
  BY StoreAssumption, FS_Subset
<1>4. there \in [1 .. Cardinality(S) -> S] /\ Cardinality(S) \in Nat
  <2> HIDE DEF S
  <2> QED
    BY <1>3, SetToSeqIs
<1>5. \A n \in DOMAIN there : there[n] \in Keys
  BY <1>4
<1> HIDE DEF there, S
<1>6. made \in [1 .. Cardinality(S) -> Keys \X {s.store[k] : k \in Keys}]
  BY <1>4, <1>5
<1>7. made \in Seq(Keys \X {s.store[k] : k \in Keys})
  <2> HIDE DEF made
  <2> QED
    BY <1>4, <1>6
<1>8. Told(s, made)
  BY DEF Told
<1> QED
  BY <1>2, <1>7, <1>8 DEF o

(* What item() and items() are told.                                       *)
LEMMA CallTold ==
  ASSUME NEW s, ServerTypes(s), NEW c, GoodCall(c), c.method \in {"item", "items"},
         c.ops[1].verb \in {"get", "get-tree"}, NEW o \in Outcomes(s, Decode(c.request))
  PROVE  Told(s, o.made)
<1> DEFINE op == c.ops[1]
           read == Decode(c.request)
           r0 == Outcome(s, "yes", <<>>)
           i == s.index + 1
           p == Step(s, op, i)
           made == r0.made \o p.made
<1>1. GoodOp(op) /\ read = <<op>>
  BY DEF GoodCall, GoodOps, ReadBack
<1>2. o = After(s, r0, op)
  <2>1. read # <<>> /\ read[1] = op
    <3> HIDE DEF read, op
    <3> QED
      BY <1>1
  <2>2. o = Together(s, read)
    <3> HIDE DEF read
    <3> QED
      BY <2>1 DEF Outcomes, read
  <2>3. o = Together(s, <<op>>)
    BY <1>1, <2>2
  <2> QED
    BY <2>3, TogetherIs, Zenon
<1>3. r0.server = s /\ r0.says = "yes" /\ r0.made = <<>>
  BY OutcomeFields
<1>4. IsOutcome(p)
  <2>1. i \in Nat /\ s.index <= i
    BY DEF ServerTypes
  <2> QED
    BY <1>1, <2>1, StepLeaves DEF Leaves
<1> HIDE DEF r0
<1>5. o = IF p.says = "yes" THEN [p EXCEPT !.made = made] ELSE Outcome(s, p.says, <<>>)
  BY <1>2, <1>3, <1>4 DEF After, IsOutcome
<1>6. CASE p.says # "yes"
  <2>1. o.made = <<>>
    <3> HIDE DEF p
    <3> QED
      BY <1>5, <1>6, OutcomeFields
  <2>2. DOMAIN <<>> = {}
    OBVIOUS
  <2> QED
    BY <2>1, <2>2 DEF Told
<1>7. CASE p.says = "yes"
  <2>1. o.made = made
    <3> HIDE DEF made, p
    <3> QED
      BY <1>4, <1>5, <1>7 DEF IsOutcome
  <2>2. PICK ks : ks \subseteq Keys /\ p = Read(s, ks)
    <3>1. p # Refuse(s)
      <4> HIDE DEF p
      <4> QED
        BY <1>7, RefuseFields
    <3>2. op.verb = "get" => op.at \in Keys /\ p = Read(s, {op.at})
      BY <1>1, <3>1 DEF Step, GoodOp, KeyVerbs
    <3>3. op.verb = "get-tree" => op.at \in DOMAIN Under /\ p = Read(s, Under[op.at])
      BY <1>1 DEF Step, GoodOp, TreeVerbs
    <3>4. op.at \in DOMAIN Under => Under[op.at] \subseteq Keys
      BY StoreAssumption
    <3> QED
      BY <3>2, <3>3, <3>4
  <2> HIDE DEF p
  <2>3. Told(s, p.made) /\ p.made \in Seq(Keys \X {s.store[k] : k \in Keys})
    BY <2>2, ReadTold
  <2>4. made = p.made
    BY <1>3, <2>3, ConcatEmptySeq
  <2> QED
    BY <2>1, <2>3, <2>4
<1> QED
  BY <1>6, <1>7

(* A success of compareSet() or commit() is a yes of the server.           *)
LEMMA SuccessMeansYes ==
  ASSUME NEW c, GoodCall(c), c.method \in {"compareSet", "commit"}, NEW o,
         NEW r \in {Unable, Answer(c.request, o)}, Result(c.method, r) \in Yes
  PROVE  o.says = "yes"
<1>1. Unable.status = 500
  BY DEF Unable, NoReply
<1>2. /\ Answer(c.request, o).status = Status(c.request, o)
      /\ Answer(c.request, o).yes = (o.says = "yes")
  BY DEF Answer
<1>3. CASE c.method = "commit"
  <2>1. Result(c.method, r) = CommitResult(r)
    BY <1>3 DEF Result
  <2>2. r.status = 200
    BY <2>1 DEF CommitResult, Yes
  <2>3. r = Answer(c.request, o)
    BY <1>1, <2>2
  <2>4. c.request.verb = "TXN"
    BY <1>3 DEF GoodCall
  <2> QED
    BY <1>2, <2>2, <2>3, <2>4 DEF Status
<1>4. CASE c.method = "compareSet"
  <2>1. Result(c.method, r) = BoolResult(r)
    BY <1>4 DEF Result
  <2>2. Success(r.status) /\ r.yes
    BY <2>1 DEF BoolResult, StatusError, Yes
  <2>3. r = Answer(c.request, o)
    BY <1>1, <2>2 DEF Success
  <2> QED
    BY <1>2, <2>2, <2>3
<1> QED
  BY <1>3, <1>4

(* A call that takes effect finds all that it was based on.                *)
LEMMA CallFinds ==
  ASSUME PowersOfTwo, NEW s, ServerTypes(s), NoneIsNoItem(s),
         NEW c, GoodCall(c), c.method \in {"compareSet", "commit"},
         NEW o \in Outcomes(s, Decode(c.request)), o.says = "yes",
         NEW e, e[1] \in Keys, Old(s, e[1], e[2]), e[2].modify < Exact + 3,
         \/ Based(c.ops[1], e)
         \/ /\ c.method = "commit" /\ Based(c.ops[2], e)
            /\ ~ Touches(c.ops[1], e[1]) /\ c.ops[1].verb # "destroy"
  PROVE  s.store[e[1]] = e[2]
<1> DEFINE ops == c.ops
           read == Decode(c.request)
           one == ops[1]
           two == ops[2]
<1>1. BothFind(s, read)
  BY CallMoves
<1>2. GoodOp(one)
  BY DEF GoodCall, GoodOps
<1>3. CASE c.method = "compareSet"
  <2>1. read[1] = one
    BY <1>3 DEF GoodCall, ReadBack
  <2>2. Finds(s, one) /\ Based(one, e)
    BY <1>1, <1>3, <2>1 DEF BothFind
  <2> HIDE DEF one
  <2> QED
    BY <2>2, FoundIsExpected
<1>4. CASE c.method = "commit"
  <2> DEFINE p == TxnOp(one)
             q == TxnOp(two)
  <2>1. read = <<p, q>> /\ ops = <<one, two>>
    BY <1>4 DEF GoodCall, ReadBack
  <2>2. GoodOp(two)
    <3>1. ops # <<one>>
      <4>1. Len(<<one, two>>) = 2 /\ Len(<<one>>) = 1
        OBVIOUS
      <4> HIDE DEF one, two, ops
      <4> QED
        BY <2>1, <4>1
    <3> QED
      BY <3>1 DEF GoodCall, GoodOps
  <2>3. /\ p.verb = one.verb /\ p.at = one.at /\ q.verb = two.verb /\ q.at = two.at
    BY <1>2, <2>2, TxnOpSame
  <2>4. p.index = DumpDouble(one.index) /\ q.index = DumpDouble(two.index)
    <3>1. ASSUME NEW op, GoodOp(op)
          PROVE  TxnOp(op).index = DumpDouble(op.index)
      <4>1. op = [verb |-> op.verb, at |-> op.at, index |-> op.index, session |-> op.session,
                  body |-> op.body]
        BY <3>1, Zenon DEF GoodOp, Op
      <4>2. DOMAIN op = {"verb", "at", "index", "session", "body"}
        BY <4>1
      <4> QED
        BY <4>2 DEF TxnOp
    <3> HIDE DEF one, two
    <3> QED
      BY <1>2, <2>2, <3>1
  <2> HIDE DEF one, two, p, q, ops, read
  <2>5. read[1] = p /\ read[2] = q /\ read = <<read[1], read[2]>>
    BY <2>1
  <2>6. Finds(s, p)
    BY <1>1, <2>5 DEF BothFind
  <2>7. CASE Based(one, e)
    BY <2>3, <2>4, <2>6, <2>7, FoundIsExpected
  <2>8. CASE Based(two, e) /\ ~ Touches(one, e[1]) /\ one.verb # "destroy"
    <3>1. q.at = e[1]
      BY <2>3, <2>8 DEF Based
    <3>2. ~ Touches(p, q.at) /\ p.verb # "destroy"
      BY <2>3, <2>8, <3>1 DEF Touches
    <3>3. Finds(s, q)
      BY <1>1, <2>5, <3>1, <3>2 DEF BothFind
    <3> QED
      BY <2>3, <2>4, <2>8, <3>3, FoundIsExpected
  <2> QED
    BY <2>7, <2>8 DEF one, two, ops
<1> QED
  BY <1>3, <1>4

-----------------------------------------------------------------------------
(* A caller that nothing happens to.                                       *)
LEMMA ReaderKeeps ==
  ASSUME NEW u \in Callers, ReaderOK(u),
         known'[u] = known[u], net'[u] = net[u], call'[u] = call[u], reply'[u] = reply[u],
         fate'[u].expect = fate[u].expect, fate'[u].before = fate[u].before,
         \A k \in Keys : \A item : Old(server, k, item) => Old(server', k, item)
  PROVE  ReaderOK(u)'
<1>1. \A k \in Keys : Old(server', k, known'[u][k])
  BY DEF ReaderOK
<1>2. ReadOK(u)' /\ ReplyOld(u)'
  BY DEF ReaderOK, ReadOK, ReplyOld
<1>3. ExpectOK(u)'
  BY DEF ReaderOK, ExpectOK
<1>4. FoundOK(u)'
  BY DEF ReaderOK, FoundOK
<1> QED
  BY <1>1, <1>2, <1>3, <1>4 DEF ReaderOK

(* The fields of the history of a call.                                    *)
FateFields == {"expect", "before", "repeated", "broken", "times", "took", "says", "made"}

(* Nobody has read anything at the start.                                  *)
LEMMA UpdateInit == Init => UpdateInv
<1> SUFFICES ASSUME Init
             PROVE  UpdateInv
  OBVIOUS
<1>1. known \in [Callers -> [Keys -> {NoItem}]] /\ DOMAIN result = Callers
  BY DEF Init
<1>2. NoneIsNoItem(server)
  <2> DEFINE start == workload.start
             item == [NoItem EXCEPT !.modify = start]
             store == [k \in Keys |-> IF start = 0 THEN NoItem ELSE item]
  <2>1. server.store = store
    BY DEF Init, Found
  <2>2. item.modify = start
    BY DEF NoItem
  <2>3. \A k \in Keys : store[k] = IF start = 0 THEN NoItem ELSE item
    OBVIOUS
  <2> HIDE DEF start, item, store
  <2> QED
    BY <2>1, <2>2, <2>3 DEF NoneIsNoItem
<1>3. ASSUME NEW t \in Callers
      PROVE  ReaderOK(t)
  <2>1. net[t] = "none"
    BY DEF Init
  <2>2. \A k \in Keys : known[t][k] = NoItem
    BY <1>1
  <2>3. \A k \in Keys : Old(server, k, NoItem)
    BY KvInit, NoItemOld DEF KvInv, KvTypes
  <2> QED
    BY <2>1, <2>2, <2>3 DEF ReaderOK, ReadOK, ReplyOld, ExpectOK, FoundOK
<1> QED
  BY <1>2, <1>3 DEF UpdateInv, Init

(* A method is called, based on what its caller has read.                  *)
LEMMA BeginReads ==
  ASSUME KvInv, UpdateInv, NEW t \in Callers, NEW method, NEW ops, NEW expect,
         Begin(t, method, ops, expect),
         method \in {"item", "items"} => ops[1].verb \in {"get", "get-tree"},
         \A e \in expect :
           /\ method \in {"compareSet", "commit"}
           /\ e[1] \in Keys /\ Old(server, e[1], e[2])
           /\ \/ Based(ops[1], e)
              \/ /\ method = "commit" /\ Based(ops[2], e)
                 /\ ~ Touches(ops[1], e[1]) /\ ops[1].verb # "destroy"
  PROVE  UpdateInv'
<1> DEFINE c == CallOf(method, ops)
<1>1. call' = [call EXCEPT ![t] = c]
  BY Zenon DEF Begin, CallOf
<1>2. c.method = method /\ c.ops = ops
  BY CallFields
<1> HIDE DEF c
<1>3. /\ net' = [net EXCEPT ![t] = "sent"]
      /\ fate' = [fate EXCEPT ![t] = [fate[t] EXCEPT !.expect = expect]]
      /\ server' = server /\ reply' = reply /\ known' = known
      /\ result' = [result EXCEPT ![t] = NoResult]
  BY DEF Begin
<1>4. DOMAIN fate[t] = FateFields
  BY DEF KvInv, CallerOK, FateOK, FateFields
<1>5. /\ call'[t] = c /\ net'[t] = "sent" /\ fate'[t].expect = expect
      /\ \A u \in Callers \ {t} : call'[u] = call[u] /\ net'[u] = net[u] /\ fate'[u] = fate[u]
  BY <1>1, <1>3, <1>4 DEF KvInv, KvTypes, FateFields
<1>6. ReaderOK(t)'
  <2>1. \A k \in Keys : Old(server', k, known'[t][k])
    BY <1>3 DEF UpdateInv, ReaderOK
  <2>2. ReadOK(t)' /\ ReplyOld(t)' /\ FoundOK(t)'
    BY <1>2, <1>5 DEF ReadOK, ReplyOld, FoundOK
  <2>3. ExpectOK(t)'
    BY <1>2, <1>3, <1>5 DEF ExpectOK
  <2> QED
    BY <2>1, <2>2, <2>3 DEF ReaderOK
<1>7. ASSUME NEW u \in Callers, u # t
      PROVE  ReaderOK(u)'
  BY <1>3, <1>5, <1>7, ReaderKeeps DEF UpdateInv
<1> QED
  BY <1>3, <1>6, <1>7 DEF UpdateInv

(* The server changes: what was read stays old.                            *)
LEMMA ServerMoves ==
  ASSUME KvInv, UpdateInv, KvInv', server.index <= server'.index,
         \A k \in Keys : Moved(server, server', server.index + 1, k)
  PROVE  /\ NoneIsNoItem(server')
         /\ \A k \in Keys : \A item : Old(server, k, item) => Old(server', k, item)
<1>1. ServerTypes(server) /\ ServerTypes(server') /\ NoneIsNoItem(server)
  BY DEF KvInv, KvTypes, UpdateInv
<1> QED
  BY <1>1, OldStays

(* The server processes a call.                                            *)
LEMMA ProcessReads ==
  ASSUME PowersOfTwo, KvInv, UpdateInv, KvInv', NEW t \in Callers, Process(t)
  PROVE  UpdateInv'
<1> DEFINE c == call[t]
           r == c.request
           ops == c.ops
<1>1. PICK o \in Outcomes(server, Decode(r)), fails \in BOOLEAN :
        /\ TakeEffect(o, ops)
        /\ fate' = [u \in Callers |->
                [fate[u] EXCEPT
                   !.broken = Breaks(u, ops, o.says = "yes"),
                   !.before = IF u = t /\ fate[t].expect # {} THEN server.store ELSE @,
                   !.times = IF u = t THEN @ + 1 ELSE @,
                   !.took = IF u = t THEN @ \/ o.says = "yes" ELSE @,
                   !.says = IF u = t THEN o.says ELSE @,
                   !.made = IF u = t THEN o.made ELSE @]]
        /\ reply' = [reply EXCEPT ![t] = IF fails THEN Unable ELSE Answer(r, o)]
  BY Zenon DEF Process
<1>2. /\ net[t] = "sent" /\ net' = [net EXCEPT ![t] = "answered"]
      /\ call' = call /\ known' = known /\ result' = result /\ server' = o.server
  BY <1>1 DEF Process, callerVars, TakeEffect
<1>3. GoodCall(c) /\ ServerTypes(server)
  BY <1>2 DEF KvInv, CallerOK, CallOK, KvTypes
<1>4. /\ server.index <= o.server.index
      /\ \A k \in Keys : Moved(server, o.server, server.index + 1, k)
  BY <1>3, CallMoves
<1>5. /\ NoneIsNoItem(server')
      /\ \A k \in Keys : \A item : Old(server, k, item) => Old(server', k, item)
  BY <1>2, <1>4, ServerMoves
<1>6. ASSUME NEW u \in Callers
      PROVE  /\ fate'[u].expect = fate[u].expect
             /\ fate'[u].before = IF u = t /\ fate[t].expect # {} THEN server.store ELSE fate[u].before
  <2> DEFINE f == fate[u]
             broken == Breaks(u, ops, o.says = "yes")
             before == IF u = t /\ fate[t].expect # {} THEN server.store ELSE f.before
             times == IF u = t THEN f.times + 1 ELSE f.times
             took == IF u = t THEN f.took \/ o.says = "yes" ELSE f.took
             says == IF u = t THEN o.says ELSE f.says
             made == IF u = t THEN o.made ELSE f.made
  <2>1. DOMAIN f = FateFields
    BY DEF KvInv, CallerOK, FateOK, FateFields
  <2>2. fate'[u] = [f EXCEPT !.broken = broken, !.before = before, !.times = times, !.took = took,
                              !.says = says, !.made = made]
    BY <1>1, <2>1 DEF FateFields
  <2> HIDE DEF f, broken, before, took, says, made, times
  <2>3. fate'[u].expect = f.expect /\ fate'[u].before = before
    BY <2>1, <2>2 DEF FateFields
  <2> QED
    BY <2>3 DEF f, before
<1>7. net'[t] = "answered" /\ reply'[t] \in {Unable, Answer(r, o)}
      /\ \A u \in Callers \ {t} : net'[u] = net[u] /\ reply'[u] = reply[u]
  BY <1>1, <1>2 DEF KvInv, KvTypes
<1>8. ReaderOK(t)
  BY DEF UpdateInv
<1>9. ReadOK(t)'
  BY <1>2, <1>8 DEF ReaderOK, ReadOK
<1>10. ReplyOld(t)'
  <2> SUFFICES ASSUME c.method \in {"item", "items"},
                      NEW n \in DOMAIN reply'[t].made, reply'[t].made[n][1] \in Keys
               PROVE  Old(server', reply'[t].made[n][1], reply'[t].made[n][2])
    BY <1>2 DEF ReplyOld
  <2>1. reply'[t].made \in {<<>>, o.made}
    <3>1. Unable.made = <<>>
      BY DEF Unable, NoReply
    <3>2. Answer(r, o).made \in {<<>>, o.made}
      BY DEF Answer
    <3> QED
      BY <1>7, <3>1, <3>2
  <2>2. reply'[t].made = o.made
    <3>1. DOMAIN <<>> = {}
      OBVIOUS
    <3> QED
      BY <2>1, <3>1
  <2> DEFINE k == o.made[n][1]
             item == o.made[n][2]
  <2>3. Told(server, o.made)
    BY <1>2, <1>3, <1>8, CallTold DEF ReaderOK, ReadOK
  <2>4. k \in Keys /\ item = server.store[k]
    BY <2>2, <2>3 DEF Told
  <2>5. Old(server, k, item)
    BY <1>3, <2>4 DEF Old, UpdateInv, NoneIsNoItem, ServerTypes
  <2> QED
    BY <1>5, <2>2, <2>4, <2>5
<1>11. ExpectOK(t)'
  BY <1>2, <1>5, <1>6, <1>8 DEF ReaderOK, ExpectOK
<1>12. FoundOK(t)'
  <2> SUFFICES ASSUME Result(c.method, reply'[t]) \in Yes,
                      NEW e \in fate[t].expect, e[2].modify < Exact + 3
               PROVE  server.store[e[1]] = e[2]
    BY <1>2, <1>6 DEF FoundOK
  <2>1. /\ c.method \in {"compareSet", "commit"}
        /\ e[1] \in Keys /\ Old(server, e[1], e[2])
        /\ \/ Based(c.ops[1], e)
           \/ /\ c.method = "commit" /\ Based(c.ops[2], e)
              /\ ~ Touches(c.ops[1], e[1]) /\ c.ops[1].verb # "destroy"
    BY <1>2, <1>8 DEF ReaderOK, ExpectOK
  <2>2. o.says = "yes"
    BY <1>3, <1>7, <2>1, SuccessMeansYes
  <2>3. NoneIsNoItem(server)
    BY DEF UpdateInv
  <2> QED
    BY <1>3, <2>1, <2>2, <2>3, CallFinds
<1>13. \A k \in Keys : Old(server', k, known'[t][k])
  BY <1>2, <1>5, <1>8 DEF ReaderOK
<1>14. ReaderOK(t)'
  BY <1>9, <1>10, <1>11, <1>12, <1>13 DEF ReaderOK
<1>15. ASSUME NEW u \in Callers, u # t
       PROVE  ReaderOK(u)'
  BY <1>2, <1>5, <1>6, <1>7, <1>15, ReaderKeeps DEF UpdateInv
<1> QED
  BY <1>2, <1>5, <1>14, <1>15 DEF UpdateInv

(* The server cannot, or the transfer is repeated.                         *)
LEMMA RejectReads ==
  ASSUME KvInv, UpdateInv, NEW t \in Callers, Reject(t) \/ Repeat(t)
  PROVE  UpdateInv'
<1>1. /\ server' = server /\ call' = call /\ known' = known /\ result' = result
      /\ net[t] \in {"sent", "answered"}
  BY DEF Reject, Repeat, callerVars
<1>2. \/ net' = [net EXCEPT ![t] = "sent"] /\ reply' = reply
      \/ net' = [net EXCEPT ![t] = "answered"] /\ reply' = [reply EXCEPT ![t] = Unable]
  BY DEF Reject, Repeat
<1>3. /\ \/ net'[t] = "sent"
         \/ net'[t] = "answered" /\ reply'[t] = Unable
      /\ \A u \in Callers \ {t} : net'[u] = net[u] /\ reply'[u] = reply[u]
  BY <1>2 DEF KvInv, KvTypes
<1>4. \A u \in Callers : fate'[u].expect = fate[u].expect /\ fate'[u].before = fate[u].before
  <2>1. CASE Reject(t)
    BY <2>1 DEF Reject
  <2>2. CASE Repeat(t)
    <3>1. fate' = [fate EXCEPT ![t] = [fate[t] EXCEPT !.repeated = TRUE]]
      BY <2>2 DEF Repeat
    <3>2. DOMAIN fate[t] = FateFields
      BY DEF KvInv, CallerOK, FateOK, FateFields
    <3> QED
      BY <3>1, <3>2 DEF KvInv, KvTypes, FateFields
  <2> QED
    BY <2>1, <2>2
<1>5. Unable.status = 500 /\ ~ Success(500) /\ Unable.made = <<>> /\ DOMAIN <<>> = {}
  BY DEF Unable, NoReply, Success
<1>6. ASSUME NEW m
      PROVE  Result(m, Unable) \notin Yes
  BY <1>5 DEF Result, GetResult, CommitResult, SetResult, BoolResult, VoidResult, StatusError, Yes
<1>7. ReaderOK(t)
  BY DEF UpdateInv
<1>8. ReplyOld(t)' /\ FoundOK(t)'
  BY <1>3, <1>5, <1>6 DEF ReplyOld, FoundOK
<1>9. ReadOK(t)' /\ ExpectOK(t)'
  BY <1>1, <1>4, <1>7 DEF ReaderOK, ReadOK, ExpectOK
<1>10. ReaderOK(t)'
  BY <1>1, <1>7, <1>8, <1>9 DEF ReaderOK
<1>11. ASSUME NEW u \in Callers, u # t
       PROVE  ReaderOK(u)'
  BY <1>1, <1>3, <1>4, <1>11, ReaderKeeps DEF UpdateInv
<1> QED
  BY <1>1, <1>10, <1>11 DEF UpdateInv

(* A call ends: its caller knows what it was told.                         *)
LEMMA EndReads ==
  ASSUME KvInv, UpdateInv, NEW t \in Callers, Ends(t), server' = server,
         DOMAIN known' = Callers, DOMAIN result' = Callers,
         \A k \in Keys : Old(server, k, known'[t][k]),
         \A u \in Callers \ {t} : known'[u] = known[u]
  PROVE  UpdateInv'
<1>1. /\ net' = [net EXCEPT ![t] = "none"]
      /\ call' = [call EXCEPT ![t] = NoCall]
      /\ reply' = [reply EXCEPT ![t] = NoReply]
      /\ fate' = [fate EXCEPT ![t] = NoFate]
  BY DEF Ends
<1>2. /\ net'[t] = "none"
      /\ \A u \in Callers \ {t} : /\ net'[u] = net[u] /\ call'[u] = call[u] /\ reply'[u] = reply[u]
                                  /\ fate'[u] = fate[u]
  BY <1>1 DEF KvInv, KvTypes
<1>3. ReaderOK(t)'
  BY <1>2 DEF ReaderOK, ReadOK, ReplyOld, ExpectOK, FoundOK
<1>4. ASSUME NEW u \in Callers, u # t
      PROVE  ReaderOK(u)'
  BY <1>2, <1>4, ReaderKeeps DEF UpdateInv
<1> QED
  BY <1>3, <1>4 DEF UpdateInv

(* A caller gives up, and knows what it knew.                              *)
LEMMA GiveUpReads ==
  ASSUME KvInv, UpdateInv, NEW t \in Callers, GiveUp(t)
  PROVE  UpdateInv'
<1>1. /\ Ends(t) /\ server' = server /\ known' = known
      /\ result' = [result EXCEPT ![t] = [NoResult EXCEPT !.as = "threw"]]
  BY DEF GiveUp
<1>2. \A k \in Keys : Old(server, k, known[t][k])
  BY DEF UpdateInv, ReaderOK
<1> QED
  BY <1>1, <1>2, EndReads DEF UpdateInv

(* A method returns.                                                       *)
LEMMA ReturnReads ==
  ASSUME KvInv, UpdateInv, NEW t \in Callers, Return(t)
  PROVE  UpdateInv'
<1> DEFINE c == call[t]
           as == Result(c.method, reply[t])
           made == reply[t].made
           learned == Learned(t, as, made)
           asked == IF c.method = "item" THEN {c.ops[1].at} ELSE Under[c.ops[1].at]
           Is(k, n) == made[n][1] = k
           Item0(k) == IF \E n \in DOMAIN made : Is(k, n)
                       THEN made[CHOOSE n \in DOMAIN made : Is(k, n)][2]
                       ELSE IF k \in asked THEN NoItem ELSE known[t][k]
<1>1. /\ Ends(t) /\ server' = server /\ net[t] = "answered"
      /\ known' = [known EXCEPT ![t] = learned]
      /\ result' = [result EXCEPT ![t] = [as |-> as, made |-> made]]
  BY Zenon DEF Return
<1>2. ReaderOK(t)
  BY DEF UpdateInv
<1>3. \A k \in Keys : Old(server, k, learned[k])
  <2>1. CASE c.method \notin {"item", "items"} \/ as \notin {"ok", "missing"}
    <3>1. learned = known[t]
      BY <2>1 DEF Learned
    <3> QED
      BY <1>2, <3>1 DEF ReaderOK
  <2>2. CASE ~ (c.method \notin {"item", "items"} \/ as \notin {"ok", "missing"})
    <3>1. learned = [k \in Keys |-> Item0(k)]
      BY <2>2, Zenon DEF Learned
    <3> SUFFICES ASSUME NEW k \in Keys
                 PROVE  Old(server, k, Item0(k))
      BY <3>1
    <3>2. CASE \E n \in DOMAIN made : Is(k, n)
      <4> DEFINE n == CHOOSE m \in DOMAIN made : Is(k, m)
      <4>1. n \in DOMAIN made /\ made[n][1] = k
        BY <3>2
      <4>2. Item0(k) = made[n][2]
        BY <3>2
      <4> HIDE DEF n
      <4>3. ReplyOld(t) /\ c.method \in {"item", "items"}
        BY <1>2, <2>2 DEF ReaderOK
      <4>4. Old(server, made[n][1], made[n][2])
        BY <1>1, <4>1, <4>3 DEF ReplyOld
      <4> QED
        BY <4>1, <4>2, <4>4
    <3>3. CASE ~ \E n \in DOMAIN made : Is(k, n)
      <4>1. Item0(k) \in {NoItem, known[t][k]}
        BY <3>3
      <4>2. Old(server, k, NoItem)
        BY NoItemOld DEF KvInv, KvTypes
      <4>3. Old(server, k, known[t][k])
        BY <1>2 DEF ReaderOK
      <4> HIDE DEF Item0
      <4> QED
        BY <4>1, <4>2, <4>3
    <3> QED
      BY <3>2, <3>3
  <2> QED
    BY <2>1, <2>2
<1> HIDE DEF learned
<1>4. /\ DOMAIN known' = Callers /\ known'[t] = learned
      /\ \A u \in Callers \ {t} : known'[u] = known[u]
  BY <1>1 DEF UpdateInv
<1>5. DOMAIN result' = Callers
  BY <1>1 DEF UpdateInv
<1> QED
  BY <1>1, <1>3, <1>4, <1>5, EndReads

(* Something takes effect for no caller that still waits for it.           *)
LEMMA LateReads ==
  ASSUME KvInv, UpdateInv, KvInv', NEW ops, NEW yes \in BOOLEAN,
         server.index <= server'.index,
         \A k \in Keys : Moved(server, server', server.index + 1, k),
         fate' = [u \in Callers |-> [fate[u] EXCEPT !.broken = Breaks(u, ops, yes)]],
         UNCHANGED <<call, net, reply, callerVars, calls, workload>>
  PROVE  UpdateInv'
<1>1. /\ call' = call /\ net' = net /\ reply' = reply /\ known' = known /\ result' = result
  BY DEF callerVars
<1>2. /\ NoneIsNoItem(server')
      /\ \A k \in Keys : \A item : Old(server, k, item) => Old(server', k, item)
  BY ServerMoves
<1>3. ASSUME NEW u \in Callers
      PROVE  fate'[u].expect = fate[u].expect /\ fate'[u].before = fate[u].before
  <2>1. DOMAIN fate[u] = FateFields
    BY DEF KvInv, CallerOK, FateOK, FateFields
  <2> QED
    BY <2>1 DEF FateFields
<1>4. ASSUME NEW u \in Callers
      PROVE  ReaderOK(u)'
  BY <1>1, <1>2, <1>3, ReaderKeeps DEF UpdateInv
<1> QED
  BY <1>1, <1>2, <1>4 DEF UpdateInv

(* A call that its caller has given up takes effect.                       *)
LEMMA OrphanReads ==
  ASSUME KvInv, UpdateInv, KvInv', NEW n \in DOMAIN orphans, ProcessOrphan(n)
  PROVE  UpdateInv'
<1> DEFINE c == orphans[n]
<1>1. PICK o \in Outcomes(server, Decode(c.request)) :
        /\ TakeEffect(o, c.ops)
        /\ fate' = [u \in Callers |-> [fate[u] EXCEPT !.broken = Breaks(u, c.ops, o.says = "yes")]]
  BY Zenon DEF ProcessOrphan
<1>2. UNCHANGED <<call, net, reply, callerVars, calls, workload>>
  BY DEF ProcessOrphan
<1>3. ServerTypes(server) /\ GoodCall(c) /\ server' = o.server
  BY <1>1 DEF KvInv, KvTypes, LateOK, Range, TakeEffect
<1>4. /\ server.index <= server'.index
      /\ \A k \in Keys : Moved(server, server', server.index + 1, k)
  BY <1>3, CallMoves
<1> DEFINE yes == o.says = "yes"
<1>5. yes \in BOOLEAN /\ fate' = [u \in Callers |-> [fate[u] EXCEPT !.broken = Breaks(u, c.ops, yes)]]
  BY <1>1, Zenon
<1> HIDE DEF yes
<1> QED
  BY <1>2, <1>4, <1>5, LateReads, Zenon

(* A session ends at the server.                                           *)
LEMMA ExpireReads ==
  ASSUME KvInv, UpdateInv, KvInv', NEW id, Expire(id)
  PROVE  UpdateInv'
<1> DEFINE n == Expired(server, id)
           ops == <<Op("destroy", Empty, 0, id, Empty)>>
<1>1. /\ TakeEffect(Outcome(n, "yes", <<>>), ops)
      /\ fate' = [u \in Callers |-> [fate[u] EXCEPT !.broken = Breaks(u, ops, TRUE)]]
      /\ UNCHANGED <<call, net, reply, orphans, callerVars, calls, workload>>
  BY Zenon DEF Expire
<1>2. ServerTypes(server) /\ server.index + 1 \in Nat /\ server.index <= server.index + 1
  BY DEF KvInv, KvTypes, ServerTypes
<1>3. /\ n.index = server.index + 1
      /\ \A k \in Keys : Moved(server, n, server.index + 1, k)
  BY <1>2, InvalidateLeaves, InvalidateMoves DEF Expired
<1> HIDE DEF n, ops
<1>4. server' = n
  BY <1>1, OutcomeFields DEF TakeEffect
<1>5. /\ server.index <= server'.index
      /\ \A k \in Keys : Moved(server, server', server.index + 1, k)
  BY <1>2, <1>3, <1>4
<1>6. TRUE \in BOOLEAN /\ UNCHANGED <<call, net, reply, callerVars, calls, workload>>
  BY <1>1
<1> QED
  BY <1>1, <1>5, <1>6, LateReads, Zenon

(* What an operation of a transaction relies on has been read.             *)
LEMMA ReliedOn ==
  ASSUME KvInv, UpdateInv, NEW t \in Callers, NEW op \in Operations(t)
  PROVE  /\ op.verb # "destroy"
         /\ \A e \in Relied(t, op) :
              e[1] = op.at /\ e[1] \in Keys /\ Old(server, e[1], e[2]) /\ Based(op, e)
<1>1. GoodOp(op)
  BY OperationsGood
<1>2. PICK v, at, i, id, b :
        /\ op = Op(v, at, i, id, b)
        /\ v \in {"cas", "check-index"} => i = IndexRead(t, at)
        /\ v # "destroy"
  <2>0. /\ \A v \in {"get", "check-not-exists", "delete", "get-tree", "delete-tree", "lock", "unlock",
                     "check-session", "set", "delete-cas"} : v \notin {"cas", "check-index"} /\ v # "destroy"
        /\ \A v \in {"cas", "check-index"} : v # "destroy"
    OBVIOUS
  <2>1. CASE \E k \in workload.keys, b \in workload.bodies : op = Op("set", k, 0, NoSession, b)
    BY <2>0, <2>1, Zenon
  <2>2. CASE \E k \in workload.keys, b \in workload.bodies : op = Op("cas", k, IndexRead(t, k), NoSession, b)
    BY <2>0, <2>2, Zenon
  <2>3. CASE \E k \in workload.keys, v \in {"check-index", "delete-cas"} :
               op = Op(v, k, IndexRead(t, k), NoSession, Empty)
    BY <2>0, <2>3, Zenon
  <2>4. CASE \E k \in workload.keys, v \in {"get", "check-not-exists", "delete"} :
               op = Op(v, k, 0, NoSession, Empty)
    BY <2>0, <2>4, Zenon
  <2>5. CASE \E p \in workload.prefixes, v \in {"get-tree", "delete-tree"} : op = Op(v, p, 0, NoSession, Empty)
    BY <2>0, <2>5, Zenon
  <2>6. CASE /\ session[t] # NoSession
             /\ \E k \in workload.keys, v \in {"lock", "unlock", "check-session"} :
                  op = Op(v, k, 0, session[t], Empty)
    BY <2>0, <2>6, Zenon
  <2> QED
    BY <2>1, <2>2, <2>3, <2>4, <2>5, <2>6 DEF Operations
<1>3. op.verb = v /\ op.at = at /\ op.index = i
  BY <1>2, OpFields
<1>4. ASSUME NEW e \in Relied(t, op)
      PROVE  e[1] = op.at /\ e[1] \in Keys /\ Old(server, e[1], e[2]) /\ Based(op, e)
  <2>1. CASE op.verb \in {"cas", "check-index"}
    <3>1. e[1] = op.at /\ e[2] = known[t][op.at]
      BY <1>4, <2>1 DEF Relied
    <3>2. op.at \in Keys
      BY <1>1, <2>1 DEF GoodOp, KeyVerbs
    <3>3. op.index = LoadUint64(known[t][op.at].modify)
      BY <1>2, <1>3, <2>1 DEF IndexRead
    <3> QED
      BY <2>1, <3>1, <3>2, <3>3 DEF Based, UpdateInv, ReaderOK
  <2>2. CASE op.verb = "check-not-exists"
    <3>1. e[1] = op.at /\ e[2] = NoItem
      BY <1>4, <2>2 DEF Relied
    <3>2. op.at \in Keys
      BY <1>1, <2>2 DEF GoodOp, KeyVerbs
    <3>3. Old(server, op.at, NoItem)
      BY <3>2, NoItemOld DEF KvInv, KvTypes
    <3> QED
      BY <2>2, <3>1, <3>2, <3>3 DEF Based
  <2> QED
    BY <1>4, <2>1, <2>2 DEF Relied
<1> QED
  BY <1>2, <1>3, <1>4

(* Every method is based on what its caller has read.                      *)
LEMMA InvokeReads ==
  ASSUME KvInv, UpdateInv, NEW t \in Callers, Invoke(t)
  PROVE  UpdateInv'
<1>1. workload.keys \subseteq Keys
  BY KvAssumption DEF KvInv, KvTypes
<1>2. ASSUME NEW method, NEW ops, Begin(t, method, ops, {}),
             method \in {"item", "items"} => ops[1].verb \in {"get", "get-tree"}
      PROVE  UpdateInv'
  BY <1>2, BeginReads
<1>3. \A method \in {"keys", "set", "erase", "eraseAll", "compareErase", "lock", "unlock", "create",
                     "renew", "destroy"} : method \notin {"item", "items"}
  OBVIOUS
<1>4. ASSUME NEW verb, NEW at, NEW method, verb = "get" \/ verb = "get-tree",
             Begin(t, method, <<Op(verb, at, 0, NoSession, Empty)>>, {})
      PROVE  UpdateInv'
  <2> DEFINE op == Op(verb, at, 0, NoSession, Empty)
             ops == <<op>>
  <2>1. op.verb = verb
    BY OpFields
  <2>2. Begin(t, method, ops, {})
    BY <1>4, Zenon
  <2> HIDE DEF op
  <2>3. ops[1] = op
    OBVIOUS
  <2> HIDE DEF ops
  <2> QED
    BY <1>2, <1>4, <2>1, <2>2, <2>3
<1>5. ASSUME NEW k \in workload.keys, Item(t, k) \/ Erase(t, k) \/ CompareErase(t, k)
      PROVE  UpdateInv'
  <2>1. CASE Item(t, k)
    BY <1>4, <2>1, Zenon DEF Item
  <2>2. CASE Erase(t, k) \/ CompareErase(t, k)
    BY <1>2, <1>3, <2>2, Zenon DEF Erase, CompareErase
  <2> QED
    BY <1>5, <2>1, <2>2
<1>6. ASSUME NEW k \in workload.keys, NEW b, CompareSet(t, k, b)
      PROVE  UpdateInv'
  <2> DEFINE op == Op("cas", k, IndexRead(t, k), NoSession, b)
             ops == <<op>>
             e == <<k, known[t][k]>>
  <2>1. Begin(t, "compareSet", ops, {e})
    BY <1>6, Zenon DEF CompareSet
  <2>2. op.verb = "cas" /\ op.at = k /\ op.index = IndexRead(t, k)
    BY OpFields
  <2> HIDE DEF op
  <2>3. e[1] = k /\ e[2] = known[t][k] /\ ops[1] = op
    OBVIOUS
  <2> HIDE DEF e, ops
  <2>4. Based(ops[1], e)
    BY <2>2, <2>3 DEF Based, IndexRead
  <2>5. e[1] \in Keys /\ Old(server, e[1], e[2])
    BY <1>1, <2>3 DEF UpdateInv, ReaderOK
  <2> QED
    BY <2>1, <2>4, <2>5, BeginReads
<1>7. ASSUME NEW k, NEW b, SetKey(t, k, b) \/ Lock(t, k, b) \/ Unlock(t, k, b)
      PROVE  UpdateInv'
  BY <1>2, <1>3, <1>7, Zenon DEF SetKey, Lock, Unlock
<1>8. ASSUME NEW p, Items(t, p) \/ KeysOf(t, p) \/ EraseAll(t, p)
      PROVE  UpdateInv'
  <2>1. CASE Items(t, p)
    BY <1>4, <2>1, Zenon DEF Items
  <2>2. CASE KeysOf(t, p) \/ EraseAll(t, p)
    BY <1>2, <1>3, <2>2, Zenon DEF KeysOf, EraseAll
  <2> QED
    BY <1>8, <2>1, <2>2
<1>9. ASSUME (\E b : CreateSession(t, b)) \/ Renew(t) \/ Destroy(t)
      PROVE  UpdateInv'
  BY <1>2, <1>3, <1>9, Zenon DEF CreateSession, Renew, Destroy
<1>10. ASSUME NEW one \in Operations(t), NEW two \in Operations(t), Commit(t, one, two)
       PROVE  UpdateInv'
  <2> DEFINE ops == <<one, two>>
             expect == Relied(t, one) \cup IF Touches(one, two.at) THEN {} ELSE Relied(t, two)
  <2>1. Begin(t, "commit", ops, expect)
    BY <1>10, Zenon DEF Commit
  <2>2. /\ one.verb # "destroy"
        /\ \A e \in Relied(t, one) : e[1] \in Keys /\ Old(server, e[1], e[2]) /\ Based(one, e)
        /\ \A e \in Relied(t, two) :
             e[1] = two.at /\ e[1] \in Keys /\ Old(server, e[1], e[2]) /\ Based(two, e)
    BY ReliedOn
  <2>3. \A e \in expect : e \in Relied(t, one) \/ (~ Touches(one, two.at) /\ e \in Relied(t, two))
    OBVIOUS
  <2>4. ops[1] = one /\ ops[2] = two
    OBVIOUS
  <2> HIDE DEF ops, expect
  <2>5. \A e \in expect :
          /\ e[1] \in Keys /\ Old(server, e[1], e[2])
          /\ \/ Based(ops[1], e)
             \/ Based(ops[2], e) /\ ~ Touches(ops[1], e[1]) /\ ops[1].verb # "destroy"
    BY <2>2, <2>3, <2>4
  <2> QED
    BY <2>1, <2>5, BeginReads
<1> QED
  BY <1>5, <1>6, <1>7, <1>8, <1>9, <1>10, Zenon DEF Invoke

(* So every step keeps the invariant.                                      *)
LEMMA UpdateStep ==
  ASSUME Undotted, Sessioned, PowersOfTwo, KvInv, UpdateInv, [Next]_vars
  PROVE  KvInv' /\ UpdateInv'
<1>1. KvInv'
  BY KvStep
<1>2. ASSUME NEW t \in Callers,
             Invoke(t) \/ Process(t) \/ Reject(t) \/ Repeat(t) \/ GiveUp(t) \/ Return(t)
      PROVE  UpdateInv'
  BY <1>1, <1>2, InvokeReads, ProcessReads, RejectReads, GiveUpReads, ReturnReads, Zenon
<1>3. ASSUME NEW n \in DOMAIN orphans, ProcessOrphan(n)
      PROVE  UpdateInv'
  BY <1>1, <1>3, OrphanReads
<1>4. ASSUME NEW id \in DOMAIN server.sessions, Expire(id)
      PROVE  UpdateInv'
  BY <1>1, <1>4, ExpireReads
<1>5. CASE UNCHANGED vars
  <2>1. /\ server' = server /\ call' = call /\ net' = net /\ reply' = reply /\ fate' = fate
        /\ known' = known /\ result' = result
    BY <1>5 DEF vars, callerVars
  <2>2. \A u \in Callers : ReaderOK(u)'
    BY <2>1, ReaderKeeps DEF UpdateInv
  <2> QED
    BY <1>1, <2>1, <2>2 DEF UpdateInv
<1> QED
  BY <1>1, <1>2, <1>3, <1>4, <1>5, Zenon DEF Next

(* What the step of a call that ends as a success has found.               *)
LEMMA SuccessFound ==
  ASSUME KvInv, UpdateInv, [Next]_vars, NEW t \in Callers,
         net[t] = "answered", net'[t] = "none", result'[t].as \in Yes,
         NEW e \in fate[t].expect, e[2].modify < Exact + 3
  PROVE  fate[t].before[e[1]] = e[2]
<1>1. net \in [Callers -> {"none", "sent", "answered"}]
  BY DEF KvInv, KvTypes
<1>2. ASSUME NEW u \in Callers, Ends(u)
      PROVE  u = t
  BY <1>1, <1>2 DEF Ends
<1>3. ASSUME NEW u \in Callers, net' = [net EXCEPT ![u] = "sent"] \/ net' = [net EXCEPT ![u] = "answered"]
      PROVE  FALSE
  BY <1>1, <1>3
<1>4. net' # net
  OBVIOUS
<1>5. ASSUME NEW u \in Callers, Invoke(u)
      PROVE  net' = [net EXCEPT ![u] = "sent"]
  <2>1. \E method, ops, expect : Begin(u, method, ops, expect)
    BY <1>5, Zenon DEF Invoke, Item, Erase, CompareErase, SetKey, CompareSet, Lock, Unlock, Items,
       KeysOf, EraseAll, CreateSession, Renew, Destroy, Commit
  <2> QED
    BY <2>1 DEF Begin
<1>6. ASSUME NEW u \in Callers,
             Invoke(u) \/ Process(u) \/ Reject(u) \/ Repeat(u) \/ GiveUp(u) \/ Return(u)
      PROVE  GiveUp(t) \/ Return(t)
  <2>1. ~ Invoke(u)
    BY <1>3, <1>5
  <2>2. ~ Process(u) /\ ~ Reject(u) /\ ~ Repeat(u)
    BY <1>3 DEF Process, Reject, Repeat
  <2>3. CASE GiveUp(u)
    BY <1>2, <2>3 DEF GiveUp
  <2>4. CASE Return(u)
    BY <1>2, <2>4 DEF Return
  <2> QED
    BY <1>6, <2>1, <2>2, <2>3, <2>4
<1>7. ASSUME NEW n \in DOMAIN orphans, ProcessOrphan(n)
      PROVE  FALSE
  BY <1>4, <1>7 DEF ProcessOrphan
<1>8. ASSUME NEW id \in DOMAIN server.sessions, Expire(id)
      PROVE  FALSE
  BY <1>4, <1>8 DEF Expire
<1>9. GiveUp(t) \/ Return(t)
  <2>1. Next
    BY <1>4 DEF vars
  <2> QED
    BY <1>6, <1>7, <1>8, <2>1, Zenon DEF Next
<1>10. DOMAIN result = Callers /\ FoundOK(t)
  BY DEF UpdateInv, ReaderOK
<1>11. CASE GiveUp(t)
  <2> DEFINE threw == [NoResult EXCEPT !.as = "threw"]
  <2>1. threw.as = "threw"
    BY DEF NoResult
  <2>2. result' = [result EXCEPT ![t] = threw]
    BY <1>11 DEF GiveUp
  <2> HIDE DEF threw
  <2> QED
    BY <1>10, <2>1, <2>2 DEF Yes
<1>12. CASE Return(t)
  <2> DEFINE as == Result(call[t].method, reply[t])
             told == [as |-> as, made |-> reply[t].made]
  <2>1. result' = [result EXCEPT ![t] = told]
    BY <1>12, Zenon DEF Return
  <2> HIDE DEF as
  <2>2. told.as = as
    OBVIOUS
  <2> HIDE DEF told
  <2>3. as \in Yes
    BY <1>10, <2>1, <2>2
  <2> QED
    BY <1>10, <2>3 DEF FoundOK, as
<1> QED
  BY <1>9, <1>11, <1>12

(***************************************************************************)
(* No lost update: compareSet() reports true, and a transaction with       *)
(* compare operations commits, only if each item they were based on was    *)
(* still, value and lock included, the one their caller had read, whatever *)
(* was written, erased, locked and expired in between, and whichever       *)
(* requests were lost, repeated or late.  2 ^ 53 + 3 is the first index    *)
(* that a double makes greater; up to there none can be mistaken for that  *)
(* of a later item.                                                        *)
(***************************************************************************)
THEOREM NothingLost ==
  ASSUME Undotted, Sessioned, PowersOfTwo
  PROVE  Spec => NoLostUpdate
<1>1. Init => KvInv /\ UpdateInv
  BY KvInit, UpdateInit
<1>2. KvInv /\ UpdateInv /\ [Next]_vars => (KvInv /\ UpdateInv)'
  BY UpdateStep
<1>3. KvInv /\ UpdateInv /\ [Next]_vars =>
        [\A t \in Callers :
           net[t] = "answered" /\ net'[t] = "none" /\ result'[t].as \in Yes =>
             \A e \in fate[t].expect :
               e[2].modify < Exact + 3 => fate[t].before[e[1]] = e[2]]_vars
  BY SuccessFound
<1> QED
  BY <1>1, <1>2, <1>3, PTL DEF Spec, NoLostUpdate
-----------------------------------------------------------------------------
(***************************************************************************)
(* Kv implements AtomicStore.  First, indexes that have been through a     *)
(* double are doubles: what a transaction compares is what was read.       *)
(***************************************************************************)
(* Powers of two grow.                                                     *)
LEMMA PowersGrow ==
  ASSUME PowersOfTwo, NEW a \in Nat, NEW b \in Nat
  PROVE  /\ a < 2 ^ a
         /\ a <= b => 2 ^ a <= 2 ^ b
<1>1. ASSUME NEW n \in Nat
      PROVE  2 ^ n \in Nat \ {0} /\ 2 ^ (n + 1) = 2 * 2 ^ n
  BY DEF PowersOfTwo
<1>2. 2 ^ 0 = 1
  BY DEF PowersOfTwo
<1>3. a < 2 ^ a
  <2> DEFINE S == {n \in Nat : ~ (n < 2 ^ n)}
  <2>1. ASSUME S # {}
        PROVE  FALSE
    <3>1. PICK n \in S : \A m \in S : n <= m
      <4>1. S \in SUBSET Nat
        OBVIOUS
      <4> HIDE DEF S
      <4> QED
        BY <2>1, <4>1, LeastElement
    <3>2. n # 0
      <4>1. ASSUME n = 0
            PROVE  2 ^ n = 1
        BY <1>2, <4>1
      <4> QED
        BY <3>1, <4>1
    <3> DEFINE m == n - 1
    <3>3. m \in Nat /\ m + 1 = n /\ m \notin S
      BY <3>1, <3>2
    <3>4. m < 2 ^ m
      BY <3>3
    <3>5. 2 ^ n = 2 * 2 ^ m /\ 2 ^ m \in Nat
      BY <1>1, <3>3
    <3>6. n < 2 ^ n
      <4> HIDE DEF m
      <4> QED
        BY <3>3, <3>4, <3>5
    <3> QED
      BY <3>1, <3>6
  <2> QED
    BY <2>1
<1>4. ASSUME a <= b
      PROVE  2 ^ a <= 2 ^ b
  <2> DEFINE S == {n \in Nat : a <= n /\ ~ (2 ^ a <= 2 ^ n)}
  <2>1. ASSUME S # {}
        PROVE  FALSE
    <3>1. PICK n \in S : \A m \in S : n <= m
      <4>1. S \in SUBSET Nat
        OBVIOUS
      <4> HIDE DEF S
      <4> QED
        BY <2>1, <4>1, LeastElement
    <3>2. n # a
      <4>1. 2 ^ a \in Nat
        BY <1>1
      <4> QED
        BY <3>1, <4>1
    <3> DEFINE m == n - 1
    <3>3. m \in Nat /\ m + 1 = n /\ m \notin S /\ a <= m
      BY <3>1, <3>2
    <3>4. 2 ^ a <= 2 ^ m
      BY <3>3
    <3>5. 2 ^ n = 2 * 2 ^ m /\ 2 ^ m \in Nat /\ 2 ^ a \in Nat
      BY <1>1, <3>3
    <3>6. 2 ^ a <= 2 ^ n
      <4> HIDE DEF m
      <4> QED
        BY <3>4, <3>5
    <3> QED
      BY <3>1, <3>6
  <2> QED
    BY <1>4, <2>1
<1> QED
  BY <1>3, <1>4

(* The product of what is not less is not less.                            *)
LEMMA TimesGrows ==
  ASSUME NEW c \in Nat, NEW a \in Nat, NEW b \in Nat, a <= b
  PROVE  c * a <= c * b
<1>1. c * b = c * a + c * (b - a) /\ c * (b - a) \in Nat
  OBVIOUS
<1>2. c * a \in Nat /\ c * b \in Nat
  OBVIOUS
<1> DEFINE x == c * a
           y == c * b
           z == c * (b - a)
<1>3. y = x + z /\ x \in Nat /\ y \in Nat /\ z \in Nat
  BY <1>1, <1>2
<1> HIDE DEF x, y, z
<1>4. x <= y
  BY <1>3
<1> QED
  BY <1>4 DEF x, y

(* Where the exponent of a double is e.                                    *)
Scale(n, e) == Exact * 2 ^ e <= 2 * n /\ n < Exact * 2 ^ e

(* There is one exponent for an index beyond the exact ones.               *)
LEMMA OneScale ==
  ASSUME PowersOfTwo, NEW n \in Nat, NEW e \in Nat, Scale(n, e), NEW f \in Nat, Scale(n, f)
  PROVE  e = f
<1>1. Exact \in Nat
  BY NumbersAssumption DEF PowersOfTwo, Exact
<1>2. ASSUME NEW a \in Nat, NEW b \in Nat, Scale(n, a), Scale(n, b), a < b
      PROVE  FALSE
  <2> DEFINE p == 2 ^ a
             q == 2 ^ b
  <2>1. p \in Nat /\ q \in Nat
    BY DEF PowersOfTwo
  <2>2. 2 * p <= q
    <3>1. 2 ^ (a + 1) = 2 * p
      BY DEF PowersOfTwo
    <3>2. 2 ^ (a + 1) <= 2 ^ b
      <4>1. a + 1 \in Nat /\ a + 1 <= b
        BY <1>2
      <4> QED
        BY <4>1, PowersGrow
    <3> QED
      BY <3>1, <3>2
  <2>3. Exact * q <= 2 * n /\ n < Exact * p
    BY <1>2 DEF Scale
  <2> HIDE DEF p, q
  <2>4. Exact * (2 * p) <= Exact * q
    <3>1. 2 * p \in Nat
      BY <2>1
    <3> QED
      BY <1>1, <2>1, <2>2, <3>1, TimesGrows
  <2>5. Exact * (2 * p) = 2 * (Exact * p)
    BY <1>1, <2>1
  <2> DEFINE x == Exact * p
             y == Exact * q
  <2>6. x \in Nat /\ y \in Nat /\ y <= 2 * n /\ n < x /\ 2 * x <= y
    BY <1>1, <2>1, <2>3, <2>4, <2>5
  <2> HIDE DEF x, y
  <2> QED
    BY <2>6
<1>3. ~ (e < f) /\ ~ (f < e)
  BY <1>2
<1> QED
  BY <1>3

(* So that is the distance between doubles there.                          *)
LEMMA UlpIs ==
  ASSUME PowersOfTwo, NEW n \in Nat, NEW e \in Nat, Scale(n, e)
  PROVE  Ulp(n) = 2 ^ e
<1> DEFINE p == 2 ^ e
           q == 2 ^ (Precision - 2)
<1>1. q \in Nat \ {0} /\ Exact = 4 * q
  BY NumbersAssumption, FoursOfTwo DEF Exact
<1>2. e < p /\ p \in Nat
  BY PowersGrow DEF PowersOfTwo
<1>3. Exact * p <= 2 * n
  BY DEF Scale
<1> HIDE DEF p, q
<1>4. 4 * p <= Exact * p
  <2>1. p # 0
    BY <1>2
  <2>2. 4 * p <= p * (4 * q)
    BY <1>1, <1>2, <2>1, FourTimes
  <2> QED
    BY <1>1, <1>2, <2>2
<1>5. e \in 0 .. n
  <2> DEFINE x == Exact * p
  <2>1. x \in Nat /\ 4 * p <= x /\ x <= 2 * n
    BY <1>1, <1>2, <1>3, <1>4
  <2> HIDE DEF x
  <2> QED
    BY <1>2, <2>1
<1> DEFINE E == CHOOSE d \in 0 .. n : Scale(n, d)
<1>6. E \in 0 .. n /\ Scale(n, E)
  <2> HIDE DEF p
  <2> QED
    BY <1>5
<1> HIDE DEF E
<1>7. E = e
  BY <1>6, OneScale
<1>8. Ulp(n) = 2 ^ E
  BY Zenon DEF Ulp, E, Scale
<1> QED
  BY <1>7, <1>8

(* Beyond the exact ones there is an exponent.                             *)
LEMMA ScaleExists ==
  ASSUME PowersOfTwo, NEW n \in Nat, n > Exact
  PROVE  \E e \in Nat : e > 0 /\ Scale(n, e)
<1>1. Exact \in Nat \ {0}
  BY NumbersAssumption DEF PowersOfTwo, Exact
<1>2. ASSUME NEW a \in Nat
      PROVE  2 ^ a \in Nat /\ 2 ^ (a + 1) = 2 * 2 ^ a /\ Exact * 2 ^ a \in Nat
  BY <1>1 DEF PowersOfTwo
<1> DEFINE S == {a \in Nat : n < Exact * 2 ^ a}
<1>3. n \in S
  <2>1. n < 2 ^ n
    BY PowersGrow
  <2>2. 1 \in Nat /\ 1 <= Exact
    BY <1>1
  <2>3. 2 ^ n * 1 <= 2 ^ n * Exact
    BY <1>1, <1>2, <2>2, TimesGrows
  <2> DEFINE p == 2 ^ n
  <2>4. p \in Nat
    BY <1>2
  <2>5. p <= Exact * p
    <3> HIDE DEF p
    <3> QED
      BY <1>1, <2>3, <2>4 DEF p
  <2> DEFINE x == Exact * p
  <2>6. x \in Nat /\ n < p /\ p <= x
    BY <1>2, <2>1, <2>5
  <2> HIDE DEF p, x
  <2>7. n < x
    BY <2>4, <2>6
  <2> QED
    BY <2>7 DEF x, p
<1>4. PICK e \in S : \A m \in S : e <= m
  <2>1. S \in SUBSET Nat /\ S # {}
    BY <1>3
  <2> HIDE DEF S
  <2> QED
    BY <2>1, LeastElement
<1>5. e # 0
  <2>1. ASSUME e = 0
        PROVE  2 ^ e = 1
    BY <2>1 DEF PowersOfTwo
  <2>2. n < Exact * 2 ^ e
    BY <1>4
  <2> DEFINE p == 2 ^ e
  <2> HIDE DEF p
  <2> QED
    BY <1>1, <2>1, <2>2 DEF p
<1> DEFINE d == e - 1
           p == 2 ^ d
<1>6. d \in Nat /\ d + 1 = e /\ d \notin S
  BY <1>4, <1>5
<1>7. Exact * p <= n /\ p \in Nat /\ 2 ^ e = 2 * p
  <2>1. ~ (n < Exact * p) /\ Exact * p \in Nat
    BY <1>2, <1>6
  <2> DEFINE x == Exact * p
  <2>2. x \in Nat /\ ~ (n < x)
    BY <2>1
  <2> HIDE DEF x
  <2>3. x <= n
    BY <2>2
  <2> HIDE DEF p
  <2>4. 2 ^ (d + 1) = 2 * p /\ p \in Nat
    BY <1>2, <1>6 DEF p
  <2> QED
    BY <1>6, <2>3, <2>4 DEF x
<1>8. Exact * 2 ^ e <= 2 * n
  <2>1. Exact * (2 * p) = 2 * (Exact * p)
    <3> HIDE DEF p
    <3> QED
      BY <1>1, <1>7
  <2> DEFINE x == Exact * p
  <2>2. x \in Nat /\ x <= n /\ Exact * 2 ^ e = 2 * x
    BY <1>1, <1>2, <1>6, <1>7, <2>1
  <2> HIDE DEF x
  <2> QED
    BY <2>2
<1>9. Scale(n, e) /\ e \in Nat /\ e > 0
  BY <1>4, <1>5, <1>8 DEF Scale
<1> QED
  BY <1>9

(* Division with a remainder, and without.                                 *)
LEMMA Divided ==
  ASSUME NEW n \in Nat, NEW u \in Nat \ {0}
  PROVE  /\ n \div u \in Nat /\ n % u \in 0 .. u - 1
         /\ n = u * (n \div u) + (n % u)
  OBVIOUS

(* A multiple leaves no remainder.                                         *)
LEMMA DividedEvenly ==
  ASSUME NEW u \in Nat \ {0}, NEW q \in Nat
  PROVE  (u * q) \div u = q /\ (u * q) % u = 0
  OBVIOUS

(* Products of what is less are less.                                      *)
LEMMA LessTimes ==
  ASSUME NEW u \in Nat \ {0}, NEW a \in Nat, NEW b \in Nat
  PROVE  u * a < u * b <=> a < b
  OBVIOUS

(* A double is not rounded.                                                *)
LEMMA DoubleIsExact ==
  ASSUME PowersOfTwo, NEW e \in Nat, e > 0, NEW q \in Nat, q <= Exact, Exact <= 2 * q
  PROVE  Double(2 ^ e * q) = 2 ^ e * q
<1> DEFINE u == 2 ^ e
           d == u * q
           h == 2 ^ (Precision - 1)
<1>1. h \in Nat \ {0} /\ Exact = 2 * h
  <2>1. Precision - 1 \in Nat /\ (Precision - 1) + 1 = Precision
    BY NumbersAssumption
  <2> QED
    BY <2>1 DEF PowersOfTwo, Exact
<1>2. u \in Nat \ {0} /\ 2 ^ (e + 1) = 2 * u
  BY DEF PowersOfTwo
<1>3. d \in Nat
  <2> HIDE DEF u
  <2> QED
    BY <1>2
<1> HIDE DEF h
<1>4. CASE d <= Exact
  <2> HIDE DEF d
  <2>1. Double(d) = d
    BY <1>4 DEF Double
  <2> QED
    BY <2>1 DEF d
<1>5. CASE d > Exact /\ q < Exact
  <2>1. Exact * u <= 2 * d /\ d < Exact * u
    <3> HIDE DEF u
    <3>1. u * q < u * Exact
      BY <1>1, <1>2, <1>5, LessTimes
    <3>2. u * Exact <= u * (2 * q)
      BY <1>1, <1>2, TimesGrows
    <3>3. u * (2 * q) = 2 * (u * q) /\ u * Exact = Exact * u
      BY <1>1, <1>2
    <3> QED
      BY <3>1, <3>2, <3>3
  <2>2. Ulp(d) = u
    <3>1. Scale(d, e)
      BY <2>1 DEF Scale
    <3> HIDE DEF d
    <3> QED
      BY <1>3, <3>1, UlpIs
  <2>3. d \div u = q /\ d % u = 0
    <3> HIDE DEF u
    <3> QED
      BY <1>2, DividedEvenly
  <2> HIDE DEF d, u
  <2>4. Double(d) = u * q
    <3>1. ~ (d <= Exact)
      BY <1>1, <1>3, <1>5
    <3>2. 2 * (d % Ulp(d)) < Ulp(d)
      BY <1>2, <2>2, <2>3
    <3> QED
      BY <2>2, <2>3, <3>1, <3>2 DEF Double
  <2> QED
    BY <2>4 DEF u, d
<1>6. CASE d > Exact /\ q = Exact
  <2> DEFINE v == 2 ^ (e + 1)
  <2>1. d = v * h /\ Exact * v = 2 * d /\ d < Exact * v
    <3>1. d = u * (2 * h)
      BY <1>1, <1>6
    <3>2. v = 2 * u
      BY <1>2
    <3> HIDE DEF u, d, v
    <3>3. u * (2 * h) = (2 * u) * h /\ (2 * h) * (2 * u) = 2 * (u * (2 * h))
      BY <1>1, <1>2
    <3>4. d > 0
      BY <1>1, <1>3, <1>6
    <3> QED
      BY <1>1, <1>3, <3>1, <3>2, <3>3, <3>4
  <2>2. Ulp(d) = v
    <3>1. Scale(d, e + 1) /\ e + 1 \in Nat
      BY <1>3, <2>1 DEF Scale
    <3> HIDE DEF d
    <3> QED
      BY <1>3, <3>1, UlpIs
  <2>3. v \in Nat \ {0}
    BY DEF PowersOfTwo
  <2> HIDE DEF v
  <2>4. d \div v = h /\ d % v = 0
    BY <1>1, <2>1, <2>3, DividedEvenly
  <2> HIDE DEF d, u
  <2>5. Double(d) = v * h
    <3>1. ~ (d <= Exact)
      BY <1>1, <1>3, <1>6
    <3>2. 2 * (d % Ulp(d)) < Ulp(d)
      BY <2>2, <2>3, <2>4
    <3> QED
      BY <2>2, <2>4, <3>1, <3>2 DEF Double
  <2> QED
    BY <2>1, <2>5 DEF u, d
<1> QED
  BY <1>1, <1>3, <1>4, <1>5, <1>6

(* What has been through a double is not changed by another.               *)
LEMMA DoubleTwice ==
  ASSUME PowersOfTwo, NEW n \in Nat
  PROVE  Double(Double(n)) = Double(n)
<1>1. Exact \in Nat \ {0}
  BY NumbersAssumption DEF PowersOfTwo, Exact
<1>2. CASE n <= Exact
  BY <1>2 DEF Double
<1>3. CASE n > Exact
  <2>1. PICK e \in Nat : e > 0 /\ Scale(n, e)
    BY <1>3, ScaleExists
  <2> DEFINE u == 2 ^ e
             b == n \div u
             r == n % u
  <2>2. Ulp(n) = u
    BY <2>1, UlpIs
  <2>3. u \in Nat \ {0} /\ Exact * u <= 2 * n /\ n < Exact * u
    BY <2>1 DEF PowersOfTwo, Scale
  <2> HIDE DEF u
  <2>4. b \in Nat /\ r \in 0 .. u - 1 /\ n = u * b + r
    BY <2>3, Divided
  <2>5. PICK q \in {b, b + 1} : Double(n) = u * q
    <3>1. Double(n) = u * (IF 2 * r < u \/ (2 * r = u /\ b % 2 = 0) THEN b ELSE b + 1)
      <4>1. ~ (n <= Exact)
        BY <1>1, <1>3
      <4> QED
        BY <2>2, <4>1 DEF Double
    <3> HIDE DEF b, r
    <3> QED
      BY <3>1
  <2> HIDE DEF b, r
  <2>6. b < Exact
    <3>1. u * b <= n
      <4> DEFINE x == u * b
      <4>1. x \in Nat
        BY <2>3, <2>4
      <4> HIDE DEF x
      <4>2. x <= x + r
        BY <2>3, <2>4, <4>1
      <4> QED
        BY <2>4, <4>2 DEF x
    <3>2. u * b < u * Exact
      <4> DEFINE x == u * b
                 y == Exact * u
      <4>1. x \in Nat /\ y \in Nat /\ y = u * Exact
        BY <1>1, <2>3, <2>4
      <4>2. x <= n /\ n < y
        BY <2>3, <3>1
      <4> HIDE DEF x, y
      <4>3. x < y
        BY <4>1, <4>2
      <4> QED
        BY <4>1, <4>3 DEF x, y
    <3> QED
      BY <1>1, <2>3, <2>4, <3>2, LessTimes
  <2>7. Exact <= 2 * b
    <3>1. u * Exact < u * (2 * (b + 1))
      <4> DEFINE x == u * b
                 y == Exact * u
      <4>1. x \in Nat /\ y \in Nat /\ y = u * Exact /\ u * (2 * (b + 1)) = 2 * x + 2 * u
        BY <1>1, <2>3, <2>4
      <4>2. y <= 2 * n /\ n = x + r
        BY <2>3, <2>4
      <4> HIDE DEF x, y
      <4>3. y < 2 * x + 2 * u
        BY <2>3, <2>4, <4>1, <4>2
      <4> QED
        BY <4>1, <4>3
    <3>2. Exact < 2 * (b + 1)
      <4>1. 2 * (b + 1) \in Nat
        BY <2>4
      <4> QED
        BY <1>1, <2>3, <3>1, <4>1, LessTimes
    <3>3. \E h \in Nat : Exact = 2 * h
      <4>1. Precision - 1 \in Nat /\ (Precision - 1) + 1 = Precision
        BY NumbersAssumption
      <4> QED
        BY <4>1 DEF PowersOfTwo, Exact
    <3> QED
      BY <1>1, <2>4, <3>2, <3>3
  <2>8. q \in Nat /\ q <= Exact /\ Exact <= 2 * q
    BY <1>1, <2>4, <2>5, <2>6, <2>7
  <2>9. Double(u * q) = u * q
    BY <2>1, <2>8, DoubleIsExact DEF u
  <2> QED
    BY <2>5, <2>9
<1> QED
  BY <1>1, <1>2, <1>3

-----------------------------------------------------------------------------
(***************************************************************************)
(* What the library makes of an answer is what the store said.  A call and *)
(* its request: the method, its HTTP verb, and the operation it asks for.  *)
(***************************************************************************)
Kinds == {
  <<"item", "GET", "get">>, <<"items", "GET", "get-tree">>, <<"keys", "GET", "keys">>,
  <<"set", "PUT", "set">>, <<"compareSet", "PUT", "cas">>, <<"erase", "DELETE", "delete">>,
  <<"eraseAll", "DELETE", "delete-tree">>, <<"compareErase", "DELETE", "delete-cas">>,
  <<"lock", "PUT", "lock">>, <<"unlock", "PUT", "unlock">>,
  <<"create", "CREATE", "create">>, <<"renew", "RENEW", "renew">>,
  <<"destroy", "DESTROY", "destroy">>}

(* A call that asks the server for exactly what its caller asked it for.   *)
ExactCall(c) ==
  /\ GoodCall(c)
  /\ Decode(c.request) = c.ops
  /\ c.method # "commit" => <<c.method, c.request.verb, c.ops[1].verb>> \in Kinds

(* What the server may say of an operation.                                *)
LEMMA StepSays ==
  ASSUME NEW s, NEW op, NEW i
  PROVE  /\ op.verb \in {"set", "delete", "delete-tree", "get-tree", "keys", "destroy"} =>
              Step(s, op, i).says = "yes"
         /\ op.verb \in {"get", "cas", "delete-cas", "unlock", "renew"} =>
              Step(s, op, i).says \in {"yes", "no"}
<1>1. /\ \A k, v, owner : Write(s, k, v, owner, i).says = "yes"
      /\ \A ks : Deleted(s, ks, i).says = "yes"
      /\ \A ks : Read(s, ks).says = "yes" /\ IsOutcome(Read(s, ks))
      /\ Refuse(s).says = "no"
      /\ \A n, made : Outcome(n, "yes", made).says = "yes"
  <2>1. \A n, says, made : IsOutcome(Outcome(n, says, made)) /\ Outcome(n, says, made).says = says
    BY OutcomeFields
  <2> QED
    BY <2>1, Zenon DEF Write, Deleted, Read, Refuse
<1>2. \A ks : KeysOnly(Read(s, ks)).says = "yes"
  <2> TAKE ks
  <2> DEFINE o == Read(s, ks)
             made == [n \in DOMAIN o.made |-> <<o.made[n][1]>>]
  <2>1. IsOutcome(o) /\ o.says = "yes"
    BY <1>1
  <2> HIDE DEF o
  <2>2. KeysOnly(o) = [o EXCEPT !.made = made]
    BY <2>1 DEF KeysOnly, IsOutcome
  <2> HIDE DEF made
  <2> QED
    BY <2>1, <2>2 DEF IsOutcome, o
<1>3. CASE op.verb = "set"
  BY <1>1, <1>3 DEF Step
<1>4. CASE op.verb = "delete"
  BY <1>1, <1>4 DEF Step
<1>5. CASE op.verb = "delete-tree"
  BY <1>1, <1>5 DEF Step
<1>6. CASE op.verb = "get-tree"
  BY <1>1, <1>6 DEF Step
<1>7. CASE op.verb = "keys"
  BY <1>2, <1>7 DEF Step
<1>8. CASE op.verb = "destroy"
  BY <1>1, <1>8 DEF Step
<1>9. CASE op.verb = "get"
  BY <1>1, <1>9 DEF Step
<1>10. CASE op.verb = "cas"
  BY <1>1, <1>10 DEF Step
<1>11. CASE op.verb = "delete-cas"
  BY <1>1, <1>11 DEF Step
<1>12. CASE op.verb = "unlock"
  BY <1>1, <1>12 DEF Step
<1>13. CASE op.verb = "renew"
  BY <1>1, <1>13 DEF Step
<1> QED
  BY <1>3, <1>4, <1>5, <1>6, <1>7, <1>8, <1>9, <1>10, <1>11, <1>12, <1>13

(* A read of one key that is there finds it.                               *)
LEMMA OneFound ==
  ASSUME NEW s, NEW k \in Keys, Valid(s.store[k])
  PROVE  LET made == Read(s, {k}).made
         IN  made \in Seq(Keys \X {s.store[j] : j \in Keys}) /\ <<>> \o made # <<>>
<1> DEFINE S == {j \in {k} : Valid(s.store[j])}
           there == SetToSeq(S)
           made == [n \in DOMAIN there |-> <<there[n], s.store[there[n]]>>]
           o == Read(s, {k})
<1>1. o.made = made
  <2>1. o = Outcome(s, "yes", made)
    BY Zenon DEF Read
  <2> HIDE DEF made, o
  <2> QED
    BY <2>1, OutcomeFields
<1>2. S = {k}
  OBVIOUS
<1>3. DOMAIN there = 1 .. 1
  <2>1. IsFiniteSet(S) /\ Cardinality(S) = 1
    BY <1>2, FS_Singleton
  <2> HIDE DEF S
  <2> QED
    BY <2>1, SetToSeqIs
<1>4. DOMAIN made = 1 .. 1
  BY <1>3
<1>5. o.made \in Seq(Keys \X {s.store[j] : j \in Keys})
  BY ReadTold
<1> HIDE DEF made, o
<1>6. DOMAIN o.made = 1 .. 1 /\ <<>> \o o.made = o.made
  BY <1>1, <1>4, <1>5, ConcatEmptySeq
<1> DEFINE m == o.made
<1>7. DOMAIN <<>> = {} /\ 1 \in 1 .. 1
  OBVIOUS
<1>8. o.made # <<>>
  BY <1>6, <1>7
<1> QED
  BY <1>5, <1>6, <1>8 DEF o

(* What it may say of a call.                                              *)
LEMMA CallSays ==
  ASSUME NEW s, ServerTypes(s), NEW c, ExactCall(c), NEW o \in Outcomes(s, c.ops)
  PROVE  /\ o.says \in {"yes", "no", "error"}
         /\ c.method \in {"items", "keys", "set", "erase", "eraseAll", "create", "destroy"} =>
              o.says = "yes"
         /\ c.method \in {"item", "compareSet", "compareErase", "unlock", "renew"} =>
              o.says \in {"yes", "no"}
         /\ c.method = "item" /\ o.says = "yes" => o.made # <<>>
<1> DEFINE ops == c.ops
           op == ops[1]
           r0 == Outcome(s, "yes", <<>>)
           i == s.index + 1
           p == Step(s, op, i)
           made == <<>> \o p.made
<1>1. /\ GoodOps(ops) /\ (c.method = "create" <=> op.verb = "create")
      /\ c.method # "commit" => ops = <<op>>
  BY DEF ExactCall, GoodCall
<1>2. CASE c.method = "create"
  <2>1. ops # <<>> /\ op.verb = "create"
    <3>1. ops = <<op>>
      BY <1>1, <1>2
    <3>2. op.verb = "create"
      BY <1>1, <1>2
    <3> HIDE DEF op, ops
    <3> QED
      BY <3>1, <3>2
  <2>2. PICK id \in SessionIds : o = NewSession(s, op.body, id)
    <3> HIDE DEF ops
    <3> QED
      BY <2>1 DEF Outcomes, ops
  <2> QED
    BY <1>2, <2>2, NewSessionLeaves
<1>3. CASE c.method # "create"
  <2>1. o = Together(s, ops)
    <3>1. op.verb # "create"
      BY <1>1, <1>3
    <3> HIDE DEF op
    <3> QED
      BY <3>1 DEF Outcomes, op
  <2>2. Leaves(s, i, o)
    <3>1. op.verb # "create"
      BY <1>1, <1>3
    <3> QED
      BY <1>1, <2>1, <3>1, TogetherLeaves
  <2>3. CASE c.method = "commit"
    BY <2>2, <2>3 DEF Leaves
  <2>4. CASE c.method # "commit"
    <3>1. o = After(s, r0, op)
      <4>1. ops = <<op>>
        BY <1>1, <2>4
      <4>2. o = Together(s, <<op>>)
        BY <2>1, <4>1
      <4> QED
        BY <4>2, TogetherIs, Zenon
    <3>2. r0.server = s /\ r0.says = "yes" /\ r0.made = <<>>
      BY OutcomeFields
    <3>3. IsOutcome(p)
      <4>1. i \in Nat /\ s.index <= i
        BY DEF ServerTypes
      <4>2. GoodOp(op) /\ op.verb # "create"
        BY <1>1, <1>3 DEF GoodOps
      <4> QED
        BY <4>1, <4>2, StepLeaves DEF Leaves
    <3> HIDE DEF r0
    <3>4. o = IF p.says = "yes" THEN [p EXCEPT !.made = made] ELSE Outcome(s, p.says, <<>>)
      BY <3>1, <3>2, <3>3 DEF After, IsOutcome
    <3>5. o.says = p.says /\ (p.says = "yes" => o.made = made)
      <4>1. CASE p.says = "yes"
        <5> HIDE DEF made, p
        <5> QED
          BY <3>3, <3>4, <4>1 DEF IsOutcome
      <4>2. CASE p.says # "yes"
        <5> HIDE DEF p
        <5> QED
          BY <3>4, <4>2, OutcomeFields
      <4> QED
        BY <4>1, <4>2
    <3>6. <<c.method, c.request.verb, op.verb>> \in Kinds
      BY <2>4 DEF ExactCall
    <3>7. /\ op.verb \in {"set", "delete", "delete-tree", "get-tree", "keys", "destroy"} => p.says = "yes"
          /\ op.verb \in {"get", "cas", "delete-cas", "unlock", "renew"} => p.says \in {"yes", "no"}
      BY StepSays
    <3>8. ASSUME op.verb = "get", p.says = "yes"
          PROVE  made # <<>>
      <4>1. op.at \in Keys
        BY <1>1, <3>8 DEF GoodOps, GoodOp, KeyVerbs
      <4>2. p # Refuse(s)
        <5> HIDE DEF p
        <5> QED
          BY <3>8, RefuseFields
      <4>3. Valid(s.store[op.at]) /\ p = Read(s, {op.at})
        BY <3>8, <4>2 DEF Step
      <4> HIDE DEF p, op
      <4> QED
        BY <4>1, <4>3, OneFound
    <3> HIDE DEF p, op, made
    <3>9. \/ c.method = "item" /\ op.verb = "get"
          \/ c.method \in {"items", "keys", "set", "erase", "eraseAll", "destroy"}
             /\ op.verb \in {"set", "delete", "delete-tree", "get-tree", "keys", "destroy"}
          \/ c.method \in {"compareSet", "compareErase", "unlock", "renew"}
             /\ op.verb \in {"cas", "delete-cas", "unlock", "renew"}
          \/ c.method \in {"lock", "create"}
      BY <3>6 DEF Kinds
    <3> QED
      BY <1>3, <2>2, <3>5, <3>7, <3>8, <3>9 DEF Leaves
  <2> QED
    BY <2>3, <2>4
<1> QED
  BY <1>2, <1>3

(* What a method makes of an answer, and what it returns with it, given    *)
(* how often its request took effect, and what the store said last.        *)
Truthful(c, r, times, says, made) ==
  LET as == Result(c.method, r)
  IN  /\ as \in Yes => says = "yes"
      /\ as \in No => says # "yes"
      /\ as \in Yes \cup No =>
           times > 0 /\ r.made = IF c.method \in Tells THEN made ELSE <<>>
      /\ as \notin Yes \cup No => r.made = <<>> /\ as # "none"

(* An error that has nothing to do with the store is not taken for a no.   *)
LEMMA UnableTells ==
  ASSUME NEW c, ExactCall(c), NEW times, NEW says, NEW made
  PROVE  Truthful(c, Unable, times, says, made)
<1>1. Unable.status = 500 /\ Unable.made = <<>>
  BY DEF Unable, NoReply
<1>2. Result(c.method, Unable) = "BadStatus"
  <2>1. ~ Success(500)
    BY DEF Success
  <2>2. /\ \A missing : GetResult(Unable, missing) = "BadStatus"
        /\ CommitResult(Unable) = "BadStatus" /\ SetResult(Unable) = "BadStatus"
        /\ BoolResult(Unable) = "BadStatus" /\ VoidResult(Unable) = "BadStatus"
    BY <1>1, <2>1 DEF GetResult, CommitResult, SetResult, BoolResult, VoidResult, StatusError
  <2> QED
    BY <2>2 DEF Result
<1> QED
  BY <1>1, <1>2 DEF Truthful, Yes, No

(* And what the store said is understood.                                  *)
LEMMA AnswerTells ==
  ASSUME NEW c, ExactCall(c), NEW times \in Nat \ {0}, NEW o, o.says \in {"yes", "no", "error"},
         c.method \in {"items", "keys", "set", "erase", "eraseAll", "create", "destroy"} =>
           o.says = "yes",
         c.method \in {"item", "compareSet", "compareErase", "unlock", "renew"} =>
           o.says \in {"yes", "no"},
         c.method = "item" /\ o.says = "yes" => o.made # <<>>
  PROVE  Truthful(c, Answer(c.request, o), times, o.says, o.made)
<1> DEFINE r == Answer(c.request, o)
           verb == c.request.verb
<1>1. /\ r.status = Status(c.request, o)
      /\ o.says = "yes" => r.yes
      /\ o.says # "yes" => ~ r.yes
      /\ r.made = IF verb \in {"GET", "TXN", "CREATE"} THEN o.made ELSE <<>>
  BY DEF Answer
<1> SUFFICES Truthful(c, r, times, o.says, o.made)
  OBVIOUS
<1> HIDE DEF r
<1>2. Success(200) /\ ~ Success(404) /\ ~ Success(409) /\ ~ Success(500)
  BY DEF Success
<1>3. CASE c.method = "commit"
  <2>1. verb = "TXN"
    BY <1>3 DEF ExactCall, GoodCall
  <2>2. r.status = IF o.says = "yes" THEN 200 ELSE 409
    BY <1>1, <2>1 DEF Status
  <2>3. Result(c.method, r) = CommitResult(r)
    BY <1>3 DEF Result
  <2> QED
    BY <1>1, <1>3, <2>1, <2>2, <2>3 DEF Truthful, CommitResult, Yes, No, Tells
<1>4. CASE c.method \in {"item", "items", "keys"}
  <2>1. verb = "GET"
    BY <1>4 DEF ExactCall, Kinds
  <2>2. r.status = IF o.says = "no" \/ o.made = <<>> THEN 404 ELSE 200
    BY <1>1, <1>4, <2>1 DEF Status
  <2>3. Result(c.method, r) = GetResult(r, IF c.method = "item" THEN "missing" ELSE "ok")
    BY <1>4 DEF Result
  <2> QED
    BY <1>1, <1>2, <1>4, <2>1, <2>2, <2>3 DEF Truthful, GetResult, Yes, No, Tells
<1>5. CASE c.method = "set"
  <2>1. verb = "PUT" /\ Result(c.method, r) = SetResult(r)
    BY <1>5 DEF ExactCall, Kinds, Result
  <2>2. r.status = 200
    BY <1>1, <1>5, <2>1 DEF Status
  <2> QED
    BY <1>1, <1>2, <1>5, <2>1, <2>2 DEF Truthful, SetResult, Yes, No, Tells
<1>6. CASE c.method \in {"compareSet", "compareErase", "lock", "unlock", "destroy"}
  <2>1. verb \in {"PUT", "DELETE", "DESTROY"} /\ Result(c.method, r) = BoolResult(r)
    BY <1>6 DEF ExactCall, Kinds, Result
  <2>2. r.status = IF o.says = "error" THEN 500 ELSE 200
    BY <1>1, <1>6, <2>1 DEF Status
  <2>3. Result(c.method, r) = IF o.says = "yes" THEN "true"
                              ELSE IF o.says = "no" THEN "false" ELSE "BadStatus"
    BY <1>1, <1>2, <2>1, <2>2 DEF BoolResult, StatusError
  <2>4. r.made = <<>> /\ c.method \notin Tells
    BY <1>1, <1>6, <2>1 DEF Tells
  <2> QED
    BY <2>3, <2>4 DEF Truthful, Yes, No
<1>7. CASE c.method \in {"erase", "eraseAll", "create", "renew"}
  <2>1. /\ verb = CASE c.method = "create" -> "CREATE" [] c.method = "renew" -> "RENEW" [] OTHER -> "DELETE"
        /\ Result(c.method, r) = VoidResult(r)
    BY <1>7 DEF ExactCall, Kinds, Result
  <2>2. r.status = IF o.says = "no" THEN 404 ELSE 200
    BY <1>1, <1>7, <2>1 DEF Status
  <2> QED
    BY <1>1, <1>2, <1>7, <2>1, <2>2 DEF Truthful, VoidResult, StatusError, Yes, No, Tells
<1>8. c.method \in {"commit", "item", "items", "keys", "set", "compareSet", "compareErase", "lock",
                    "unlock", "destroy", "erase", "eraseAll", "create", "renew"}
  BY DEF ExactCall, Kinds
<1> QED
  BY <1>3, <1>4, <1>5, <1>6, <1>7, <1>8

-----------------------------------------------------------------------------
(***************************************************************************)
(* The store of AtomicStore is the store of Kv.                            *)
(***************************************************************************)
LEMMA SameTogether ==
  ASSUME NEW s, NEW ops
  PROVE  Promise!Together(s, ops) = Together(s, ops)
BY Zenon DEF Promise!Together, Together, Promise!Step, Step, Promise!Write, Write,
   Promise!Outcome, Outcome, Promise!Deleted, Deleted, Promise!Read, Read, Promise!KeysOnly, KeysOnly,
   Promise!Valid, Valid, Promise!Refuse, Refuse, Promise!Invalidate, Invalidate,
   Promise!NoSession, NoSession, Promise!NoItem, NoItem, Promise!SetToSeq, SetToSeq,
   Promise!IsInjective, IsInjective, Promise!Cardinality, Cardinality

(* So are transactions, whatever the server may do, and the end of sessions. *)
LEMMA SameStore ==
  ASSUME NEW s
  PROVE  /\ \A ops : Promise!Outcomes(s, ops) = Outcomes(s, ops)
         /\ \A id : Promise!Expired(s, id) = Expired(s, id)
<1>1. \A ops : Promise!Together(s, ops) = Together(s, ops)
  BY SameTogether
<1>2. \A ops : Promise!Outcomes(s, ops) = Outcomes(s, ops)
  BY <1>1, Zenon DEF Promise!Outcomes, Outcomes, Promise!NewSession, NewSession, Promise!Outcome, Outcome
<1>3. \A id : Promise!Expired(s, id) = Expired(s, id)
  BY Zenon DEF Promise!Expired, Expired, Promise!Invalidate, Invalidate, Promise!NoItem, NoItem,
     Promise!NoSession, NoSession
<1> QED
  BY <1>2, <1>3

(***************************************************************************)
(* The mapping: what each caller of AtomicStore has asked, what that did,  *)
(* what it was told, and what is late.                                     *)
(***************************************************************************)
AskedAt(t) == IF net[t] = "none" THEN [ops |-> <<>>, once |-> TRUE, tells |-> FALSE] ELSE Asked(call[t])
TookAt(t)  == [times |-> fate[t].times, says |-> fate[t].says, made |-> fate[t].made]
ToldAt(t)  == [says |-> Says(result[t].as), made |-> result[t].made]

AskedMap == [t \in Callers |-> AskedAt(t)]
TookMap  == [t \in Callers |-> TookAt(t)]
ToldMap  == [t \in Callers |-> ToldAt(t)]
LateMap  == [n \in DOMAIN orphans |-> Asked(orphans[n])]

(* What AtomicStore does, in terms of the mapping.                         *)
LEMMA PromiseAsk ==
  ASSUME NEW t, AskedMap[t] = Promise!NoCall, AskedMap'[t] # Promise!NoCall,
         AskedMap' = [AskedMap EXCEPT ![t] = AskedMap'[t]],
         ToldMap' = [ToldMap EXCEPT ![t] = Promise!Silent],
         UNCHANGED <<server, TookMap, LateMap>>
  PROVE  Promise!Ask(t)
BY Zenon DEF Promise!Ask, Promise!Calling, AskedMap, AskedAt, TookMap, TookAt, ToldMap, ToldAt, LateMap

MayStill(t) == /\ AskedMap[t] # Promise!NoCall
               /\ TookMap[t].times < (IF AskedMap[t].once THEN 1 ELSE 2)
(* A call takes effect.                                                    *)
LEMMA PromiseTakes ==
  ASSUME NEW t, MayStill(t), NEW o \in Outcomes(server, AskedMap[t].ops), server' = o.server,
         TookMap' = [TookMap EXCEPT ![t] = [times |-> @.times + 1, says |-> o.says, made |-> o.made]],
         UNCHANGED <<AskedMap, ToldMap, LateMap>>
  PROVE  Promise!TakeEffect(t)
<1>1. o \in Promise!Outcomes(server, AskedMap[t].ops)
  BY SameStore, Zenon
<1> QED
  BY <1>1, Zenon DEF MayStill, Promise!TakeEffect, Promise!MayTake, Promise!Calling,
     AskedMap, AskedAt, TookMap, TookAt, ToldMap, ToldAt, LateMap

(* A call returns and tells what it did.                                   *)
LEMMA PromiseTells ==
  ASSUME NEW t, AskedMap[t] # Promise!NoCall, TookMap[t].times > 0,
         ToldMap' = [ToldMap EXCEPT ![t] =
                       [says |-> IF TookMap[t].says = "yes" THEN "yes" ELSE "no",
                        made |-> IF AskedMap[t].tells THEN TookMap[t].made ELSE <<>>]],
         AskedMap' = [AskedMap EXCEPT ![t] = Promise!NoCall],
         TookMap' = [TookMap EXCEPT ![t] = Promise!Nothing],
         UNCHANGED <<server, LateMap>>
  PROVE  Promise!Tell(t)
BY Zenon DEF Promise!Tell, Promise!Calling, Promise!Ends,
   AskedMap, AskedAt, TookMap, TookAt, ToldMap, ToldAt, LateMap

(* A call throws, and may be late.                                         *)
LEMMA PromiseThrows ==
  ASSUME NEW t, AskedMap[t] # Promise!NoCall,
         ToldMap' = [ToldMap EXCEPT ![t] = Promise!Threw],
         AskedMap' = [AskedMap EXCEPT ![t] = Promise!NoCall],
         TookMap' = [TookMap EXCEPT ![t] = Promise!Nothing],
         server' = server,
         LateMap' = LateMap \/ (MayStill(t) /\ LateMap' = Append(LateMap, AskedMap[t]))
  PROVE  Promise!Throw(t)
BY Zenon DEF MayStill, Promise!Throw, Promise!MayTake, Promise!Calling, Promise!Ends,
   AskedMap, AskedAt, TookMap, TookAt, ToldMap, ToldAt, LateMap

(* A late call takes effect.                                               *)
LEMMA PromiseLate ==
  ASSUME NEW n, NEW o \in Outcomes(server, LateMap[n].ops), server' = o.server,
         LateMap' = RemoveAt(LateMap, n), UNCHANGED <<AskedMap, TookMap, ToldMap>>
  PROVE  Promise!LateEffect(n)
<1>1. o \in Promise!Outcomes(server, LateMap[n].ops)
  BY SameStore, Zenon
<1> QED
  BY <1>1, Zenon DEF Promise!LateEffect, Promise!RemoveAt, RemoveAt,
     AskedMap, AskedAt, TookMap, TookAt, ToldMap, ToldAt, LateMap

(* A session ends.                                                         *)
LEMMA PromiseExpires ==
  ASSUME NEW id, server' = Expired(server, id), UNCHANGED <<AskedMap, TookMap, ToldMap, LateMap>>
  PROVE  Promise!Expire(id)
<1>1. server' = Promise!Expired(server, id)
  BY SameStore, Zenon
<1> QED
  BY <1>1, Zenon DEF Promise!Expire, AskedMap, AskedAt, TookMap, TookAt, ToldMap, ToldAt, LateMap

(***************************************************************************)
(* What the mapping needs to know of a call: that it asks for what its     *)
(* caller meant, is sent twice only without a body, and that the answer    *)
(* tells what it did.                                                      *)
(***************************************************************************)
TellOK(t) ==
  /\ net[t] = "none" => fate[t].says = "nothing" /\ fate[t].made = <<>>
  /\ net[t] # "none" => ExactCall(call[t])
  /\ fate[t].repeated => ~ HasBody(call[t])
  /\ net[t] = "answered" =>
       Truthful(call[t], reply[t], fate[t].times, fate[t].says, fate[t].made)

PromiseInv ==
  /\ \A t \in Callers : TellOK(t)
  /\ \A c \in Range(orphans) : ExactCall(c)

SameFate(t) ==
  /\ fate'[t].times = fate[t].times /\ fate'[t].says = fate[t].says
  /\ fate'[t].made = fate[t].made /\ fate'[t].repeated = fate[t].repeated

(* A caller that nothing happens to.                                       *)
LEMMA TellKeeps ==
  ASSUME NEW u \in Callers, TellOK(u), net'[u] = net[u], call'[u] = call[u],
         reply'[u] = reply[u], SameFate(u)
  PROVE  TellOK(u)'
BY DEF TellOK, SameFate

(* What is seen of it.                                                     *)
LEMMA MapKeeps ==
  ASSUME NEW u \in Callers
  PROVE  /\ net'[u] = net[u] /\ call'[u] = call[u] => AskedAt(u)' = AskedAt(u)
         /\ SameFate(u) => TookAt(u)' = TookAt(u)
         /\ result'[u] = result[u] => ToldAt(u)' = ToldAt(u)
BY DEF AskedAt, TookAt, ToldAt, SameFate

(* The mapping changes where its parts do.                                 *)
LEMMA MapsMove ==
  ASSUME NEW t \in Callers
  PROVE  /\ AskedMap[t] = AskedAt(t) /\ AskedMap'[t] = AskedAt(t)' /\ TookMap[t] = TookAt(t)
         /\ (\A u \in Callers \ {t} : AskedAt(u)' = AskedAt(u)) =>
              AskedMap' = [AskedMap EXCEPT ![t] = AskedAt(t)']
         /\ (\A u \in Callers \ {t} : TookAt(u)' = TookAt(u)) =>
              TookMap' = [TookMap EXCEPT ![t] = TookAt(t)']
         /\ (\A u \in Callers \ {t} : ToldAt(u)' = ToldAt(u)) =>
              ToldMap' = [ToldMap EXCEPT ![t] = ToldAt(t)']
BY DEF AskedMap, TookMap, ToldMap

(* The mapping does not change where its parts do not.                     *)
LEMMA MapsStay ==
  /\ (\A u \in Callers : AskedAt(u)' = AskedAt(u)) => AskedMap' = AskedMap
  /\ (\A u \in Callers : TookAt(u)' = TookAt(u)) => TookMap' = TookMap
  /\ (\A u \in Callers : ToldAt(u)' = ToldAt(u)) => ToldMap' = ToldMap
  /\ orphans' = orphans => LateMap' = LateMap
BY DEF AskedMap, TookMap, ToldMap, LateMap

(* A call has operations.                                                  *)
LEMMA IsCalling ==
  ASSUME NEW c, GoodCall(c)
  PROVE  Asked(c) # Promise!NoCall
<1>1. c.ops # <<>>
  <2> DEFINE ops == c.ops
             one == ops[1]
             two == ops[2]
  <2>1. ops = <<one>> \/ ops = <<one, two>>
    BY DEF GoodCall, GoodOps
  <2> HIDE DEF ops, one, two
  <2>2. ops # <<>>
    BY <2>1
  <2> QED
    BY <2>2 DEF ops
<1> QED
  BY <1>1 DEF Asked, Promise!NoCall

-----------------------------------------------------------------------------
(* A method is called: its caller asks.                                    *)
LEMMA BeginAsks ==
  ASSUME KvInv, UpdateInv, PromiseInv, NEW t \in Callers, NEW method, NEW ops, NEW expect,
         Begin(t, method, ops, expect), ExactCall(CallOf(method, ops))
  PROVE  PromiseInv' /\ Promise!Ask(t)
<1> DEFINE c == CallOf(method, ops)
<1>1. call' = [call EXCEPT ![t] = c]
  BY Zenon DEF Begin, CallOf
<1> HIDE DEF c
<1>2. /\ net[t] = "none" /\ net' = [net EXCEPT ![t] = "sent"]
      /\ fate' = [fate EXCEPT ![t] = [fate[t] EXCEPT !.expect = expect]]
      /\ result' = [result EXCEPT ![t] = NoResult]
      /\ server' = server /\ reply' = reply /\ orphans' = orphans
  BY DEF Begin
<1>3. DOMAIN fate[t] = FateFields /\ ~ fate[t].repeated
  BY <1>2 DEF KvInv, CallerOK, FateOK, FateFields
<1>4. /\ call'[t] = c /\ net'[t] = "sent" /\ SameFate(t) /\ result'[t] = NoResult
      /\ \A u \in Callers \ {t} : /\ call'[u] = call[u] /\ net'[u] = net[u] /\ reply'[u] = reply[u]
                                  /\ result'[u] = result[u] /\ SameFate(u)
  BY <1>1, <1>2, <1>3 DEF KvInv, KvTypes, UpdateInv, FateFields, SameFate
<1>5. ExactCall(c) /\ GoodCall(c)
  BY DEF ExactCall, c
<1>6. PromiseInv'
  <2>1. TellOK(t)'
    BY <1>2, <1>3, <1>4, <1>5 DEF TellOK, SameFate
  <2>2. \A u \in Callers \ {t} : TellOK(u)'
    BY <1>4, TellKeeps DEF PromiseInv
  <2> QED
    BY <1>2, <2>1, <2>2 DEF PromiseInv
<1>7. /\ \A u \in Callers \ {t} : AskedAt(u)' = AskedAt(u) /\ ToldAt(u)' = ToldAt(u)
      /\ \A u \in Callers : TookAt(u)' = TookAt(u)
  BY <1>4, MapKeeps
<1>8. /\ AskedAt(t) = Promise!NoCall
      /\ AskedAt(t)' # Promise!NoCall
      /\ ToldAt(t)' = Promise!Silent
  <2>1. AskedAt(t) = Promise!NoCall
    BY <1>2 DEF AskedAt, Promise!NoCall
  <2>2. AskedAt(t)' = Asked(c)
    BY <1>4 DEF AskedAt
  <2>3. NoResult.as = "none" /\ NoResult.made = <<>> /\ Says("none") = "nothing"
    BY DEF NoResult, Says, Yes, No
  <2> QED
    BY <1>4, <1>5, <2>1, <2>2, <2>3, IsCalling DEF ToldAt, Promise!Silent
<1>9. /\ AskedMap[t] = Promise!NoCall /\ AskedMap'[t] # Promise!NoCall
      /\ AskedMap' = [AskedMap EXCEPT ![t] = AskedMap'[t]]
      /\ ToldMap' = [ToldMap EXCEPT ![t] = Promise!Silent]
      /\ TookMap' = TookMap /\ LateMap' = LateMap
  BY <1>2, <1>7, <1>8, MapsMove, MapsStay
<1> QED
  BY <1>2, <1>6, <1>9, PromiseAsk

(* What the call of a caller may still do.                                 *)
LEMMA SentMayStill ==
  ASSUME KvInv, PromiseInv, NEW t \in Callers, net[t] = "sent"
  PROVE  MayStill(t)
<1>1. ExactCall(call[t]) /\ GoodCall(call[t]) /\ (fate[t].repeated => ~ HasBody(call[t]))
  BY DEF PromiseInv, TellOK, ExactCall
<1>2. fate[t].times \in Nat /\ fate[t].times <= IF fate[t].repeated THEN 1 ELSE 0
  BY DEF KvInv, CallerOK, FateOK
<1>3. AskedAt(t) = Asked(call[t]) /\ AskedAt(t).once = HasBody(call[t]) /\ TookAt(t).times = fate[t].times
  BY DEF AskedAt, Asked, TookAt
<1>4. AskedMap[t] # Promise!NoCall
  BY <1>1, <1>3, IsCalling, MapsMove
<1>5. TookMap[t].times < IF AskedMap[t].once THEN 1 ELSE 2
  <2>1. AskedMap[t].once = HasBody(call[t]) /\ TookMap[t].times = fate[t].times
    BY <1>3, MapsMove
  <2>2. CASE HasBody(call[t])
    BY <1>1, <1>2, <2>1, <2>2
  <2>3. CASE ~ HasBody(call[t])
    BY <1>2, <2>1, <2>3
  <2> QED
    BY <2>2, <2>3
<1> QED
  BY <1>4, <1>5 DEF MayStill

(* The server processes a call: it takes effect.                           *)
LEMMA ProcessTakes ==
  ASSUME KvInv, PromiseInv, NEW t \in Callers, Process(t)
  PROVE  PromiseInv' /\ Promise!TakeEffect(t)
<1> DEFINE c == call[t]
           r == c.request
           ops == c.ops
<1>1. PICK o \in Outcomes(server, Decode(r)), fails \in BOOLEAN :
        /\ TakeEffect(o, ops)
        /\ fate' = [u \in Callers |->
                [fate[u] EXCEPT
                   !.broken = Breaks(u, ops, o.says = "yes"),
                   !.before = IF u = t /\ fate[t].expect # {} THEN server.store ELSE @,
                   !.times = IF u = t THEN @ + 1 ELSE @,
                   !.took = IF u = t THEN @ \/ o.says = "yes" ELSE @,
                   !.says = IF u = t THEN o.says ELSE @,
                   !.made = IF u = t THEN o.made ELSE @]]
        /\ reply' = [reply EXCEPT ![t] = IF fails THEN Unable ELSE Answer(r, o)]
  BY Zenon DEF Process
<1>2. /\ net[t] = "sent" /\ net' = [net EXCEPT ![t] = "answered"]
      /\ call' = call /\ orphans' = orphans /\ result' = result
  BY DEF Process, callerVars
<1>3. ExactCall(c) /\ Decode(r) = ops /\ TellOK(t)
  BY <1>2 DEF PromiseInv, TellOK, ExactCall
<1>4. ASSUME NEW u \in Callers
      PROVE  /\ fate'[u].repeated = fate[u].repeated
             /\ fate'[u].times = IF u = t THEN fate[u].times + 1 ELSE fate[u].times
             /\ fate'[u].says = IF u = t THEN o.says ELSE fate[u].says
             /\ fate'[u].made = IF u = t THEN o.made ELSE fate[u].made
  <2> DEFINE f == fate[u]
             broken == Breaks(u, ops, o.says = "yes")
             before == IF u = t /\ fate[t].expect # {} THEN server.store ELSE f.before
             times == IF u = t THEN f.times + 1 ELSE f.times
             took == IF u = t THEN f.took \/ o.says = "yes" ELSE f.took
             says == IF u = t THEN o.says ELSE f.says
             made == IF u = t THEN o.made ELSE f.made
  <2>1. DOMAIN f = FateFields
    BY DEF KvInv, CallerOK, FateOK, FateFields
  <2>2. fate'[u] = [f EXCEPT !.broken = broken, !.before = before, !.times = times, !.took = took,
                              !.says = says, !.made = made]
    BY <1>1, <2>1 DEF FateFields
  <2> HIDE DEF f, broken, before, took, says, made, times
  <2>3. /\ fate'[u].repeated = f.repeated /\ fate'[u].times = times
        /\ fate'[u].says = says /\ fate'[u].made = made
    BY <2>1, <2>2 DEF FateFields
  <2> QED
    BY <2>3 DEF f, times, says, made
<1>5. \A u \in Callers \ {t} : SameFate(u)
  BY <1>4 DEF SameFate
<1>6. net'[t] = "answered" /\ reply'[t] \in {Unable, Answer(r, o)}
      /\ \A u \in Callers \ {t} : net'[u] = net[u] /\ reply'[u] = reply[u]
  BY <1>1, <1>2 DEF KvInv, KvTypes
<1>7. Truthful(c, reply'[t], fate'[t].times, fate'[t].says, fate'[t].made)
  <2>1. fate'[t].times \in Nat \ {0} /\ fate'[t].says = o.says /\ fate'[t].made = o.made
    BY <1>4 DEF KvInv, CallerOK, FateOK
  <2>2. CASE reply'[t] = Unable
    BY <1>3, <2>2, UnableTells
  <2>3. CASE reply'[t] = Answer(r, o)
    <3>1. /\ o.says \in {"yes", "no", "error"}
          /\ c.method \in {"items", "keys", "set", "erase", "eraseAll", "create", "destroy"} =>
               o.says = "yes"
          /\ c.method \in {"item", "compareSet", "compareErase", "unlock", "renew"} =>
               o.says \in {"yes", "no"}
          /\ c.method = "item" /\ o.says = "yes" => o.made # <<>>
      BY <1>3, CallSays DEF KvInv, KvTypes
    <3> QED
      BY <1>3, <2>1, <2>3, <3>1, AnswerTells
  <2> QED
    BY <1>6, <2>2, <2>3
<1>8. PromiseInv'
  <2>1. TellOK(t)'
    BY <1>2, <1>3, <1>4, <1>6, <1>7 DEF TellOK
  <2>2. \A u \in Callers \ {t} : TellOK(u)'
    BY <1>2, <1>5, <1>6, TellKeeps DEF PromiseInv
  <2> QED
    BY <1>2, <2>1, <2>2 DEF PromiseInv
<1>9. /\ \A u \in Callers : AskedAt(u)' = AskedAt(u) /\ ToldAt(u)' = ToldAt(u)
      /\ \A u \in Callers \ {t} : TookAt(u)' = TookAt(u)
  <2>1. AskedAt(t)' = AskedAt(t)
    BY <1>2, <1>6 DEF AskedAt
  <2> QED
    BY <1>2, <1>5, <1>6, <2>1, MapKeeps
<1>10. AskedMap' = AskedMap /\ ToldMap' = ToldMap /\ LateMap' = LateMap
  BY <1>2, <1>9, MapsStay
<1>11. TookMap' = [TookMap EXCEPT ![t] = [times |-> @.times + 1, says |-> o.says, made |-> o.made]]
  <2>1. TookAt(t)' = [times |-> TookAt(t).times + 1, says |-> o.says, made |-> o.made]
    BY <1>4 DEF TookAt
  <2>2. TookMap' = [TookMap EXCEPT ![t] = TookAt(t)'] /\ TookMap[t] = TookAt(t)
    BY <1>9, MapsMove
  <2>3. t \in DOMAIN TookMap
    BY DEF TookMap
  <2> QED
    BY <2>1, <2>2, <2>3
<1>12. MayStill(t)
  BY <1>2, SentMayStill
<1>13. AskedMap[t].ops = ops
  <2>1. AskedAt(t).ops = ops
    BY <1>2 DEF AskedAt, Asked
  <2> QED
    BY <2>1, MapsMove
<1>14. o \in Outcomes(server, AskedMap[t].ops) /\ server' = o.server
  BY <1>1, <1>3, <1>13 DEF TakeEffect
<1> QED
  BY <1>8, <1>10, <1>11, <1>12, <1>14, PromiseTakes

(* Nothing that AtomicStore sees has changed.                              *)
Unseen == Promise!vars' = Promise!vars

(* The parts of what AtomicStore sees.                                     *)
LEMMA UnseenIs ==
  ASSUME server' = server, AskedMap' = AskedMap, TookMap' = TookMap, ToldMap' = ToldMap,
         LateMap' = LateMap
  PROVE  Unseen
BY Zenon DEF Unseen, Promise!vars, AskedMap, AskedAt, TookMap, TookAt, ToldMap, ToldAt, LateMap

(* An error answer, before its caller has it, is not seen.                 *)
LEMMA RejectUnseen ==
  ASSUME KvInv, PromiseInv, NEW t \in Callers, Reject(t)
  PROVE  PromiseInv' /\ Unseen
<1>1. /\ net[t] = "sent" /\ net' = [net EXCEPT ![t] = "answered"]
      /\ reply' = [reply EXCEPT ![t] = Unable]
      /\ server' = server /\ call' = call /\ orphans' = orphans /\ fate' = fate /\ result' = result
  BY DEF Reject, callerVars
<1>2. net'[t] = "answered" /\ reply'[t] = Unable
      /\ \A u \in Callers \ {t} : net'[u] = net[u] /\ reply'[u] = reply[u]
  BY <1>1 DEF KvInv, KvTypes
<1>3. \A u \in Callers : SameFate(u)
  BY <1>1 DEF SameFate
<1>4. PromiseInv'
  <2>1. TellOK(t) /\ ExactCall(call[t])
    BY <1>1 DEF PromiseInv, TellOK
  <2>2. Truthful(call[t], Unable, fate[t].times, fate[t].says, fate[t].made)
    BY <2>1, UnableTells
  <2>3. TellOK(t)'
    BY <1>1, <1>2, <2>1, <2>2 DEF TellOK
  <2>4. \A u \in Callers \ {t} : TellOK(u)'
    BY <1>1, <1>2, <1>3, TellKeeps DEF PromiseInv
  <2> QED
    BY <1>1, <2>3, <2>4 DEF PromiseInv
<1>5. \A u \in Callers : AskedAt(u)' = AskedAt(u) /\ TookAt(u)' = TookAt(u) /\ ToldAt(u)' = ToldAt(u)
  <2>1. AskedAt(t)' = AskedAt(t)
    BY <1>1, <1>2 DEF AskedAt
  <2> QED
    BY <1>1, <1>2, <1>3, <2>1, MapKeeps
<1> QED
  BY <1>1, <1>4, <1>5, MapsStay, UnseenIs

(* Neither is a request that is on its way again.                          *)
LEMMA RepeatUnseen ==
  ASSUME KvInv, PromiseInv, NEW t \in Callers, Repeat(t)
  PROVE  PromiseInv' /\ Unseen
<1>1. /\ net[t] = "answered" /\ net' = [net EXCEPT ![t] = "sent"] /\ ~ HasBody(call[t])
      /\ fate' = [fate EXCEPT ![t] = [fate[t] EXCEPT !.repeated = TRUE]]
      /\ server' = server /\ call' = call /\ orphans' = orphans /\ reply' = reply /\ result' = result
  BY DEF Repeat, callerVars
<1>2. net'[t] = "sent" /\ fate'[t] = [fate[t] EXCEPT !.repeated = TRUE]
      /\ \A u \in Callers \ {t} : net'[u] = net[u] /\ fate'[u] = fate[u]
  BY <1>1 DEF KvInv, KvTypes
<1>3. fate'[t].times = fate[t].times /\ fate'[t].says = fate[t].says /\ fate'[t].made = fate[t].made
  <2>1. DOMAIN fate[t] = FateFields
    BY DEF KvInv, CallerOK, FateOK, FateFields
  <2> QED
    BY <1>2, <2>1 DEF FateFields
<1>4. PromiseInv'
  <2>1. TellOK(t)
    BY DEF PromiseInv
  <2>2. TellOK(t)'
    BY <1>1, <1>2, <2>1 DEF TellOK
  <2>3. \A u \in Callers \ {t} : SameFate(u)
    BY <1>2 DEF SameFate
  <2>4. \A u \in Callers \ {t} : TellOK(u)'
    BY <1>1, <1>2, <2>3, TellKeeps DEF PromiseInv
  <2> QED
    BY <1>1, <2>2, <2>4 DEF PromiseInv
<1>5. \A u \in Callers : AskedAt(u)' = AskedAt(u) /\ TookAt(u)' = TookAt(u) /\ ToldAt(u)' = ToldAt(u)
  <2>1. AskedAt(t)' = AskedAt(t) /\ TookAt(t)' = TookAt(t)
    BY <1>1, <1>2, <1>3 DEF AskedAt, TookAt
  <2>2. \A u \in Callers \ {t} : AskedAt(u)' = AskedAt(u) /\ TookAt(u)' = TookAt(u)
    BY <1>1, <1>2 DEF AskedAt, TookAt
  <2> QED
    BY <1>1, <2>1, <2>2, MapKeeps
<1> QED
  BY <1>1, <1>4, <1>5, MapsStay, UnseenIs

(* The call of a caller is over.                                           *)
LEMMA EndForgets ==
  ASSUME KvInv, PromiseInv, NEW t \in Callers, net[t] # "none", Ends(t),
         \A c \in Range(orphans') : ExactCall(c)
  PROVE  /\ PromiseInv'
         /\ AskedMap[t] = Asked(call[t]) /\ AskedMap[t] # Promise!NoCall
         /\ AskedMap' = [AskedMap EXCEPT ![t] = Promise!NoCall]
         /\ TookMap' = [TookMap EXCEPT ![t] = Promise!Nothing]
<1>1. /\ net' = [net EXCEPT ![t] = "none"]
      /\ call' = [call EXCEPT ![t] = NoCall]
      /\ reply' = [reply EXCEPT ![t] = NoReply]
      /\ fate' = [fate EXCEPT ![t] = NoFate]
  BY DEF Ends
<1>2. /\ net'[t] = "none" /\ fate'[t] = NoFate
      /\ \A u \in Callers \ {t} : /\ net'[u] = net[u] /\ call'[u] = call[u] /\ reply'[u] = reply[u]
                                  /\ SameFate(u)
  BY <1>1 DEF KvInv, KvTypes, SameFate
<1>3. NoFate.times = 0 /\ NoFate.says = "nothing" /\ NoFate.made = <<>> /\ ~ NoFate.repeated
  BY DEF NoFate
<1>4. TellOK(t)'
  BY <1>2, <1>3 DEF TellOK
<1>5. PromiseInv'
  BY <1>2, <1>4, TellKeeps DEF PromiseInv
<1>6. AskedAt(t)' = Promise!NoCall /\ TookAt(t)' = Promise!Nothing
  BY <1>2, <1>3 DEF AskedAt, TookAt, Promise!NoCall, Promise!Nothing
<1>7. \A u \in Callers \ {t} : AskedAt(u)' = AskedAt(u) /\ TookAt(u)' = TookAt(u)
  BY <1>2, MapKeeps
<1>8. AskedAt(t) = Asked(call[t]) /\ GoodCall(call[t])
  BY DEF AskedAt, PromiseInv, TellOK, ExactCall
<1>9. AskedMap[t] = Asked(call[t]) /\ AskedMap[t] # Promise!NoCall
  BY <1>8, IsCalling, MapsMove
<1> QED
  BY <1>5, <1>6, <1>7, <1>9, MapsMove

(* A late request is a late call.                                          *)
LEMMA LateAppend ==
  ASSUME LateOK, NEW c, orphans' = Append(orphans, c)
  PROVE  LateMap' = Append(LateMap, Asked(c))
<1> DEFINE n == Len(orphans)
<1>1. n \in Nat /\ DOMAIN orphans = 1 .. n
  BY DEF LateOK
<1>2. /\ DOMAIN orphans' = 1 .. n + 1 /\ orphans'[n + 1] = c
      /\ \A i \in 1 .. n : orphans'[i] = orphans[i]
  BY AppendAdds DEF LateOK
<1> HIDE DEF n
<1>3. LateMap \in [1 .. n -> {Asked(orphans[i]) : i \in 1 .. n}]
  BY <1>1 DEF LateMap
<1>4. /\ LateMap \in Seq({Asked(orphans[i]) : i \in 1 .. n}) /\ Len(LateMap) = n
      /\ \A i \in 1 .. n : LateMap[i] = Asked(orphans[i])
  BY <1>1, <1>3 DEF LateMap
<1> DEFINE S == {Asked(orphans[i]) : i \in 1 .. n} \cup {Asked(c)}
           a == Append(LateMap, Asked(c))
<1>5. LateMap \in Seq(S) /\ Asked(c) \in S
  BY <1>4
<1> HIDE DEF S
<1>6. /\ a \in Seq(S) /\ Len(a) = n + 1 /\ a[n + 1] = Asked(c)
      /\ \A i \in 1 .. n : a[i] = LateMap[i]
  BY <1>4, <1>5
<1>7. LateMap' = [i \in 1 .. n + 1 |-> Asked(orphans'[i])]
  BY <1>2 DEF LateMap
<1>8. \A i \in 1 .. n + 1 : a[i] = Asked(orphans'[i])
  BY <1>1, <1>2, <1>4, <1>6
<1>9. a = [i \in 1 .. n + 1 |-> a[i]]
  <2> HIDE DEF a
  <2> QED
    BY <1>1, <1>6
<1> QED
  BY <1>7, <1>8, <1>9

(* Giving up is throwing.                                                  *)
LEMMA GiveUpThrows ==
  ASSUME KvInv, UpdateInv, PromiseInv, NEW t \in Callers, GiveUp(t)
  PROVE  PromiseInv' /\ Promise!Throw(t)
<1> DEFINE threw == [NoResult EXCEPT !.as = "threw"]
<1>1. threw.as = "threw" /\ threw.made = <<>>
  BY DEF NoResult
<1>2. /\ net[t] # "none" /\ Ends(t) /\ server' = server
      /\ orphans' = IF net[t] = "sent" /\ Changes(call[t]) THEN Append(orphans, call[t]) ELSE orphans
      /\ result' = [result EXCEPT ![t] = threw]
  BY DEF GiveUp
<1> HIDE DEF threw
<1>3. ExactCall(call[t]) /\ LateOK
  BY <1>2 DEF PromiseInv, TellOK, KvInv
<1>4. CASE orphans' = orphans
  <2>1. \A c \in Range(orphans') : ExactCall(c)
    BY <1>4 DEF PromiseInv
  <2>2. LateMap' = LateMap
    BY <1>4, MapsStay
  <2>3. ToldMap' = [ToldMap EXCEPT ![t] = Promise!Threw]
    <3>1. result'[t] = threw /\ \A u \in Callers \ {t} : result'[u] = result[u]
      BY <1>2 DEF UpdateInv
    <3>2. ToldAt(t)' = Promise!Threw
      BY <1>1, <3>1 DEF ToldAt, Says, Yes, No, Promise!Threw
    <3> QED
      BY <3>1, <3>2, MapKeeps, MapsMove
  <2> QED
    BY <1>2, <2>1, <2>2, <2>3, EndForgets, PromiseThrows
<1>5. CASE net[t] = "sent" /\ orphans' = Append(orphans, call[t])
  <2>1. \A c \in Range(orphans') : ExactCall(c)
    <3>1. Range(orphans') \subseteq Range(orphans) \cup {call[t]}
      BY <1>3, <1>5, AppendAdds DEF LateOK
    <3> QED
      BY <1>3, <3>1 DEF PromiseInv
  <2>2. LateMap' = Append(LateMap, Asked(call[t])) /\ MayStill(t)
    BY <1>3, <1>5, LateAppend, SentMayStill
  <2>3. ToldMap' = [ToldMap EXCEPT ![t] = Promise!Threw]
    <3>1. result'[t] = threw /\ \A u \in Callers \ {t} : result'[u] = result[u]
      BY <1>2 DEF UpdateInv
    <3>2. ToldAt(t)' = Promise!Threw
      BY <1>1, <3>1 DEF ToldAt, Says, Yes, No, Promise!Threw
    <3> QED
      BY <3>1, <3>2, MapKeeps, MapsMove
  <2> QED
    BY <1>2, <2>1, <2>2, <2>3, EndForgets, PromiseThrows
<1> QED
  BY <1>2, <1>4, <1>5

(* A method returns: a yes and a no tell what its call did, anything else  *)
(* tells nothing.                                                          *)
LEMMA ReturnTells ==
  ASSUME KvInv, UpdateInv, PromiseInv, NEW t \in Callers, Return(t)
  PROVE  PromiseInv' /\ (Promise!Tell(t) \/ Promise!Throw(t))
<1> DEFINE c == call[t]
           as == Result(c.method, reply[t])
           told == [as |-> as, made |-> reply[t].made]
<1>1. result' = [result EXCEPT ![t] = told]
  BY Zenon DEF Return
<1>2. net[t] = "answered" /\ Ends(t) /\ server' = server /\ orphans' = orphans
  BY DEF Return
<1>3. Truthful(c, reply[t], fate[t].times, fate[t].says, fate[t].made)
  BY <1>2 DEF PromiseInv, TellOK
<1> HIDE DEF as
<1>4. told.as = as /\ told.made = reply[t].made
  OBVIOUS
<1> HIDE DEF told
<1>5. result'[t] = told /\ \A u \in Callers \ {t} : result'[u] = result[u]
  BY <1>1 DEF UpdateInv
<1>6. ToldMap' = [ToldMap EXCEPT ![t] = ToldAt(t)']
  BY <1>5, MapKeeps, MapsMove
<1>7. ToldAt(t)' = [says |-> Says(as), made |-> reply[t].made]
  BY <1>4, <1>5 DEF ToldAt
<1>8. /\ PromiseInv' /\ LateMap' = LateMap
      /\ AskedMap[t] = Asked(c) /\ AskedMap[t] # Promise!NoCall
      /\ AskedMap' = [AskedMap EXCEPT ![t] = Promise!NoCall]
      /\ TookMap' = [TookMap EXCEPT ![t] = Promise!Nothing]
  <2>1. \A d \in Range(orphans') : ExactCall(d)
    BY <1>2 DEF PromiseInv
  <2> QED
    BY <1>2, <2>1, EndForgets, MapsStay
<1>9. /\ TookMap[t].times = fate[t].times /\ TookMap[t].says = fate[t].says
      /\ TookMap[t].made = fate[t].made
  <2>1. TookMap[t] = TookAt(t)
    BY MapsMove
  <2> QED
    BY <2>1 DEF TookAt
<1>10. CASE as \in Yes \cup No
  <2>1. Says(as) = IF fate[t].says = "yes" THEN "yes" ELSE "no"
    BY <1>3, <1>10 DEF Truthful, Says, Yes, No, as
  <2>2. fate[t].times > 0 /\ reply[t].made = IF c.method \in Tells THEN fate[t].made ELSE <<>>
    BY <1>3, <1>10 DEF Truthful, as
  <2>3. AskedMap[t].tells = (c.method \in Tells)
    BY <1>8 DEF Asked
  <2>4. ToldAt(t)' = [says |-> IF TookMap[t].says = "yes" THEN "yes" ELSE "no",
                      made |-> IF AskedMap[t].tells THEN TookMap[t].made ELSE <<>>]
    <3>1. reply[t].made = IF AskedMap[t].tells THEN TookMap[t].made ELSE <<>>
      BY <1>9, <2>2, <2>3
    <3>2. Says(as) = IF TookMap[t].says = "yes" THEN "yes" ELSE "no"
      BY <1>9, <2>1
    <3> QED
      BY <1>7, <3>1, <3>2
  <2>5. TookMap[t].times > 0
    BY <1>9, <2>2
  <2>6. ToldMap' = [ToldMap EXCEPT ![t] =
                      [says |-> IF TookMap[t].says = "yes" THEN "yes" ELSE "no",
                       made |-> IF AskedMap[t].tells THEN TookMap[t].made ELSE <<>>]]
    BY <1>6, <2>4, Zenon
  <2> QED
    BY <1>2, <1>8, <2>5, <2>6, PromiseTells
<1>11. CASE as \notin Yes \cup No
  <2>1. Says(as) = "threw" /\ reply[t].made = <<>>
    BY <1>3, <1>11 DEF Truthful, Says, as
  <2>2. ToldMap' = [ToldMap EXCEPT ![t] = Promise!Threw]
    BY <1>6, <1>7, <2>1 DEF Promise!Threw
  <2> QED
    BY <1>2, <1>8, <2>2, PromiseThrows
<1> QED
  BY <1>8, <1>10, <1>11

(* One of the late requests is no longer late.                             *)
LEMMA LateRemoved ==
  ASSUME LateOK, NEW n \in DOMAIN orphans, orphans' = RemoveAt(orphans, n)
  PROVE  n \in DOMAIN LateMap /\ LateMap' = RemoveAt(LateMap, n)
<1> DEFINE m == Len(orphans)
           r == RemoveAt(LateMap, n)
<1>1. m \in Nat /\ DOMAIN orphans = 1 .. m
  BY DEF LateOK
<1>2. /\ DOMAIN orphans' = 1 .. m - 1
      /\ \A i \in 1 .. m - 1 : orphans'[i] = orphans[IF i < n THEN i ELSE i + 1]
  BY RemoveLeaves DEF LateOK
<1> HIDE DEF m
<1>3. LateMap \in [1 .. m -> {Asked(orphans[i]) : i \in 1 .. m}]
  BY <1>1 DEF LateMap
<1>4. /\ DOMAIN LateMap = 1 .. m /\ Len(LateMap) = m /\ LateMap \in Seq(Range(LateMap))
      /\ \A i \in 1 .. m : LateMap[i] = Asked(orphans[i])
  <2>1. DOMAIN LateMap = 1 .. m /\ LateMap = [i \in 1 .. m |-> LateMap[i]]
    BY <1>1 DEF LateMap
  <2>2. \A i \in 1 .. m : LateMap[i] \in Range(LateMap)
    BY <2>1 DEF Range
  <2>3. \A i \in 1 .. m : LateMap[i] = Asked(orphans[i])
    BY <1>1 DEF LateMap
  <2> QED
    BY <1>1, <2>1, <2>2, <2>3
<1>5. /\ DOMAIN r = 1 .. m - 1 /\ r \in Seq(Range(r))
      /\ \A i \in 1 .. m - 1 : r[i] = LateMap[IF i < n THEN i ELSE i + 1]
  BY <1>1, <1>4, RemoveLeaves
<1> HIDE DEF r
<1>6. LateMap' = [i \in 1 .. m - 1 |-> Asked(orphans'[i])]
  BY <1>2 DEF LateMap
<1>7. \A i \in 1 .. m - 1 : r[i] = Asked(orphans'[i])
  <2> TAKE i \in 1 .. m - 1
  <2> DEFINE j == IF i < n THEN i ELSE i + 1
  <2>1. j \in 1 .. m
    BY <1>1
  <2>2. r[i] = LateMap[j] /\ orphans'[i] = orphans[j]
    BY <1>2, <1>5
  <2> HIDE DEF j
  <2> QED
    BY <1>4, <2>1, <2>2
<1>8. r = [i \in 1 .. m - 1 |-> r[i]]
  BY <1>5
<1> QED
  BY <1>1, <1>4, <1>6, <1>7, <1>8 DEF r

(* What the server does for no caller that waits for it is not told.       *)
LEMMA OthersUntold ==
  ASSUME KvInv, PromiseInv, NEW ops, NEW yes \in BOOLEAN,
         fate' = [u \in Callers |-> [fate[u] EXCEPT !.broken = Breaks(u, ops, yes)]],
         call' = call, net' = net, reply' = reply, result' = result,
         Range(orphans') \subseteq Range(orphans)
  PROVE  PromiseInv' /\ AskedMap' = AskedMap /\ TookMap' = TookMap /\ ToldMap' = ToldMap
<1>1. ASSUME NEW u \in Callers
      PROVE  SameFate(u)
  <2>1. DOMAIN fate[u] = FateFields
    BY DEF KvInv, CallerOK, FateOK, FateFields
  <2> QED
    BY <2>1 DEF FateFields, SameFate
<1>2. PromiseInv'
  BY <1>1, TellKeeps DEF PromiseInv
<1> QED
  BY <1>1, <1>2, MapKeeps, MapsStay

(* A call that its caller has given up takes effect.                       *)
LEMMA OrphanTakes ==
  ASSUME KvInv, PromiseInv, NEW n \in DOMAIN orphans, ProcessOrphan(n)
  PROVE  PromiseInv' /\ n \in DOMAIN LateMap /\ Promise!LateEffect(n)
<1> DEFINE c == orphans[n]
<1>1. PICK o \in Outcomes(server, Decode(c.request)) :
        /\ TakeEffect(o, c.ops)
        /\ fate' = [u \in Callers |-> [fate[u] EXCEPT !.broken = Breaks(u, c.ops, o.says = "yes")]]
  BY Zenon DEF ProcessOrphan
<1>2. /\ orphans' = RemoveAt(orphans, n)
      /\ call' = call /\ net' = net /\ reply' = reply /\ result' = result
  BY DEF ProcessOrphan, callerVars
<1>3. LateOK
  BY DEF KvInv
<1>4. Range(orphans') \subseteq Range(orphans)
  BY <1>2, <1>3, RemoveLeaves DEF LateOK
<1> DEFINE yes == o.says = "yes"
<1>5. yes \in BOOLEAN /\ fate' = [u \in Callers |-> [fate[u] EXCEPT !.broken = Breaks(u, c.ops, yes)]]
  BY <1>1, Zenon
<1> HIDE DEF yes
<1>6. PromiseInv' /\ AskedMap' = AskedMap /\ TookMap' = TookMap /\ ToldMap' = ToldMap
  BY <1>2, <1>4, <1>5, OthersUntold
<1>7. n \in DOMAIN LateMap /\ LateMap' = RemoveAt(LateMap, n)
  BY <1>2, <1>3, LateRemoved
<1>8. o \in Outcomes(server, LateMap[n].ops) /\ server' = o.server
  <2>1. Decode(c.request) = c.ops
    BY DEF PromiseInv, Range, ExactCall
  <2>2. LateMap[n].ops = c.ops
    BY DEF LateMap, Asked
  <2> QED
    BY <1>1, <2>1, <2>2 DEF TakeEffect
<1> QED
  BY <1>6, <1>7, <1>8, PromiseLate

(* A session ends at the server.                                           *)
LEMMA ExpireExpires ==
  ASSUME KvInv, PromiseInv, NEW id, Expire(id)
  PROVE  PromiseInv' /\ Promise!Expire(id)
<1> DEFINE n == Expired(server, id)
           ops == <<Op("destroy", Empty, 0, id, Empty)>>
<1>1. /\ TakeEffect(Outcome(n, "yes", <<>>), ops)
      /\ fate' = [u \in Callers |-> [fate[u] EXCEPT !.broken = Breaks(u, ops, TRUE)]]
      /\ UNCHANGED <<call, net, reply, orphans, callerVars, calls, workload>>
  BY Zenon DEF Expire
<1> HIDE DEF n, ops
<1>2. server' = n
  BY <1>1, OutcomeFields DEF TakeEffect
<1>3. call' = call /\ net' = net /\ reply' = reply /\ result' = result /\ orphans' = orphans
  BY <1>1 DEF callerVars
<1>4. Range(orphans') \subseteq Range(orphans) /\ TRUE \in BOOLEAN
  BY <1>3
<1>5. PromiseInv' /\ AskedMap' = AskedMap /\ TookMap' = TookMap /\ ToldMap' = ToldMap
  BY <1>1, <1>3, <1>4, OthersUntold
<1>6. LateMap' = LateMap
  BY <1>3, MapsStay
<1> QED
  BY <1>2, <1>5, <1>6, PromiseExpires DEF n

HasVerb(r, verb) == r.verb = verb

(* What is asked with a verb has that verb.                                *)
LEMMA HttpVerb ==
  ASSUME NEW verb, NEW at, NEW args, NEW b
  PROVE  HasVerb(Http(verb, at, args, b), verb)
<1> DEFINE q == QueryOf(args)
           path == Squashed(at)
           r == [verb |-> verb, path |-> path, body |-> b, ops |-> <<>>, query |-> q]
<1>1. Http(verb, at, args, b) = r
  BY Zenon DEF Http, QueryOf
<1> HIDE DEF q, path
<1>2. r.verb = verb
  OBVIOUS
<1> QED
  BY <1>1, <1>2 DEF HasVerb

(* The HTTP verb of each method.                                           *)
LEMMA RequestVerbs ==
  ASSUME NEW op, NEW method \in {"item", "items", "keys", "set", "erase", "eraseAll", "compareSet",
                                 "compareErase", "lock", "unlock", "create", "renew", "destroy"}
  PROVE  Request(method, <<op>>).verb =
           CASE method \in {"item", "items", "keys"} -> "GET"
             [] method \in {"set", "compareSet", "lock", "unlock"} -> "PUT"
             [] method \in {"erase", "eraseAll", "compareErase"} -> "DELETE"
             [] method = "create" -> "CREATE"
             [] method = "renew" -> "RENEW"
             [] method = "destroy" -> "DESTROY"
<1>1. HasVerb(ItemRequest(op), "GET")
  BY HttpVerb, Zenon DEF ItemRequest
<1>2. HasVerb(ItemsRequest(op), "GET")
  BY HttpVerb, Zenon DEF ItemsRequest
<1>3. HasVerb(KeysRequest(op), "GET")
  BY HttpVerb, Zenon DEF KeysRequest
<1>4. HasVerb(SetRequest(op), "PUT")
  BY HttpVerb, Zenon DEF SetRequest
<1>5. HasVerb(CompareSetRequest(op), "PUT")
  BY HttpVerb, Zenon DEF CompareSetRequest
<1>6. HasVerb(LockRequest(op), "PUT")
  BY HttpVerb, Zenon DEF LockRequest
<1>7. HasVerb(UnlockRequest(op), "PUT")
  BY HttpVerb, Zenon DEF UnlockRequest
<1>8. HasVerb(EraseRequest(op), "DELETE")
  BY HttpVerb, Zenon DEF EraseRequest
<1>9. HasVerb(EraseAllRequest(op), "DELETE")
  BY HttpVerb, Zenon DEF EraseAllRequest
<1>10. HasVerb(CompareEraseRequest(op), "DELETE")
  BY HttpVerb, Zenon DEF CompareEraseRequest
<1>11. HasVerb(CreateSessionRequest(op), "CREATE")
  BY HttpVerb, Zenon DEF CreateSessionRequest
<1>12. HasVerb(RenewRequest(op), "RENEW")
  BY HttpVerb, Zenon DEF RenewRequest
<1>13. HasVerb(DestroyRequest(op), "DESTROY")
  BY HttpVerb, Zenon DEF DestroyRequest
<1>14. <<op>>[1] = op
  OBVIOUS
<1> QED
  BY <1>1, <1>2, <1>3, <1>4, <1>5, <1>6, <1>7,
     <1>8, <1>9, <1>10, <1>11, <1>12, <1>13, <1>14 DEF Request, HasVerb

(* A method that asks for one operation asks for it exactly.               *)
LEMMA OneAsks ==
  ASSUME KvInv, UpdateInv, PromiseInv, NEW t \in Callers, NEW method,
         NEW verb, NEW at, NEW i, NEW id, NEW b, NEW expect,
         Begin(t, method, <<Op(verb, at, i, id, b)>>, expect),
         GoodCall(CallOf(method, <<Op(verb, at, i, id, b)>>)),
         \E http : <<method, http, verb>> \in Kinds
  PROVE  PromiseInv' /\ Promise!Ask(t)
<1> DEFINE op == Op(verb, at, i, id, b)
           ops == <<op>>
           r == Request(method, ops)
           c == CallOf(method, ops)
<1>1. op.verb = verb
  BY OpFields
<1>2. Begin(t, method, ops, expect) /\ GoodCall(c)
  BY Zenon
<1> HIDE DEF op
<1>3. ops[1] = op
  OBVIOUS
<1>4. <<method, r.verb, verb>> \in Kinds
  <2>1. PICK http : <<method, http, verb>> \in Kinds
    OBVIOUS
  <2>2. method \in {"item", "items", "keys", "set", "erase", "eraseAll", "compareSet",
                    "compareErase", "lock", "unlock", "create", "renew", "destroy"}
    BY <2>1 DEF Kinds
  <2>3. r.verb = CASE method \in {"item", "items", "keys"} -> "GET"
             [] method \in {"set", "compareSet", "lock", "unlock"} -> "PUT"
             [] method \in {"erase", "eraseAll", "compareErase"} -> "DELETE"
             [] method = "create" -> "CREATE"
             [] method = "renew" -> "RENEW"
             [] method = "destroy" -> "DESTROY"
    BY <2>2, RequestVerbs
  <2> HIDE DEF r
  <2>4. r.verb = http
    BY <2>1, <2>3 DEF Kinds
  <2> QED
    BY <2>1, <2>4
<1>5. c.method = method /\ c.ops = ops /\ c.request = r
  BY CallFields
<1>6. method # "commit"
  BY DEF Kinds
<1> HIDE DEF r, ops, c
<1>7. ExactCall(c)
  BY <1>1, <1>2, <1>3, <1>4, <1>5, <1>6 DEF ExactCall, GoodCall, ReadBack
<1>8. ExactCall(CallOf(method, ops))
  BY <1>7 DEF c
<1> QED
  BY <1>2, <1>8, BeginAsks

(* An operation of a transaction has an index that is a double already.    *)
LEMMA OperationExact ==
  ASSUME PowersOfTwo, KvInv, UpdateInv, NEW t \in Callers, NEW op \in Operations(t)
  PROVE  TxnOp(op) = op
<1>1. workload.keys \subseteq Keys
  BY KvAssumption DEF KvInv, KvTypes
<1>2. ASSUME NEW k \in workload.keys
      PROVE  Double(IndexRead(t, k)) = IndexRead(t, k)
  <2>1. known[t][k].modify \in Nat
    <3>1. k \in Keys /\ server.index \in Nat
      BY <1>1 DEF KvInv, KvTypes, ServerTypes
    <3>2. Old(server, k, known[t][k])
      BY <3>1 DEF UpdateInv, ReaderOK
    <3> QED
      BY <3>1, <3>2 DEF Old
  <2> QED
    BY <2>1, DoubleTwice DEF IndexRead, LoadUint64
<1>3. Double(0) = 0
  <2>1. 0 <= Exact
    BY NumbersAssumption DEF PowersOfTwo, Exact
  <2> QED
    BY <2>1 DEF Double
<1>4. PICK v, at, i, id, b : op = Op(v, at, i, id, b) /\ Double(i) = i
  <2>1. CASE \E k \in workload.keys, b \in workload.bodies : op = Op("set", k, 0, NoSession, b)
    BY <1>3, <2>1, Zenon
  <2>2. CASE \E k \in workload.keys, b \in workload.bodies : op = Op("cas", k, IndexRead(t, k), NoSession, b)
    BY <1>2, <2>2, Zenon
  <2>3. CASE \E k \in workload.keys, v \in {"check-index", "delete-cas"} :
               op = Op(v, k, IndexRead(t, k), NoSession, Empty)
    BY <1>2, <2>3, Zenon
  <2>4. CASE \E k \in workload.keys, v \in {"get", "check-not-exists", "delete"} :
               op = Op(v, k, 0, NoSession, Empty)
    BY <1>3, <2>4, Zenon
  <2>5. CASE \E p \in workload.prefixes, v \in {"get-tree", "delete-tree"} : op = Op(v, p, 0, NoSession, Empty)
    BY <1>3, <2>5, Zenon
  <2>6. CASE /\ session[t] # NoSession
             /\ \E k \in workload.keys, v \in {"lock", "unlock", "check-session"} :
                  op = Op(v, k, 0, session[t], Empty)
    BY <1>3, <2>6, Zenon
  <2> QED
    BY <2>1, <2>2, <2>3, <2>4, <2>5, <2>6 DEF Operations
<1>5. op.index = i /\ "index" \in DOMAIN op /\ op = [f \in DOMAIN op |-> op[f]]
  BY <1>4 DEF Op
<1>6. TxnOp(op) = [op EXCEPT !.index = i]
  BY <1>4, <1>5, Zenon DEF TxnOp, DumpDouble
<1> QED
  BY <1>4, <1>6 DEF Op

(* So the server is asked for what the transaction says.                   *)
LEMMA CommitAsks ==
  ASSUME PowersOfTwo, KvInv, UpdateInv, PromiseInv, NEW t \in Callers,
         NEW one \in Operations(t), NEW two \in Operations(t), Commit(t, one, two)
  PROVE  PromiseInv' /\ Promise!Ask(t)
<1> DEFINE ops == <<one, two>>
           c == CallOf("commit", ops)
           expect == Relied(t, one) \cup IF Touches(one, two.at) THEN {} ELSE Relied(t, two)
<1>1. Begin(t, "commit", ops, expect)
  BY Zenon DEF Commit
<1>2. GoodCall(c)
  BY OperationsGood, CommitCalls, Zenon
<1>3. TxnOp(one) = one /\ TxnOp(two) = two
  BY OperationExact
<1>4. ops[1] = one /\ ops[2] = two
  OBVIOUS
<1>5. c.method = "commit" /\ c.ops = ops
  BY CallFields
<1> HIDE DEF c
<1>6. ExactCall(c)
  <2>1. Decode(c.request) = <<TxnOp(ops[1]), TxnOp(ops[2])>>
    BY <1>2, <1>5 DEF GoodCall, ReadBack
  <2> QED
    BY <1>2, <1>3, <1>4, <1>5, <2>1 DEF ExactCall
<1> HIDE DEF ops, expect
<1>7. ExactCall(CallOf("commit", ops))
  BY <1>6 DEF c
<1> QED
  BY <1>1, <1>7, BeginAsks

(* Whatever the method is, its caller asks.                                *)
LEMMA InvokeAsks ==
  ASSUME Undotted, Sessioned, PowersOfTwo, KvInv, UpdateInv, PromiseInv, NEW t \in Callers, Invoke(t)
  PROVE  PromiseInv' /\ Promise!Ask(t)
<1>1. /\ workload \in Workloads /\ session[t] \in SessionIds \cup {NoSession}
      /\ workload.keys \subseteq Keys /\ workload.prefixes \subseteq DOMAIN Under
  BY KvAssumption DEF KvInv, KvTypes, ServerTypes
<1>2. /\ \A k \in workload.keys : k \in Keys /\ k # "."
      /\ \A p \in workload.prefixes : p \in DOMAIN Under /\ p # "."
      /\ session[t] # NoSession => session[t] \in SessionIds /\ session[t] # "."
      /\ ~ workload.bare
  BY <1>1 DEF Undotted, Sessioned
<1> DEFINE Asks == PromiseInv' /\ Promise!Ask(t)
           Kind(method, verb) == \E http : <<method, http, verb>> \in Kinds
<1>3. /\ Kind("item", "get") /\ Kind("items", "get-tree") /\ Kind("keys", "keys")
      /\ Kind("set", "set") /\ Kind("erase", "delete") /\ Kind("eraseAll", "delete-tree")
      /\ Kind("compareSet", "cas") /\ Kind("compareErase", "delete-cas")
      /\ Kind("lock", "lock") /\ Kind("unlock", "unlock")
      /\ Kind("create", "create") /\ Kind("renew", "renew") /\ Kind("destroy", "destroy")
  BY DEF Kinds
<1>4. ASSUME NEW method, NEW verb, NEW at, NEW i, NEW id, NEW b, NEW expect,
             Begin(t, method, <<Op(verb, at, i, id, b)>>, expect),
             GoodCall(CallOf(method, <<Op(verb, at, i, id, b)>>)), Kind(method, verb)
      PROVE  Asks
  BY <1>4, OneAsks, Zenon
<1> HIDE DEF Asks, Kind
<1>5. ASSUME NEW k \in workload.keys, Item(t, k) \/ Erase(t, k) \/ CompareErase(t, k)
      PROVE  Asks
  <2>1. /\ GoodCall(CallOf("item", <<Op("get", k, 0, NoSession, Empty)>>))
        /\ GoodCall(CallOf("erase", <<Op("delete", k, 0, NoSession, Empty)>>))
        /\ GoodCall(CallOf("compareErase", <<Op("delete-cas", k, IndexRead(t, k), NoSession, Empty)>>))
    BY <1>2, KeyCalls, Zenon
  <2>2. CASE Item(t, k)
    BY <1>3, <1>4, <2>1, <2>2, Zenon DEF Item
  <2>3. CASE Erase(t, k)
    BY <1>3, <1>4, <2>1, <2>3, Zenon DEF Erase
  <2>4. CASE CompareErase(t, k)
    BY <1>3, <1>4, <2>1, <2>4, Zenon DEF CompareErase
  <2> QED
    BY <1>5, <2>2, <2>3, <2>4
<1>6. ASSUME NEW k \in workload.keys, NEW b,
             SetKey(t, k, b) \/ CompareSet(t, k, b) \/ Lock(t, k, b) \/ Unlock(t, k, b)
      PROVE  Asks
  <2>1. /\ GoodCall(CallOf("set", <<Op("set", k, 0, NoSession, b)>>))
        /\ GoodCall(CallOf("compareSet", <<Op("cas", k, IndexRead(t, k), NoSession, b)>>))
    BY <1>2, KeyCalls, Zenon
  <2>2. session[t] # NoSession =>
          /\ GoodCall(CallOf("lock", <<Op("lock", k, 0, session[t], b)>>))
          /\ GoodCall(CallOf("unlock", <<Op("unlock", k, 0, session[t], b)>>))
    BY <1>2, SessionCalls, Zenon
  <2>3. CASE SetKey(t, k, b)
    BY <1>3, <1>4, <2>1, <2>3, Zenon DEF SetKey
  <2>4. CASE CompareSet(t, k, b)
    BY <1>3, <1>4, <2>1, <2>4, Zenon DEF CompareSet
  <2>5. CASE Lock(t, k, b)
    BY <1>2, <1>3, <1>4, <2>2, <2>5, Zenon DEF Lock
  <2>6. CASE Unlock(t, k, b)
    BY <1>2, <1>3, <1>4, <2>2, <2>6, Zenon DEF Unlock
  <2> QED
    BY <1>6, <2>3, <2>4, <2>5, <2>6
<1>7. ASSUME NEW p \in workload.prefixes, Items(t, p) \/ KeysOf(t, p) \/ EraseAll(t, p)
      PROVE  Asks
  <2>1. /\ GoodCall(CallOf("items", <<Op("get-tree", p, 0, NoSession, Empty)>>))
        /\ GoodCall(CallOf("keys", <<Op("keys", p, 0, NoSession, Empty)>>))
        /\ GoodCall(CallOf("eraseAll", <<Op("delete-tree", p, 0, NoSession, Empty)>>))
    BY <1>2, TreeCalls, Zenon
  <2>2. CASE Items(t, p)
    BY <1>3, <1>4, <2>1, <2>2, Zenon DEF Items
  <2>3. CASE KeysOf(t, p)
    BY <1>3, <1>4, <2>1, <2>3, Zenon DEF KeysOf
  <2>4. CASE EraseAll(t, p)
    BY <1>3, <1>4, <2>1, <2>4, Zenon DEF EraseAll
  <2> QED
    BY <1>7, <2>2, <2>3, <2>4
<1>8. ASSUME NEW b, CreateSession(t, b)
      PROVE  Asks
  <2>1. GoodCall(CallOf("create", <<Op("create", Empty, 0, NoSession, b)>>))
    BY "a" # ".", LifeCalls, Zenon
  <2> QED
    BY <1>3, <1>4, <1>8, <2>1, Zenon DEF CreateSession
<1>9. ASSUME Renew(t) \/ Destroy(t)
      PROVE  Asks
  <2>1. session[t] # NoSession =>
          /\ GoodCall(CallOf("renew", <<Op("renew", Empty, 0, session[t], Empty)>>))
          /\ GoodCall(CallOf("destroy", <<Op("destroy", Empty, 0, session[t], Empty)>>))
    BY <1>2, LifeCalls, Zenon
  <2>2. CASE Renew(t)
    BY <1>3, <1>4, <2>1, <2>2, Zenon DEF Renew
  <2>3. CASE Destroy(t)
    BY <1>3, <1>4, <2>1, <2>3, Zenon DEF Destroy
  <2> QED
    BY <1>9, <2>2, <2>3
<1>10. ASSUME NEW one \in Operations(t), NEW two \in Operations(t), Commit(t, one, two)
       PROVE  Asks
  BY <1>10, CommitAsks DEF Asks
<1>11. Asks
  BY <1>5, <1>6, <1>7, <1>8, <1>9, <1>10, Zenon DEF Invoke
<1> QED
  BY <1>11 DEF Asks

(* No caller has asked for anything, and nothing is late.                  *)
LEMMA PromiseInit ==
  ASSUME Init
  PROVE  PromiseInv /\ Promise!Init
<1>1. /\ server = Found(workload) /\ workload \in Workloads /\ orphans = <<>>
      /\ \A t \in Callers : net[t] = "none" /\ fate[t] = NoFate /\ result[t] = NoResult
  BY DEF Init
<1>2. /\ NoFate.times = 0 /\ NoFate.says = "nothing" /\ NoFate.made = <<>> /\ ~ NoFate.repeated
      /\ NoResult.as = "none" /\ NoResult.made = <<>> /\ Says("none") = "nothing"
  BY DEF NoFate, NoResult, Says, Yes, No
<1>3. DOMAIN orphans = {}
  BY <1>1, 1 .. 0 = {}
<1>4. PromiseInv
  BY <1>1, <1>2, <1>3 DEF PromiseInv, TellOK, Range
<1>5. /\ \A t \in Callers : /\ AskedAt(t) = Promise!NoCall
                            /\ TookAt(t) = Promise!Nothing
                            /\ ToldAt(t) = Promise!Silent
      /\ LateMap = <<>>
  BY <1>1, <1>2, <1>3
     DEF AskedAt, TookAt, ToldAt, LateMap, Promise!NoCall, Promise!Nothing, Promise!Silent
<1>6. /\ AskedMap = [t \in Callers |-> Promise!NoCall] /\ TookMap = [t \in Callers |-> Promise!Nothing]
      /\ ToldMap = [t \in Callers |-> Promise!Silent]
  BY <1>5, Zenon DEF AskedMap, TookMap, ToldMap
<1>7. server \in {Found(w) : w \in Workloads}
  BY <1>1
<1>8. Promise!Init
  BY <1>5, <1>6, <1>7, Zenon
     DEF Promise!Init, AskedMap, AskedAt, TookMap, TookAt, ToldMap, ToldAt, LateMap
<1> QED
  BY <1>4, <1>8

(* Every step is a step of AtomicStore, or is not seen there.              *)
LEMMA PromiseStep ==
  ASSUME Undotted, Sessioned, PowersOfTwo, KvInv, UpdateInv, PromiseInv, [Next]_vars
  PROVE  PromiseInv' /\ [Promise!Next]_(Promise!vars)
<1>1. ASSUME NEW t \in Callers,
             Promise!Ask(t) \/ Promise!TakeEffect(t) \/ Promise!Tell(t) \/ Promise!Throw(t)
      PROVE  Promise!Next
  BY <1>1, Zenon DEF Promise!Next
<1>2. ASSUME NEW n \in DOMAIN LateMap, Promise!LateEffect(n)
      PROVE  Promise!Next
  BY <1>2, Zenon DEF Promise!Next, LateMap
<1>3. ASSUME NEW id \in DOMAIN server.sessions, Promise!Expire(id)
      PROVE  Promise!Next
  BY <1>3, Zenon DEF Promise!Next
<1>4. ASSUME NEW t \in Callers, Invoke(t)
      PROVE  PromiseInv' /\ Promise!Next
  BY <1>1, <1>4, InvokeAsks, Zenon
<1>5. ASSUME NEW t \in Callers, Process(t)
      PROVE  PromiseInv' /\ Promise!Next
  BY <1>1, <1>5, ProcessTakes, Zenon
<1>6. ASSUME NEW t \in Callers, Reject(t) \/ Repeat(t)
      PROVE  PromiseInv' /\ Unseen
  BY <1>6, RejectUnseen, RepeatUnseen, Zenon
<1>7. ASSUME NEW t \in Callers, GiveUp(t) \/ Return(t)
      PROVE  PromiseInv' /\ Promise!Next
  BY <1>1, <1>7, GiveUpThrows, ReturnTells, Zenon
<1>8. ASSUME NEW n \in DOMAIN orphans, ProcessOrphan(n)
      PROVE  PromiseInv' /\ Promise!Next
  BY <1>2, <1>8, OrphanTakes, Zenon
<1>9. ASSUME NEW id \in DOMAIN server.sessions, Expire(id)
      PROVE  PromiseInv' /\ Promise!Next
  BY <1>3, <1>9, ExpireExpires, Zenon
<1>10. ASSUME UNCHANGED vars
       PROVE  PromiseInv' /\ Unseen
  <2>1. /\ server' = server /\ call' = call /\ net' = net /\ reply' = reply /\ fate' = fate
        /\ orphans' = orphans /\ result' = result
    BY <1>10 DEF vars, callerVars
  <2>2. PromiseInv'
    BY <2>1 DEF PromiseInv, TellOK
  <2>3. \A u \in Callers : AskedAt(u)' = AskedAt(u) /\ TookAt(u)' = TookAt(u) /\ ToldAt(u)' = ToldAt(u)
    BY <2>1 DEF AskedAt, TookAt, ToldAt
  <2> QED
    BY <2>1, <2>2, <2>3, MapsStay, UnseenIs
<1>11. PromiseInv' /\ (Promise!Next \/ Unseen)
  BY <1>4, <1>5, <1>6, <1>7, <1>8, <1>9, <1>10, Zenon DEF Next
<1> QED
  BY <1>11, Zenon DEF Unseen

(***************************************************************************)
(* Every method of Kv and Sessions is the one atomic operation, or         *)
(* sequence of them, that its arguments say, whatever the network does: it *)
(* takes effect between call and return, or late if it throws, once or, if *)
(* its request has no body, twice; what it returns is what the store said  *)
(* last.                                                                   *)
(***************************************************************************)
THEOREM CallsAreAtomic ==
  ASSUME Undotted, Sessioned, PowersOfTwo
  PROVE  Spec => Atomic
<1> DEFINE I == KvInv /\ UpdateInv /\ PromiseInv
<1>1. Init => I /\ Promise!Init
  BY KvInit, UpdateInit, PromiseInit
<1>2. I /\ [Next]_vars => I' /\ [Promise!Next]_(Promise!vars)
  <2>1. I /\ [Next]_vars => (KvInv' /\ UpdateInv') /\ (PromiseInv' /\ [Promise!Next]_(Promise!vars))
    BY UpdateStep, PromiseStep, Zenon
  <2> QED
    BY <2>1, Zenon
<1> QED
  BY <1>1, <1>2, PTL DEF Spec, Atomic, Promise!Spec
=============================================================================
