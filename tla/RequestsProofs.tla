--------------------------- MODULE RequestsProofs ---------------------------
(***************************************************************************)
(* Which token and data center a request carries, for any tokens, data     *)
(* centers and number of arguments.  Of unique_args() and get_opt() it     *)
(* takes what ParametersProofs shows of them.                              *)
(***************************************************************************)
EXTENDS Requests, ParametersProofs

(* The arguments a call of endpoint e accepts, and what Send makes of some. *)
Arguments(e) == {<<k, v>> : k \in Allowed(e), v \in Tokens \cup Dcs \cup {Empty}}
Made(args) == [sent |-> TRUE, query |-> ConsulQuery(consul, args),
               token |-> ConsulToken(consul, args)]

(* What every step preserves: a request on the wire was made of the        *)
(* arguments that the endpoint passes on, and of nothing else.             *)
RequestsInv ==
  /\ consul \in [dc : Dcs \cup {Empty}, token : Tokens \cup {Empty}]
  /\ endpoint \in Endpoints
  /\ own \in Defaults(endpoint)
  /\ given \in Seq(Arguments(endpoint))
  /\ wire = NoWire \/ wire = Made(Passed(endpoint, own, given))

(***************************************************************************)
(* A request is made of what the endpoint passes on, whatever was given    *)
(* before and in whatever order.                                           *)
(***************************************************************************)
THEOREM RequestsInvariance == Spec => []RequestsInv
<1>1. Init => RequestsInv
  BY DEF Init, RequestsInv
<1>2. RequestsInv /\ [Next]_requestsVars => RequestsInv'
  <2> SUFFICES ASSUME RequestsInv, [Next]_requestsVars
               PROVE  RequestsInv'
    OBVIOUS
  <2>1. ASSUME NEW k \in Allowed(endpoint), NEW v \in Values(k), Give(k, v)
        PROVE  RequestsInv'
    <3>1. <<k, v>> \in Arguments(endpoint)
      BY DEF Arguments, Values
    <3>2. given' \in Seq(Arguments(endpoint))
      BY <2>1, <3>1, AppendProperties DEF Give, RequestsInv
    <3>3. wire = NoWire
      BY <2>1 DEF Give, RequestsInv, Made
    <3> QED
      BY <2>1, <3>2, <3>3 DEF Give, RequestsInv
  <2>2. CASE Send
    BY <2>2 DEF Send, RequestsInv, Made
  <2>3. CASE UNCHANGED requestsVars
    BY <2>3 DEF requestsVars, RequestsInv, Made
  <2> QED
    BY <2>1, <2>2, <2>3 DEF Next
<1> QED
  BY <1>1, <1>2, PTL DEF Spec

(* A request carries the last value of its arguments, or Consul's default. *)
LEMMA SentOf ==
  ASSUME NEW S, NEW args \in Seq(S), wire = Made(args), NEW k \in {"dc", "token"}
  PROVE  /\ \A i \in DOMAIN args : args[i][1] = k /\ IsLast(args, i) => Sent(k) = args[i][2]
         /\ ~ Given(k, args) => Sent(k) = consul[k]
<1>1. wire.query = ConsulQuery(consul, args) /\ wire.token = ConsulToken(consul, args)
  BY DEF Made
<1>2. CASE k = "token"
  BY <1>1, <1>2, GetOptTakesLast DEF ConsulToken, Sent
<1>3. CASE k = "dc"
  <2> DEFINE query == ConsulQuery(consul, args)
  <2>1. /\ \A i \in DOMAIN args : args[i][1] = "dc" /\ IsLast(args, i) =>
             /\ "dc" \in DOMAIN query <=> Printed("dc", args[i][2])
             /\ Printed("dc", args[i][2]) => query["dc"] = args[i][2]
        /\ ~ Given("dc", args) =>
             /\ "dc" \in DOMAIN query <=> Printed("dc", consul.dc)
             /\ Printed("dc", consul.dc) => query["dc"] = consul.dc
    BY ConsulQueryIs
  <2>2. \A v : Printed("dc", v) <=> v # Empty
    BY DEF Printed, StringKeywords
  <2>3. Sent(k) = IF "dc" \in DOMAIN query THEN query["dc"] ELSE Empty
    BY <1>1, <1>3 DEF Sent
  <2> HIDE DEF query
  <2> QED
    BY <1>3, <2>1, <2>2, <2>3
<1> QED
  BY <1>2, <1>3

(* The set of all arguments that are ever passed to Consul.                *)
Words == Tokens \cup Dcs \cup {Empty, Default}
Pairs == {<<k, v>> : k \in {"consistency", "dc", "token"}, v \in Words}

(* What may be given, and the defaults, are words.                         *)
LEMMA GivenTypes ==
  ASSUME RequestsInv
  PROVE  /\ given \in Seq(Pairs)
         /\ own.dc \in Words /\ own.token \in Words
         /\ endpoint = "bare" => given = <<>>
         /\ endpoint = "catalog" => ~ Given("token", given)
         /\ \A i \in DOMAIN given : given[i][1] \in {"dc", "token"}
<1>1. Arguments(endpoint) \subseteq Pairs
  <2>1. Allowed(endpoint) \subseteq {"dc", "token"}
    BY DEF Allowed, RequestsInv, Endpoints
  <2> QED
    BY <2>1 DEF Arguments, Pairs, Words
<1>2. given \in Seq(Arguments(endpoint)) /\ given \in Seq(Pairs)
  BY <1>1, SeqMonotonic DEF RequestsInv
<1>3. \A i \in DOMAIN given : given[i] \in Arguments(endpoint)
  BY <1>2, LenProperties, ElementOfSeq, Zenon
<1>4. \A a \in Arguments(endpoint) : a[1] \in Allowed(endpoint)
  BY DEF Arguments
<1>5. \A i \in DOMAIN given : given[i][1] \in Allowed(endpoint)
  BY <1>3, <1>4
<1>6. endpoint = "bare" => given = <<>>
  <2>1. endpoint = "bare" => DOMAIN given = {}
    BY <1>5 DEF Allowed
  <2> QED
    BY <1>2, <2>1, EmptySeq
<1>7. own.dc \in Words /\ own.token \in Words
  <2>1. own \in Defaults(endpoint)
    BY DEF RequestsInv
  <2> QED
    BY <2>1 DEF Defaults, Words
<1>8. Allowed(endpoint) \subseteq {"dc", "token"} /\ (endpoint = "catalog" => "token" \notin Allowed(endpoint))
  BY DEF Allowed, RequestsInv, Endpoints
<1> QED
  BY <1>2, <1>5, <1>6, <1>7, <1>8 DEF Given

(* So is what get_opt() chooses among them.                                *)
LEMMA GetOptTypes ==
  ASSUME RequestsInv, NEW k, NEW d \in Words
  PROVE  GetOpt(k, d, given) \in Words
<1>1. given \in Seq(Pairs)
  BY GivenTypes
<1>2. CASE Given(k, given)
  <2>1. PICK i \in DOMAIN given : given[i][1] = k /\ IsLast(given, i)
    BY <1>1, <1>2, GivenHasLast
  <2>2. GetOpt(k, d, given) = given[i][2]
    BY <1>1, <2>1, GetOptTakesLast
  <2>3. given[i] \in Pairs
    BY <1>1
  <2> QED
    BY <2>2, <2>3 DEF Pairs
<1>3. CASE ~ Given(k, given)
  BY <1>1, <1>3, GetOptTakesLast
<1> QED
  BY <1>2, <1>3

(***************************************************************************)
(* What Send passes on: the call's arguments, possibly after two that have *)
(* different keywords, or two that get_opt() has chosen.                   *)
(***************************************************************************)
Chosen == <<<<"token", GetOpt("token", own.token, given)>>, <<"dc", GetOpt("dc", own.dc, given)>>>>
Before == IF endpoint = "catalog" THEN <<<<"consistency", Default>>, <<"dc", own.dc>>>>
          ELSE <<<<"token", own.token>>, <<"dc", own.dc>>>>

(* Every endpoint passes the two defaults and what was given, or its choice. *)
LEMMA PassedIs ==
  ASSUME RequestsInv
  PROVE  /\ Before \in Seq(Pairs) /\ DOMAIN Before = {1, 2}
         /\ Chosen \in Seq(Pairs) /\ DOMAIN Chosen = {1, 2}
         /\ Passed(endpoint, own, given) =
              IF endpoint = "session create" THEN Chosen
              ELSE IF endpoint \in {"consul", "bare"} THEN given
              ELSE Before \o given
<1>1. /\ given \in Seq(Pairs)
      /\ own.dc \in Words /\ own.token \in Words
      /\ endpoint = "bare" => given = <<>>
  BY GivenTypes
<1>2. /\ <<"consistency", Default>> \in Pairs
      /\ \A v \in Words : <<"dc", v>> \in Pairs /\ <<"token", v>> \in Pairs
  BY DEF Pairs, Words
<1>3. \A a, b \in Pairs : <<a, b>> \in Seq(Pairs) /\ DOMAIN <<a, b>> = {1, 2}
  OBVIOUS
<1>4. Before \in Seq(Pairs) /\ DOMAIN Before = {1, 2}
  BY <1>1, <1>2, <1>3 DEF Before
<1>5. Chosen \in Seq(Pairs) /\ DOMAIN Chosen = {1, 2}
  BY <1>1, <1>2, <1>3, GetOptTypes DEF Chosen
<1>6. endpoint \in Endpoints
  BY DEF RequestsInv
<1>7. Passed(endpoint, own, given) =
        IF endpoint = "session create" THEN Chosen
        ELSE IF endpoint \in {"consul", "bare"} THEN given
        ELSE Before \o given
  <2>1. CASE endpoint = "session create"
    BY <2>1 DEF Passed, Chosen
  <2>2. CASE endpoint = "consul" \/ endpoint = "bare"
    BY <1>1, <2>2 DEF Passed
  <2>3. CASE endpoint = "catalog"
    BY <2>3 DEF Passed, Before
  <2>4. CASE endpoint = "kv" \/ endpoint = "session"
    BY <2>4 DEF Passed, Before
  <2> QED
    BY <1>6, <2>1, <2>2, <2>3, <2>4 DEF Endpoints
<1> QED
  BY <1>4, <1>5, <1>7

(* So all that is passed is pairs of a name and a word.                    *)
LEMMA PassedTypes ==
  ASSUME RequestsInv
  PROVE  Passed(endpoint, own, given) \in Seq(Pairs)
<1>1. given \in Seq(Pairs) /\ Before \in Seq(Pairs) /\ Chosen \in Seq(Pairs)
  BY GivenTypes, PassedIs
<1>2. Before \o given \in Seq(Pairs)
  BY <1>1, ConcatProperties
<1> QED
  BY <1>1, <1>2, PassedIs

(***************************************************************************)
(* No request has its token in the query: consul.h puts an empty token     *)
(* after the caller's arguments, and the last one counts.                  *)
(***************************************************************************)
THEOREM HeaderOnly == Spec => []TokenOnlyInHeader
<1>1. RequestsInv => TokenOnlyInHeader
  <2> SUFFICES ASSUME RequestsInv, wire.sent
               PROVE  "token" \notin DOMAIN wire.query
    BY DEF TokenOnlyInHeader
  <2> DEFINE args == Passed(endpoint, own, given)
  <2>1. wire = Made(args)
    BY DEF RequestsInv, NoWire
  <2>2. args \in Seq(Pairs)
    BY PassedTypes
  <2> HIDE DEF args
  <2>3. "token" \notin DOMAIN ConsulQuery(consul, args)
    BY <2>2, ConsulQueryIs
  <2> QED
    BY <2>1, <2>3 DEF Made
<1> QED
  BY <1>1, RequestsInvariance, PTL

(***************************************************************************)
(* Of the parameters of a call the last one counts, in the query as in the *)
(* header; then a default of the endpoint object; then Consul's, for the   *)
(* endpoints that have none of their own.                                  *)
(***************************************************************************)
LEMMA SentIs ==
  ASSUME RequestsInv, wire.sent, NEW k \in {"dc", "token"}
  PROVE  /\ \A i \in DOMAIN given : given[i][1] = k /\ IsLast(given, i) => Sent(k) = given[i][2]
         /\ ~ Given(k, given) /\ ~ Keeps(k) => Sent(k) = own[k]
         /\ ~ Given(k, given) /\ Keeps(k) => Sent(k) = consul[k]
<1> DEFINE args == Passed(endpoint, own, given)
<1>1. wire = Made(args)
  BY DEF RequestsInv, NoWire
<1>2. args \in Seq(Pairs) /\ given \in Seq(Pairs) /\ Before \in Seq(Pairs) /\ Chosen \in Seq(Pairs)
  BY PassedTypes, GivenTypes, PassedIs
<1> HIDE DEF args
<1>3. /\ \A i \in DOMAIN args : args[i][1] = k /\ IsLast(args, i) => Sent(k) = args[i][2]
      /\ ~ Given(k, args) => Sent(k) = consul[k]
  BY <1>1, <1>2, SentOf
<1>4. CASE endpoint \in {"consul", "bare"}
  <2>1. args = given /\ Keeps(k)
    BY <1>4, PassedIs DEF args, Keeps
  <2> QED
    BY <1>3, <2>1
<1>5. CASE endpoint = "session create"
  <2>1. args = Chosen /\ DOMAIN Chosen = {1, 2}
    BY <1>5, PassedIs DEF args
  <2>2. /\ Chosen[1][1] = "token" /\ Chosen[1][2] = GetOpt("token", own.token, given)
        /\ Chosen[2][1] = "dc" /\ Chosen[2][2] = GetOpt("dc", own.dc, given)
    BY DEF Chosen
  <2>3. IsLast(Chosen, 1) /\ IsLast(Chosen, 2)
    BY <2>1, <2>2 DEF IsLast
  <2>4. Sent(k) = GetOpt(k, own[k], given)
    BY <1>3, <2>1, <2>2, <2>3
  <2>5. ~ Keeps(k)
    BY <1>5 DEF Keeps
  <2> QED
    BY <1>2, <2>4, <2>5, GetOptTakesLast
<1>6. CASE endpoint \in {"catalog", "kv", "session"}
  <2>1. args = Before \o given /\ DOMAIN Before = {1, 2}
    BY <1>6, PassedIs DEF args
  <2>2. /\ \A i \in DOMAIN given :
             /\ Len(Before) + i \in DOMAIN args
             /\ args[Len(Before) + i] = given[i]
             /\ IsLast(args, Len(Before) + i) <=> IsLast(given, i)
        /\ \A i \in DOMAIN Before :
             /\ i \in DOMAIN args
             /\ args[i] = Before[i]
             /\ IsLast(Before, i) /\ ~ Given(Before[i][1], given) => IsLast(args, i)
        /\ Given(k, args) <=> Given(k, Before) \/ Given(k, given)
    <3> DEFINE full == Before \o given
    <3>1. /\ \A i \in DOMAIN given :
               /\ Len(Before) + i \in DOMAIN full
               /\ full[Len(Before) + i] = given[i]
               /\ IsLast(full, Len(Before) + i) <=> IsLast(given, i)
          /\ \A i \in DOMAIN Before :
               /\ i \in DOMAIN full
               /\ full[i] = Before[i]
               /\ IsLast(Before, i) /\ ~ Given(Before[i][1], given) => IsLast(full, i)
          /\ Given(k, full) <=> Given(k, Before) \/ Given(k, given)
      BY <1>2, LastOfConcat
    <3>2. args = full
      BY <2>1
    <3> HIDE DEF full
    <3> QED
      BY <3>1, <3>2
  <2>3. /\ Before[2] = <<"dc", own.dc>>
        /\ endpoint # "catalog" => Before[1] = <<"token", own.token>>
        /\ endpoint = "catalog" => Before[1] = <<"consistency", Default>>
    BY DEF Before
  <2>4. IsLast(Before, 1) /\ IsLast(Before, 2)
    <3>1. Before[2][1] = "dc" /\ Before[1][1] \in {"token", "consistency"}
      BY <2>3
    <3> QED
      BY <2>1, <3>1 DEF IsLast
  <2>5. CASE ~ Keeps(k)
    <3>1. PICK j \in {1, 2} : Before[j] = <<k, own[k]>>
      BY <1>6, <2>3, <2>5 DEF Keeps
    <3>2. Before[j][1] = k /\ Before[j][2] = own[k]
      BY <3>1
    <3>3. ~ Given(k, given) => Sent(k) = own[k]
      BY <1>3, <2>1, <2>2, <2>4, <3>2
    <3>4. \A i \in DOMAIN given : given[i][1] = k /\ IsLast(given, i) => Sent(k) = given[i][2]
      BY <1>3, <2>2
    <3> QED
      BY <2>5, <3>3, <3>4
  <2>6. CASE Keeps(k)
    <3>1. endpoint = "catalog" /\ k = "token"
      BY <1>6, <2>6 DEF Keeps
    <3>2. ~ Given(k, given) /\ ~ Given(k, Before)
      BY <2>1, <2>3, <3>1, GivenTypes DEF Given
    <3> QED
      BY <1>3, <2>2, <2>6, <3>2 DEF Given
  <2> QED
    BY <2>5, <2>6
<1>7. endpoint \in Endpoints
  BY DEF RequestsInv
<1> QED
  BY <1>4, <1>5, <1>6, <1>7 DEF Endpoints

(***************************************************************************)
(* Of a keyword that is given more than once the last one counts, before   *)
(* the default of the endpoint and that of Consul, in every request.       *)
(***************************************************************************)
THEOREM Precedence == Spec => []LastOneCounts
<1>1. RequestsInv => LastOneCounts
  <2> SUFFICES ASSUME RequestsInv, wire.sent, NEW k \in {"dc", "token"}
               PROVE  /\ \A i \in DOMAIN given :
                           given[i][1] = k /\ (\A j \in DOMAIN given : j > i => given[j][1] # k)
                             => Sent(k) = given[i][2]
                      /\ ~ Given(k, given) /\ ~ Keeps(k) => Sent(k) = own[k]
                      /\ ~ Given(k, given) /\ Keeps(k) => Sent(k) = consul[k]
    BY DEF LastOneCounts
  <2>1. /\ \A i \in DOMAIN given : given[i][1] = k /\ IsLast(given, i) => Sent(k) = given[i][2]
        /\ ~ Given(k, given) /\ ~ Keeps(k) => Sent(k) = own[k]
        /\ ~ Given(k, given) /\ Keeps(k) => Sent(k) = consul[k]
    BY SentIs
  <2> QED
    BY <2>1 DEF IsLast
<1> QED
  BY <1>1, RequestsInvariance, PTL
=============================================================================
