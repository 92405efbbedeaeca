--------------------------------- MODULE Kv ---------------------------------
(***************************************************************************)
(* ppconsul::kv::Kv and ppconsul::sessions::Sessions, used by callers that *)
(* share keys through one Consul server.  Every method is one HTTP request *)
(* that takes effect when the server processes it: between the call and    *)
(* the return others run, and the request or its answer may be lost, late  *)
(* or repeated.  What a caller may conclude from a result is the question. *)
(*                                                                         *)
(* A method says what it asks for in operations of the store; the request  *)
(* says the same in HTTP, and the server reads it back.  The server, the   *)
(* network and libcurl are the environment, modelled as far as the tests   *)
(* of kv and sessions rely on them.                                        *)
(***************************************************************************)
EXTENDS Parameters, Numbers, Store, FiniteSets

CONSTANTS
  Callers,       \* threads or processes, each with its own Kv object
  Workloads      \* what the callers of a system do, and how far

(***************************************************************************)
(* A workload names the methods that are called, the operations that come  *)
(* first ("verbs") and second ("then") in their transactions, the keys and *)
(* prefixes they are about, the values they set (Empty is one that libcurl *)
(* can send twice), the index at which the keys were written before, 0 if  *)
(* they were not, whether they lock and unlock without a session too       *)
(* ("bare"), and, a bound, the number of calls of all callers.             *)
(***************************************************************************)
ASSUME KvAssumption ==
  \A w \in Workloads :
    /\ w.calls \in Nat /\ w.start \in Nat /\ w.bare \in BOOLEAN
    /\ w.keys \subseteq Keys /\ w.prefixes \subseteq DOMAIN Under

VARIABLES
  server,        \* the server's keys, raft index and sessions
  call,          \* what each caller is asking for
  net,           \* how far the request is
  reply,         \* the server's answer
  orphans,       \* calls whose callers gave up and the server still has, oldest first
  result,        \* what the last method returned or threw, and what it found
  known,         \* the KeyValue each caller read last, by key
  session,       \* the session of each caller, empty before it has one
  fate,          \* history: what became of the request at the server
  holds,         \* history: the keys each caller has reason to think it locked
  calls,         \* the number of calls so far
  workload       \* the one of Workloads that this system's callers do

callerVars == <<result, known, session>>
vars == <<server, call, net, reply, orphans, callerVars, fate, holds, calls, workload>>

NoCall   == [method |-> "none", ops |-> <<>>, request |-> <<>>]
NoReply  == [status |-> 0, yes |-> FALSE, made |-> <<>>]
NoResult == [as |-> "none", made |-> <<>>]

(* expect: the items a call is based on; before: the store it found;       *)
(* broken: locks that ended since it was sent; took: whether the server    *)
(* has said yes to it.                                                     *)
NoFate == [expect |-> {}, before |-> <<>>, repeated |-> FALSE, broken |-> {},
           times |-> 0, took |-> FALSE, says |-> "nothing", made |-> <<>>]
-----------------------------------------------------------------------------
(***************************************************************************)
(* The requests.  Tokens and data centers are the business of Requests;    *)
(* here both are left at their defaults.  keyPath() leaves the dots of a   *)
(* key unescaped, and libcurl resolves "/v1/kv/." to "/v1/kv/".            *)
(***************************************************************************)
Squashed(path) == IF path = "." THEN "" ELSE path
Http(verb, path, args, body) ==
  [verb |-> verb, path |-> Squashed(path), body |-> body, ops |-> <<>>,
   query |-> ConsulQuery([dc |-> Empty, token |-> Empty],
                         <<<<"token", Empty>>, <<"dc", Empty>>>> \o args)]

ItemRequest(op)          == Http("GET", op.at, <<>>, Empty)
ItemsRequest(op)         == Http("GET", op.at, <<<<"recurse", TRUE>>>>, Empty)
KeysRequest(op)          == Http("GET", op.at, <<<<"keys", TRUE>>>>, Empty)
SetRequest(op)           == Http("PUT", op.at, <<>>, op.body)
EraseRequest(op)         == Http("DELETE", op.at, <<>>, Empty)
EraseAllRequest(op)      == Http("DELETE", op.at, <<<<"recurse", TRUE>>>>, Empty)
\* Mutant of CompareSetRequest: the index is not passed on.
PlainSetRequest(op)      == Http("PUT", op.at, <<>>, op.body)
CompareSetRequest(op)    == Http("PUT", op.at, <<<<"cas", op.index>>>>, op.body)
CompareEraseRequest(op)  == Http("DELETE", op.at, <<<<"cas", op.index>>>>, Empty)
\* Mutant of LockRequest: the session is not passed on.
NoSessionRequest(op)     == Http("PUT", op.at, <<>>, op.body)
LockRequest(op)          == Http("PUT", op.at, <<<<"acquire", op.session>>>>, op.body)
UnlockRequest(op)        == Http("PUT", op.at, <<<<"release", op.session>>>>, op.body)
CreateSessionRequest(op) == Http("CREATE", Empty, <<>>, op.body)
RenewRequest(op)         == Http("RENEW", op.session, <<>>, Empty)
DestroyRequest(op)       == Http("DESTROY", op.session, <<>>, Empty)

(* TxnOpAppender: an operation and its index as a double. *)
\* Mutant of TxnOp: one operation is written with another's verb.
TxnOpCopied(op) == [op EXCEPT !.verb = IF @ = "cas" THEN "set" ELSE @]
TxnOp(op) == [op EXCEPT !.index = DumpDouble(@)]
CommitRequest(ops) ==
  [Http("TXN", Empty, <<<<"consistency", Default>>>>, "operations") EXCEPT
     !.ops = [n \in DOMAIN ops |-> TxnOp(ops[n])]]

Request(method, ops) ==
  LET op == ops[1]
  IN  CASE method = "item"         -> ItemRequest(op)
        [] method = "items"        -> ItemsRequest(op)
        [] method = "keys"         -> KeysRequest(op)
        [] method = "set"          -> SetRequest(op)
        [] method = "erase"        -> EraseRequest(op)
        [] method = "eraseAll"     -> EraseAllRequest(op)
        [] method = "compareSet"   -> CompareSetRequest(op)
        [] method = "compareErase" -> CompareEraseRequest(op)
        [] method = "lock"         -> LockRequest(op)
        [] method = "unlock"       -> UnlockRequest(op)
        [] method = "create"       -> CreateSessionRequest(op)
        [] method = "renew"        -> RenewRequest(op)
        [] method = "destroy"      -> DestroyRequest(op)
        [] method = "commit"       -> CommitRequest(ops)
-----------------------------------------------------------------------------
(***************************************************************************)
(* The server: the operations it reads in a request, and its answer.       *)
(***************************************************************************)
Decode(r) ==
  LET Has(p) == p \in DOMAIN r.query
      One(verb) == <<Op(verb, r.path, IF Has("cas") THEN r.query["cas"] ELSE 0,
                        IF Has("acquire") THEN r.query["acquire"]
                        ELSE IF Has("release") THEN r.query["release"] ELSE NoSession,
                        r.body)>>
      OfSession(verb) == <<Op(verb, Empty, 0, r.path, Empty)>>
  IN  CASE r.verb = "GET" ->
             One(IF Has("recurse") THEN "get-tree" ELSE IF Has("keys") THEN "keys" ELSE "get")
        [] r.verb = "PUT" ->
             One(IF Has("cas") THEN "cas" ELSE IF Has("acquire") THEN "lock"
                 ELSE IF Has("release") THEN "unlock" ELSE "set")
        [] r.verb = "DELETE" ->
             One(IF Has("recurse") THEN "delete-tree"
                 ELSE IF Has("cas") THEN "delete-cas" ELSE "delete")
        [] r.verb = "TXN"     -> r.ops
        [] r.verb = "CREATE"  -> <<Op("create", Empty, 0, NoSession, r.body)>>
        [] r.verb = "RENEW"   -> OfSession("renew")
        [] r.verb = "DESTROY" -> OfSession("destroy")

Status(r, o) ==
  IF r.verb = "TXN" THEN IF o.says = "yes" THEN 200 ELSE 409
  ELSE IF o.says = "error" THEN 500
  ELSE IF \/ r.verb \in {"GET", "RENEW"} /\ o.says = "no"
          \/ r.verb = "GET" /\ o.made = <<>> THEN 404
  ELSE 200

(* The body is true or false after PUT and DELETE, else what was asked for. *)
Answer(r, o) ==
  [status |-> Status(r, o), yes |-> o.says = "yes",
   made |-> IF r.verb \in {"GET", "TXN", "CREATE"} THEN o.made ELSE <<>>]
Unable == [NoReply EXCEPT !.status = 500]

(* The locks of session s that operations on the store end. *)
EndsLock(op, k, s) ==
  \/ op.verb = "unlock" /\ op.at = k /\ op.session = s
  \/ op.verb \in {"delete", "delete-cas"} /\ op.at = k
  \/ op.verb = "delete-tree" /\ k \in Under[op.at]
  \/ op.verb = "destroy" /\ op.session = s
Ended(t, ops) == {k \in Keys : \E n \in DOMAIN ops : EndsLock(ops[n], k, session[t])}
-----------------------------------------------------------------------------
Found(w) ==
  [store |-> [k \in Keys |-> IF w.start = 0 THEN NoItem ELSE [NoItem EXCEPT !.modify = w.start]],
   index |-> w.start, sessions |-> [x \in {} |-> Empty], named |-> {}]

Init ==
  /\ workload \in Workloads
  /\ server = Found(workload)
  /\ call = [t \in Callers |-> NoCall]
  /\ net = [t \in Callers |-> "none"]
  /\ reply = [t \in Callers |-> NoReply]
  /\ orphans = <<>>
  /\ result = [t \in Callers |-> NoResult]
  /\ known = [t \in Callers |-> [k \in Keys |-> NoItem]]
  /\ session = [t \in Callers |-> NoSession]
  /\ fate = [t \in Callers |-> NoFate]
  /\ holds = [t \in Callers |-> {}]
  /\ calls = 0

(* A method is called: its request is made and sent. *)
Begin(t, method, ops, expect) ==
  /\ method \in workload.methods
  /\ net[t] = "none"
  /\ calls < workload.calls
  /\ calls' = calls + 1
  /\ call' = [call EXCEPT ![t] = [method |-> method, ops |-> ops,
                                  request |-> Request(method, ops)]]
  /\ net' = [net EXCEPT ![t] = "sent"]
  /\ result' = [result EXCEPT ![t] = NoResult]
  /\ fate' = [fate EXCEPT ![t].expect = expect]
  /\ holds' = [holds EXCEPT ![t] = @ \ Ended(t, ops)]
  /\ UNCHANGED <<server, reply, orphans, known, session, workload>>

(* The index of an item as the program has it, 0 if the key was missing. *)
IndexRead(t, k) == LoadUint64(known[t][k].modify)

Item(t, k)      == Begin(t, "item", <<Op("get", k, 0, NoSession, Empty)>>, {})
Items(t, p)     == Begin(t, "items", <<Op("get-tree", p, 0, NoSession, Empty)>>, {})
KeysOf(t, p)    == Begin(t, "keys", <<Op("keys", p, 0, NoSession, Empty)>>, {})
SetKey(t, k, b) == Begin(t, "set", <<Op("set", k, 0, NoSession, b)>>, {})
Erase(t, k)     == Begin(t, "erase", <<Op("delete", k, 0, NoSession, Empty)>>, {})
EraseAll(t, p)  == Begin(t, "eraseAll", <<Op("delete-tree", p, 0, NoSession, Empty)>>, {})

(* The expected index is that of the item read last. *)
CompareSet(t, k, b) ==
  Begin(t, "compareSet", <<Op("cas", k, IndexRead(t, k), NoSession, b)>>, {<<k, known[t][k]>>})
CompareErase(t, k) ==
  Begin(t, "compareErase", <<Op("delete-cas", k, IndexRead(t, k), NoSession, Empty)>>, {})

(* The session is the caller's argument: one without a session may give an *)
(* empty one.  printParameter() then drops the parameter, and the server   *)
(* reads a plain write.                                                    *)
Lock(t, k, b) ==
  /\ workload.bare \/ session[t] # NoSession
  /\ Begin(t, "lock", <<Op("lock", k, 0, session[t], b)>>, {})
Unlock(t, k, b) ==
  /\ workload.bare \/ session[t] # NoSession
  /\ Begin(t, "unlock", <<Op("unlock", k, 0, session[t], b)>>, {})

CreateSession(t, behavior) ==
  /\ session[t] = NoSession
  /\ Begin(t, "create", <<Op("create", Empty, 0, NoSession, behavior)>>, {})
Renew(t) ==
  /\ session[t] # NoSession
  /\ Begin(t, "renew", <<Op("renew", Empty, 0, session[t], Empty)>>, {})
Destroy(t) ==
  /\ session[t] # NoSession
  /\ Begin(t, "destroy", <<Op("destroy", Empty, 0, session[t], Empty)>>, {})

(* commit(), and the items that its compare operations rely on. *)
Operations(t) ==
  LET ks == workload.keys
  IN  UNION {
        {Op("set", k, 0, NoSession, b) : k \in ks, b \in workload.bodies},
        {Op("cas", k, IndexRead(t, k), NoSession, b) : k \in ks, b \in workload.bodies},
        {Op(v, k, IndexRead(t, k), NoSession, Empty) : k \in ks, v \in {"check-index", "delete-cas"}},
        {Op(v, k, 0, NoSession, Empty) : k \in ks, v \in {"get", "check-not-exists", "delete"}},
        {Op(v, p, 0, NoSession, Empty) : p \in workload.prefixes, v \in {"get-tree", "delete-tree"}},
        IF session[t] = NoSession THEN {}
        ELSE {Op(v, k, 0, session[t], Empty) : k \in ks, v \in {"lock", "unlock", "check-session"}}}
Relied(t, op) ==
  IF op.verb \in {"cas", "check-index"} THEN {<<op.at, known[t][op.at]>>}
  ELSE IF op.verb = "check-not-exists" THEN {<<op.at, NoItem>>} ELSE {}
\* The second operation finds what the first has left.
Touches(op, k) == op.at = k \/ (op.verb = "delete-tree" /\ k \in Under[op.at])
Commit(t, one, two) ==
  Begin(t, "commit", <<one, two>>,
        Relied(t, one) \cup IF Touches(one, two.at) THEN {} ELSE Relied(t, two))

Invoke(t) ==
  \/ \E k \in workload.keys : Item(t, k) \/ Erase(t, k) \/ CompareErase(t, k)
  \/ \E k \in workload.keys, b \in workload.bodies :
       SetKey(t, k, b) \/ CompareSet(t, k, b) \/ Lock(t, k, b) \/ Unlock(t, k, b)
  \/ \E p \in workload.prefixes : Items(t, p) \/ KeysOf(t, p) \/ EraseAll(t, p)
  \/ \E behavior \in {"release", "delete"} : CreateSession(t, behavior)
  \/ Renew(t) \/ Destroy(t)
  \/ \E one, two \in Operations(t) :
       one.verb \in workload.verbs /\ two.verb \in workload.then /\ Commit(t, one, two)
-----------------------------------------------------------------------------
(***************************************************************************)
(* The server processes a call, and answers or not.                        *)
(***************************************************************************)
Breaks(u, ops, yes) ==
  IF yes /\ net[u] # "none" THEN fate[u].broken \cup Ended(u, ops) ELSE fate[u].broken
TakeEffect(o, ops) ==
  /\ server' = o.server
  /\ holds' = IF o.says = "yes" THEN [u \in Callers |-> holds[u] \ Ended(u, ops)] ELSE holds

Process(t) ==
  LET r == call[t].request
  IN  /\ net[t] = "sent"
      /\ \E o \in Outcomes(server, Decode(r)), fails \in BOOLEAN :
           /\ TakeEffect(o, call[t].ops)
           /\ fate' = [u \in Callers |->
                [fate[u] EXCEPT
                   !.broken = Breaks(u, call[t].ops, o.says = "yes"),
                   !.before = IF u = t /\ fate[t].expect # {} THEN server.store ELSE @,
                   !.times = IF u = t THEN @ + 1 ELSE @,
                   !.took = IF u = t THEN @ \/ o.says = "yes" ELSE @,
                   !.says = IF u = t THEN o.says ELSE @,
                   !.made = IF u = t THEN o.made ELSE @]]
           /\ reply' = [reply EXCEPT ![t] = IF fails THEN Unable ELSE Answer(r, o)]
      /\ net' = [net EXCEPT ![t] = "answered"]
      /\ UNCHANGED <<call, orphans, callerVars, calls, workload>>

(* It cannot, for want of a leader for instance. *)
Reject(t) ==
  /\ net[t] = "sent"
  /\ reply' = [reply EXCEPT ![t] = Unable]
  /\ net' = [net EXCEPT ![t] = "answered"]
  /\ UNCHANGED <<server, call, orphans, callerVars, fate, holds, calls, workload>>

(***************************************************************************)
(* The kept connection breaks before any of the answer arrives: libcurl    *)
(* sends the request again, once, on a new connection, if it has no body   *)
(* (see Resend in CurlHandle).                                             *)
(***************************************************************************)
HasBody(c) == c.request.body # Empty
\* Mutant of Repeat: the request is repeated on every connection that breaks.
RepeatAgain(t) ==
  /\ net[t] = "answered"
  /\ ~HasBody(call[t])
  /\ fate' = [fate EXCEPT ![t].repeated = TRUE]
  /\ net' = [net EXCEPT ![t] = "sent"]
  /\ UNCHANGED <<server, call, reply, orphans, callerVars, holds, calls, workload>>
Repeat(t) ==
  /\ net[t] = "answered"
  /\ ~HasBody(call[t])
  /\ ~fate[t].repeated
  /\ fate' = [fate EXCEPT ![t].repeated = TRUE]
  /\ net' = [net EXCEPT ![t] = "sent"]
  /\ UNCHANGED <<server, call, reply, orphans, callerVars, holds, calls, workload>>

(* The call is over, and so is its history. *)
Ends(t) ==
  /\ net' = [net EXCEPT ![t] = "none"]
  /\ call' = [call EXCEPT ![t] = NoCall]
  /\ reply' = [reply EXCEPT ![t] = NoReply]
  /\ fate' = [fate EXCEPT ![t] = NoFate]

(***************************************************************************)
(* The transfer fails: timeout, abort, reset.  A server that has not       *)
(* processed the request still may; a late read changes nothing.           *)
(***************************************************************************)
Changes(c) == \E n \in DOMAIN c.ops : c.ops[n].verb \notin {"get", "get-tree", "keys", "renew"}
GiveUp(t) ==
  /\ net[t] # "none"
  /\ orphans' = IF net[t] = "sent" /\ Changes(call[t]) THEN Append(orphans, call[t]) ELSE orphans
  /\ result' = [result EXCEPT ![t] = [NoResult EXCEPT !.as = "threw"]]
  /\ Ends(t)
  /\ UNCHANGED <<server, known, session, holds, calls, workload>>

ProcessOrphan(n) ==
  /\ LET c == orphans[n]
     IN  \E o \in Outcomes(server, Decode(c.request)) :
           /\ TakeEffect(o, c.ops)
           /\ fate' = [u \in Callers |->
                         [fate[u] EXCEPT !.broken = Breaks(u, c.ops, o.says = "yes")]]
  /\ orphans' = RemoveAt(orphans, n)
  /\ UNCHANGED <<call, net, reply, callerVars, calls, workload>>

(* A session ends at the server: its TTL passed, its node failed. *)
Expire(id) ==
  /\ LET gone == <<Op("destroy", Empty, 0, id, Empty)>>
     IN  /\ TakeEffect(Outcome(Expired(server, id), "yes", <<>>), gone)
         /\ fate' = [u \in Callers |-> [fate[u] EXCEPT !.broken = Breaks(u, gone, TRUE)]]
  /\ UNCHANGED <<call, net, reply, orphans, callerVars, calls, workload>>
-----------------------------------------------------------------------------
Success(status) == status \div 100 = 2

(* throwStatusError() *)
StatusError(status) == IF status = 404 THEN "NotFoundError" ELSE "BadStatus"

(***************************************************************************)
(* What the methods make of an answer.  item(), items(), keys() and        *)
(* commit() look at the status themselves, the others leave it to          *)
(* Consul::put and del.                                                    *)
(***************************************************************************)
GetResult(r, missing) ==
  IF Success(r.status) THEN "ok" ELSE IF r.status = 404 THEN missing ELSE "BadStatus"
\* Mutants of CommitResult: any answer but 200 is taken for a rollback; a
\* rollback is not told from success.
CommitAborts(r)  == IF r.status = 200 THEN "ok" ELSE "TxnAborted"
CommitIgnores(r) == IF r.status \in {200, 409} THEN "ok" ELSE "BadStatus"
CommitResult(r) ==
  CASE r.status = 200 -> "ok" [] r.status = 409 -> "TxnAborted" [] OTHER -> "BadStatus"
SetResult(r) ==
  IF ~Success(r.status) THEN StatusError(r.status)
  ELSE IF r.yes THEN "ok" ELSE "UpdateError"
\* Mutants of BoolResult: the body is not looked at; an error is a false.
BoolIgnoresBody(r) == IF Success(r.status) THEN "true" ELSE StatusError(r.status)
BoolIgnoresStatus(r) == IF Success(r.status) /\ r.yes THEN "true" ELSE "false"
BoolResult(r) ==
  IF ~Success(r.status) THEN StatusError(r.status)
  ELSE IF r.yes THEN "true" ELSE "false"
VoidResult(r) == IF Success(r.status) THEN "ok" ELSE StatusError(r.status)

Result(method, r) ==
  CASE method = "item"             -> GetResult(r, "missing")
    [] method \in {"items", "keys"} -> GetResult(r, "ok")
    [] method = "commit"           -> CommitResult(r)
    [] method = "set"              -> SetResult(r)
    [] method \in {"compareSet", "compareErase", "lock", "unlock", "destroy"} -> BoolResult(r)
    [] OTHER                       -> VoidResult(r)

(* A caller remembers the items that item() and items() found, or did not. *)
Learned(t, as, made) ==
  LET op == call[t].ops[1]
      asked == IF call[t].method = "item" THEN {op.at} ELSE Under[op.at]
      Is(k, n) == made[n][1] = k
  IN  IF call[t].method \notin {"item", "items"} \/ as \notin {"ok", "missing"} THEN known[t]
      ELSE [k \in Keys |->
              IF \E n \in DOMAIN made : Is(k, n) THEN made[CHOOSE n \in DOMAIN made : Is(k, n)][2]
              ELSE IF k \in asked THEN NoItem ELSE known[t][k]]
Locked(t, as) ==
  IF as \notin {"ok", "true"} THEN {}
  ELSE {op.at : op \in {call[t].ops[n] : n \in {m \in DOMAIN call[t].ops :
                                               call[t].ops[m].verb = "lock"}}}

Return(t) ==
  LET as == Result(call[t].method, reply[t])
  IN  /\ net[t] = "answered"
      /\ result' = [result EXCEPT ![t] = [as |-> as, made |-> reply[t].made]]
      /\ known' = [known EXCEPT ![t] = Learned(t, as, reply[t].made)]
      /\ session' = IF call[t].method = "create" /\ as = "ok"
                    THEN [session EXCEPT ![t] = reply[t].made[1]] ELSE session
      /\ holds' = [holds EXCEPT ![t] = @ \cup (Locked(t, as) \ fate[t].broken)]
      /\ Ends(t)
      /\ UNCHANGED <<server, orphans, calls, workload>>

Next ==
  \/ \E t \in Callers :
       Invoke(t) \/ Process(t) \/ Reject(t) \/ Repeat(t) \/ GiveUp(t) \/ Return(t)
  \/ \E n \in DOMAIN orphans : ProcessOrphan(n)
  \/ \E id \in DOMAIN server.sessions : Expire(id)

Spec == Init /\ [][Next]_vars
-----------------------------------------------------------------------------
TypeOK ==
  /\ \A k \in Keys : server.store[k].modify \in 0 .. server.index
  /\ \A k \in Keys : server.store[k].session \in DOMAIN server.sessions \cup {NoSession}
  /\ DOMAIN server.sessions \subseteq server.named /\ server.named \subseteq SessionIds
  /\ net \in [Callers -> {"none", "sent", "answered"}]
  /\ \A t \in Callers : session[t] \in server.named \cup {NoSession}
  /\ \A t \in Callers : fate[t].times \in 0 .. 2 /\ holds[t] \subseteq Keys

(***************************************************************************)
(* Every method is one atomic operation on the store, the one that its     *)
(* arguments say, whatever became of connections and of earlier requests.  *)
(* Success means that it has taken effect during the call, and what a      *)
(* method returns is what the store had at that moment.  Refusal means     *)
(* that it has not, if the request has a body; one without a body may have *)
(* taken effect before libcurl repeated it, and be refused because it had. *)
(* Callers that lock and unlock without a session are not promised this.   *)
(***************************************************************************)
Yes == {"ok", "true"}
No  == {"false", "missing", "UpdateError", "TxnAborted", "NotFoundError"}
Says(as) ==
  CASE as \in Yes -> "yes" [] as \in No -> "no" [] as = "none" -> "nothing" [] OTHER -> "threw"
Tells == {"item", "items", "keys", "commit", "create"}
Asked(c) == [ops |-> c.ops, once |-> HasBody(c), tells |-> c.method \in Tells]

Promise ==
  INSTANCE AtomicStore WITH
    Start <- {Found(w) : w \in Workloads},
    asked <- [t \in Callers |-> IF net[t] = "none" THEN [ops |-> <<>>, once |-> TRUE, tells |-> FALSE]
                                ELSE Asked(call[t])],
    took  <- [t \in Callers |-> [times |-> fate[t].times, says |-> fate[t].says,
                                 made |-> fate[t].made]],
    told  <- [t \in Callers |-> [says |-> Says(result[t].as), made |-> result[t].made]],
    late  <- [n \in DOMAIN orphans |-> Asked(orphans[n])]
Atomic == Promise!Spec

(***************************************************************************)
(* No lost update: when compareSet() returns true or a transaction with    *)
(* compare operations commits, every item it was based on was, value and   *)
(* lock included, still the one this caller had read.  Indexes go through  *)
(* a double; the first one that is rounded up ends the guarantee.          *)
(***************************************************************************)
NoLostUpdate ==
  [][\A t \in Callers :
       net[t] = "answered" /\ net'[t] = "none" /\ result'[t].as \in Yes =>
         \A e \in fate[t].expect :
           e[2].modify < Exact + 3 => fate[t].before[e[1]] = e[2]]_vars

(***************************************************************************)
(* What lock() with a session and commit() let a caller conclude: it holds *)
(* the key at the server until it unlocks it, loses its session or someone *)
(* erases the key.  In particular no other caller holds it meanwhile.      *)
(***************************************************************************)
HeldAtServer ==
  \A t \in Callers : \A k \in holds[t] : server.store[k].session = session[t]

(***************************************************************************)
(* "Acquire the lock. Returns true if the lock is acquired and value is    *)
(* set, returns false otherwise." (kv.h): a key that lock() or a           *)
(* transaction has locked is locked at the server, by some session, until  *)
(* the lock ends.                                                          *)
(***************************************************************************)
LockAcquired ==
  \A t \in Callers : \A k \in holds[t] : server.store[k].session # NoSession

(***************************************************************************)
(* "Returns true if value was successfully set and false otherwise."       *)
(* (kv.h): a compareSet() that is about to return false has not set the    *)
(* value.                                                                  *)
(***************************************************************************)
FalseMeansUnset ==
  \A t \in Callers :
    /\ net[t] = "answered" /\ call[t].method = "compareSet"
    /\ Result(call[t].method, reply[t]) = "false"
    => ~fate[t].took

(***************************************************************************)
(* "Recursively get values which key starting with specified prefix"       *)
(* (kv.h): items() finds no other keys.                                    *)
(***************************************************************************)
PrefixKept ==
  \A t \in Callers :
    net[t] = "answered" /\ call[t].method = "items" =>
      \A n \in DOMAIN reply[t].made : reply[t].made[n][1] \in Under[call[t].ops[1].at]
=============================================================================
