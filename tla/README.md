# Ppconsul in TLA+

Ppconsul is a C++ client library for Consul: a `Consul` object that many
threads share, a pool of HTTP clients behind it, one libcurl easy handle per
client, and thin endpoint objects (`Kv`, `Sessions`, `Catalog`, `Health`,
`Coordinate`, `Agent`, `Status`) that turn method calls into requests and
answers into results. These modules model what in it is hard to test: threads
that meet in the pool and at `stop()`, what survives in a handle from one call
to the next, which of several defaults reaches a request, what a caller may
conclude from a result over a network that loses and repeats, what a loop of
blocking queries gets to see, and what stays registered at an agent.

Check with `tlc -config X.cfg M` (see *Runs*), prove with `tlapm M.tla` for each of
the eight modules named `...Proofs`. Paths below are relative to the repository.

## Inventory

| Component | State it keeps | Operations | What is hard | What makes it correct |
|---|---|---|---|---|
| `ClientPool` (`src/client_pool.cpp`, `.h`) | a vector of idle clients under a mutex | `get`, the deleter of a `ClientPtr` | threads between test and creation; `push_back` throwing in a `noexcept` deleter; factories that throw | no client shared, lost, leaked or null; size bounded by demand |
| `Consul` (`src/consul.cpp`, `consul.h`) | `m_stopped`, the pool, defaults | `get`, `put`, `del`, `stop` | a relaxed flag polled by callbacks of other threads; clients older than the stop; silent servers | no response after `stop()`; every request ends; the client returns on every path |
| `CurlHttpClient` (`src/curl/http_client.*`) | one easy handle with its options, a header list | constructor, `get`, `put`, `del`, four callbacks | options and pointers that outlive the call that set them; exceptions half way | a call sends its own request and returns its own answer |
| Keyword arguments (`kwargs.h`, `parameters.h`) | none | `get_opt`, `makeQuery` | repeated keywords, resolved by two different algorithms | the last one counts; tokens stay out of the query |
| Endpoint defaults (`kv.h`, `sessions.h`, `catalog.h`, ...) | copies of token, data center and consistency | every method | empty defaults that override | a caller's argument wins, then the endpoint's, then `Consul`'s |
| `Kv`, `Sessions` | none; the server has it | reads of keys and trees, writes, erasures, compare, lock, transactions; create, renew, destroy | lost, late and repeated requests; sessions that expire; ambiguous results; indexes beyond a double | every call is one atomic operation on the store, and its result says what that did; no lost update; a lock is held at the server |
| Blocking queries (`block_for`, `withHeaders`) | none; the caller keeps an index | every reading method | missing items, failures, lagging followers, indexes that go back | no spinning, no going back, the last write is seen |
| `Agent` | none; the agent has services and checks | registration, deregistration, status updates; reads; membership | ids that the library and the agent both make up; late registrations; programs that die | a status goes where it was meant; nothing stays registered that its program does not know of; what is abandoned goes |
| Codecs (`s11n.h`, `helpers.cpp`, the b64 and json11 they call) | none | JSON, base64, URLs | raw pointers into strings sized by arithmetic; plain `char`; `uint64_t` through `double`; dots in paths; 16-bit ports, durations | what is written is what is read |
| libcurl's initialisation | a function-local static | `initialize` | none (the language's guarantee) | runs once |
| json11 (the rest), Catch, libcurl, build files | | | third-party | |

How they interact: an endpoint object holds a reference to a `Consul` and calls
`get`, `put` or `del` with its defaults followed by the caller's arguments.
`Consul` makes a query and headers of them, takes a client from the pool,
calls it and returns it while the full expression ends or unwinds. The client
sets the options of its handle and runs libcurl, which calls back into it for
headers, data and progress; the progress callback asks the `Consul` whether it
is stopped. Nothing else is shared between threads.

## Modules

| Module | Models | Composed with |
|---|---|---|
| `Lending` | what a pool promises: a client is absent, idle, or owned by one thread | implemented by `ClientPool` |
| `ClientPool` | the pool, each access to the vector a step | |
| `Consul` | requests and `stop()` over the pool | EXTENDS `ClientPool` |
| `ConsulProofs` | theorems about `ClientPool`, then about `Consul` | |
| `CurlHandle` | one handle, call after call | |
| `Parameters` | keyword arguments and queries (no state) | used by `Requests`, `Kv`, `Watch`, `Agent` |
| `Requests` | which token and data center a request carries | EXTENDS `Parameters` |
| `Numbers` | 64-bit integers through a double of `Precision` bits (no state) | used by `Kv` |
| `Store` | the server's keys and sessions, and what an operation does to them (no state) | used by `AtomicStore`, `Kv` |
| `AtomicStore` | what `Kv` and `Sessions` promise: calls that take effect at one point | EXTENDS `Store`; implemented by `Kv` |
| `Kv` | callers, requests, network, server and results of `Kv` and `Sessions` | EXTENDS `Parameters`, `Numbers`, `Store` |
| `Watch` | a loop of blocking queries | EXTENDS `Parameters` |
| `Agent` | programs, their services and checks, and the agent | EXTENDS `Parameters` |
| `Base64` | the two step machines behind `encodeBase64` and `decodeBase64` | |
| `ParametersProofs` | what arguments and queries come to | EXTENDS `Parameters`; used by the others |
| `RequestsProofs` | theorems about `Requests` | EXTENDS `ParametersProofs` |
| `CurlHandleProofs` | theorems about `CurlHandle` | |
| `WatchProofs` | theorems about `Watch` | EXTENDS `ParametersProofs` |
| `KvProofs` | theorems about `Kv` | EXTENDS `ParametersProofs` |
| `AgentProofs` | theorems about `Agent` | EXTENDS `ParametersProofs` |
| `Base64Proofs` | theorems about `Base64` | |
| `MC...` | constants for TLC | |

**ClientPool.** `pool`, `mutex` are the members; `pc` is the line a thread is
at, `held` the client that a local or a `ClientPtr` of the thread owns, `alive`
the clients that exist, `peak` a history of the most simultaneous calls.
`acquire()` is `LockAcquire`, then `MoveBack` and `PopBack` (`pool[Len(pool)]`
is null between the two, which only the lock hides), or `FindEmpty` and then,
without the lock, `Create` or `CreateFails`. The deleter is `Release`,
`LockRelease`, then `PushBack`, or `PushFails` and `Delete` (the swallowed
exception). `Get` is the call itself.

**Consul.** A request is between `Reuse` or `CreateClient` and `Finish`; its
`phase` tells options, connecting and transfer apart because each has its own
failures. `stopped` is `m_stopped`; since it is accessed with
`memory_order_relaxed`, each thread has a view `seen` of it that `See` brings up to
date in its own time. `cancellable` says whether a client was made with a
callback (`CallbackSound` in the proof: just as the pool's factory says). `enableStop` and `requestTimeout` are constructor parameters: they
are chosen at the start and never change.

**CurlHandle.** `opt` is the handle's options, and the options that hold
pointers hold the number of the call whose locals they point at. A call is a
script of `setopt`s, performed one by one (`SetOption`), any of which may throw
(`SetOptionThrows`, `ConstructorThrows`); then libcurl runs: it reads the body,
may repeat the request on a new connection, and calls the callbacks in the
order of a response (an interim status line, a status line, headers, the body
in pieces). `TransferFails` may end it at any point.

**Parameters, Requests.** Arguments are sequences of `<<keyword, value>>`, a
query a function. `unique_args` is a fold from the right, `get_opt` a search for
the last one, as in the code. A caller gives arguments one by one in any order;
`Passed` is what each kind of endpoint puts before them.

**Store, AtomicStore.** An operation (`Op`) has the verbs of `txn_ops`, and those that
only single requests have. `Step` is what one does to the server's store,
`Together` what a transaction does. `AtomicStore` has no requests, no status and no
network: a caller asks for operations, they take effect once (or twice, where
libcurl may repeat a request that has no body), and the caller is told what they
said, or the call throws and they may still take effect.

**Kv.** A method says what it asks for twice: as operations of the store, which is
what its comment promises, and as the HTTP request that it makes
(`SetRequest` ... `CommitRequest`). The server knows only the request and reads it
back (`Decode`): a keyword that is not printed, a path that libcurl changes or
an index that a double rounds makes the two differ. A method is `Begin` (the
request is made), `Process` (it takes effect at the server, which may answer or
fail to), `Return` (what the method makes of status and body). In between
`Reject`, `Repeat` (libcurl sends a request without a body again when a kept
connection turns out dead), `GiveUp` (the call throws, the request may still
arrive: `ProcessOrphan`) and `Expire` (a session ends). The library's part is the
requests, the results (`GetResult` ... `VoidResult`) and what flows from one call
into the next (`known`, read back through `Numbers`, and `session`); the server's
part is external and follows the repository's tests. `Promise` is the mapping
to `AtomicStore`: `fate` is a history of what became of a request, `holds` one of
the locks that a caller has reason to think it holds.

**Numbers.** `LoadUint64` is `load()` of an index, `DumpDouble` what
`TxnOpAppender` writes of one. With `Precision` 2 in the place of 53 a run reaches
the indexes that are rounded down (5) and up (7).

**Base64.** Each step of libb64's machines is an action, from reading one byte or
character to writing through `plainchar`. Between them the code may lose its
padding, get more of it or a foreign character anywhere (`Variants`). `CharSigned` is the platform's
choice for plain `char`, in which the decoder keeps its -1 and -2 (`Fragment`).

**Watch.** `Ask` makes the request, from the arguments of the endpoint object
and of the caller, in that order; `Return` is what `item`, `items` and the lists
of `Catalog` and `Health` make of 200, 404 and anything else. The servers are
external: a log with an index, a follower that is `behind`, queries that block,
one `Restore` that takes the index back.

**Agent.** As in `Kv`, a method is `Begin`, `Process` and `Return`, with `Reject`,
`Repeat`, `GiveUp` and `ProcessOrphan` in between; programs `Crash` and `Restart`.
The library's part is `Registration` (the two classes that take the keywords),
`CheckConfig` and `CheckJson` (what is written of a check), `ServiceCheckId`,
`UpdateUrl` and the results. Each request carries `meant`, the caller's intent in
the terms of the comments of `agent.h`, which the agent never looks at and the
properties compare with what happened. The agent is external and follows
`tests/agent`: a check's TTL passes (`Expire`), it runs checks of other kinds
(`Run`), it removes services whose check stays critical (`Reap`).

## Runs

| Run | Question | Bounds |
|---|---|---|
| `Consul` | Is a client ever shared, lost, leaked or null; are there ever more than needed; does the pool implement `Lending`, and a request keep to the pool? Does a late call ever get a response, is an abort ever false? Does `stop()`, or a request timeout, end every request though the server may be silent? Is every client given back, does the mutex stay available? | 2 threads, 3 clients |
| `CurlHandle_calls` | Is a call ever disturbed by what earlier ones left in the handle? | 3 calls, bodies of up to 2 pieces |
| `CurlHandle_tls_documented` | Do TLS parameters reach the options documented for them? No. | as above |
| `Requests_precedence` | Which of several tokens and data centers counts, and which default where none is given? | 3 arguments, 2 values of each kind |
| `Kv` | Is every call one atomic operation on the store, of which its result is true? Is an update ever lost, or a lock? | 2 callers, 2 keys, 2 sessions, 3 or 4 calls, transactions of 2 operations, `Precision` 2 |
| `Kv_prefix_documented` | Does `items()` find only keys with its prefix? Not with the prefix ".". | as above |
| `Kv_lock_documented` | Is a key for which `lock()` returned true locked? Not if its session is empty. | one workload of 3 calls |
| `Kv_false_documented` | Has a `compareSet()` that returns false not set the value? It may have set an empty one. | one workload of 3 calls |
| `Agent` | Do statuses and registrations end up where they were meant, and what is left of a program that died? | 2 programs, 3 calls, 2 kinds of check |
| `Watch` | What does a loop of blocking queries see? | 1 value (or none), 3 indexes, 1 restore |
| `Base64` | Is what was encoded what is decoded, within the buffers, and is the code the standard one? | texts of up to 4 of 3 bytes, and every single byte; 3 foreign characters |
| `Base64_unsigned_char` | The same where `char` is unsigned. No. | as above |

Why the bounds are enough for the cases that matter:

- *Pool and Consul.* Two threads race in `acquire()` and `release()`, and one can
  stop the other. One client more than there are threads makes exceeding the
  demand possible. A race that takes three threads is left to the theorems,
  which cover all numbers of threads and clients.
- *CurlHandle.* What a call inherits comes from the one before it or, where an
  exception kept that one from replacing something, from the one before that.
  All 1024 combinations of TLS parameters are constructed, with and without a
  cancellation callback; one of them
  (`Serving`) goes on to serve calls, as the options that calls set are not
  those of TLS.
- *Requests.* Three arguments are two of one keyword around or beside one of
  the other.
- *Kv.* `AllWork` splits the calls into workloads so that each case fits: reading,
  writing and comparing one key (3 calls: a read, a write of another caller, a
  write based on the read), sessions (4 calls), sessions and locks (4: two
  sessions, two calls on the lock), transactions that compare, transactions that lock,
  trees over two keys, transactions over trees, and comparing from index 3 and
  5 on, where a double of 2 bits rounds. A transaction of two operations has one
  that fails after one that would have taken effect. The prefix "." is left to
  `Kv_prefix_documented`, locking without a session (`bare` in a workload) to
  `Kv_lock_documented`. Callers and sessions are symmetric: no action prefers
  one, and no property is a liveness property.
- *Base64.* Four bytes are a full group and the first of the next; the bytes
  differ on both sides of every place where the machines cut them; single bytes
  go through all of the alphabet. A foreign character is put at every position,
  with and without padding.
- *Agent.* One program registers a service under its name or under an id of its
  own; the other has a check of the node with the id "web", the name of that
  service, so that a status could go astray. No check of the node is named
  "service:web" (`IdsApart`, see *Not modelled*). Three calls are a registration that times out, a
  deregistration and an update or a second registration; crashes and restarts
  are not counted.
- *Watch.* Three indexes let a restore lose two writes and others take their
  places, with the value the same or not.

`CurlHandle`, `Requests`, `Kv`, `Agent` and `Base64` really stop, when the bound on
calls is reached, a call's request is made or a text is decoded; there deadlock is not checked. In the
others it is: a pool whose threads all wait, or a watcher that can do nothing,
would be reported.

### Properties

*Pool*: `Exclusive`, `NoneLost`, `LentIsLive`, `WithinPeakDemand` and the
refinement `LendsExclusively`. *Consul*: `LateCallsFail` (no response to a call
made once the stop is visible to its thread), `AbortMeansStopped`,
`UsesPool`; `StopEndsRequests`, `TimeoutEndsRequests`, `GivenBack`,
`SomeoneEnters`. *CurlHandle*: `WireIsThisCall`, `PointersLive`,
`ReturnsOwnReply`, `UploadExact`, `TlsUndisturbed`. *Requests*:
`TokenOnlyInHeader`, `LastOneCounts`. *Kv*: the refinement `Atomic`,
`NoLostUpdate`, `HeldAtServer`. *Base64*: `RoundTrip`, `WithinBuffer`, `StandardCode`.
*Watch*: `QueryWaits`, `InOrder`, `EventuallySeen`. *Agent*:
`ReportedWhereMeant`, `NothingLeftBehind`, `AbandonedGoes`. Each is stated
in words where it is defined, and for each there is a mutant of the code, next
to the definition it mutates, that breaks it.

### Fairness

- *Consul.* `std::mutex` promises no order, so only "some waiting thread
  gets a free mutex" is weakly fair (`\E t : LockMutex(t)`), and a single thread
  may starve. Steps of a thread that wait for nothing are weakly fair; so is the
  visibility of a relaxed store, which the C++ standard asks for "in a
  reasonable amount of time"; so are libcurl's poll of the progress callback
  (about once a second, whatever the server does) and its timers. Nothing is
  assumed of the server: a response need never come.
- *Watch.* The caller asks again for ever and follows its own code; its timer
  fires; followers catch up. Transfers and servers may fail again and again,
  before and after the server's work, but not every time: strong fairness of the
  steps a failure could cut off. The end of writes is due to the bound on the
  index.

- *Agent.* The agent's timers run: a TTL passes if nothing updates the check, a
  critical service is removed in the end. Nothing is assumed of programs or of
  the network.

## What the runs found

1. `setupTls()` (`src/curl/http_client.cpp:222-226`) gives `certType` to
   `CURLOPT_CAPATH` and, for `keyType`, does so again; neither type reaches the
   option that `consul.h:53` and `:57` name. A `caPath` given too is set later
   and wins; without one the certificate type becomes the path of the CA
   directory. `TlsUndisturbed` shows that nothing else is affected.
2. `keyPath()` (`kv.h:483`) leaves dots unescaped, and libcurl removes dot segments
   from a path: the prefix "." is the empty one. `items(".")` returns all keys and
   `eraseAll(".")` erases all. (`set("..", v)` is a request for `/v1/`, a 404.)
3. Where plain `char` is unsigned, as on Linux for ARM or POWER, the decoder of
   `src/ext/b64/cdecode.c` takes padding and foreign characters for data: the value of
   a key whose length is not a multiple of three comes back with bytes too many,
   against `helpers.h:43` and `tests/unittests/helpers.cpp:16`.
4. An empty string is not printed as a parameter (`parameters.h:36`), so `lock()` with
   an empty session is a plain write. It returns true, against `kv.h:419`, while nobody
   holds the key (`LockAcquired`), and `unlock()` with one writes too.
5. libcurl sends a request without a body again when a kept connection turns out dead.
   If the server had processed it, the second time finds the key changed by the first:
   a `compareSet()` to an empty value may set it and return false, against `kv.h:398`
   (`FalseMeansUnset`). The same goes for `compareErase()`, and for `destroy()` of a
   session; `AtomicStore` lets such calls take effect twice and be told what the
   second one said.

Two more disagree with the documentation; properties of the passing runs say what the
code does, and need no run of their own:

- `Kv` and `Sessions` always pass their own token, and all endpoints but `Agent` and
  `Status` their own data center, an empty string if they were given none; coming
  later, it replaces the default of the `Consul` object that `consul.h:122-123`
  describes ("default token for all client requests"). `LastOneCounts` says so.
- `README.md:143` waits "for the item change" with `item.modifyIndex`; if the key
  does not exist, that is 0 and the query returns at once, every time.
  `headers().index()` works for a missing item too (`QueryWaits`).

Also seen, and left out of the properties with a reason in their comments:
after a restore of the servers, a watcher whose request timeout is shorter than
`block_for` stays blind until new writes pass its index (`EventuallySeen`
excludes it);
beyond 2^53 a `compareSet()` with a fresh index may be refused for ever (rounded down)
or succeed wrongly (rounded up: the bound in `NoLostUpdate`); and a keyword
argument that is kept in a variable and passed to `registerService()` twice is
moved from by the first call (`kwargs.h:405`, `:416`), so a retry that reuses
it registers the service without its id. The model's callers make their
arguments for each call.

## Proofs

The theorems hold for every value of the constants: any number of threads,
callers, clients, keys, sessions, services, arguments and calls. They assume of the
constants only what the modules that declare them do, which TLC evaluates in every
run:

| Assumption | Says |
|---|---|
| `PoolAssumption` | there are finitely many threads; the placeholders for no thread and no client are neither |
| `HandleAssumption`, `RequestsAssumption` | the bounds on calls, bodies and arguments are natural numbers |
| `StoreAssumption`, `KvAssumption` | there are finitely many keys; a prefix is one of keys; no session is named by the empty string; workloads are about the keys there are |
| `NumbersAssumption` | a double has at least two bits of significand |
| `WatchAssumption` | no value is the placeholder for none |
| `AgentAssumption` | every id of a service and of a check has one program that uses it; ids that differ do so behind "service:" |

Some theorems have a hypothesis of their own, named where it is used below: `Undotted`
and `Sessioned` (*Kv*), `PowersOfTwo`, `IdsApart` (*Agent*) and `CharSigned` (*Base64*).

*The pool.* None of its safety properties is inductive. Exclusion needs to know
that a thread in a critical section holds the mutex (`MutexSound`), which
threads own a client (`OwnerSound`) and that the back of the vector is null just
while some thread is between the move and the pop (`SlotsSound`); the bound on
clients needs to know that at most `peak` threads are busy (`PeakSound`), and a
thread may create only because it saw an empty vector, after which others may
have returned clients: by counting, the live clients are those in the vector and
those owned, and both together never outnumber `peak`. `PoolInv` is the
conjunction; `InvInit` and `InvStep` prove it inductive with a lemma for each
part (`MutexStep`, `OwnerStep`, `SlotsStep`, `ExclusiveStep`, `CountStep`), each with
a step per action. `Invariance`, `Exclusion`, `NoLeak`,
`NoNullClient`, `ClientsBounded` follow.

`Refinement` shows that the pool implements `Lending`. A client is placed at the
thread that holds it, else it is idle if it is alive, else absent. The steps
that move a client (`MoveBack`, `Create`, `PushBack`, `Delete`) map to steps of
`Lending`; all others map to stuttering.

*Consul.* `PoolOfConsul` shows that every step of a request, a stop or an exception
is a step of the pool or leaves it alone; so `PoolInv` holds of `Consul` too
(`ConsulPoolInvariance`). With it `ConsulInv` is inductive: a request runs just
while its thread owns a client (`RequestOwnsClient`), no view of the flag is ahead
of the flag and a late call has seen it (`FlagSound`), and every client that is alive
has a callback just if stopping is enabled (`CallbackSound`), so a response (`Respond` asks `PollSaysStop`) cannot come to a late
call. `NoLateResponse` and `AbortsAreStops` follow.

Liveness is left to TLC. `ConsulTypeCorrect` is the type invariant of the whole.

*Arguments and queries.* `UniqueIndexes`, a fold from the right, is the loop of
`unique_args`; the theorem `UniqueIndexesAreLast` says that it keeps, for a list
of any length, the last argument of each keyword. No induction theorem of the
library can be used (they take an operator), so the proof is by a least
counterexample: of the positions where the fold and its description part,
`LeastElement` gives the first, and one step of the fold refutes it.
`MakeQueryTakesLast` and `ConsulQueryIs` follow: what is in a query, and that the
token never is. The other modules use them through lemmas on the shapes of argument
lists that endpoints make.

*Requests.* `RequestsInv` says of a request that was sent what arguments it was made
of. From it `HeaderOnly` follows with `ConsulQueryIs`; `Precedence` compares the
two algorithms, the fold above and the search of `get_opt`, which agree on the last.

*The handle.* What libcurl sends depends on options that earlier calls set and an
exception may have kept the present one from setting. `CallInv` therefore speaks of
the position `at` in the present script: an option that the script has passed
has this call's value, and one it has not has a value of an earlier call, which
is harmless or will be overwritten (`Leaves` and the lemmas on it say what a script
leaves in an option). `ConstructorInv` does the same for the options that only the
constructor sets, TLS included, `UploadInv` for the position in the body against
what the server has, `ReplyInv` for the answer against the responses. `HandleInv` is
the conjunction with the types; `OwnRequest`, `NoDanglingPointer`, `OwnReply`, `UploadWhole`
and `TlsAsAsked` follow for any number of calls.

*Blocking queries.* `WatchInv`: an index the caller has, has been given or is about to be given
is one that a leader has reached (`FromInv`, `QueryInv`, `NewsInv`), followers are
behind it (`LogInv`), and without stale reads or a restore an answer on its way is
no older than what was told (`OrderInv`). `HeadersNeverSpin` and `ToldInOrder` follow.

*Kv and Sessions.* They assume `Undotted`: no caller asks for a key, a prefix or a session
named ".". For those the server reads another operation than the one meant (finding
2), and the theorems would be false. Nor does a caller lock or unlock with an empty
session (`Sessioned`): it would believe in a lock that it has not (finding 4). Every
workload of the run `Kv` satisfies both.

- The lemmas `KeyCalls`, `SessionCalls`, `LifeCalls`, `TreeCalls` and `CommitCalls` say, method by
  method, that the server reads in the request what the method was called for. The
  theorem `AsTheCallerMeant` says so of all requests, those still on their way
  after their callers gave up included.
- `KvInv` is inductive: types; for each caller, how far its request is and what has
  become of it (`FateOK`, `CallOK`, `CreatedOK`); that a call about to return as a
  success which locked a key has it locked unless something has ended that lock
  since it was sent (`LockOK`); that what it holds is locked at the server (`HoldOK`);
  and that a late request is one that a caller could have made. The danger is the
  late, repeated and concurrent ones: each lemma `...Keeps` shows that one step of
  anybody's leaves the locks of everybody else alone or has told them so.
  `LocksAreHeld`, `LocksAreAcquired` and, for callers with sessions of their own,
  `LocksExclude` follow.
- `NothingLost` is the theorem about updates, from `UpdateInv` on top: whatever was read
  is *old*, that is, if the key still has the same index it has the same item, since
  every write takes a new one (`WriteMoves` ... `CallMoves`); what a call is based on
  is what its operations compare (`ExpectOK`); and a compare that succeeds has
  found the index, hence the item (`FoundOK`). Indexes go through a double twice;
  below `Exact + 3` rounding never takes an index to a later one (`DoubleOfSmall`).
  The second operation of a transaction finds what the first has left, so nothing is claimed
  of it if the first one touches the same key (`Touches`). `PowersOfTwo`, a hypothesis, is
  arithmetic that the prover lacks: it knows nothing of exponentiation.
- `CallsAreAtomic` is the refinement: every behaviour of `Kv` is one of `AtomicStore`, under the
  mapping `Promise`. A call is asked when it begins (`BeginAsks`), takes effect when the
  server processes it (`ProcessTakes`), and is told when it returns (`ReturnTells`), or throws and
  may be late (`GiveUpThrows`, `OrphanTakes`); refusals and repetitions are not seen
  (`RejectUnseen`, `RepeatUnseen`). `PromiseInv` is what that needs on top: each request asks for
  exactly what its caller asked for (`ExactCall`), none with a body is repeated, so that
  nothing takes effect more often than it may (`SentMayStill`), and what the method
  will make of the answer is what the store said (`Truthful`, from `CallSays`: what the
  store may say to each kind of request, and `AnswerTells`: what the library
  makes of it). A transaction prints indexes that were already read through
  a double; that the server gets the very same ones takes `DoubleTwice`: rounding to
  a double twice is rounding once, for every number and every precision. Late requests
  are a sequence, so that two that ask for the same remain two calls.

*Agent.* `AgentInv`: every request, late ones included, asks for what its caller
meant (`GoodRequest`); every check is one of the node or is named after a service that
is there (`CheckOK`); what the agent has of a program is what the program may know of;
after an answered deregistration nothing of what it named is there until a
registration arrives. `StatusWhereMeant` and `NothingStays` follow. They need
`AgentAssumption`: were an id shared by two programs, either could remove or
update what is the other's. And they need `IdsApart`: ids are strings, the agent puts
"service:" before that of a service to name its check, and so does the library in
`servicePass()`; a check of the node may have been given that very name.

*Base64.* The theorems are about texts of any length; no induction over them is
needed, since the machines are the induction: each step adds a character or a byte
to an invariant that speaks of all positions. The j-th character stands for `Sextet(text, j)`,
the j-th six bits; `EncodeInv` says that after q groups and one or two bytes just their
characters are written, and that `carry` has the bits that are left (`Writing`).
`SixAt` shows that six `Bit`s of `Standard` are a sextet, so that `CodeIsStandard` follows.
`DecodeInv` bounds `plainchar` by the characters read (`Reading`), whatever they are and
whether `char` is signed or not: a group that has begun has three bytes in `Capacity`.
`WithinBuffers` follows from both. For `RoundTrips`, `VariantPlaces` gives an increasing `f`
that says where the characters are in what is decoded, all else being foreign or
padding; `HoldInv` says that the machine has passed the first k of them, that the bytes
before `at` are those of the text, and that the one at `at` has the bits begun
(`Held`). A character that is skipped is none of the k (`Skipped`), one that is not is
the next of them (`Taken`): that is where the decoder's test of the sign is needed, so
the theorem assumes `CharSigned`; without it the run `Base64_unsigned_char` refutes it.
`Base64Assumption` says that texts are bytes and that the foreign characters are not
in the decoder's table.

Only model-checked: liveness under fairness, which the prover does not handle
(`StopEndsRequests`, `TimeoutEndsRequests`, `GivenBack`, `SomeoneEnters`, `EventuallySeen`,
`AbandonedGoes`). All other properties of the passing runs are theorems.

## Not modelled

- Moving and destroying a `Consul` or a pool: the caller must see to it that no
  thread uses it then.
- libcurl's global initialisation: a function-local static.
- The text of JSON, URLs (but for dots) and durations, except where it decides
  which parameter is sent; 16-bit ports, which `load()` cuts silently; error
  messages and their lazily made strings; `X-Consul-Knownleader` and
  `X-Consul-Lastcontact`.
- Catch (17,937 lines, three quarters of all) and json11 apart from its numbers are
  third-party code that the library only calls or is only tested with.
- The check of allowed keywords is done by the compiler; in `Requests` it is the
  guard `Allowed`.
- `Agent`'s reads and membership; tags, metadata, addresses, ports, notes and
  the parameters of checks other than their kind.
- Node checks named as the check of a service would be, "service:web" for one. The
  model has their collision (the id of a service's check is the concatenation), but
  `IdsApart` excludes it in the run and the theorems, as TLC then finds
  `ReportedWhereMeant` violated: `registerCheck()` replaces the service's check, and
  `servicePass()` updates that of the node. No comment says which ids are allowed.
- The separators of `subKeys()`; an item that was answered as an empty array
  (`kv.h:515` takes `at(0)`), which no Consul server sends.
- The form in which json11 prints an index of 1e17 and more (`%.17g`, with an
  exponent): its value is that of `DumpDouble`, its text is not modelled.
- The libcurl error buffer, uninitialised until the first transfer: it only
  reaches the text of an exception.

## Plan

Done, in this order: A the pool and `Lending`; B `Consul` over it; C the handle;
D arguments, defaults, `Kv` and `Sessions`; F blocking queries; G the agent; the
proofs of A and B; E number widths and base64; trees, two keys and the rest of the
transactions in `Kv`, and `AtomicStore`, which it implements.

Then the proofs of C, D, F, G, that `Kv` implements `AtomicStore`, and of `Base64`.

Nothing of the plan is left. What it never had is listed under "Not modelled"; of the
properties, liveness under fairness has no proof.
