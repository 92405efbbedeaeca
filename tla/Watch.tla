------------------------------- MODULE Watch -------------------------------
(***************************************************************************)
(* Blocking queries: a caller follows one key, or one list of the catalog, *)
(* of health checks or of coordinates, by calling a reading method again   *)
(* and again with block_for and the index of its last response, while      *)
(* others write.  The library keeps nothing between two calls: what it     *)
(* makes of indexes, of missing items and of failures decides what such a  *)
(* caller gets to see.                                                     *)
(*                                                                         *)
(* The servers are the environment, as the tests of blocking queries use   *)
(* them: a query that names no index, 0, or one that is behind is answered *)
(* at once, any other when there is something new or its time is over.     *)
(* Every write here changes what is watched.                               *)
(***************************************************************************)
EXTENDS Parameters

CONSTANTS
  Values,       \* what may be stored
  MaxIndex      \* bound on the raft index

ASSUME WatchAssumption == Empty \notin Values /\ MaxIndex \in Nat \ {0}

VARIABLES
  config,       \* the caller's choices; see Configs
  log,          \* what was stored at each raft index, Empty if nothing
  behind,       \* the index up to which a follower has applied the log
  restored,     \* the servers were restored from a backup: the index went back
  phase,        \* of the call: "idle", "sent", "blocked" or "answered"
  query,        \* the request: its consistency, wait and index
  at,           \* the server that has it: "leader" or "follower"
  reply,        \* the server's answer
  from,         \* the index the caller will pass next
  last,         \* what its last response said is stored, or Unknown
  told          \* history: the server's index in that response

servers == <<log, behind, restored>>
call    == <<phase, query, at, reply>>
caller  == <<from, last, told>>
vars    == <<config, servers, call, caller>>

Unknown == "unknown"
Stored  == Values \cup {Empty}
None    == "none"

(* The caller's choices: which method it calls (Kv::item(); one that takes  *)
(* 404 for an empty result, such as Kv::items(); a list of Catalog or       *)
(* Health), whether it goes on from headers().index() or from the item's    *)
(* modifyIndex, the consistency of the endpoint object and of its calls, if *)
(* they name one, and whether the request timeout is shorter than the time  *)
(* a query may block.                                                       *)
Configs ==
  {c \in [api : {"item", "tree", "list"}, by : {"headers", "item"}, endpoint : {Default, "stale"},
          given : {None, Default, "stale"}, short : BOOLEAN] : c.by = "item" => c.api = "item"}

Chosen == IF config.given = None THEN config.endpoint ELSE config.given

(***************************************************************************)
(* The request                                                             *)
(***************************************************************************)
\* Mutant of PrintBlockFor: asks for what follows the next index.
PrintNext(v)     == [wait |-> v[1], index |-> v[2] + 1]
PrintBlockFor(v) == [wait |-> v[1], index |-> v[2]]

Argument(k, v) == IF v = None THEN <<>> ELSE <<<<k, v>>>>

\* The endpoint object's consistency comes before the caller's arguments.
\* Mutant of Arguments: it comes after them.
DefaultsLast(block) ==
  Argument("consistency", config.given) \o block \o Argument("consistency", config.endpoint)
Arguments(block) ==
  Argument("consistency", config.endpoint) \o Argument("consistency", config.given) \o block

Request(block) ==
  LET q == ConsulQuery([dc |-> Empty, token |-> Empty], Arguments(block))
      asked == IF "block_for" \in DOMAIN q THEN PrintBlockFor(q["block_for"])
               ELSE [wait |-> None, index |-> 0]
  IN  [consistency |-> IF "consistency" \in DOMAIN q THEN q["consistency"] ELSE Default,
       wait |-> asked.wait, index |-> asked.index]

NoQuery == [consistency |-> Default, wait |-> None, index |-> 0]
NoReply == [status |-> 200, index |-> 0, value |-> Empty, waited |-> FALSE]

\* A call that is over leaves nothing behind.
Over == phase' = "idle" /\ query' = NoQuery /\ at' = "leader" /\ reply' = NoReply

Init ==
  /\ config \in Configs
  /\ log \in {<<v>> : v \in Stored} /\ behind = 1 /\ restored = FALSE
  /\ phase = "idle" /\ query = NoQuery /\ at = "leader" /\ reply = NoReply
  /\ from = 0 /\ last = Unknown /\ told = 0

\* The first call has no block_for, as in the README.
Ask ==
  /\ phase = "idle"
  /\ query' = Request(IF last = Unknown THEN <<>>
                      ELSE <<<<"block_for", <<"interval", from>>>>>>)
  /\ phase' = "sent"
  /\ at' \in {"leader"} \cup {s \in {"follower"} : query'.consistency = "stale"}
  /\ UNCHANGED <<config, servers, reply, caller>>

(***************************************************************************)
(* The servers                                                             *)
(***************************************************************************)
Applied == IF at = "leader" THEN Len(log) ELSE behind
News    == query.index = 0 \/ Applied > query.index

Answer(waited) ==
  LET missing == config.api # "list" /\ log[Applied] = Empty
  IN  /\ reply' = [status |-> IF missing THEN 404 ELSE 200, index |-> Applied,
                   value |-> log[Applied], waited |-> waited]
      /\ phase' = "answered"
      /\ UNCHANGED <<config, servers, query, at, caller>>

Arrive   == phase = "sent" /\ News /\ Answer(FALSE)
Block    == phase = "sent" /\ ~News /\ phase' = "blocked"
            /\ UNCHANGED <<config, servers, query, at, reply, caller>>
Wake     == phase = "blocked" /\ News /\ Answer(TRUE)
WaitOver == phase = "blocked" /\ ~config.short /\ Answer(TRUE)

ServerError ==
  /\ phase \in {"sent", "blocked"}
  /\ reply' = [NoReply EXCEPT !.status = 500]
  /\ phase' = "answered"
  /\ UNCHANGED <<config, servers, query, at, caller>>

Write(v) ==
  /\ Len(log) < MaxIndex
  /\ log' = Append(log, v)
  /\ UNCHANGED <<config, behind, restored, call, caller>>

CatchUp ==
  /\ behind < Len(log) /\ behind' = behind + 1
  /\ UNCHANGED <<config, log, restored, call, caller>>

\* A restore (one is enough) loses the last writes and the queries in flight.
Restore(i) ==
  /\ ~restored /\ restored' = TRUE
  /\ log' = SubSeq(log, 1, i) /\ behind' = IF behind > i THEN i ELSE behind
  /\ IF phase \in {"sent", "blocked"} THEN Over ELSE UNCHANGED call
  /\ UNCHANGED <<config, caller>>

(***************************************************************************)
(* The response.  A response keeps the headers it was made with; a missing *)
(* item is a KeyValue that is not valid, its modifyIndex 0.                *)
(***************************************************************************)
NoHeaders == [index |-> 0]
Headers   == [index |-> reply.index]
Thrown    == "exception"

Response(headers, value) == [headers |-> headers, data |-> value]

\* Mutants of ItemResponse: a missing item is an error, as it is for
\* Consul::get(); its response has no headers.
ItemOrNotFound ==
  IF reply.status = 200 THEN Response(Headers, reply.value) ELSE Response(NoHeaders, Thrown)
ItemNoHeaders ==
  CASE reply.status = 200 -> Response(Headers, reply.value)
    [] reply.status = 404 -> Response(NoHeaders, Empty)
    [] OTHER              -> Response(NoHeaders, Thrown)
ItemResponse ==
  CASE reply.status = 200 -> Response(Headers, reply.value)
    [] reply.status = 404 -> Response(Headers, Empty)
    [] OTHER              -> Response(NoHeaders, Thrown)
TreeResponse ==
  CASE reply.status = 200 -> Response(Headers, reply.value)
    [] reply.status = 404 -> Response(Headers, Empty)
    [] OTHER              -> Response(NoHeaders, Thrown)
ListResponse ==
  IF reply.status = 200 THEN Response(Headers, reply.value) ELSE Response(NoHeaders, Thrown)

ModifyIndex(response) == IF response.data = Empty THEN 0 ELSE reply.index

\* An exception leaves the caller with what it knew: it asks again from there.
Return ==
  LET response == CASE config.api = "item" -> ItemResponse
                    [] config.api = "tree" -> TreeResponse
                    [] config.api = "list" -> ListResponse
  IN  /\ phase = "answered" /\ Over
      /\ IF response.data = Thrown THEN UNCHANGED caller
         ELSE /\ from' = IF config.by = "item" THEN ModifyIndex(response)
                         ELSE response.headers.index
              /\ last' = response.data
              /\ told' = reply.index
      /\ UNCHANGED <<config, servers>>

RequestTimesOut ==
  /\ config.short /\ phase = "blocked" /\ Over
  /\ UNCHANGED <<config, servers, caller>>

TransferFails ==
  /\ phase # "idle" /\ Over
  /\ UNCHANGED <<config, servers, caller>>

Next ==
  \/ Ask \/ Return \/ RequestTimesOut \/ TransferFails
  \/ Arrive \/ Block \/ Wake \/ WaitOver \/ ServerError
  \/ CatchUp \/ \E v \in Stored : Write(v)
  \/ \E i \in 1 .. Len(log) - 1 : Restore(i)

Spec == Init /\ [][Next]_vars

(***************************************************************************)
(* The caller asks again for ever (the steps from idle to sent are those   *)
(* of Ask), its timer fires, followers catch up, and the network and the   *)
(* servers, which may fail again and again, do not fail every query.       *)
(***************************************************************************)
FairSpec ==
  /\ Spec
  /\ WF_phase(phase = "idle" /\ phase' = "sent")
  /\ WF_vars(Return) /\ WF_vars(RequestTimesOut) /\ WF_vars(CatchUp)
  /\ SF_vars(Arrive) /\ SF_vars(Block) /\ SF_vars(Wake) /\ SF_vars(WaitOver)
  /\ SF_vars(reply.status # 500 /\ Return)

(***************************************************************************)
(* Properties                                                              *)
(***************************************************************************)
\* The variables keep their types; no query names an index beyond all that
\* the servers may have had (consul.h:94-97).
TypeOK ==
  /\ config \in Configs
  /\ Len(log) \in 1 .. MaxIndex /\ (\A i \in DOMAIN log : log[i] \in Stored)
  /\ behind \in DOMAIN log /\ restored \in BOOLEAN
  /\ phase \in {"idle", "sent", "blocked", "answered"} /\ at \in {"leader", "follower"}
  /\ query \in [consistency : {Default, "stale"}, wait : {None, "interval"}, index : 0 .. MaxIndex]
  /\ reply \in [status : {200, 404, 500}, index : 0 .. MaxIndex, value : Stored, waited : BOOLEAN]
  /\ from \in 0 .. MaxIndex /\ told \in 0 .. MaxIndex /\ last \in Stored \cup {Unknown}

\* The caller is about to get, without a wait, the index it was told last.
ToldAgain == phase = "answered" /\ reply.status # 500 /\ last # Unknown
             /\ reply.index = told /\ ~reply.waited

\* A caller never spins, that is, no response repeats the one before it
\* without having waited, unless it goes on from the modifyIndex of an item
\* that was missing: the headers of a 404 have an index (kv.h item()), but
\* the KeyValue has not, although the README waits "for the item change" by it.
QueryWaits == ToldAgain => config.by = "item" /\ last = Empty

\* Unless the caller, or failing that its endpoint object, asks for stale
\* reads, or the servers are restored, it never gets a response older than
\* one it has (consistency of a call over that of Kv, Catalog, Health).
InOrder == [][Chosen # "stale" /\ ~restored => told' >= told]_vars

UpToDate == last = log[Len(log)]

\* Whatever fails on the way, a caller that keeps asking sees the last write
\* or removal, by either index and from stale followers too.  The exception:
\* after a restore an index from before it may name a future one, and only a
\* query that may block its whole time out finds its way back.
EventuallySeen == <>[](UpToDate \/ (config.short /\ restored))
=============================================================================
