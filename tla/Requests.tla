------------------------------ MODULE Requests ------------------------------
(***************************************************************************)
(* Which token and which data center a request carries.  A Consul object   *)
(* has defaults; an endpoint object that refers to it (Kv, Sessions,       *)
(* Catalog, Health, Coordinate) may have its own; a call may give some,    *)
(* repeatedly and in any order.                                            *)
(***************************************************************************)
EXTENDS Parameters, FiniteSets

CONSTANTS
  Tokens, Dcs,   \* the non-empty tokens and data center names
  MaxArgs        \* bound on the arguments of one call

ASSUME RequestsAssumption == MaxArgs \in Nat

VARIABLES
  consul,        \* m_dataCenter and m_defaultToken of the Consul object
  endpoint,      \* the kind of the endpoint object, or "consul" for a direct call
  own,           \* m_defaultDc and m_defaultToken of the endpoint object
  given,         \* the arguments of the call
  wire           \* the request: its query and its X-Consul-Token header
requestsVars == <<consul, endpoint, own, given, wire>>

(***************************************************************************)
(* "bare"     a call that takes no parameters and passes none: those of    *)
(*            Agent and Status, Catalog::datacenters()                     *)
(* "catalog"  Catalog, Health, Coordinate: a data center, no token         *)
(* "kv"       Kv; erase() and eraseAll() are calls without arguments       *)
(***************************************************************************)
Endpoints == {"consul", "bare", "catalog", "kv", "session", "session create"}

(* KWARGS_CHECK_IN_LIST of the calls. *)
Allowed(e) == CASE e = "bare" -> {}
                [] e = "catalog" -> {"dc"}
                [] OTHER -> {"dc", "token"}

(* What the endpoint's constructor stores; parameters left out are empty. *)
Defaults(e) ==
  [dc    : IF e \in {"consul", "bare"} THEN {Empty} ELSE Dcs \cup {Empty},
   token : IF e \in {"kv", "session", "session create"}
           THEN Tokens \cup {Empty} ELSE {Empty}]

Values(k) == IF k = "dc" THEN Dcs \cup {Empty} ELSE Tokens \cup {Empty}
NoWire    == [sent |-> FALSE]

(* What the endpoint passes to Consul::get, put or del. *)
Passed(e, d, args) ==
  CASE e = "consul"  -> args
    [] e = "bare"    -> <<>>
    [] e = "catalog" -> <<<<"consistency", Default>>, <<"dc", d.dc>>>> \o args
    [] e \in {"kv", "session"} -> <<<<"token", d.token>>, <<"dc", d.dc>>>> \o args
    [] e = "session create" ->
         <<<<"token", GetOpt("token", d.token, args)>>,
           <<"dc", GetOpt("dc", d.dc, args)>>>>

Init ==
  /\ consul \in [dc : Dcs \cup {Empty}, token : Tokens \cup {Empty}]
  /\ endpoint \in Endpoints
  /\ own \in Defaults(endpoint)
  /\ given = <<>>
  /\ wire = NoWire

(* The caller writes one more argument. *)
Give(k, v) ==
  /\ ~wire.sent
  /\ Len(given) < MaxArgs
  /\ given' = Append(given, <<k, v>>)
  /\ UNCHANGED <<consul, endpoint, own, wire>>

(* The call: the query and the headers are made, and given to the client. *)
Send ==
  /\ ~wire.sent
  /\ LET args == Passed(endpoint, own, given)
     IN  wire' = [sent |-> TRUE, query |-> ConsulQuery(consul, args),
                  token |-> ConsulToken(consul, args)]
  /\ UNCHANGED <<consul, endpoint, own, given>>

Next ==
  \/ \E k \in Allowed(endpoint) : \E v \in Values(k) : Give(k, v)
  \/ Send

Spec == Init /\ [][Next]_requestsVars
-----------------------------------------------------------------------------
(* The value of k on the wire, empty if there is none. *)
Sent(k) == IF k = "token" THEN wire.token
           ELSE IF k \in DOMAIN wire.query THEN wire.query[k] ELSE Empty

(***************************************************************************)
(* A token goes into the header only, whoever gave it, however often and   *)
(* in whatever place: consul.h:228-229 relies on the last of equal         *)
(* keywords being the one that counts.                                     *)
(***************************************************************************)
TokenOnlyInHeader == wire.sent => "token" \notin DOMAIN wire.query

(* Endpoints that have no default of their own for k. *)
Keeps(k) ==
  endpoint \in {"consul", "bare"} \cup (IF k = "token" THEN {"catalog"} ELSE {})

(***************************************************************************)
(* A parameter of the call overrides every default, and of several the     *)
(* last one counts, for the query as for the header, although two          *)
(* different algorithms choose it (unique_indexes_impl, keyword_index);    *)
(* without one, what the endpoint object has overrides the default of      *)
(* Consul, also when it is empty because the object was given none; only   *)
(* endpoints that keep no such value leave Consul's default in force.      *)
(***************************************************************************)
LastOneCounts ==
  wire.sent =>
    \A k \in {"dc", "token"} :
      /\ \A i \in DOMAIN given :
           given[i][1] = k /\ (\A j \in DOMAIN given : j > i => given[j][1] # k)
             => Sent(k) = given[i][2]
      /\ ~Given(k, given) /\ ~Keeps(k) => Sent(k) = own[k]
      /\ ~Given(k, given) /\ Keeps(k) => Sent(k) = consul[k]
=============================================================================
