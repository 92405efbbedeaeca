------------------------------- MODULE Store -------------------------------
(***************************************************************************)
(* The keys and sessions of a Consul server, and what an operation does to *)
(* them, as far as the tests of kv and sessions rely on it.  A call of the *)
(* library is one operation or, for Kv::commit, a sequence of them.        *)
(***************************************************************************)
EXTENDS Integers, Sequences, SequencesExt

CONSTANTS
  Keys,
  Under,        \* the keys that begin with a prefix, by prefix
  SessionIds    \* what the server may name sessions, in a bounded run

NoSession == ""   \* the session of a key that is not locked

ASSUME StoreAssumption ==
  /\ NoSession \notin SessionIds
  /\ IsFiniteSet(Keys)
  /\ \A prefix \in DOMAIN Under : Under[prefix] \subseteq Keys

(* A KeyValue, and a default-constructed one, for which valid() is false. *)
NoItem == [modify |-> 0, value |-> "", session |-> NoSession]
Valid(item) == item.modify # 0

(* An operation on a key or a prefix ("at"), or on a session. *)
Op(verb, at, index, session, body) ==
  [verb |-> verb, at |-> at, index |-> index, session |-> session, body |-> body]

(***************************************************************************)
(* An outcome is the server's next state, whether it says yes, no or that  *)
(* the operation is in error, and what was found or made: items by key, or *)
(* the id of a session.  Only a yes takes effect.                          *)
(***************************************************************************)
Outcome(s, says, made) == [server |-> s, says |-> says, made |-> made]
Refuse(s) == Outcome(s, "no", <<>>)

Write(s, k, v, owner, i) ==
  LET item == [modify |-> i, value |-> v, session |-> owner]
  IN  Outcome([s EXCEPT !.index = i, !.store[k] = item], "yes", <<<<k, item>>>>)
Deleted(s, ks, i) ==
  Outcome([s EXCEPT !.index = i,
                    !.store = [k \in Keys |-> IF k \in ks THEN NoItem ELSE @[k]]],
          "yes", <<>>)
Read(s, ks) ==
  LET there == SetToSeq({k \in ks : Valid(s.store[k])})
  IN  Outcome(s, "yes", [n \in DOMAIN there |-> <<there[n], s.store[there[n]]>>])
KeysOnly(o) == [o EXCEPT !.made = [n \in DOMAIN @ |-> <<@[n][1]>>]]

(* Invalidation releases or deletes the keys that the session holds. *)
Invalidate(s, id, i) ==
  LET held == {k \in Keys : s.store[k].session = id}
      rest == [x \in DOMAIN s.sessions \ {id} |-> s.sessions[x]]
  IN  [s EXCEPT !.index = i, !.sessions = rest,
                !.store = [k \in Keys |->
                             IF k \notin held THEN @[k]
                             ELSE IF s.sessions[id] = "delete" THEN NoItem
                             ELSE [@[k] EXCEPT !.session = NoSession, !.modify = i]]]

(* One operation at index i; an index of 0 asks for a key that is not there. *)
Step(s, op, i) ==
  LET k == op.at
      now == s.store[k]
      When(met, o) == IF met THEN o ELSE Refuse(s)
  IN  CASE op.verb = "set"    -> Write(s, k, op.body, now.session, i)
        [] op.verb = "cas"    -> When(op.index = now.modify, Write(s, k, op.body, now.session, i))
        [] op.verb = "lock"   ->
             IF op.session \notin DOMAIN s.sessions THEN Outcome(s, "error", <<>>)
             ELSE When(now.session \in {NoSession, op.session}, Write(s, k, op.body, op.session, i))
        [] op.verb = "unlock" ->
             When(now.session = op.session, Write(s, k, op.body, NoSession, i))
        [] op.verb = "delete" -> Deleted(s, {k}, i)
        [] op.verb = "delete-tree" -> Deleted(s, Under[op.at], i)
        [] op.verb = "delete-cas"  -> When(now.modify \in {0, op.index}, Deleted(s, {k}, i))
        [] op.verb = "get"         -> When(Valid(now), Read(s, {k}))
        [] op.verb = "get-tree"    -> Read(s, Under[op.at])
        [] op.verb = "keys"        -> KeysOnly(Read(s, Under[op.at]))
        [] op.verb = "check-index" -> When(Valid(now) /\ now.modify = op.index, Read(s, {k}))
        [] op.verb = "check-not-exists" -> When(~Valid(now), Outcome(s, "yes", <<>>))
        [] op.verb = "check-session" ->
             When(Valid(now) /\ now.session = op.session, Read(s, {k}))
        [] op.verb = "renew"       -> When(op.session \in DOMAIN s.sessions, Outcome(s, "yes", <<>>))
        [] op.verb = "destroy"     ->
             Outcome(IF op.session \in DOMAIN s.sessions THEN Invalidate(s, op.session, i) ELSE s,
                     "yes", <<>>)

(* All operations happen at one index, or none does. *)
Together(s, ops) ==
  LET run[n \in 0 .. Len(ops)] ==
        IF n = 0 THEN Outcome(s, "yes", <<>>)
        ELSE IF run[n - 1].says # "yes" THEN run[n - 1]
        ELSE LET o == Step(run[n - 1].server, ops[n], s.index + 1)
             IN  IF o.says = "yes" THEN [o EXCEPT !.made = run[n - 1].made \o @]
                 ELSE Outcome(s, o.says, <<>>)
  IN  run[Len(ops)]

NewSession(s, behavior, id) ==
  Outcome([s EXCEPT !.index = @ + 1, !.named = @ \cup {id},
                    !.sessions = [x \in DOMAIN @ \cup {id} |-> IF x = id THEN behavior ELSE @[x]]],
          "yes", <<id>>)

(* What the server may do with them; the name of a session is its choice. *)
Outcomes(s, ops) ==
  IF ops # <<>> /\ ops[1].verb = "create"
  THEN {NewSession(s, ops[1].body, id) : id \in SessionIds \ s.named}
  ELSE {Together(s, ops)}

(* A session ends at the server: its TTL passed, its node failed. *)
Expired(s, id) == Invalidate(s, id, s.index + 1)
=============================================================================
