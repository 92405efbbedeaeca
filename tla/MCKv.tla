-------------------------------- MODULE MCKv --------------------------------
(* Two callers, and more calls than either of them makes alone. *)
EXTENDS Kv, TLC

CONSTANTS t1, t2, s1, s2

TwoCallers  == {t1, t2}
TwoKeys     == {"a", ".b"}
TwoSessions == {s1, s2}
KeysUnder   == [p \in {"", "a", "."} |->
                  CASE p = "" -> TwoKeys [] p = "a" -> {"a"} [] p = "." -> {".b"}]

(* Callers and sessions are interchangeable: no action prefers one. *)
Alike == Permutations(TwoCallers) \cup Permutations(TwoSessions)

Work(methods, keys, prefixes, bodies, start, n) ==
  [methods |-> methods, verbs |-> {}, then |-> {}, keys |-> keys, prefixes |-> prefixes,
   bodies |-> bodies, start |-> start, bare |-> FALSE, calls |-> n]
Txns(work, verbs, then) ==
  [work EXCEPT !.methods = @ \cup {"commit"}, !.verbs = verbs, !.then = then]

SingleCalls ==
  Work({"item", "set", "compareSet", "compareErase", "erase"}, {"a"}, {}, {Empty, "v"}, 0, 3)
Locks ==
  Work({"create", "destroy", "lock", "unlock"}, {"a"}, {}, {"v"}, 0, 4)
Compares ==
  Txns(Work({"item"}, {"a"}, {}, {"v"}, 0, 3),
       {"cas", "check-index", "check-not-exists"}, {"get", "set", "cas", "delete-cas"})
LockingTxns ==
  Txns(Work({"create"}, {"a"}, {}, {"v"}, 0, 4), {"lock", "check-session"}, {"lock", "unlock", "delete"})

Sessions == Work({"create", "renew", "destroy"}, {}, {}, {}, 0, 4)

(* Two keys, read and erased together. *)
Trees == Work({"items", "keys", "eraseAll"}, {}, {"", "a"}, {}, 1, 3)
TreeTxns ==
  Txns(Work({"items"}, {".b"}, {"", "a"}, {"v"}, 1, 3), {"set"}, {"get-tree", "delete-tree"})

(* Indexes that a double has not bits enough for. *)
Rounded(start) ==
  Txns(Work({"item", "set", "compareSet"}, {"a"}, {}, {"v"}, start, 3), {"cas"}, {"check-index"})

AllWork ==
  {SingleCalls, Locks, Compares, LockingTxns, Sessions, Trees, TreeTxns, Rounded(3), Rounded(5)}

(* The documentation makes no exception for the prefix ".". *)
Dotted == {Work({"set", "items", "eraseAll"}, TwoKeys, {"."}, {"v"}, 0, 3)}

(* Nor does that of lock() for a caller without a session, *)
Bare == {[Work({"create", "lock", "unlock"}, {"a"}, {}, {"v"}, 0, 3) EXCEPT !.bare = TRUE]}

(* nor that of compareSet() for an empty value. *)
Bodyless == {Work({"item", "compareSet"}, {"a"}, {}, {Empty, "v"}, 0, 3)}
=============================================================================
