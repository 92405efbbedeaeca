----------------------------- MODULE Parameters -----------------------------
(***************************************************************************)
(* Keyword arguments (kwargs.h), how they become the query of a request    *)
(* (parameters.h), and how a Consul object completes them (consul.h).      *)
(*                                                                         *)
(* An argument is <<keyword, value>>; a call's arguments are a sequence in *)
(* which a keyword may repeat.  A query is a function from the keywords    *)
(* that are printed to their values.                                       *)
(***************************************************************************)
EXTENDS Naturals, Sequences

Empty   == ""
Default == "default"   \* Consistency::Default

Given(k, args) == \E i \in DOMAIN args : args[i][1] = k

(***************************************************************************)
(* unique_args(): a fold from the last argument to the first keeps the     *)
(* index of every keyword it has not seen, and the result is reversed.     *)
(***************************************************************************)
\* Mutant of UniqueIndexes: the fold runs from the first argument on.
FirstIndexes(args) ==
  LET walk[i \in 0 .. Len(args)] ==
        IF i = 0 THEN [kept |-> <<>>, seen |-> {}]
        ELSE LET done == walk[i - 1]
             IN  IF args[i][1] \in done.seen THEN done
                 ELSE [kept |-> Append(done.kept, i), seen |-> done.seen \cup {args[i][1]}]
  IN  walk[Len(args)].kept
UniqueIndexes(args) ==
  LET walk[i \in 1 .. Len(args) + 1] ==
        IF i > Len(args) THEN [kept |-> <<>>, seen |-> {}]
        ELSE LET done == walk[i + 1]
             IN  IF args[i][1] \in done.seen THEN done
                 ELSE [kept |-> <<i>> \o done.kept, seen |-> done.seen \cup {args[i][1]}]
  IN  walk[1].kept
UniqueArgs(args) ==
  LET kept == UniqueIndexes(args) IN [n \in DOMAIN kept |-> args[kept[n]]]

(***************************************************************************)
(* get_opt(): keyword_index finds the keyword in the reversed list.        *)
(***************************************************************************)
KeywordIndex(k, args) ==
  CHOOSE i \in DOMAIN args :
    /\ args[i][1] = k
    /\ \A j \in DOMAIN args : j > i => args[j][1] # k
GetOpt(k, default, args) ==
  IF Given(k, args) THEN args[KeywordIndex(k, args)][2] ELSE default

(***************************************************************************)
(* printParameter(): an empty string and the default consistency print     *)
(* nothing, any other value does, a number 0 included.                     *)
(***************************************************************************)
StringKeywords == {"dc", "token", "acquire", "release", "separator", "tag", "near"}
Printed(k, v) ==
  /\ k \in StringKeywords => v # Empty
  /\ k = "consistency" => v # Default

MakeQuery(args) ==
  LET unique == UniqueArgs(args)
      shown  == {n \in DOMAIN unique : Printed(unique[n][1], unique[n][2])}
  IN  [k \in {unique[n][1] : n \in shown} |->
         LET n == CHOOSE m \in shown : unique[m][1] = k IN unique[n][2]]

(***************************************************************************)
(* Consul::makeQuery() and makeHeaders(): the Consul object's data center  *)
(* comes before the caller's arguments, an empty token after them, so the  *)
(* token is never printed; it goes into a header.                          *)
(***************************************************************************)
\* Mutant of ConsulQuery: the token stays.
QueryWithToken(consul, args) ==
  MakeQuery(<<<<"dc", consul.dc>>>> \o args)
ConsulQuery(consul, args) ==
  MakeQuery(<<<<"dc", consul.dc>>>> \o args \o <<<<"token", Empty>>>>)
ConsulToken(consul, args) == GetOpt("token", consul.token, args)
=============================================================================
