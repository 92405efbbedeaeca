---------------------------- MODULE AtomicStore ----------------------------
(***************************************************************************)
(* What Kv and Sessions promise: a call is one atomic operation, or        *)
(* sequence of them, on the server's store, and takes effect between its   *)
(* invocation and its return.  A call that says yes or no tells what the   *)
(* store said; one that throws has taken effect, or has not, or will.      *)
(*                                                                         *)
(* A call without a body may reach the store twice: libcurl repeats it on  *)
(* its own (see Resend in CurlHandle).  It tells the second answer, so its *)
(* no is compatible with an effect it had the first time.                  *)
(***************************************************************************)
EXTENDS Store

CONSTANTS
  Callers,
  Start     \* the server that the callers find

VARIABLES
  server,
  asked,    \* the call of each caller: its operations, whether they take
            \* effect only once, and whether it tells what they found
  took,     \* what the call has done so far
  told,     \* what the last one said
  late      \* calls that threw and may still take effect

vars == <<server, asked, took, told, late>>

NoCall  == [ops |-> <<>>, once |-> TRUE, tells |-> FALSE]
Calling(t) == asked[t] # NoCall
Nothing == [times |-> 0, says |-> "nothing", made |-> <<>>]
Silent  == [says |-> "nothing", made |-> <<>>]
Threw   == [says |-> "threw", made |-> <<>>]

Init ==
  /\ server \in Start
  /\ asked = [t \in Callers |-> NoCall]
  /\ took = [t \in Callers |-> Nothing]
  /\ told = [t \in Callers |-> Silent]
  /\ late = <<>>

Ask(t) ==
  /\ ~Calling(t)
  /\ asked'[t] # NoCall
  /\ asked' = [asked EXCEPT ![t] = asked'[t]]
  /\ told' = [told EXCEPT ![t] = Silent]
  /\ UNCHANGED <<server, took, late>>

MayTake(t) == Calling(t) /\ took[t].times < (IF asked[t].once THEN 1 ELSE 2)

TakeEffect(t) ==
  /\ MayTake(t)
  /\ \E o \in Outcomes(server, asked[t].ops) :
       /\ server' = o.server
       /\ took' = [took EXCEPT ![t] = [times |-> @.times + 1, says |-> o.says, made |-> o.made]]
  /\ UNCHANGED <<asked, told, late>>

Ends(t) ==
  /\ asked' = [asked EXCEPT ![t] = NoCall]
  /\ took' = [took EXCEPT ![t] = Nothing]
  /\ UNCHANGED server

(* What the store said last is told, an error of the store as a no.  The   *)
(* no of a call that reached the store once means that it has changed      *)
(* nothing; that of a repeated one may be due to its own first effect.     *)
Tell(t) ==
  /\ Calling(t)
  /\ took[t].times > 0
  /\ told' = [told EXCEPT ![t] = [says |-> IF took[t].says = "yes" THEN "yes" ELSE "no",
                                  made |-> IF asked[t].tells THEN took[t].made ELSE <<>>]]
  /\ Ends(t)
  /\ UNCHANGED late

Throw(t) ==
  /\ Calling(t)
  /\ told' = [told EXCEPT ![t] = Threw]
  /\ Ends(t)
  /\ \/ UNCHANGED late
     \/ MayTake(t) /\ late' = Append(late, asked[t])

LateEffect(n) ==
  /\ \E o \in Outcomes(server, late[n].ops) : server' = o.server
  /\ late' = RemoveAt(late, n)
  /\ UNCHANGED <<asked, took, told>>

Expire(id) ==
  /\ server' = Expired(server, id)
  /\ UNCHANGED <<asked, took, told, late>>

Next ==
  \/ \E t \in Callers : Ask(t) \/ TakeEffect(t) \/ Tell(t) \/ Throw(t)
  \/ \E n \in DOMAIN late : LateEffect(n)
  \/ \E id \in DOMAIN server.sessions : Expire(id)

Spec == Init /\ [][Next]_vars
=============================================================================
