------------------------------ MODULE Lending ------------------------------
(***************************************************************************)
(* What a pool of HTTP clients promises to its users, without saying how:  *)
(* every client is absent (never created, or deleted), idle, or owned by   *)
(* exactly one thread, and ownership passes from one thread to another     *)
(* only through idleness.  ClientPool is shown to implement this module.   *)
(***************************************************************************)

CONSTANTS
  Threads,   \* the threads that may own a client
  Clients,   \* the identities of clients
  Idle,      \* the place of a client nobody uses
  Absent     \* the place of a client that does not exist; both differ from threads

VARIABLE
  place      \* where each client is

LentTo(t) == {c \in Clients : place[c] = t}

Init == place = [c \in Clients |-> Absent]

(* A thread without a client gets a new one. *)
Create(t, c) ==
  /\ LentTo(t) = {}
  /\ place[c] = Absent
  /\ place' = [place EXCEPT ![c] = t]

(* A thread without a client gets an idle one. *)
Lend(t, c) ==
  /\ LentTo(t) = {}
  /\ place[c] = Idle
  /\ place' = [place EXCEPT ![c] = t]

(* The owner gives its client back. *)
GiveBack(t, c) ==
  /\ place[c] = t
  /\ place' = [place EXCEPT ![c] = Idle]

(* The owner deletes its client. *)
Discard(t, c) ==
  /\ place[c] = t
  /\ place' = [place EXCEPT ![c] = Absent]

Next ==
  \E t \in Threads, c \in Clients :
    Create(t, c) \/ Lend(t, c) \/ GiveBack(t, c) \/ Discard(t, c)

Spec == Init /\ [][Next]_place
=============================================================================
