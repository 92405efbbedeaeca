----------------------------- MODULE ClientPool -----------------------------
(***************************************************************************)
(* ppconsul::ClientPool: a vector of idle HTTP clients behind a mutex.     *)
(* Threads call get(), use the client they own, and the deleter of their   *)
(* ClientPtr calls release().  Every access to the vector is a step of its *)
(* own, so two threads inside the critical section would be seen.          *)
(***************************************************************************)
EXTENDS Naturals, Sequences, FiniteSets

CONSTANTS
  Threads,   \* the threads that share the pool
  Clients,   \* the identities (addresses) of HTTP clients
  NoThread,  \* the mutex is free
  NoClient   \* a null unique_ptr

ASSUME PoolAssumption ==
  /\ NoThread \notin Threads
  /\ NoClient \notin Clients \cup Threads
  /\ NoThread # NoClient
  /\ IsFiniteSet(Threads)

VARIABLES
  pool,      \* m_pool, the back of the vector last
  mutex,     \* m_mutex: its owner, or NoThread
  pc,        \* where each thread is in get(), in a request or in release()
  held,      \* the client whose only owner is a local of the thread
  alive,     \* the clients created and not yet deleted
  peak       \* history: the most threads that ever were in a call at once

poolVars == <<pool, mutex, pc, held, alive, peak>>

(***************************************************************************)
(* "acquire"  acquire() waits for m_mutex                                  *)
(* "check"    acquire() has the mutex and has not looked at m_pool         *)
(* "pop"      acquire() has moved from m_pool.back() but not popped it     *)
(* "create"   acquire() has left the critical section and calls m_factory  *)
(* "using"    the caller owns a ClientPtr                                  *)
(* "release"  release() owns the client and waits for m_mutex              *)
(* "push"     release() has the mutex                                      *)
(* "delete"   push_back threw: release() deletes the client                *)
(***************************************************************************)
PCs == {"idle", "acquire", "check", "pop", "create", "using", "release",
        "push", "delete"}
InAcquire(t)  == pc[t] \in {"check", "pop"}
InCritical(t) == InAcquire(t) \/ pc[t] = "push"
Waiting(t)    == pc[t] \in {"acquire", "release"}
Owning(t)     == pc[t] \in {"pop", "using", "release", "push", "delete"}

Busy     == {t \in Threads : pc[t] # "idle"}
Creating == {t \in Threads : pc[t] = "create"}
Owned    == {held[t] : t \in {u \in Threads : held[u] # NoClient}}
Pooled   == {pool[i] : i \in DOMAIN pool} \ {NoClient}

Goto(t, l) == pc' = [pc EXCEPT ![t] = l]
Own(t, c)  == held' = [held EXCEPT ![t] = c]

ButLast(s) == SubSeq(s, 1, Len(s) - 1)

PoolInit ==
  /\ pool = <<>>
  /\ mutex = NoThread
  /\ pc = [t \in Threads |-> "idle"]
  /\ held = [t \in Threads |-> NoClient]
  /\ alive = {}
  /\ peak = 0
-----------------------------------------------------------------------------
(* get() is called. *)
Get(t) ==
  /\ pc[t] = "idle"
  /\ Goto(t, "acquire")
  /\ peak' = IF Cardinality(Busy) + 1 > peak THEN Cardinality(Busy) + 1 ELSE peak
  /\ UNCHANGED <<pool, mutex, held, alive>>

(* Mutant of LockAcquire: acquire() without its lock_guard. *)
AcquireUnlocked(t) ==
  /\ pc[t] = "acquire"
  /\ mutex' = t
  /\ Goto(t, "check")
  /\ UNCHANGED <<pool, held, alive, peak>>

(* The lock_guard of acquire(). *)
LockAcquire(t) ==
  /\ pc[t] = "acquire"
  /\ mutex = NoThread
  /\ mutex' = t
  /\ Goto(t, "check")
  /\ UNCHANGED <<pool, held, alive, peak>>

(* An idle client: it is moved out of the back slot, which becomes null. *)
MoveBack(t) ==
  /\ pc[t] = "check"
  /\ pool # <<>>
  /\ Own(t, pool[Len(pool)])
  /\ pool' = [pool EXCEPT ![Len(pool)] = NoClient]
  /\ Goto(t, "pop")
  /\ UNCHANGED <<mutex, alive, peak>>

(* pop_back(), and acquire() returns: the guard unlocks. *)
PopBack(t) ==
  /\ pc[t] = "pop"
  /\ pool # <<>>
  /\ pool' = ButLast(pool)
  /\ mutex' = NoThread
  /\ Goto(t, "using")
  /\ UNCHANGED <<held, alive, peak>>

(* Mutant of FindEmpty: the test for an idle client is gone. *)
FindNothing(t) ==
  /\ pc[t] = "check"
  /\ mutex' = NoThread
  /\ Goto(t, "create")
  /\ UNCHANGED <<pool, held, alive, peak>>

(* No idle client: the block ends, and with it the guard. *)
FindEmpty(t) ==
  /\ pc[t] = "check"
  /\ pool = <<>>
  /\ mutex' = NoThread
  /\ Goto(t, "create")
  /\ UNCHANGED <<pool, held, alive, peak>>

(* Mutant of Create: a factory whose null result nobody checks. *)
CreateNull(t) ==
  /\ pc[t] = "create"
  /\ alive' = alive \cup {NoClient}
  /\ Own(t, NoClient)
  /\ Goto(t, "using")
  /\ UNCHANGED <<pool, mutex, peak>>

(* m_factory() returns a new client, outside the critical section. *)
Create(t) ==
  /\ pc[t] = "create"
  /\ \E c \in Clients \ alive :
        /\ alive' = alive \cup {c}
        /\ Own(t, c)
  /\ Goto(t, "using")
  /\ UNCHANGED <<pool, mutex, peak>>

(* m_factory() throws, and get() with it. *)
CreateFails(t) ==
  /\ pc[t] = "create"
  /\ Goto(t, "idle")
  /\ UNCHANGED <<pool, mutex, held, alive, peak>>

(* The ClientPtr is destroyed: its deleter calls release(). *)
Release(t) ==
  /\ pc[t] = "using"
  /\ Goto(t, "release")
  /\ UNCHANGED <<pool, mutex, held, alive, peak>>

(* The lock_guard of release(). *)
LockRelease(t) ==
  /\ pc[t] = "release"
  /\ mutex = NoThread
  /\ mutex' = t
  /\ Goto(t, "push")
  /\ UNCHANGED <<pool, held, alive, peak>>

(* Mutant of PushBack: the pointer is copied into the pool, and `cl` still *)
(* deletes it.                                                             *)
PushCopy(t) ==
  /\ pc[t] = "push"
  /\ pool' = Append(pool, held[t])
  /\ mutex' = NoThread
  /\ Goto(t, "delete")
  /\ UNCHANGED <<held, alive, peak>>

(* push_back() takes the client, and the guard unlocks. *)
PushBack(t) ==
  /\ pc[t] = "push"
  /\ pool' = Append(pool, held[t])
  /\ Own(t, NoClient)
  /\ mutex' = NoThread
  /\ Goto(t, "idle")
  /\ UNCHANGED <<alive, peak>>

(* Mutants of PushFails: lock() and unlock() in place of the guard, so the *)
(* exception skips the unlock(); and a handler that tries again.           *)
PushFailsLocked(t) ==
  /\ pc[t] = "push"
  /\ Goto(t, "delete")
  /\ UNCHANGED <<pool, mutex, held, alive, peak>>
PushRetries(t) ==
  /\ pc[t] = "push"
  /\ mutex' = NoThread
  /\ Goto(t, "release")
  /\ UNCHANGED <<pool, held, alive, peak>>

(* push_back() throws bad_alloc: unwinding unlocks before the handler. *)
PushFails(t) ==
  /\ pc[t] = "push"
  /\ mutex' = NoThread
  /\ Goto(t, "delete")
  /\ UNCHANGED <<pool, held, alive, peak>>

(* The exception is swallowed and `cl` deletes the client it still owns. *)
Delete(t) ==
  /\ pc[t] = "delete"
  /\ alive' = alive \ {held[t]}
  /\ Own(t, NoClient)
  /\ Goto(t, "idle")
  /\ UNCHANGED <<pool, mutex, peak>>

(* The steps of a thread inside the pool, and all steps. *)
Inside(t) ==
  \/ MoveBack(t) \/ PopBack(t) \/ FindEmpty(t) \/ Create(t) \/ CreateFails(t)
  \/ PushBack(t) \/ PushFails(t) \/ Delete(t)
Lock(t)     == LockAcquire(t) \/ LockRelease(t)
PoolStep(t) == Get(t) \/ Release(t) \/ Lock(t) \/ Inside(t)

PoolNext == \E t \in Threads : PoolStep(t)
PoolSpec == PoolInit /\ [][PoolNext]_poolVars
-----------------------------------------------------------------------------
PoolTypeOK ==
  /\ pool \in Seq(Clients \cup {NoClient})
  /\ mutex \in Threads \cup {NoThread}
  /\ pc \in [Threads -> PCs]
  /\ held \in [Threads -> Clients \cup {NoClient}]
  /\ alive \subseteq Clients
  /\ peak \in Nat

(***************************************************************************)
(* A client, whose curl handle is not thread safe, is never in the hands   *)
(* of two threads, nor owned by one while another could take it from the   *)
(* pool, nor twice in the pool (client_pool.cpp:15-22 and 36-37).          *)
(***************************************************************************)
Exclusive ==
  /\ \A t, u \in Threads : held[t] = held[u] /\ held[t] # NoClient => t = u
  /\ \A i, j \in DOMAIN pool : pool[i] = pool[j] => i = j
  /\ Owned \cap Pooled = {}

(***************************************************************************)
(* No client is leaked or freed early: the live ones are exactly those in  *)
(* the pool and those owned by a thread, also while a thread unwinds out   *)
(* of a factory that threw or deletes the client it could not push.        *)
(***************************************************************************)
NoneLost == alive = Owned \cup Pooled

(***************************************************************************)
(* get() never hands out a null ClientPtr, though acquire() leaves one in  *)
(* the vector between its move and its pop_back().                         *)
(***************************************************************************)
LentIsLive == \A t \in Threads : pc[t] = "using" => held[t] \in alive

(***************************************************************************)
(* Although the factory runs outside the mutex on the strength of an       *)
(* emptiness test made inside it (client_pool.cpp:17 and 25), the clients  *)
(* alive and in the making never outnumber the most calls that were ever   *)
(* in progress at once: connections do not pile up.                        *)
(***************************************************************************)
WithinPeakDemand == Cardinality(alive) + Cardinality(Creating) <= peak

(***************************************************************************)
(* The inductive invariant.  Its parts say who may touch the vector and    *)
(* when: the mutex belongs to the one thread in a critical section, a      *)
(* thread owns a client exactly at the steps that pass one on, the null    *)
(* slot is the last one and only while its mover has not popped it, and    *)
(* the history variable covers the threads now in a call.                  *)
(***************************************************************************)
MutexSound == \A t \in Threads : InCritical(t) <=> mutex = t
OwnerSound == \A t \in Threads : held[t] # NoClient <=> Owning(t)
SlotsSound ==
  /\ \A i \in DOMAIN pool :
       pool[i] = NoClient <=> i = Len(pool) /\ \E t \in Threads : pc[t] = "pop"
  /\ \A t \in Threads : pc[t] = "pop" => pool # <<>>
PeakSound  == Cardinality(Busy) <= peak

PoolInv ==
  /\ PoolTypeOK
  /\ MutexSound
  /\ OwnerSound
  /\ SlotsSound
  /\ Exclusive
  /\ NoneLost
  /\ PeakSound
  /\ WithinPeakDemand

(***************************************************************************)
(* A thread past its last wait finishes its part of the call: the client   *)
(* it gives back ends in the pool or deleted, with nothing left owned.     *)
(***************************************************************************)
GivenBack ==
  \A t \in Threads : (pc[t] = "push") ~> (pc[t] = "idle" /\ held[t] = NoClient)

(* Someone who waits for the mutex gets it, if not always the same one. *)
SomeoneEnters ==
  (\E t \in Threads : Waiting(t)) ~> (\E t \in Threads : InCritical(t))

(***************************************************************************)
(* The pool implements Lending: a client that a thread owns is at that     *)
(* thread, one in the vector (no thread's) is idle, the rest do not exist. *)
(***************************************************************************)
PlaceOf(c) ==
  IF \E t \in Threads : held[t] = c THEN CHOOSE t \in Threads : held[t] = c
  ELSE IF c \in alive THEN NoThread ELSE NoClient

L == INSTANCE Lending WITH
       Idle <- NoThread, Absent <- NoClient,
       place <- [c \in Clients |-> PlaceOf(c)]
LendsExclusively == L!Spec
=============================================================================
