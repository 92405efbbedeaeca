---------------------------- MODULE ConsulProofs ----------------------------
(***************************************************************************)
(* What holds of the pool of ClientPool for any finite set of threads and  *)
(* any set of clients: PoolInv is proved inductive part by part, and the   *)
(* properties and the refinement of Lending follow from it.                *)
(*                                                                         *)
(* Then what holds of Consul for any number of threads: it uses the pool   *)
(* as the pool's specification says, so everything proved of the pool      *)
(* holds of it, and a call made after the stop never returns a response.   *)
(***************************************************************************)
EXTENDS Consul, FiniteSetTheorems, SequenceTheorems, TLAPS

(* A vector without its last element. *)
LEMMA ButLastProperties ==
  ASSUME NEW S, NEW s \in Seq(S), s # <<>>
  PROVE  /\ ButLast(s) \in Seq(S)
         /\ Len(s) \in Nat \ {0}
         /\ Len(ButLast(s)) = Len(s) - 1
         /\ DOMAIN ButLast(s) = 1 .. Len(s) - 1
         /\ \A i \in 1 .. Len(s) - 1 : ButLast(s)[i] = s[i]
<1>1. Len(s) \in Nat /\ Len(s) >= 1
  <2>1. Len(s) \in Nat /\ Len(s) # 0
    BY EmptySeq
  <2> QED
    BY <2>1, SMT
<1>2. \A i \in 1 .. Len(s) - 1 : s[i] \in S
  BY <1>1, ElementOfSeq
<1>3. /\ ButLast(s) \in Seq(S)
      /\ Len(ButLast(s)) = IF 1 <= Len(s) - 1 THEN Len(s) - 1 - 1 + 1 ELSE 0
      /\ \A i \in 1 .. Len(s) - 1 - 1 + 1 : ButLast(s)[i] = s[1 + i - 1]
  BY <1>1, <1>2, SubSeqProperties DEF ButLast
<1>4. \A n \in Nat : n >= 1 => (IF 1 <= n - 1 THEN n - 1 - 1 + 1 ELSE 0) = n - 1
  OBVIOUS
<1>5. Len(ButLast(s)) = Len(s) - 1
  BY <1>1, <1>3, <1>4
<1> QED
  BY <1>1, <1>3, <1>5, LenProperties

(* The sets of threads that the bound counts are finite. *)
LEMMA ThreadsFinite ==
  ASSUME NEW S \in SUBSET Threads
  PROVE  IsFiniteSet(S) /\ Cardinality(S) \in Nat
BY PoolAssumption, FS_Subset, FS_CardinalityType

(***************************************************************************)
(* The owned clients are the image of the threads that own one.            *)
(***************************************************************************)
LEMMA OwnedFinite ==
  LET H == {t \in Threads : held[t] # NoClient}
  IN  IsFiniteSet(Owned) /\ Cardinality(Owned) <= Cardinality(H)
<1> DEFINE H == {t \in Threads : held[t] # NoClient}
           f == [t \in H |-> held[t]]
<1>1. IsFiniteSet(H)
  BY ThreadsFinite
<1>2. f \in Surjection(H, Owned)
  BY DEF Surjection, Owned
<1> QED
  BY <1>1, <1>2, FS_Surjection

(* Every step of the pool keeps the types of its variables. *)
LEMMA TypeStep == PoolTypeOK /\ [PoolNext]_poolVars => PoolTypeOK'
<1> SUFFICES ASSUME PoolTypeOK, [PoolNext]_poolVars
             PROVE  PoolTypeOK'
  OBVIOUS
<1> USE DEF PoolTypeOK, PCs, Goto, Own
<1>1. ASSUME NEW t \in Threads, Get(t) PROVE PoolTypeOK'
  <2>1. Cardinality(Busy) \in Nat
    BY ThreadsFinite DEF Busy
  <2> QED
    BY <1>1, <2>1 DEF Get
<1>2. ASSUME NEW t \in Threads, Lock(t) PROVE PoolTypeOK'
  BY <1>2 DEF Lock, LockAcquire, LockRelease
<1>3. ASSUME NEW t \in Threads, MoveBack(t) PROVE PoolTypeOK'
  <2>1. Len(pool) \in 1 .. Len(pool)
    BY <1>3, EmptySeq DEF MoveBack
  <2>2. pool[Len(pool)] \in Clients \cup {NoClient}
    BY <2>1, ElementOfSeq
  <2>3. pool' \in Seq(Clients \cup {NoClient})
    BY <1>3, <2>1, ExceptSeq DEF MoveBack
  <2> QED
    BY <1>3, <2>2, <2>3 DEF MoveBack
<1>4. ASSUME NEW t \in Threads, PopBack(t) PROVE PoolTypeOK'
  BY <1>4, ButLastProperties DEF PopBack
<1>5. ASSUME NEW t \in Threads, FindEmpty(t) PROVE PoolTypeOK'
  BY <1>5 DEF FindEmpty
<1>6. ASSUME NEW t \in Threads, Create(t) PROVE PoolTypeOK'
  BY <1>6 DEF Create
<1>7. ASSUME NEW t \in Threads, CreateFails(t) PROVE PoolTypeOK'
  BY <1>7 DEF CreateFails
<1>8. ASSUME NEW t \in Threads, Release(t) PROVE PoolTypeOK'
  BY <1>8 DEF Release
<1>9. ASSUME NEW t \in Threads, PushBack(t) PROVE PoolTypeOK'
  BY <1>9 DEF PushBack
<1>10. ASSUME NEW t \in Threads, PushFails(t) PROVE PoolTypeOK'
  BY <1>10 DEF PushFails
<1>11. ASSUME NEW t \in Threads, Delete(t) PROVE PoolTypeOK'
  BY <1>11 DEF Delete
<1>12. CASE UNCHANGED poolVars
  BY <1>12 DEF poolVars
<1> QED
  BY <1>1, <1>2, <1>3, <1>4, <1>5, <1>6, <1>7, <1>8, <1>9, <1>10, <1>11, <1>12
     DEF PoolNext, PoolStep, Inside
-----------------------------------------------------------------------------
(* The live clients are finitely many, whatever Clients is. *)
LEMMA AliveFinite ==
  ASSUME PoolTypeOK, NoneLost
  PROVE  IsFiniteSet(alive) /\ Cardinality(alive) \in Nat
<1>1. IsFiniteSet(Owned)
  BY OwnedFinite
<1> DEFINE Slots == {pool[i] : i \in DOMAIN pool}
           f == [i \in DOMAIN pool |-> pool[i]]
<1>2. IsFiniteSet(DOMAIN pool)
  <2>1. Len(pool) \in Nat /\ DOMAIN pool = 1 .. Len(pool)
    BY LenProperties DEF PoolTypeOK
  <2> QED
    BY <2>1, FS_Interval
<1>3. f \in Surjection(DOMAIN pool, Slots)
  BY DEF Surjection
<1>4. IsFiniteSet(Slots)
  BY <1>2, <1>3, FS_Surjection
<1>5. IsFiniteSet(Pooled)
  BY <1>4, FS_Subset DEF Pooled
<1>6. IsFiniteSet(alive)
  BY <1>1, <1>5, FS_Union DEF NoneLost
<1> QED
  BY <1>6, FS_CardinalityType

(* The four counts that the bound relates. *)
LEMMA Counts ==
  ASSUME PoolTypeOK, NoneLost
  PROVE  /\ IsFiniteSet(alive) /\ Cardinality(alive) \in Nat
         /\ IsFiniteSet(Busy) /\ Cardinality(Busy) \in Nat
         /\ IsFiniteSet(Creating) /\ Cardinality(Creating) \in Nat
         /\ peak \in Nat
BY AliveFinite, ThreadsFinite DEF Busy, Creating, PoolTypeOK

(***************************************************************************)
(* The heart of the bound: with nothing in the pool every live client is   *)
(* owned by a thread, each of those and each creating thread is busy, and  *)
(* the thread that looked is busy, neither owning nor creating.            *)
(***************************************************************************)
LEMMA EmptyPoolLeavesRoom ==
  ASSUME PoolInv, NEW t \in Threads, pc[t] = "check", pool = <<>>
  PROVE  Cardinality(alive) + Cardinality(Creating) + 1 <= peak
<1> DEFINE H == {u \in Threads : held[u] # NoClient}
<1> USE DEF PoolInv
<1>1. alive = Owned
  <2>1. DOMAIN pool = {}
    OBVIOUS
  <2>2. Pooled = {}
    BY <2>1 DEF Pooled
  <2> QED
    BY <2>2 DEF NoneLost
<1>2. Cardinality(alive) <= Cardinality(H)
  BY <1>1, OwnedFinite
<1>3. H \cap Creating = {} /\ t \notin H \cup Creating
  BY DEF OwnerSound, Owning, Creating
<1>4. H \cup Creating \cup {t} \subseteq Busy
  BY DEF OwnerSound, Owning, Creating, Busy
<1>5. /\ IsFiniteSet(H) /\ Cardinality(H) \in Nat
      /\ IsFiniteSet(Creating) /\ Cardinality(Creating) \in Nat
      /\ IsFiniteSet(Busy) /\ Cardinality(Busy) \in Nat
      /\ Cardinality(alive) \in Nat
  BY ThreadsFinite, Counts DEF Busy, Creating
<1>6. /\ IsFiniteSet(H \cup Creating)
      /\ Cardinality(H \cup Creating) = Cardinality(H) + Cardinality(Creating)
  <2>1. Cardinality(H \cup Creating)
          = Cardinality(H) + Cardinality(Creating) - Cardinality(H \cap Creating)
    BY <1>5, FS_Union
  <2>2. Cardinality(H \cap Creating) = 0
    BY <1>3, FS_EmptySet
  <2> QED
    BY <1>5, <2>1, <2>2, FS_Union
<1>7. Cardinality(H \cup Creating \cup {t}) = Cardinality(H \cup Creating) + 1
  BY <1>3, <1>6, FS_AddElement
<1>8. Cardinality(H \cup Creating \cup {t}) <= Cardinality(Busy)
  BY <1>4, <1>5, FS_Subset
<1>9. Cardinality(Busy) <= peak /\ peak \in Nat
  BY DEF PeakSound, PoolTypeOK
<1> HIDE DEF H
<1> QED
  BY <1>2, <1>5, <1>6, <1>7, <1>8, <1>9
-----------------------------------------------------------------------------
(* The mutex belongs to the thread that is in a critical section. *)
LEMMA MutexStep ==
  ASSUME PoolInv, PoolNext
  PROVE  MutexSound'
<1> PICK t \in Threads : PoolStep(t)
  BY DEF PoolNext
<1> USE PoolAssumption DEF PoolInv, PoolTypeOK, MutexSound, InCritical, InAcquire, Goto
<1>1. CASE Get(t) \/ Release(t)
  BY <1>1 DEF Get, Release
<1>2. CASE LockAcquire(t) \/ LockRelease(t)
  BY <1>2 DEF LockAcquire, LockRelease
<1>3. CASE MoveBack(t)
  BY <1>3 DEF MoveBack
<1>4. CASE PopBack(t) \/ FindEmpty(t)
  BY <1>4 DEF PopBack, FindEmpty
<1>5. CASE PushBack(t) \/ PushFails(t)
  BY <1>5 DEF PushBack, PushFails
<1>6. CASE Create(t) \/ CreateFails(t) \/ Delete(t)
  BY <1>6 DEF Create, CreateFails, Delete
<1> QED
  BY <1>1, <1>2, <1>3, <1>4, <1>5, <1>6 DEF PoolStep, Lock, Inside

(* What MoveBack takes is a client: no other thread is between its move    *)
(* and its pop, so the back slot is not the null one.                      *)
LEMMA BackIsClient ==
  ASSUME PoolInv, NEW t \in Threads, pc[t] = "check", pool # <<>>
  PROVE  /\ Len(pool) \in DOMAIN pool
         /\ pool[Len(pool)] \in Clients
         /\ \A u \in Threads : pc[u] # "pop"
         /\ \A i \in DOMAIN pool : pool[i] # NoClient
<1> USE DEF PoolInv
<1>1. \A u \in Threads : pc[u] # "pop"
  BY DEF MutexSound, InCritical, InAcquire
<1>2. Len(pool) \in 1 .. Len(pool) /\ DOMAIN pool = 1 .. Len(pool)
  BY EmptySeq, LenProperties DEF PoolTypeOK
<1>3. pool[Len(pool)] \in Clients \cup {NoClient}
  BY <1>2, ElementOfSeq DEF PoolTypeOK
<1> QED
  BY <1>1, <1>2, <1>3 DEF SlotsSound

(* A thread owns a client exactly at the steps that pass one on. *)
LEMMA OwnerStep ==
  ASSUME PoolInv, PoolNext
  PROVE  OwnerSound'
<1> PICK t \in Threads : PoolStep(t)
  BY DEF PoolNext
<1> USE PoolAssumption DEF PoolInv, PoolTypeOK, OwnerSound, Owning, Goto, Own
<1>1. CASE Get(t) \/ Release(t)
  BY <1>1 DEF Get, Release
<1>2. CASE LockAcquire(t) \/ LockRelease(t)
  BY <1>2 DEF LockAcquire, LockRelease
<1>3. CASE MoveBack(t)
  <2>1. pool[Len(pool)] # NoClient
    BY <1>3, BackIsClient DEF MoveBack
  <2> QED
    BY <1>3, <2>1 DEF MoveBack
<1>4. CASE PopBack(t) \/ FindEmpty(t)
  BY <1>4 DEF PopBack, FindEmpty
<1>5. CASE PushBack(t) \/ PushFails(t)
  BY <1>5 DEF PushBack, PushFails
<1>6. CASE Create(t)
  BY <1>6 DEF Create
<1>7. CASE CreateFails(t) \/ Delete(t)
  BY <1>7 DEF CreateFails, Delete
<1> QED
  BY <1>1, <1>2, <1>3, <1>4, <1>5, <1>6, <1>7 DEF PoolStep, Lock, Inside

(* What PopBack and PushBack leave in the vector. *)
LEMMA PopBackVector ==
  ASSUME PoolInv, NEW t \in Threads, PopBack(t)
  PROVE  /\ pool' = ButLast(pool)
         /\ pool \in Seq(Clients \cup {NoClient})
         /\ Len(pool) \in DOMAIN pool
         /\ DOMAIN pool' = DOMAIN pool \ {Len(pool)}
         /\ \A i \in DOMAIN pool' : pool'[i] = pool[i] /\ pool[i] # NoClient
         /\ pool[Len(pool)] = NoClient
<1> USE DEF PoolInv
<1>1. pool \in Seq(Clients \cup {NoClient}) /\ pool # <<>> /\ pool' = ButLast(pool)
  BY DEF PopBack, PoolTypeOK
<1>2. /\ Len(pool) \in Nat \ {0}
      /\ DOMAIN pool' = 1 .. Len(pool) - 1
      /\ \A i \in 1 .. Len(pool) - 1 : pool'[i] = pool[i]
      /\ DOMAIN pool = 1 .. Len(pool)
  BY <1>1, ButLastProperties, LenProperties
<1>3. Len(pool) \in DOMAIN pool /\ DOMAIN pool' = DOMAIN pool \ {Len(pool)}
  BY <1>2
<1>4. \E u \in Threads : pc[u] = "pop"
  BY DEF PopBack
<1> QED
  BY <1>1, <1>2, <1>3, <1>4 DEF SlotsSound

(* push_back() adds the client to those in the vector, and only it. *)
LEMMA PushBackVector ==
  ASSUME PoolInv, NEW t \in Threads, PushBack(t)
  PROVE  /\ held[t] \in Clients
         /\ \A u \in Threads : pc[u] # "pop"
         /\ DOMAIN pool' = DOMAIN pool \cup {Len(pool) + 1}
         /\ Len(pool) + 1 \notin DOMAIN pool
         /\ \A i \in DOMAIN pool : pool'[i] = pool[i] /\ pool[i] # NoClient
         /\ pool'[Len(pool) + 1] = held[t]
<1> USE DEF PoolInv
<1>1. held[t] \in Clients
  BY DEF PoolTypeOK, OwnerSound, Owning, PushBack
<1>2. \A u \in Threads : pc[u] # "pop"
  BY DEF MutexSound, InCritical, InAcquire, PushBack
<1>3. /\ Len(pool) \in Nat /\ DOMAIN pool = 1 .. Len(pool)
      /\ pool \in Seq(Clients \cup {NoClient})
  BY LenProperties DEF PoolTypeOK
<1>4. pool' = Append(pool, held[t])
  BY DEF PushBack
<1>5. /\ DOMAIN pool' = 1 .. Len(pool) + 1
      /\ \A i \in 1 .. Len(pool) : pool'[i] = pool[i]
      /\ pool'[Len(pool) + 1] = held[t]
  BY <1>1, <1>3, <1>4
<1> QED
  BY <1>1, <1>2, <1>3, <1>5 DEF SlotsSound

(* The null slot is the last one, and only between a move and its pop. *)
LEMMA SlotsStep ==
  ASSUME PoolInv, PoolNext
  PROVE  SlotsSound'
<1> PICK t \in Threads : PoolStep(t)
  BY DEF PoolNext
<1> USE DEF PoolInv, PoolTypeOK, Goto, Own
<1>1. CASE /\ pool' = pool
           /\ \A u \in Threads : pc'[u] = "pop" <=> pc[u] = "pop"
  BY <1>1 DEF SlotsSound
<1>2. CASE MoveBack(t)
  <2>1. /\ Len(pool) \in DOMAIN pool
        /\ \A i \in DOMAIN pool : pool[i] # NoClient
    BY <1>2, BackIsClient DEF MoveBack
  <2>2. /\ DOMAIN pool' = DOMAIN pool
        /\ pool'[Len(pool)] = NoClient
        /\ \A i \in DOMAIN pool : i # Len(pool) => pool'[i] = pool[i]
    BY <1>2, <2>1 DEF MoveBack
  <2>3. Len(pool') = Len(pool) /\ pool' # <<>>
    <3>1. pool \in Seq(Clients \cup {NoClient}) /\ Len(pool) \in 1 .. Len(pool)
      BY <2>1, LenProperties
    <3> QED
      BY <1>2, <3>1, ExceptSeq, EmptySeq DEF MoveBack
  <2>4. pc'[t] = "pop"
    BY <1>2 DEF MoveBack
  <2> QED
    BY <2>1, <2>2, <2>3, <2>4 DEF SlotsSound
<1>3. CASE PopBack(t)
  <2>1. \A u \in Threads : pc'[u] # "pop"
    BY <1>3 DEF PopBack, MutexSound, InCritical, InAcquire
  <2> QED
    BY <1>3, <2>1, PopBackVector DEF SlotsSound
<1>4. CASE PushBack(t)
  <2>1. \A u \in Threads : pc'[u] # "pop"
    BY <1>4, PushBackVector DEF PushBack
  <2>2. \A i \in DOMAIN pool' : pool'[i] # NoClient
    BY <1>4, PushBackVector, PoolAssumption
  <2> QED
    BY <2>1, <2>2 DEF SlotsSound
<1>5. CASE Get(t) \/ Release(t) \/ LockAcquire(t) \/ LockRelease(t)
  BY <1>1, <1>5 DEF Get, Release, LockAcquire, LockRelease
<1>6. CASE FindEmpty(t) \/ Create(t) \/ CreateFails(t)
  BY <1>1, <1>6 DEF FindEmpty, Create, CreateFails
<1>7. CASE PushFails(t) \/ Delete(t)
  BY <1>1, <1>7 DEF PushFails, Delete
<1> QED
  BY <1>2, <1>3, <1>4, <1>5, <1>6, <1>7 DEF PoolStep, Lock, Inside

(* How the set of owned clients changes when a thread takes one... *)
LEMMA OwnedAfterTaking ==
  ASSUME PoolTypeOK, NEW t \in Threads, NEW c \in Clients,
         held[t] = NoClient, Own(t, c)
  PROVE  Owned' = Owned \cup {c}
<1>1. \A u \in Threads : held'[u] = IF u = t THEN c ELSE held[u]
  BY DEF PoolTypeOK, Own
<1> QED
  BY <1>1, PoolAssumption DEF Owned

(* ... and when it lets one go that nobody else owns. *)
LEMMA OwnedAfterLetting ==
  ASSUME PoolTypeOK, Exclusive, NEW t \in Threads, held[t] # NoClient,
         Own(t, NoClient)
  PROVE  Owned' = Owned \ {held[t]}
<1>1. \A u \in Threads : held'[u] = IF u = t THEN NoClient ELSE held[u]
  BY DEF PoolTypeOK, Own
<1>2. \A u \in Threads : u # t => held[u] # held[t]
  BY DEF Exclusive
<1> QED
  BY <1>1, <1>2 DEF Owned

(***************************************************************************)
(* A client has one owner, or one slot, and none is lost.  The two are     *)
(* preserved together: what changes hands is the same client on both sides.*)
(***************************************************************************)
LEMMA ExclusiveStep ==
  ASSUME PoolInv, PoolNext
  PROVE  Exclusive' /\ NoneLost'
<1> PICK t \in Threads : PoolStep(t)
  BY DEF PoolNext
<1> USE PoolAssumption DEF PoolInv
<1>1. CASE UNCHANGED <<pool, held, alive>>
  BY <1>1 DEF Exclusive, NoneLost, Owned, Pooled
<1>2. CASE MoveBack(t)
  <2> DEFINE c == pool[Len(pool)]
  <2>1. /\ Len(pool) \in DOMAIN pool /\ c \in Clients
        /\ \A i \in DOMAIN pool : pool[i] # NoClient
    BY <1>2, BackIsClient DEF MoveBack
  <2>2. held[t] = NoClient /\ Own(t, c) /\ alive' = alive
    BY <1>2 DEF MoveBack, OwnerSound, Owning
  <2>3. Owned' = Owned \cup {c}
    BY <2>1, <2>2, OwnedAfterTaking
  <2>4. /\ DOMAIN pool' = DOMAIN pool
        /\ \A i \in DOMAIN pool : pool'[i] = IF i = Len(pool) THEN NoClient ELSE pool[i]
    BY <1>2 DEF MoveBack, PoolTypeOK
  <2>5. Pooled' = Pooled \ {c}
    BY <2>1, <2>4 DEF Pooled, Exclusive
  <2>6. c \in Pooled /\ c \notin Owned
    BY <2>1 DEF Pooled, Exclusive
  <2>7. \A u \in Threads : held'[u] = IF u = t THEN c ELSE held[u]
    BY <2>2 DEF PoolTypeOK, Own
  <2>8. \A u, v \in Threads : held'[u] = held'[v] /\ held'[u] # NoClient => u = v
    BY <2>6, <2>7 DEF Exclusive, Owned
  <2>9. \A i, j \in DOMAIN pool' : pool'[i] = pool'[j] => i = j
    BY <2>1, <2>4 DEF Exclusive
  <2>10. Exclusive'
    BY <2>3, <2>5, <2>8, <2>9 DEF Exclusive
  <2>11. NoneLost'
    BY <2>2, <2>3, <2>5, <2>6 DEF NoneLost
  <2> QED
    BY <2>10, <2>11
<1>3. CASE PopBack(t)
  <2>1. held' = held /\ alive' = alive /\ Owned' = Owned
    BY <1>3 DEF PopBack, Owned
  <2>2. Pooled' = Pooled
    BY <1>3, PopBackVector DEF Pooled
  <2>3. \A i, j \in DOMAIN pool' : pool'[i] = pool'[j] => i = j
    BY <1>3, PopBackVector DEF Exclusive
  <2> QED
    BY <2>1, <2>2, <2>3 DEF Exclusive, NoneLost
<1>4. CASE Create(t)
  <2>1. PICK c \in Clients \ alive : alive' = alive \cup {c} /\ Own(t, c)
    BY <1>4 DEF Create
  <2>2. held[t] = NoClient /\ pool' = pool /\ Pooled' = Pooled
    BY <1>4 DEF Create, OwnerSound, Owning, Pooled
  <2>3. Owned' = Owned \cup {c}
    BY <2>1, <2>2, OwnedAfterTaking
  <2>4. c \notin Owned /\ c \notin Pooled
    BY <2>1 DEF NoneLost
  <2>5. \A u \in Threads : held'[u] = IF u = t THEN c ELSE held[u]
    BY <2>1 DEF PoolTypeOK, Own
  <2>6. \A u, v \in Threads : held'[u] = held'[v] /\ held'[u] # NoClient => u = v
    BY <2>4, <2>5 DEF Exclusive, Owned
  <2>7. Exclusive'
    BY <2>2, <2>3, <2>4, <2>6 DEF Exclusive
  <2> QED
    BY <2>1, <2>2, <2>3, <2>7 DEF NoneLost
<1>5. CASE PushBack(t)
  <2> DEFINE c == held[t]
  <2>1. c \in Clients /\ Own(t, NoClient) /\ alive' = alive
    BY <1>5, PushBackVector DEF PushBack
  <2>2. Owned' = Owned \ {c}
    BY <2>1, OwnedAfterLetting
  <2>3. Pooled' = Pooled \cup {c}
    BY <1>5, <2>1, PushBackVector DEF Pooled
  <2>4. c \in Owned /\ c \notin Pooled
    BY <2>1 DEF Owned, Exclusive
  <2>5. \A i \in DOMAIN pool : pool[i] # c
    BY <2>1, <2>4 DEF Pooled
  <2>6. \A i, j \in DOMAIN pool' : pool'[i] = pool'[j] => i = j
    BY <1>5, <2>5, PushBackVector DEF Exclusive
  <2>7. \A u \in Threads : held'[u] = IF u = t THEN NoClient ELSE held[u]
    BY <2>1 DEF PoolTypeOK, Own
  <2>8. Exclusive'
    BY <2>2, <2>3, <2>6, <2>7 DEF Exclusive
  <2> QED
    BY <2>1, <2>2, <2>3, <2>4, <2>8 DEF NoneLost
<1>6. CASE Delete(t)
  <2> DEFINE c == held[t]
  <2>1. c # NoClient /\ Own(t, NoClient) /\ alive' = alive \ {c} /\ pool' = pool
    BY <1>6 DEF Delete, OwnerSound, Owning
  <2>2. Owned' = Owned \ {c} /\ Pooled' = Pooled
    BY <2>1, OwnedAfterLetting DEF Pooled
  <2>3. c \in Owned /\ c \notin Pooled
    BY <2>1 DEF Owned, Exclusive
  <2>4. \A u \in Threads : held'[u] = IF u = t THEN NoClient ELSE held[u]
    BY <2>1 DEF PoolTypeOK, Own
  <2>5. Exclusive'
    BY <2>1, <2>2, <2>4 DEF Exclusive
  <2> QED
    BY <2>1, <2>2, <2>3, <2>5 DEF NoneLost
<1>7. CASE Get(t) \/ Release(t) \/ LockAcquire(t) \/ LockRelease(t)
  BY <1>1, <1>7 DEF Get, Release, LockAcquire, LockRelease
<1>8. CASE FindEmpty(t) \/ CreateFails(t) \/ PushFails(t)
  BY <1>1, <1>8 DEF FindEmpty, CreateFails, PushFails
<1> QED
  BY <1>2, <1>3, <1>4, <1>5, <1>6, <1>7, <1>8 DEF PoolStep, Lock, Inside

(* The bound, with the history that it refers to. *)
LEMMA CountStep ==
  ASSUME PoolInv, PoolNext
  PROVE  PeakSound' /\ WithinPeakDemand'
<1> PICK t \in Threads : PoolStep(t)
  BY DEF PoolNext
<1> USE DEF PoolInv, PeakSound, WithinPeakDemand
<1>1. /\ IsFiniteSet(alive) /\ Cardinality(alive) \in Nat
      /\ IsFiniteSet(Busy) /\ Cardinality(Busy) \in Nat
      /\ IsFiniteSet(Creating) /\ Cardinality(Creating) \in Nat
      /\ peak \in Nat
  BY Counts
<1>2. \A l \in PCs : Goto(t, l) =>
        /\ Busy' = IF l = "idle" THEN Busy \ {t} ELSE Busy \cup {t}
        /\ Creating' = IF l = "create" THEN Creating \cup {t} ELSE Creating \ {t}
  BY DEF Goto, Busy, Creating, PoolTypeOK
<1>3. CASE Get(t)
  <2>1. t \notin Busy /\ t \notin Creating
    BY <1>3 DEF Get, Busy, Creating
  <2>2. Busy' = Busy \cup {t} /\ Creating' = Creating
    BY <1>2, <1>3, <2>1 DEF Get, PCs
  <2>3. Cardinality(Busy') = Cardinality(Busy) + 1
    BY <1>1, <2>1, <2>2, FS_AddElement
  <2> QED
    BY <1>1, <1>3, <2>2, <2>3 DEF Get
<1>4. CASE FindEmpty(t)
  <2>1. Busy' = Busy /\ Creating' = Creating \cup {t} /\ t \notin Creating
    BY <1>2, <1>4 DEF FindEmpty, PCs, Busy, Creating
  <2>2. Cardinality(Creating') = Cardinality(Creating) + 1
    BY <1>1, <2>1, FS_AddElement
  <2>3. Cardinality(alive) + Cardinality(Creating) + 1 <= peak
    BY <1>4, EmptyPoolLeavesRoom DEF FindEmpty
  <2> QED
    BY <1>1, <1>4, <2>1, <2>2, <2>3 DEF FindEmpty
<1>5. CASE Create(t)
  <2>1. Busy' = Busy /\ Creating' = Creating \ {t} /\ t \in Creating
    BY <1>2, <1>5 DEF Create, PCs, Busy, Creating
  <2>2. Cardinality(Creating') = Cardinality(Creating) - 1
    BY <1>1, <2>1, FS_RemoveElement
  <2>3. PICK c \in Clients \ alive : alive' = alive \cup {c}
    BY <1>5 DEF Create
  <2>4. Cardinality(alive') = Cardinality(alive) + 1
    BY <1>1, <2>3, FS_AddElement
  <2> QED
    BY <1>1, <1>5, <2>1, <2>2, <2>4 DEF Create
<1>6. CASE CreateFails(t)
  <2>1. Busy' = Busy \ {t} /\ Creating' = Creating \ {t}
    BY <1>2, <1>6 DEF CreateFails, PCs
  <2>2. t \in Busy /\ t \in Creating
    BY <1>6 DEF CreateFails, Busy, Creating
  <2>3. /\ Cardinality(Busy') = Cardinality(Busy) - 1
        /\ Cardinality(Creating') = Cardinality(Creating) - 1
    BY <1>1, <2>1, <2>2, FS_RemoveElement
  <2> QED
    BY <1>1, <1>6, <2>3 DEF CreateFails
<1>7. CASE PushBack(t) \/ Delete(t)
  <2>1. Busy' = Busy \ {t} /\ Creating' = Creating
    BY <1>2, <1>7 DEF PushBack, Delete, PCs, Creating
  <2>2. t \in Busy
    BY <1>7 DEF PushBack, Delete, Busy
  <2>3. Cardinality(Busy') = Cardinality(Busy) - 1
    BY <1>1, <2>1, <2>2, FS_RemoveElement
  <2>4. IsFiniteSet(alive') /\ Cardinality(alive') <= Cardinality(alive) /\ Cardinality(alive') \in Nat
    <3>1. alive' \in SUBSET alive
      BY <1>7 DEF PushBack, Delete
    <3> QED
      BY <1>1, <3>1, FS_Subset, FS_CardinalityType
  <2> QED
    BY <1>1, <1>7, <2>1, <2>3, <2>4 DEF PushBack, Delete
<1>8. CASE /\ UNCHANGED <<alive, peak>>
           /\ Busy' = Busy /\ Creating' = Creating
  BY <1>1, <1>8
<1>9. CASE LockAcquire(t) \/ LockRelease(t) \/ Release(t)
  BY <1>2, <1>8, <1>9
     DEF LockAcquire, LockRelease, Release, PCs, Busy, Creating
<1>10. CASE MoveBack(t) \/ PopBack(t) \/ PushFails(t)
  BY <1>2, <1>8, <1>10
     DEF MoveBack, PopBack, PushFails, PCs, Busy, Creating
<1> QED
  BY <1>3, <1>4, <1>5, <1>6, <1>7, <1>9, <1>10 DEF PoolStep, Lock, Inside

(* The inductive invariant holds of an empty pool. *)
LEMMA InvInit == PoolInit => PoolInv
<1> SUFFICES ASSUME PoolInit PROVE PoolInv
  OBVIOUS
<1> USE PoolAssumption DEF PoolInit
<1>1. PoolTypeOK
  BY EmptySeq DEF PoolTypeOK, PCs
<1>2. DOMAIN pool = {} /\ Owned = {} /\ Pooled = {}
  BY DEF Owned, Pooled
<1>3. Busy = {} /\ Creating = {}
  BY DEF Busy, Creating
<1>4. PeakSound /\ WithinPeakDemand
  BY <1>3, FS_EmptySet DEF PeakSound, WithinPeakDemand
<1>5. MutexSound /\ OwnerSound /\ SlotsSound
  BY <1>2 DEF MutexSound, InCritical, InAcquire, OwnerSound, Owning, SlotsSound
<1> QED
  BY <1>1, <1>2, <1>4, <1>5 DEF PoolInv, Exclusive, NoneLost

(* Every step of the pool keeps the inductive invariant. *)
LEMMA InvStep == PoolInv /\ [PoolNext]_poolVars => PoolInv'
<1>1. ASSUME PoolInv, PoolNext PROVE PoolInv'
  <2>1. PoolTypeOK'
    BY <1>1, TypeStep DEF PoolInv
  <2> QED
    BY <1>1, <2>1, MutexStep, OwnerStep, SlotsStep, ExclusiveStep, CountStep DEF PoolInv
<1>2. ASSUME PoolInv, UNCHANGED poolVars PROVE PoolInv'
  <2>1. PoolTypeOK'
    BY <1>2 DEF poolVars, PoolInv, PoolTypeOK
  <2>2. MutexSound'
    BY <1>2 DEF poolVars, PoolInv, MutexSound, InCritical, InAcquire
  <2>3. OwnerSound' /\ SlotsSound'
    BY <1>2 DEF poolVars, PoolInv, OwnerSound, Owning, SlotsSound
  <2>4. Exclusive' /\ NoneLost'
    BY <1>2 DEF poolVars, PoolInv, Exclusive, NoneLost, Owned, Pooled
  <2>5. PeakSound' /\ WithinPeakDemand'
    BY <1>2 DEF poolVars, PoolInv, PeakSound, Busy, WithinPeakDemand, Creating
  <2> QED
    BY <2>1, <2>2, <2>3, <2>4, <2>5 DEF PoolInv
<1> QED
  BY <1>1, <1>2

(* The inductive invariant holds in every reachable state. *)
THEOREM Invariance == PoolSpec => []PoolInv
BY InvInit, InvStep, PTL DEF PoolSpec

(***************************************************************************)
(* No client is in the hands of two threads, or of one while in the pool.  *)
(***************************************************************************)
THEOREM Exclusion == PoolSpec => []Exclusive
<1>1. PoolInv => Exclusive
  BY DEF PoolInv
<1> QED
  BY <1>1, Invariance, PTL

(* No client leaks, and none is deleted while it can still be reached. *)
THEOREM NoLeak == PoolSpec => []NoneLost
<1>1. PoolInv => NoneLost
  BY DEF PoolInv
<1> QED
  BY <1>1, Invariance, PTL

(* get() never returns a null or a deleted client. *)
THEOREM NoNullClient == PoolSpec => []LentIsLive
<1>1. PoolInv => LentIsLive
  BY DEF PoolInv, OwnerSound, Owning, NoneLost, Owned, LentIsLive
<1> QED
  BY <1>1, Invariance, PTL

(***************************************************************************)
(* There are never more clients than calls were ever in progress at once,  *)
(* for any number of threads and with the factory outside the mutex.       *)
(***************************************************************************)
THEOREM ClientsBounded == PoolSpec => []WithinPeakDemand
<1>1. PoolInv => WithinPeakDemand
  BY DEF PoolInv
<1> QED
  BY <1>1, Invariance, PTL
-----------------------------------------------------------------------------
(* The refinement of Lending.  PlaceOf names the one owner of a client. *)
Place == [c \in Clients |-> PlaceOf(c)]
PlaceSound ==
  \A c \in Clients :
    /\ \A t \in Threads : PlaceOf(c) = t <=> held[t] = c
    /\ c \notin Owned => PlaceOf(c) = IF c \in alive THEN NoThread ELSE NoClient

(* The place of a client in Lending says who owns it, or that it is idle. *)
LEMMA PlaceMeaning == PoolInv => PlaceSound
<1> SUFFICES ASSUME PoolInv, NEW c \in Clients
             PROVE  /\ \A t \in Threads : PlaceOf(c) = t <=> held[t] = c
                    /\ c \notin Owned =>
                         PlaceOf(c) = IF c \in alive THEN NoThread ELSE NoClient
  BY DEF PlaceSound
<1> USE PoolAssumption DEF PoolInv
<1>1. CASE \E t \in Threads : held[t] = c
  <2>1. PICK t \in Threads : held[t] = c
    BY <1>1
  <2>2. \A u \in Threads : held[u] = c => u = t
    BY <2>1 DEF Exclusive
  <2>3. PlaceOf(c) = t
    BY <2>1, <2>2 DEF PlaceOf
  <2> QED
    BY <2>1, <2>2, <2>3 DEF Owned
<1>2. CASE ~ \E t \in Threads : held[t] = c
  BY <1>2 DEF PlaceOf
<1> QED
  BY <1>1, <1>2

(* An empty pool is an initial state of Lending. *)
LEMMA RefinementInit == PoolInit => L!Init
BY PoolAssumption DEF PoolInit, L!Init, PlaceOf

(* Where a step changes one client's owner, Lending's function changes there. *)
LEMMA PlaceChange ==
  ASSUME PoolInv, PoolInv', NEW c \in Clients, NEW t \in Threads,
         NEW e \in Clients \cup {NoClient}, Own(t, e), e = c \/ held[t] = c,
         held[t] = NoClient \/ e = NoClient,
         \A d \in Clients \ {c} : d \in alive <=> d \in alive'
  PROVE  Place' = [Place EXCEPT ![c] = PlaceOf(c)']
<1>1. PlaceSound /\ PlaceSound'
  BY PlaceMeaning, PTL
<1>2. \A u \in Threads : held'[u] = IF u = t THEN e ELSE held[u]
  BY DEF PoolInv, PoolTypeOK, Own
<1>3. ASSUME NEW d \in Clients \ {c} PROVE PlaceOf(d)' = PlaceOf(d)
  <2>1. \A u \in Threads : held'[u] = d <=> held[u] = d
    BY <1>2, <1>3, PoolAssumption
  <2>2. CASE d \in Owned
    <3>1. PICK u \in Threads : held[u] = d
      BY <2>2 DEF Owned
    <3> QED
      BY <1>1, <2>1, <3>1 DEF PlaceSound
  <2>3. CASE d \notin Owned
    <3>1. d \notin Owned'
      BY <2>1, <2>3, PoolAssumption DEF Owned
    <3> QED
      BY <1>1, <2>3, <3>1 DEF PlaceSound
  <2> QED
    BY <2>2, <2>3
<1> QED
  BY <1>3 DEF Place

(* Each step of the pool is a step of Lending or changes no client's place. *)
LEMMA RefinementStep ==
  ASSUME PoolInv, PoolInv', [PoolNext]_poolVars
  PROVE  [L!Next]_Place
<1> USE PoolAssumption
<1>1. PlaceSound /\ PlaceSound'
  BY PlaceMeaning, PTL
<1>2. CASE UNCHANGED <<held, alive>>
  BY <1>2 DEF Place, PlaceOf
<1>3. ASSUME NEW t \in Threads, held[t] = NoClient
      PROVE  L!LentTo(t) = {}
  BY <1>1, <1>3 DEF L!LentTo, PlaceSound
<1>4. ASSUME NEW t \in Threads, MoveBack(t)
      PROVE  L!Next
  <2>1. PICK c \in Clients : c = pool[Len(pool)] /\ Len(pool) \in DOMAIN pool
    BY <1>4, BackIsClient DEF MoveBack
  <2>2. held[t] = NoClient /\ Own(t, c) /\ alive' = alive
    BY <1>4, <2>1 DEF MoveBack, PoolInv, OwnerSound, Owning
  <2>3. c \notin Owned /\ c \in alive
    BY <2>1 DEF PoolInv, Exclusive, NoneLost, Pooled
  <2>4. PlaceOf(c) = NoThread
    BY <1>1, <2>1, <2>3 DEF PlaceSound
  <2>5. PlaceOf(c)' = t
    BY <1>1, <2>1, <2>2 DEF PlaceSound, Own, PoolInv, PoolTypeOK
  <2>6. Place' = [Place EXCEPT ![c] = t]
    BY <2>1, <2>2, <2>5, PlaceChange
  <2>7. L!Lend(t, c)
    BY <1>3, <2>1, <2>2, <2>4, <2>6 DEF L!Lend, Place
  <2> QED
    BY <2>1, <2>7 DEF L!Next
<1>5. ASSUME NEW t \in Threads, Create(t)
      PROVE  L!Next
  <2>1. PICK c \in Clients \ alive : alive' = alive \cup {c} /\ Own(t, c)
    BY <1>5 DEF Create
  <2>2. held[t] = NoClient
    BY <1>5 DEF Create, PoolInv, OwnerSound, Owning
  <2>3. PlaceOf(c) = NoClient
    BY <1>1, <2>1 DEF PlaceSound, PoolInv, NoneLost
  <2>4. PlaceOf(c)' = t
    BY <1>1, <2>1 DEF PlaceSound, Own, PoolInv, PoolTypeOK
  <2>5. Place' = [Place EXCEPT ![c] = t]
    BY <2>1, <2>2, <2>4, PlaceChange
  <2>6. L!Create(t, c)
    BY <1>3, <2>1, <2>2, <2>3, <2>5 DEF L!Create, Place
  <2> QED
    BY <2>1, <2>6 DEF L!Next
<1>6. ASSUME NEW t \in Threads, PushBack(t) \/ Delete(t)
      PROVE  L!Next
  <2>1. PICK c \in Clients : c = held[t] /\ Own(t, NoClient)
    BY <1>6 DEF PushBack, Delete, PoolInv, PoolTypeOK, OwnerSound, Owning
  <2>2. PlaceOf(c) = t
    BY <1>1, <2>1 DEF PlaceSound
  <2>3. c \notin Owned' /\ c \in alive
    BY <2>1, OwnedAfterLetting DEF PoolInv, NoneLost, Owned
  <2>4. Place' = [Place EXCEPT ![c] = PlaceOf(c)']
    BY <1>6, <2>1, PlaceChange DEF PushBack, Delete
  <2>5. CASE PushBack(t)
    <3>1. PlaceOf(c)' = NoThread
      BY <1>1, <2>1, <2>3, <2>5 DEF PlaceSound, PushBack
    <3> QED
      BY <2>1, <2>2, <2>4, <3>1 DEF L!Next, L!GiveBack, Place
  <2>6. CASE Delete(t)
    <3>1. PlaceOf(c)' = NoClient
      BY <1>1, <2>1, <2>3, <2>6 DEF PlaceSound, Delete
    <3> QED
      BY <2>1, <2>2, <2>4, <3>1 DEF L!Next, L!Discard, Place
  <2> QED
    BY <1>6, <2>5, <2>6
<1>7. ASSUME NEW t \in Threads,
             Get(t) \/ Release(t) \/ Lock(t) \/ PopBack(t) \/ FindEmpty(t)
               \/ CreateFails(t) \/ PushFails(t)
      PROVE  UNCHANGED <<held, alive>>
  BY <1>7 DEF Get, Release, Lock, LockAcquire, LockRelease, PopBack, FindEmpty,
              CreateFails, PushFails
<1>8. CASE UNCHANGED poolVars
  BY <1>2, <1>8 DEF poolVars
<1> QED
  BY <1>2, <1>4, <1>5, <1>6, <1>7, <1>8 DEF PoolNext, PoolStep, Inside

(***************************************************************************)
(* The pool implements Lending: threads own clients one at a time, and one *)
(* reaches another thread only by way of the pool.                         *)
(***************************************************************************)
THEOREM Refinement == PoolSpec => LendsExclusively
<1>1. PoolInv /\ PoolInv' /\ [PoolNext]_poolVars => [L!Next]_Place
  BY RefinementStep
<1> QED
  BY RefinementInit, <1>1, Invariance, PTL
     DEF PoolSpec, LendsExclusively, L!Spec, Place
-----------------------------------------------------------------------------

(* Every step of Consul is a step of the pool or leaves it alone. *)
LEMMA PoolOfStep == [Next]_vars => [PoolNext]_poolVars
<1> SUFFICES ASSUME [Next]_vars PROVE [PoolNext]_poolVars
  OBVIOUS
<1>1. ASSUME NEW t \in Threads,
             Call(t) \/ LockMutex(t) \/ PoolWork(t) \/ Reuse(t) \/ CreateClient(t)
               \/ CreateThrows(t) \/ Finish(t)
      PROVE  PoolNext
  BY <1>1 DEF PoolNext, PoolStep, Inside, Call, LockMutex, PoolWork, Reuse,
              CreateClient, CreateThrows, Finish
<1>2. ASSUME NEW t \in Threads,
             SetOptions(t) \/ SetOptionThrows(t) \/ Transfer(t) \/ Stop(t) \/ See(t)
      PROVE  UNCHANGED poolVars
  BY <1>2 DEF SetOptions, SetOptionThrows, Transfer, Connect, Abort, Respond,
              ConnectTimesOut, RequestTimesOut, TransferFails, Stop, See, End
<1>3. CASE UNCHANGED vars
  BY <1>3 DEF vars
<1> QED
  BY <1>1, <1>2, <1>3 DEF Next, Proceed

(***************************************************************************)
(* Calls, requests and stop() together never make a step that the pool's   *)
(* specification does not allow.                                           *)
(***************************************************************************)
THEOREM PoolOfConsul == Spec => UsesPool
<1>1. Init => PoolInit
  BY DEF Init
<1> QED
  BY <1>1, PoolOfStep, PTL DEF Spec, UsesPool, PoolSpec

(* So the invariants of the pool hold of Consul: here, no shared client,   *)
(* no leak, and no more connections than concurrent calls.                 *)
THEOREM ConsulPoolInvariance == Spec => []PoolInv
BY PoolOfConsul, Invariance, PTL DEF UsesPool

(* The invariant of requests and of the stop flag holds at the start. *)
LEMMA ConsulInvInit == Init => ConsulInv
<1> SUFFICES ASSUME Init PROVE ConsulInv
  OBVIOUS
<1>1. PoolInv
  BY InvInit DEF Init
<1>2. TypeOK
  BY <1>1 DEF PoolInv, TypeOK, Init, Phases, Outcomes
<1>3. RequestOwnsClient /\ FlagSound /\ CallbackSound
  BY DEF Init, PoolInit, RequestOwnsClient, FlagSound, CallbackSound
<1>4. LateCallsFail /\ AbortMeansStopped
  BY DEF Init, LateCallsFail, AbortMeansStopped
<1> QED
  BY <1>2, <1>3, <1>4 DEF ConsulInv

(* The ways a request ends; s is the outcome. *)
LEMMA EndStep ==
  ASSUME ConsulInv, PoolInv, NEW t \in Threads, NEW o \in Outcomes \ {"none"},
         phase[t] # "none", End(t, o),
         o \in Statuses => ~PollSaysStop(t),
         o = "aborted" => PollSaysStop(t)
  PROVE  ConsulInv'
<1> USE DEF ConsulInv, TypeOK, config
<1>1. /\ UNCHANGED <<poolVars, config, stopped, seen, cancellable, late>>
      /\ phase' = [phase EXCEPT ![t] = "done"]
      /\ outcome' = [outcome EXCEPT ![t] = o]
  BY DEF End, Enter
<1>2. TypeOK'
  BY <1>1 DEF poolVars, PoolTypeOK, Phases, Outcomes
<1>3. held[t] \in Clients /\ cancellable[held[t]] = enableStop
  <2>1. pc[t] = "using"
    BY DEF RequestOwnsClient
  <2>2. held[t] \in alive
    BY <2>1 DEF PoolInv, OwnerSound, Owning, NoneLost, Owned
  <2> QED
    BY <2>2 DEF CallbackSound, PoolTypeOK
<1>4. RequestOwnsClient'
  BY <1>1 DEF poolVars, RequestOwnsClient, Outcomes
<1>5. FlagSound' /\ CallbackSound'
  BY <1>1 DEF poolVars, FlagSound, CallbackSound
<1>6. LateCallsFail'
  <2>1. late[t] => o \in Failures
    BY <1>3 DEF PollSaysStop, FlagSound, Outcomes
  <2> QED
    BY <1>1, <2>1 DEF LateCallsFail
<1>7. AbortMeansStopped'
  <2>1. o = "aborted" => enableStop /\ stopped
    BY DEF PollSaysStop, FlagSound
  <2> QED
    BY <1>1, <2>1 DEF AbortMeansStopped
<1> QED
  BY <1>2, <1>4, <1>5, <1>6, <1>7

(* The steps that take, create or give back a client. *)
LEMMA PoolPartStep ==
  ASSUME ConsulInv, PoolInv, PoolInv', NEW t \in Threads,
         Call(t) \/ LockMutex(t) \/ PoolWork(t) \/ Reuse(t) \/ CreateClient(t)
           \/ CreateThrows(t) \/ Finish(t)
  PROVE  ConsulInv'
<1> USE DEF ConsulInv, TypeOK, config
<1>1. PoolTypeOK' /\ PoolTypeOK
  BY DEF PoolInv
<1>2. CASE CreateClient(t)
  <2>1. PICK c \in Clients \ alive : alive' = alive \cup {c} /\ Own(t, c)
    BY <1>2 DEF CreateClient, Create
  <2>2. held'[t] = c
    BY <1>1, <2>1 DEF Own, PoolTypeOK
  <2>3. cancellable' = [cancellable EXCEPT ![c] = enableStop]
    BY <1>2, <2>2 DEF CreateClient
  <2>4. CallbackSound'
    BY <1>2, <2>1, <2>3 DEF CreateClient, CallbackSound, PoolTypeOK
  <2>5. TypeOK' /\ RequestOwnsClient'
    BY <1>1, <1>2, <2>3
       DEF CreateClient, Create, Enter, Goto, Phases, RequestOwnsClient, PoolTypeOK
  <2>6. FlagSound' /\ LateCallsFail' /\ AbortMeansStopped'
    BY <1>2 DEF CreateClient, FlagSound, LateCallsFail, AbortMeansStopped
  <2> QED
    BY <2>4, <2>5, <2>6
<1>3. CASE Call(t)
  <2>1. TypeOK' /\ RequestOwnsClient'
    BY <1>1, <1>3 DEF Call, Get, Goto, Outcomes, RequestOwnsClient, PoolTypeOK
  <2>2. FlagSound' /\ CallbackSound'
    BY <1>3 DEF Call, Get, FlagSound, CallbackSound
  <2>3. LateCallsFail' /\ AbortMeansStopped'
    BY <1>3 DEF Call, LateCallsFail, AbortMeansStopped
  <2> QED
    BY <2>1, <2>2, <2>3
<1>4. CASE CreateThrows(t)
  <2>1. TypeOK' /\ RequestOwnsClient'
    BY <1>1, <1>4 DEF CreateThrows, CreateFails, Goto, Outcomes, Failures,
                      RequestOwnsClient, PoolTypeOK
  <2>2. FlagSound' /\ CallbackSound'
    BY <1>4 DEF CreateThrows, CreateFails, FlagSound, CallbackSound
  <2>3. LateCallsFail' /\ AbortMeansStopped'
    BY <1>4 DEF CreateThrows, LateCallsFail, AbortMeansStopped, Failures
  <2> QED
    BY <2>1, <2>2, <2>3
<1>5. CASE LockMutex(t) \/ PoolWork(t)
  <2>1. alive' \subseteq alive /\ UNCHANGED requestVars
    BY <1>5 DEF LockMutex, PoolWork, Lock, LockAcquire, LockRelease, MoveBack,
                FindEmpty, PushBack, PushFails, Delete
  <2>2. \A u \in Threads : pc'[u] = "using" <=> pc[u] = "using"
    BY <1>1, <1>5 DEF LockMutex, PoolWork, Lock, LockAcquire, LockRelease, MoveBack,
                      FindEmpty, PushBack, PushFails, Delete, Goto, PoolTypeOK
  <2> QED
    BY <1>1, <2>1, <2>2 DEF requestVars, RequestOwnsClient, FlagSound, CallbackSound,
                            LateCallsFail, AbortMeansStopped
<1>6. CASE Reuse(t) \/ Finish(t)
  <2>1. TypeOK' /\ RequestOwnsClient'
    BY <1>1, <1>6 DEF Reuse, PopBack, Finish, Release, Enter, Goto, Phases,
                      RequestOwnsClient, PoolTypeOK
  <2>2. FlagSound' /\ CallbackSound'
    BY <1>6 DEF Reuse, PopBack, Finish, Release, FlagSound, CallbackSound
  <2>3. LateCallsFail' /\ AbortMeansStopped'
    BY <1>6 DEF Reuse, Finish, LateCallsFail, AbortMeansStopped
  <2> QED
    BY <2>1, <2>2, <2>3
<1> QED
  BY <1>2, <1>3, <1>4, <1>5, <1>6

(* The steps of the request itself, and stop(). *)
LEMMA RequestPartStep ==
  ASSUME ConsulInv, PoolInv, NEW t \in Threads,
         SetOptions(t) \/ SetOptionThrows(t) \/ Transfer(t) \/ Stop(t) \/ See(t)
  PROVE  ConsulInv'
<1> USE DEF ConsulInv, TypeOK, config
<1>1. CASE SetOptions(t) \/ Connect(t)
  <2>1. UNCHANGED <<poolVars, config, stopped, seen, cancellable, outcome, late>>
    BY <1>1 DEF SetOptions, Connect
  <2>2. TypeOK' /\ RequestOwnsClient'
    BY <1>1, <2>1 DEF SetOptions, Connect, Enter, Phases, poolVars, PoolTypeOK,
                      RequestOwnsClient
  <2> QED
    BY <2>1, <2>2 DEF poolVars, FlagSound, CallbackSound, LateCallsFail, AbortMeansStopped
<1>2. CASE SetOptionThrows(t)
  BY <1>2, EndStep DEF SetOptionThrows, Outcomes, Failures, Statuses
<1>3. CASE Abort(t)
  BY <1>3, EndStep DEF Abort, Performing, Outcomes, Failures, Statuses
<1>4. CASE Respond(t)
  <2>1. PICK s \in Statuses : End(t, s)
    BY <1>4 DEF Respond
  <2> QED
    BY <1>4, <2>1, EndStep DEF Respond, Outcomes, Statuses
<1>5. CASE ConnectTimesOut(t) \/ RequestTimesOut(t) \/ TransferFails(t)
  <2>1. \E o \in {"timed out", "error"} : End(t, o) /\ phase[t] # "none"
    BY <1>5 DEF ConnectTimesOut, RequestTimesOut, TransferFails, Performing
  <2> QED
    BY <2>1, EndStep DEF Outcomes, Failures, Statuses
<1>6. CASE Stop(t) \/ See(t)
  <2>1. /\ UNCHANGED <<poolVars, config, cancellable, phase, outcome, late>>
        /\ seen' = [seen EXCEPT ![t] = TRUE]
        /\ stopped' \in BOOLEAN /\ stopped' /\ enableStop
    BY <1>6 DEF Stop, See, FlagSound
  <2>2. TypeOK' /\ RequestOwnsClient'
    BY <2>1 DEF poolVars, PoolTypeOK, RequestOwnsClient
  <2>3. FlagSound' /\ CallbackSound'
    BY <2>1 DEF poolVars, FlagSound, CallbackSound
  <2>4. LateCallsFail' /\ AbortMeansStopped'
    BY <2>1 DEF LateCallsFail, AbortMeansStopped
  <2> QED
    BY <2>2, <2>3, <2>4
<1> QED
  BY <1>1, <1>2, <1>3, <1>4, <1>5, <1>6 DEF Transfer

(* Every step keeps it, given that the invariant of the pool holds. *)
LEMMA ConsulInvStep == PoolInv /\ PoolInv' /\ ConsulInv /\ [Next]_vars => ConsulInv'
<1>1. ASSUME PoolInv, PoolInv', ConsulInv, Next PROVE ConsulInv'
  BY <1>1, PoolPartStep, RequestPartStep DEF Next, Proceed
<1>2. ASSUME ConsulInv, UNCHANGED vars PROVE ConsulInv'
  BY <1>2 DEF vars, poolVars, config, requestVars, ConsulInv, TypeOK, PoolTypeOK,
              RequestOwnsClient, FlagSound, CallbackSound, LateCallsFail, AbortMeansStopped
<1> QED
  BY <1>1, <1>2

(* The inductive invariant of Consul holds in every reachable state. *)
THEOREM ConsulInvariance == Spec => []ConsulInv
BY ConsulInvInit, ConsulInvStep, ConsulPoolInvariance, PTL DEF Spec

(* So the flags, the phases of the requests and their outcomes, and the    *)
(* pool they share, always stay of their types.                            *)
THEOREM ConsulTypeCorrect == Spec => []TypeOK
<1>1. ConsulInv => TypeOK
  BY DEF ConsulInv
<1> QED
  BY <1>1, ConsulInvariance, PTL

(***************************************************************************)
(* "No further requests can be done": a call made by a thread that had     *)
(* seen the stop does not return a response, whichever client it got.      *)
(***************************************************************************)
THEOREM NoLateResponse == Spec => []LateCallsFail
<1>1. ConsulInv => LateCallsFail
  BY DEF ConsulInv
<1> QED
  BY <1>1, ConsulInvariance, PTL

(* OperationAborted is only ever thrown after stop() was called. *)
THEOREM AbortsAreStops == Spec => []AbortMeansStopped
<1>1. ConsulInv => AbortMeansStopped
  BY DEF ConsulInv
<1> QED
  BY <1>1, ConsulInvariance, PTL
=============================================================================
