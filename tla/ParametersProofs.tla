-------------------------- MODULE ParametersProofs --------------------------
(***************************************************************************)
(* What unique_args() and Consul::makeQuery() make of any arguments: of    *)
(* equal keywords the last one counts, and the token is never in a query.  *)
(***************************************************************************)
EXTENDS Parameters, SequencesExt, WellFoundedInduction, SequenceTheorems, TLAPS

(* A non-empty set of natural numbers has a least element. *)
LEMMA LeastElement ==
  ASSUME NEW T, T \subseteq Nat, T # {}
  PROVE  \E n \in T : \A m \in T : n <= m
<1> DEFINE R == {ss \in Nat \X Nat : ss[1] < ss[2]}
<1>1. IsWellFoundedOn(R, Nat)
  BY NatLessThanWellFounded, Zenon DEF OpToRel
<1> HIDE DEF R
<1>2. PICK n \in T : \A m \in T : ~ (<<m, n>> \in R)
  BY <1>1, WFMin
<1>3. \A m \in T : ~ (m < n)
  BY <1>2 DEF R
<1> QED
  BY <1>3

(* A sequence of requests that are late, and one more.                     *)
LEMMA AppendAdds ==
  ASSUME NEW s, s \in Seq(Range(s)), NEW x
  PROVE  LET a == Append(s, x)
         IN  /\ a \in Seq(Range(a)) /\ Range(a) \subseteq Range(s) \cup {x}
             /\ DOMAIN a = 1 .. Len(s) + 1 /\ a[Len(s) + 1] = x
             /\ \A i \in 1 .. Len(s) : a[i] = s[i]
<1> DEFINE S == Range(s) \cup {x}
           a == Append(s, x)
<1>1. s \in Seq(S) /\ x \in S
  OBVIOUS
<1> HIDE DEF S
<1>2. /\ Len(s) \in Nat /\ a \in Seq(S)
      /\ DOMAIN a = 1 .. Len(s) + 1 /\ Len(a) = Len(s) + 1
      /\ a[Len(s) + 1] = x /\ \A i \in 1 .. Len(s) : a[i] = s[i]
  BY <1>1
<1> HIDE DEF a
<1>3. Range(a) \subseteq S /\ a \in Seq(Range(a))
  BY <1>2 DEF Range
<1> QED
  BY <1>2, <1>3 DEF S, a

(* An index behind the one that goes.                                      *)
LEMMA Among ==
  ASSUME NEW len \in Nat, NEW n \in 1 .. len, NEW i \in n .. len - 1
  PROVE  i \in 1 .. (n - 1) + (len - n) /\ ~ (i <= n - 1)
OBVIOUS

(* One of them is no longer late.                                          *)
LEMMA RemoveLeaves ==
  ASSUME NEW s, s \in Seq(Range(s)), NEW n \in DOMAIN s
  PROVE  LET r == RemoveAt(s, n)
         IN  /\ r \in Seq(Range(r)) /\ Range(r) \subseteq Range(s)
             /\ DOMAIN r = 1 .. Len(s) - 1
             /\ \A i \in DOMAIN r : r[i] = s[IF i < n THEN i ELSE i + 1]
<1> DEFINE S == Range(s)
           r == RemoveAt(s, n)
           before == SubSeq(s, 1, n - 1)
           after == SubSeq(s, n + 1, Len(s))
<1> HIDE DEF S
<1>1. s \in Seq(S) /\ Len(s) \in Nat /\ n \in 1 .. Len(s)
  BY DEF S
<1>2. /\ before \in Seq(S) /\ Len(before) = n - 1
      /\ \A i \in 1 .. n - 1 : before[i] = s[i]
  BY <1>1
<1>3. /\ after \in Seq(S) /\ Len(after) = Len(s) - n
      /\ \A i \in 1 .. Len(s) - n : after[i] = s[n + i]
  BY <1>1
<1>4. r = before \o after
  BY Zenon DEF RemoveAt
<1> HIDE DEF before, after, r
<1>5. /\ r \in Seq(S) /\ DOMAIN r = 1 .. Len(s) - 1 /\ Len(r) = Len(s) - 1
      /\ \A i \in 1 .. n - 1 : r[i] = before[i]
      /\ \A i \in n .. Len(s) - 1 : r[i] = after[i - (n - 1)]
  <2> DEFINE B == Len(before)
             A == Len(after)
  <2>1. /\ before \o after \in Seq(S) /\ Len(before \o after) = B + A
        /\ \A i \in 1 .. B + A : (before \o after)[i] = IF i <= B THEN before[i] ELSE after[i - B]
    BY <1>2, <1>3, ConcatProperties, Zenon
  <2> HIDE DEF B, A
  <2>2. /\ r \in Seq(S) /\ Len(r) = B + A
        /\ \A i \in 1 .. B + A : r[i] = IF i <= B THEN before[i] ELSE after[i - B]
    BY <1>4, <2>1, Zenon
  <2>3. B = n - 1 /\ A = Len(s) - n /\ B + A = Len(s) - 1
    BY <1>1, <1>2, <1>3 DEF A, B
  <2>4. ASSUME NEW i \in 1 .. n - 1
        PROVE  r[i] = before[i]
    <3>1. i \in 1 .. B + A /\ i <= B
      BY <1>1, <2>3
    <3> QED
      BY <2>2, <3>1, Zenon
  <2>5. ASSUME NEW i \in n .. Len(s) - 1
        PROVE  r[i] = after[i - (n - 1)]
    <3>1. i \in 1 .. B + A /\ ~ (i <= B) /\ B = n - 1
      <4>1. i \in 1 .. (n - 1) + (Len(s) - n) /\ ~ (i <= n - 1)
        BY <1>1, Among, Zenon
      <4> QED
        BY <2>3, <4>1
    <3> QED
      BY <2>2, <3>1, Zenon
  <2>6. DOMAIN r = 1 .. Len(r) /\ Len(r) = Len(s) - 1
    BY <2>2, <2>3
  <2> QED
    BY <2>2, <2>4, <2>5, <2>6, Zenon
<1>6. /\ r \in Seq(S) /\ DOMAIN r = 1 .. Len(s) - 1
      /\ \A i \in DOMAIN r : r[i] = s[IF i < n THEN i ELSE i + 1]
  <2>1. ASSUME NEW i \in 1 .. Len(s) - 1
        PROVE  r[i] = s[IF i < n THEN i ELSE i + 1]
    <3>1. CASE i < n
      <4>1. i \in 1 .. n - 1
        BY <1>1, <3>1
      <4> QED
        BY <1>2, <1>5, <3>1, <4>1
    <3>2. CASE ~ (i < n)
      <4>1. /\ i \in n .. Len(s) - 1 /\ i - (n - 1) \in 1 .. Len(s) - n
            /\ n + (i - (n - 1)) = i + 1
        BY <1>1, <3>2
      <4>2. r[i] = after[i - (n - 1)]
        BY <1>5, <4>1
      <4>3. after[i - (n - 1)] = s[n + (i - (n - 1))]
        BY <1>3, <4>1
      <4> QED
        BY <3>2, <4>1, <4>2, <4>3
    <3> QED
      BY <3>1, <3>2
  <2> QED
    BY <1>5, <2>1
<1>7. r \in Seq(Range(r)) /\ Range(r) \subseteq S
  <2>1. \A i \in DOMAIN r : r[i] \in S
    BY <1>6
  <2>2. Len(r) \in Nat /\ DOMAIN r = 1 .. Len(r) /\ r = [i \in 1 .. Len(r) |-> r[i]]
    BY <1>6
  <2> QED
    BY <2>1, <2>2 DEF Range
<1> QED
  BY <1>6, <1>7, Zenon DEF S, r
-----------------------------------------------------------------------------
(* One step of the fold, and the fold over the arguments from lo on.       *)
Keep(args, i, done) ==
  IF args[i][1] \in done.seen THEN done
  ELSE [kept |-> <<i>> \o done.kept, seen |-> done.seen \cup {args[i][1]}]
IsWalk(args, lo, walk) ==
  walk = [i \in lo .. Len(args) + 1 |->
            IF i > Len(args) THEN [kept |-> <<>>, seen |-> {}]
            ELSE Keep(args, i, walk[i + 1])]

(* The recursion of UniqueIndexes has a solution for every list.           *)
LEMMA WalkExists ==
  ASSUME NEW S, NEW args \in Seq(S)
  PROVE  \E walk : IsWalk(args, 1, walk)
<1> DEFINE N == Len(args)
           None == [kept |-> <<>>, seen |-> {}]
           T == {d \in 0 .. N : ~ \E walk : IsWalk(args, N + 1 - d, walk)}
<1>1. N \in Nat
  OBVIOUS
<1>2. SUFFICES T = {}
  <2>1. N \in 0 .. N /\ N + 1 - N = 1
    BY <1>1
  <2> HIDE DEF N
  <2> QED
    BY <1>2, <2>1
<1>3. SUFFICES ASSUME T # {} PROVE FALSE
  OBVIOUS
<1>4. PICK d \in T : \A m \in T : d <= m
  <2>1. T \subseteq Nat
    BY <1>1
  <2> HIDE DEF T
  <2> QED
    BY <1>3, <2>1, LeastElement
<1>5. d \in 0 .. N /\ ~ \E walk : IsWalk(args, N + 1 - d, walk)
  OBVIOUS
<1> HIDE DEF T
<1>6. d # 0
  <2> SUFFICES IsWalk(args, N + 1, [i \in N + 1 .. N + 1 |-> None])
    BY <1>1, <1>5
  <2> QED
    BY <1>1 DEF IsWalk
<1>7. PICK walk : IsWalk(args, N + 1 - (d - 1), walk)
  <2>1. d - 1 \in 0 .. N /\ ~ (d <= d - 1)
    BY <1>1, <1>5, <1>6
  <2> QED
    BY <1>4, <2>1 DEF T
<1> DEFINE lo == N + 1 - d
           f == [i \in lo .. N + 1 |-> IF i = lo THEN Keep(args, lo, walk[lo + 1]) ELSE walk[i]]
<1>8. lo \in 1 .. N /\ N + 1 - (d - 1) = lo + 1
  BY <1>1, <1>5, <1>6
<1> HIDE DEF N, lo
<1>9. walk = [i \in lo + 1 .. N + 1 |-> IF i > N THEN None ELSE Keep(args, i, walk[i + 1])]
  BY <1>7, <1>8 DEF IsWalk, N
<1>10. f = [i \in lo .. N + 1 |-> IF i > N THEN None ELSE Keep(args, i, f[i + 1])]
  <2> SUFFICES ASSUME NEW i \in lo .. N + 1
               PROVE  f[i] = IF i > N THEN None ELSE Keep(args, i, f[i + 1])
    BY Zenon
  <2>1. CASE i = lo
    BY <1>1, <1>8, <2>1
  <2>2. CASE i # lo
    <3>1. i \in lo + 1 .. N + 1 /\ f[i] = walk[i]
      BY <1>1, <1>8, <2>2
    <3>2. i <= N => f[i + 1] = walk[i + 1]
      BY <1>1, <1>8, <3>1
    <3>3. walk[i] = IF i > N THEN None ELSE Keep(args, i, walk[i + 1])
      BY <1>9, <3>1, Zenon
    <3>4. i > N \/ i <= N
      BY <1>1, <1>8
    <3> HIDE DEF f
    <3> QED
      BY <3>1, <3>2, <3>3, <3>4
  <2> QED
    BY <2>1, <2>2
<1>11. IsWalk(args, lo, f)
  BY <1>10, Zenon DEF IsWalk, N
<1> QED
  BY <1>5, <1>11 DEF lo

(* UniqueIndexes() is such a walk, from the last argument to the first.    *)
LEMMA UniqueIndexesIsWalk ==
  ASSUME NEW S, NEW args \in Seq(S)
  PROVE  \E walk : IsWalk(args, 1, walk) /\ UniqueIndexes(args) = walk[1].kept
<1> DEFINE walk == CHOOSE f :
             f = [i \in 1 .. Len(args) + 1 |->
                    IF i > Len(args) THEN [kept |-> <<>>, seen |-> {}]
                    ELSE LET done == f[i + 1]
                         IN  IF args[i][1] \in done.seen THEN done
                             ELSE [kept |-> <<i>> \o done.kept,
                                   seen |-> done.seen \cup {args[i][1]}]]
<1>1. UniqueIndexes(args) = walk[1].kept
  BY Zenon DEF UniqueIndexes
<1>2. IsWalk(args, 1, walk)
  BY WalkExists, Zenon DEF IsWalk, Keep
<1> QED
  BY <1>1, <1>2
-----------------------------------------------------------------------------
(* i is the last argument with its keyword.                                *)
IsLast(args, i) == \A j \in DOMAIN args : j > i => args[j][1] # args[i][1]

(* What the fold has collected of the arguments from i on.                 *)
KeepsLast(args, i, done) ==
  /\ done.kept \in Seq(i .. Len(args))
  /\ done.seen = {args[j][1] : j \in i .. Len(args)}
  /\ \A n \in DOMAIN done.kept : IsLast(args, done.kept[n])
  /\ \A j \in i .. Len(args) : IsLast(args, j) => \E n \in DOMAIN done.kept : done.kept[n] = j
  /\ \A m, n \in DOMAIN done.kept : m < n => done.kept[m] < done.kept[n]

(* One more argument, from the right.                                      *)
LEMMA KeepPreserves ==
  ASSUME NEW S, NEW args \in Seq(S), NEW i \in 1 .. Len(args), NEW done,
         KeepsLast(args, i + 1, done)
  PROVE  KeepsLast(args, i, Keep(args, i, done))
<1> DEFINE N == Len(args)
           all == {args[j][1] : j \in i + 1 .. N}
<1>1. N \in Nat /\ i \in 1 .. N /\ DOMAIN args = 1 .. N
  OBVIOUS
<1>2. done.seen = all
  BY DEF KeepsLast
<1>3. {args[j][1] : j \in i .. N} = all \cup {args[i][1]}
  <2>1. \A j \in Int : j \in i .. N <=> j = i \/ j \in i + 1 .. N
    BY <1>1
  <2> QED
    BY <2>1
<1>4. args[i][1] \in all <=> ~ IsLast(args, i)
  <2>1. \A j \in Int : j \in i + 1 .. N <=> j \in DOMAIN args /\ j > i
    BY <1>1
  <2> QED
    BY <1>1, <2>1 DEF IsLast
<1> HIDE DEF N, all
<1>5. CASE args[i][1] \in all
  <2>1. Keep(args, i, done) = done
    BY <1>2, <1>5 DEF Keep
  <2>2. all \cup {args[i][1]} = all
    BY <1>5
  <2>3. i + 1 .. N \subseteq i .. N
    BY <1>1
  <2>4. done.kept \in Seq(i .. N)
    BY <2>3, SeqMonotonic DEF KeepsLast, N
  <2>5. ASSUME NEW j \in i .. N, IsLast(args, j)
        PROVE  \E n \in DOMAIN done.kept : done.kept[n] = j
    <3>1. j \in i + 1 .. N
      BY <1>1, <1>4, <1>5, <2>5
    <3> QED
      BY <2>5, <3>1 DEF KeepsLast, N
  <2> QED
    BY <1>2, <1>3, <2>1, <2>2, <2>4, <2>5 DEF KeepsLast, N
<1>6. CASE args[i][1] \notin all
  <2> DEFINE kept == <<i>> \o done.kept
             K == Len(done.kept)
  <2>1. Keep(args, i, done) = [kept |-> kept, seen |-> all \cup {args[i][1]}]
    BY <1>2, <1>6 DEF Keep
  <2>2. i + 1 .. N \subseteq i .. N /\ i \in i .. N
    BY <1>1
  <2>3. done.kept \in Seq(i + 1 .. N) /\ done.kept \in Seq(i .. N) /\ <<i>> \in Seq(i .. N)
    BY <2>2, SeqMonotonic DEF KeepsLast, N
  <2>4. /\ kept \in Seq(i .. N)
        /\ K \in Nat
        /\ DOMAIN done.kept = 1 .. K
        /\ DOMAIN kept = 1 .. K + 1
        /\ kept[1] = i
        /\ \A n \in 1 .. K : kept[n + 1] = done.kept[n]
    BY <2>3
  <2>5. \A n \in 1 .. K : done.kept[n] \in i + 1 .. N
    BY <2>3, ElementOfSeq, Zenon
  <2>6. \A n \in 1 .. K + 1 : n = 1 \/ (n - 1 \in 1 .. K /\ kept[n] = done.kept[n - 1])
    <3>1. \A n \in 1 .. K + 1 : n = 1 \/ (n - 1 \in 1 .. K /\ n - 1 + 1 = n)
      BY <2>4
    <3> HIDE DEF kept, K
    <3> QED
      BY <2>4, <3>1
  <2> HIDE DEF kept, K
  <2>7. \A n \in DOMAIN kept : IsLast(args, kept[n])
    BY <1>4, <1>6, <2>4, <2>6 DEF KeepsLast
  <2>8. ASSUME NEW j \in i .. N, IsLast(args, j)
        PROVE  \E n \in DOMAIN kept : kept[n] = j
    <3>1. CASE j = i
      BY <2>4, <3>1
    <3>2. CASE j \in i + 1 .. N
      <4>1. PICK n \in 1 .. K : done.kept[n] = j
        BY <2>4, <2>8, <3>2 DEF KeepsLast, N
      <4>2. kept[n + 1] = j
        BY <2>4, <4>1, Zenon
      <4>3. n + 1 \in 1 .. K + 1
        BY <2>4
      <4> QED
        BY <2>4, <4>2, <4>3, Zenon
    <3> QED
      BY <1>1, <3>1, <3>2
  <2>9. ASSUME NEW m \in DOMAIN kept, NEW n \in DOMAIN kept, m < n
        PROVE  kept[m] < kept[n]
    <3>1. m \in 1 .. K + 1 /\ n \in 1 .. K + 1 /\ K \in Nat
      BY <2>4, <2>9, Zenon
    <3>2. n # 1 /\ m - 1 < n - 1
      BY <2>9, <3>1
    <3>3. n - 1 \in 1 .. K /\ kept[n] = done.kept[n - 1]
      BY <2>6, <3>1, <3>2, Zenon
    <3>4. CASE m = 1
      <4>1. done.kept[n - 1] \in i + 1 .. N /\ kept[m] = i
        BY <2>4, <2>5, <3>3, <3>4, Zenon
      <4> HIDE DEF N
      <4> QED
        BY <1>1, <3>3, <4>1
    <3>5. CASE m # 1
      <4>1. m - 1 \in 1 .. K /\ kept[m] = done.kept[m - 1]
        BY <2>6, <3>1, <3>5, Zenon
      <4> QED
        BY <2>4, <3>2, <3>3, <4>1, Zenon DEF KeepsLast
    <3> QED
      BY <3>4, <3>5
  <2> QED
    BY <1>3, <2>1, <2>4, <2>7, <2>8, <2>9 DEF KeepsLast, N
<1> QED
  BY <1>5, <1>6

(* No i is the least from which the fold could go wrong.                   *)
LEMMA WalkKeepsLast ==
  ASSUME NEW S, NEW args \in Seq(S), NEW walk, IsWalk(args, 1, walk)
  PROVE  \A i \in 1 .. Len(args) + 1 : KeepsLast(args, i, walk[i])
<1> DEFINE N == Len(args)
           T == {d \in 0 .. N : ~ KeepsLast(args, N + 1 - d, walk[N + 1 - d])}
<1>1. N \in Nat
  OBVIOUS
<1> HIDE DEF N
<1>2. T = {}
  <2>1. SUFFICES ASSUME T # {} PROVE FALSE
    OBVIOUS
  <2>2. T \subseteq Nat
    BY <1>1
  <2>3. PICK d \in T : \A m \in T : d <= m
    <3> HIDE DEF T
    <3> QED
      BY <2>1, <2>2, LeastElement
  <2>4. d \in 0 .. N /\ ~ KeepsLast(args, N + 1 - d, walk[N + 1 - d])
    OBVIOUS
  <2>5. CASE d = 0
    <3>1. walk[N + 1] = [kept |-> <<>>, seen |-> {}]
      BY <1>1 DEF IsWalk, N
    <3>2. N + 1 .. N = {} /\ N + 1 - d = N + 1
      BY <1>1, <2>5
    <3>3. KeepsLast(args, N + 1, walk[N + 1])
      BY <3>1, <3>2 DEF KeepsLast, N
    <3> QED
      BY <2>4, <3>2, <3>3
  <2>6. CASE d # 0
    <3>1. /\ N + 1 - d \in 1 .. N
          /\ d - 1 \in 0 .. N
          /\ ~ (d <= d - 1)
          /\ N + 1 - (d - 1) = N + 1 - d + 1
      BY <1>1, <2>4, <2>6
    <3>2. KeepsLast(args, N + 1 - d + 1, walk[N + 1 - d + 1])
      BY <2>3, <3>1
    <3>3. walk[N + 1 - d] = Keep(args, N + 1 - d, walk[N + 1 - d + 1])
      <4> DEFINE j == N + 1 - d
      <4>1. j \in 1 .. N + 1 /\ ~ (j > N) /\ j \in 1 .. N
        BY <1>1, <3>1
      <4> HIDE DEF j
      <4>2. walk[j] = Keep(args, j, walk[j + 1])
        BY <4>1 DEF IsWalk, N
      <4> QED
        BY <4>2 DEF j
    <3> QED
      BY <2>4, <3>1, <3>2, <3>3, KeepPreserves DEF N
  <2> QED
    BY <2>5, <2>6
<1>3. SUFFICES ASSUME NEW i \in 1 .. N + 1 PROVE KeepsLast(args, i, walk[i])
  BY DEF N
<1>4. N + 1 - i \in 0 .. N /\ N + 1 - (N + 1 - i) = i
  BY <1>1
<1> QED
  BY <1>2, <1>4

(***************************************************************************)
(* unique_args() keeps exactly the last argument of every keyword, in the  *)
(* order in which they were given.                                         *)
(***************************************************************************)
THEOREM UniqueIndexesAreLast ==
  ASSUME NEW S, NEW args \in Seq(S)
  PROVE  LET kept == UniqueIndexes(args)
         IN  /\ kept \in Seq(DOMAIN args)
             /\ {kept[n] : n \in DOMAIN kept} = {i \in DOMAIN args : IsLast(args, i)}
             /\ \A m, n \in DOMAIN kept : m < n => kept[m] < kept[n]
<1> DEFINE kept == UniqueIndexes(args)
<1>1. PICK walk : IsWalk(args, 1, walk) /\ kept = walk[1].kept
  BY UniqueIndexesIsWalk
<1>2. KeepsLast(args, 1, walk[1])
  BY <1>1, WalkKeepsLast
<1>3. DOMAIN args = 1 .. Len(args)
  OBVIOUS
<1> HIDE DEF kept
<1>4. /\ kept \in Seq(DOMAIN args)
      /\ \A n \in DOMAIN kept : IsLast(args, kept[n])
      /\ \A j \in DOMAIN args : IsLast(args, j) => \E n \in DOMAIN kept : kept[n] = j
      /\ \A m, n \in DOMAIN kept : m < n => kept[m] < kept[n]
  BY <1>1, <1>2, <1>3 DEF KeepsLast
<1>5. \A n \in DOMAIN kept : kept[n] \in DOMAIN args
  BY <1>4, LenProperties, ElementOfSeq, Zenon
<1> QED
  BY <1>4, <1>5 DEF kept

(***************************************************************************)
(* A query holds, for every keyword, the value of its last argument if     *)
(* that is printed, and nothing else.                                      *)
(***************************************************************************)
THEOREM MakeQueryTakesLast ==
  ASSUME NEW S, NEW args \in Seq(S)
  PROVE  LET last == {i \in DOMAIN args : IsLast(args, i)}
             shown == {i \in last : Printed(args[i][1], args[i][2])}
         IN  /\ DOMAIN MakeQuery(args) = {args[i][1] : i \in shown}
             /\ \A i \in shown : MakeQuery(args)[args[i][1]] = args[i][2]
<1> DEFINE last == {i \in DOMAIN args : IsLast(args, i)}
           shown == {i \in last : Printed(args[i][1], args[i][2])}
           kept == UniqueIndexes(args)
           unique == UniqueArgs(args)
           listed == {n \in DOMAIN unique : Printed(unique[n][1], unique[n][2])}
           keys == {unique[n][1] : n \in listed}
           Value(k) == LET n == CHOOSE m \in listed : unique[m][1] = k IN unique[n][2]
<1>1. /\ kept \in Seq(DOMAIN args)
      /\ {kept[n] : n \in DOMAIN kept} = last
      /\ \A m, n \in DOMAIN kept : m < n => kept[m] < kept[n]
  BY UniqueIndexesAreLast
<1>2. DOMAIN unique = DOMAIN kept /\ \A n \in DOMAIN kept : unique[n] = args[kept[n]]
  BY DEF UniqueArgs
<1>3. MakeQuery(args) = [k \in keys |-> Value(k)]
  BY Zenon DEF MakeQuery
<1>4. DOMAIN kept \subseteq Nat /\ last \subseteq Nat
  BY <1>1
<1> HIDE DEF kept, unique
<1>5. \A i, j \in last : args[i][1] = args[j][1] => i = j
  BY <1>4 DEF IsLast
<1>6. \A n \in DOMAIN kept : kept[n] \in last
  BY <1>1
<1>7. {kept[n] : n \in listed} = shown
  BY <1>1, <1>2
<1>8. {unique[n][1] : n \in listed} = {args[i][1] : i \in shown}
  BY <1>2, <1>7
<1>9. ASSUME NEW i \in shown
      PROVE  MakeQuery(args)[args[i][1]] = args[i][2]
  <2> DEFINE n == CHOOSE m \in listed : unique[m][1] = args[i][1]
  <2>1. \E m \in listed : unique[m][1] = args[i][1]
    BY <1>8
  <2>2. n \in listed /\ unique[n][1] = args[i][1]
    BY <2>1
  <2>3. MakeQuery(args)[args[i][1]] = unique[n][2]
    <3>1. args[i][1] \in keys
      BY <1>8
    <3> HIDE DEF keys, Value
    <3>2. MakeQuery(args)[args[i][1]] = Value(args[i][1])
      BY <1>3, <3>1
    <3> QED
      BY <3>2 DEF Value
  <2> HIDE DEF n
  <2>4. args[kept[n]][1] = args[i][1] /\ kept[n] \in last
    BY <1>2, <1>6, <2>2
  <2>5. kept[n] = i
    BY <1>5, <2>4
  <2> QED
    BY <1>2, <2>2, <2>3, <2>5
<1>10. DOMAIN MakeQuery(args) = {args[i][1] : i \in shown}
  BY <1>3, <1>8
<1> QED
  BY <1>9, <1>10
-----------------------------------------------------------------------------
(* A keyword that is given has a last argument.                            *)
LEMMA GivenHasLast ==
  ASSUME NEW S, NEW args \in Seq(S), NEW k, Given(k, args)
  PROVE  \E i \in DOMAIN args : args[i][1] = k /\ IsLast(args, i)
<1> DEFINE N == Len(args)
           T == {d \in 0 .. N - 1 : args[N - d][1] = k}
<1>1. N \in Nat /\ DOMAIN args = 1 .. N
  OBVIOUS
<1>2. T \subseteq Nat
  BY <1>1
<1> HIDE DEF N
<1>3. T # {}
  <2>1. PICK i \in 1 .. N : args[i][1] = k
    BY <1>1 DEF Given
  <2>2. N - i \in 0 .. N - 1 /\ N - (N - i) = i
    BY <1>1
  <2> QED
    BY <2>1, <2>2
<1>4. PICK d \in T : \A m \in T : d <= m
  <2> HIDE DEF T
  <2> QED
    BY <1>2, <1>3, LeastElement
<1>5. N - d \in 1 .. N /\ args[N - d][1] = k
  BY <1>1
<1>6. ASSUME NEW j \in 1 .. N, j > N - d
      PROVE  args[j][1] # k
  <2>1. N - j \in 0 .. N - 1 /\ N - (N - j) = j /\ ~ (d <= N - j)
    BY <1>1, <1>6
  <2> QED
    BY <1>4, <2>1
<1> QED
  BY <1>1, <1>5, <1>6 DEF IsLast

(* get_opt() finds the last argument of a keyword, or takes the default.   *)
LEMMA GetOptTakesLast ==
  ASSUME NEW S, NEW args \in Seq(S), NEW k, NEW d
  PROVE  /\ \A i \in DOMAIN args : args[i][1] = k /\ IsLast(args, i) => GetOpt(k, d, args) = args[i][2]
         /\ ~ Given(k, args) => GetOpt(k, d, args) = d
<1>1. ~ Given(k, args) => GetOpt(k, d, args) = d
  BY DEF GetOpt
<1>2. ASSUME NEW i \in DOMAIN args, args[i][1] = k, IsLast(args, i)
      PROVE  GetOpt(k, d, args) = args[i][2]
  <2>1. \A j \in DOMAIN args : args[j][1] = k /\ (\A l \in DOMAIN args : l > j => args[l][1] # k) => j = i
    BY <1>2 DEF IsLast
  <2>2. KeywordIndex(k, args) = i
    BY <1>2, <2>1 DEF KeywordIndex, IsLast
  <2> QED
    BY <1>2, <2>2 DEF GetOpt, Given
<1> QED
  BY <1>1, <1>2

(* Which arguments are the last ones after some have been put before.      *)
LEMMA LastOfConcat ==
  ASSUME NEW S, NEW pre \in Seq(S), NEW args \in Seq(S)
  PROVE  /\ pre \o args \in Seq(S)
         /\ \A i \in DOMAIN args :
              /\ Len(pre) + i \in DOMAIN (pre \o args)
              /\ (pre \o args)[Len(pre) + i] = args[i]
              /\ IsLast(pre \o args, Len(pre) + i) <=> IsLast(args, i)
         /\ \A i \in DOMAIN pre :
              /\ i \in DOMAIN (pre \o args)
              /\ (pre \o args)[i] = pre[i]
              /\ IsLast(pre, i) /\ ~ Given(pre[i][1], args) => IsLast(pre \o args, i)
         /\ \A k : Given(k, pre \o args) <=> Given(k, pre) \/ Given(k, args)
<1> DEFINE full == pre \o args
           P == Len(pre)
           A == Len(args)
<1>1. /\ full \in Seq(S)
      /\ P \in Nat /\ A \in Nat
      /\ DOMAIN pre = 1 .. P /\ DOMAIN args = 1 .. A /\ DOMAIN full = 1 .. P + A
      /\ \A i \in 1 .. P + A : full[i] = IF i <= P THEN pre[i] ELSE args[i - P]
  OBVIOUS
<1> HIDE DEF full, P, A
<1>2. \A i \in 1 .. A : P + i \in 1 .. P + A /\ full[P + i] = args[i]
  <2>1. \A i \in 1 .. A : P + i \in 1 .. P + A /\ ~ (P + i <= P) /\ P + i - P = i
    BY <1>1
  <2> QED
    BY <1>1, <2>1
<1>3. \A i \in 1 .. P : i \in 1 .. P + A /\ full[i] = pre[i]
  BY <1>1
<1>4. \A j \in 1 .. P + A : j \in 1 .. P \/ (\E i \in 1 .. A : j = P + i)
  <2>1. \A j \in 1 .. P + A : j \in 1 .. P \/ (j - P \in 1 .. A /\ j = P + (j - P))
    BY <1>1
  <2> QED
    BY <2>1
<1>5. ASSUME NEW i \in 1 .. A
      PROVE  IsLast(full, P + i) <=> IsLast(args, i)
  <2>1. ASSUME IsLast(full, P + i), NEW j \in 1 .. A, j > i
        PROVE  args[j][1] # args[i][1]
    <3>1. P + j > P + i
      BY <1>1, <2>1
    <3> QED
      BY <1>1, <1>2, <2>1, <3>1 DEF IsLast
  <2>2. ASSUME IsLast(args, i), NEW j \in 1 .. P + A, j > P + i
        PROVE  full[j][1] # full[P + i][1]
    <3>1. PICK l \in 1 .. A : j = P + l
      BY <1>1, <1>4, <2>2
    <3>2. l > i
      BY <1>1, <2>2, <3>1
    <3>3. full[j] = args[l] /\ full[P + i] = args[i]
      BY <1>2, <3>1, Zenon
    <3>4. args[l][1] # args[i][1]
      BY <1>1, <2>2, <3>2, Zenon DEF IsLast
    <3> QED
      BY <3>3, <3>4, Zenon
  <2> QED
    BY <1>1, <2>1, <2>2 DEF IsLast
<1>6. ASSUME NEW i \in 1 .. P, IsLast(pre, i), ~ Given(pre[i][1], args)
      PROVE  IsLast(full, i)
  <2> SUFFICES ASSUME NEW j \in 1 .. P + A, j > i
               PROVE  full[j][1] # full[i][1]
    BY <1>1 DEF IsLast
  <2>1. CASE j \in 1 .. P
    BY <1>1, <1>3, <1>6, <2>1 DEF IsLast
  <2>2. CASE \E l \in 1 .. A : j = P + l
    <3>1. PICK l \in 1 .. A : j = P + l
      BY <2>2
    <3>2. full[j] = args[l] /\ full[i] = pre[i]
      BY <1>2, <1>3, <3>1
    <3>3. args[l][1] # pre[i][1]
      BY <1>1, <1>6 DEF Given
    <3> QED
      BY <3>2, <3>3
  <2> QED
    BY <1>4, <2>1, <2>2
<1>7. ASSUME NEW k
      PROVE  Given(k, full) <=> Given(k, pre) \/ Given(k, args)
  <2>1. ASSUME Given(k, full) PROVE Given(k, pre) \/ Given(k, args)
    <3>1. PICK j \in 1 .. P + A : full[j][1] = k
      BY <1>1, <2>1 DEF Given
    <3>2. CASE j \in 1 .. P
      BY <1>1, <1>3, <3>1, <3>2 DEF Given
    <3>3. CASE \E i \in 1 .. A : j = P + i
      <4>1. PICK i \in 1 .. A : j = P + i
        BY <3>3
      <4>2. args[i][1] = k
        BY <1>2, <3>1, <4>1
      <4> QED
        BY <1>1, <4>2 DEF Given
    <3> QED
      BY <1>4, <3>2, <3>3
  <2>2. ASSUME Given(k, pre) PROVE Given(k, full)
    <3>1. PICK i \in 1 .. P : pre[i][1] = k
      BY <1>1, <2>2 DEF Given
    <3>2. i \in DOMAIN full /\ full[i][1] = k
      BY <1>1, <1>3, <3>1
    <3> QED
      BY <3>2 DEF Given
  <2>3. ASSUME Given(k, args) PROVE Given(k, full)
    <3>1. PICK i \in 1 .. A : args[i][1] = k
      BY <1>1, <2>3 DEF Given
    <3>2. P + i \in DOMAIN full /\ full[P + i][1] = k
      BY <1>1, <1>2, <3>1
    <3> QED
      BY <3>2 DEF Given
  <2> QED
    BY <2>1, <2>2, <2>3
<1> QED
  BY <1>1, <1>2, <1>3, <1>5, <1>6, <1>7 DEF full, P, A

(* Argument v is the last one with keyword k.                              *)
LastIs(args, k, v) == \E i \in DOMAIN args : args[i] = <<k, v>> /\ IsLast(args, i)

(* One argument, and none.                                                 *)
LEMMA OneArgument ==
  ASSUME NEW S, NEW k, NEW v, <<k, v>> \in S
  PROVE  /\ <<<<k, v>>>> \in Seq(S) /\ Len(<<<<k, v>>>>) = 1
         /\ DOMAIN <<<<k, v>>>> = {1} /\ <<<<k, v>>>>[1] = <<k, v>>
         /\ LastIs(<<<<k, v>>>>, k, v)
         /\ \A j : Given(j, <<<<k, v>>>>) <=> j = k
<1> DEFINE pair == <<k, v>>
<1>1. pair \in S /\ pair[1] = k
  OBVIOUS
<1> HIDE DEF pair
<1>2. 1 .. 1 = {1}
  OBVIOUS
<1>3. <<pair>> \in Seq(S) /\ Len(<<pair>>) = 1 /\ DOMAIN <<pair>> = {1} /\ <<pair>>[1] = pair
  BY <1>1, <1>2
<1>4. LastIs(<<pair>>, k, v)
  BY <1>3 DEF IsLast, LastIs, pair
<1>5. \A j : Given(j, <<pair>>) <=> j = k
  BY <1>1, <1>3 DEF Given
<1> QED
  BY <1>3, <1>4, <1>5 DEF pair

(* An empty list gives no keyword. *)
LEMMA NoArgument ==
  ASSUME NEW S
  PROVE  <<>> \in Seq(S) /\ Len(<<>>) = 0 /\ \A j : ~ Given(j, <<>>)
BY DEF Given

(* Of two lists of arguments, the first counts where the second is silent. *)
LEMMA LastOfBoth ==
  ASSUME NEW S, NEW one \in Seq(S), NEW two \in Seq(S)
  PROVE  /\ one \o two \in Seq(S)
         /\ \A k : Given(k, one \o two) <=> Given(k, one) \/ Given(k, two)
         /\ \A k, v : LastIs(two, k, v) => LastIs(one \o two, k, v)
         /\ \A k, v : LastIs(one, k, v) /\ ~ Given(k, two) => LastIs(one \o two, k, v)
<1> DEFINE both == one \o two
<1>1. /\ both \in Seq(S)
      /\ \A i \in DOMAIN two : /\ Len(one) + i \in DOMAIN both
                               /\ both[Len(one) + i] = two[i]
                               /\ IsLast(both, Len(one) + i) <=> IsLast(two, i)
      /\ \A i \in DOMAIN one : /\ i \in DOMAIN both
                               /\ both[i] = one[i]
                               /\ IsLast(one, i) /\ ~ Given(one[i][1], two) => IsLast(both, i)
      /\ \A j : Given(j, both) <=> Given(j, one) \/ Given(j, two)
  BY LastOfConcat
<1> HIDE DEF both
<1>2. \A k, v : <<k, v>>[1] = k
  OBVIOUS
<1>3. \A k, v : LastIs(one, k, v) /\ ~ Given(k, two) => LastIs(both, k, v)
  BY <1>1, <1>2 DEF LastIs
<1>4. \A k, v : LastIs(two, k, v) => LastIs(both, k, v)
  BY <1>1 DEF LastIs
<1> QED
  BY <1>1, <1>3, <1>4 DEF both

(***************************************************************************)
(* The query that Consul makes of a call's arguments: the last one of each *)
(* keyword that is printed; Consul's data center where the call has none;  *)
(* never a token; and nothing else.                                        *)
(***************************************************************************)
THEOREM ConsulQueryIs ==
  ASSUME NEW S, NEW args \in Seq(S), NEW consul
  PROVE  LET query == ConsulQuery(consul, args)
         IN  /\ "token" \notin DOMAIN query
             /\ \A i \in DOMAIN args :
                  LET k == args[i][1]
                      v == args[i][2]
                  IN  k # "token" /\ IsLast(args, i) =>
                        /\ k \in DOMAIN query <=> Printed(k, v)
                        /\ Printed(k, v) => query[k] = v
             /\ ~ Given("dc", args) =>
                  /\ "dc" \in DOMAIN query <=> Printed("dc", consul.dc)
                  /\ Printed("dc", consul.dc) => query["dc"] = consul.dc
             /\ \A k : k # "dc" /\ ~ Given(k, args) => k \notin DOMAIN query
<1> DEFINE first == <<"dc", consul.dc>>
           end == <<"token", Empty>>
           U == S \cup {first, end}
           most == <<first>> \o args
           full == most \o <<end>>
           query == MakeQuery(full)
           N == Len(most)
<1>1. /\ <<first>> \in Seq(U) /\ <<end>> \in Seq(U) /\ args \in Seq(U)
      /\ Len(<<first>>) = 1 /\ DOMAIN <<first>> = {1} /\ <<first>>[1] = first
      /\ Len(<<end>>) = 1 /\ DOMAIN <<end>> = {1} /\ <<end>>[1] = end
      /\ first[1] = "dc" /\ first[2] = consul.dc /\ end[1] = "token" /\ end[2] = Empty
  <2>1. S \subseteq U
    OBVIOUS
  <2>2. args \in Seq(U)
    BY <2>1, SeqMonotonic
  <2> HIDE DEF U
  <2>3. first \in U /\ end \in U
    BY DEF U
  <2> HIDE DEF first, end
  <2>4. /\ <<first>> \in Seq(U) /\ <<end>> \in Seq(U)
        /\ Len(<<first>>) = 1 /\ DOMAIN <<first>> = {1} /\ <<first>>[1] = first
        /\ Len(<<end>>) = 1 /\ DOMAIN <<end>> = {1} /\ <<end>>[1] = end
    <3>1. 1 .. 1 = {1}
      OBVIOUS
    <3> QED
      BY <2>3, <3>1
  <2>5. first[1] = "dc" /\ first[2] = consul.dc /\ end[1] = "token" /\ end[2] = Empty
    BY DEF first, end
  <2> QED
    BY <2>2, <2>4, <2>5
<1> HIDE DEF U, first, end
<1>2. most \in Seq(U) /\ full \in Seq(U) /\ N \in Nat
  BY <1>1
<1>3. /\ \A i \in DOMAIN args : /\ 1 + i \in DOMAIN most
                                /\ most[1 + i] = args[i]
                                /\ IsLast(most, 1 + i) <=> IsLast(args, i)
      /\ 1 \in DOMAIN most /\ most[1] = first
      /\ ~ Given("dc", args) => IsLast(most, 1)
      /\ \A k : Given(k, most) <=> k = "dc" \/ Given(k, args)
  <2>1. IsLast(<<first>>, 1)
    BY <1>1 DEF IsLast
  <2>2. \A k : Given(k, <<first>>) <=> k = "dc"
    BY <1>1 DEF Given
  <2>3. /\ \A i \in DOMAIN args : /\ Len(<<first>>) + i \in DOMAIN most
                                  /\ most[Len(<<first>>) + i] = args[i]
                                  /\ IsLast(most, Len(<<first>>) + i) <=> IsLast(args, i)
        /\ \A i \in DOMAIN <<first>> :
             /\ i \in DOMAIN most
             /\ most[i] = <<first>>[i]
             /\ IsLast(<<first>>, i) /\ ~ Given(<<first>>[i][1], args) => IsLast(most, i)
        /\ \A k : Given(k, most) <=> Given(k, <<first>>) \/ Given(k, args)
    BY <1>1, LastOfConcat
  <2> HIDE DEF most
  <2> QED
    BY <1>1, <2>1, <2>2, <2>3
<1> HIDE DEF most
<1>4. /\ \A i \in DOMAIN most : /\ i \in DOMAIN full
                                /\ full[i] = most[i]
                                /\ IsLast(most, i) /\ most[i][1] # "token" => IsLast(full, i)
      /\ N + 1 \in DOMAIN full /\ full[N + 1] = end /\ IsLast(full, N + 1)
      /\ \A k : Given(k, full) <=> Given(k, most) \/ k = "token"
  <2>1. IsLast(<<end>>, 1)
    BY <1>1 DEF IsLast
  <2>2. \A k : Given(k, <<end>>) <=> k = "token"
    BY <1>1 DEF Given
  <2>3. /\ \A i \in DOMAIN <<end>> : /\ N + i \in DOMAIN full
                                     /\ full[N + i] = <<end>>[i]
                                     /\ IsLast(full, N + i) <=> IsLast(<<end>>, i)
        /\ \A i \in DOMAIN most :
             /\ i \in DOMAIN full
             /\ full[i] = most[i]
             /\ IsLast(most, i) /\ ~ Given(most[i][1], <<end>>) => IsLast(full, i)
        /\ \A k : Given(k, full) <=> Given(k, most) \/ Given(k, <<end>>)
    BY <1>1, <1>2, LastOfConcat
  <2> HIDE DEF full, N
  <2> QED
    BY <1>1, <2>1, <2>2, <2>3
<1> HIDE DEF full, N
<1>5. ASSUME NEW i \in DOMAIN full, IsLast(full, i)
      PROVE  /\ full[i][1] \in DOMAIN query <=> Printed(full[i][1], full[i][2])
             /\ Printed(full[i][1], full[i][2]) => query[full[i][1]] = full[i][2]
  <2> DEFINE last == {j \in DOMAIN full : IsLast(full, j)}
             shown == {j \in last : Printed(full[j][1], full[j][2])}
  <2>1. /\ DOMAIN query = {full[j][1] : j \in shown}
        /\ \A j \in shown : query[full[j][1]] = full[j][2]
    BY <1>2, MakeQueryTakesLast
  <2>2. DOMAIN full \subseteq Nat
    BY <1>2
  <2>3. \A j \in last : full[j][1] = full[i][1] => j = i
    BY <1>5, <2>2 DEF IsLast
  <2> HIDE DEF query
  <2> QED
    BY <1>5, <2>1, <2>3
<1>6. ASSUME NEW k, ~ Given(k, full)
      PROVE  k \notin DOMAIN query
  <2> DEFINE last == {j \in DOMAIN full : IsLast(full, j)}
             shown == {j \in last : Printed(full[j][1], full[j][2])}
  <2>1. DOMAIN query = {full[j][1] : j \in shown}
    BY <1>2, MakeQueryTakesLast
  <2> HIDE DEF query
  <2> QED
    BY <1>6, <2>1 DEF Given
<1>7. ConsulQuery(consul, args) = query
  BY Zenon DEF ConsulQuery, full, most, first, end
<1> HIDE DEF query
<1>8. "token" \notin DOMAIN query
  <2>1. ~ Printed("token", Empty)
    BY DEF Printed, StringKeywords
  <2> QED
    BY <1>1, <1>4, <1>5, <2>1
<1>9. ASSUME NEW i \in DOMAIN args, args[i][1] # "token", IsLast(args, i)
      PROVE  /\ args[i][1] \in DOMAIN query <=> Printed(args[i][1], args[i][2])
             /\ Printed(args[i][1], args[i][2]) => query[args[i][1]] = args[i][2]
  <2>1. 1 + i \in DOMAIN full /\ full[1 + i] = args[i] /\ IsLast(full, 1 + i)
    BY <1>3, <1>4, <1>9
  <2> QED
    BY <1>5, <2>1
<1>10. ASSUME ~ Given("dc", args)
       PROVE  /\ "dc" \in DOMAIN query <=> Printed("dc", consul.dc)
              /\ Printed("dc", consul.dc) => query["dc"] = consul.dc
  <2>1. 1 \in DOMAIN full /\ full[1] = first /\ IsLast(full, 1)
    BY <1>1, <1>3, <1>4, <1>10
  <2> QED
    BY <1>1, <1>5, <2>1
<1>11. ASSUME NEW k, k # "dc", ~ Given(k, args)
       PROVE  k \notin DOMAIN query
  BY <1>3, <1>4, <1>6, <1>8, <1>11
<1> QED
  BY <1>7, <1>8, <1>9, <1>10, <1>11
=============================================================================
