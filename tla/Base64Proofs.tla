---------------------------- MODULE Base64Proofs ----------------------------
(***************************************************************************)
(* Proofs about Base64, for every set of texts: the machines stay within   *)
(* the strings they write to, the code is the standard one, and where char *)
(* is signed what is decoded is what was encoded, whatever has come        *)
(* between its characters.                                                 *)
(*                                                                         *)
(* The j-th character of the code stands for the j-th six bits of the      *)
(* text.  While it encodes, the machine has written the characters so far, *)
(* and carries the bits that are left of the last byte.  The code that is  *)
(* decoded holds the same characters in the same order, and all else in it *)
(* is skipped; the machine has read k of them.                             *)
(***************************************************************************)
EXTENDS Base64, SequenceTheorems, TLAPS

Bytes == 0 .. 255

(* The text, and zeros behind it.                                          *)
Byte(t, n) == IF n <= Len(t) THEN t[n] ELSE 0

(* The four times six bits of the bytes 3 p + 1 to 3 p + 3.                *)
First(t, p)  == Byte(t, 3 * p + 1) \div 4
Second(t, p) == 16 * (Byte(t, 3 * p + 1) % 4) + Byte(t, 3 * p + 2) \div 16
Third(t, p)  == 4 * (Byte(t, 3 * p + 2) % 16) + Byte(t, 3 * p + 3) \div 64
Fourth(t, p) == Byte(t, 3 * p + 3) % 64

Sextet(t, j) ==
  LET p == (j - 1) \div 4
      r == (j - 1) % 4
  IN  IF r = 0 THEN First(t, p) ELSE IF r = 1 THEN Second(t, p)
      ELSE IF r = 2 THEN Third(t, p) ELSE Fourth(t, p)

(* How many characters carry bits.                                         *)
Size(t) == (4 * Len(t) + 2) \div 3

Chars(t, s, m) == \A j \in 1 .. m : s[j] = EncodeValue(Sextet(t, j))

(* Size characters and whatever padding.                                   *)
CodeOf(t, s) ==
  /\ s \in Seq(Bytes) /\ Size(t) <= Len(s)
  /\ Chars(t, s, Size(t))
  /\ \A i \in Size(t) + 1 .. Len(s) : s[i] = Pad

(* f is where the characters are, and all else is skipped.                 *)
Places(t, s, f) ==
  /\ f \in [1 .. Size(t) -> 1 .. Len(s)]
  /\ \A i, j \in 1 .. Size(t) : i < j => f[i] < f[j]
  /\ \A j \in 1 .. Size(t) : s[f[j]] = EncodeValue(Sextet(t, j))
  /\ \A i \in 1 .. Len(s) : (\A j \in 1 .. Size(t) : f[j] # i) => DecodeValue(s[i]) < 0
-----------------------------------------------------------------------------
(* The tables are each other's inverse, and '=' is in neither.             *)
LEMMA Tables ==
  ASSUME NEW v \in 0 .. 63
  PROVE  /\ EncodeValue(v) \in Bytes /\ EncodeValue(v) # Pad
         /\ DecodeValue(EncodeValue(v)) = v
<1>1. CASE v \in 0 .. 25
  <2>1. EncodeValue(v) = v + 65
    BY <1>1 DEF EncodeValue
  <2> QED
    BY <1>1, <2>1 DEF DecodeValue, Bytes, Pad
<1>2. CASE v \in 26 .. 51
  <2>1. EncodeValue(v) = v + 71
    BY <1>2 DEF EncodeValue
  <2> QED
    BY <1>2, <2>1 DEF DecodeValue, Bytes, Pad
<1>3. CASE v \in 52 .. 61
  <2>1. EncodeValue(v) = v - 4
    BY <1>3 DEF EncodeValue
  <2> QED
    BY <1>3, <2>1 DEF DecodeValue, Bytes, Pad
<1>4. CASE v = 62
  BY <1>4 DEF EncodeValue, DecodeValue, Bytes, Pad
<1>5. CASE v = 63
  BY <1>5 DEF EncodeValue, DecodeValue, Bytes, Pad
<1> QED
  BY <1>1, <1>2, <1>3, <1>4, <1>5

(* Six bits are carried by every character.                                *)
LEMMA Sextets ==
  ASSUME NEW t \in Seq(Bytes), NEW p \in Nat
  PROVE  /\ Byte(t, 3 * p + 1) \in Bytes /\ Byte(t, 3 * p + 2) \in Bytes /\ Byte(t, 3 * p + 3) \in Bytes
         /\ Sextet(t, 4 * p + 1) = First(t, p)  /\ First(t, p) \in 0 .. 63
         /\ Sextet(t, 4 * p + 2) = Second(t, p) /\ Second(t, p) \in 0 .. 63
         /\ Sextet(t, 4 * p + 3) = Third(t, p)  /\ Third(t, p) \in 0 .. 63
         /\ Sextet(t, 4 * p + 4) = Fourth(t, p) /\ Fourth(t, p) \in 0 .. 63
<1>1. \A n \in Nat \ {0} : Byte(t, n) \in Bytes
  <2>1. \A n \in 1 .. Len(t) : t[n] \in Bytes
    OBVIOUS
  <2>2. Len(t) \in Nat
    OBVIOUS
  <2> QED
    BY <2>1, <2>2 DEF Byte, Bytes
<1>2. Byte(t, 3 * p + 1) \in Bytes /\ Byte(t, 3 * p + 2) \in Bytes /\ Byte(t, 3 * p + 3) \in Bytes
  <2>1. 3 * p + 1 \in Nat \ {0} /\ 3 * p + 2 \in Nat \ {0} /\ 3 * p + 3 \in Nat \ {0}
    OBVIOUS
  <2> QED
    BY <1>1, <2>1, Zenon
<1>3. /\ (4 * p + 1 - 1) \div 4 = p /\ (4 * p + 1 - 1) % 4 = 0
      /\ (4 * p + 2 - 1) \div 4 = p /\ (4 * p + 2 - 1) % 4 = 1
      /\ (4 * p + 3 - 1) \div 4 = p /\ (4 * p + 3 - 1) % 4 = 2
      /\ (4 * p + 4 - 1) \div 4 = p /\ (4 * p + 4 - 1) % 4 = 3
  OBVIOUS
<1>4. /\ Sextet(t, 4 * p + 1) = First(t, p)  /\ Sextet(t, 4 * p + 2) = Second(t, p)
      /\ Sextet(t, 4 * p + 3) = Third(t, p) /\ Sextet(t, 4 * p + 4) = Fourth(t, p)
  BY <1>3 DEF Sextet
<1>5. ASSUME NEW x \in Bytes, NEW y \in Bytes
      PROVE  /\ x \div 4 \in 0 .. 63 /\ 16 * (x % 4) + y \div 16 \in 0 .. 63
             /\ 4 * (x % 16) + y \div 64 \in 0 .. 63 /\ x % 64 \in 0 .. 63
  BY DEF Bytes
<1>6. /\ First(t, p) \in 0 .. 63 /\ Second(t, p) \in 0 .. 63
      /\ Third(t, p) \in 0 .. 63 /\ Fourth(t, p) \in 0 .. 63
  BY <1>2, <1>5, Zenon DEF First, Second, Third, Fourth
<1> QED
  BY <1>2, <1>4, <1>6

(* Every position of the code is one of the four of a group.               *)
LEMMA Positions ==
  ASSUME NEW j \in Nat \ {0}
  PROVE  \E p \in Nat : j = 4 * p + 1 \/ j = 4 * p + 2 \/ j = 4 * p + 3 \/ j = 4 * p + 4
<1> DEFINE p == (j - 1) \div 4
<1>1. p \in Nat
  OBVIOUS
<1>2. j = 4 * p + 1 \/ j = 4 * p + 2 \/ j = 4 * p + 3 \/ j = 4 * p + 4
  OBVIOUS
<1> HIDE DEF p
<1> QED
  BY <1>1, <1>2

(* So whatever the position.                                               *)
LEMMA SextetRange ==
  ASSUME NEW t \in Seq(Bytes), NEW j \in Nat \ {0}
  PROVE  Sextet(t, j) \in 0 .. 63
<1>1. PICK p \in Nat : j = 4 * p + 1 \/ j = 4 * p + 2 \/ j = 4 * p + 3 \/ j = 4 * p + 4
  BY Positions
<1>2. /\ Sextet(t, 4 * p + 1) \in 0 .. 63 /\ Sextet(t, 4 * p + 2) \in 0 .. 63
      /\ Sextet(t, 4 * p + 3) \in 0 .. 63 /\ Sextet(t, 4 * p + 4) \in 0 .. 63
  BY Sextets
<1> QED
  BY <1>1, <1>2

(* What the length of the text says of the length of the code.             *)
LEMMA Sizes ==
  ASSUME NEW t \in Seq(Bytes), NEW q \in Nat
  PROVE  /\ Len(t) = 3 * q     => Size(t) = 4 * q     /\ (Len(t) + 2) \div 3 = q
         /\ Len(t) = 3 * q + 1 => Size(t) = 4 * q + 2 /\ (Len(t) + 2) \div 3 = q + 1
         /\ Len(t) = 3 * q + 2 => Size(t) = 4 * q + 3 /\ (Len(t) + 2) \div 3 = q + 1
BY DEF Size

(* There are as many characters as six bits, the last ones not all used.   *)
LEMMA SizeBelow ==
  ASSUME NEW t \in Seq(Bytes)
  PROVE  /\ Len(t) \in Nat /\ Size(t) \in Nat
         /\ \E q \in Nat : \/ Len(t) = 3 * q /\ Size(t) = 4 * q
                           \/ Len(t) = 3 * q + 1 /\ Size(t) = 4 * q + 2
                           \/ Len(t) = 3 * q + 2 /\ Size(t) = 4 * q + 3
<1> DEFINE N == Len(t)
           q == N \div 3
<1>1. N \in Nat
  OBVIOUS
<1> HIDE DEF N
<1>2. q \in Nat /\ (N = 3 * q \/ N = 3 * q + 1 \/ N = 3 * q + 2)
  BY <1>1
<1> HIDE DEF q
<1>3. \/ Len(t) = 3 * q /\ Size(t) = 4 * q
      \/ Len(t) = 3 * q + 1 /\ Size(t) = 4 * q + 2
      \/ Len(t) = 3 * q + 2 /\ Size(t) = 4 * q + 3
  BY <1>2, Sizes DEF N
<1>4. Size(t) \in Nat
  BY <1>2, <1>3
<1> QED
  BY <1>1, <1>2, <1>3, <1>4 DEF N

Joins(v, s, c) == v = s \o c

(* Two strings, one behind the other.                                      *)
LEMMA Joined ==
  ASSUME NEW S, NEW s \in Seq(S), NEW c \in Seq(S), NEW v, Joins(v, s, c)
  PROVE  /\ v \in Seq(S) /\ Len(s) \in Nat /\ Len(c) \in Nat /\ Len(v) = Len(s) + Len(c)
         /\ \A i \in 1 .. Len(s) : v[i] = s[i]
         /\ \A i \in 1 .. Len(c) : v[Len(s) + i] = c[i]
<1> DEFINE A == Len(s)
           B == Len(c)
<1>1. /\ s \o c \in Seq(S) /\ Len(s \o c) = A + B
      /\ \A i \in 1 .. A + B : (s \o c)[i] = IF i <= A THEN s[i] ELSE c[i - A]
  BY ConcatProperties, Zenon
<1>2. A \in Nat /\ B \in Nat
  OBVIOUS
<1> HIDE DEF A, B
<1>3. /\ v \in Seq(S) /\ Len(v) = A + B
      /\ \A i \in 1 .. A + B : v[i] = IF i <= A THEN s[i] ELSE c[i - A]
  BY <1>1, Zenon DEF Joins
<1>4. \A i \in 1 .. A : i \in 1 .. A + B /\ i <= A
  BY <1>2
<1>5. \A i \in 1 .. B : A + i \in 1 .. A + B /\ ~ (A + i <= A)
  BY <1>2
<1>6. ASSUME NEW i \in 1 .. A PROVE v[i] = s[i]
  BY <1>3, <1>4, Zenon
<1>7. ASSUME NEW i \in 1 .. B PROVE v[A + i] = c[i]
  <2>1. A + i \in 1 .. A + B /\ ~ (A + i <= A)
    BY <1>5
  <2>2. v[A + i] = c[(A + i) - A]
    BY <1>3, <2>1, Zenon
  <2>3. (A + i) - A = i
    BY <1>2
  <2> QED
    BY <2>2, <2>3
<1> QED
  BY <1>2, <1>3, <1>6, <1>7, Zenon DEF A, B

Extended(t, v, s, c, m) ==
  /\ v \in Seq(Bytes) /\ Len(v) = Len(s) + Len(c)
  /\ Chars(t, v, Len(s) + m)
  /\ \A i \in 1 .. Len(c) : v[Len(s) + i] = c[i]

(* The next characters, behind those that are written.                     *)
LEMMA CharsJoined ==
  ASSUME NEW t \in Seq(Bytes), NEW s \in Seq(Bytes), Chars(t, s, Len(s)),
         NEW c \in Seq(Bytes), NEW m \in 0 .. Len(c),
         \A i \in 1 .. m : c[i] = EncodeValue(Sextet(t, Len(s) + i)),
         NEW v, Joins(v, s, c)
  PROVE  Extended(t, v, s, c, m)
<1>1. /\ v \in Seq(Bytes) /\ Len(s) \in Nat /\ Len(c) \in Nat /\ Len(v) = Len(s) + Len(c)
      /\ \A i \in 1 .. Len(s) : v[i] = s[i]
      /\ \A i \in 1 .. Len(c) : v[Len(s) + i] = c[i]
  BY Joined
<1>2. ASSUME NEW j \in 1 .. Len(s) + m
      PROVE  v[j] = EncodeValue(Sextet(t, j))
  <2>1. CASE j \in 1 .. Len(s)
    <3>1. v[j] = s[j] /\ s[j] = EncodeValue(Sextet(t, j))
      BY <1>1, <2>1, Zenon DEF Chars
    <3> QED
      BY <3>1
  <2>2. CASE j \notin 1 .. Len(s)
    <3> DEFINE i == j - Len(s)
    <3>1. i \in 1 .. m /\ i \in 1 .. Len(c) /\ Len(s) + i = j
      BY <1>1, <2>2
    <3> HIDE DEF i
    <3>2. v[Len(s) + i] = c[i] /\ c[i] = EncodeValue(Sextet(t, Len(s) + i))
      BY <1>1, <3>1, Zenon
    <3> QED
      BY <3>1, <3>2
  <2> QED
    BY <2>1, <2>2
<1>3. Chars(t, v, Len(s) + m)
  BY <1>2, Zenon DEF Chars
<1> QED
  BY <1>1, <1>3, Zenon DEF Extended
-----------------------------------------------------------------------------
(***************************************************************************)
(* The machine that encodes, after q groups of three bytes.                *)
(***************************************************************************)
Writing(q) ==
  \/ step = "A" /\ next = 3 * q + 1 /\ Len(code) = 4 * q
  \/ step = "B" /\ next = 3 * q + 2 /\ Len(code) = 4 * q + 1 /\ carry = 16 * (text[3 * q + 1] % 4)
  \/ step = "C" /\ next = 3 * q + 3 /\ Len(code) = 4 * q + 2 /\ carry = 4 * (text[3 * q + 2] % 16)
EncodeInv ==
  /\ text \in Seq(Bytes) /\ code \in Seq(Bytes) /\ next \in Nat \ {0}
  /\ step \in {"A", "B", "C"} =>
       next <= Len(text) + 1 /\ Chars(text, code, Len(code)) /\ \E q \in Nat : Writing(q)
  /\ step = "encoded" => CodeOf(text, code) /\ Len(code) = 4 * ((Len(text) + 2) \div 3)

(* Nothing is written at first.                                            *)
LEMMA EncodeInit == Init => EncodeInv
<1> SUFFICES ASSUME Init PROVE EncodeInv
  OBVIOUS
<1>1. text \in Seq(Bytes) /\ step = "A" /\ next = 1 /\ code = <<>>
  BY Base64Assumption DEF Init, Bytes
<1>2. code \in Seq(Bytes) /\ Len(code) = 0 /\ Len(text) \in Nat
  BY <1>1
<1>3. Writing(0)
  BY <1>1, <1>2 DEF Writing
<1>4. Chars(text, code, Len(code))
  BY <1>2 DEF Chars
<1>5. next \in Nat \ {0} /\ next <= Len(text) + 1
  BY <1>1, <1>2
<1>6. 0 \in Nat
  OBVIOUS
<1>7. step # "encoded"
  BY <1>1
<1> QED
  BY <1>1, <1>2, <1>3, <1>4, <1>5, <1>6, <1>7, Zenon DEF EncodeInv

(* The first byte of a group.                                              *)
LEMMA EncodeAKeeps == EncodeInv /\ EncodeA => EncodeInv'
<1> SUFFICES ASSUME EncodeInv, EncodeA PROVE EncodeInv'
  OBVIOUS
<1> DEFINE u == text[next] \div 4
           x == EncodeValue(u)
           c == <<x>>
<1>1. /\ step = "A" /\ next <= Len(text) /\ step' = "B" /\ Joins(code', code, c)
      /\ carry' = 16 * (text[next] % 4) /\ next' = next + 1 /\ text' = text
  BY Zenon DEF EncodeA, Encode, Joins
<1>2. PICK q \in Nat : Writing(q)
  BY <1>1 DEF EncodeInv
<1>3. next = 3 * q + 1 /\ Len(code) = 4 * q
  BY <1>1, <1>2 DEF Writing
<1>4. /\ text \in Seq(Bytes) /\ code \in Seq(Bytes) /\ Chars(text, code, Len(code))
      /\ Len(text) \in Nat
  BY <1>1 DEF EncodeInv
<1>5. /\ Sextet(text, 4 * q + 1) = First(text, q) /\ First(text, q) \in 0 .. 63
  BY <1>4, Sextets
<1>6. First(text, q) = text[next] \div 4
  BY <1>1, <1>3 DEF First, Byte
<1>7. x = EncodeValue(Sextet(text, Len(code) + 1)) /\ x \in Bytes
  <2>1. u = Sextet(text, Len(code) + 1) /\ u \in 0 .. 63
    BY <1>3, <1>5, <1>6
  <2> HIDE DEF u
  <2> QED
    BY <2>1, Tables
<1> HIDE DEF x
<1>8. c \in Seq(Bytes) /\ Len(c) = 1 /\ c[1] = x /\ 1 \in 0 .. Len(c)
  BY <1>7
<1>9. \A i \in 1 .. 1 : c[i] = EncodeValue(Sextet(text, Len(code) + i))
  BY <1>7, <1>8
<1> HIDE DEF c
<1>10. /\ code' \in Seq(Bytes) /\ Len(code') = Len(code) + Len(c)
       /\ Chars(text, code', Len(code) + 1)
  <2>1. Extended(text, code', code, c, 1)
    BY <1>1, <1>4, <1>8, <1>9, CharsJoined, Zenon
  <2> QED
    BY <2>1, Zenon DEF Extended
<1>11. Writing(q)'
  BY <1>1, <1>3, <1>8, <1>10 DEF Writing
<1>12. next' \in Nat \ {0} /\ next' <= Len(text') + 1
  BY <1>1, <1>3, <1>4
<1>13. Chars(text', code', Len(code'))
  BY <1>1, <1>8, <1>10
<1> QED
  BY <1>1, <1>4, <1>10, <1>11, <1>12, <1>13 DEF EncodeInv

(* The second byte of a group.                                             *)
LEMMA EncodeBKeeps == EncodeInv /\ EncodeB => EncodeInv'
<1> SUFFICES ASSUME EncodeInv, EncodeB PROVE EncodeInv'
  OBVIOUS
<1> DEFINE u == carry + text[next] \div 16
           x == EncodeValue(u)
           c == <<x>>
<1>1. /\ step = "B" /\ next <= Len(text) /\ step' = "C" /\ Joins(code', code, c)
      /\ carry' = 4 * (text[next] % 16) /\ next' = next + 1 /\ text' = text
  BY Zenon DEF EncodeB, Encode, Joins
<1>2. PICK q \in Nat : Writing(q)
  BY <1>1 DEF EncodeInv
<1>3. next = 3 * q + 2 /\ Len(code) = 4 * q + 1 /\ carry = 16 * (text[3 * q + 1] % 4)
  BY <1>1, <1>2 DEF Writing
<1>4. /\ text \in Seq(Bytes) /\ code \in Seq(Bytes) /\ Chars(text, code, Len(code))
      /\ Len(text) \in Nat
  BY <1>1 DEF EncodeInv
<1>5. /\ Sextet(text, 4 * q + 2) = Second(text, q) /\ Second(text, q) \in 0 .. 63
  BY <1>4, Sextets
<1>6. Second(text, q) = carry + text[next] \div 16
  BY <1>1, <1>3, <1>4 DEF Second, Byte
<1>7. x = EncodeValue(Sextet(text, Len(code) + 1)) /\ x \in Bytes
  <2>1. u = Sextet(text, Len(code) + 1) /\ u \in 0 .. 63
    BY <1>3, <1>5, <1>6
  <2> HIDE DEF u
  <2> QED
    BY <2>1, Tables
<1> HIDE DEF x
<1>8. c \in Seq(Bytes) /\ Len(c) = 1 /\ c[1] = x /\ 1 \in 0 .. Len(c)
  BY <1>7
<1>9. \A i \in 1 .. 1 : c[i] = EncodeValue(Sextet(text, Len(code) + i))
  BY <1>7, <1>8
<1> HIDE DEF c
<1>10. /\ code' \in Seq(Bytes) /\ Len(code') = Len(code) + Len(c)
       /\ Chars(text, code', Len(code) + 1)
  <2>1. Extended(text, code', code, c, 1)
    BY <1>1, <1>4, <1>8, <1>9, CharsJoined, Zenon
  <2> QED
    BY <2>1, Zenon DEF Extended
<1>11. Writing(q)'
  BY <1>1, <1>3, <1>8, <1>10 DEF Writing
<1>12. next' \in Nat \ {0} /\ next' <= Len(text') + 1
  BY <1>1, <1>3, <1>4
<1>13. Chars(text', code', Len(code'))
  BY <1>1, <1>8, <1>10
<1> QED
  BY <1>1, <1>4, <1>10, <1>11, <1>12, <1>13 DEF EncodeInv

(* The third byte of a group, which leaves nothing to carry.               *)
LEMMA EncodeCKeeps == EncodeInv /\ EncodeC => EncodeInv'
<1> SUFFICES ASSUME EncodeInv, EncodeC PROVE EncodeInv'
  OBVIOUS
<1> DEFINE u == carry + text[next] \div 64
           w == text[next] % 64
           x == EncodeValue(u)
           y == EncodeValue(w)
           c == <<x, y>>
<1>1. /\ step = "C" /\ next <= Len(text) /\ step' = "A" /\ Joins(code', code, c)
      /\ next' = next + 1 /\ text' = text
  BY Zenon DEF EncodeC, Encode, Joins
<1>2. PICK q \in Nat : Writing(q)
  BY <1>1 DEF EncodeInv
<1>3. next = 3 * q + 3 /\ Len(code) = 4 * q + 2 /\ carry = 4 * (text[3 * q + 2] % 16)
  BY <1>1, <1>2 DEF Writing
<1>4. /\ text \in Seq(Bytes) /\ code \in Seq(Bytes) /\ Chars(text, code, Len(code))
      /\ Len(text) \in Nat
  BY <1>1 DEF EncodeInv
<1>5. /\ Sextet(text, 4 * q + 3) = Third(text, q) /\ Third(text, q) \in 0 .. 63
      /\ Sextet(text, 4 * q + 4) = Fourth(text, q) /\ Fourth(text, q) \in 0 .. 63
  BY <1>4, Sextets
<1>6. Third(text, q) = carry + text[next] \div 64 /\ Fourth(text, q) = text[next] % 64
  BY <1>1, <1>3, <1>4 DEF Third, Fourth, Byte
<1>7. /\ x = EncodeValue(Sextet(text, Len(code) + 1)) /\ x \in Bytes
      /\ y = EncodeValue(Sextet(text, Len(code) + 2)) /\ y \in Bytes
  <2>1. /\ u = Sextet(text, Len(code) + 1) /\ u \in 0 .. 63
        /\ w = Sextet(text, Len(code) + 2) /\ w \in 0 .. 63
    BY <1>3, <1>5, <1>6
  <2> HIDE DEF u, w
  <2> QED
    BY <2>1, Tables
<1> HIDE DEF x, y
<1>8. c \in Seq(Bytes) /\ Len(c) = 2 /\ c[1] = x /\ c[2] = y /\ 2 \in 0 .. Len(c)
  BY <1>7
<1>9. \A i \in 1 .. 2 : c[i] = EncodeValue(Sextet(text, Len(code) + i))
  BY <1>7, <1>8
<1> HIDE DEF c
<1>10. /\ code' \in Seq(Bytes) /\ Len(code') = Len(code) + Len(c)
       /\ Chars(text, code', Len(code) + 2)
  <2>1. Extended(text, code', code, c, 2)
    BY <1>1, <1>4, <1>8, <1>9, CharsJoined, Zenon
  <2> QED
    BY <2>1, Zenon DEF Extended
<1>11. Writing(q + 1)' /\ q + 1 \in Nat
  BY <1>1, <1>3, <1>8, <1>10 DEF Writing
<1>12. next' \in Nat \ {0} /\ next' <= Len(text') + 1
  BY <1>1, <1>3, <1>4
<1>13. Chars(text', code', Len(code'))
  BY <1>1, <1>8, <1>10
<1> QED
  BY <1>1, <1>4, <1>10, <1>11, <1>12, <1>13 DEF EncodeInv

(* The last group is filled up.                                            *)
LEMMA BlockEndKeeps == EncodeInv /\ BlockEnd => EncodeInv'
<1> SUFFICES ASSUME EncodeInv, BlockEnd PROVE EncodeInv'
  OBVIOUS
<1>1. /\ step \in {"A", "B", "C"} /\ next > Len(text) /\ step' = "encoded"
      /\ text' = text /\ next' = next
  BY DEF BlockEnd
<1>2. /\ text \in Seq(Bytes) /\ code \in Seq(Bytes) /\ Chars(text, code, Len(code))
      /\ Len(text) \in Nat /\ Len(code) \in Nat /\ next \in Nat \ {0} /\ next <= Len(text) + 1
  BY <1>1 DEF EncodeInv
<1>3. PICK q \in Nat : Writing(q)
  BY <1>1 DEF EncodeInv
<1>4. CASE step = "A"
  <2>1. code' = code
    BY <1>4 DEF BlockEnd
  <2>2. Len(text) = 3 * q /\ Len(code) = 4 * q
    BY <1>1, <1>2, <1>3, <1>4 DEF Writing
  <2>3. Size(text) = Len(code) /\ Len(code) = 4 * ((Len(text) + 2) \div 3)
    BY <1>2, <2>2, Sizes
  <2>4. CodeOf(text, code)
    BY <1>2, <2>3 DEF CodeOf
  <2> QED
    BY <1>1, <1>2, <2>1, <2>3, <2>4 DEF EncodeInv
<1>5. CASE step = "B"
  <2> DEFINE x == EncodeValue(carry)
             c == <<x, Pad, Pad>>
  <2>1. Joins(code', code, c)
    BY <1>5 DEF BlockEnd, Joins
  <2>2. Len(text) = 3 * q + 1 /\ Len(code) = 4 * q + 1 /\ carry = 16 * (text[3 * q + 1] % 4)
    BY <1>1, <1>2, <1>3, <1>5 DEF Writing
  <2>3. Size(text) = Len(code) + 1 /\ Len(code) + 3 = 4 * ((Len(text) + 2) \div 3)
    <3>1. Len(text) = 3 * q + 1 /\ Len(code) = 4 * q + 1
      BY <2>2
    <3>2. Size(text) = 4 * q + 2 /\ (Len(text) + 2) \div 3 = q + 1
      BY <1>2, <3>1, Sizes, Zenon
    <3> QED
      BY <3>1, <3>2
  <2>4. Sextet(text, 4 * q + 2) = Second(text, q) /\ Second(text, q) \in 0 .. 63
    BY <1>2, Sextets
  <2>5. Second(text, q) = carry
    <3>1. Byte(text, 3 * q + 2) = 0 /\ Byte(text, 3 * q + 1) = text[3 * q + 1]
      BY <2>2 DEF Byte
    <3>2. text[3 * q + 1] \in Bytes
      BY <1>2, <2>2
    <3>3. Second(text, q) = 16 * (text[3 * q + 1] % 4) + 0 \div 16
      BY <3>1, Zenon DEF Second
    <3>4. \A b \in Bytes : 16 * (b % 4) + 0 \div 16 = 16 * (b % 4)
      BY DEF Bytes
    <3> QED
      BY <2>2, <3>2, <3>3, <3>4
  <2>6. x = EncodeValue(Sextet(text, Len(code) + 1)) /\ x \in Bytes
    <3>1. carry = Sextet(text, Len(code) + 1) /\ carry \in 0 .. 63
      BY <2>2, <2>4, <2>5
    <3> QED
      BY <3>1, Tables
  <2> HIDE DEF x
  <2>7. /\ c \in Seq(Bytes) /\ Len(c) = 3 /\ c[1] = x /\ c[2] = Pad /\ c[3] = Pad
        /\ 1 \in 0 .. Len(c)
    BY <2>6 DEF Pad, Bytes
  <2>8. \A i \in 1 .. 1 : c[i] = EncodeValue(Sextet(text, Len(code) + i))
    BY <2>6, <2>7
  <2> HIDE DEF c
  <2>9. Extended(text, code', code, c, 1)
    BY <1>2, <2>1, <2>7, <2>8, CharsJoined, Zenon
  <2>10. /\ code' \in Seq(Bytes) /\ Len(code') = Len(code) + 3
         /\ Chars(text, code', Len(code) + 1)
         /\ code'[Len(code) + 2] = Pad /\ code'[Len(code) + 3] = Pad
    BY <2>7, <2>9 DEF Extended
  <2>11. CodeOf(text, code')
    BY <1>2, <2>3, <2>10 DEF CodeOf
  <2> QED
    BY <1>1, <1>2, <2>3, <2>10, <2>11 DEF EncodeInv
<1>6. CASE step = "C"
  <2> DEFINE x == EncodeValue(carry)
             c == <<x, Pad>>
  <2>1. Joins(code', code, c)
    BY <1>6 DEF BlockEnd, Joins
  <2>2. Len(text) = 3 * q + 2 /\ Len(code) = 4 * q + 2 /\ carry = 4 * (text[3 * q + 2] % 16)
    BY <1>1, <1>2, <1>3, <1>6 DEF Writing
  <2>3. Size(text) = Len(code) + 1 /\ Len(code) + 2 = 4 * ((Len(text) + 2) \div 3)
    <3>1. Len(text) = 3 * q + 2 /\ Len(code) = 4 * q + 2
      BY <2>2
    <3>2. Size(text) = 4 * q + 3 /\ (Len(text) + 2) \div 3 = q + 1
      BY <1>2, <3>1, Sizes, Zenon
    <3> QED
      BY <3>1, <3>2
  <2>4. Sextet(text, 4 * q + 3) = Third(text, q) /\ Third(text, q) \in 0 .. 63
    BY <1>2, Sextets
  <2>5. Third(text, q) = carry
    <3>1. Byte(text, 3 * q + 3) = 0 /\ Byte(text, 3 * q + 2) = text[3 * q + 2]
      BY <2>2 DEF Byte
    <3>2. text[3 * q + 2] \in Bytes
      BY <1>2, <2>2
    <3>3. Third(text, q) = 4 * (text[3 * q + 2] % 16) + 0 \div 64
      BY <3>1, Zenon DEF Third
    <3>4. \A b \in Bytes : 4 * (b % 16) + 0 \div 64 = 4 * (b % 16)
      BY DEF Bytes
    <3> QED
      BY <2>2, <3>2, <3>3, <3>4
  <2>6. x = EncodeValue(Sextet(text, Len(code) + 1)) /\ x \in Bytes
    <3>1. carry = Sextet(text, Len(code) + 1) /\ carry \in 0 .. 63
      BY <2>2, <2>4, <2>5
    <3> QED
      BY <3>1, Tables
  <2> HIDE DEF x
  <2>7. c \in Seq(Bytes) /\ Len(c) = 2 /\ c[1] = x /\ c[2] = Pad /\ 1 \in 0 .. Len(c)
    BY <2>6 DEF Pad, Bytes
  <2>8. \A i \in 1 .. 1 : c[i] = EncodeValue(Sextet(text, Len(code) + i))
    BY <2>6, <2>7
  <2> HIDE DEF c
  <2>9. Extended(text, code', code, c, 1)
    BY <1>2, <2>1, <2>7, <2>8, CharsJoined, Zenon
  <2>10. /\ code' \in Seq(Bytes) /\ Len(code') = Len(code) + 2
         /\ Chars(text, code', Len(code) + 1)
         /\ code'[Len(code) + 2] = Pad
    BY <2>7, <2>9 DEF Extended
  <2>11. CodeOf(text, code')
    BY <1>2, <2>3, <2>10 DEF CodeOf
  <2> QED
    BY <1>1, <1>2, <2>3, <2>10, <2>11 DEF EncodeInv
<1> QED
  BY <1>1, <1>4, <1>5, <1>6
-----------------------------------------------------------------------------
(* The digits of a byte.                                                   *)
LEMMA Digits ==
  ASSUME NEW b \in Bytes
  PROVE  /\ b \div 1 = b /\ b \div 128 \in Nat
         /\ (b \div 128) % 2 = b \div 128
         /\ (b \div 64) % 2 = b \div 64 - 2 * (b \div 128)
         /\ (b \div 32) % 2 = b \div 32 - 2 * (b \div 64)
         /\ (b \div 16) % 2 = b \div 16 - 2 * (b \div 32)
         /\ (b \div 8) % 2 = b \div 8 - 2 * (b \div 16)
         /\ (b \div 4) % 2 = b \div 4 - 2 * (b \div 8)
         /\ (b \div 2) % 2 = b \div 2 - 2 * (b \div 4)
         /\ b % 2 = b - 2 * (b \div 2)
         /\ b % 4 = b - 4 * (b \div 4)
         /\ b % 16 = b - 16 * (b \div 16)
         /\ b % 64 = b - 64 * (b \div 64)
<1>1. b \div 1 = b /\ b \div 128 \in Nat /\ (b \div 128) % 2 = b \div 128
  BY DEF Bytes
<1>2. (b \div 64) % 2 = b \div 64 - 2 * (b \div 128)
  BY DEF Bytes
<1>3. (b \div 32) % 2 = b \div 32 - 2 * (b \div 64)
  BY DEF Bytes
<1>4. (b \div 16) % 2 = b \div 16 - 2 * (b \div 32)
  BY DEF Bytes
<1>5. (b \div 8) % 2 = b \div 8 - 2 * (b \div 16)
  BY DEF Bytes
<1>6. (b \div 4) % 2 = b \div 4 - 2 * (b \div 8)
  BY DEF Bytes
<1>7. (b \div 2) % 2 = b \div 2 - 2 * (b \div 4)
  BY DEF Bytes
<1>8. b % 2 = b - 2 * (b \div 2)
  BY DEF Bytes
<1>9. /\ b % 4 = b - 4 * (b \div 4) /\ b % 16 = b - 16 * (b \div 16)
      /\ b % 64 = b - 64 * (b \div 64)
  BY DEF Bytes
<1> QED
  BY <1>1, <1>2, <1>3, <1>4, <1>5, <1>6, <1>7, <1>8, <1>9

Digit(b, w) == (b \div w) % 2
LiesAt(n, b, w) == n \in Nat /\ n \div 8 + 1 = b /\ Weights[(n % 8) + 1] = w
BitIs(t, n, b, w) == Bit(t, n) = Digit(Byte(t, b), w)

(* The n-th bit of the text is that of a weight in a byte.                 *)
LEMMA BitOf ==
  ASSUME NEW t \in Seq(Bytes), NEW n, NEW b, NEW w, LiesAt(n, b, w)
  PROVE  BitIs(t, n, b, w)
<1>1. n \div 8 \in Nat /\ n % 8 \in 0 .. 7 /\ Len(t) \in Nat /\ b = n \div 8 + 1
  BY DEF LiesAt
<1>2. w \in {1, 2, 4, 8, 16, 32, 64, 128}
  BY <1>1 DEF LiesAt, Weights
<1>3. CASE n \div 8 < Len(t)
  <2>1. Byte(t, b) = t[n \div 8 + 1]
    BY <1>1, <1>3 DEF Byte
  <2>2. Bit(t, n) = (t[n \div 8 + 1] \div w) % 2
    BY <1>3 DEF Bit, LiesAt
  <2> QED
    BY <2>1, <2>2 DEF BitIs, Digit
<1>4. CASE ~ (n \div 8 < Len(t))
  <2>1. ~ (b <= Len(t))
    BY <1>1, <1>4
  <2>2. Byte(t, b) = 0 /\ Bit(t, n) = 0
    BY <1>4, <2>1 DEF Bit, Byte
  <2>3. \A x \in {1, 2, 4, 8, 16, 32, 64, 128} : (0 \div x) % 2 = 0
    OBVIOUS
  <2> QED
    BY <1>2, <2>2, <2>3 DEF BitIs, Digit
<1> QED
  BY <1>3, <1>4

(* The 24 bits of a group.                                                 *)
LEMMA BitsOf ==
  ASSUME NEW t \in Seq(Bytes), NEW p \in Nat
  PROVE  /\ BitIs(t, 24 * p + 0, 3 * p + 1, 128) /\ BitIs(t, 24 * p + 1, 3 * p + 1, 64)
         /\ BitIs(t, 24 * p + 2, 3 * p + 1, 32) /\ BitIs(t, 24 * p + 3, 3 * p + 1, 16)
         /\ BitIs(t, 24 * p + 4, 3 * p + 1, 8) /\ BitIs(t, 24 * p + 5, 3 * p + 1, 4)
         /\ BitIs(t, 24 * p + 6, 3 * p + 1, 2) /\ BitIs(t, 24 * p + 7, 3 * p + 1, 1)
         /\ BitIs(t, 24 * p + 8, 3 * p + 2, 128) /\ BitIs(t, 24 * p + 9, 3 * p + 2, 64)
         /\ BitIs(t, 24 * p + 10, 3 * p + 2, 32) /\ BitIs(t, 24 * p + 11, 3 * p + 2, 16)
         /\ BitIs(t, 24 * p + 12, 3 * p + 2, 8) /\ BitIs(t, 24 * p + 13, 3 * p + 2, 4)
         /\ BitIs(t, 24 * p + 14, 3 * p + 2, 2) /\ BitIs(t, 24 * p + 15, 3 * p + 2, 1)
         /\ BitIs(t, 24 * p + 16, 3 * p + 3, 128) /\ BitIs(t, 24 * p + 17, 3 * p + 3, 64)
         /\ BitIs(t, 24 * p + 18, 3 * p + 3, 32) /\ BitIs(t, 24 * p + 19, 3 * p + 3, 16)
         /\ BitIs(t, 24 * p + 20, 3 * p + 3, 8) /\ BitIs(t, 24 * p + 21, 3 * p + 3, 4)
         /\ BitIs(t, 24 * p + 22, 3 * p + 3, 2) /\ BitIs(t, 24 * p + 23, 3 * p + 3, 1)
<1>1. Weights[1] = 128 /\ Weights[2] = 64 /\ Weights[3] = 32 /\ Weights[4] = 16
      /\ Weights[5] = 8 /\ Weights[6] = 4 /\ Weights[7] = 2 /\ Weights[8] = 1
  BY DEF Weights
<1>2. /\ LiesAt(24 * p + 0, 3 * p + 1, 128) /\ LiesAt(24 * p + 1, 3 * p + 1, 64)
      /\ LiesAt(24 * p + 2, 3 * p + 1, 32) /\ LiesAt(24 * p + 3, 3 * p + 1, 16)
      /\ LiesAt(24 * p + 4, 3 * p + 1, 8) /\ LiesAt(24 * p + 5, 3 * p + 1, 4)
      /\ LiesAt(24 * p + 6, 3 * p + 1, 2) /\ LiesAt(24 * p + 7, 3 * p + 1, 1)
  <2>1. /\ (24 * p + 0) \div 8 + 1 = 3 * p + 1 /\ ((24 * p + 0) % 8) + 1 = 1
        /\ (24 * p + 1) \div 8 + 1 = 3 * p + 1 /\ ((24 * p + 1) % 8) + 1 = 2
        /\ (24 * p + 2) \div 8 + 1 = 3 * p + 1 /\ ((24 * p + 2) % 8) + 1 = 3
        /\ (24 * p + 3) \div 8 + 1 = 3 * p + 1 /\ ((24 * p + 3) % 8) + 1 = 4
        /\ (24 * p + 4) \div 8 + 1 = 3 * p + 1 /\ ((24 * p + 4) % 8) + 1 = 5
        /\ (24 * p + 5) \div 8 + 1 = 3 * p + 1 /\ ((24 * p + 5) % 8) + 1 = 6
        /\ (24 * p + 6) \div 8 + 1 = 3 * p + 1 /\ ((24 * p + 6) % 8) + 1 = 7
        /\ (24 * p + 7) \div 8 + 1 = 3 * p + 1 /\ ((24 * p + 7) % 8) + 1 = 8
    OBVIOUS
  <2> QED
    BY <1>1, <2>1 DEF LiesAt
<1>3. /\ LiesAt(24 * p + 8, 3 * p + 2, 128) /\ LiesAt(24 * p + 9, 3 * p + 2, 64)
      /\ LiesAt(24 * p + 10, 3 * p + 2, 32) /\ LiesAt(24 * p + 11, 3 * p + 2, 16)
      /\ LiesAt(24 * p + 12, 3 * p + 2, 8) /\ LiesAt(24 * p + 13, 3 * p + 2, 4)
      /\ LiesAt(24 * p + 14, 3 * p + 2, 2) /\ LiesAt(24 * p + 15, 3 * p + 2, 1)
  <2>1. /\ (24 * p + 8) \div 8 + 1 = 3 * p + 2 /\ ((24 * p + 8) % 8) + 1 = 1
        /\ (24 * p + 9) \div 8 + 1 = 3 * p + 2 /\ ((24 * p + 9) % 8) + 1 = 2
        /\ (24 * p + 10) \div 8 + 1 = 3 * p + 2 /\ ((24 * p + 10) % 8) + 1 = 3
        /\ (24 * p + 11) \div 8 + 1 = 3 * p + 2 /\ ((24 * p + 11) % 8) + 1 = 4
        /\ (24 * p + 12) \div 8 + 1 = 3 * p + 2 /\ ((24 * p + 12) % 8) + 1 = 5
        /\ (24 * p + 13) \div 8 + 1 = 3 * p + 2 /\ ((24 * p + 13) % 8) + 1 = 6
        /\ (24 * p + 14) \div 8 + 1 = 3 * p + 2 /\ ((24 * p + 14) % 8) + 1 = 7
        /\ (24 * p + 15) \div 8 + 1 = 3 * p + 2 /\ ((24 * p + 15) % 8) + 1 = 8
    OBVIOUS
  <2> QED
    BY <1>1, <2>1 DEF LiesAt
<1>4. /\ LiesAt(24 * p + 16, 3 * p + 3, 128) /\ LiesAt(24 * p + 17, 3 * p + 3, 64)
      /\ LiesAt(24 * p + 18, 3 * p + 3, 32) /\ LiesAt(24 * p + 19, 3 * p + 3, 16)
      /\ LiesAt(24 * p + 20, 3 * p + 3, 8) /\ LiesAt(24 * p + 21, 3 * p + 3, 4)
      /\ LiesAt(24 * p + 22, 3 * p + 3, 2) /\ LiesAt(24 * p + 23, 3 * p + 3, 1)
  <2>1. /\ (24 * p + 16) \div 8 + 1 = 3 * p + 3 /\ ((24 * p + 16) % 8) + 1 = 1
        /\ (24 * p + 17) \div 8 + 1 = 3 * p + 3 /\ ((24 * p + 17) % 8) + 1 = 2
        /\ (24 * p + 18) \div 8 + 1 = 3 * p + 3 /\ ((24 * p + 18) % 8) + 1 = 3
        /\ (24 * p + 19) \div 8 + 1 = 3 * p + 3 /\ ((24 * p + 19) % 8) + 1 = 4
        /\ (24 * p + 20) \div 8 + 1 = 3 * p + 3 /\ ((24 * p + 20) % 8) + 1 = 5
        /\ (24 * p + 21) \div 8 + 1 = 3 * p + 3 /\ ((24 * p + 21) % 8) + 1 = 6
        /\ (24 * p + 22) \div 8 + 1 = 3 * p + 3 /\ ((24 * p + 22) % 8) + 1 = 7
        /\ (24 * p + 23) \div 8 + 1 = 3 * p + 3 /\ ((24 * p + 23) % 8) + 1 = 8
    OBVIOUS
  <2> QED
    BY <1>1, <2>1 DEF LiesAt
<1> QED
  BY <1>2, <1>3, <1>4, BitOf, Zenon

(* The digits of a byte, put together again.                               *)
LEMMA DigitSums ==
  ASSUME NEW b \in Bytes
  PROVE  /\ Digit(b, 128) \in Int /\ Digit(b, 64) \in Int /\ Digit(b, 32) \in Int
         /\ Digit(b, 16) \in Int /\ Digit(b, 8) \in Int /\ Digit(b, 4) \in Int
         /\ Digit(b, 2) \in Int /\ Digit(b, 1) \in Int
         /\ b \div 4 = 32 * Digit(b, 128) + 16 * Digit(b, 64) + 8 * Digit(b, 32)
                         + 4 * Digit(b, 16) + 2 * Digit(b, 8) + Digit(b, 4)
         /\ b % 4 = 2 * Digit(b, 2) + Digit(b, 1)
         /\ b \div 16 = 8 * Digit(b, 128) + 4 * Digit(b, 64) + 2 * Digit(b, 32) + Digit(b, 16)
         /\ b % 16 = 8 * Digit(b, 8) + 4 * Digit(b, 4) + 2 * Digit(b, 2) + Digit(b, 1)
         /\ b \div 64 = 2 * Digit(b, 128) + Digit(b, 64)
         /\ b % 64 = 32 * Digit(b, 32) + 16 * Digit(b, 16) + 8 * Digit(b, 8)
                      + 4 * Digit(b, 4) + 2 * Digit(b, 2) + Digit(b, 1)
<1> DEFINE a1 == b \div 128
           a2 == b \div 64
           a3 == b \div 32
           a4 == b \div 16
           a5 == b \div 8
           a6 == b \div 4
           a7 == b \div 2
<1>1. /\ a1 \in Int /\ a2 \in Int /\ a3 \in Int /\ a4 \in Int /\ a5 \in Int /\ a6 \in Int
      /\ a7 \in Int /\ b \in Int
  BY DEF Bytes
<1>2. /\ Digit(b, 128) = a1 /\ Digit(b, 64) = a2 - 2 * a1 /\ Digit(b, 32) = a3 - 2 * a2
      /\ Digit(b, 16) = a4 - 2 * a3 /\ Digit(b, 8) = a5 - 2 * a4
      /\ Digit(b, 4) = a6 - 2 * a5 /\ Digit(b, 2) = a7 - 2 * a6 /\ Digit(b, 1) = b - 2 * a7
  <2>1. /\ Digit(b, 128) = a1 /\ Digit(b, 64) = a2 - 2 * a1 /\ Digit(b, 32) = a3 - 2 * a2
    BY Digits DEF Digit
  <2>2. Digit(b, 16) = a4 - 2 * a3 /\ Digit(b, 8) = a5 - 2 * a4 /\ Digit(b, 4) = a6 - 2 * a5
    BY Digits DEF Digit
  <2>3. Digit(b, 2) = a7 - 2 * a6
    BY Digits DEF Digit
  <2>4. Digit(b, 1) = b - 2 * a7
    <3>1. b \div 1 = b /\ b % 2 = b - 2 * a7
      BY Digits
    <3> QED
      BY <3>1 DEF Digit
  <2> QED
    BY <2>1, <2>2, <2>3, <2>4, Zenon
<1>3. b % 4 = b - 4 * a6 /\ b % 16 = b - 16 * a4 /\ b % 64 = b - 64 * a2
  BY Digits, Zenon
<1>4. b \div 4 = a6 /\ b \div 16 = a4 /\ b \div 64 = a2
  OBVIOUS
<1> DEFINE b4 == b % 4
           b16 == b % 16
           b64 == b % 64
           c4 == b \div 4
           c16 == b \div 16
           c64 == b \div 64
<1> HIDE DEF a1, a2, a3, a4, a5, a6, a7, b4, b16, b64, c4, c16, c64
<1>5. /\ b4 = b - 4 * a6 /\ b16 = b - 16 * a4 /\ b64 = b - 64 * a2
      /\ c4 = a6 /\ c16 = a4 /\ c64 = a2
  BY <1>3, <1>4 DEF b4, b16, b64, c4, c16, c64
<1>6. /\ c4 = 32 * Digit(b, 128) + 16 * Digit(b, 64) + 8 * Digit(b, 32)
                + 4 * Digit(b, 16) + 2 * Digit(b, 8) + Digit(b, 4)
      /\ b4 = 2 * Digit(b, 2) + Digit(b, 1)
      /\ c16 = 8 * Digit(b, 128) + 4 * Digit(b, 64) + 2 * Digit(b, 32) + Digit(b, 16)
      /\ b16 = 8 * Digit(b, 8) + 4 * Digit(b, 4) + 2 * Digit(b, 2) + Digit(b, 1)
      /\ c64 = 2 * Digit(b, 128) + Digit(b, 64)
      /\ b64 = 32 * Digit(b, 32) + 16 * Digit(b, 16) + 8 * Digit(b, 8)
                + 4 * Digit(b, 4) + 2 * Digit(b, 2) + Digit(b, 1)
  BY <1>1, <1>2, <1>5
<1>7. /\ Digit(b, 128) \in Int /\ Digit(b, 64) \in Int /\ Digit(b, 32) \in Int
      /\ Digit(b, 16) \in Int /\ Digit(b, 8) \in Int /\ Digit(b, 4) \in Int
      /\ Digit(b, 2) \in Int /\ Digit(b, 1) \in Int
  BY <1>1, <1>2
<1> QED
  BY <1>6, <1>7, Zenon DEF b4, b16, b64, c4, c16, c64

(* Six bits of the text from the n-th on: group(n) of Standard.            *)
Six(t, n) == 32 * Bit(t, n) + 16 * Bit(t, n + 1) + 8 * Bit(t, n + 2)
               + 4 * Bit(t, n + 3) + 2 * Bit(t, n + 4) + Bit(t, n + 5)

(* The bits of the text, six by six, are what the characters stand for.    *)
LEMMA SixBits ==
  ASSUME NEW t \in Seq(Bytes), NEW p \in Nat
  PROVE  /\ Six(t, 24 * p + 0) = First(t, p) /\ Six(t, 24 * p + 6) = Second(t, p)
         /\ Six(t, 24 * p + 12) = Third(t, p) /\ Six(t, 24 * p + 18) = Fourth(t, p)
<1> DEFINE x == Byte(t, 3 * p + 1)
           y == Byte(t, 3 * p + 2)
           z == Byte(t, 3 * p + 3)
<1>1. x \in Bytes /\ y \in Bytes /\ z \in Bytes
  BY Sextets
<1>2. /\ First(t, p) = x \div 4 /\ Second(t, p) = 16 * (x % 4) + y \div 16
      /\ Third(t, p) = 4 * (y % 16) + z \div 64 /\ Fourth(t, p) = z % 64
  BY DEF First, Second, Third, Fourth
<1>3. /\ Bit(t, 24 * p + 0) = Digit(x, 128) /\ Bit(t, 24 * p + 1) = Digit(x, 64)
      /\ Bit(t, 24 * p + 2) = Digit(x, 32) /\ Bit(t, 24 * p + 3) = Digit(x, 16)
      /\ Bit(t, 24 * p + 4) = Digit(x, 8) /\ Bit(t, 24 * p + 5) = Digit(x, 4)
      /\ Bit(t, 24 * p + 6) = Digit(x, 2) /\ Bit(t, 24 * p + 7) = Digit(x, 1)
      /\ Bit(t, 24 * p + 8) = Digit(y, 128) /\ Bit(t, 24 * p + 9) = Digit(y, 64)
      /\ Bit(t, 24 * p + 10) = Digit(y, 32) /\ Bit(t, 24 * p + 11) = Digit(y, 16)
      /\ Bit(t, 24 * p + 12) = Digit(y, 8) /\ Bit(t, 24 * p + 13) = Digit(y, 4)
      /\ Bit(t, 24 * p + 14) = Digit(y, 2) /\ Bit(t, 24 * p + 15) = Digit(y, 1)
      /\ Bit(t, 24 * p + 16) = Digit(z, 128) /\ Bit(t, 24 * p + 17) = Digit(z, 64)
      /\ Bit(t, 24 * p + 18) = Digit(z, 32) /\ Bit(t, 24 * p + 19) = Digit(z, 16)
      /\ Bit(t, 24 * p + 20) = Digit(z, 8) /\ Bit(t, 24 * p + 21) = Digit(z, 4)
      /\ Bit(t, 24 * p + 22) = Digit(z, 2) /\ Bit(t, 24 * p + 23) = Digit(z, 1)
  BY BitsOf, Zenon DEF BitIs
<1> HIDE DEF x, y, z
<1>4. First(t, p) = 32 * Digit(x, 128) + 16 * Digit(x, 64) + 8 * Digit(x, 32)
                      + 4 * Digit(x, 16) + 2 * Digit(x, 8) + Digit(x, 4)
  BY <1>1, <1>2, DigitSums, Zenon
<1>5. Second(t, p) = 32 * Digit(x, 2) + 16 * Digit(x, 1) + 8 * Digit(y, 128)
                      + 4 * Digit(y, 64) + 2 * Digit(y, 32) + Digit(y, 16)
  <2>1. /\ Second(t, p) = 16 * (x % 4) + y \div 16
        /\ x % 4 = 2 * Digit(x, 2) + Digit(x, 1)
        /\ y \div 16 = 8 * Digit(y, 128) + 4 * Digit(y, 64) + 2 * Digit(y, 32) + Digit(y, 16)
    BY <1>1, <1>2, DigitSums, Zenon
  <2>2. Second(t, p) = 16 * (2 * Digit(x, 2) + Digit(x, 1))
                         + (8 * Digit(y, 128) + 4 * Digit(y, 64) + 2 * Digit(y, 32) + Digit(y, 16))
    BY <2>1, Zenon
  <2>3. /\ Digit(x, 2) \in Int /\ Digit(x, 1) \in Int /\ Digit(y, 128) \in Int
        /\ Digit(y, 64) \in Int /\ Digit(y, 32) \in Int /\ Digit(y, 16) \in Int
    BY <1>1, DigitSums
  <2> DEFINE i == Digit(x, 2)
             j == Digit(x, 1)
             k == Digit(y, 128)
             l == Digit(y, 64)
             m == Digit(y, 32)
             n == Digit(y, 16)
  <2>4. /\ i \in Int /\ j \in Int /\ k \in Int /\ l \in Int /\ m \in Int /\ n \in Int
        /\ Second(t, p) = 16 * (2 * i + j) + (8 * k + 4 * l + 2 * m + n)
    BY <2>2, <2>3
  <2> HIDE DEF i, j, k, l, m, n
  <2>5. Second(t, p) = 32 * i + 16 * j + 8 * k + 4 * l + 2 * m + n
    BY <2>4
  <2> QED
    BY <2>5 DEF i, j, k, l, m, n
<1>6. Third(t, p) = 32 * Digit(y, 8) + 16 * Digit(y, 4) + 8 * Digit(y, 2)
                      + 4 * Digit(y, 1) + 2 * Digit(z, 128) + Digit(z, 64)
  <2>1. /\ Third(t, p) = 4 * (y % 16) + z \div 64
        /\ y % 16 = 8 * Digit(y, 8) + 4 * Digit(y, 4) + 2 * Digit(y, 2) + Digit(y, 1)
        /\ z \div 64 = 2 * Digit(z, 128) + Digit(z, 64)
    BY <1>1, <1>2, DigitSums, Zenon
  <2>2. Third(t, p) = 4 * (8 * Digit(y, 8) + 4 * Digit(y, 4) + 2 * Digit(y, 2) + Digit(y, 1))
                        + (2 * Digit(z, 128) + Digit(z, 64))
    BY <2>1, Zenon
  <2>3. /\ Digit(y, 8) \in Int /\ Digit(y, 4) \in Int /\ Digit(y, 2) \in Int
        /\ Digit(y, 1) \in Int /\ Digit(z, 128) \in Int /\ Digit(z, 64) \in Int
    BY <1>1, DigitSums
  <2> DEFINE i == Digit(y, 8)
             j == Digit(y, 4)
             k == Digit(y, 2)
             l == Digit(y, 1)
             m == Digit(z, 128)
             n == Digit(z, 64)
  <2>4. /\ i \in Int /\ j \in Int /\ k \in Int /\ l \in Int /\ m \in Int /\ n \in Int
        /\ Third(t, p) = 4 * (8 * i + 4 * j + 2 * k + l) + (2 * m + n)
    BY <2>2, <2>3
  <2> HIDE DEF i, j, k, l, m, n
  <2>5. Third(t, p) = 32 * i + 16 * j + 8 * k + 4 * l + 2 * m + n
    BY <2>4
  <2> QED
    BY <2>5 DEF i, j, k, l, m, n
<1>7. Fourth(t, p) = 32 * Digit(z, 32) + 16 * Digit(z, 16) + 8 * Digit(z, 8)
                      + 4 * Digit(z, 4) + 2 * Digit(z, 2) + Digit(z, 1)
  BY <1>1, <1>2, DigitSums, Zenon
<1>8. /\ (24 * p + 0) + 1 = 24 * p + 1 /\ (24 * p + 0) + 2 = 24 * p + 2
      /\ (24 * p + 0) + 3 = 24 * p + 3 /\ (24 * p + 0) + 4 = 24 * p + 4
      /\ (24 * p + 0) + 5 = 24 * p + 5 /\ (24 * p + 6) + 1 = 24 * p + 7
      /\ (24 * p + 6) + 2 = 24 * p + 8 /\ (24 * p + 6) + 3 = 24 * p + 9
      /\ (24 * p + 6) + 4 = 24 * p + 10 /\ (24 * p + 6) + 5 = 24 * p + 11
      /\ (24 * p + 12) + 1 = 24 * p + 13 /\ (24 * p + 12) + 2 = 24 * p + 14
      /\ (24 * p + 12) + 3 = 24 * p + 15 /\ (24 * p + 12) + 4 = 24 * p + 16
      /\ (24 * p + 12) + 5 = 24 * p + 17 /\ (24 * p + 18) + 1 = 24 * p + 19
      /\ (24 * p + 18) + 2 = 24 * p + 20 /\ (24 * p + 18) + 3 = 24 * p + 21
      /\ (24 * p + 18) + 4 = 24 * p + 22 /\ (24 * p + 18) + 5 = 24 * p + 23
  OBVIOUS
<1>9. Six(t, 24 * p + 0) = First(t, p)
  BY <1>3, <1>4, <1>8 DEF Six
<1>10. Six(t, 24 * p + 6) = Second(t, p)
  BY <1>3, <1>5, <1>8 DEF Six
<1>11. Six(t, 24 * p + 12) = Third(t, p)
  BY <1>3, <1>6, <1>8 DEF Six
<1>12. Six(t, 24 * p + 18) = Fourth(t, p)
  BY <1>3, <1>7, <1>8 DEF Six
<1> QED
  BY <1>9, <1>10, <1>11, <1>12

(* So at every position of the code.                                       *)
LEMMA SixAt ==
  ASSUME NEW t \in Seq(Bytes), NEW j \in Nat \ {0}
  PROVE  Six(t, 6 * (j - 1)) = Sextet(t, j)
<1>1. PICK p \in Nat : j = 4 * p + 1 \/ j = 4 * p + 2 \/ j = 4 * p + 3 \/ j = 4 * p + 4
  BY Positions
<1>2. /\ Sextet(t, 4 * p + 1) = First(t, p)  /\ Sextet(t, 4 * p + 2) = Second(t, p)
      /\ Sextet(t, 4 * p + 3) = Third(t, p) /\ Sextet(t, 4 * p + 4) = Fourth(t, p)
  BY Sextets
<1>3. /\ Six(t, 24 * p + 0) = First(t, p) /\ Six(t, 24 * p + 6) = Second(t, p)
      /\ Six(t, 24 * p + 12) = Third(t, p) /\ Six(t, 24 * p + 18) = Fourth(t, p)
  BY SixBits
<1>4. /\ 6 * ((4 * p + 1) - 1) = 24 * p + 0 /\ 6 * ((4 * p + 2) - 1) = 24 * p + 6
      /\ 6 * ((4 * p + 3) - 1) = 24 * p + 12 /\ 6 * ((4 * p + 4) - 1) = 24 * p + 18
  OBVIOUS
<1> QED
  BY <1>1, <1>2, <1>3, <1>4, Zenon

(* Six bits of which one is the text's: the characters of Size.            *)
LEMMA SizeSplits ==
  ASSUME NEW t \in Seq(Bytes), NEW j \in Nat \ {0}
  PROVE  6 * (j - 1) < 8 * Len(t) <=> j <= Size(t)
<1>1. PICK q \in Nat : \/ Len(t) = 3 * q /\ Size(t) = 4 * q
                       \/ Len(t) = 3 * q + 1 /\ Size(t) = 4 * q + 2
                       \/ Len(t) = 3 * q + 2 /\ Size(t) = 4 * q + 3
  BY SizeBelow
<1> QED
  BY <1>1

(* What the machine has written is the standard code.                      *)
LEMMA StandardWritten == EncodeInv => StandardCode
<1> SUFFICES ASSUME EncodeInv, step = "encoded" PROVE code = Standard(text)
  BY DEF StandardCode
<1> DEFINE N == 4 * ((Len(text) + 2) \div 3)
           S == Standard(text)
<1>1. /\ text \in Seq(Bytes) /\ code \in Seq(Bytes) /\ Len(code) = N
      /\ CodeOf(text, code)
  BY DEF EncodeInv
<1>2. S = [j \in 1 .. N |->
             IF 6 * (j - 1) < 8 * Len(text) THEN EncodeValue(Six(text, 6 * (j - 1))) ELSE Pad]
  BY Zenon DEF Standard, Six
<1>3. DOMAIN S = 1 .. N
  BY <1>2
<1>4. code = [j \in 1 .. N |-> code[j]]
  BY <1>1
<1>5. N \in Nat /\ Size(text) \in Nat
  BY <1>1, SizeBelow
<1> HIDE DEF N
<1>6. ASSUME NEW j \in 1 .. N
      PROVE  code[j] = IF 6 * (j - 1) < 8 * Len(text) THEN EncodeValue(Six(text, 6 * (j - 1))) ELSE Pad
  <2>1. j \in Nat \ {0}
    BY <1>5
  <2>2. Six(text, 6 * (j - 1)) = Sextet(text, j)
    BY <1>1, <2>1, SixAt
  <2>3. 6 * (j - 1) < 8 * Len(text) <=> j <= Size(text)
    BY <1>1, <2>1, SizeSplits
  <2>4. CASE j <= Size(text)
    <3>1. j \in 1 .. Size(text)
      BY <1>5, <2>1, <2>4
    <3>2. code[j] = EncodeValue(Sextet(text, j))
      BY <1>1, <3>1, Zenon DEF CodeOf, Chars
    <3> QED
      BY <2>2, <2>3, <2>4, <3>2, Zenon
  <2>5. CASE ~ (j <= Size(text))
    <3>1. j \in Size(text) + 1 .. Len(code)
      BY <1>1, <1>5, <2>1, <2>5
    <3>2. code[j] = Pad
      BY <1>1, <3>1, Zenon DEF CodeOf
    <3> QED
      BY <2>3, <2>5, <3>2, Zenon
  <2> QED
    BY <2>4, <2>5
<1>7. code = [j \in 1 .. N |->
               IF 6 * (j - 1) < 8 * Len(text) THEN EncodeValue(Six(text, 6 * (j - 1))) ELSE Pad]
  BY <1>4, <1>6, Zenon
<1> QED
  BY <1>2, <1>7, Zenon
-----------------------------------------------------------------------------
Inserted(v, s, n, x) ==
  /\ v \in Seq(Bytes) /\ Len(v) = Len(s) + 1 /\ Len(s) \in Nat /\ v[n] = x
  /\ \A i \in 1 .. n - 1 : v[i] = s[i]
  /\ \A i \in n .. Len(s) : v[i + 1] = s[i]

(* A character in between moves those behind it by one.                    *)
LEMMA InsertInserts ==
  ASSUME NEW s \in Seq(Bytes), NEW n \in 1 .. Len(s) + 1, NEW x \in Bytes
  PROVE  Inserted(InsertAt(s, n, x), s, n, x)
<1> DEFINE l == SubSeq(s, 1, n - 1)
           r == SubSeq(s, n, Len(s))
           c == <<x>>
           w == l \o c
           v == InsertAt(s, n, x)
<1>1. Len(s) \in Nat /\ n \in Nat \ {0} /\ n <= Len(s) + 1
  OBVIOUS
<1>2. l \in Seq(Bytes) /\ Len(l) = n - 1 /\ \A i \in 1 .. n - 1 : l[i] = s[i]
  <2>1. l \in Seq(Bytes) /\ Len(l) = IF 1 <= n - 1 THEN (n - 1) - 1 + 1 ELSE 0
    BY <1>1, SubSeqProperties
  <2>2. \A i \in 1 .. n - 1 : l[i] = s[1 + i - 1]
    BY <1>1, SubSeqProperties
  <2> QED
    BY <1>1, <2>1, <2>2
<1>3. r \in Seq(Bytes) /\ Len(r) = Len(s) + 1 - n /\ \A i \in 1 .. Len(s) + 1 - n : r[i] = s[n + i - 1]
  <2>1. r \in Seq(Bytes) /\ Len(r) = IF n <= Len(s) THEN Len(s) - n + 1 ELSE 0
    BY <1>1, SubSeqProperties
  <2>2. \A i \in 1 .. Len(s) - n + 1 : r[i] = s[n + i - 1]
    BY <1>1, SubSeqProperties
  <2> QED
    BY <1>1, <2>1, <2>2
<1>4. c \in Seq(Bytes) /\ Len(c) = 1 /\ c[1] = x
  OBVIOUS
<1>5. Joins(w, l, c) /\ Joins(v, w, r)
  BY Zenon DEF Joins, InsertAt
<1> HIDE DEF l, r, c, w, v
<1>6. /\ w \in Seq(Bytes) /\ Len(w) = Len(l) + Len(c)
      /\ \A i \in 1 .. Len(l) : w[i] = l[i]
      /\ \A i \in 1 .. Len(c) : w[Len(l) + i] = c[i]
  <2>1. l \in Seq(Bytes) /\ c \in Seq(Bytes) /\ Joins(w, l, c)
    BY <1>2, <1>4, <1>5
  <2> QED
    BY <2>1, Joined
<1>7. /\ v \in Seq(Bytes) /\ Len(v) = Len(w) + Len(r)
      /\ \A i \in 1 .. Len(w) : v[i] = w[i]
      /\ \A i \in 1 .. Len(r) : v[Len(w) + i] = r[i]
  <2>1. w \in Seq(Bytes) /\ r \in Seq(Bytes) /\ Joins(v, w, r)
    BY <1>3, <1>5, <1>6
  <2> QED
    BY <2>1, Joined
<1>8. Len(w) = n /\ Len(v) = Len(s) + 1
  <2>1. Len(w) = n
    BY <1>1, <1>2, <1>4, <1>6
  <2> QED
    BY <1>1, <1>3, <1>7, <2>1
<1>9. ASSUME NEW i \in 1 .. n - 1 PROVE v[i] = s[i]
  <2>1. i \in 1 .. Len(l) /\ i \in 1 .. Len(w)
    BY <1>1, <1>2, <1>8
  <2> QED
    BY <1>2, <1>6, <1>7, <2>1, Zenon
<1>10. v[n] = x
  <2>1. n \in 1 .. Len(w) /\ 1 \in 1 .. Len(c) /\ Len(l) + 1 = n
    BY <1>1, <1>2, <1>4, <1>8
  <2>2. v[n] = w[n] /\ w[Len(l) + 1] = c[1]
    BY <1>6, <1>7, <2>1, Zenon
  <2> QED
    BY <1>4, <2>1, <2>2
<1>11. ASSUME NEW i \in n .. Len(s) PROVE v[i + 1] = s[i]
  <2> DEFINE j == i + 1 - n
  <2>1. j \in 1 .. Len(r) /\ j \in 1 .. Len(s) + 1 - n /\ Len(w) + j = i + 1 /\ n + j - 1 = i
    BY <1>1, <1>3, <1>8
  <2> HIDE DEF j
  <2>2. v[Len(w) + j] = r[j] /\ r[j] = s[n + j - 1]
    BY <1>3, <1>7, <2>1, Zenon
  <2> QED
    BY <2>1, <2>2
<1> QED
  BY <1>1, <1>7, <1>8, <1>9, <1>10, <1>11, Zenon DEF Inserted, v

(* In the code alone, the characters are where they are.                   *)
LEMMA CodePlaces ==
  ASSUME NEW t \in Seq(Bytes), NEW s, CodeOf(t, s)
  PROVE  \E f : Places(t, s, f)
<1> DEFINE Z == Size(t)
           f == [j \in 1 .. Z |-> j]
<1>1. Z \in Nat /\ Z <= Len(s) /\ Len(s) \in Nat /\ s \in Seq(Bytes)
  BY SizeBelow DEF CodeOf
<1>2. /\ \A j \in 1 .. Z : s[j] = EncodeValue(Sextet(t, j))
      /\ \A i \in Z + 1 .. Len(s) : s[i] = Pad
  BY Zenon DEF CodeOf, Chars
<1> HIDE DEF Z
<1>3. f \in [1 .. Z -> 1 .. Len(s)] /\ \A i, j \in 1 .. Z : i < j => f[i] < f[j]
  BY <1>1
<1>4. \A j \in 1 .. Z : f[j] = j
  OBVIOUS
<1> HIDE DEF f
<1>5. \A j \in 1 .. Z : s[f[j]] = EncodeValue(Sextet(t, j))
  BY <1>2, <1>4, Zenon
<1>6. ASSUME NEW i \in 1 .. Len(s), \A j \in 1 .. Z : f[j] # i
      PROVE  DecodeValue(s[i]) < 0
  <2>1. i \notin 1 .. Z
    BY <1>4, <1>6, Zenon
  <2>2. i \in Z + 1 .. Len(s)
    BY <1>1, <2>1
  <2>3. s[i] = Pad
    BY <1>2, <2>2
  <2> QED
    BY <2>3 DEF DecodeValue, Pad
<1>7. Places(t, s, f)
  BY <1>3, <1>5, <1>6, Zenon DEF Places, Z
<1> QED
  BY <1>7

(* With a character in between, those behind it have moved.                *)
LEMMA InsertPlaces ==
  ASSUME NEW t \in Seq(Bytes), NEW s, CodeOf(t, s),
         NEW n \in 1 .. Len(s) + 1, NEW x \in Bytes, DecodeValue(x) = -1,
         NEW v, Inserted(v, s, n, x)
  PROVE  \E f : Places(t, v, f)
<1> DEFINE Z == Size(t)
           f == [j \in 1 .. Z |-> IF j < n THEN j ELSE j + 1]
<1>1. /\ Z \in Nat /\ Z <= Len(s) /\ Len(s) \in Nat /\ n \in Nat \ {0} /\ n <= Len(s) + 1
      /\ Len(v) = Len(s) + 1
  BY SizeBelow DEF CodeOf, Inserted
<1>2. /\ \A j \in 1 .. Z : s[j] = EncodeValue(Sextet(t, j))
      /\ \A i \in Z + 1 .. Len(s) : s[i] = Pad
  BY Zenon DEF CodeOf, Chars
<1>3. /\ v[n] = x
      /\ \A i \in 1 .. n - 1 : v[i] = s[i]
      /\ \A i \in n .. Len(s) : v[i + 1] = s[i]
  BY Zenon DEF Inserted
<1> HIDE DEF Z
<1>4. f \in [1 .. Z -> 1 .. Len(v)] /\ \A i, j \in 1 .. Z : i < j => f[i] < f[j]
  BY <1>1
<1>5. \A j \in 1 .. Z : f[j] = IF j < n THEN j ELSE j + 1
  OBVIOUS
<1> HIDE DEF f
<1>6. ASSUME NEW j \in 1 .. Z
      PROVE  v[f[j]] = EncodeValue(Sextet(t, j))
  <2>1. CASE j < n
    <3>1. f[j] = j /\ j \in 1 .. n - 1
      BY <1>1, <1>5, <2>1
    <3> QED
      BY <1>2, <1>3, <3>1, Zenon
  <2>2. CASE ~ (j < n)
    <3>1. f[j] = j + 1 /\ j \in n .. Len(s)
      BY <1>1, <1>5, <2>2
    <3> QED
      BY <1>2, <1>3, <3>1, Zenon
  <2> QED
    BY <2>1, <2>2
<1>7. ASSUME NEW i \in 1 .. Len(v), \A j \in 1 .. Z : f[j] # i
      PROVE  DecodeValue(v[i]) < 0
  <2>1. CASE i < n
    <3>1. i \notin 1 .. Z
      BY <1>5, <1>7, <2>1, Zenon
    <3>2. i \in Z + 1 .. Len(s) /\ i \in 1 .. n - 1
      BY <1>1, <2>1, <3>1
    <3>3. v[i] = Pad
      BY <1>2, <1>3, <3>2, Zenon
    <3> QED
      BY <3>3 DEF DecodeValue, Pad
  <2>2. CASE i = n
    BY <1>3, <2>2
  <2>3. CASE i > n
    <3> DEFINE j == i - 1
    <3>1. i = j + 1 /\ ~ (j < n) /\ j \in n .. Len(s)
      BY <1>1, <2>3
    <3>2. j \in Nat
      BY <1>1, <2>3
    <3> HIDE DEF j
    <3>3. j \notin 1 .. Z
      BY <1>5, <1>7, <3>1, Zenon
    <3>4. j \in Z + 1 .. Len(s)
      BY <1>1, <3>1, <3>2, <3>3
    <3>5. v[i] = Pad
      BY <1>2, <1>3, <3>1, <3>4, Zenon
    <3> QED
      BY <3>5 DEF DecodeValue, Pad
  <2> QED
    BY <1>1, <2>1, <2>2, <2>3
<1>8. Places(t, v, f)
  BY <1>4, <1>6, <1>7, Zenon DEF Places, Z
<1> QED
  BY <1>8

(* What comes between, and other padding, leave the characters in place.   *)
LEMMA VariantPlaces ==
  ASSUME text \in Seq(Bytes), NEW s, CodeOf(text, s), NEW v \in Variants(s)
  PROVE  v \in Seq(Bytes) /\ \E f : Places(text, v, f)
<1> DEFINE bare == SubSeq(s, 1, Size(text))
           more == Append(s, Pad)
<1>1. Size(text) \in Nat /\ Size(text) <= Len(s) /\ s \in Seq(Bytes) /\ Len(s) \in Nat
  BY SizeBelow DEF CodeOf
<1>2. CodeOf(text, bare)
  <2>1. bare \in Seq(Bytes) /\ Len(bare) = IF 1 <= Size(text) THEN Size(text) - 1 + 1 ELSE 0
    BY <1>1, SubSeqProperties
  <2>2. \A i \in 1 .. Size(text) : bare[i] = s[1 + i - 1]
    BY <1>1, SubSeqProperties
  <2> HIDE DEF bare
  <2>3. Len(bare) = Size(text)
    BY <1>1, <2>1
  <2>4. \A i \in 1 .. Size(text) : bare[i] = s[i]
    BY <1>1, <2>2
  <2>5. Chars(text, bare, Size(text))
    BY <2>4, Zenon DEF CodeOf, Chars
  <2>6. \A i \in Size(text) + 1 .. Len(bare) : bare[i] = Pad
    BY <1>1, <2>3
  <2>7. Size(text) <= Len(bare)
    BY <1>1, <2>3
  <2> QED
    BY <2>1, <2>5, <2>6, <2>7, Zenon DEF CodeOf
<1>3. CodeOf(text, more)
  <2>1. Pad \in Bytes
    BY DEF Pad, Bytes
  <2>2. /\ more \in Seq(Bytes) /\ Len(more) = Len(s) + 1
        /\ \A i \in 1 .. Len(s) : more[i] = s[i]
        /\ more[Len(s) + 1] = Pad
    BY <1>1, <2>1, AppendProperties
  <2> HIDE DEF more
  <2>3. \A i \in 1 .. Size(text) : i \in 1 .. Len(s)
    BY <1>1
  <2>4. Chars(text, more, Size(text))
    BY <2>2, <2>3, Zenon DEF CodeOf, Chars
  <2>5. \A i \in Size(text) + 1 .. Len(more) : more[i] = Pad
    BY <1>1, <2>2 DEF CodeOf
  <2> QED
    BY <1>1, <2>2, <2>4, <2>5 DEF CodeOf
<1>4. ASSUME NEW c, CodeOf(text, c), NEW n \in 1 .. Len(c) + 1, NEW x \in Foreign
      PROVE  InsertAt(c, n, x) \in Seq(Bytes) /\ \E f : Places(text, InsertAt(c, n, x), f)
  <2>1. x \in Bytes /\ DecodeValue(x) = -1 /\ c \in Seq(Bytes)
    BY <1>4, Base64Assumption, Zenon DEF Bytes, CodeOf
  <2>2. Inserted(InsertAt(c, n, x), c, n, x)
    BY <2>1, InsertInserts
  <2> QED
    BY <1>4, <2>1, <2>2, InsertPlaces, Zenon DEF Inserted
<1>5. \/ v = s \/ v = bare \/ v = more
      \/ \E n \in 1 .. Len(s) + 1, x \in Foreign : v = InsertAt(s, n, x)
      \/ \E n \in 1 .. Len(bare) + 1, x \in Foreign : v = InsertAt(bare, n, x)
  <2> DEFINE A == {InsertAt(s, n, x) : n \in 1 .. Len(s) + 1, x \in Foreign}
             B == {InsertAt(bare, n, x) : n \in 1 .. Len(bare) + 1, x \in Foreign}
  <2>1. v \in {s, bare, more} \cup A \cup B
    BY DEF Variants, Size
  <2> HIDE DEF bare, more
  <2>2. v \in A => \E n \in 1 .. Len(s) + 1, x \in Foreign : v = InsertAt(s, n, x)
    OBVIOUS
  <2>3. v \in B => \E n \in 1 .. Len(bare) + 1, x \in Foreign : v = InsertAt(bare, n, x)
    OBVIOUS
  <2> HIDE DEF A, B
  <2> QED
    BY <2>1, <2>2, <2>3
<1> HIDE DEF bare, more
<1>6. ASSUME NEW c, CodeOf(text, c) PROVE c \in Seq(Bytes) /\ \E f : Places(text, c, f)
  BY <1>6, CodePlaces, Zenon DEF CodeOf
<1> QED
  BY <1>2, <1>3, <1>4, <1>5, <1>6, Zenon
-----------------------------------------------------------------------------
(* Decoding takes other code than was written, and leaves it as it is.     *)
LEMMA DecodingKeepsCode ==
  ASSUME EncodeInv,
         StartDecoding \/ Skip \/ DecodeA \/ DecodeB \/ DecodeC \/ DecodeD \/ DecodeEnd \/ UNCHANGED vars
  PROVE  EncodeInv'
<1>1. text \in Seq(Bytes) /\ code \in Seq(Bytes) /\ next \in Nat \ {0}
  BY DEF EncodeInv
<1>2. CASE StartDecoding
  <2>1. /\ step = "encoded" /\ code' \in Variants(code) /\ next' = 1 /\ text' = text
        /\ step' \in {"decoded", "a"}
    BY <1>2 DEF StartDecoding
  <2>2. CodeOf(text, code)
    BY <2>1 DEF EncodeInv
  <2>3. code' \in Seq(Bytes)
    BY <1>1, <2>1, <2>2, VariantPlaces, Zenon
  <2> QED
    BY <1>1, <2>1, <2>3 DEF EncodeInv
<1>3. CASE Skip
  <2>1. text' = text /\ code' = code /\ next' = next + 1 /\ step' = step /\ step \in {"a", "b", "c", "d"}
    BY <1>3 DEF Skip, More
  <2> QED
    BY <1>1, <2>1 DEF EncodeInv
<1>4. CASE DecodeA \/ DecodeB \/ DecodeC \/ DecodeD
  <2>1. text' = text /\ code' = code /\ next' = next + 1 /\ step' \in {"a", "b", "c", "d"}
    BY <1>4 DEF DecodeA, DecodeB, DecodeC, DecodeD, Decode
  <2> QED
    BY <1>1, <2>1 DEF EncodeInv
<1>5. CASE DecodeEnd
  BY <1>1, <1>5 DEF EncodeInv, DecodeEnd
<1>6. CASE UNCHANGED vars
  BY <1>6 DEF EncodeInv, Writing, vars
<1> QED
  BY <1>2, <1>3, <1>4, <1>5, <1>6

(* What is written is always the beginning of the code.                    *)
LEMMA EncodeStep == EncodeInv /\ [Next]_vars => EncodeInv'
BY EncodeAKeeps, EncodeBKeeps, EncodeCKeeps, BlockEndKeeps, DecodingKeepsCode, Zenon DEF Next

(***************************************************************************)
(* While it encodes, the machine has written the characters of the bytes   *)
(* that it has read, and it hands over the code of the text: EncodeInv.    *)
(***************************************************************************)
THEOREM Encodes == Spec => []EncodeInv
BY EncodeInit, EncodeStep, PTL DEF Spec

(***************************************************************************)
(* When the code is written, it is the standard one: StandardCode.         *)
(***************************************************************************)
THEOREM CodeIsStandard == Spec => []StandardCode
BY Encodes, StandardWritten, PTL
-----------------------------------------------------------------------------
(***************************************************************************)
(* The machine that decodes is never further than the characters that it   *)
(* has read, whatever they are, and the string has room for three bytes    *)
(* for every four of them and for what is left.                            *)
(***************************************************************************)
Decoding == {"a", "b", "c", "d", "decoded"}
Reading(q) ==
  \/ step = "a" /\ at = 3 * q /\ 4 * q < next
  \/ step = "b" /\ at = 3 * q /\ 4 * q + 1 < next
  \/ step = "c" /\ at = 3 * q + 1 /\ 4 * q + 2 < next
  \/ step = "d" /\ at = 3 * q + 2 /\ 4 * q + 3 < next
  \/ step = "decoded" /\ at <= Capacity(Len(code))
DecodeInv ==
  step \in Decoding =>
    /\ DOMAIN plain = 0 .. Capacity(Len(code)) - 1
    /\ next <= Len(code) + 1 /\ at \in Nat
    /\ \E q \in Nat : Reading(q)

(* A group that has begun has room.                                        *)
LEMMA CapacityHolds ==
  ASSUME NEW l \in Nat, NEW q \in Nat
  PROVE  /\ Capacity(l) \in Nat
         /\ 4 * q <= l => 3 * q <= Capacity(l)
         /\ 4 * q + 1 <= l => 3 * q + 3 <= Capacity(l)
<1> DEFINE g == (l + 3) \div 4
<1>1. g \in Nat /\ (4 * q <= l => q <= g) /\ (4 * q + 1 <= l => q + 1 <= g)
  OBVIOUS
<1> HIDE DEF g
<1>2. Capacity(l) = g * 3
  BY DEF Capacity, g
<1> QED
  BY <1>1, <1>2

(* A write within the string leaves it as long as it was.                  *)
LEMMA PutWithin ==
  ASSUME NEW n \in DOMAIN plain, NEW v
  PROVE  /\ DOMAIN Put(n, v) = DOMAIN plain
         /\ \A m \in DOMAIN plain : Put(n, v)[m] = IF m = n THEN v ELSE plain[m]
BY DEF Put

(* The string is given its size.                                           *)
LEMMA StartWithin == EncodeInv /\ StartDecoding => DecodeInv'
<1> SUFFICES ASSUME EncodeInv, StartDecoding PROVE DecodeInv'
  OBVIOUS
<1>1. /\ step = "encoded" /\ next' = 1 /\ at' = 0
      /\ plain' = [n \in 0 .. Capacity(Len(code')) - 1 |-> 0]
      /\ step' = "decoded" \/ step' = "a"
  BY DEF StartDecoding
<1>2. EncodeInv'
  BY DecodingKeepsCode
<1>3. code' \in Seq(Bytes)
  BY <1>2 DEF EncodeInv
<1>4. Len(code') \in Nat
  BY <1>3
<1>5. Capacity(Len(code')) \in Nat
  BY <1>4, CapacityHolds
<1>6. DOMAIN plain' = 0 .. Capacity(Len(code')) - 1
  BY <1>1
<1>7. Reading(0)'
  BY <1>1, <1>5 DEF Reading
<1>8. next' <= Len(code') + 1 /\ at' \in Nat /\ 0 \in Nat
  BY <1>1, <1>4
<1> QED
  BY <1>6, <1>7, <1>8, Zenon DEF DecodeInv

(* Of what is skipped nothing is written.                                  *)
LEMMA SkipWithin == EncodeInv /\ DecodeInv /\ Skip => DecodeInv'
<1> SUFFICES ASSUME EncodeInv, DecodeInv, Skip PROVE DecodeInv'
  OBVIOUS
<1>1. /\ step \in {"a", "b", "c", "d"} /\ next <= Len(code) /\ next' = next + 1
      /\ step' = step /\ code' = code /\ plain' = plain /\ at' = at
  BY DEF Skip, More
<1>2. next \in Nat /\ Len(code) \in Nat
  BY DEF EncodeInv
<1>3. DOMAIN plain = 0 .. Capacity(Len(code)) - 1 /\ at \in Nat
  BY <1>1 DEF DecodeInv, Decoding
<1>4. PICK q \in Nat : Reading(q)
  BY <1>1 DEF DecodeInv, Decoding
<1>5. Reading(q)'
  BY <1>1, <1>2, <1>4 DEF Reading
<1>6. next' <= Len(code') + 1
  BY <1>1, <1>2
<1> QED
  BY <1>1, <1>3, <1>5, <1>6, Zenon DEF DecodeInv

(* Where the machine writes, the string reaches.                           *)
LEMMA Room ==
  ASSUME EncodeInv, DecodeInv, step \in {"a", "b", "c", "d"}, next <= Len(code)
  PROVE  /\ at \in Nat /\ at \in DOMAIN plain
         /\ step \in {"b", "c"} => at + 1 \in DOMAIN plain
         /\ \A n \in 1 .. at : n - 1 \in DOMAIN plain /\ n - 1 # at /\ n - 1 # at + 1
<1>1. next \in Nat /\ Len(code) \in Nat
  BY DEF EncodeInv
<1>2. DOMAIN plain = 0 .. Capacity(Len(code)) - 1 /\ at \in Nat
  BY DEF DecodeInv, Decoding
<1>3. PICK q \in Nat : Reading(q)
  BY DEF DecodeInv, Decoding
<1>4. /\ 4 * q < next /\ 3 * q <= at /\ at <= 3 * q + 2
      /\ step \in {"b", "c"} => at <= 3 * q + 1
  BY <1>1, <1>3 DEF Reading
<1>5. 3 * q + 3 <= Capacity(Len(code)) /\ Capacity(Len(code)) \in Nat
  <2>1. 4 * q + 1 <= Len(code)
    BY <1>1, <1>4
  <2> QED
    BY <1>1, <2>1, CapacityHolds
<1>6. at \in DOMAIN plain
  BY <1>2, <1>4, <1>5
<1>7. step \in {"b", "c"} => at + 1 \in DOMAIN plain
  BY <1>2, <1>4, <1>5
<1>8. \A n \in 1 .. at : n - 1 \in DOMAIN plain /\ n - 1 # at /\ n - 1 # at + 1
  BY <1>2, <1>4, <1>5
<1> QED
  BY <1>2, <1>6, <1>7, <1>8

(* The first character of a group writes one byte.                         *)
LEMMA DecodeAWithin == EncodeInv /\ DecodeInv /\ DecodeA => DecodeInv'
<1> SUFFICES ASSUME EncodeInv, DecodeInv, DecodeA PROVE DecodeInv'
  OBVIOUS
<1>1. /\ step = "a" /\ next <= Len(code) /\ next' = next + 1 /\ step' = "b"
      /\ code' = code /\ at' = at /\ plain' = Put(at, 4 * Bits)
  BY DEF DecodeA, Decode, More
<1>2. next \in Nat /\ Len(code) \in Nat
  BY DEF EncodeInv
<1>3. DOMAIN plain = 0 .. Capacity(Len(code)) - 1 /\ at \in Nat
  BY <1>1 DEF DecodeInv, Decoding
<1>4. PICK q \in Nat : Reading(q)
  BY <1>1 DEF DecodeInv, Decoding
<1>5. at = 3 * q /\ 4 * q < next
  BY <1>1, <1>4 DEF Reading
<1>6. at \in DOMAIN plain
  BY <1>1, Room
<1>7. DOMAIN plain' = DOMAIN plain
  BY <1>1, <1>6, PutWithin, Zenon
<1>8. Reading(q)'
  BY <1>1, <1>2, <1>5 DEF Reading
<1>9. next' <= Len(code') + 1
  BY <1>1, <1>2
<1> QED
  BY <1>1, <1>3, <1>7, <1>8, <1>9, Zenon DEF DecodeInv

(* The second and third complete a byte, and begin the next.               *)
LEMMA CompleteWithin ==
  ASSUME NEW v, NEW w, Complete(v, w), at \in DOMAIN plain, at + 1 \in DOMAIN plain
  PROVE  /\ DOMAIN plain' = DOMAIN plain /\ at' = at + 1
         /\ \A m \in DOMAIN plain :
              plain'[m] = IF m = at + 1 THEN w ELSE IF m = at THEN plain[at] + v ELSE plain[m]
<1> DEFINE whole == Put(at, plain[at] + v)
<1>1. /\ plain' = [m \in DOMAIN whole \cup {at + 1} |-> IF m = at + 1 THEN w ELSE whole[m]]
      /\ at' = at + 1
  BY Zenon DEF Complete
<1>2. /\ DOMAIN whole = DOMAIN plain
      /\ \A m \in DOMAIN plain : whole[m] = IF m = at THEN plain[at] + v ELSE plain[m]
  BY PutWithin, Zenon
<1> HIDE DEF whole
<1>3. DOMAIN plain' = DOMAIN plain
  BY <1>1, <1>2
<1>4. ASSUME NEW m \in DOMAIN plain
      PROVE  plain'[m] = IF m = at + 1 THEN w ELSE IF m = at THEN plain[at] + v ELSE plain[m]
  <2>1. plain'[m] = IF m = at + 1 THEN w ELSE whole[m]
    BY <1>1, <1>2
  <2>2. whole[m] = IF m = at THEN plain[at] + v ELSE plain[m]
    BY <1>2
  <2> QED
    BY <2>1, <2>2
<1> QED
  BY <1>1, <1>3, <1>4

(* The second character of a group.                                        *)
LEMMA DecodeBWithin == EncodeInv /\ DecodeInv /\ DecodeB => DecodeInv'
<1> SUFFICES ASSUME EncodeInv, DecodeInv, DecodeB PROVE DecodeInv'
  OBVIOUS
<1>1. /\ step = "b" /\ next <= Len(code) /\ next' = next + 1 /\ step' = "c"
      /\ code' = code /\ Complete(Bits \div 16, 16 * (Bits % 16))
  BY DEF DecodeB, Decode, More
<1>2. next \in Nat /\ Len(code) \in Nat
  BY DEF EncodeInv
<1>3. DOMAIN plain = 0 .. Capacity(Len(code)) - 1 /\ at \in Nat
  BY <1>1 DEF DecodeInv, Decoding
<1>4. PICK q \in Nat : Reading(q)
  BY <1>1 DEF DecodeInv, Decoding
<1>5. at = 3 * q /\ 4 * q + 1 < next
  BY <1>1, <1>4 DEF Reading
<1>6. at \in DOMAIN plain /\ at + 1 \in DOMAIN plain
  BY <1>1, Room
<1>7. DOMAIN plain' = DOMAIN plain /\ at' = at + 1
  BY <1>1, <1>6, CompleteWithin, Zenon
<1>8. Reading(q)'
  BY <1>1, <1>2, <1>5, <1>7 DEF Reading
<1>9. next' <= Len(code') + 1 /\ at' \in Nat
  BY <1>1, <1>2, <1>3, <1>7
<1> QED
  BY <1>1, <1>3, <1>7, <1>8, <1>9, Zenon DEF DecodeInv

(* The third one.                                                          *)
LEMMA DecodeCWithin == EncodeInv /\ DecodeInv /\ DecodeC => DecodeInv'
<1> SUFFICES ASSUME EncodeInv, DecodeInv, DecodeC PROVE DecodeInv'
  OBVIOUS
<1>1. /\ step = "c" /\ next <= Len(code) /\ next' = next + 1 /\ step' = "d"
      /\ code' = code /\ Complete(Bits \div 4, 64 * (Bits % 4))
  BY DEF DecodeC, Decode, More
<1>2. next \in Nat /\ Len(code) \in Nat
  BY DEF EncodeInv
<1>3. DOMAIN plain = 0 .. Capacity(Len(code)) - 1 /\ at \in Nat
  BY <1>1 DEF DecodeInv, Decoding
<1>4. PICK q \in Nat : Reading(q)
  BY <1>1 DEF DecodeInv, Decoding
<1>5. at = 3 * q + 1 /\ 4 * q + 2 < next
  BY <1>1, <1>4 DEF Reading
<1>6. at \in DOMAIN plain /\ at + 1 \in DOMAIN plain
  BY <1>1, Room
<1>7. DOMAIN plain' = DOMAIN plain /\ at' = at + 1
  BY <1>1, <1>6, CompleteWithin, Zenon
<1>8. Reading(q)'
  BY <1>1, <1>2, <1>5, <1>7 DEF Reading
<1>9. next' <= Len(code') + 1 /\ at' \in Nat
  BY <1>1, <1>2, <1>3, <1>7
<1> QED
  BY <1>1, <1>3, <1>7, <1>8, <1>9, Zenon DEF DecodeInv

(* The fourth completes the last byte of the group.                        *)
LEMMA DecodeDWithin == EncodeInv /\ DecodeInv /\ DecodeD => DecodeInv'
<1> SUFFICES ASSUME EncodeInv, DecodeInv, DecodeD PROVE DecodeInv'
  OBVIOUS
<1>1. /\ step = "d" /\ next <= Len(code) /\ next' = next + 1 /\ step' = "a"
      /\ code' = code /\ at' = at + 1 /\ plain' = Put(at, plain[at] + Bits)
  BY DEF DecodeD, Decode, More
<1>2. next \in Nat /\ Len(code) \in Nat
  BY DEF EncodeInv
<1>3. DOMAIN plain = 0 .. Capacity(Len(code)) - 1 /\ at \in Nat
  BY <1>1 DEF DecodeInv, Decoding
<1>4. PICK q \in Nat : Reading(q)
  BY <1>1 DEF DecodeInv, Decoding
<1>5. at = 3 * q + 2 /\ 4 * q + 3 < next
  BY <1>1, <1>4 DEF Reading
<1>6. at \in DOMAIN plain
  BY <1>1, Room
<1>7. DOMAIN plain' = DOMAIN plain
  BY <1>1, <1>6, PutWithin, Zenon
<1>8. Reading(q + 1)' /\ q + 1 \in Nat
  BY <1>1, <1>2, <1>5 DEF Reading
<1>9. next' <= Len(code') + 1 /\ at' \in Nat
  BY <1>1, <1>2, <1>3
<1> QED
  BY <1>1, <1>3, <1>7, <1>8, <1>9, Zenon DEF DecodeInv

(* At the end the pointer is at most behind the last byte.                 *)
LEMMA EndWithin == EncodeInv /\ DecodeInv /\ DecodeEnd => DecodeInv'
<1> SUFFICES ASSUME EncodeInv, DecodeInv, DecodeEnd PROVE DecodeInv'
  OBVIOUS
<1>1. /\ step \in {"a", "b", "c", "d"} /\ next > Len(code) /\ next' = next /\ step' = "decoded"
      /\ code' = code /\ at' = at /\ plain' = plain
  BY DEF DecodeEnd
<1>2. next \in Nat /\ Len(code) \in Nat
  BY DEF EncodeInv
<1>3. DOMAIN plain = 0 .. Capacity(Len(code)) - 1 /\ at \in Nat /\ next <= Len(code) + 1
  BY <1>1 DEF DecodeInv, Decoding
<1>4. PICK q \in Nat : Reading(q)
  BY <1>1 DEF DecodeInv, Decoding
<1>5. /\ Capacity(Len(code)) \in Nat
      /\ 4 * q <= Len(code) => 3 * q <= Capacity(Len(code))
      /\ 4 * q + 1 <= Len(code) => 3 * q + 3 <= Capacity(Len(code))
  BY <1>2, CapacityHolds
<1>6. at <= Capacity(Len(code))
  BY <1>1, <1>2, <1>3, <1>4, <1>5 DEF Reading
<1>7. Reading(q)'
  BY <1>1, <1>6 DEF Reading
<1> QED
  BY <1>1, <1>3, <1>7, Zenon DEF DecodeInv

(* So whatever the machines do.                                            *)
LEMMA DecodeStep == EncodeInv /\ DecodeInv /\ [Next]_vars => DecodeInv'
<1> SUFFICES ASSUME EncodeInv, DecodeInv, [Next]_vars PROVE DecodeInv'
  OBVIOUS
<1>1. CASE EncodeA \/ EncodeB \/ EncodeC \/ BlockEnd
  <2>1. step' \in {"A", "B", "C", "encoded"}
    BY <1>1 DEF EncodeA, EncodeB, EncodeC, Encode, BlockEnd
  <2> QED
    BY <2>1 DEF DecodeInv, Decoding
<1>2. CASE UNCHANGED vars
  BY <1>2 DEF vars, DecodeInv, Reading
<1> QED
  BY <1>1, <1>2, StartWithin, SkipWithin, DecodeAWithin, DecodeBWithin, DecodeCWithin,
     DecodeDWithin, EndWithin, Zenon DEF Next

(***************************************************************************)
(* The string has its size, and the pointer is where the characters that   *)
(* were read have brought it: DecodeInv.                                   *)
(***************************************************************************)
THEOREM Decodes == Spec => []DecodeInv
<1>1. Init => DecodeInv
  BY DEF Init, DecodeInv, Decoding
<1> QED
  BY <1>1, DecodeStep, Encodes, PTL DEF Spec

(* Both invariants say where the machines are in their strings.            *)
LEMMA InvWithin == EncodeInv /\ DecodeInv => WithinBuffer
<1> SUFFICES ASSUME EncodeInv, DecodeInv PROVE WithinBuffer
  OBVIOUS
<1>1. text \in Seq(Bytes) /\ Len(text) \in Nat /\ Len(code) \in Nat /\ next \in Nat
  BY DEF EncodeInv
<1>2. ASSUME step \in {"A", "B", "C", "encoded"} PROVE Len(code) <= (Len(text) * 4) \div 3 + 10
  <2>1. CASE step = "encoded"
    <3>1. Len(code) = 4 * ((Len(text) + 2) \div 3)
      BY <2>1 DEF EncodeInv
    <3> QED
      BY <1>1, <3>1
  <2>2. CASE step \in {"A", "B", "C"}
    <3>1. next <= Len(text) + 1
      BY <2>2 DEF EncodeInv
    <3>2. PICK q \in Nat : Writing(q)
      BY <2>2 DEF EncodeInv
    <3>3. Len(code) <= 4 * q + 2 /\ 3 * q <= Len(text)
      BY <1>1, <3>1, <3>2 DEF Writing
    <3> QED
      BY <1>1, <3>3
  <2> QED
    BY <1>2, <2>1, <2>2
<1>3. ASSUME step \in Decoding
      PROVE  /\ DOMAIN plain = 0 .. Capacity(Len(code)) - 1
             /\ at <= Capacity(Len(code))
  <2>1. DOMAIN plain = 0 .. Capacity(Len(code)) - 1 /\ next <= Len(code) + 1
    BY <1>3 DEF DecodeInv
  <2>2. PICK q \in Nat : Reading(q)
    BY <1>3 DEF DecodeInv
  <2>3. /\ Capacity(Len(code)) \in Nat
        /\ 4 * q <= Len(code) => 3 * q <= Capacity(Len(code))
        /\ 4 * q + 1 <= Len(code) => 3 * q + 3 <= Capacity(Len(code))
    BY <1>1, CapacityHolds
  <2>4. at <= Capacity(Len(code))
    BY <1>1, <2>1, <2>2, <2>3 DEF Reading
  <2> QED
    BY <2>1, <2>4
<1> QED
  BY <1>2, <1>3, Zenon DEF WithinBuffer, Decoding

(***************************************************************************)
(* No write goes beyond the string that was resized for it: WithinBuffer.  *)
(***************************************************************************)
THEOREM WithinBuffers == Spec => []WithinBuffer
BY Encodes, Decodes, InvWithin, PTL
-----------------------------------------------------------------------------
(***************************************************************************)
(* What the machine that decodes has written, after the first k characters *)
(* that f has in the code: the bytes before at, and in the one at at the   *)
(* bits that the last character began it with.                             *)
(***************************************************************************)
Passed(f, k, n) == k \in 0 .. Size(text) /\ \A j \in 1 .. Size(text) : j <= k <=> f[j] < n
Written == \A n \in 1 .. at : plain[n - 1] = Byte(text, n)
Held(k, q) ==
  \/ step = "a" /\ k = 4 * q /\ at = 3 * q
  \/ step = "b" /\ k = 4 * q + 1 /\ at = 3 * q /\ plain[at] = 4 * First(text, q)
  \/ step = "c" /\ k = 4 * q + 2 /\ at = 3 * q + 1 /\ plain[at] = 16 * (Second(text, q) % 16)
  \/ step = "d" /\ k = 4 * q + 3 /\ at = 3 * q + 2 /\ plain[at] = 64 * (Third(text, q) % 4)
  \/ step = "decoded" /\ at = Len(text)
Holds(f, k) == Places(text, code, f) /\ Passed(f, k, next) /\ \E q \in Nat : Held(k, q)
HoldInv == step \in Decoding => Written /\ \E f, k : Holds(f, k)

(* What the table holds.                                                   *)
LEMMA DecodeRange ==
  ASSUME NEW c \in Bytes
  PROVE  DecodeValue(c) \in Int
<1>1. c \in Int
  BY DEF Bytes
<1>2. CASE c \in 65 .. 90
  BY <1>1, <1>2 DEF DecodeValue
<1>3. CASE c \in 97 .. 122
  BY <1>1, <1>3 DEF DecodeValue
<1>4. CASE c \in 48 .. 57
  BY <1>1, <1>4 DEF DecodeValue
<1>5. CASE c = 43 \/ c = 47 \/ c = Pad
  BY <1>1, <1>5 DEF DecodeValue, Pad
<1>6. CASE /\ c \notin 65 .. 90 /\ c \notin 97 .. 122 /\ c \notin 48 .. 57
           /\ c # 43 /\ c # 47 /\ c # Pad
  BY <1>6 DEF DecodeValue
<1> QED
  BY <1>2, <1>3, <1>4, <1>5, <1>6

(* A character that is skipped is not one of the code's.                   *)
LEMMA Skipped ==
  ASSUME CharSigned, EncodeInv, next <= Len(code), Fragment(code[next]) < 0,
         NEW f, NEW k, Places(text, code, f), Passed(f, k, next)
  PROVE  Passed(f, k, next + 1)
<1> DEFINE Z == Size(text)
<1>1. text \in Seq(Bytes) /\ next \in Nat \ {0} /\ Len(code) \in Nat
  BY DEF EncodeInv
<1>2. Z \in Nat
  BY <1>1, SizeBelow
<1>3. /\ f \in [1 .. Z -> 1 .. Len(code)]
      /\ \A j \in 1 .. Z : code[f[j]] = EncodeValue(Sextet(text, j))
  BY Zenon DEF Places
<1>4. k \in 0 .. Z /\ \A j \in 1 .. Z : j <= k <=> f[j] < next
  BY Zenon DEF Passed
<1>5. DecodeValue(code[next]) < 0
  BY DEF Fragment
<1> HIDE DEF Z
<1>6. ASSUME NEW j \in 1 .. Z PROVE f[j] # next /\ f[j] \in Nat
  <2>1. j \in Nat \ {0}
    BY <1>2
  <2>2. Sextet(text, j) \in 0 .. 63
    BY <1>1, <2>1, SextetRange
  <2>3. DecodeValue(EncodeValue(Sextet(text, j))) = Sextet(text, j)
    BY <2>2, Tables
  <2>4. DecodeValue(code[f[j]]) = Sextet(text, j)
    BY <1>3, <2>3, Zenon
  <2>5. ~ (DecodeValue(code[f[j]]) < 0)
    <3>1. \A v \in 0 .. 63 : ~ (v < 0)
      OBVIOUS
    <3> QED
      BY <2>2, <2>4, <3>1, Zenon
  <2>6. f[j] # next
    BY <1>5, <2>5, Zenon
  <2>7. f[j] \in 1 .. Len(code)
    BY <1>3
  <2> QED
    BY <1>1, <2>6, <2>7
<1>7. ASSUME NEW j \in 1 .. Z PROVE j <= k <=> f[j] < next + 1
  <2>1. f[j] # next /\ f[j] \in Nat
    BY <1>6
  <2>2. f[j] < next <=> f[j] < next + 1
    BY <1>1, <2>1
  <2> QED
    BY <1>4, <2>2, Zenon
<1> QED
  BY <1>4, <1>7, Zenon DEF Passed, Z

(* Any other is the next one of the code, and gives its six bits.          *)
LEMMA Taken ==
  ASSUME CharSigned, EncodeInv, next <= Len(code), Fragment(code[next]) >= 0,
         NEW f, NEW k, Places(text, code, f), Passed(f, k, next)
  PROVE  /\ Passed(f, k + 1, next + 1)
         /\ Bits = Sextet(text, k + 1)
<1> DEFINE Z == Size(text)
<1>1. text \in Seq(Bytes) /\ next \in Nat \ {0} /\ Len(code) \in Nat
  BY DEF EncodeInv
<1>2. Z \in Nat
  BY <1>1, SizeBelow
<1>3. /\ f \in [1 .. Z -> 1 .. Len(code)]
      /\ \A i, j \in 1 .. Z : i < j => f[i] < f[j]
      /\ \A j \in 1 .. Z : code[f[j]] = EncodeValue(Sextet(text, j))
      /\ \A i \in 1 .. Len(code) : (\A j \in 1 .. Z : f[j] # i) => DecodeValue(code[i]) < 0
  BY Zenon DEF Places
<1>4. k \in 0 .. Z /\ \A j \in 1 .. Z : j <= k <=> f[j] < next
  BY Zenon DEF Passed
<1>5. Fragment(code[next]) = DecodeValue(code[next])
  BY DEF Fragment
<1>6. ~ (DecodeValue(code[next]) < 0)
  <2>1. code[next] \in Bytes
    BY <1>1 DEF EncodeInv
  <2>2. DecodeValue(code[next]) \in Int
    BY <2>1, DecodeRange
  <2>3. \A v \in Int : v >= 0 => ~ (v < 0)
    OBVIOUS
  <2> QED
    BY <1>5, <2>2, <2>3
<1> HIDE DEF Z
<1>7. next \in 1 .. Len(code)
  BY <1>1
<1>8. PICK i \in 1 .. Z : f[i] = next
  BY <1>3, <1>6, <1>7, Zenon
<1>9. \A j \in 1 .. Z : f[j] \in Nat
  BY <1>1, <1>3
<1>10. i = k + 1
  <2>1. ~ (i <= k)
    BY <1>1, <1>4, <1>8
  <2>2. i > k + 1 => FALSE
    <3> SUFFICES ASSUME i > k + 1 PROVE FALSE
      OBVIOUS
    <3>1. k + 1 \in 1 .. Z /\ ~ (k + 1 <= k)
      BY <1>2, <1>4
    <3>2. f[k + 1] < f[i]
      BY <1>3, <3>1
    <3>3. f[k + 1] < next
      BY <1>8, <3>2
    <3> QED
      BY <1>4, <3>1, <3>3, Zenon
  <2> QED
    BY <1>2, <1>4, <2>1, <2>2
<1>11. ASSUME NEW j \in 1 .. Z PROVE j <= k + 1 <=> f[j] < next + 1
  <2>1. f[j] \in Nat /\ (j <= k <=> f[j] < next)
    BY <1>4, <1>9
  <2>2. CASE j <= k
    BY <1>1, <1>2, <1>4, <2>1, <2>2
  <2>3. CASE j = i
    BY <1>1, <1>8, <1>10, <2>3
  <2>4. CASE j > i
    <3>1. f[i] < f[j]
      BY <1>3, <2>4
    <3> QED
      BY <1>1, <1>2, <1>4, <1>8, <1>10, <2>1, <2>4, <3>1
  <2> QED
    BY <1>2, <1>4, <1>10, <2>2, <2>3, <2>4
<1>12. Passed(f, k + 1, next + 1)
  <2>1. k + 1 \in 0 .. Z
    BY <1>2, <1>4, <1>10
  <2> QED
    BY <1>11, <2>1, Zenon DEF Passed, Z
<1>13. Bits = Sextet(text, k + 1)
  <2>1. k + 1 \in Nat \ {0}
    BY <1>2, <1>10
  <2>2. Sextet(text, k + 1) \in 0 .. 63
    BY <1>1, <2>1, SextetRange
  <2>3. DecodeValue(EncodeValue(Sextet(text, k + 1))) = Sextet(text, k + 1)
    BY <2>2, Tables
  <2>4. code[next] = EncodeValue(Sextet(text, k + 1))
    BY <1>3, <1>8, <1>10
  <2>5. Fragment(code[next]) = Sextet(text, k + 1)
    BY <1>5, <2>3, <2>4
  <2>6. \A v \in 0 .. 63 : v % 64 = v
    OBVIOUS
  <2>7. Bits = Sextet(text, k + 1) % 64
    BY <2>5, Zenon DEF Bits
  <2> QED
    BY <2>2, <2>6, <2>7, Zenon
<1> QED
  BY <1>12, <1>13

(* The bytes of a group, out of its four characters.                       *)
LEMMA Together ==
  ASSUME NEW t \in Seq(Bytes), NEW p \in Nat
  PROVE  /\ 4 * First(t, p) + Second(t, p) \div 16 = Byte(t, 3 * p + 1)
         /\ 16 * (Second(t, p) % 16) + Third(t, p) \div 4 = Byte(t, 3 * p + 2)
         /\ 64 * (Third(t, p) % 4) + Fourth(t, p) = Byte(t, 3 * p + 3)
<1> DEFINE x == Byte(t, 3 * p + 1)
           y == Byte(t, 3 * p + 2)
           z == Byte(t, 3 * p + 3)
<1>1. x \in Bytes /\ y \in Bytes /\ z \in Bytes
  BY Sextets
<1>2. /\ First(t, p) = x \div 4 /\ Second(t, p) = 16 * (x % 4) + y \div 16
      /\ Third(t, p) = 4 * (y % 16) + z \div 64 /\ Fourth(t, p) = z % 64
  BY DEF First, Second, Third, Fourth
<1> HIDE DEF x, y, z
<1>3. ASSUME NEW a \in Bytes PROVE 4 * (a \div 4) + (a % 4) = a
  <2> DEFINE g == a \div 4
             r == a % 4
  <2>1. r = a - 4 * g /\ g \in Int /\ a \in Int
    BY Digits DEF Bytes
  <2> HIDE DEF g, r
  <2>2. 4 * g + r = a
    BY <2>1
  <2> QED
    BY <2>2, Zenon DEF g, r
<1>4. ASSUME NEW a \in Bytes PROVE 16 * (a \div 16) + (a % 16) = a
  <2> DEFINE g == a \div 16
             r == a % 16
  <2>1. r = a - 16 * g /\ g \in Int /\ a \in Int
    BY Digits DEF Bytes
  <2> HIDE DEF g, r
  <2>2. 16 * g + r = a
    BY <2>1
  <2> QED
    BY <2>2, Zenon DEF g, r
<1>5. ASSUME NEW a \in Bytes PROVE 64 * (a \div 64) + (a % 64) = a
  <2> DEFINE g == a \div 64
             r == a % 64
  <2>1. r = a - 64 * g /\ g \in Int /\ a \in Int
    BY Digits DEF Bytes
  <2> HIDE DEF g, r
  <2>2. 64 * g + r = a
    BY <2>1
  <2> QED
    BY <2>2, Zenon DEF g, r
<1>6. ASSUME NEW a \in Bytes, NEW b \in Bytes
      PROVE  /\ (16 * (a % 4) + b \div 16) \div 16 = a % 4
             /\ (16 * (a % 4) + b \div 16) % 16 = b \div 16
  BY DEF Bytes
<1>7. ASSUME NEW a \in Bytes, NEW b \in Bytes
      PROVE  /\ (4 * (a % 16) + b \div 64) \div 4 = a % 16
             /\ (4 * (a % 16) + b \div 64) % 4 = b \div 64
  BY DEF Bytes
<1>8. /\ Second(t, p) \div 16 = x % 4 /\ Second(t, p) % 16 = y \div 16
      /\ Third(t, p) \div 4 = y % 16 /\ Third(t, p) % 4 = z \div 64
  <2>1. /\ (16 * (x % 4) + y \div 16) \div 16 = x % 4
        /\ (16 * (x % 4) + y \div 16) % 16 = y \div 16
    BY <1>1, <1>6
  <2>2. /\ (4 * (y % 16) + z \div 64) \div 4 = y % 16
        /\ (4 * (y % 16) + z \div 64) % 4 = z \div 64
    BY <1>1, <1>7
  <2> QED
    BY <1>2, <2>1, <2>2, Zenon
<1>9. 4 * First(t, p) + Second(t, p) \div 16 = x
  <2>1. 4 * (x \div 4) + (x % 4) = x
    BY <1>1, <1>3
  <2>2. First(t, p) = x \div 4 /\ Second(t, p) \div 16 = x % 4
    BY <1>2, <1>8, Zenon
  <2>3. 4 * First(t, p) + Second(t, p) \div 16 = 4 * (x \div 4) + (x % 4)
    BY <2>2, Zenon
  <2> QED
    BY <2>1, <2>3, Zenon
<1>10. 16 * (Second(t, p) % 16) + Third(t, p) \div 4 = y
  <2>1. 16 * (y \div 16) + (y % 16) = y
    BY <1>1, <1>4
  <2>2. Second(t, p) % 16 = y \div 16 /\ Third(t, p) \div 4 = y % 16
    BY <1>8, Zenon
  <2>3. 16 * (Second(t, p) % 16) + Third(t, p) \div 4 = 16 * (y \div 16) + (y % 16)
    BY <2>2, Zenon
  <2> QED
    BY <2>1, <2>3, Zenon
<1>11. 64 * (Third(t, p) % 4) + Fourth(t, p) = z
  <2>1. 64 * (z \div 64) + (z % 64) = z
    BY <1>1, <1>5
  <2>2. Third(t, p) % 4 = z \div 64 /\ Fourth(t, p) = z % 64
    BY <1>2, <1>8, Zenon
  <2>3. 64 * (Third(t, p) % 4) + Fourth(t, p) = 64 * (z \div 64) + (z % 64)
    BY <2>2, Zenon
  <2> QED
    BY <2>1, <2>3, Zenon
<1> QED
  BY <1>9, <1>10, <1>11, Zenon DEF x, y, z

(* Nothing is read at first.                                               *)
LEMMA StartHolds == EncodeInv /\ StartDecoding => HoldInv'
<1> SUFFICES ASSUME EncodeInv, StartDecoding PROVE HoldInv'
  OBVIOUS
<1>1. /\ step = "encoded" /\ code' \in Variants(code) /\ next' = 1 /\ at' = 0 /\ text' = text
      /\ step' = IF code' = <<>> THEN "decoded" ELSE "a"
  BY DEF StartDecoding
<1>2. text \in Seq(Bytes) /\ CodeOf(text, code)
  BY <1>1 DEF EncodeInv
<1>3. code' \in Seq(Bytes)
  BY <1>1, <1>2, VariantPlaces, Zenon
<1>4. PICK f : Places(text, code', f)
  BY <1>1, <1>2, VariantPlaces, Zenon
<1>5. f \in [1 .. Size(text) -> 1 .. Len(code')]
  BY <1>4, Zenon DEF Places
<1>6. Len(code') \in Nat /\ Size(text) \in Nat
  BY <1>2, <1>3, SizeBelow
<1>7. Passed(f, 0, 1)
  BY <1>5, <1>6 DEF Passed
<1>8. Held(0, 0)'
  <2>1. CASE code' = <<>>
    <3>1. Len(code') = 0
      BY <2>1
    <3>2. Size(text) = 0
      BY <1>5, <1>6, <3>1
    <3>3. Len(text) = 0
      BY <1>2, <3>2, SizeBelow
    <3>4. step' = "decoded"
      BY <1>1, <2>1
    <3> QED
      BY <1>1, <3>3, <3>4 DEF Held
  <2>2. CASE code' # <<>>
    BY <1>1, <2>2 DEF Held
  <2> QED
    BY <2>1, <2>2
<1>9. Written'
  BY <1>1 DEF Written
<1>10. Places(text', code', f) /\ Passed(f, 0, next)'
  BY <1>1, <1>4, <1>7 DEF Passed
<1>11. Holds(f, 0)'
  <2>1. 0 \in Nat
    OBVIOUS
  <2> QED
    BY <1>8, <1>10, <2>1, Zenon DEF Holds
<1> QED
  BY <1>9, <1>11, Zenon DEF HoldInv

(* What is skipped changes nothing.                                        *)
LEMMA SkipHolds == CharSigned /\ EncodeInv /\ HoldInv /\ Skip => HoldInv'
<1> SUFFICES ASSUME CharSigned, EncodeInv, HoldInv, Skip PROVE HoldInv'
  OBVIOUS
<1>1. /\ step \in Decoding /\ next <= Len(code) /\ Fragment(code[next]) < 0 /\ next' = next + 1
      /\ step' = step /\ code' = code /\ plain' = plain /\ at' = at /\ text' = text
  BY DEF Skip, More, Decoding
<1>2. Written
  BY <1>1 DEF HoldInv
<1>3. PICK f, k : Holds(f, k)
  BY <1>1 DEF HoldInv
<1>4. PICK q \in Nat : Held(k, q)
  BY <1>3 DEF Holds
<1>5. Places(text, code, f) /\ Passed(f, k, next)
  BY <1>3 DEF Holds
<1>6. Passed(f, k, next + 1)
  BY <1>1, <1>5, Skipped
<1>7. Written' /\ Held(k, q)' /\ Places(text', code', f) /\ Passed(f, k, next)'
  BY <1>1, <1>2, <1>4, <1>5, <1>6 DEF Written, Held, Passed
<1>8. Holds(f, k)'
  BY <1>7, Zenon DEF Holds
<1> QED
  BY <1>7, <1>8, Zenon DEF HoldInv

(* What every step has that takes a character.                             *)
LEMMA TakenHolds ==
  ASSUME CharSigned, EncodeInv, step \in {"a", "b", "c", "d"}, next <= Len(code),
         Fragment(code[next]) >= 0, text' = text, code' = code, next' = next + 1,
         NEW f, NEW k, Places(text, code, f), Passed(f, k, next),
         NEW q \in Nat, Held(k + 1, q)', Written'
  PROVE  HoldInv'
<1>1. Passed(f, k + 1, next + 1)
  BY Taken
<1>2. Places(text', code', f) /\ Passed(f, k + 1, next)'
  BY <1>1 DEF Passed
<1>3. Holds(f, k + 1)'
  BY <1>2, Zenon DEF Holds
<1> QED
  BY <1>3, Zenon DEF HoldInv

(* The first character of a group.                                         *)
LEMMA DecodeAHolds == CharSigned /\ EncodeInv /\ DecodeInv /\ HoldInv /\ DecodeA => HoldInv'
<1> SUFFICES ASSUME CharSigned, EncodeInv, DecodeInv, HoldInv, DecodeA PROVE HoldInv'
  OBVIOUS
<1>1. /\ step = "a" /\ next <= Len(code) /\ Fragment(code[next]) >= 0 /\ next' = next + 1
      /\ step' = "b" /\ code' = code /\ text' = text /\ at' = at /\ plain' = Put(at, 4 * Bits)
  BY DEF DecodeA, Decode, More
<1>2. Written
  BY <1>1 DEF HoldInv, Decoding
<1>3. PICK f, k : Holds(f, k)
  BY <1>1 DEF HoldInv, Decoding
<1>4. PICK q \in Nat : Held(k, q)
  BY <1>3 DEF Holds
<1>5. Places(text, code, f) /\ Passed(f, k, next)
  BY <1>3 DEF Holds
<1>6. k = 4 * q /\ at = 3 * q
  BY <1>1, <1>4 DEF Held
<1>7. Bits = First(text, q)
  <2>1. Bits = Sextet(text, k + 1)
    BY <1>1, <1>5, Taken
  <2>2. Sextet(text, 4 * q + 1) = First(text, q)
    BY Sextets DEF EncodeInv
  <2> QED
    BY <1>6, <2>1, <2>2
<1>8. /\ at \in Nat /\ at \in DOMAIN plain
      /\ \A n \in 1 .. at : n - 1 \in DOMAIN plain /\ n - 1 # at
  BY <1>1, Room
<1>9. \A m \in DOMAIN plain : plain'[m] = IF m = at THEN 4 * Bits ELSE plain[m]
  <2>1. \A m \in DOMAIN plain : Put(at, 4 * Bits)[m] = IF m = at THEN 4 * Bits ELSE plain[m]
    BY <1>8, PutWithin
  <2> QED
    BY <1>1, <2>1
<1>10. plain'[at] = 4 * First(text, q)
  BY <1>7, <1>8, <1>9
<1>11. Written'
  <2> SUFFICES ASSUME NEW n \in 1 .. at PROVE plain'[n - 1] = Byte(text, n)
    BY <1>1 DEF Written
  <2> QED
    BY <1>2, <1>8, <1>9, Zenon DEF Written
<1>12. Held(k + 1, q)'
  <2>1. k + 1 = 4 * q + 1
    BY <1>6
  <2> QED
    BY <1>1, <1>6, <1>10, <2>1 DEF Held
<1> QED
  BY <1>1, <1>5, <1>11, <1>12, TakenHolds

(* The second one.                                                         *)
LEMMA DecodeBHolds == CharSigned /\ EncodeInv /\ DecodeInv /\ HoldInv /\ DecodeB => HoldInv'
<1> SUFFICES ASSUME CharSigned, EncodeInv, DecodeInv, HoldInv, DecodeB PROVE HoldInv'
  OBVIOUS
<1> DEFINE v == Bits \div 16
           w == 16 * (Bits % 16)
<1>1. /\ step = "b" /\ next <= Len(code) /\ Fragment(code[next]) >= 0 /\ next' = next + 1
      /\ step' = "c" /\ code' = code /\ text' = text /\ Complete(v, w)
  BY DEF DecodeB, Decode, More
<1>2. Written
  BY <1>1 DEF HoldInv, Decoding
<1>3. PICK f, k : Holds(f, k)
  BY <1>1 DEF HoldInv, Decoding
<1>4. PICK q \in Nat : Held(k, q)
  BY <1>3 DEF Holds
<1>5. Places(text, code, f) /\ Passed(f, k, next)
  BY <1>3 DEF Holds
<1>6. k = 4 * q + 1 /\ at = 3 * q /\ plain[at] = 4 * First(text, q)
  BY <1>1, <1>4 DEF Held
<1>7. Bits = Second(text, q)
  <2>1. Bits = Sextet(text, k + 1)
    BY <1>1, <1>5, Taken
  <2>2. Sextet(text, 4 * q + 2) = Second(text, q)
    BY Sextets DEF EncodeInv
  <2>3. k + 1 = 4 * q + 2
    BY <1>6
  <2> QED
    BY <2>1, <2>2, <2>3
<1>8. /\ at \in Nat /\ at \in DOMAIN plain /\ at + 1 \in DOMAIN plain
      /\ \A n \in 1 .. at : n - 1 \in DOMAIN plain /\ n - 1 # at /\ n - 1 # at + 1
  BY <1>1, Room
<1>9. plain[at] + v = Byte(text, 3 * q + 1) /\ w = 16 * (Second(text, q) % 16)
  <2>1. 4 * First(text, q) + Second(text, q) \div 16 = Byte(text, 3 * q + 1)
    BY Together DEF EncodeInv
  <2> QED
    BY <1>6, <1>7, <2>1, Zenon
<1> HIDE DEF v, w
<1>10. /\ at' = at + 1
       /\ \A m \in DOMAIN plain :
            plain'[m] = IF m = at + 1 THEN w ELSE IF m = at THEN plain[at] + v ELSE plain[m]
  BY <1>1, <1>8, CompleteWithin
<1>11. Written'
  <2> SUFFICES ASSUME NEW n \in 1 .. at + 1 PROVE plain'[n - 1] = Byte(text, n)
    BY <1>1, <1>10 DEF Written
  <2>1. CASE n \in 1 .. at
    BY <1>2, <1>8, <1>10, <2>1, Zenon DEF Written
  <2>2. CASE n = at + 1
    <3>1. n - 1 = at /\ at # at + 1 /\ n = 3 * q + 1
      BY <1>6, <1>8, <2>2
    <3>2. plain'[at] = plain[at] + v
      BY <1>8, <1>10, <3>1, Zenon
    <3> QED
      BY <1>9, <3>1, <3>2
  <2> QED
    BY <1>8, <2>1, <2>2
<1>12. Held(k + 1, q)'
  <2>1. k + 1 = 4 * q + 2 /\ at' = 3 * q + 1 /\ plain'[at'] = w
    BY <1>6, <1>8, <1>10
  <2> QED
    BY <1>1, <1>9, <2>1 DEF Held
<1> QED
  BY <1>1, <1>5, <1>11, <1>12, TakenHolds

(* The third one.                                                          *)
LEMMA DecodeCHolds == CharSigned /\ EncodeInv /\ DecodeInv /\ HoldInv /\ DecodeC => HoldInv'
<1> SUFFICES ASSUME CharSigned, EncodeInv, DecodeInv, HoldInv, DecodeC PROVE HoldInv'
  OBVIOUS
<1> DEFINE v == Bits \div 4
           w == 64 * (Bits % 4)
<1>1. /\ step = "c" /\ next <= Len(code) /\ Fragment(code[next]) >= 0 /\ next' = next + 1
      /\ step' = "d" /\ code' = code /\ text' = text /\ Complete(v, w)
  BY DEF DecodeC, Decode, More
<1>2. Written
  BY <1>1 DEF HoldInv, Decoding
<1>3. PICK f, k : Holds(f, k)
  BY <1>1 DEF HoldInv, Decoding
<1>4. PICK q \in Nat : Held(k, q)
  BY <1>3 DEF Holds
<1>5. Places(text, code, f) /\ Passed(f, k, next)
  BY <1>3 DEF Holds
<1>6. k = 4 * q + 2 /\ at = 3 * q + 1 /\ plain[at] = 16 * (Second(text, q) % 16)
  BY <1>1, <1>4 DEF Held
<1>7. Bits = Third(text, q)
  <2>1. Bits = Sextet(text, k + 1)
    BY <1>1, <1>5, Taken
  <2>2. Sextet(text, 4 * q + 3) = Third(text, q)
    BY Sextets DEF EncodeInv
  <2>3. k + 1 = 4 * q + 3
    BY <1>6
  <2> QED
    BY <2>1, <2>2, <2>3
<1>8. /\ at \in Nat /\ at \in DOMAIN plain /\ at + 1 \in DOMAIN plain
      /\ \A n \in 1 .. at : n - 1 \in DOMAIN plain /\ n - 1 # at /\ n - 1 # at + 1
  BY <1>1, Room
<1>9. plain[at] + v = Byte(text, 3 * q + 2) /\ w = 64 * (Third(text, q) % 4)
  <2>1. 16 * (Second(text, q) % 16) + Third(text, q) \div 4 = Byte(text, 3 * q + 2)
    BY Together DEF EncodeInv
  <2> QED
    BY <1>6, <1>7, <2>1, Zenon
<1> HIDE DEF v, w
<1>10. /\ at' = at + 1
       /\ \A m \in DOMAIN plain :
            plain'[m] = IF m = at + 1 THEN w ELSE IF m = at THEN plain[at] + v ELSE plain[m]
  BY <1>1, <1>8, CompleteWithin
<1>11. Written'
  <2> SUFFICES ASSUME NEW n \in 1 .. at + 1 PROVE plain'[n - 1] = Byte(text, n)
    BY <1>1, <1>10 DEF Written
  <2>1. CASE n \in 1 .. at
    BY <1>2, <1>8, <1>10, <2>1, Zenon DEF Written
  <2>2. CASE n = at + 1
    <3>1. n - 1 = at /\ at # at + 1 /\ n = 3 * q + 2
      BY <1>6, <1>8, <2>2
    <3>2. plain'[at] = plain[at] + v
      BY <1>8, <1>10, <3>1, Zenon
    <3> QED
      BY <1>9, <3>1, <3>2
  <2> QED
    BY <1>8, <2>1, <2>2
<1>12. Held(k + 1, q)'
  <2>1. k + 1 = 4 * q + 3 /\ at' = 3 * q + 2 /\ plain'[at'] = w
    BY <1>6, <1>8, <1>10
  <2> QED
    BY <1>1, <1>9, <2>1 DEF Held
<1> QED
  BY <1>1, <1>5, <1>11, <1>12, TakenHolds

(* The fourth one, with which the group is complete.                       *)
LEMMA DecodeDHolds == CharSigned /\ EncodeInv /\ DecodeInv /\ HoldInv /\ DecodeD => HoldInv'
<1> SUFFICES ASSUME CharSigned, EncodeInv, DecodeInv, HoldInv, DecodeD PROVE HoldInv'
  OBVIOUS
<1>1. /\ step = "d" /\ next <= Len(code) /\ Fragment(code[next]) >= 0 /\ next' = next + 1
      /\ step' = "a" /\ code' = code /\ text' = text /\ at' = at + 1
      /\ plain' = Put(at, plain[at] + Bits)
  BY DEF DecodeD, Decode, More
<1>2. Written
  BY <1>1 DEF HoldInv, Decoding
<1>3. PICK f, k : Holds(f, k)
  BY <1>1 DEF HoldInv, Decoding
<1>4. PICK q \in Nat : Held(k, q)
  BY <1>3 DEF Holds
<1>5. Places(text, code, f) /\ Passed(f, k, next)
  BY <1>3 DEF Holds
<1>6. k = 4 * q + 3 /\ at = 3 * q + 2 /\ plain[at] = 64 * (Third(text, q) % 4)
  BY <1>1, <1>4 DEF Held
<1>7. Bits = Fourth(text, q)
  <2>1. Bits = Sextet(text, k + 1)
    BY <1>1, <1>5, Taken
  <2>2. Sextet(text, 4 * q + 4) = Fourth(text, q)
    BY Sextets DEF EncodeInv
  <2>3. k + 1 = 4 * q + 4
    BY <1>6
  <2> QED
    BY <2>1, <2>2, <2>3
<1>8. /\ at \in Nat /\ at \in DOMAIN plain
      /\ \A n \in 1 .. at : n - 1 \in DOMAIN plain /\ n - 1 # at
  BY <1>1, Room
<1>9. plain[at] + Bits = Byte(text, 3 * q + 3)
  <2>1. 64 * (Third(text, q) % 4) + Fourth(text, q) = Byte(text, 3 * q + 3)
    BY Together DEF EncodeInv
  <2> QED
    BY <1>6, <1>7, <2>1, Zenon
<1>10. \A m \in DOMAIN plain : plain'[m] = IF m = at THEN plain[at] + Bits ELSE plain[m]
  <2>1. \A m \in DOMAIN plain :
          Put(at, plain[at] + Bits)[m] = IF m = at THEN plain[at] + Bits ELSE plain[m]
    BY <1>8, PutWithin
  <2> QED
    BY <1>1, <2>1
<1>11. Written'
  <2> SUFFICES ASSUME NEW n \in 1 .. at + 1 PROVE plain'[n - 1] = Byte(text, n)
    BY <1>1 DEF Written
  <2>1. CASE n \in 1 .. at
    BY <1>2, <1>8, <1>10, <2>1, Zenon DEF Written
  <2>2. CASE n = at + 1
    <3>1. n - 1 = at /\ n = 3 * q + 3
      BY <1>6, <1>8, <2>2
    <3>2. plain'[at] = plain[at] + Bits
      BY <1>8, <1>10, Zenon
    <3> QED
      BY <1>9, <3>1, <3>2
  <2> QED
    BY <1>8, <2>1, <2>2
<1>12. Held(k + 1, q + 1)'
  <2>1. k + 1 = 4 * (q + 1) /\ at' = 3 * (q + 1)
    BY <1>1, <1>6
  <2> QED
    BY <1>1, <2>1 DEF Held
<1>13. q + 1 \in Nat
  OBVIOUS
<1> QED
  BY <1>1, <1>5, <1>11, <1>12, <1>13, TakenHolds

(* At the end every character has been read, and with them the last byte.  *)
LEMMA EndHolds == EncodeInv /\ HoldInv /\ DecodeEnd => HoldInv'
<1> SUFFICES ASSUME EncodeInv, HoldInv, DecodeEnd PROVE HoldInv'
  OBVIOUS
<1>1. /\ step \in {"a", "b", "c", "d"} /\ step \in Decoding /\ next > Len(code) /\ next' = next
      /\ step' = "decoded" /\ code' = code /\ text' = text /\ at' = at /\ plain' = plain
  BY DEF DecodeEnd, Decoding
<1>2. Written
  BY <1>1 DEF HoldInv
<1>3. PICK f, k : Holds(f, k)
  BY <1>1 DEF HoldInv
<1>4. PICK q \in Nat : Held(k, q)
  BY <1>3 DEF Holds
<1>5. Places(text, code, f) /\ Passed(f, k, next)
  BY <1>3 DEF Holds
<1>6. /\ text \in Seq(Bytes) /\ Len(code) \in Nat /\ next \in Nat /\ Size(text) \in Nat
  BY SizeBelow DEF EncodeInv
<1>7. k = Size(text)
  <2>1. k \in 0 .. Size(text) /\ \A j \in 1 .. Size(text) : j <= k <=> f[j] < next
    BY <1>5, Zenon DEF Passed
  <2>2. f \in [1 .. Size(text) -> 1 .. Len(code)]
    BY <1>5, Zenon DEF Places
  <2>3. \A j \in 1 .. Size(text) : f[j] < next
    BY <1>1, <1>6, <2>2
  <2> QED
    BY <1>6, <2>1, <2>3
<1>8. PICK p \in Nat : \/ Len(text) = 3 * p /\ Size(text) = 4 * p
                       \/ Len(text) = 3 * p + 1 /\ Size(text) = 4 * p + 2
                       \/ Len(text) = 3 * p + 2 /\ Size(text) = 4 * p + 3
  BY <1>6, SizeBelow
<1>9. at = Len(text)
  <2>1. \/ k = 4 * q /\ at = 3 * q
        \/ k = 4 * q + 1
        \/ k = 4 * q + 2 /\ at = 3 * q + 1
        \/ k = 4 * q + 3 /\ at = 3 * q + 2
    BY <1>1, <1>4 DEF Held
  <2> QED
    BY <1>7, <1>8, <2>1
<1>10. Held(k, q)' /\ Written' /\ Places(text', code', f) /\ Passed(f, k, next)'
  BY <1>1, <1>2, <1>5, <1>9 DEF Held, Written, Passed
<1>11. Holds(f, k)'
  BY <1>10, Zenon DEF Holds
<1> QED
  BY <1>10, <1>11, Zenon DEF HoldInv

(* So whatever the machines do.                                            *)
LEMMA HoldStep == CharSigned /\ EncodeInv /\ DecodeInv /\ HoldInv /\ [Next]_vars => HoldInv'
<1> SUFFICES ASSUME CharSigned, EncodeInv, DecodeInv, HoldInv, [Next]_vars PROVE HoldInv'
  OBVIOUS
<1>1. CASE EncodeA \/ EncodeB \/ EncodeC \/ BlockEnd
  <2>1. step' \in {"A", "B", "C", "encoded"}
    BY <1>1 DEF EncodeA, EncodeB, EncodeC, Encode, BlockEnd
  <2> QED
    BY <2>1 DEF HoldInv, Decoding
<1>2. CASE UNCHANGED vars
  <2>1. /\ step' = step /\ text' = text /\ code' = code /\ plain' = plain /\ at' = at /\ next' = next
    BY <1>2 DEF vars
  <2> QED
    BY <2>1 DEF HoldInv, Written, Holds, Held, Passed
<1> QED
  BY <1>1, <1>2, StartHolds, SkipHolds, DecodeAHolds, DecodeBHolds, DecodeCHolds,
     DecodeDHolds, EndHolds, Zenon DEF Next

(***************************************************************************)
(* Where char is signed, what is decoded is what was encoded, whatever has *)
(* come between the characters and whatever the padding: RoundTrip.        *)
(***************************************************************************)
THEOREM RoundTrips == ASSUME CharSigned PROVE Spec => []RoundTrip
<1>1. Init => HoldInv
  BY DEF Init, HoldInv, Decoding
<1>2. EncodeInv /\ HoldInv => RoundTrip
  <2> SUFFICES ASSUME EncodeInv, HoldInv, step = "decoded" PROVE Decoded = text
    BY DEF RoundTrip
  <2>1. Written /\ at = Len(text)
    <3>1. PICK f, k : Written /\ Holds(f, k)
      BY DEF HoldInv, Decoding
    <3>2. PICK q \in Nat : Held(k, q)
      BY <3>1 DEF Holds
    <3> QED
      BY <3>1, <3>2 DEF Held
  <2>2. text \in Seq(Bytes)
    BY DEF EncodeInv
  <2>3. text = [n \in 1 .. Len(text) |-> text[n]]
    BY <2>2
  <2>4. ASSUME NEW n \in 1 .. Len(text) PROVE plain[n - 1] = text[n]
    <3>1. n <= Len(text)
      BY <2>2
    <3> QED
      BY <2>1, <3>1, Zenon DEF Written, Byte
  <2>5. Decoded = [n \in 1 .. Len(text) |-> plain[n - 1]]
    BY <2>1, Zenon DEF Decoded
  <2> QED
    BY <2>3, <2>4, <2>5, Zenon
<1>3. EncodeInv /\ DecodeInv /\ HoldInv /\ [Next]_vars => HoldInv'
  BY HoldStep
<1> QED
  BY <1>1, <1>2, <1>3, Encodes, Decodes, PTL DEF Spec
=============================================================================
