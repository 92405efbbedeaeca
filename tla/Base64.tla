------------------------------- MODULE Base64 -------------------------------
(***************************************************************************)
(* helpers::encodeBase64 and decodeBase64, through which the values of the *)
(* keys go: libb64's two step machines, which write where a pointer points *)
(* into a string that was given its size beforehand.  In between, the code *)
(* may get characters that are not of the alphabet, or other padding.      *)
(*                                                                         *)
(* Bytes and characters are numbers; whether a char can be negative is the *)
(* choice of the platform.                                                 *)
(***************************************************************************)
EXTENDS Integers, Sequences, SequencesExt

CONSTANTS
  Texts,       \* what is encoded, a bound: sequences of bytes
  Foreign,     \* characters outside the alphabet that may come with the code
  CharSigned   \* char is signed (x86), or is not (Linux on ARM or POWER)

VARIABLES
  text,      \* the string that is encoded
  step,      \* base64_encodestep, then base64_decodestep
  carry,     \* bits of the last byte that are still to be written
  next,      \* the next byte, or character, to be read
  code,      \* codechar's string
  plain,     \* what plainchar writes to, by position
  at         \* plainchar

vars == <<text, step, carry, next, code, plain, at>>

Pad == 61   \* '='

(* base64_encode_value() and base64_decode_value() *)
EncodeValue(v) ==
  CASE v \in 0 .. 25  -> v + 65
    [] v \in 26 .. 51 -> v + 71
    [] v \in 52 .. 61 -> v - 4
    [] v = 62 -> 43
    [] v = 63 -> 47
DecodeValue(c) ==
  CASE c \in 65 .. 90  -> c - 65
    [] c \in 97 .. 122 -> c - 71
    [] c \in 48 .. 57  -> c + 4
    [] c = 43 -> 62
    [] c = 47 -> 63
    [] c = Pad -> -2
    [] OTHER -> -1

ASSUME Base64Assumption ==
  /\ \A string \in Texts : string \in Seq(0 .. 255)
  /\ \A c \in Foreign : c \in 0 .. 255 /\ DecodeValue(c) = -1
  /\ CharSigned \in BOOLEAN

(* The table and "fragment" are of type char. *)
Fragment(c) == IF CharSigned THEN DecodeValue(c) ELSE DecodeValue(c) % 256
-----------------------------------------------------------------------------
Init ==
  /\ text \in Texts
  /\ step = "A"
  /\ carry = 0
  /\ next = 1
  /\ code = <<>>
  /\ plain = <<>>
  /\ at = 0

Encode(from, to, c, rest) ==
  /\ step = from
  /\ next <= Len(text)
  /\ step' = to
  /\ code' = code \o c
  /\ carry' = rest
  /\ next' = next + 1
  /\ UNCHANGED <<text, plain, at>>

EncodeA ==
  LET byte == text[next] IN Encode("A", "B", <<EncodeValue(byte \div 4)>>, 16 * (byte % 4))
EncodeB ==
  LET byte == text[next]
  IN  Encode("B", "C", <<EncodeValue(carry + byte \div 16)>>, 4 * (byte % 16))
\* Mutant of EncodeC: the upper bits of the byte are masked too late.
EncodeUnmasked ==
  LET byte == text[next]
  IN  Encode("C", "A", <<EncodeValue(carry + byte \div 64), EncodeValue(byte % 32)>>, 0)
EncodeC ==
  LET byte == text[next]
  IN  Encode("C", "A", <<EncodeValue(carry + byte \div 64), EncodeValue(byte % 64)>>, 0)

(* base64_encode_blockend() *)
\* Mutant of BlockEnd: one '=' is as good as two for libb64 itself.
BlockEndOnce ==
  /\ step \in {"A", "B", "C"}
  /\ next > Len(text)
  /\ code' = IF step = "A" THEN code ELSE code \o <<EncodeValue(carry), Pad>>
  /\ step' = "encoded"
  /\ UNCHANGED <<text, carry, next, plain, at>>
BlockEnd ==
  /\ step \in {"A", "B", "C"}
  /\ next > Len(text)
  /\ code' = CASE step = "A" -> code
               [] step = "B" -> code \o <<EncodeValue(carry), Pad, Pad>>
               [] step = "C" -> code \o <<EncodeValue(carry), Pad>>
  /\ step' = "encoded"
  /\ UNCHANGED <<text, carry, next, plain, at>>

(* The code as another program may have written it: with its padding,      *)
(* without or with too much of it, and with a character in between.        *)
Variants(c) ==
  LET bare == SubSeq(c, 1, (4 * Len(text) + 2) \div 3)
  IN  {c, bare, Append(c, Pad)}
        \cup {InsertAt(c, n, x) : n \in 1 .. Len(c) + 1, x \in Foreign}
        \cup {InsertAt(bare, n, x) : n \in 1 .. Len(bare) + 1, x \in Foreign}

(* decodeBase64() returns at once if there is nothing to decode. *)
\* Mutant of Capacity: only whole groups of four are counted.
CapacityPadded(n) == (n \div 4) * 3
Capacity(n) == ((n + 3) \div 4) * 3
StartDecoding ==
  /\ step = "encoded"
  /\ code' \in Variants(code)
  /\ plain' = [n \in 0 .. Capacity(Len(code')) - 1 |-> 0]
  /\ next' = 1
  /\ at' = 0
  /\ carry' = 0
  /\ step' = IF code' = <<>> THEN "decoded" ELSE "a"
  /\ UNCHANGED text

(* A write through plainchar goes wherever it points. *)
Put(n, v) == [m \in DOMAIN plain \cup {n} |-> IF m = n THEN v ELSE plain[m]]
More == step \in {"a", "b", "c", "d"} /\ next <= Len(code)

Skip ==
  /\ More
  /\ Fragment(code[next]) < 0
  /\ next' = next + 1
  /\ UNCHANGED <<text, step, carry, code, plain, at>>

(***************************************************************************)
(* The lower bits of the character before are at plainchar already; those  *)
(* that are or-ed to them are written by this step, and the pointer moves. *)
(***************************************************************************)
Decode(from, to) ==
  /\ step = from
  /\ More
  /\ Fragment(code[next]) >= 0
  /\ step' = to
  /\ next' = next + 1
  /\ UNCHANGED <<text, carry, code>>
Bits == Fragment(code[next]) % 64

DecodeA ==
  /\ Decode("a", "b")
  /\ plain' = Put(at, 4 * Bits)
  /\ at' = at
Complete(bits, rest) ==
  LET whole == Put(at, plain[at] + bits)
  IN  /\ plain' = [m \in DOMAIN whole \cup {at + 1} |-> IF m = at + 1 THEN rest ELSE whole[m]]
      /\ at' = at + 1
DecodeB == Decode("b", "c") /\ Complete(Bits \div 16, 16 * (Bits % 16))
\* Mutant of DecodeC: the mask is that of the step before.
DecodeMasked == Decode("c", "d") /\ Complete((Bits % 16) \div 4, 64 * (Bits % 4))
DecodeC == Decode("c", "d") /\ Complete(Bits \div 4, 64 * (Bits % 4))
DecodeD ==
  /\ Decode("d", "a")
  /\ plain' = Put(at, plain[at] + Bits)
  /\ at' = at + 1

(* The string is cut to what plainchar has passed. *)
DecodeEnd ==
  /\ step \in {"a", "b", "c", "d"}
  /\ next > Len(code)
  /\ step' = "decoded"
  /\ UNCHANGED <<text, carry, next, code, plain, at>>

Next ==
  \/ EncodeA \/ EncodeB \/ EncodeC \/ BlockEnd
  \/ StartDecoding \/ Skip \/ DecodeA \/ DecodeB \/ DecodeC \/ DecodeD \/ DecodeEnd

Spec == Init /\ [][Next]_vars
-----------------------------------------------------------------------------
Decoded == [n \in 1 .. at |-> plain[n - 1]]

(***************************************************************************)
(* "it allows characters outside the alphabete and incorrect padding"      *)
(* (helpers.h): whatever is between the characters of the code, and with   *)
(* or without padding, what was encoded is what is decoded.                *)
(***************************************************************************)
RoundTrip == step = "decoded" => Decoded = text

(***************************************************************************)
(* Both machines stay within the strings that were resized for them, and   *)
(* the last look at *plainchar within the terminating NUL.                 *)
(***************************************************************************)
WithinBuffer ==
  /\ step \in {"A", "B", "C", "encoded"} => Len(code) <= (Len(text) * 4) \div 3 + 10
  /\ step \in {"a", "b", "c", "d", "decoded"} =>
       /\ DOMAIN plain = 0 .. Capacity(Len(code)) - 1
       /\ at <= Capacity(Len(code))

(***************************************************************************)
(* The server decodes the values of a transaction too, and not liberally:  *)
(* the code is, bit by bit and with its padding, the one of RFC 4648.      *)
(***************************************************************************)
Weights == <<128, 64, 32, 16, 8, 4, 2, 1>>
Bit(s, n) == IF n \div 8 < Len(s) THEN (s[n \div 8 + 1] \div Weights[(n % 8) + 1]) % 2 ELSE 0
Standard(s) ==
  LET group(n) == 32 * Bit(s, n) + 16 * Bit(s, n + 1) + 8 * Bit(s, n + 2)
                    + 4 * Bit(s, n + 3) + 2 * Bit(s, n + 4) + Bit(s, n + 5)
  IN  [j \in 1 .. 4 * ((Len(s) + 2) \div 3) |->
         IF 6 * (j - 1) < 8 * Len(s) THEN EncodeValue(group(6 * (j - 1))) ELSE Pad]
StandardCode == step = "encoded" => code = Standard(text)
=============================================================================
