------------------------------ MODULE MCBase64 ------------------------------
(* Every length up to a full group and one byte, of bytes that differ in   *)
(* all the places where the machines cut them; and every byte alone, for   *)
(* the tables.                                                             *)
EXTENDS Base64

Bytes      == {0, 90, 255}
ShortTexts == UNION {[1 .. n -> Bytes] : n \in 0 .. 4} \cup {<<b>> : b \in 0 .. 255}
Line       == {10, 45, 200}   \* a line feed, '-' and a byte over 127
=============================================================================
