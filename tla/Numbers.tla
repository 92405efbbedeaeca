------------------------------ MODULE Numbers ------------------------------
(***************************************************************************)
(* Indexes are 64-bit integers in the interface of the library and at the  *)
(* server, but json11 knows only int and double: one that is read from or  *)
(* written into JSON goes through a double and keeps as many leading bits  *)
(* as a double has.  In a query all of its digits are printed.             *)
(***************************************************************************)
EXTENDS Integers

CONSTANT Precision   \* bits of a double's significand: 53, fewer in a run

ASSUME NumbersAssumption == Precision \in Nat \ {0, 1}

(* Up to here, every integer is a double. *)
Exact == 2 ^ Precision

(* The distance between doubles at n, once they are more than one apart. *)
Ulp(n) ==
  2 ^ (CHOOSE e \in 0 .. n : Exact * 2 ^ e <= 2 * n /\ n < Exact * 2 ^ e)

(* The double nearest to n, of two the even one. *)
Double(n) ==
  IF n <= Exact THEN n
  ELSE LET ulp == Ulp(n)
           below == n \div ulp
           half == 2 * (n % ulp)
       IN  ulp * (IF half < ulp \/ (half = ulp /\ below % 2 = 0) THEN below ELSE below + 1)

(* parse_number() reads up to nine digits into an int, more by strtod();   *)
(* load() converts either into a double, and that into a uint64_t.         *)
\* Mutant of LoadUint64: a float, with fewer bits, is in between.
LoadFloat(n) == IF n <= Exact \div 2 THEN n ELSE 4 * ((n + 2) \div 4)
LoadUint64(n) == Double(n)

(* FlagsType and IndexType of TxnOpAppender are double, and dump() prints  *)
(* 17 digits, enough to tell any two doubles apart; that it takes to an    *)
(* exponent from 1e17 on is left out.                                      *)
DumpDouble(n) == Double(n)
=============================================================================
