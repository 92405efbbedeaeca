------------------------------ MODULE MCWatch ------------------------------
(***************************************************************************)
(* One value is enough: what is watched is there or is missing, and a      *)
(* write may leave it as it was.  Three indexes let a restore lose two     *)
(* writes and others take their places.                                    *)
(***************************************************************************)
EXTENDS Watch

OneValue == {"v"}
=============================================================================
