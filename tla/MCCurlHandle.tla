---------------------------- MODULE MCCurlHandle ----------------------------
(* Every combination of TLS parameters is constructed.  The options they   *)
(* set are not those that calls set, so one of them goes on to serve calls *)
(* for all: that in which two parameters share an option.                  *)
EXTENDS CurlHandle

SharedOption == {{"certType", "caPath"}}
=============================================================================
