------------------------------- MODULE Consul -------------------------------
(***************************************************************************)
(* ppconsul::Consul shared by threads: each call takes a client from the   *)
(* pool, makes one HTTP request with it and gives it back on every path,   *)
(* while any thread may call stop().  The pool's steps are those of        *)
(* ClientPool; a request is what CurlHttpClient and libcurl do between     *)
(* get() and the end of the ClientPtr.                                     *)
(*                                                                         *)
(* m_stopped is a relaxed atomic: a store by one thread reaches another in *)
(* its own time, so every thread has a view of the flag.                   *)
(***************************************************************************)
EXTENDS ClientPool

VARIABLES
  enableStop,     \* kw::enable_stop, as the constructor got it
  requestTimeout, \* whether kw::request_timeout is set (0, no limit, by default)
  stopped,        \* m_stopped
  seen,           \* each thread's view of m_stopped
  cancellable,    \* whether a client was created with a cancellation callback
  phase,          \* how far the thread's request is
  outcome,        \* how it ended
  late            \* history: the thread had seen the stop when it called

config == <<enableStop, requestTimeout>>
requestVars == <<config, stopped, seen, cancellable, phase, outcome, late>>
vars == <<poolVars, requestVars>>

(***************************************************************************)
(* "options"   the options of the handle are being set                     *)
(* "connect"   curl_easy_perform() is connecting                           *)
(* "transfer"  the request is on its way, the response not complete        *)
(* "done"      the client's method returned or threw                       *)
(***************************************************************************)
Phases    == {"none", "options", "connect", "transfer", "done"}
Statuses  == {"success", "not found", "bad status"}
Failures  == {"aborted", "timed out", "error"}
Outcomes  == Statuses \cup Failures \cup {"none"}
Performing(t) == phase[t] \in {"connect", "transfer"}

Init ==
  /\ PoolInit
  /\ enableStop \in BOOLEAN
  /\ requestTimeout \in BOOLEAN
  /\ stopped = FALSE
  /\ seen = [t \in Threads |-> FALSE]
  /\ cancellable = [c \in Clients |-> FALSE]
  /\ phase = [t \in Threads |-> "none"]
  /\ outcome = [t \in Threads |-> "none"]
  /\ late = [t \in Threads |-> FALSE]

Enter(t, p) == phase' = [phase EXCEPT ![t] = p]
End(t, o) ==
  /\ Enter(t, "done")
  /\ outcome' = [outcome EXCEPT ![t] = o]
  /\ UNCHANGED <<poolVars, config, stopped, seen, cancellable, late>>
-----------------------------------------------------------------------------
(* A thread calls Consul::get, put or del: getClient() comes first. *)
Call(t) ==
  /\ Get(t)
  /\ outcome' = [outcome EXCEPT ![t] = "none"]
  /\ late' = [late EXCEPT ![t] = seen[t]]
  /\ UNCHANGED <<config, stopped, seen, cancellable, phase>>

(* The steps inside the pool that the request does not notice. *)
LockMutex(t) == Lock(t) /\ UNCHANGED requestVars
PoolWork(t) ==
  /\ MoveBack(t) \/ FindEmpty(t) \/ PushBack(t) \/ PushFails(t) \/ Delete(t)
  /\ UNCHANGED requestVars

(* An idle client was found: its method is called. *)
Reuse(t) ==
  /\ PopBack(t)
  /\ Enter(t, "options")
  /\ UNCHANGED <<config, stopped, seen, cancellable, outcome, late>>

(* Mutant of CreateClient: the callback is forgotten. *)
CreateDeaf(t) ==
  /\ Create(t)
  /\ cancellable' = [cancellable EXCEPT ![held'[t]] = FALSE]
  /\ Enter(t, "options")
  /\ UNCHANGED <<config, stopped, seen, outcome, late>>

(* createClient() gives the new client a callback only if stop is enabled. *)
CreateClient(t) ==
  /\ Create(t)
  /\ cancellable' = [cancellable EXCEPT ![held'[t]] = enableStop]
  /\ Enter(t, "options")
  /\ UNCHANGED <<config, stopped, seen, outcome, late>>

(* The factory throws: the call ends without a request. *)
CreateThrows(t) ==
  /\ CreateFails(t)
  /\ outcome' = [outcome EXCEPT ![t] = "error"]
  /\ UNCHANGED <<config, stopped, seen, cancellable, phase, late>>

(* All options are set and curl_easy_perform() begins, or setopt throws. *)
SetOptions(t) ==
  /\ phase[t] = "options"
  /\ Enter(t, "connect")
  /\ UNCHANGED <<poolVars, config, stopped, seen, cancellable, outcome, late>>
(* Mutant of SetOptionThrows: a raw pointer in place of the ClientPtr, so  *)
(* an exception does not give the client back.                             *)
SetOptionLeaks(t) ==
  /\ phase[t] = "options"
  /\ Goto(t, "idle")
  /\ Enter(t, "none")
  /\ outcome' = [outcome EXCEPT ![t] = "error"]
  /\ UNCHANGED <<pool, mutex, held, alive, peak>>
  /\ UNCHANGED <<config, stopped, seen, cancellable, late>>
SetOptionThrows(t) ==
  /\ phase[t] = "options"
  /\ End(t, "error")

(* libcurl connects, or takes a connection it kept open. *)
Connect(t) ==
  /\ phase[t] = "connect"
  /\ Enter(t, "transfer")
  /\ UNCHANGED <<poolVars, config, stopped, seen, cancellable, outcome, late>>

(***************************************************************************)
(* progressCallback asks stopped(), through the callback of the client in  *)
(* use, and a yes ends the transfer with CURLE_ABORTED_BY_CALLBACK.        *)
(* libcurl asks about once a second and after every read, so in particular *)
(* between the last byte of a response and the end of the transfer.        *)
(***************************************************************************)
(* Mutant of PollSaysStop: having a callback is taken for its answer. *)
PollSaysYes(t) == cancellable[held[t]]
PollSaysStop(t) == cancellable[held[t]] /\ seen[t]
Abort(t) ==
  /\ Performing(t)
  /\ PollSaysStop(t)
  /\ End(t, "aborted")

(* The response is complete, whatever its status is. *)
Respond(t) ==
  /\ phase[t] = "transfer"
  /\ ~PollSaysStop(t)
  /\ \E s \in Statuses : End(t, s)

(* CURLE_OPERATION_TIMEDOUT: while connecting there always is a limit. *)
ConnectTimesOut(t) ==
  /\ phase[t] = "connect"
  /\ End(t, "timed out")
(* Mutant of RequestTimesOut: only the time to connect is limited. *)
ConnectOnlyTimesOut(t) ==
  /\ phase[t] = "connect"
  /\ requestTimeout
  /\ End(t, "timed out")
RequestTimesOut(t) ==
  /\ Performing(t)
  /\ requestTimeout
  /\ End(t, "timed out")

(* Any other CURLcode, a refused or a reset connection for one. *)
TransferFails(t) ==
  /\ Performing(t)
  /\ End(t, "error")

(***************************************************************************)
(* The full expression ends, or unwinds: the temporary ClientPtr releases  *)
(* the client before the caller sees a value or an exception.              *)
(***************************************************************************)
Finish(t) ==
  /\ phase[t] = "done"
  /\ Release(t)
  /\ Enter(t, "none")
  /\ UNCHANGED <<config, stopped, seen, cancellable, outcome, late>>

(* stop(): without enable_stop it throws logic_error and changes nothing. *)
Stop(t) ==
  /\ pc[t] = "idle"
  /\ enableStop
  /\ stopped' = TRUE
  /\ seen' = [seen EXCEPT ![t] = TRUE]
  /\ UNCHANGED <<poolVars, config, cancellable, phase, outcome, late>>

(* The store becomes visible to another thread. *)
See(t) ==
  /\ stopped
  /\ seen' = [seen EXCEPT ![t] = TRUE]
  /\ UNCHANGED <<poolVars, config, stopped, cancellable, phase, outcome, late>>

Transfer(t) ==
  \/ Connect(t) \/ Abort(t) \/ Respond(t)
  \/ ConnectTimesOut(t) \/ RequestTimesOut(t) \/ TransferFails(t)

(* What a thread in a call does by itself, without a wait. *)
Proceed(t) ==
  \/ PoolWork(t) \/ Reuse(t) \/ CreateClient(t) \/ CreateThrows(t)
  \/ SetOptions(t) \/ SetOptionThrows(t) \/ Finish(t)

Next ==
  \E t \in Threads :
    Call(t) \/ LockMutex(t) \/ Proceed(t) \/ Transfer(t) \/ Stop(t) \/ See(t)

Spec == Init /\ [][Next]_vars

(***************************************************************************)
(* Threads run, a free mutex is taken by a waiter, a relaxed store becomes *)
(* visible in finite time, libcurl keeps polling and its timers fire.      *)
(* Nothing is assumed of the server or of the network: a request may never *)
(* be answered.                                                            *)
(***************************************************************************)
RequestFairness ==
  /\ WF_vars(\E t \in Threads : LockMutex(t))
  /\ \A t \in Threads :
       /\ WF_vars(Proceed(t))
       /\ WF_vars(See(t))
       /\ WF_vars(Abort(t))
       /\ WF_vars(ConnectTimesOut(t))
       /\ WF_vars(RequestTimesOut(t))

FairSpec == Spec /\ RequestFairness
-----------------------------------------------------------------------------
TypeOK ==
  /\ PoolTypeOK
  /\ enableStop \in BOOLEAN
  /\ requestTimeout \in BOOLEAN
  /\ stopped \in BOOLEAN
  /\ seen \in [Threads -> BOOLEAN]
  /\ cancellable \in [Clients -> BOOLEAN]
  /\ phase \in [Threads -> Phases]
  /\ outcome \in [Threads -> Outcomes]
  /\ late \in [Threads -> BOOLEAN]

(***************************************************************************)
(* "No further requests can be done after this call" (README.md, stop): a  *)
(* call by a thread to which the stop was visible never returns a response,*)
(* also when it reuses a client that was created long before the stop      *)
(* (consul.cpp:61-68, http_client.cpp:128-136).                            *)
(***************************************************************************)
LateCallsFail ==
  \A t \in Threads : late[t] => outcome[t] \in Failures \cup {"none"}

(***************************************************************************)
(* OperationAborted tells the caller that stop() was called, and nothing   *)
(* else: no timeout, error or reused handle is reported as an abort.       *)
(***************************************************************************)
AbortMeansStopped ==
  \A t \in Threads : outcome[t] = "aborted" => enableStop /\ stopped

(***************************************************************************)
(* The inductive invariant.  A request runs exactly while its thread owns  *)
(* a ClientPtr, a view of the flag is never ahead of the flag, and every   *)
(* client has the callback of createClient(), however old it is.           *)
(***************************************************************************)
RequestOwnsClient ==
  \A t \in Threads :
    /\ phase[t] # "none" <=> pc[t] = "using"
    /\ phase[t] = "done" => outcome[t] # "none"

FlagSound ==
  /\ stopped => enableStop
  /\ \A t \in Threads : (seen[t] => stopped) /\ (late[t] => seen[t])

CallbackSound == \A c \in alive : cancellable[c] = enableStop

ConsulInv ==
  /\ TypeOK
  /\ RequestOwnsClient
  /\ FlagSound
  /\ CallbackSound
  /\ LateCallsFail
  /\ AbortMeansStopped

(* Sharing clients among calls keeps to the pool's own specification. *)
UsesPool == PoolSpec

(***************************************************************************)
(* With stop enabled, stop() ends every request in progress, a blocking    *)
(* query to a silent server included, without any request timeout.         *)
(***************************************************************************)
StopEndsRequests ==
  \A t \in Threads : (stopped /\ pc[t] = "using") ~> (pc[t] # "using")

(* With a request timeout set, every request ends, stop or no stop. *)
TimeoutEndsRequests ==
  \A t \in Threads : (requestTimeout /\ pc[t] = "using") ~> (pc[t] # "using")
=============================================================================
