----------------------------- MODULE CurlHandle -----------------------------
(***************************************************************************)
(* curl::CurlHttpClient: one easy handle that lives as long as its client  *)
(* and serves one call after another.  The options of a handle outlive the *)
(* call that set them, and most hold pointers into locals of that call, so *)
(* what matters is what a handle still carries when the next call, after a *)
(* success, an abort or an exception half way through its options, lets    *)
(* libcurl run.  The pool gives a handle to one thread at a time           *)
(* (ClientPool), so there is one caller here; libcurl and the server are   *)
(* the environment.                                                        *)
(***************************************************************************)
EXTENDS Naturals, Sequences, FiniteSets

CONSTANTS
  MaxCalls,     \* bound on the calls one handle serves
  MaxSize,      \* bound on the pieces a request or response body has
  Serving       \* bound: the TLS configurations whose handles serve calls

ASSUME HandleAssumption ==
  /\ MaxCalls \in Nat
  /\ MaxSize \in Nat

VARIABLES
  config,       \* what the constructor is given: the fields of TlsConfig that
                \* are set (TRUE, or not empty), and the cancellation callback
  pc,           \* what the client is doing
  at,           \* the next of the setopt calls (and others that may throw) of Script
  opt,          \* the options of m_handle
  headers,      \* m_headers: the call whose curl_slist is alive, or None
  call, kind,   \* number of the current or last call, and its method
  size, sent,   \* of a PUT: data.size(), and how far its ReadContext is
  answer,       \* the local that the call returns: status and body so far
  conn,         \* libcurl's connection
  stored,       \* the pieces of the request body that the server has
  reply,        \* what the server sends
  result        \* what the last call ended with
vars == <<config, pc, at, opt, headers, call, kind, size, sent,
                answer, conn, stored, reply, result>>

Calls == 1 .. MaxCalls
None  == 0
Kinds == {"get", "put", "del"}
Codes == {0, 100, 200, 404}   \* 0: of a Status that no status line has set
Success(code) == code \div 100 = 2

TlsFields == {"cert", "certType", "key", "keyType", "keyPass", "caPath",
              "caInfo", "verifyPeer", "verifyHost", "verifyStatus"}
ConfigFields == TlsFields \cup {"cancellationCallback"}

Set(option, value) == <<option, value>>
If(cond, step) == IF cond THEN <<step>> ELSE <<>>
-----------------------------------------------------------------------------
(***************************************************************************)
(* setupTls().  The value of an option is the field it was set from; a     *)
(* field that is not set is an empty string.                               *)
(***************************************************************************)
(* Mutant of SetupTls: caPath comes before the two types. *)
SetupTlsReordered(cfg) ==
     If("cert" \in cfg, Set("SSLCERT", "cert"))
  \o If("caPath" \in cfg, Set("CAPATH", "caPath"))
  \o If("certType" \in cfg, Set("CAPATH", "certType"))
  \o If("key" \in cfg, Set("SSLKEY", "key"))
  \o If("caInfo" \in cfg, Set("CAINFO", "caInfo"))
  \o If("keyPass" \in cfg, Set("KEYPASSWD", "keyPass"))
  \o <<Set("SSL_VERIFYPEER", "verifyPeer" \in cfg),
       Set("SSL_VERIFYHOST", "verifyHost" \in cfg)>>
  \o If("verifyStatus" \in cfg, Set("SSL_VERIFYSTATUS", TRUE))
SetupTls(cfg) ==
     If("cert" \in cfg, Set("SSLCERT", "cert"))
  \o If("certType" \in cfg, Set("CAPATH", "certType"))
  \o If("key" \in cfg, Set("SSLKEY", "key"))
  \o If("keyType" \in cfg,
        Set("CAPATH", IF "certType" \in cfg THEN "certType" ELSE "empty"))
  \o If("caPath" \in cfg, Set("CAPATH", "caPath"))
  \o If("caInfo" \in cfg, Set("CAINFO", "caInfo"))
  \o If("keyPass" \in cfg, Set("KEYPASSWD", "keyPass"))
  \o <<Set("SSL_VERIFYPEER", "verifyPeer" \in cfg),
       Set("SSL_VERIFYHOST", "verifyHost" \in cfg)>>
  \o If("verifyStatus" \in cfg, Set("SSL_VERIFYSTATUS", TRUE))

Progress(cfg) ==
  IF "cancellationCallback" \in cfg
  THEN <<Set("NOPROGRESS", FALSE), Set("XFERINFOFUNCTION", "progressCallback"),
         Set("XFERINFODATA", "this")>>
  ELSE <<Set("NOPROGRESS", TRUE)>>
Construction(cfg) ==
  <<Set("ERRORBUFFER", "m_errBuffer")>>
  \o Progress(cfg)
  \o <<Set("WRITEFUNCTION", "append"), Set("READFUNCTION", "readCallback"),
       Set("NOSIGNAL", TRUE), Set("TIMEOUT_MS", "requestTimeout"),
       Set("CONNECTTIMEOUT_MS", "connectTimeout"), Set("HTTP_VERSION", "1.1")>>
  \o SetupTls(cfg)

(***************************************************************************)
(* The options of a call, in the order of get(), put() and del().  A       *)
(* pointer to a local of call n is n; of HEADERDATA the type matters too,  *)
(* for the callback casts it.  setHeaders() first builds a list and moves  *)
(* it into m_headers, which frees the list of an earlier call.  METHOD is  *)
(* what CURLOPT_HTTPGET, or CURLOPT_UPLOAD and then CURLOPT_PUT, ask for.  *)
(***************************************************************************)
SetHeaders(n) == <<Set("m_headers", n), Set("HTTPHEADER", n)>>

(* Mutants of GetOptions: the method a del() left stays; so does the header *)
(* callback of a put().                                                     *)
GetKeepsMethod(n) ==
  <<Set("HEADERFUNCTION", "GetResponse"), Set("URL", n), Set("WRITEDATA", n),
    Set("HEADERDATA", <<"GetResponse", n>>), Set("METHOD", "GET")>> \o SetHeaders(n)
GetKeepsCallback(n) ==
  <<Set("CUSTOMREQUEST", "none"), Set("URL", n), Set("WRITEDATA", n),
    Set("HEADERDATA", <<"GetResponse", n>>), Set("METHOD", "GET")>> \o SetHeaders(n)
GetOptions(n) ==
  <<Set("HEADERFUNCTION", "GetResponse"),
    Set("CUSTOMREQUEST", "none"),
    Set("URL", n),
    Set("WRITEDATA", n),
    Set("HEADERDATA", <<"GetResponse", n>>),
    Set("METHOD", "GET")>> \o SetHeaders(n)

PutOptions(n) ==
  <<Set("HEADERFUNCTION", "Status"),
    Set("CUSTOMREQUEST", "none"),
    Set("URL", n),
    Set("WRITEDATA", n),
    Set("HEADERDATA", <<"Status", n>>),
    Set("METHOD", "PUT"),
    Set("METHOD", "PUT"),
    Set("INFILESIZE", n),
    Set("READDATA", n)>> \o SetHeaders(n)

DelOptions(n) ==
  <<Set("HEADERFUNCTION", "Status"),
    Set("URL", n),
    Set("WRITEDATA", n),
    Set("HEADERDATA", <<"Status", n>>),
    Set("METHOD", "GET"),
    Set("CUSTOMREQUEST", "DELETE")>> \o SetHeaders(n)

Options(k, n) ==
  CASE k = "get" -> GetOptions(n)
    [] k = "put" -> PutOptions(n)
    [] k = "del" -> DelOptions(n)

OptionNames ==
  {"ERRORBUFFER", "NOPROGRESS", "XFERINFOFUNCTION", "XFERINFODATA",
   "WRITEFUNCTION", "READFUNCTION", "NOSIGNAL", "TIMEOUT_MS",
   "CONNECTTIMEOUT_MS", "HTTP_VERSION", "SSLCERT", "SSLCERTTYPE", "SSLKEY",
   "SSLKEYTYPE", "KEYPASSWD", "CAPATH", "CAINFO", "SSL_VERIFYPEER",
   "SSL_VERIFYHOST", "SSL_VERIFYSTATUS", "HEADERFUNCTION", "CUSTOMREQUEST",
   "URL", "WRITEDATA", "HEADERDATA", "METHOD", "INFILESIZE", "READDATA",
   "HTTPHEADER"}

(* What curl_easy_init() leaves in them. *)
Defaults ==
  [o \in OptionNames |->
     CASE o \in {"URL", "WRITEDATA", "INFILESIZE", "READDATA", "HTTPHEADER"} -> None
       [] o = "HEADERDATA" -> <<"none", None>>
       [] o \in {"SSL_VERIFYPEER", "SSL_VERIFYHOST"} -> TRUE
       [] o = "SSL_VERIFYSTATUS" -> FALSE
       [] o = "METHOD" -> "GET"
       [] OTHER -> "none"]

NoAnswer == [status |-> 0, index |-> 0, body |-> 0]
NoReply  == [status |-> 0, index |-> 0, body |-> 0, interim |-> FALSE,
             http11 |-> TRUE, wire |-> <<>>]
NoResult == [ok |-> FALSE, answer |-> NoAnswer]

Init ==
  /\ config \in SUBSET ConfigFields
  /\ pc = "construct"
  /\ at = 1
  /\ opt = Defaults
  /\ headers = None
  /\ call = None /\ kind = "get" /\ size = 0 /\ sent = 0
  /\ answer = NoAnswer
  /\ conn = "none"
  /\ stored = <<>>
  /\ reply = NoReply
  /\ result = NoResult
-----------------------------------------------------------------------------
Script == IF pc = "construct" THEN Construction(config) ELSE Options(kind, call)
ToSet  == pc \in {"construct", "set"} /\ at <= Len(Script)
AllSet == at = Len(Script) + 1

Performing == pc \in {"send", "status", "head", "body"}
callVars   == <<config, call, kind, size>>
wireVars   == <<conn, stored, reply>>

(* setopt() succeeds, or the list of headers replaces the one before. *)
SetOption ==
  /\ ToSet
  /\ LET o == Script[at][1]
         v == Script[at][2]
     IN  IF o = "m_headers"
         THEN headers' = v /\ UNCHANGED opt
         ELSE opt' = [opt EXCEPT ![o] = v] /\ UNCHANGED headers
  /\ at' = at + 1
  /\ UNCHANGED <<pc, sent, answer, result, callVars, wireVars>>

(* The constructor returns, or throws and takes the handle with it. *)
Constructed ==
  /\ pc = "construct"
  /\ AllSet
  /\ pc' = "idle"
  /\ UNCHANGED <<at, opt, headers, sent, answer, result, callVars, wireVars>>
ConstructorThrows ==
  /\ pc = "construct"
  /\ ToSet
  /\ pc' = "deleted"
  /\ UNCHANGED <<at, opt, headers, sent, answer, result, callVars, wireVars>>

(* get(), put() or del() is called: its locals come into being. *)
Begin(k, n) ==
  /\ pc = "idle"
  /\ call < MaxCalls /\ config \in Serving
  /\ call' = call + 1
  /\ kind' = k
  /\ size' = IF k = "put" THEN n ELSE 0
  /\ sent' = 0
  /\ answer' = NoAnswer
  /\ result' = NoResult
  /\ at' = 1
  /\ pc' = "set"
  /\ UNCHANGED <<config, opt, headers, wireVars>>

(* setopt() or curl_slist_append() fails; the locals are gone, the options stay. *)
SetOptionThrows ==
  /\ pc = "set"
  /\ ToSet
  /\ pc' = "idle"
  /\ UNCHANGED <<at, opt, headers, sent, answer, result, callVars, wireVars>>

(***************************************************************************)
(* perform(): libcurl takes the connection it kept, or makes a new one.    *)
(***************************************************************************)
Perform ==
  /\ pc = "set"
  /\ AllSet
  /\ pc' = "send"
  /\ conn' \in {conn, "new"} \ {"none"}
  /\ stored' = <<>>
  /\ UNCHANGED <<at, opt, headers, sent, answer, reply, result, callVars>>

(* The request that goes over the wire is made of the options alone. *)
Wire ==
  [method  |-> IF opt["CUSTOMREQUEST"] # "none" THEN opt["CUSTOMREQUEST"]
               ELSE opt["METHOD"],
   url     |-> opt["URL"],
   headers |-> opt["HTTPHEADER"],
   body    |-> IF opt["METHOD"] = "PUT" THEN opt["READDATA"] ELSE None]

(* readCallback(): the next piece, and the ReadContext moves on. *)
(* Mutants of ReadPiece: reading on at the end; copying from the start of  *)
(* the data every time.                                                    *)
ReadTooFar ==
  /\ pc = "send"
  /\ opt["METHOD"] = "PUT"
  /\ sent <= size
  /\ sent' = sent + 1
  /\ stored' = Append(stored, sent + 1)
  /\ UNCHANGED <<pc, at, opt, headers, answer, conn, reply, result, callVars>>
ReadFromStart ==
  /\ pc = "send"
  /\ opt["METHOD"] = "PUT"
  /\ sent < size
  /\ sent' = sent + 1
  /\ stored' = Append(stored, 1)
  /\ UNCHANGED <<pc, at, opt, headers, answer, conn, reply, result, callVars>>
ReadPiece ==
  /\ pc = "send"
  /\ opt["METHOD"] = "PUT"
  /\ sent < size
  /\ sent' = sent + 1
  /\ stored' = Append(stored, sent + 1)
  /\ UNCHANGED <<pc, at, opt, headers, answer, conn, reply, result, callVars>>

(***************************************************************************)
(* The kept connection turns out dead.  libcurl repeats the request on a   *)
(* new one, unless it has read some of the body: the client registers no   *)
(* function to rewind, so that is an error (see TransferFails).            *)
(***************************************************************************)
Resend ==
  /\ pc = "send"
  /\ conn = "kept"
  /\ sent = 0
  /\ conn' = "new"
  /\ UNCHANGED <<pc, at, opt, headers, sent, answer, stored, reply, result, callVars>>

(***************************************************************************)
(* The server answers, after an interim 100 or not, in a status line that  *)
(* is HTTP/1.1 or not.  It accepts a body only when it has as many pieces as  *)
(* CURLOPT_INFILESIZE_LARGE announced, and may refuse one before that.     *)
(***************************************************************************)
Answer ==
  /\ pc = "send"
  /\ \E c \in {200, 404}, b \in 0 .. MaxSize, i, h \in BOOLEAN, x \in 0 .. 1 :
       /\ c = 200 => Len(stored) = size
       /\ reply' = [status |-> c, index |-> x, body |-> b, interim |-> i,
                    http11 |-> h, wire |-> Wire]
  /\ pc' = "status"
  /\ UNCHANGED <<at, opt, headers, sent, answer, conn, stored, result, callVars>>

(* A callback writes where its data pointer says: to this call's answer,   *)
(* if it is this call's.                                                   *)
Write(pointer, f, v) ==
  answer' = IF pointer = call THEN [answer EXCEPT ![f] = v] ELSE answer

(* parseStatus() in both header callbacks; a later line overwrites. *)
InterimStatusLine ==
  /\ pc = "status"
  /\ reply.interim
  /\ Write(opt["HEADERDATA"][2], "status", 100)
  /\ reply' = [reply EXCEPT !.interim = FALSE]
  /\ UNCHANGED <<pc, at, opt, headers, sent, conn, stored, result, callVars>>
(* Mutant of StatusLine: the first status line of a response is kept. *)
FirstStatusLine ==
  /\ pc = "status"
  /\ ~reply.interim
  /\ IF reply.http11 /\ answer.status = 0
     THEN Write(opt["HEADERDATA"][2], "status", reply.status)
     ELSE UNCHANGED answer
  /\ pc' = "head"
  /\ UNCHANGED <<at, opt, headers, sent, result, callVars, wireVars>>
StatusLine ==
  /\ pc = "status"
  /\ ~reply.interim
  /\ IF reply.http11
     THEN Write(opt["HEADERDATA"][2], "status", reply.status)
     ELSE UNCHANGED answer
  /\ pc' = "head"
  /\ UNCHANGED <<at, opt, headers, sent, result, callVars, wireVars>>

(* headerCallback() keeps X-Consul-Index, headerStatusCallback() does not. *)
HeaderLines ==
  /\ pc = "head"
  /\ IF opt["HEADERFUNCTION"] = "GetResponse"
     THEN Write(opt["HEADERDATA"][2], "index", reply.index)
     ELSE UNCHANGED answer
  /\ pc' = "body"
  /\ UNCHANGED <<at, opt, headers, sent, result, callVars, wireVars>>

(* writeCallback() appends. *)
received == IF opt["WRITEDATA"] = call THEN answer.body ELSE reply.body
WritePiece ==
  /\ pc = "body"
  /\ received < reply.body
  /\ Write(opt["WRITEDATA"], "body", answer.body + 1)
  /\ UNCHANGED <<pc, at, opt, headers, sent, result, callVars, wireVars>>

(* curl_easy_perform() succeeds, the call returns, the connection is kept. *)
Return ==
  /\ pc = "body"
  /\ received = reply.body
  /\ result' = [ok |-> TRUE, answer |-> answer]
  /\ pc' = "idle"
  /\ conn' = "kept"
  /\ UNCHANGED <<at, opt, headers, sent, answer, stored, reply, callVars>>

(* It fails at any point: abort, timeout, reset, no rewind.  The call throws. *)
TransferFails ==
  /\ Performing
  /\ pc' = "idle"
  /\ conn' = "none"
  /\ UNCHANGED <<at, opt, headers, sent, answer, stored, reply, result, callVars>>

Next ==
  \/ SetOption \/ Constructed \/ ConstructorThrows
  \/ \E k \in Kinds, n \in 0 .. MaxSize : Begin(k, n)
  \/ SetOptionThrows \/ Perform
  \/ ReadPiece \/ Resend \/ Answer \/ InterimStatusLine \/ StatusLine
  \/ HeaderLines \/ WritePiece \/ Return \/ TransferFails

Spec == Init /\ [][Next]_vars
-----------------------------------------------------------------------------
TypeOK ==
  /\ config \subseteq ConfigFields
  /\ pc \in {"construct", "deleted", "idle", "set", "send", "status", "head", "body"}
  /\ DOMAIN opt = OptionNames
  /\ opt["METHOD"] \in {"GET", "PUT"}
  /\ opt["CUSTOMREQUEST"] \in {"none", "DELETE"}
  /\ headers \in Calls \cup {None} /\ call \in Calls \cup {None}
  /\ kind \in Kinds
  /\ size \in 0 .. MaxSize /\ sent \in 0 .. size /\ Len(stored) \in 0 .. MaxSize
  /\ answer.status \in Codes /\ answer.body \in 0 .. MaxSize
  /\ conn \in {"none", "new", "kept"}
  /\ result.ok \in BOOLEAN

(***************************************************************************)
(* Whatever calls came before and wherever they stopped, what goes over    *)
(* the wire is this call's request: no DELETE is left over in              *)
(* CURLOPT_CUSTOMREQUEST, no upload in CURLOPT_UPLOAD, no other URL, token *)
(* or body (http_client.cpp:250-307).                                      *)
(***************************************************************************)
Asked ==
  [method  |-> CASE kind = "get" -> "GET" [] kind = "put" -> "PUT"
                 [] kind = "del" -> "DELETE",
   url     |-> call,
   headers |-> call,
   body    |-> IF kind = "put" THEN call ELSE None]
WireIsThisCall == Performing => Wire = Asked

(***************************************************************************)
(* Every pointer libcurl follows while it runs is to a live object of the  *)
(* type its callback casts it to: locals of earlier calls are gone, and so *)
(* is the list of headers that setHeaders() freed                          *)
(* (http_client.cpp:324-329).                                              *)
(***************************************************************************)
PointersLive ==
  Performing =>
    /\ opt["WRITEDATA"] = call
    /\ opt["HEADERDATA"] = <<opt["HEADERFUNCTION"], call>>
    /\ opt["METHOD"] = "PUT" => opt["READDATA"] = call /\ opt["INFILESIZE"] = call
    /\ opt["HTTPHEADER"] = headers

(***************************************************************************)
(* A call that returns does so with the whole of the server's answer to    *)
(* its own request: not the status of an interim response, nor anything of *)
(* an earlier call.  A status line that parseStatus() does not recognise   *)
(* is never taken for success.                                             *)
(***************************************************************************)
ReturnsOwnReply ==
  result.ok =>
    /\ reply.wire = Asked
    /\ result.answer.body = reply.body
    /\ kind = "get" => result.answer.index = reply.index
    /\ reply.http11 => result.answer.status = reply.status
    /\ Success(result.answer.status) => reply.status = result.answer.status

(***************************************************************************)
(* When a PUT returns success the server has all of the data, each piece   *)
(* once and in order, although the ReadContext cannot be rewound when      *)
(* libcurl has to repeat a request on a new connection.                    *)
(***************************************************************************)
UploadExact ==
  result.ok /\ kind = "put" /\ Success(result.answer.status) =>
    stored = [i \in 1 .. size |-> i]

(***************************************************************************)
(* The options consul.h:51-70 names for the TLS parameters.                *)
(***************************************************************************)
Documented ==
  [cert |-> "SSLCERT", certType |-> "SSLCERTTYPE", key |-> "SSLKEY",
   keyType |-> "SSLKEYTYPE", keyPass |-> "KEYPASSWD", caPath |-> "CAPATH",
   caInfo |-> "CAINFO"]
Usable == pc \notin {"construct", "deleted"}

(* Each TLS parameter that is given ends up in the option it is for. *)
TlsAsDocumented ==
  Usable => \A f \in config \cap DOMAIN Documented : opt[Documented[f]] = f

(***************************************************************************)
(* All parameters but the two types do, in any combination: what setupTls  *)
(* sets for one is not overwritten by another that shares its option, and  *)
(* no verification is weaker than asked.                                   *)
(***************************************************************************)
TlsUndisturbed ==
  Usable =>
    /\ \A f \in config \cap DOMAIN Documented :
         f \notin {"certType", "keyType"} => opt[Documented[f]] = f
    /\ opt["SSL_VERIFYPEER"] = ("verifyPeer" \in config)
    /\ opt["SSL_VERIFYHOST"] = ("verifyHost" \in config)
    /\ opt["SSL_VERIFYSTATUS"] = ("verifyStatus" \in config)
=============================================================================
