------------------------------- MODULE Agent -------------------------------
(***************************************************************************)
(* ppconsul::agent::Agent: programs register services and checks with the  *)
(* local agent, report the status of TTL checks, deregister, crash and     *)
(* start again.  Every method is one PUT that takes effect when the agent  *)
(* processes it, which may be after its caller gave up.  A service and its *)
(* check are named by ids that the library and the agent each make up from *)
(* what the program gave: the two must mean the same.                      *)
(*                                                                         *)
(* The agent is the environment, as far as the repository's tests of it    *)
(* describe it.  Services and checks are named by strings.                 *)
(***************************************************************************)
EXTENDS Parameters, FiniteSets, SequencesExt

CONSTANTS
  Callers,       \* programs, each with an Agent object of its own
  ServicesOf,    \* the <<name, id>> each registers services with; Empty for no id
  ChecksOf,      \* the <<name, id>> each registers checks of the node with
  CheckTypes,    \* the alternatives of CheckParams they use
  MaxCalls       \* bound on the number of calls

\* What the comments promise: "set to the service's name by default".
IdOf(named) == IF named[2] = Empty THEN named[1] ELSE named[2]
ServiceIds(t) == {IdOf(n) : n \in ServicesOf[t]}
CheckIds(t)   == {IdOf(n) : n \in ChecksOf[t]}

(* CheckConfigSaver: the key that tells the agent what kind of check it is. *)
CheckConfig ==
  [TtlCheck |-> "ttl", ScriptCheck |-> "script", CommandCheck |-> "args", HttpCheck |-> "http",
   TcpCheck |-> "tcp", DockerScriptCheck |-> "docker_container_id",
   DockerCommandCheck |-> "docker_container_id"]

Services     == UNION {ServiceIds(t) : t \in Callers}
NodeCheckIds == UNION {CheckIds(t) : t \in Callers}

(* The agent's own name for the check of a service. *)
AgentCheckId(s) == "service:" \o s

\* Every id has one owner, and strings that differ differ behind a prefix.
ASSUME AgentAssumption ==
  /\ \A s, u \in Services : AgentCheckId(s) = AgentCheckId(u) => s = u
  /\ \A t, u \in Callers : t # u => ServiceIds(t) \cap ServiceIds(u) = {}
  /\ \A t, u \in Callers : t # u => CheckIds(t) \cap CheckIds(u) = {}
  /\ CheckTypes \subseteq DOMAIN CheckConfig /\ MaxCalls \in Nat

(***************************************************************************)
(* Checks of the node share their names with those of services: a program  *)
(* may, but should not, give one an id such as "service:web".              *)
(***************************************************************************)
IdsApart == \A s \in Services : AgentCheckId(s) \notin NodeCheckIds

VARIABLES
  agent,         \* the agent's services and checks
  alive,         \* the programs that run
  call,          \* each program's last request
  net,           \* how far it is
  status,        \* of the agent's answer
  orphans,       \* requests whose callers gave up and the agent still has
  result,        \* what the last method returned or threw
  calls,         \* the number of calls so far
  mine,          \* history: what each program is responsible for, as check ids
  reaped,        \* history: the services registered to be removed if abandoned
  fate           \* history: what the request did at the agent

vars == <<agent, alive, call, net, status, orphans, result, calls, mine, reaped, fate>>

Statuses == {"passing", "warning", "critical"}
NoFate   == [service |-> Empty, status |-> "none", repeated |-> FALSE, again |-> FALSE]
-----------------------------------------------------------------------------
(***************************************************************************)
(* The requests.  "meant" is the caller's intent, which the agent does not *)
(* see: the check, the service that it is of, Empty for one of the node,   *)
(* and the status or whether the service is to be removed.                 *)
(***************************************************************************)
\* Mutant of ServiceCheckId: the id of the service itself.
BareServiceId(s)  == s
ServiceCheckId(s) == "service:" \o s

(* The "Check" of a service, and checkRegistrationJson(): a duration of 0   *)
(* is not written.                                                         *)
NoCheck == [kind |-> "none", deregister |-> FALSE]
\* Mutant of CheckJson: the duration is not written.
CheckWithoutDeregister(check, after) == [kind |-> CheckConfig[check], deregister |-> FALSE]
CheckJson(check, after) == [kind |-> CheckConfig[check], deregister |-> after # 0]

(* CheckRegistrationData, and the two constructors of                      *)
(* ServiceRegistrationData, with and without a check.                      *)
CheckOf(args) ==
  IF Given("check", args)
  THEN CheckJson(GetOpt("check", "none", args), GetOpt("deregisterCriticalServiceAfter", 0, args))
  ELSE NoCheck
\* Mutants of Registration: the id, or the name, is not passed on.
RegistrationByName(args) ==
  [id |-> Empty, name |-> GetOpt("name", Empty, args), check |-> CheckOf(args)]
RegistrationNameless(args) ==
  [id |-> GetOpt("id", Empty, args), name |-> Empty, check |-> CheckOf(args)]
Registration(args) ==
  [id |-> GetOpt("id", Empty, args), name |-> GetOpt("name", Empty, args), check |-> CheckOf(args)]

NoBody   == [id |-> Empty, name |-> Empty, check |-> NoCheck]
NoIntent == [id |-> Empty, service |-> Empty, status |-> "none", remove |-> FALSE]
OfNode(c) == [NoIntent EXCEPT !.id = c]
OfTheService(s) == [NoIntent EXCEPT !.id = AgentCheckId(s), !.service = s]

Request(path, target, body, meant) ==
  [path |-> path, target |-> target, body |-> body, meant |-> meant]
NoRequest == Request("none", Empty, NoBody, NoIntent)

RegisterServiceRequest(args, meant) ==
  Request("service/register", Empty, Registration(args), meant)
RegisterCheckRequest(args, meant) ==
  Request("check/register", Empty, Registration(args), meant)
DeregisterServiceRequest(s) ==
  Request("service/deregister", s, NoBody, OfTheService(s))
DeregisterCheckRequest(c) ==
  Request("check/deregister", c, NoBody, OfNode(c))

UpdateUrl(new) ==
  CASE new = "passing" -> "check/pass" [] new = "warning" -> "check/warn"
    [] new = "critical" -> "check/fail"
UpdateCheckRequest(c, new, meant) ==
  Request(UpdateUrl(new), c, NoBody, [meant EXCEPT !.status = new])
-----------------------------------------------------------------------------
(***************************************************************************)
(* The agent.  An outcome is its next state and the status of its answer.  *)
(***************************************************************************)
Outcome(services, checks, code) == [services |-> services, checks |-> checks, code |-> code]

Without(checks, gone) == [c \in DOMAIN checks \ gone |-> checks[c]]
Set(checks, id, check) ==
  [c \in DOMAIN checks \cup {id} |-> IF c = id THEN check ELSE checks[c]]

(* A check that replaces another may go on from its status.                *)
AddCheck(id, check, service) ==
  {Set(agent.checks, id, [kind |-> check.kind, deregister |-> check.deregister,
                          service |-> service, status |-> s]) :
     s \in {"critical"} \cup {agent.checks[c].status : c \in DOMAIN agent.checks \cap {id}}}

RegisterOutcomes(r) ==
  LET id    == IF r.body.id = Empty THEN r.body.name ELSE r.body.id
      check == AgentCheckId(id)
  IN  IF r.path = "check/register"
      THEN {Outcome(agent.services, cs, 200) : cs \in AddCheck(id, r.body.check, Empty)}
      ELSE {Outcome(agent.services \cup {id}, cs, 200) :
              cs \in IF r.body.check = NoCheck
                     THEN {agent.checks, Without(agent.checks, {check})}
                     ELSE AddCheck(check, r.body.check, id)}

OfService(s) == {c \in DOMAIN agent.checks : agent.checks[c].service = s}

(* Newer agents answer 404 if there is nothing to deregister. *)
DeregisterOutcomes(r) ==
  LET s == r.target
      nothing == {Outcome(agent.services, agent.checks, code) : code \in {200, 404}}
  IN  IF r.path = "check/deregister"
      THEN IF r.target \in DOMAIN agent.checks
           THEN {Outcome(agent.services, Without(agent.checks, {r.target}), 200)} ELSE nothing
      ELSE IF s \in agent.services
           THEN {Outcome(agent.services \ {s}, Without(agent.checks, OfService(s)), 200)}
           ELSE nothing

(* Only a TTL check can be updated. *)
UpdateOutcomes(r) ==
  LET new == CASE r.path = "check/pass" -> "passing" [] r.path = "check/warn" -> "warning"
               [] r.path = "check/fail" -> "critical"
  IN  IF r.target \in DOMAIN agent.checks /\ agent.checks[r.target].kind = "ttl"
      THEN {Outcome(agent.services, [agent.checks EXCEPT ![r.target].status = new], 200)}
      ELSE {Outcome(agent.services, agent.checks, code) : code \in {404, 500}}

Registers(r)   == r.path \in {"service/register", "check/register"}
Deregisters(r) == r.path \in {"service/deregister", "check/deregister"}
Updates(r)     == r.path \in {"check/pass", "check/warn", "check/fail"}
Outcomes(r) ==
  IF Registers(r) THEN RegisterOutcomes(r)
  ELSE IF Deregisters(r) THEN DeregisterOutcomes(r) ELSE UpdateOutcomes(r)

(***************************************************************************)
(* Request r of caller t takes effect.                                     *)
(***************************************************************************)
TakeEffect(t, r, o) ==
  /\ agent' = [services |-> o.services, checks |-> o.checks]
  /\ mine' = IF Registers(r) THEN [mine EXCEPT ![t] = @ \cup {r.meant.id}] ELSE mine
  /\ reaped' = IF r.path \in {"service/register", "service/deregister"}
               THEN (reaped \ {r.meant.id}) \cup (IF r.meant.remove THEN {r.meant.id} ELSE {})
               ELSE reaped
-----------------------------------------------------------------------------
Init ==
  /\ agent = [services |-> {}, checks |-> [c \in {} |-> NoCheck]]
  /\ alive = Callers
  /\ call = [t \in Callers |-> NoRequest]
  /\ net = [t \in Callers |-> "none"]
  /\ status = [t \in Callers |-> 0]
  /\ orphans = <<>>
  /\ result = [t \in Callers |-> "none"]
  /\ calls = 0
  /\ mine = [t \in Callers |-> {}]
  /\ reaped = {}
  /\ fate = [t \in Callers |-> NoFate]

Begin(t, r) ==
  /\ t \in alive /\ net[t] = "none"
  /\ calls < MaxCalls
  /\ calls' = calls + 1
  /\ call' = [call EXCEPT ![t] = r]
  /\ net' = [net EXCEPT ![t] = "sent"]
  /\ result' = [result EXCEPT ![t] = "none"]
  /\ fate' = [fate EXCEPT ![t] = NoFate]
  /\ UNCHANGED <<agent, alive, status, orphans, mine, reaped>>

(* The keywords of a call.  "after" comes with a check only. *)
Arguments(named, check, after) ==
  <<<<"name", named[1]>>>>
  \o (IF named[2] = Empty THEN <<>> ELSE <<<<"id", named[2]>>>>)
  \o (IF check = "none" THEN <<>>
      ELSE <<<<"check", check>>, <<"deregisterCriticalServiceAfter", after>>>>)

RegisterService(t, named, check, after) ==
  /\ check = "none" => after = 0
  /\ Begin(t, RegisterServiceRequest(Arguments(named, check, after),
                [OfTheService(IdOf(named)) EXCEPT !.remove = check = "TtlCheck" /\ after # 0]))
RegisterCheck(t, named, check) ==
  Begin(t, RegisterCheckRequest(Arguments(named, check, 0), OfNode(IdOf(named))))
DeregisterService(t, s)  == Begin(t, DeregisterServiceRequest(s))
DeregisterCheck(t, c)    == Begin(t, DeregisterCheckRequest(c))
UpdateCheck(t, c, new)   == Begin(t, UpdateCheckRequest(c, new, OfNode(c)))
UpdateService(t, s, new) ==
  Begin(t, UpdateCheckRequest(ServiceCheckId(s), new, OfTheService(s)))

Process(t) ==
  LET r == call[t]
  IN  /\ net[t] = "sent"
      /\ \E o \in Outcomes(r) :
           /\ TakeEffect(t, r, o)
           /\ status' = [status EXCEPT ![t] = o.code]
           /\ fate' = [fate EXCEPT ![t] = IF Updates(r) /\ o.code = 200
                THEN [@ EXCEPT !.service = o.checks[r.target].service,
                               !.status = o.checks[r.target].status]
                ELSE @]
      /\ net' = [net EXCEPT ![t] = "answered"]
      /\ UNCHANGED <<alive, call, orphans, result, calls>>

(* It refuses, for a reason of its own. *)
Reject(t) ==
  /\ net[t] = "sent"
  /\ status' = [status EXCEPT ![t] = 500]
  /\ net' = [net EXCEPT ![t] = "answered"]
  /\ UNCHANGED <<agent, alive, call, orphans, result, calls, mine, reaped, fate>>

(* libcurl sends a request without a body again (see Resend in CurlHandle). *)
Repeat(t) ==
  /\ net[t] = "answered"
  /\ ~Registers(call[t]) /\ ~fate[t].repeated
  /\ fate' = [fate EXCEPT ![t].repeated = TRUE]
  /\ net' = [net EXCEPT ![t] = "sent"]
  /\ UNCHANGED <<agent, alive, call, status, orphans, result, calls, mine, reaped>>

(* The agent may still have the request of a caller that is gone. *)
LeaveBehind(t) ==
  /\ orphans' \in {orphans} \cup
       IF net[t] = "sent" THEN {Append(orphans, <<t, call[t]>>)} ELSE {}
  /\ mine' = IF Registers(call[t]) /\ net[t] # "none"
             THEN [mine EXCEPT ![t] = @ \cup {call[t].meant.id}] ELSE mine
  /\ net' = [net EXCEPT ![t] = "none"]
  /\ call' = [call EXCEPT ![t] = NoRequest]
  /\ status' = [status EXCEPT ![t] = 0]
  /\ fate' = [fate EXCEPT ![t] = NoFate]
  /\ UNCHANGED <<agent, calls, reaped>>

GiveUp(t) ==
  /\ net[t] # "none"
  /\ result' = [result EXCEPT ![t] = "threw"]
  /\ LeaveBehind(t)
  /\ UNCHANGED alive

ProcessOrphan(n) ==
  /\ LET t == orphans[n][1]
         r == orphans[n][2]
     IN  /\ \E o \in Outcomes(r) : TakeEffect(t, r, o)
         /\ fate' = IF Registers(r) /\ call[t].meant.id = r.meant.id
                    THEN [fate EXCEPT ![t].again = TRUE] ELSE fate
  /\ orphans' = RemoveAt(orphans, n)
  /\ UNCHANGED <<alive, call, net, status, result, calls>>

Success(code) == code \div 100 = 2
StatusError(code) == IF code = 404 THEN "NotFoundError" ELSE "BadStatus"
PutResult(code) == IF Success(code) THEN "ok" ELSE StatusError(code)

(* Nothing is left to deregister, whether it succeeded or there is nothing. *)
Return(t) ==
  LET got == PutResult(status[t])
      r   == call[t]
  IN  /\ net[t] = "answered"
      /\ net' = [net EXCEPT ![t] = "none"]
      /\ result' = [result EXCEPT ![t] = got]
      /\ mine' = IF Deregisters(r) /\ got \in {"ok", "NotFoundError"} /\ ~fate[t].again
                 THEN [mine EXCEPT ![t] = @ \ {r.meant.id}] ELSE mine
      /\ call' = [call EXCEPT ![t] = IF Updates(r) THEN @ ELSE NoRequest]
      /\ status' = [status EXCEPT ![t] = 0]
      /\ fate' = [fate EXCEPT ![t] = [@ EXCEPT !.repeated = FALSE, !.again = FALSE]]
      /\ UNCHANGED <<agent, alive, orphans, calls, reaped>>

(* The program crashes, and is started again. *)
Crash(t) ==
  /\ t \in alive
  /\ alive' = alive \ {t}
  /\ result' = [result EXCEPT ![t] = "none"]
  /\ LeaveBehind(t)
Restart(t) ==
  /\ t \notin alive
  /\ alive' = alive \cup {t}
  /\ UNCHANGED <<agent, call, net, status, orphans, result, calls, mine, reaped, fate>>
-----------------------------------------------------------------------------
(* What the agent does of itself: a TTL passes; it runs a check of another *)
(* kind, with one of two results; it removes a service whose check stays   *)
(* critical.                                                               *)
SetStatus(c, s) == agent' = [agent EXCEPT !.checks[c].status = s]
Expire(c) ==
  /\ c \in DOMAIN agent.checks
  /\ agent.checks[c].kind = "ttl" /\ agent.checks[c].status # "critical"
  /\ SetStatus(c, "critical")
  /\ UNCHANGED <<alive, call, net, status, orphans, result, calls, mine, reaped, fate>>
Run(c, s) ==
  /\ agent.checks[c].kind # "ttl" /\ agent.checks[c].status # s
  /\ SetStatus(c, s)
  /\ UNCHANGED <<alive, call, net, status, orphans, result, calls, mine, reaped, fate>>
Reap(s) ==
  /\ \E c \in OfService(s) : agent.checks[c].deregister /\ agent.checks[c].status = "critical"
  /\ agent' = [services |-> agent.services \ {s}, checks |-> Without(agent.checks, OfService(s))]
  /\ UNCHANGED <<alive, call, net, status, orphans, result, calls, mine, reaped, fate>>

Invoke(t) ==
  \/ \E n \in ServicesOf[t], check \in {"none"} \cup CheckTypes, after \in {0, 1} :
       RegisterService(t, n, check, after)
  \/ \E n \in ChecksOf[t], check \in CheckTypes : RegisterCheck(t, n, check)
  \/ \E s \in ServiceIds(t) : DeregisterService(t, s)
  \/ \E c \in CheckIds(t) : DeregisterCheck(t, c)
  \/ \E s \in ServiceIds(t), new \in Statuses : UpdateService(t, s, new)
  \/ \E c \in CheckIds(t), new \in Statuses : UpdateCheck(t, c, new)

Next ==
  \/ \E t \in Callers : \/ Invoke(t) \/ Process(t) \/ Reject(t) \/ Repeat(t)
                        \/ GiveUp(t) \/ Return(t) \/ Crash(t) \/ Restart(t)
  \/ \E n \in DOMAIN orphans : ProcessOrphan(n)
  \/ \E c \in DOMAIN agent.checks : Expire(c) \/ \E s \in {"passing", "critical"} : Run(c, s)
  \/ \E s \in agent.services : Reap(s)

(* The agent's timers run: durations are finite. *)
Fairness ==
  \A s \in Services : WF_vars(Expire(AgentCheckId(s))) /\ WF_vars(Reap(s))

Spec == Init /\ [][Next]_vars /\ Fairness
-----------------------------------------------------------------------------
\* The variables keep their types; a check of a service is there only while
\* the service is (agent_services_tests.cpp:364-378).
TypeOK ==
  /\ agent.services \subseteq Services
  /\ \A c \in DOMAIN agent.checks :
       /\ agent.checks[c].kind \in {CheckConfig[type] : type \in CheckTypes}
       /\ agent.checks[c].status \in Statuses
       /\ agent.checks[c].service \in agent.services \cup {Empty}
  /\ alive \subseteq Callers /\ net \in [Callers -> {"none", "sent", "answered"}]
  /\ status \in [Callers -> {0, 200, 404, 500}]
  /\ result \in [Callers -> {"none", "threw", "ok", "NotFoundError", "BadStatus"}]
  /\ calls \in 0 .. MaxCalls

\* When pass(), warn(), fail() or their service forms return, the agent has
\* set that status, and for the service forms it did so on the very check
\* that was registered with the service, although checks of the node may
\* have the service's id for their own (agent.h updateCheck, serviceCheckId);
\* it holds where IdsApart does.
ReportedWhereMeant ==
  \A t \in Callers :
    LET meant == call[t].meant
    IN  Updates(call[t]) /\ result[t] = "ok" =>
          /\ fate[t].status = meant.status
          /\ fate[t].service = meant.service

\* A program that deregisters what it registered, by the ids the comments of
\* agent.h name, leaves nothing behind at the agent, even if it was told 404
\* and whatever was lost, repeated or late, unless a registration that it
\* gave up on arrives after that.
NothingLeftBehind ==
  LET known == UNION {mine[t] : t \in Callers}
  IN  /\ \A s \in agent.services : AgentCheckId(s) \in known
      /\ DOMAIN agent.checks \subseteq known

\* A service that was registered with a TTL check and with
\* deregisterCriticalServiceAfter disappears once its program is dead,
\* unless that program is started again or a registration without them that
\* it gave up on arrives (agent.h:305, serviceRegistrationJson).
AbandonedGoes ==
  \A t \in Callers : \A s \in ServiceIds(t) :
    t \notin alive /\ AgentCheckId(s) \in reaped
      ~> s \notin agent.services \/ t \in alive \/ AgentCheckId(s) \notin reaped
=============================================================================
