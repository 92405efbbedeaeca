----------------------------- MODULE AgentProofs -----------------------------
(***************************************************************************)
(* Theorems about Agent: a status is reported where it was meant, and what *)
(* was deregistered stays so, for any programs, services and checks, any   *)
(* number of calls, and whatever is lost, late, repeated or started again, *)
(* as long as no check of the node is named like that of a service.        *)
(***************************************************************************)
EXTENDS Agent, ParametersProofs

Kinds     == {CheckConfig[type] : type \in CheckTypes}
BodyId(r) == IF r.body.id = Empty THEN r.body.name ELSE r.body.id

(***************************************************************************)
(* What a request asks of the agent is what its caller meant, about a      *)
(* service or a check of the caller's own.                                 *)
(***************************************************************************)
RegistersService(t, r) ==
  /\ r.path = "service/register"
  /\ BodyId(r) \in ServiceIds(t) /\ r.meant.id = AgentCheckId(BodyId(r))
  /\ r.body.check = NoCheck \/ r.body.check.kind \in Kinds
RegistersCheck(t, r) ==
  /\ r.path = "check/register"
  /\ BodyId(r) \in CheckIds(t) /\ r.meant.id = BodyId(r)
  /\ r.body.check.kind \in Kinds
DeregistersService(t, r) ==
  /\ r.path = "service/deregister"
  /\ \E s \in ServiceIds(t) : r.target = s /\ r.meant.id = AgentCheckId(s)
DeregistersCheck(t, r) ==
  /\ r.path = "check/deregister"
  /\ \E c \in CheckIds(t) : r.target = c /\ r.meant.id = c
UpdatesCheck(t, r) ==
  /\ r.meant.status \in Statuses /\ r.path = UpdateUrl(r.meant.status)
  /\ r.target = r.meant.id
  /\ \/ \E s \in ServiceIds(t) : r.meant.id = AgentCheckId(s) /\ r.meant.service = s
     \/ \E c \in CheckIds(t) : r.meant.id = c /\ r.meant.service = Empty
GoodRequest(t, r) ==
  \/ RegistersService(t, r) \/ RegistersCheck(t, r)
  \/ DeregistersService(t, r) \/ DeregistersCheck(t, r) \/ UpdatesCheck(t, r)

(* A check is a service's, and named after it, or one of the node.         *)
CheckOK(a, c) ==
  /\ DOMAIN a.checks[c] = {"kind", "deregister", "service", "status"}
  /\ a.checks[c].kind \in Kinds /\ a.checks[c].status \in Statuses
  /\ \/ \E s \in a.services : c = AgentCheckId(s) /\ a.checks[c].service = s
     \/ \E i \in NodeCheckIds : c = i /\ a.checks[c].service = Empty
AgentOK(a) ==
  /\ a.services \subseteq Services
  /\ \A c \in DOMAIN a.checks : CheckOK(a, c)

(* What there is at the agent.                                             *)
AtAgent(a) == {AgentCheckId(s) : s \in a.services} \cup DOMAIN a.checks

(* The agent set the status that was meant on the check that was meant.    *)
AsMeant(meant, service, new) ==
  /\ new = meant.status
  /\ service = meant.service
Reported(t) == AsMeant(call[t].meant, fate[t].service, fate[t].status)

CallerOK(t) ==
  /\ DOMAIN fate[t] = {"service", "status", "repeated", "again"}
  /\ fate[t].repeated \in BOOLEAN /\ fate[t].again \in BOOLEAN
  /\ net[t] # "none" => GoodRequest(t, call[t]) /\ result[t] = "none"
  /\ net[t] = "answered" /\ Deregisters(call[t]) /\ status[t] \in {200, 404} /\ ~ fate[t].again =>
       call[t].meant.id \notin AtAgent(agent)
  /\ net[t] = "answered" /\ Updates(call[t]) /\ status[t] = 200 => Reported(t)
  /\ Updates(call[t]) /\ result[t] = "ok" => Reported(t)

AgentTypes ==
  /\ DOMAIN agent = {"services", "checks"} /\ AgentOK(agent)
  /\ alive \subseteq Callers
  /\ net \in [Callers -> {"none", "sent", "answered"}]
  /\ status \in [Callers -> {0, 200, 404, 500}]
  /\ result \in [Callers -> {"none", "threw", "ok", "NotFoundError", "BadStatus"}]
  /\ calls \in 0 .. MaxCalls
  /\ DOMAIN call = Callers /\ DOMAIN fate = Callers /\ DOMAIN mine = Callers

(* A late request is one that a program could have made.                    *)
LateOK ==
  /\ orphans \in Seq(Range(orphans))
  /\ \A o \in Range(orphans) : o[1] \in Callers /\ GoodRequest(o[1], o[2])

AgentInv ==
  /\ AgentTypes
  /\ \A t \in Callers : CallerOK(t)
  /\ LateOK
  /\ AtAgent(agent) \subseteq UNION {mine[t] : t \in Callers}
-----------------------------------------------------------------------------
(* Apart, ids of services and ids of checks of the node do not meet.       *)
LEMMA IdsDiffer ==
  ASSUME IdsApart
  PROVE  /\ \A s, u \in Services : AgentCheckId(s) = AgentCheckId(u) => s = u
         /\ \A s \in Services, c \in NodeCheckIds : AgentCheckId(s) # c
BY AgentAssumption DEF IdsApart

(* What a caller registers is among all services and checks of the node.   *)
LEMMA OwnedIds ==
  ASSUME NEW t \in Callers
  PROVE  ServiceIds(t) \subseteq Services /\ CheckIds(t) \subseteq NodeCheckIds
BY DEF Services, NodeCheckIds

(* get_opt() finds the last argument.                                      *)
LEMMA GetOptOfLast ==
  ASSUME NEW S, NEW args \in Seq(S), NEW k, NEW v, NEW d, LastIs(args, k, v)
  PROVE  GetOpt(k, d, args) = v
BY GetOptTakesLast DEF LastIs

(* The arguments of a registration give what they were made of.            *)
LEMMA ArgumentsGive ==
  ASSUME NEW named, NEW check, NEW after
  PROVE  LET args == Arguments(named, check, after)
         IN  /\ GetOpt("name", Empty, args) = named[1]
             /\ GetOpt("id", Empty, args) = named[2]
             /\ Given("check", args) <=> check # "none"
             /\ check # "none" => GetOpt("check", "none", args) = check
<1> DEFINE name == <<"name", named[1]>>
           id == <<"id", named[2]>>
           kind == <<"check", check>>
           late == <<"deregisterCriticalServiceAfter", after>>
           S == {name, id, kind, late}
           one == <<name>>
           two == IF named[2] = Empty THEN <<>> ELSE <<id>>
           three == IF check = "none" THEN <<>> ELSE <<kind, late>>
           most == one \o two
           args == most \o three
<1>1. args = Arguments(named, check, after)
  BY Zenon DEF Arguments
<1>2. /\ one \in Seq(S) /\ LastIs(one, "name", named[1])
      /\ \A j : Given(j, one) <=> j = "name"
  <2>1. <<"name", named[1]>> \in S
    OBVIOUS
  <2> HIDE DEF S
  <2>2. /\ <<<<"name", named[1]>>>> \in Seq(S) /\ LastIs(<<<<"name", named[1]>>>>, "name", named[1])
        /\ \A j : Given(j, <<<<"name", named[1]>>>>) <=> j = "name"
    BY <2>1, OneArgument
  <2> QED
    BY <2>2, Zenon
<1>3. /\ two \in Seq(S)
      /\ named[2] = Empty => \A j : ~ Given(j, two)
      /\ named[2] # Empty => LastIs(two, "id", named[2]) /\ \A j : Given(j, two) <=> j = "id"
  <2>1. <<"id", named[2]>> \in S
    OBVIOUS
  <2> HIDE DEF S
  <2>2. /\ <<<<"id", named[2]>>>> \in Seq(S) /\ LastIs(<<<<"id", named[2]>>>>, "id", named[2])
        /\ \A j : Given(j, <<<<"id", named[2]>>>>) <=> j = "id"
    BY <2>1, OneArgument
  <2>3. <<>> \in Seq(S) /\ \A j : ~ Given(j, <<>>)
    BY NoArgument
  <2> QED
    BY <2>2, <2>3, Zenon
<1>4. /\ three \in Seq(S)
      /\ check = "none" => \A j : ~ Given(j, three)
      /\ check # "none" =>
           /\ LastIs(three, "check", check)
           /\ \A j : Given(j, three) <=> j \in {"check", "deregisterCriticalServiceAfter"}
  <2> DEFINE pair == <<kind, late>>
  <2>1. pair \in Seq(S) /\ DOMAIN pair = {1, 2} /\ pair[1] = kind /\ pair[2] = late
    BY 1 .. 2 = {1, 2}
  <2>2. kind = <<"check", check>> /\ kind[1] = "check" /\ late[1] = "deregisterCriticalServiceAfter"
    OBVIOUS
  <2> HIDE DEF S, kind, late
  <2>3. <<>> \in Seq(S) /\ \A j : ~ Given(j, <<>>)
    BY NoArgument
  <2> HIDE DEF pair
  <2>4. \A j : Given(j, pair) <=> j \in {"check", "deregisterCriticalServiceAfter"}
    BY <2>1, <2>2 DEF Given
  <2>5. LastIs(pair, "check", check)
    <3>1. IsLast(pair, 1)
      BY <2>1, <2>2 DEF IsLast
    <3>2. 1 \in DOMAIN pair /\ pair[1] = <<"check", check>>
      BY <2>1, <2>2
    <3> QED
      BY <3>1, <3>2, Zenon DEF LastIs
  <2>6. three = IF check = "none" THEN <<>> ELSE pair
    BY DEF pair
  <2> HIDE DEF three
  <2> QED
    BY <2>1, <2>3, <2>4, <2>5, <2>6
<1> HIDE DEF S, one, two, three
<1>5. /\ most \in Seq(S)
      /\ \A k : Given(k, most) <=> Given(k, one) \/ Given(k, two)
      /\ \A k, v : LastIs(two, k, v) => LastIs(most, k, v)
      /\ \A k, v : LastIs(one, k, v) /\ ~ Given(k, two) => LastIs(most, k, v)
  BY <1>2, <1>3, LastOfBoth
<1> HIDE DEF most
<1>6. /\ args \in Seq(S)
      /\ \A k : Given(k, args) <=> Given(k, most) \/ Given(k, three)
      /\ \A k, v : LastIs(three, k, v) => LastIs(args, k, v)
      /\ \A k, v : LastIs(most, k, v) /\ ~ Given(k, three) => LastIs(args, k, v)
  BY <1>4, <1>5, LastOfBoth
<1> HIDE DEF args
<1>7. GetOpt("name", Empty, args) = named[1]
  <2>1. ~ Given("name", two) /\ ~ Given("name", three)
    BY <1>3, <1>4
  <2>2. LastIs(args, "name", named[1])
    BY <1>2, <1>5, <1>6, <2>1
  <2> QED
    BY <1>6, <2>2, GetOptOfLast
<1>8. GetOpt("id", Empty, args) = named[2]
  <2>1. ~ Given("id", one) /\ ~ Given("id", three)
    BY <1>2, <1>4
  <2>2. CASE named[2] = Empty
    BY <1>3, <1>5, <1>6, <2>1, <2>2, GetOptTakesLast
  <2>3. CASE named[2] # Empty
    <3>1. LastIs(args, "id", named[2])
      BY <1>3, <1>5, <1>6, <2>1, <2>3
    <3> QED
      BY <1>6, <3>1, GetOptOfLast
  <2> QED
    BY <2>2, <2>3
<1>9. Given("check", args) <=> check # "none"
  <2>1. ~ Given("check", one) /\ ~ Given("check", two)
    BY <1>2, <1>3
  <2>2. Given("check", three) <=> check # "none"
    BY <1>4
  <2> QED
    BY <1>5, <1>6, <2>1, <2>2
<1>10. check # "none" => GetOpt("check", "none", args) = check
  BY <1>4, <1>6, GetOptOfLast
<1> QED
  BY <1>1, <1>7, <1>8, <1>9, <1>10

(* The registration that is written of them.                               *)
LEMMA RegistrationGives ==
  ASSUME NEW named, NEW check, NEW after
  PROVE  LET b == Registration(Arguments(named, check, after))
         IN  /\ (IF b.id = Empty THEN b.name ELSE b.id) = IdOf(named)
             /\ check = "none" => b.check = NoCheck
             /\ check # "none" => b.check.kind = CheckConfig[check]
<1> DEFINE args == Arguments(named, check, after)
           c == CheckOf(args)
           b == Registration(args)
<1>1. /\ GetOpt("name", Empty, args) = named[1] /\ GetOpt("id", Empty, args) = named[2]
      /\ Given("check", args) <=> check # "none"
      /\ check # "none" => GetOpt("check", "none", args) = check
  BY ArgumentsGive
<1> HIDE DEF args
<1>2. b.id = named[2] /\ b.name = named[1] /\ b.check = c
  <2>1. b = [id |-> named[2], name |-> named[1], check |-> c]
    BY <1>1, Zenon DEF Registration
  <2> HIDE DEF b, c
  <2> QED
    BY <2>1
<1>3. /\ check = "none" => c = NoCheck
      /\ check # "none" => c.kind = CheckConfig[check]
  BY <1>1 DEF CheckOf, CheckJson
<1> HIDE DEF b, c
<1>4. /\ (IF b.id = Empty THEN b.name ELSE b.id) = IdOf(named)
      /\ check = "none" => b.check = NoCheck
      /\ check # "none" => b.check.kind = CheckConfig[check]
  BY <1>2, <1>3 DEF IdOf
<1> QED
  BY <1>4, Zenon DEF b, args
-----------------------------------------------------------------------------
(* The fields of a request.                                                *)
LEMMA RequestFields ==
  ASSUME NEW path, NEW target, NEW body, NEW meant
  PROVE  LET r == Request(path, target, body, meant)
         IN  r.path = path /\ r.target = target /\ r.body = body /\ r.meant = meant
BY DEF Request

(* And of an intent, whatever is meant by it.                              *)
LEMMA IntentFields ==
  ASSUME NEW x
  PROVE  /\ OfNode(x).id = x /\ OfNode(x).service = Empty
         /\ OfTheService(x).id = AgentCheckId(x) /\ OfTheService(x).service = x
         /\ \A new : LET meant == [OfNode(x) EXCEPT !.status = new]
                     IN  meant.id = x /\ meant.service = Empty /\ meant.status = new
         /\ \A new : LET meant == [OfTheService(x) EXCEPT !.status = new]
                     IN  meant.id = AgentCheckId(x) /\ meant.service = x /\ meant.status = new
         /\ \A b : [OfTheService(x) EXCEPT !.remove = b].id = AgentCheckId(x)
BY DEF OfNode, OfTheService, NoIntent

(* Registrations ask for what was meant.                                   *)
LEMMA RegistrationsGood ==
  ASSUME NEW t \in Callers, NEW after
  PROVE  /\ \A named \in ServicesOf[t], check \in {"none"} \cup CheckTypes : \A meant :
              meant.id = AgentCheckId(IdOf(named)) =>
                GoodRequest(t, RegisterServiceRequest(Arguments(named, check, after), meant))
         /\ \A named \in ChecksOf[t], check \in CheckTypes : \A meant :
              meant.id = IdOf(named) =>
                GoodRequest(t, RegisterCheckRequest(Arguments(named, check, after), meant))
<1>1. "none" \notin CheckTypes
  BY AgentAssumption DEF CheckConfig
<1>2. ASSUME NEW named \in ServicesOf[t], NEW check \in {"none"} \cup CheckTypes, NEW meant,
             meant.id = AgentCheckId(IdOf(named))
      PROVE  GoodRequest(t, RegisterServiceRequest(Arguments(named, check, after), meant))
  <2> DEFINE b == Registration(Arguments(named, check, after))
             r == RegisterServiceRequest(Arguments(named, check, after), meant)
  <2>1. /\ (IF b.id = Empty THEN b.name ELSE b.id) = IdOf(named)
        /\ check = "none" => b.check = NoCheck
        /\ check # "none" => b.check.kind = CheckConfig[check]
    BY RegistrationGives
  <2>2. r = Request("service/register", Empty, b, meant)
    BY Zenon DEF RegisterServiceRequest
  <2> HIDE DEF b, r
  <2>3. r.path = "service/register" /\ r.body = b /\ r.meant = meant
    BY <2>2, RequestFields
  <2>4. BodyId(r) = IdOf(named)
    BY <2>1, <2>3 DEF BodyId
  <2>5. IdOf(named) \in ServiceIds(t)
    BY DEF ServiceIds
  <2>6. b.check = NoCheck \/ b.check.kind \in Kinds
    BY <2>1 DEF Kinds
  <2>7. GoodRequest(t, r)
    BY <1>2, <2>3, <2>4, <2>5, <2>6 DEF GoodRequest, RegistersService
  <2> QED
    BY <2>7 DEF r
<1>3. ASSUME NEW named \in ChecksOf[t], NEW check \in CheckTypes, NEW meant,
             meant.id = IdOf(named)
      PROVE  GoodRequest(t, RegisterCheckRequest(Arguments(named, check, after), meant))
  <2> DEFINE b == Registration(Arguments(named, check, after))
             r == RegisterCheckRequest(Arguments(named, check, after), meant)
  <2>1. /\ (IF b.id = Empty THEN b.name ELSE b.id) = IdOf(named)
        /\ check # "none" => b.check.kind = CheckConfig[check]
    BY RegistrationGives
  <2>2. r = Request("check/register", Empty, b, meant)
    BY Zenon DEF RegisterCheckRequest
  <2> HIDE DEF b, r
  <2>3. r.path = "check/register" /\ r.body = b /\ r.meant = meant
    BY <2>2, RequestFields
  <2>4. BodyId(r) = IdOf(named)
    BY <2>1, <2>3 DEF BodyId
  <2>5. IdOf(named) \in CheckIds(t)
    BY DEF CheckIds
  <2>6. b.check.kind \in Kinds
    BY <1>1, <2>1 DEF Kinds
  <2>7. GoodRequest(t, r)
    BY <1>3, <2>3, <2>4, <2>5, <2>6 DEF GoodRequest, RegistersCheck
  <2> QED
    BY <2>7 DEF r
<1> QED
  BY <1>2, <1>3

(* So do all other requests.                                               *)
LEMMA OthersGood ==
  ASSUME NEW t \in Callers
  PROVE  /\ \A s \in ServiceIds(t) : GoodRequest(t, DeregisterServiceRequest(s))
         /\ \A c \in CheckIds(t) : GoodRequest(t, DeregisterCheckRequest(c))
         /\ \A s \in ServiceIds(t), new \in Statuses :
              GoodRequest(t, UpdateCheckRequest(ServiceCheckId(s), new, OfTheService(s)))
         /\ \A c \in CheckIds(t), new \in Statuses :
              GoodRequest(t, UpdateCheckRequest(c, new, OfNode(c)))
<1>1. ASSUME NEW s \in ServiceIds(t)
      PROVE  GoodRequest(t, DeregisterServiceRequest(s))
  <2> DEFINE meant == OfTheService(s)
             r == DeregisterServiceRequest(s)
  <2>1. meant.id = AgentCheckId(s)
    BY IntentFields
  <2>2. r = Request("service/deregister", s, NoBody, meant)
    BY Zenon DEF DeregisterServiceRequest
  <2> HIDE DEF meant, r
  <2>3. r.path = "service/deregister" /\ r.target = s /\ r.meant = meant
    BY <2>2, RequestFields
  <2>4. GoodRequest(t, r)
    BY <2>1, <2>3 DEF GoodRequest, DeregistersService
  <2> QED
    BY <2>4 DEF r
<1>2. ASSUME NEW c \in CheckIds(t)
      PROVE  GoodRequest(t, DeregisterCheckRequest(c))
  <2> DEFINE meant == OfNode(c)
             r == DeregisterCheckRequest(c)
  <2>1. meant.id = c
    BY IntentFields
  <2>2. r = Request("check/deregister", c, NoBody, meant)
    BY Zenon DEF DeregisterCheckRequest
  <2> HIDE DEF meant, r
  <2>3. r.path = "check/deregister" /\ r.target = c /\ r.meant = meant
    BY <2>2, RequestFields
  <2>4. GoodRequest(t, r)
    BY <2>1, <2>3 DEF GoodRequest, DeregistersCheck
  <2> QED
    BY <2>4 DEF r
<1>3. ASSUME NEW id, NEW new \in Statuses, NEW meant,
             \/ \E s \in ServiceIds(t) : id = AgentCheckId(s) /\ meant = OfTheService(s)
             \/ \E c \in CheckIds(t) : id = c /\ meant = OfNode(c)
      PROVE  GoodRequest(t, UpdateCheckRequest(id, new, meant))
  <2> DEFINE to == [meant EXCEPT !.status = new]
             r == UpdateCheckRequest(id, new, meant)
  <2>1. /\ to.id = id /\ to.status = new
        /\ \/ \E s \in ServiceIds(t) : id = AgentCheckId(s) /\ to.service = s
           \/ \E c \in CheckIds(t) : id = c /\ to.service = Empty
    BY <1>3, IntentFields
  <2>2. r = Request(UpdateUrl(new), id, NoBody, to)
    BY Zenon DEF UpdateCheckRequest
  <2> HIDE DEF to, r
  <2>3. r.path = UpdateUrl(new) /\ r.target = id /\ r.meant = to
    BY <2>2, RequestFields
  <2>4. GoodRequest(t, r)
    BY <2>1, <2>3 DEF GoodRequest, UpdatesCheck
  <2> QED
    BY <2>4 DEF r
<1>4. \A s : ServiceCheckId(s) = AgentCheckId(s)
  BY DEF ServiceCheckId, AgentCheckId
<1> QED
  BY <1>1, <1>2, <1>3, <1>4
-----------------------------------------------------------------------------
(* A check is added where one belongs.                                     *)
LEMMA AddCheckKeeps ==
  ASSUME AgentOK(agent), NEW id, NEW check, check.kind \in Kinds, NEW service,
         NEW a, a.services \subseteq Services, agent.services \subseteq a.services,
         a.checks \in AddCheck(id, check, service),
         \/ id = AgentCheckId(service) /\ service \in a.services
         \/ \E i \in NodeCheckIds : id = i /\ service = Empty
  PROVE  AgentOK(a) /\ DOMAIN a.checks = DOMAIN agent.checks \cup {id}
<1>1. PICK s \in {"critical"} \cup {agent.checks[c].status : c \in DOMAIN agent.checks \cap {id}} :
        a.checks = Set(agent.checks, id, [kind |-> check.kind, deregister |-> check.deregister,
                                          service |-> service, status |-> s])
  BY DEF AddCheck
<1>2. s \in Statuses
  BY DEF AgentOK, CheckOK, Statuses
<1> DEFINE new == [kind |-> check.kind, deregister |-> check.deregister, service |-> service, status |-> s]
<1>3. /\ DOMAIN new = {"kind", "deregister", "service", "status"}
      /\ new.kind = check.kind /\ new.service = service /\ new.status = s
  OBVIOUS
<1>4. a.checks = Set(agent.checks, id, new)
  BY <1>1
<1> HIDE DEF new
<1>5. /\ DOMAIN a.checks = DOMAIN agent.checks \cup {id}
      /\ \A c \in DOMAIN a.checks : a.checks[c] = IF c = id THEN new ELSE agent.checks[c]
  BY <1>4 DEF Set
<1>6. ASSUME NEW c \in DOMAIN a.checks
      PROVE  CheckOK(a, c)
  BY <1>2, <1>3, <1>5 DEF AgentOK, CheckOK
<1> QED
  BY <1>5, <1>6 DEF AgentOK

(* Checks go, and services whose checks have gone.                         *)
LEMMA WithoutKeeps ==
  ASSUME AgentOK(agent), NEW gone, NEW a, a.services \subseteq agent.services,
         a.checks = Without(agent.checks, gone),
         \A s \in agent.services \ a.services : OfService(s) \subseteq gone
  PROVE  AgentOK(a) /\ DOMAIN a.checks = DOMAIN agent.checks \ gone
<1>1. /\ DOMAIN a.checks = DOMAIN agent.checks \ gone
      /\ \A c \in DOMAIN a.checks : a.checks[c] = agent.checks[c]
  BY DEF Without
<1>2. ASSUME NEW c \in DOMAIN a.checks
      PROVE  CheckOK(a, c)
  BY <1>1 DEF AgentOK, CheckOK, OfService
<1> QED
  BY <1>1, <1>2 DEF AgentOK

(* The outcome of a request at the agent.                                  *)
Effect(r, o, a) ==
  /\ AgentOK(a)
  /\ o.code \in {200, 404, 500}
  /\ AtAgent(a) \subseteq AtAgent(agent) \cup (IF Registers(r) THEN {r.meant.id} ELSE {})
  /\ Deregisters(r) => r.meant.id \notin AtAgent(a)
  /\ Updates(r) /\ o.code = 200 =>
       AsMeant(r.meant, o.checks[r.target].service, o.checks[r.target].status)

(* The fields of an outcome.                                               *)
LEMMA OutcomeFields ==
  ASSUME NEW services, NEW checks, NEW code
  PROVE  LET o == Outcome(services, checks, code)
         IN  o.services = services /\ o.checks = checks /\ o.code = code
BY DEF Outcome

(* An agent that is left alone.                                            *)
LEMMA SameKeeps ==
  ASSUME AgentOK(agent), NEW a, a.services = agent.services, a.checks = agent.checks
  PROVE  AgentOK(a) /\ AtAgent(a) = AtAgent(agent)
BY DEF AgentOK, CheckOK, AtAgent

(* What each kind of request is, from its path.                            *)
LEMMA KindsOfRequest ==
  ASSUME NEW r
  PROVE  /\ r.path \in {"service/register", "check/register"} =>
              Registers(r) /\ ~ Deregisters(r) /\ ~ Updates(r)
         /\ r.path \in {"service/deregister", "check/deregister"} =>
              ~ Registers(r) /\ Deregisters(r) /\ ~ Updates(r)
         /\ r.path \in {"check/pass", "check/warn", "check/fail"} =>
              ~ Registers(r) /\ ~ Deregisters(r) /\ Updates(r)
BY DEF Registers, Deregisters, Updates

(* A registration adds what it names and nothing else.                     *)
LEMMA RegisterEffect ==
  ASSUME AgentOK(agent), NEW t \in Callers, NEW r, RegistersService(t, r) \/ RegistersCheck(t, r),
         NEW o \in Outcomes(r), NEW a, a.services = o.services, a.checks = o.checks
  PROVE  Effect(r, o, a)
<1> DEFINE id == BodyId(r)
<1>1. Registers(r) /\ ~ Deregisters(r) /\ ~ Updates(r) /\ o \in RegisterOutcomes(r)
  BY KindsOfRequest DEF RegistersService, RegistersCheck, Outcomes
<1>2. CASE RegistersService(t, r)
  <2>1. r.path = "service/register" /\ id \in Services /\ r.meant.id = AgentCheckId(id)
        /\ (r.body.check = NoCheck \/ r.body.check.kind \in Kinds)
    BY <1>2 DEF RegistersService, Services
  <2>2. r.path # "check/register"
    BY <2>1
  <2> DEFINE all == agent.services \cup {id}
             checks == AgentCheckId(id)
  <2>3. o \in {Outcome(all, cs, 200) :
                 cs \in IF r.body.check = NoCheck
                        THEN {agent.checks, Without(agent.checks, {checks})}
                        ELSE AddCheck(checks, r.body.check, id)}
    BY <1>1, <2>2 DEF RegisterOutcomes, BodyId
  <2> HIDE DEF id, all
  <2>4. PICK cs : /\ o = Outcome(all, cs, 200)
                  /\ IF r.body.check = NoCheck THEN cs \in {agent.checks, Without(agent.checks, {checks})}
                     ELSE cs \in AddCheck(checks, r.body.check, id)
    BY <2>3
  <2>5. o.services = all /\ o.checks = cs /\ o.code = 200
    BY <2>4, OutcomeFields
  <2>6. all = agent.services \cup {id} /\ all \subseteq Services
    BY <2>1 DEF all, AgentOK
  <2>7. CASE r.body.check = NoCheck /\ cs = agent.checks
    <3>1. AgentOK(a)
      BY <2>5, <2>6, <2>7 DEF AgentOK, CheckOK
    <3>2. AtAgent(a) \subseteq AtAgent(agent) \cup {r.meant.id}
      BY <2>1, <2>5, <2>6, <2>7 DEF AtAgent
    <3> QED
      BY <1>1, <2>5, <3>1, <3>2 DEF Effect
  <2>8. CASE r.body.check = NoCheck /\ cs = Without(agent.checks, {checks})
    <3>1. /\ DOMAIN cs = DOMAIN agent.checks \ {checks}
          /\ \A c \in DOMAIN cs : cs[c] = agent.checks[c]
      BY <2>8 DEF Without
    <3>2. AgentOK(a)
      BY <2>5, <2>6, <3>1 DEF AgentOK, CheckOK
    <3>3. AtAgent(a) \subseteq AtAgent(agent) \cup {r.meant.id}
      BY <2>1, <2>5, <2>6, <3>1 DEF AtAgent
    <3> QED
      BY <1>1, <2>5, <3>2, <3>3 DEF Effect
  <2>9. CASE r.body.check # NoCheck
    <3>1. a.checks \in AddCheck(AgentCheckId(id), r.body.check, id) /\ id \in a.services
      BY <2>4, <2>5, <2>6, <2>9
    <3>2. AgentOK(a) /\ DOMAIN a.checks = DOMAIN agent.checks \cup {AgentCheckId(id)}
      <4>1. r.body.check.kind \in Kinds
        BY <2>1, <2>9
      <4>2. a.services \subseteq Services /\ agent.services \subseteq a.services
        BY <2>5, <2>6
      <4> QED
        BY <3>1, <4>1, <4>2, AddCheckKeeps, Zenon
    <3>3. AtAgent(a) \subseteq AtAgent(agent) \cup {r.meant.id}
      BY <2>1, <2>5, <2>6, <3>2 DEF AtAgent
    <3> QED
      BY <1>1, <2>5, <3>2, <3>3 DEF Effect
  <2> QED
    BY <2>4, <2>7, <2>8, <2>9
<1>3. CASE RegistersCheck(t, r)
  <2>1. r.path = "check/register" /\ id \in NodeCheckIds /\ r.meant.id = id
        /\ r.body.check.kind \in Kinds
    BY <1>3 DEF RegistersCheck, NodeCheckIds
  <2>2. o \in {Outcome(agent.services, cs, 200) : cs \in AddCheck(id, r.body.check, Empty)}
    BY <1>1, <2>1 DEF RegisterOutcomes, BodyId
  <2> HIDE DEF id
  <2>3. PICK cs \in AddCheck(id, r.body.check, Empty) : o = Outcome(agent.services, cs, 200)
    BY <2>2
  <2>4. o.services = agent.services /\ o.checks = cs /\ o.code = 200
    BY <2>3, OutcomeFields
  <2>5. agent.services \subseteq Services
    BY DEF AgentOK
  <2>6. AgentOK(a) /\ DOMAIN a.checks = DOMAIN agent.checks \cup {id}
    <3>1. a.services \subseteq Services /\ agent.services \subseteq a.services
      BY <2>4, <2>5
    <3>2. a.checks \in AddCheck(id, r.body.check, Empty)
      BY <2>3, <2>4
    <3>3. id \in NodeCheckIds /\ r.body.check.kind \in Kinds
      BY <2>1
    <3> QED
      BY <3>1, <3>2, <3>3, AddCheckKeeps, Zenon
  <2>7. AtAgent(a) \subseteq AtAgent(agent) \cup {r.meant.id}
    BY <2>1, <2>4, <2>6 DEF AtAgent
  <2> QED
    BY <1>1, <2>4, <2>6, <2>7 DEF Effect
<1> QED
  BY <1>2, <1>3

(* A deregistration leaves nothing of what it names.                       *)
LEMMA DeregisterEffect ==
  ASSUME IdsApart, AgentOK(agent), NEW t \in Callers, NEW r, DeregistersService(t, r) \/ DeregistersCheck(t, r),
         NEW o \in Outcomes(r), NEW a, a.services = o.services, a.checks = o.checks
  PROVE  Effect(r, o, a)
<1>1. ~ Registers(r) /\ Deregisters(r) /\ ~ Updates(r) /\ o \in DeregisterOutcomes(r)
  BY KindsOfRequest DEF DeregistersService, DeregistersCheck, Outcomes
<1>2. ASSUME o \in {Outcome(agent.services, agent.checks, code) : code \in {200, 404}},
             r.meant.id \notin AtAgent(agent)
      PROVE  Effect(r, o, a)
  <2>1. PICK code \in {200, 404} : o = Outcome(agent.services, agent.checks, code)
    BY <1>2
  <2>2. a.services = agent.services /\ a.checks = agent.checks /\ o.code \in {200, 404}
    BY <2>1, OutcomeFields
  <2>3. AgentOK(a) /\ AtAgent(a) = AtAgent(agent)
    BY <2>2, SameKeeps
  <2> QED
    BY <1>1, <1>2, <2>2, <2>3 DEF Effect
<1>3. CASE DeregistersService(t, r)
  <2>1. PICK s \in ServiceIds(t) : r.path = "service/deregister" /\ r.target = s /\ r.meant.id = AgentCheckId(s)
    BY <1>3 DEF DeregistersService
  <2>2. r.target = s /\ s \in Services /\ r.path # "check/deregister"
    BY <2>1, OwnedIds
  <2>3. \A c \in DOMAIN agent.checks : c = AgentCheckId(s) => agent.checks[c].service = s /\ s \in agent.services
    BY <2>2, IdsDiffer DEF AgentOK, CheckOK
  <2>4. CASE s \in agent.services
    <3>1. o = Outcome(agent.services \ {s}, Without(agent.checks, OfService(s)), 200)
      BY <1>1, <2>2, <2>4 DEF DeregisterOutcomes
    <3>2. a.services = agent.services \ {s} /\ a.checks = Without(agent.checks, OfService(s)) /\ o.code = 200
      BY <3>1, OutcomeFields
    <3>3. AgentOK(a) /\ DOMAIN a.checks = DOMAIN agent.checks \ OfService(s)
      BY <3>2, WithoutKeeps
    <3>4. AtAgent(a) \subseteq AtAgent(agent)
      BY <3>2, <3>3 DEF AtAgent
    <3>5. AgentCheckId(s) \notin AtAgent(a)
      BY <2>2, <2>3, <3>2, <3>3, IdsDiffer DEF AtAgent, OfService, AgentOK
    <3> QED
      BY <1>1, <2>1, <3>2, <3>3, <3>4, <3>5 DEF Effect
  <2>5. CASE s \notin agent.services
    <3>1. o \in {Outcome(agent.services, agent.checks, code) : code \in {200, 404}}
      BY <1>1, <2>2, <2>5 DEF DeregisterOutcomes
    <3>2. AgentCheckId(s) \notin AtAgent(agent)
      BY <2>2, <2>3, <2>5, IdsDiffer DEF AtAgent, AgentOK
    <3> QED
      BY <1>2, <2>1, <3>1, <3>2
  <2> QED
    BY <2>4, <2>5
<1>4. CASE DeregistersCheck(t, r)
  <2>1. PICK c \in NodeCheckIds : r.path = "check/deregister" /\ r.target = c /\ r.meant.id = c
    BY <1>4, OwnedIds DEF DeregistersCheck
  <2>2. CASE r.target \in DOMAIN agent.checks
    <3>1. o = Outcome(agent.services, Without(agent.checks, {r.target}), 200)
      BY <1>1, <2>1, <2>2 DEF DeregisterOutcomes
    <3>2. a.services = agent.services /\ a.checks = Without(agent.checks, {r.target}) /\ o.code = 200
      BY <3>1, OutcomeFields
    <3>3. AgentOK(a) /\ DOMAIN a.checks = DOMAIN agent.checks \ {r.target}
      BY <3>2, WithoutKeeps
    <3>4. AtAgent(a) \subseteq AtAgent(agent)
      BY <3>2, <3>3 DEF AtAgent
    <3>5. c \notin AtAgent(a)
      BY <2>1, <3>2, <3>3, IdsDiffer DEF AtAgent, AgentOK
    <3> QED
      BY <1>1, <2>1, <3>2, <3>3, <3>4, <3>5 DEF Effect
  <2>3. CASE r.target \notin DOMAIN agent.checks
    <3>1. o \in {Outcome(agent.services, agent.checks, code) : code \in {200, 404}}
      BY <1>1, <2>1, <2>3 DEF DeregisterOutcomes
    <3>2. c \notin AtAgent(agent)
      BY <2>1, <2>3, IdsDiffer DEF AtAgent, AgentOK
    <3> QED
      BY <1>2, <2>1, <3>1, <3>2
  <2> QED
    BY <2>2, <2>3
<1> QED
  BY <1>3, <1>4

(* An update sets the status that was meant on the check that was meant.   *)
LEMMA UpdateEffect ==
  ASSUME IdsApart, AgentOK(agent), NEW t \in Callers, NEW r, UpdatesCheck(t, r),
         NEW o \in Outcomes(r), NEW a, a.services = o.services, a.checks = o.checks
  PROVE  Effect(r, o, a)
<1> DEFINE new == CASE r.path = "check/pass" -> "passing" [] r.path = "check/warn" -> "warning"
                    [] r.path = "check/fail" -> "critical"
<1>1. r.path \in {"check/pass", "check/warn", "check/fail"} /\ new = r.meant.status /\ new \in Statuses
  BY DEF UpdatesCheck, Statuses, UpdateUrl
<1>2. ~ Registers(r) /\ ~ Deregisters(r) /\ Updates(r)
  BY <1>1, KindsOfRequest
<1>3. r.target = r.meant.id
      /\ \/ \E s \in Services : r.meant.id = AgentCheckId(s) /\ r.meant.service = s
         \/ \E c \in NodeCheckIds : r.meant.id = c /\ r.meant.service = Empty
  BY OwnedIds DEF UpdatesCheck
<1>4. o \in UpdateOutcomes(r)
  BY <1>2 DEF Outcomes
<1>5. CASE r.target \in DOMAIN agent.checks /\ agent.checks[r.target].kind = "ttl"
  <2>1. o = Outcome(agent.services, [agent.checks EXCEPT ![r.target].status = new], 200)
    BY <1>4, <1>5, Zenon DEF UpdateOutcomes
  <2> HIDE DEF new
  <2>2. /\ a.services = agent.services /\ o.code = 200
        /\ a.checks = [agent.checks EXCEPT ![r.target].status = new]
    BY <2>1, OutcomeFields
  <2>3. /\ DOMAIN a.checks = DOMAIN agent.checks
        /\ \A c \in DOMAIN agent.checks :
             a.checks[c] = IF c = r.target THEN [agent.checks[c] EXCEPT !.status = new] ELSE agent.checks[c]
    BY <2>2
  <2>4. \A c \in DOMAIN agent.checks :
          /\ DOMAIN a.checks[c] = DOMAIN agent.checks[c]
          /\ a.checks[c].kind = agent.checks[c].kind
          /\ a.checks[c].service = agent.checks[c].service
          /\ a.checks[c].status = IF c = r.target THEN new ELSE agent.checks[c].status
    BY <2>3 DEF AgentOK, CheckOK
  <2>5. AgentOK(a) /\ AtAgent(a) = AtAgent(agent)
    BY <1>1, <2>2, <2>3, <2>4 DEF AgentOK, CheckOK, AtAgent
  <2>6. o.checks[r.target].status = r.meant.status
    BY <1>1, <1>5, <2>4
  <2>7. o.checks[r.target].service = r.meant.service
    BY <1>3, <1>5, <2>4, IdsDiffer DEF AgentOK, CheckOK
  <2> QED
    BY <1>2, <2>2, <2>5, <2>6, <2>7 DEF Effect, AsMeant
<1>6. CASE ~ (r.target \in DOMAIN agent.checks /\ agent.checks[r.target].kind = "ttl")
  <2>1. o \in {Outcome(agent.services, agent.checks, code) : code \in {404, 500}}
    BY <1>4, <1>6, Zenon DEF UpdateOutcomes
  <2>2. PICK code \in {404, 500} : o = Outcome(agent.services, agent.checks, code)
    BY <2>1
  <2>3. a.services = agent.services /\ a.checks = agent.checks /\ o.code \in {404, 500}
    BY <2>2, OutcomeFields
  <2>4. AgentOK(a) /\ AtAgent(a) = AtAgent(agent)
    BY <2>3, SameKeeps
  <2> QED
    BY <1>2, <2>3, <2>4 DEF Effect
<1> QED
  BY <1>5, <1>6

(* Any request of a caller's own.                                          *)
LEMMA RequestEffect ==
  ASSUME IdsApart, AgentOK(agent), NEW t \in Callers, NEW r, GoodRequest(t, r),
         NEW o \in Outcomes(r), NEW a, a.services = o.services, a.checks = o.checks
  PROVE  Effect(r, o, a)
BY RegisterEffect, DeregisterEffect, UpdateEffect DEF GoodRequest

(* What one caller means is not what another means.                        *)
LEMMA OwnIds ==
  ASSUME IdsApart, NEW t \in Callers, NEW u \in Callers, t # u, NEW q, NEW r, GoodRequest(t, q), GoodRequest(u, r)
  PROVE  q.meant.id # r.meant.id
<1>1. ASSUME NEW v \in {t, u}, NEW p, GoodRequest(v, p)
      PROVE  \/ \E s \in ServiceIds(v) : p.meant.id = AgentCheckId(s)
             \/ \E c \in CheckIds(v) : p.meant.id = c
  BY <1>1 DEF GoodRequest, RegistersService, RegistersCheck, DeregistersService, DeregistersCheck, UpdatesCheck
<1>2. ServiceIds(t) \cap ServiceIds(u) = {} /\ CheckIds(t) \cap CheckIds(u) = {}
  BY AgentAssumption
<1> QED
  BY <1>1, <1>2, OwnedIds, IdsDiffer
-----------------------------------------------------------------------------
(* A caller that does nothing, while nothing that it deregistered is added. *)
LEMMA IdleKeeps ==
  ASSUME NEW u, CallerOK(u),
         call'[u] = call[u], net'[u] = net[u], status'[u] = status[u], result'[u] = result[u],
         DOMAIN fate'[u] = DOMAIN fate[u], fate'[u].repeated = fate[u].repeated,
         fate'[u].service = fate[u].service, fate'[u].status = fate[u].status,
         fate'[u].again \in BOOLEAN, fate[u].again => fate'[u].again,
         /\ net[u] # "none" /\ ~ fate'[u].again /\ call[u].meant.id \notin AtAgent(agent)
         => call[u].meant.id \notin AtAgent(agent')
  PROVE  CallerOK(u)'
<1>1. Reported(u)' <=> Reported(u)
  BY DEF Reported
<1> QED
  BY <1>1 DEF CallerOK

(* An agent that is left alone, and callers that go on.                    *)
LEMMA QuietKeeps ==
  ASSUME AgentInv, AgentTypes', UNCHANGED agent,
         \A u \in Callers : mine[u] \subseteq mine'[u],
         \A u \in Callers : CallerOK(u)',
         LateOK'
  PROVE  AgentInv'
<1>1. AtAgent(agent)' \subseteq UNION {mine'[u] : u \in Callers}
  BY DEF AgentInv
<1> QED
  BY <1>1 DEF AgentInv

(* The initial states.                                                     *)
LEMMA AgentInit == Init => AgentInv
<1> SUFFICES ASSUME Init
             PROVE  AgentInv
  OBVIOUS
<1> DEFINE no == [c \in {} |-> NoCheck]
<1>1. agent = [services |-> {}, checks |-> no] /\ DOMAIN no = {}
  BY Zenon DEF Init
<1> HIDE DEF no
<1>2. DOMAIN agent = {"services", "checks"} /\ agent.services = {} /\ DOMAIN agent.checks = {}
  BY <1>1
<1>3. AgentOK(agent) /\ AtAgent(agent) = {}
  BY <1>2 DEF AgentOK, AtAgent
<1>4. AgentTypes
  BY <1>2, <1>3, AgentAssumption DEF AgentTypes, Init
<1>5. /\ DOMAIN NoFate = {"service", "status", "repeated", "again"}
      /\ NoFate.repeated \in BOOLEAN /\ NoFate.again \in BOOLEAN
  BY DEF NoFate
<1>6. ASSUME NEW t \in Callers
      PROVE  CallerOK(t)
  BY <1>5 DEF CallerOK, Init
<1> QED
  BY <1>3, <1>4, <1>6 DEF AgentInv, LateOK, Range, Init

(* A method is called.                                                     *)
LEMMA BeginKeeps ==
  ASSUME AgentInv, NEW t \in Callers, NEW r, GoodRequest(t, r), Begin(t, r)
  PROVE  AgentInv'
<1>1. /\ calls' = calls + 1 /\ calls < MaxCalls
      /\ call' = [call EXCEPT ![t] = r] /\ net' = [net EXCEPT ![t] = "sent"]
      /\ result' = [result EXCEPT ![t] = "none"] /\ fate' = [fate EXCEPT ![t] = NoFate]
      /\ agent' = agent /\ alive' = alive /\ status' = status /\ orphans' = orphans /\ mine' = mine
  BY DEF Begin
<1>2. AgentTypes'
  BY <1>1, AgentAssumption DEF AgentInv, AgentTypes
<1>3. /\ call'[t] = r /\ net'[t] = "sent" /\ result'[t] = "none" /\ fate'[t] = NoFate
      /\ \A u \in Callers \ {t} : /\ call'[u] = call[u] /\ net'[u] = net[u]
                                  /\ result'[u] = result[u] /\ fate'[u] = fate[u]
  BY <1>1 DEF AgentInv, AgentTypes
<1>4. /\ DOMAIN NoFate = {"service", "status", "repeated", "again"}
      /\ NoFate.repeated \in BOOLEAN /\ NoFate.again \in BOOLEAN
  BY DEF NoFate
<1>5. CallerOK(t)'
  BY <1>3, <1>4 DEF CallerOK
<1>6. ASSUME NEW u \in Callers, u # t
      PROVE  CallerOK(u)'
  <2>1. CallerOK(u)
    BY DEF AgentInv
  <2>2. fate[u].again \in BOOLEAN
    BY <2>1 DEF CallerOK
  <2> QED
    BY <1>1, <1>3, <1>6, <2>1, <2>2, IdleKeeps
<1> QED
  BY <1>1, <1>2, <1>5, <1>6, QuietKeeps DEF AgentInv, LateOK

(* What a request that takes effect does to the agent and to the history.  *)
LEMMA TakeEffectKeeps ==
  ASSUME IdsApart, AgentInv, NEW t \in Callers, NEW r, GoodRequest(t, r),
         NEW o \in Outcomes(r), TakeEffect(t, r, o)
  PROVE  /\ DOMAIN agent' = {"services", "checks"} /\ DOMAIN mine' = Callers
         /\ Effect(r, o, agent')
         /\ AtAgent(agent') \subseteq UNION {mine'[u] : u \in Callers}
<1>1. agent' = [services |-> o.services, checks |-> o.checks]
      /\ mine' = IF Registers(r) THEN [mine EXCEPT ![t] = @ \cup {r.meant.id}] ELSE mine
  BY DEF TakeEffect
<1>2. DOMAIN agent' = {"services", "checks"} /\ agent'.services = o.services /\ agent'.checks = o.checks
  BY <1>1
<1>3. Effect(r, o, agent')
  BY <1>2, RequestEffect DEF AgentInv, AgentTypes
<1>4. /\ DOMAIN mine' = Callers
      /\ \A u \in Callers : mine[u] \subseteq mine'[u]
      /\ Registers(r) => r.meant.id \in mine'[t]
  BY <1>1 DEF AgentInv, AgentTypes
<1>5. AtAgent(agent') \subseteq UNION {mine'[u] : u \in Callers}
  BY <1>3, <1>4 DEF Effect, AgentInv
<1> QED
  BY <1>2, <1>3, <1>4, <1>5

(* The agent processes a request.                                          *)
LEMMA ProcessKeeps ==
  ASSUME IdsApart, AgentInv, NEW t \in Callers, Process(t)
  PROVE  AgentInv'
<1> DEFINE r == call[t]
<1>1. net[t] = "sent" /\ GoodRequest(t, r) /\ result[t] = "none" /\ CallerOK(t)
  BY DEF Process, AgentInv, CallerOK
<1>2. PICK o \in Outcomes(r) :
        /\ TakeEffect(t, r, o)
        /\ status' = [status EXCEPT ![t] = o.code]
        /\ fate' = [fate EXCEPT ![t] =
             IF Updates(r) /\ o.code = 200
             THEN [fate[t] EXCEPT !.service = o.checks[r.target].service,
                                  !.status = o.checks[r.target].status]
             ELSE fate[t]]
  BY DEF Process
<1>3. /\ net' = [net EXCEPT ![t] = "answered"] /\ alive' = alive /\ call' = call
      /\ orphans' = orphans /\ result' = result /\ calls' = calls
  BY DEF Process
<1> HIDE DEF r
<1>4. /\ DOMAIN agent' = {"services", "checks"} /\ DOMAIN mine' = Callers
      /\ Effect(r, o, agent')
      /\ AtAgent(agent') \subseteq UNION {mine'[u] : u \in Callers}
  BY <1>1, <1>2, TakeEffectKeeps
<1>5. o.code \in {200, 404, 500} /\ AgentOK(agent')
  BY <1>4 DEF Effect
<1>6. AgentTypes'
  BY <1>2, <1>3, <1>4, <1>5 DEF AgentInv, AgentTypes
<1>7. /\ net'[t] = "answered" /\ status'[t] = o.code
      /\ \A u \in Callers \ {t} : net'[u] = net[u] /\ status'[u] = status[u] /\ fate'[u] = fate[u]
  BY <1>2, <1>3 DEF AgentInv, AgentTypes
<1>8. /\ DOMAIN fate'[t] = DOMAIN fate[t] /\ fate'[t].repeated = fate[t].repeated
      /\ fate'[t].again = fate[t].again
      /\ Updates(r) /\ o.code = 200 =>
           fate'[t].service = o.checks[r.target].service /\ fate'[t].status = o.checks[r.target].status
  <2>1. fate'[t] = IF Updates(r) /\ o.code = 200
                   THEN [fate[t] EXCEPT !.service = o.checks[r.target].service,
                                        !.status = o.checks[r.target].status]
                   ELSE fate[t]
    BY <1>2 DEF AgentInv, AgentTypes
  <2>2. DOMAIN fate[t] = {"service", "status", "repeated", "again"}
    BY <1>1 DEF CallerOK
  <2>3. CASE Updates(r) /\ o.code = 200
    BY <2>1, <2>2, <2>3
  <2>4. CASE ~ (Updates(r) /\ o.code = 200)
    BY <2>1, <2>4
  <2> QED
    BY <2>3, <2>4
<1>9. Updates(r) /\ o.code = 200 => Reported(t)'
  BY <1>3, <1>4, <1>8 DEF Effect, Reported, r
<1>10. Deregisters(r) => r.meant.id \notin AtAgent(agent')
  BY <1>4 DEF Effect
<1>11. CallerOK(t)'
  BY <1>1, <1>3, <1>7, <1>8, <1>9, <1>10 DEF CallerOK, r
<1>12. ASSUME NEW u \in Callers, u # t
       PROVE  CallerOK(u)'
  <2>1. CallerOK(u)
    BY DEF AgentInv
  <2>2. fate[u].again \in BOOLEAN /\ (net[u] # "none" => GoodRequest(u, call[u]))
    BY <2>1 DEF CallerOK
  <2>3. net[u] # "none" => call[u].meant.id # r.meant.id
    BY <1>1, <1>12, <2>2, OwnIds
  <2>4. net[u] # "none" /\ call[u].meant.id \notin AtAgent(agent) => call[u].meant.id \notin AtAgent(agent')
    BY <1>4, <2>3 DEF Effect
  <2> QED
    BY <1>3, <1>7, <1>12, <2>1, <2>2, <2>4, IdleKeeps
<1> QED
  BY <1>3, <1>4, <1>6, <1>11, <1>12 DEF AgentInv, LateOK

(* The agent refuses.                                                      *)
LEMMA RejectKeeps ==
  ASSUME AgentInv, NEW t \in Callers, Reject(t)
  PROVE  AgentInv'
<1>1. /\ net[t] = "sent" /\ net' = [net EXCEPT ![t] = "answered"]
      /\ status' = [status EXCEPT ![t] = 500]
      /\ agent' = agent /\ alive' = alive /\ call' = call /\ orphans' = orphans /\ result' = result
      /\ calls' = calls /\ mine' = mine /\ fate' = fate
  BY DEF Reject
<1>2. AgentTypes'
  BY <1>1 DEF AgentInv, AgentTypes
<1>3. /\ net'[t] = "answered" /\ status'[t] = 500
      /\ \A u \in Callers \ {t} : net'[u] = net[u] /\ status'[u] = status[u]
  BY <1>1 DEF AgentInv, AgentTypes
<1>4. CallerOK(t)'
  BY <1>1, <1>3 DEF AgentInv, CallerOK
<1>5. ASSUME NEW u \in Callers, u # t
      PROVE  CallerOK(u)'
  <2>1. CallerOK(u) /\ fate[u].again \in BOOLEAN
    BY DEF AgentInv, CallerOK
  <2> QED
    BY <1>1, <1>3, <1>5, <2>1, IdleKeeps
<1> QED
  BY <1>1, <1>2, <1>4, <1>5, QuietKeeps DEF AgentInv, LateOK

(* libcurl sends a request without a body again.                           *)
LEMMA RepeatKeeps ==
  ASSUME AgentInv, NEW t \in Callers, Repeat(t)
  PROVE  AgentInv'
<1>1. /\ net[t] = "answered" /\ net' = [net EXCEPT ![t] = "sent"]
      /\ fate' = [fate EXCEPT ![t] = [fate[t] EXCEPT !.repeated = TRUE]]
      /\ agent' = agent /\ alive' = alive /\ call' = call /\ orphans' = orphans /\ result' = result
      /\ calls' = calls /\ mine' = mine /\ status' = status
  BY DEF Repeat
<1>2. AgentTypes'
  BY <1>1 DEF AgentInv, AgentTypes
<1>3. /\ net'[t] = "sent" /\ fate'[t] = [fate[t] EXCEPT !.repeated = TRUE]
      /\ \A u \in Callers \ {t} : net'[u] = net[u] /\ fate'[u] = fate[u]
  BY <1>1 DEF AgentInv, AgentTypes
<1>4. CallerOK(t)
  BY DEF AgentInv
<1>5. /\ DOMAIN fate'[t] = DOMAIN fate[t] /\ fate'[t].repeated = TRUE
      /\ fate'[t].again = fate[t].again
  BY <1>3, <1>4 DEF CallerOK
<1>6. CallerOK(t)'
  BY <1>1, <1>3, <1>4, <1>5 DEF CallerOK
<1>7. ASSUME NEW u \in Callers, u # t
      PROVE  CallerOK(u)'
  <2>1. CallerOK(u) /\ fate[u].again \in BOOLEAN
    BY DEF AgentInv, CallerOK
  <2> QED
    BY <1>1, <1>3, <1>7, <2>1, IdleKeeps
<1> QED
  BY <1>1, <1>2, <1>6, <1>7, QuietKeeps DEF AgentInv, LateOK

(* A caller leaves its call behind, because it failed or crashed.          *)
LEMMA LeaveBehindKeeps ==
  ASSUME AgentInv, NEW t \in Callers, LeaveBehind(t), net[t] # "none" \/ orphans' = orphans,
         alive' \subseteq Callers,
         result' = [result EXCEPT ![t] = "threw"] \/ result' = [result EXCEPT ![t] = "none"]
  PROVE  AgentInv'
<1>1. /\ orphans' = orphans \/ (net[t] = "sent" /\ orphans' = Append(orphans, <<t, call[t]>>))
      /\ net' = [net EXCEPT ![t] = "none"] /\ call' = [call EXCEPT ![t] = NoRequest]
      /\ status' = [status EXCEPT ![t] = 0] /\ fate' = [fate EXCEPT ![t] = NoFate]
      /\ agent' = agent /\ calls' = calls
  BY DEF LeaveBehind
<1>2. DOMAIN mine' = Callers /\ \A u \in Callers : mine[u] \subseteq mine'[u]
  BY DEF LeaveBehind, AgentInv, AgentTypes
<1>3. AgentTypes'
  BY <1>1, <1>2 DEF AgentInv, AgentTypes
<1>4. /\ net'[t] = "none" /\ call'[t] = NoRequest /\ fate'[t] = NoFate /\ result'[t] \in {"threw", "none"}
      /\ \A u \in Callers \ {t} : /\ net'[u] = net[u] /\ call'[u] = call[u] /\ status'[u] = status[u]
                                  /\ fate'[u] = fate[u] /\ result'[u] = result[u]
  BY <1>1 DEF AgentInv, AgentTypes
<1>5. /\ DOMAIN NoFate = {"service", "status", "repeated", "again"}
      /\ NoFate.repeated \in BOOLEAN /\ NoFate.again \in BOOLEAN
  BY DEF NoFate
<1>6. CallerOK(t)'
  BY <1>4, <1>5 DEF CallerOK
<1>7. ASSUME NEW u \in Callers, u # t
      PROVE  CallerOK(u)'
  <2>1. CallerOK(u) /\ fate[u].again \in BOOLEAN
    BY DEF AgentInv, CallerOK
  <2> QED
    BY <1>1, <1>4, <1>7, <2>1, IdleKeeps
<1>8. LateOK'
  <2> DEFINE o == <<t, call[t]>>
  <2>1. LateOK
    BY DEF AgentInv
  <2>2. CASE orphans' = orphans
    BY <2>1, <2>2 DEF LateOK
  <2>3. CASE net[t] = "sent" /\ orphans' = Append(orphans, o)
    <3>1. GoodRequest(t, call[t])
      BY <2>3 DEF AgentInv, CallerOK
    <3>2. o[1] = t /\ o[2] = call[t]
      OBVIOUS
    <3> HIDE DEF o
    <3>3. orphans' \in Seq(Range(orphans')) /\ Range(orphans') \subseteq Range(orphans) \cup {o}
      BY <2>1, <2>3, AppendAdds DEF LateOK
    <3> QED
      BY <2>1, <3>1, <3>2, <3>3 DEF LateOK
  <2> QED
    BY <1>1, <2>2, <2>3
<1> QED
  BY <1>1, <1>2, <1>3, <1>6, <1>7, <1>8, QuietKeeps

(* A request that its caller has given up takes effect.                    *)
LEMMA OrphanKeeps ==
  ASSUME IdsApart, AgentInv, NEW n \in DOMAIN orphans, ProcessOrphan(n)
  PROVE  AgentInv'
<1> DEFINE t == orphans[n][1]
           r == orphans[n][2]
<1>1. t \in Callers /\ GoodRequest(t, r)
  BY DEF AgentInv, LateOK, Range
<1>2. PICK o \in Outcomes(r) : TakeEffect(t, r, o)
  BY DEF ProcessOrphan
<1>3. /\ orphans' = RemoveAt(orphans, n)
      /\ fate' = IF Registers(r) /\ call[t].meant.id = r.meant.id
                 THEN [fate EXCEPT ![t] = [fate[t] EXCEPT !.again = TRUE]] ELSE fate
      /\ alive' = alive /\ call' = call /\ net' = net /\ status' = status /\ result' = result /\ calls' = calls
  BY DEF ProcessOrphan
<1> HIDE DEF t, r
<1>4. /\ DOMAIN agent' = {"services", "checks"} /\ DOMAIN mine' = Callers
      /\ Effect(r, o, agent')
      /\ AtAgent(agent') \subseteq UNION {mine'[u] : u \in Callers}
  BY <1>1, <1>2, TakeEffectKeeps
<1>5. /\ DOMAIN fate' = Callers
      /\ \A u \in Callers \ {t} : fate'[u] = fate[u]
      /\ fate'[t] = IF Registers(r) /\ call[t].meant.id = r.meant.id
                    THEN [fate[t] EXCEPT !.again = TRUE] ELSE fate[t]
  BY <1>1, <1>3 DEF AgentInv, AgentTypes
<1>6. AgentTypes'
  BY <1>3, <1>4, <1>5 DEF AgentInv, AgentTypes, Effect
<1>7. ASSUME NEW u \in Callers
      PROVE  CallerOK(u)'
  <2>1. CallerOK(u)
    BY DEF AgentInv
  <2>2. /\ DOMAIN fate[u] = {"service", "status", "repeated", "again"}
        /\ fate[u].again \in BOOLEAN
        /\ net[u] # "none" => GoodRequest(u, call[u])
    BY <2>1 DEF CallerOK
  <2>3. /\ DOMAIN fate'[u] = DOMAIN fate[u] /\ fate'[u].repeated = fate[u].repeated
        /\ fate'[u].service = fate[u].service /\ fate'[u].status = fate[u].status
        /\ fate'[u].again \in BOOLEAN /\ (fate[u].again => fate'[u].again)
        /\ u = t /\ Registers(r) /\ call[t].meant.id = r.meant.id => fate'[u].again
    <3>1. CASE u = t /\ Registers(r) /\ call[t].meant.id = r.meant.id
      <4>1. fate'[u] = [fate[u] EXCEPT !.again = TRUE]
        BY <1>5, <3>1
      <4> QED
        BY <2>2, <4>1
    <3>2. CASE ~ (u = t /\ Registers(r) /\ call[t].meant.id = r.meant.id)
      <4>1. fate'[u] = fate[u]
        BY <1>5, <3>2
      <4> QED
        BY <2>2, <3>2, <4>1
    <3> QED
      BY <3>1, <3>2
  <2>4. /\ net[u] # "none" /\ ~ fate'[u].again /\ call[u].meant.id \notin AtAgent(agent)
        => call[u].meant.id \notin AtAgent(agent')
    <3> SUFFICES ASSUME net[u] # "none", ~ fate'[u].again, call[u].meant.id \notin AtAgent(agent)
                 PROVE  call[u].meant.id \notin AtAgent(agent')
      OBVIOUS
    <3>1. u # t => call[u].meant.id # r.meant.id
      BY <1>1, <2>2, OwnIds
    <3>2. Registers(r) => call[u].meant.id # r.meant.id
      BY <2>3, <3>1
    <3> QED
      BY <1>4, <3>2 DEF Effect
  <2> QED
    BY <1>3, <2>1, <2>3, <2>4, IdleKeeps
<1>8. LateOK'
  BY <1>3, RemoveLeaves DEF AgentInv, LateOK
<1> QED
  BY <1>4, <1>6, <1>7, <1>8 DEF AgentInv

(* What put() makes of the status of an answer.                            *)
LEMMA PutResults ==
  ASSUME NEW code \in {0, 200, 404, 500}
  PROVE  /\ PutResult(code) \in {"ok", "NotFoundError", "BadStatus"}
         /\ PutResult(code) = "ok" <=> code = 200
         /\ PutResult(code) \in {"ok", "NotFoundError"} => code \in {200, 404}
BY DEF PutResult, Success, StatusError

(* A method returns.                                                       *)
LEMMA ReturnKeeps ==
  ASSUME AgentInv, NEW t \in Callers, Return(t)
  PROVE  AgentInv'
<1> DEFINE got == PutResult(status[t])
           r == call[t]
<1>1. /\ net[t] = "answered" /\ net' = [net EXCEPT ![t] = "none"]
      /\ result' = [result EXCEPT ![t] = got]
      /\ call' = [call EXCEPT ![t] = IF Updates(r) THEN r ELSE NoRequest]
      /\ status' = [status EXCEPT ![t] = 0]
      /\ fate' = [fate EXCEPT ![t] = [fate[t] EXCEPT !.repeated = FALSE, !.again = FALSE]]
      /\ agent' = agent /\ alive' = alive /\ orphans' = orphans /\ calls' = calls
  BY DEF Return
<1>2. mine' = IF Deregisters(r) /\ got \in {"ok", "NotFoundError"} /\ ~ fate[t].again
              THEN [mine EXCEPT ![t] = mine[t] \ {r.meant.id}] ELSE mine
  BY DEF Return
<1>3. /\ got \in {"ok", "NotFoundError", "BadStatus"}
      /\ got = "ok" <=> status[t] = 200
      /\ got \in {"ok", "NotFoundError"} => status[t] \in {200, 404}
  BY PutResults DEF AgentInv, AgentTypes
<1> HIDE DEF got
<1>4. CallerOK(t)
  BY DEF AgentInv
<1>5. AgentTypes'
  BY <1>1, <1>2, <1>3 DEF AgentInv, AgentTypes
<1>6. /\ net'[t] = "none" /\ result'[t] = got /\ call'[t] = (IF Updates(r) THEN r ELSE NoRequest)
      /\ fate'[t] = [fate[t] EXCEPT !.repeated = FALSE, !.again = FALSE]
      /\ \A u \in Callers \ {t} : /\ net'[u] = net[u] /\ call'[u] = call[u] /\ status'[u] = status[u]
                                  /\ fate'[u] = fate[u] /\ result'[u] = result[u]
  BY <1>1 DEF AgentInv, AgentTypes
<1>7. /\ DOMAIN fate'[t] = DOMAIN fate[t] /\ fate'[t].repeated = FALSE /\ fate'[t].again = FALSE
      /\ fate'[t].service = fate[t].service /\ fate'[t].status = fate[t].status
  BY <1>4, <1>6 DEF CallerOK
<1>8. ~ Updates(NoRequest)
  BY DEF Updates, NoRequest, Request
<1>9. CallerOK(t)'
  <2>1. Updates(call'[t]) /\ result'[t] = "ok" => Reported(t)'
    <3> SUFFICES ASSUME Updates(call'[t]), result'[t] = "ok"
                 PROVE  Reported(t)'
      OBVIOUS
    <3>1. Updates(r) /\ call'[t] = r /\ status[t] = 200
      BY <1>3, <1>6, <1>8
    <3>2. Reported(t)
      BY <1>1, <1>4, <3>1 DEF CallerOK
    <3> QED
      BY <1>7, <3>1, <3>2 DEF Reported
  <2> QED
    BY <1>4, <1>6, <1>7, <2>1 DEF CallerOK
<1>10. ASSUME NEW u \in Callers, u # t
       PROVE  CallerOK(u)'
  <2>1. CallerOK(u) /\ fate[u].again \in BOOLEAN
    BY DEF AgentInv, CallerOK
  <2> QED
    BY <1>1, <1>6, <1>10, <2>1, IdleKeeps
<1>11. AtAgent(agent') \subseteq UNION {mine'[u] : u \in Callers}
  <2>1. CASE Deregisters(r) /\ got \in {"ok", "NotFoundError"} /\ ~ fate[t].again
    <3>1. r.meant.id \notin AtAgent(agent)
      BY <1>1, <1>3, <1>4, <2>1 DEF CallerOK
    <3>2. \A u \in Callers : mine[u] \ {r.meant.id} \subseteq mine'[u]
      BY <1>2, <2>1 DEF AgentInv, AgentTypes
    <3> QED
      BY <1>1, <3>1, <3>2 DEF AgentInv
  <2>2. CASE ~ (Deregisters(r) /\ got \in {"ok", "NotFoundError"} /\ ~ fate[t].again)
    BY <1>1, <1>2, <2>2 DEF AgentInv
  <2> QED
    BY <2>1, <2>2
<1> QED
  BY <1>1, <1>5, <1>9, <1>10, <1>11 DEF AgentInv, LateOK

(* What the agent does of itself only removes or updates.                  *)
LEMMA AgentAloneKeeps ==
  ASSUME AgentInv, DOMAIN agent' = {"services", "checks"}, AgentOK(agent'),
         AtAgent(agent') \subseteq AtAgent(agent),
         UNCHANGED <<alive, call, net, status, orphans, result, calls, mine, fate>>
  PROVE  AgentInv'
<1>1. AgentTypes'
  BY DEF AgentInv, AgentTypes
<1>2. ASSUME NEW u \in Callers
      PROVE  CallerOK(u)'
  <2>1. CallerOK(u) /\ fate[u].again \in BOOLEAN
    BY DEF AgentInv, CallerOK
  <2> QED
    BY <2>1, IdleKeeps
<1> QED
  BY <1>1, <1>2 DEF AgentInv, LateOK

(* The agent updates the status of a check.                                *)
LEMMA SetStatusKeeps ==
  ASSUME AgentInv, NEW c \in DOMAIN agent.checks, NEW s \in Statuses, SetStatus(c, s)
  PROVE  /\ DOMAIN agent' = {"services", "checks"} /\ AgentOK(agent')
         /\ AtAgent(agent') \subseteq AtAgent(agent)
<1>1. DOMAIN agent = {"services", "checks"} /\ AgentOK(agent)
  BY DEF AgentInv, AgentTypes
<1>2. /\ DOMAIN agent' = {"services", "checks"} /\ agent'.services = agent.services
      /\ agent'.checks = [agent.checks EXCEPT ![c].status = s]
  BY <1>1 DEF SetStatus
<1>3. /\ DOMAIN agent'.checks = DOMAIN agent.checks
      /\ \A d \in DOMAIN agent.checks :
           agent'.checks[d] = IF d = c THEN [agent.checks[d] EXCEPT !.status = s] ELSE agent.checks[d]
  BY <1>2
<1>4. \A d \in DOMAIN agent.checks :
        /\ DOMAIN agent'.checks[d] = DOMAIN agent.checks[d]
        /\ agent'.checks[d].kind = agent.checks[d].kind
        /\ agent'.checks[d].service = agent.checks[d].service
        /\ agent'.checks[d].status = IF d = c THEN s ELSE agent.checks[d].status
  BY <1>1, <1>3 DEF AgentOK, CheckOK
<1> QED
  BY <1>1, <1>2, <1>3, <1>4 DEF AgentOK, CheckOK, AtAgent

(* It removes an abandoned service with its checks.                        *)
LEMMA ReapKeeps ==
  ASSUME AgentInv, NEW s \in agent.services, Reap(s)
  PROVE  AgentInv'
<1>1. agent' = [services |-> agent.services \ {s}, checks |-> Without(agent.checks, OfService(s))]
  BY DEF Reap
<1>2. /\ DOMAIN agent' = {"services", "checks"} /\ agent'.services = agent.services \ {s}
      /\ agent'.checks = Without(agent.checks, OfService(s))
  BY <1>1
<1>3. AgentOK(agent') /\ DOMAIN agent'.checks = DOMAIN agent.checks \ OfService(s)
  BY <1>2, WithoutKeeps DEF AgentInv, AgentTypes
<1>4. AtAgent(agent') \subseteq AtAgent(agent)
  BY <1>2, <1>3 DEF AtAgent
<1> QED
  BY <1>2, <1>3, <1>4, AgentAloneKeeps DEF Reap

(* Every method keeps the invariant when it is called.                     *)
LEMMA InvokeKeeps ==
  ASSUME AgentInv, NEW t \in Callers, Invoke(t)
  PROVE  AgentInv'
<1>1. ASSUME NEW n \in ServicesOf[t], NEW check \in {"none"} \cup CheckTypes, NEW after,
             RegisterService(t, n, check, after)
      PROVE  AgentInv'
  <2> DEFINE meant == [OfTheService(IdOf(n)) EXCEPT !.remove = check = "TtlCheck" /\ after # 0]
             r == RegisterServiceRequest(Arguments(n, check, after), meant)
  <2>1. meant.id = AgentCheckId(IdOf(n))
    BY IntentFields, Zenon
  <2>2. Begin(t, r)
    BY <1>1, Zenon DEF RegisterService
  <2> HIDE DEF meant
  <2>3. GoodRequest(t, r)
    BY <2>1, RegistrationsGood, Zenon
  <2> HIDE DEF r
  <2> QED
    BY <2>2, <2>3, BeginKeeps
<1>2. ASSUME NEW n \in ChecksOf[t], NEW check \in CheckTypes, RegisterCheck(t, n, check)
      PROVE  AgentInv'
  <2> DEFINE meant == OfNode(IdOf(n))
             r == RegisterCheckRequest(Arguments(n, check, 0), meant)
  <2>1. meant.id = IdOf(n)
    BY IntentFields, Zenon
  <2>2. Begin(t, r)
    BY <1>2, Zenon DEF RegisterCheck
  <2> HIDE DEF meant
  <2>3. GoodRequest(t, r)
    BY <2>1, RegistrationsGood, Zenon
  <2> HIDE DEF r
  <2> QED
    BY <2>2, <2>3, BeginKeeps
<1>3. ASSUME NEW s \in ServiceIds(t), DeregisterService(t, s)
      PROVE  AgentInv'
  BY <1>3, OthersGood, BeginKeeps, Zenon DEF DeregisterService
<1>4. ASSUME NEW c \in CheckIds(t), DeregisterCheck(t, c)
      PROVE  AgentInv'
  BY <1>4, OthersGood, BeginKeeps, Zenon DEF DeregisterCheck
<1>5. ASSUME NEW s \in ServiceIds(t), NEW new \in Statuses, UpdateService(t, s, new)
      PROVE  AgentInv'
  BY <1>5, OthersGood, BeginKeeps, Zenon DEF UpdateService
<1>6. ASSUME NEW c \in CheckIds(t), NEW new \in Statuses, UpdateCheck(t, c, new)
      PROVE  AgentInv'
  BY <1>6, OthersGood, BeginKeeps, Zenon DEF UpdateCheck
<1> QED
  BY <1>1, <1>2, <1>3, <1>4, <1>5, <1>6, Zenon DEF Invoke

(* So does every other step.                                               *)
LEMMA AgentStep ==
  ASSUME IdsApart, AgentInv, [Next]_vars
  PROVE  AgentInv'
<1>1. ASSUME NEW t \in Callers, GiveUp(t)
      PROVE  AgentInv'
  <2>1. alive \subseteq Callers
    BY DEF AgentInv, AgentTypes
  <2> QED
    BY <1>1, <2>1, LeaveBehindKeeps DEF GiveUp
<1>2. ASSUME NEW t \in Callers, Crash(t)
      PROVE  AgentInv'
  <2>1. alive' \subseteq Callers
    BY <1>2 DEF Crash, AgentInv, AgentTypes
  <2>2. net[t] # "none" \/ orphans' = orphans
    BY <1>2 DEF Crash, LeaveBehind
  <2> QED
    BY <1>2, <2>1, <2>2, LeaveBehindKeeps DEF Crash
<1>3. ASSUME NEW t \in Callers, Restart(t)
      PROVE  AgentInv'
  <2>1. AgentTypes'
    BY <1>3 DEF Restart, AgentInv, AgentTypes
  <2>2. ASSUME NEW u \in Callers
        PROVE  CallerOK(u)'
    <3>1. CallerOK(u) /\ fate[u].again \in BOOLEAN
      BY DEF AgentInv, CallerOK
    <3> QED
      BY <1>3, <3>1, IdleKeeps DEF Restart
  <2> QED
    BY <1>3, <2>1, <2>2, QuietKeeps DEF Restart, AgentInv, LateOK
<1>4. ASSUME NEW c \in DOMAIN agent.checks,
             Expire(c) \/ \E s \in {"passing", "critical"} : Run(c, s)
      PROVE  AgentInv'
  <2>1. PICK s \in Statuses :
          /\ SetStatus(c, s)
          /\ UNCHANGED <<alive, call, net, status, orphans, result, calls, mine, fate>>
    <3>1. {"passing", "critical"} \subseteq Statuses
      BY DEF Statuses
    <3> QED
      BY <1>4, <3>1 DEF Expire, Run
  <2>2. /\ DOMAIN agent' = {"services", "checks"} /\ AgentOK(agent')
        /\ AtAgent(agent') \subseteq AtAgent(agent)
    BY <2>1, SetStatusKeeps
  <2> QED
    BY <2>1, <2>2, AgentAloneKeeps
<1>5. CASE UNCHANGED vars
  <2>1. /\ DOMAIN agent' = {"services", "checks"} /\ AgentOK(agent')
        /\ AtAgent(agent') \subseteq AtAgent(agent)
    BY <1>5 DEF vars, AgentInv, AgentTypes
  <2> QED
    BY <1>5, <2>1, AgentAloneKeeps DEF vars
<1>6. ASSUME NEW t \in Callers,
             \/ Invoke(t) \/ Process(t) \/ Reject(t) \/ Repeat(t)
             \/ GiveUp(t) \/ Return(t) \/ Crash(t) \/ Restart(t)
      PROVE  AgentInv'
  BY <1>1, <1>2, <1>3, <1>6, InvokeKeeps, ProcessKeeps, RejectKeeps, RepeatKeeps, ReturnKeeps
<1>7. ASSUME NEW n \in DOMAIN orphans, ProcessOrphan(n)
      PROVE  AgentInv'
  BY <1>7, OrphanKeeps
<1> QED
  BY <1>4, <1>5, <1>6, <1>7, ReapKeeps DEF Next
-----------------------------------------------------------------------------
(***************************************************************************)
(* The inductive invariant: a request asks the agent for what was meant,   *)
(* about a service or check of the caller's own; when a deregistration has *)
(* been answered, nothing of what it named is there, unless an earlier     *)
(* registration arrived late; and all that is there is some program's.     *)
(***************************************************************************)
THEOREM AgentInvariance ==
  ASSUME IdsApart
  PROVE  Spec => []AgentInv
<1>1. AgentInv /\ [Next]_vars => AgentInv'
  BY AgentStep
<1> QED
  BY <1>1, AgentInit, PTL DEF Spec

(* The variables keep their types; checks of a service go with it.         *)
THEOREM AgentTypeCorrect ==
  ASSUME IdsApart
  PROVE  Spec => []TypeOK
<1>1. AgentInv => TypeOK
  BY DEF AgentInv, AgentTypes, AgentOK, CheckOK, TypeOK, Kinds
<1> QED
  BY <1>1, AgentInvariance, PTL

(***************************************************************************)
(* When pass(), warn(), fail() or their service forms return, the agent    *)
(* has set that status on the check that was meant, although the library   *)
(* and the agent each make up the id of a service's check, and a check of  *)
(* the node may have the id of a service for its own.  It must not have    *)
(* one that begins with "service:" and goes on with such an id (IdsApart): *)
(* it would replace the check of that service, and be updated in its name. *)
(***************************************************************************)
THEOREM StatusWhereMeant ==
  ASSUME IdsApart
  PROVE  Spec => []ReportedWhereMeant
<1>1. AgentInv => ReportedWhereMeant
  BY DEF AgentInv, CallerOK, Reported, AsMeant, ReportedWhereMeant
<1> QED
  BY <1>1, AgentInvariance, PTL

(***************************************************************************)
(* Nothing is at the agent that no program is responsible for: what was    *)
(* deregistered is gone, also after a NotFoundError, and whatever was      *)
(* lost, repeated or late, until a registration of it arrives.             *)
(***************************************************************************)
THEOREM NothingStays ==
  ASSUME IdsApart
  PROVE  Spec => []NothingLeftBehind
<1>1. AgentInv => NothingLeftBehind
  BY DEF AgentInv, AtAgent, NothingLeftBehind
<1> QED
  BY <1>1, AgentInvariance, PTL
=============================================================================
