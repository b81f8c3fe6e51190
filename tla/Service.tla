------------------------------ MODULE Service -------------------------------
(***************************************************************************)
(* The process around the handlers: what starts and what does not start    *)
(* (__main__.py: main; app.py: create_app; engine.py: Engine.start), which *)
(* route takes a request, and the routes that are not a source's: the      *)
(* admin API's authentication, /health and /metrics (app.py).              *)
(*                                                                         *)
(* One start of the process with one configuration and one environment,    *)
(* and one request to it; the store may fail at the start and under the    *)
(* request.  What the engine does with an admitted call is in Admission.   *)
(***************************************************************************)
EXTENDS Gate

CONSTANT
  Case       \* configurations, environments and requests, as records

ASSUME CaseAssumption ==
  \A c \in Case :
    /\ DOMAIN c.env \cap Unnamed = {}
    /\ \A n \in DOMAIN c.request.headers : c.request.headers[n] \in Seq(STRING)
    /\ c.request.chunks \in Seq(Nat) /\ c.config.maxBody \in Int
    /\ \A i \in DOMAIN c.config.sources :
         LET s == c.config.sources[i]
         IN  /\ s # None
             /\ s.verify.envs \in Seq(STRING)
             /\ s.verify.strategy = "none" => s.verify.envs = <<>>
             /\ Len(s.sinks) \in Nat /\ DOMAIN s.sinks = 1..Len(s.sinks)
    /\ \A i \in DOMAIN c.config.sinks :
         DOMAIN c.config.sinks[i].env = EnvFields(c.config.sinks[i].type)

vars == <<inputs, source, pc, body, answer, event>>

TypeOK ==
  /\ \E c \in Case : config = c.config /\ env = c.env /\ request = c.request
  /\ source = None \/ \E i \in DOMAIN config.sources : source = config.sources[i]
  /\ pc \in {"load", "create", "start", "serving", "stopped", "health", "metrics", "admin",
             "arrive", "declared", "stream", "verify", "screen", "ingest", "done"}
  /\ read \in Nat /\ total \in Nat
  /\ answer \in {"200", "401", "404", "405", "413", "422", "500", "503", "gone", None}

Init ==
  /\ \E c \in Case : config = c.config /\ env = c.env /\ request = c.request
  /\ pc = "load"
  /\ GateInit

-----------------------------------------------------------------------------
(* The start. *)

(* get_parser, for every source whether it is enabled or not. *)
Parsers == {"generic", "github", "vikunja", "grafana"}

AppBuilds(c) == \A i \in DOMAIN c.sources : c.sources[i].parser \in Parsers

(* Mutant: a sink that lacks its variable cannot be built. *)
SinksBuildAll(c, e) ==
  \A i \in DOMAIN c.sinks : SinkEnabled(c.sinks[i], e) /\ c.sinks[i].compiles

(* build_sink compiles the templates, of the enabled sinks only. *)
SinksBuild(c, e) ==
  \A i \in DOMAIN c.sinks : SinkEnabled(c.sinks[i], e) => c.sinks[i].compiles

Boots(c, e) == Valid(c) /\ AppBuilds(c) /\ SinksBuild(c, e)

Continue(next, condition) ==
  /\ pc' = IF condition THEN next ELSE "stopped"
  /\ UNCHANGED <<inputs, body, source, answer, event>>

(* load_config; main returns 2 where it raises. *)
Load == pc = "load" /\ Continue("create", Valid(config))

(* resolve, which never raises, and create_app. *)
CreateApp == pc = "create" /\ Continue("start", AppBuilds(config))

(* Engine.start in the lifespan of the app.  connect may raise. *)
Start ==
  /\ pc = "start"
  /\ \E connected \in BOOLEAN : Continue("serving", connected /\ SinksBuild(config, env))

-----------------------------------------------------------------------------
(* The routes. *)

(* Starlette: a template with braces takes every path. *)
TakesPath(p, url) == p.braces \/ (p.under = url.under /\ p.name = url.name)

(* Sources that may take the request; the first in the file does.  They    *)
(* are registered after /health and /metrics and before the admin router.  *)
Takers ==
  {i \in DOMAIN config.sources :
     request.method = "POST" /\ TakesPath(config.sources[i].path, request.path)}

RouteSource ==
  /\ pc = "serving"
  /\ \E i \in Takers :
       /\ \A j \in Takers : i <= j
       /\ source' = config.sources[i]
  /\ pc' = "arrive"
  /\ UNCHANGED <<inputs, body, answer, event>>

HealthPath == [absolute |-> TRUE, braces |-> FALSE, under |-> "other", name |-> "health"]

(* The router of the admin API. *)
AdminMethod == [replay |-> "POST", release |-> "POST", dlq |-> "GET", held |-> "GET"]

(* The route that is no source's and has this path, and its method. *)
Other ==
  CASE request.path.under = "admin" /\ request.path.name \in DOMAIN AdminMethod -> "admin"
    [] request.path.under = "metrics" -> "metrics"
    [] request.path = HealthPath -> "health"
    [] OTHER -> "nowhere"

OtherMethod == IF Other = "admin" THEN AdminMethod[request.path.name] ELSE "GET"

(* Starlette: 405 where some route has the path, 404 where none has. *)
RouteOther ==
  /\ pc = "serving"
  /\ Takers = {}
  /\ CASE Other # "nowhere" /\ request.method = OtherMethod -> Proceed(Other)
       [] Other # "nowhere" /\ request.method # OtherMethod -> Reject("405")
       [] Other = "nowhere" ->
            Reject(IF \E i \in DOMAIN config.sources : TakesPath(config.sources[i].path, request.path)
                   THEN "405" ELSE "404")
  /\ UNCHANGED <<inputs, body>>

BearerToken == Strip[request.token]

Holder ==
  Token(config.admin, env) # None /\ SecureCompare(Token(config.admin, env), BearerToken)

(* What the engine says to the holder; LookupError is 404. *)
AdminAnswers == {"200", "500"} \cup (IF OtherMethod = "POST" THEN {"404"} ELSE {})

(* FastAPI refuses an id or a limit that is no number before the handler   *)
(* runs; the handler checks the token before the engine is called.         *)
Admin ==
  /\ pc = "admin"
  /\ IF ~request.parses THEN Reject("422")
     ELSE IF Holder THEN \E status \in AdminAnswers : Reject(status)
     ELSE Reject("401")
  /\ UNCHANGED <<inputs, body>>

(* No token stands for an open endpoint; a store that fails is no error.   *)
Metrics ==
  /\ pc = "metrics"
  /\ LET expected == Token(config.metrics, env)
     IN  IF expected # None /\ ~SecureCompare(expected, BearerToken)
         THEN Reject("401") ELSE Reject("200")
  /\ UNCHANGED <<inputs, body>>

EnabledSources(c, e) == {i \in DOMAIN c.sources : SourceEnabled(c.sources[i], e)}

EnabledSinks(c, e) == {i \in DOMAIN c.sinks : SinkEnabled(c.sinks[i], e)}

(* 503 where the router cannot do its job at all. *)
Health ==
  /\ pc = "health"
  /\ \E connected \in BOOLEAN :
       Reject(IF connected /\ EnabledSources(config, env) # {} THEN "200" ELSE "503")
  /\ UNCHANGED <<inputs, body>>

Next ==
  \/ Load \/ CreateApp \/ Start
  \/ RouteSource \/ RouteOther \/ Admin \/ Metrics \/ Health
  \/ Handle

Spec == Init /\ [][Next]_vars

-----------------------------------------------------------------------------
(* What a sink needs when it delivers: implementations.py raises           *)
(* PermanentSinkError where a text is missing, _resolve_url for the        *)
(* endpoint and each deliver for the rest; ntfy and http send without a    *)
(* credential where the token is missing.                                  *)
Needs(k) ==
  (IF k.url \in Unnamed THEN EnvFields(k.type) ELSE EnvFields(k.type) \ {"url_env"})
    \ {f \in Optional(k.type) \ {"url_env"} : k.env[f] = Absent}

Ready(k, e) == \A f \in Needs(k) : ~Blank(Value(e, k.env[f]))

-----------------------------------------------------------------------------
(* Properties. *)

(* Nothing reaches ingest unless the file passes every guard, the source   *)
(* is enabled, each of its variables holds more than blanks, and the       *)
(* request carries what they hold; an unverified source has to be          *)
(* acknowledged for the whole file, say why, and name the peer it accepts. *)
(* "Verification skipped" is never reachable (config.py:17), in no         *)
(* combination of a file, an environment and a request.                    *)
OnlyVerifiedIngested ==
  event # None =>
    /\ source.enabled
    /\ source.verify.strategy # "none" =>
         \A i \in DOMAIN source.verify.envs :
           /\ ~Blank(Value(env, source.verify.envs[i]))
           /\ i \in DOMAIN Presented(source, request)
           /\ Presented(source, request)[i] = Value(env, source.verify.envs[i])
    /\ source.verify.strategy = "none" =>
         /\ config.allowUnverified /\ ~Blank(source.verify.reason)
         /\ request.peer \in source.verify.allowFrom

(* Answers that tell nothing of the store: the request alone decides them.*)
Impersonal ==
  \/ answer \in {"401", "405", "422"}
  \/ answer = "404" /\ request.path.name \notin DOMAIN AdminMethod

(* The admin API answers nobody but the holder of a configured token that  *)
(* is not blank and not shorter than the floor, a floor of zero included   *)
(* (secrets.py:84): no other caller learns whether an event exists.  And   *)
(* no source's route takes a path that the proxy blocks for the admin API. *)
AdminClosed ==
  /\ (pc = "done" /\ source = None /\ request.path.under = "admin" /\ ~Impersonal) =>
       /\ config.admin.token \notin Unnamed
       /\ LET value == Value(env, config.admin.token)
          IN  /\ ~Blank(value) /\ ~(Length[value] < config.admin.min)
              /\ value = Strip[request.token]
  /\ source # None => request.path.under = "other"

(* A variable that is lost "disables exactly the source or sink that       *)
(* needed it" (secrets.py:4): the process still starts, every other source *)
(* and sink is what it was, and /health has no reason to fail while one    *)
(* source is left.                                                         *)
NoCollateral ==
  pc = "serving" =>
    \A v \in DOMAIN env :
      LET lost == [env EXCEPT ![v] = ""]
      IN  /\ Boots(config, lost)
          /\ EnabledSources(config, lost) =
               {i \in EnabledSources(config, env) : v \notin Range(config.sources[i].verify.envs)}
          /\ EnabledSinks(config, lost) =
               {i \in EnabledSinks(config, env) : v \notin Range(config.sinks[i].env)}

(* A sink that /health reports as enabled finds every text it needs when   *)
(* it delivers, and sends the credential it was configured with; sinks of  *)
(* which a variable has an empty name are the exception, see the README.   *)
EnabledSinkIsReady ==
  pc = "serving" =>
    \A i \in EnabledSinks(config, env) :
      LET k == config.sinks[i] IN "" \in Range(k.env) \/ Ready(k, env)

(* The header that carries a credential is neither stored nor made the     *)
(* delivery id, which goes to the event log and into every log line: two   *)
(* modules keep this between them, the validator of the dedup header and   *)
(* the redaction of the headers.                                           *)
CredentialNotStored ==
  event # None =>
    (({event.idFrom} \ {None}) \cup event.headers) \cap (Sensitive \cup {Lower[source.verify.header]}) = {}
=============================================================================
