------------------------------- MODULE Config -------------------------------
(***************************************************************************)
(* What config.py accepts (the validators of the models and _cross_check), *)
(* and what secrets.py makes of it in one environment (resolve,            *)
(* admin_token, metrics_token).  Nothing here has state: module Gate uses  *)
(* it for a request, module Service for the start of the process.          *)
(*                                                                         *)
(* A configuration is a record with the fields the validators look at.  A  *)
(* name, a header or a value is a string of the model, and strip, lower    *)
(* and len are functions on those strings.  A path is taken apart into     *)
(* what its validator asks.  An environment maps variables to values, and  *)
(* a variable that is unset has the value "", as env.get(name, "") says.   *)
(***************************************************************************)
EXTENDS Integers, Sequences, Functions

CONSTANTS
  Strip,      \* str.strip, on names and values
  Lower,      \* str.lower, on header names
  Length,     \* len, on values
  Sensitive,  \* redaction.SENSITIVE_HEADERS
  Invalid,    \* an entry of allow_from that is no CIDR
  Absent,     \* a key left out of the file, or of a payload
  None        \* no value, nothing ingested, no answer yet

ASSUME ConfigAssumption == Strip[""] = ""

Blank(text) == Strip[text] = ""

Distinct(items, field) == IsInjective([i \in DOMAIN items |-> items[i][field]])

-----------------------------------------------------------------------------
(* Sources. *)

(* HmacVerify, BearerVerify, BasicVerify, NoneVerify.  The names of the    *)
(* variables of a basic source are not looked at.                          *)
ValidVerify(v) ==
  /\ v.strategy = "hmac_sha256" => ~Blank(v.header)
  /\ v.strategy \in {"hmac_sha256", "bearer"} => \A i \in DOMAIN v.envs : ~Blank(v.envs[i])
  /\ v.strategy = "none" =>
       ~Blank(v.reason) /\ v.allowFrom # {} /\ Invalid \notin v.allowFrom

(* _EventFilter: a list that could never match is an error. *)
ValidFilter(f) ==
  /\ f.types # {}
  /\ \A rules \in {f.deny, f.require} : \A p \in DOMAIN rules : rules[p] # {}

(* Mutant: a route template is a path like any other. *)
PathOrTemplate(p) == p.absolute /\ p.under = "other"

(* _leading_slash.  The prefixes are tested as text: "/administer" is      *)
(* under "/admin".                                                         *)
ValidPath(p) == p.absolute /\ ~p.braces /\ p.under = "other"

(* Mutant: header names are compared as they are spelled. *)
DedupHeaderAsSpelled(s) ==
  s.idHeader # "" => s.idHeader \notin Sensitive /\ s.idHeader # s.verify.header

(* _dedup_header_is_not_a_credential *)
DedupHeaderIsNoCredential(s) ==
  s.idHeader # "" =>
    Lower[s.idHeader] \notin Sensitive /\ Lower[s.idHeader] # Lower[s.verify.header]

ValidSource(s) ==
  /\ ~Blank(s.name)
  /\ ValidPath(s.path)
  /\ ValidVerify(s.verify)
  /\ Len(s.sinks) > 0 /\ Distinct(s.sinks, "name")
  /\ ValidFilter(s.filter) /\ (s.fieldCap = Absent \/ s.fieldCap > 0)
  /\ \A i \in DOMAIN s.sinks : ValidFilter(s.sinks[i].filter)
  /\ DedupHeaderIsNoCredential(s)

(* secret_env_names *)
SecretEnvNames(v) == IF v.strategy = "none" THEN {} ELSE Range(v.envs)

-----------------------------------------------------------------------------
(* Sinks. *)

(* The fields that name variables, and those among them that may be left   *)
(* out of the file.                                                        *)
EnvFields(type) ==
  CASE type = "matrix"       -> {"url_env", "token_env", "room_env"}
    [] type = "ntfy"         -> {"url_env", "topic_env", "token_env"}
    [] type = "vikunja_task" -> {"url_env", "token_env"}
    [] type = "http"         -> {"url_env", "token_env"}
    [] type = "apprise"      -> {"url_env", "key_env"}
    [] OTHER                 -> {"webhook_url_env"}

Optional(type) ==
  {"url_env"} \cup (IF type \in {"ntfy", "http"} THEN {"token_env"} ELSE {})

Endpoint == {"matrix", "ntfy", "vikunja_task", "http", "apprise"}

Unnamed == {Absent, ""}

(* _EndpointMixin: an empty text is as good as none. *)
ExactlyOneUrl(k) == (k.url \in Unnamed) # (k.env["url_env"] \in Unnamed)

ValidSink(k) ==
  /\ ~Blank(k.name)
  /\ \A f \in EnvFields(k.type) \ Optional(k.type) : k.env[f] # Absent
  /\ k.type \in Endpoint => ExactlyOneUrl(k)
  /\ k.type = "vikunja_task" => k.project > 0

(* Mutant: a list of the fields written out by hand, before topic_env. *)
SinkSecretsListed(k) ==
  {k.env[f] : f \in EnvFields(k.type) \ {"topic_env"}} \ Unnamed

(* sink_secret_env_names, derived from the fields of the model. *)
SinkSecretEnvNames(k) == {k.env[f] : f \in EnvFields(k.type)} \ Unnamed

-----------------------------------------------------------------------------
(* The whole file. *)

SinkNames(c) == {c.sinks[i].name : i \in DOMAIN c.sinks}

Unverified(c) == {i \in DOMAIN c.sources : c.sources[i].verify.strategy = "none"}

(* _cross_check *)
CrossCheck(c) ==
  /\ c.sources # <<>>
  /\ Distinct(c.sources, "name") /\ Distinct(c.sources, "path") /\ Distinct(c.sinks, "name")
  /\ \A i \in DOMAIN c.sources : \A j \in DOMAIN c.sources[i].sinks :
       c.sources[i].sinks[j].name \in SinkNames(c)
  /\ Unverified(c) # {} => c.allowUnverified

(* The sections with one rule each.  A threshold is in percent. *)
ValidSections(c) ==
  c.maxBody > 0 /\ c.maxAttempts >= 1 /\ c.threshold \in 0..100

(* load_config does not raise. *)
Valid(c) ==
  /\ \A i \in DOMAIN c.sources : ValidSource(c.sources[i])
  /\ \A i \in DOMAIN c.sinks : ValidSink(c.sinks[i])
  /\ ValidSections(c)
  /\ CrossCheck(c)

-----------------------------------------------------------------------------
(* The environment. *)

Value(env, name) == IF name \in DOMAIN env THEN env[name] ELSE ""

(* _missing: blank is missing. *)
Missing(names, env) == {n \in names : Blank(Value(env, n))}

(* Mutant: a source with one of its two variables is enabled. *)
SourceHalfEnabled(s, env) ==
  s.enabled /\ (SecretEnvNames(s.verify) = {}
                  \/ Missing(SecretEnvNames(s.verify), env) # SecretEnvNames(s.verify))

SourceEnabled(s, env) == s.enabled /\ Missing(SecretEnvNames(s.verify), env) = {}

SinkEnabled(k, env) == Missing(SinkSecretEnvNames(k), env) = {}

(* admin_token and metrics_token: absent, blank or too short is no token,  *)
(* which closes the admin API and opens /metrics.                          *)
Token(section, env) ==
  LET value == Value(env, section.token)
  IN  IF section.token \in Unnamed \/ Blank(value) \/ Length[value] < section.min
      THEN None ELSE value
=============================================================================
