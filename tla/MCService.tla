----------------------------- MODULE MCService ------------------------------
(* A small instance of Service, in three families: every fault of a file   *)
(* with a lost variable and a request to each route; every body and        *)
(* credential at a good file; every filter and payload at a good file.     *)
EXTENDS Service, TLC

MCStrip ==
  [t \in {"", " ", "k", "key", "key ", "no", "hook", "form", "chat", "page", "X-Sig", "x-sig",
          "Authorization", "X-Id", "why", "K", "U", "P"}
     |-> IF t = " " THEN "" ELSE IF t = "key " THEN "key" ELSE t]
MCLower ==
  [h \in {"", " ", "X-Sig", "X-SIG", "Authorization", "X-Id", "Cookie"} |->
     CASE h \in {"X-Sig", "X-SIG"} -> "x-sig" [] h = "Authorization" -> "authorization"
       [] h = "X-Id" -> "x-id" [] h = "Cookie" -> "cookie" [] OTHER -> h]
MCLength == [v \in {"", " ", "k", "key", "key "} |->
               CASE v = "" -> 0 [] v \in {" ", "k"} -> 1 [] v = "key" -> 3 [] OTHER -> 4]

MCPath(under, name) == [absolute |-> TRUE, braces |-> FALSE, under |-> under, name |-> name]
MCNoRule == [types |-> Absent, deny |-> <<>>, require |-> <<>>]
MCRoute(name) == [name |-> name, filter |-> MCNoRule]
MCHmac == [strategy |-> "hmac_sha256", header |-> "X-Sig", envs |-> <<"K">>,
           reason |-> "", allowFrom |-> {}]
MCBasic == [MCHmac EXCEPT !.strategy = "basic", !.header = "Authorization", !.envs = <<"U", "P">>]
MCOpen == [MCHmac EXCEPT !.strategy = "none", !.header = "", !.envs = <<>>, !.reason = "why",
                         !.allowFrom = {"in"}]
MCHook == [name |-> "hook", path |-> MCPath("other", "a"), enabled |-> TRUE, verify |-> MCHmac,
           sinks |-> <<MCRoute("chat"), MCRoute("page")>>, parser |-> "generic", idHeader |-> "",
           filter |-> MCNoRule, fieldCap |-> Absent]
MCForm == [MCHook EXCEPT !.name = "form", !.path = MCPath("other", "b"), !.verify = MCBasic,
                         !.sinks = <<MCRoute("page")>>]
MCSink(name, type, url, vars_) ==
  [name |-> name, type |-> type, url |-> url, env |-> vars_, project |-> 1, compiles |-> TRUE]
MCChat == MCSink("chat", "matrix", Absent, [url_env |-> "L", token_env |-> "T", room_env |-> "R"])
MCPage == MCSink("page", "ntfy", "url", [url_env |-> Absent, topic_env |-> "N", token_env |-> Absent])
MCGood == [sources |-> <<MCHook, MCForm>>, sinks |-> <<MCChat, MCPage>>, allowUnverified |-> FALSE,
           maxBody |-> 3, maxAttempts |-> 5, threshold |-> 80,
           admin |-> [token |-> "A", min |-> 2], metrics |-> [token |-> Absent, min |-> 2]]

MCVerifies ==
  {MCHmac, MCOpen, MCBasic,
   [MCHmac EXCEPT !.strategy = "bearer"],
   [MCHmac EXCEPT !.header = " "], [MCHmac EXCEPT !.envs = <<" ">>],
   [MCBasic EXCEPT !.envs = <<"U", "">>],
   [MCOpen EXCEPT !.reason = " "], [MCOpen EXCEPT !.allowFrom = {}],
   [MCOpen EXCEPT !.allowFrom = {"in", Invalid}]}
MCPaths ==
  {MCPath("other", "b"), MCPath("other", "health"), MCPath("admin", "a"), MCPath("metrics", "a"),
   [MCPath("other", "a") EXCEPT !.braces = TRUE], [MCPath("other", "a") EXCEPT !.absolute = FALSE]}
MCHooks ==
  {[MCHook EXCEPT !.verify = v] : v \in MCVerifies}
    \cup {[MCHook EXCEPT !.path = p] : p \in MCPaths}
    \cup {[MCHook EXCEPT !.name = n] : n \in {" ", "form"}}
    \cup {[MCHook EXCEPT !.idHeader = h] : h \in {"X-Id", "X-SIG", "Cookie"}}
    \cup {[MCHook EXCEPT !.sinks = r] :
            r \in {<<>>, <<MCRoute("page"), MCRoute("page")>>, <<MCRoute("gone")>>}}
    \cup {[MCHook EXCEPT !.filter.types = {}], [MCHook EXCEPT !.filter.deny = [p |-> {}]],
          [MCHook EXCEPT !.fieldCap = 0], [MCHook EXCEPT !.enabled = FALSE], [MCHook EXCEPT !.parser = "unknown"]}
MCSinks ==
  {MCChat, [MCChat EXCEPT !.compiles = FALSE], [MCChat EXCEPT !.name = "page"],
   [MCChat EXCEPT !.url = "url"], [MCChat EXCEPT !.env.url_env = Absent],
   [MCChat EXCEPT !.env.token_env = ""], [MCChat EXCEPT !.env.room_env = Absent],
   MCSink("chat", "ntfy", "url", [url_env |-> "", topic_env |-> "N", token_env |-> "T"]),
   MCSink("chat", "vikunja_task", "url", [url_env |-> Absent, token_env |-> "T"]),
   [MCSink("chat", "vikunja_task", "url", [url_env |-> Absent, token_env |-> "T"])
      EXCEPT !.project = 0],
   MCSink("chat", "http", Absent, [url_env |-> "L", token_env |-> Absent]),
   MCSink("chat", "apprise", Absent, [url_env |-> "L", key_env |-> "T"]),
   MCSink("chat", "discord", Absent, [webhook_url_env |-> "T"]),
   MCSink("chat", "slack", Absent, [webhook_url_env |-> "T"])}
MCSections ==
  {MCGood, [MCGood EXCEPT !.allowUnverified = TRUE], [MCGood EXCEPT !.maxBody = 0],
   [MCGood EXCEPT !.maxAttempts = 0], [MCGood EXCEPT !.threshold = 101],
   [MCGood EXCEPT !.sources = <<>>],
   [MCGood EXCEPT !.admin.token = Absent], [MCGood EXCEPT !.admin.token = ""],
   [MCGood EXCEPT !.admin.min = 0], [MCGood EXCEPT !.metrics.token = "A"]}
MCFiles ==
  MCSections
    \cup {[MCGood EXCEPT !.sources[1] = s, !.allowUnverified = a] : s \in MCHooks, a \in BOOLEAN}
    \cup {[MCGood EXCEPT !.sinks[1] = k] : k \in MCSinks}

MCEnv == [v \in {"K", "U", "P", "L", "T", "R", "N", "A"} |-> "key"]
MCEnvs ==
  {MCEnv} \cup {[MCEnv EXCEPT ![v] = ""] : v \in DOMAIN MCEnv}
          \cup {[MCEnv EXCEPT ![v] = x] : v \in {"K", "P", "A"}, x \in {" ", "k", "key "}}

MCRequest ==
  [method |-> "POST", path |-> MCPath("other", "a"), chunks |-> <<1>>, declared |-> 1,
   headers |-> [h \in {"x-sig", "x-id", "cookie"} |-> <<"key">>] @@ [authorization |-> <<"key", "key">>],
   peer |-> "out", token |-> "key", parses |-> TRUE, type |-> "push", actionable |-> TRUE,
   payload |-> [p \in {"p", "q"} |-> Absent]]
MCSigned(x) == [MCRequest EXCEPT !.headers["x-sig"] = <<x>>, !.headers["authorization"] = <<"key", x>>]
MCRequests ==
  {[MCSigned(x) EXCEPT !.path = p, !.peer = a] :
     x \in {"key", "no", " "}, p \in {MCPath("other", "a"), MCPath("other", "b")}, a \in {"in", "out"}}
    \cup {[MCRequest EXCEPT !.method = m, !.path = MCPath("admin", n), !.token = t] :
            m \in {"GET", "POST"}, n \in {"replay", "dlq"}, t \in {"", " ", "k", "key", "key "}}
    \cup {[MCRequest EXCEPT !.path = MCPath("admin", n), !.token = t, !.parses = FALSE] :
            n \in {"a", "release"}, t \in {"", "key"}}
    \cup {[MCRequest EXCEPT !.method = "GET", !.path = MCPath("metrics", "a"), !.token = t] :
            t \in {"", "key"}}
    \cup {[MCRequest EXCEPT !.method = m, !.path = MCPath("other", n)] : m \in {"GET", "POST"}, n \in {"health", "a"}}

MCBodies ==
  {[MCSigned(x) EXCEPT !.chunks = c, !.declared = d, !.peer = a] :
     c \in UNION {[1..n -> 0..3] : n \in 0..3}, d \in (0..4) \cup {Junk, Absent},
     x \in {"key", "no"}, a \in {"in", "out"}}
MCVerified == {[MCGood EXCEPT !.sources[1].verify = v, !.allowUnverified = TRUE] : v \in {MCHmac, MCOpen}}

MCRules == {<<>>} \cup [{"p"} -> {{"a"}, {"a", "b"}}] \cup [{"p", "q"} -> {{"a"}}]
MCFilters ==
  [types : {Absent}, deny : MCRules, require : MCRules]
    \cup [types : {{"push"}}, deny : {<<>>}, require : {<<>>}]
MCFiltered ==
  {[MCGood EXCEPT !.sources[1].filter = f, !.sources[1].sinks = <<[name |-> "page", filter |-> g]>> \o r] :
     f \in MCFilters, g \in MCFilters, r \in {<<>>, <<MCRoute("chat")>>}}
MCPayloads ==
  {[MCRequest EXCEPT !.type = t, !.actionable = a, !.payload = v] :
     t \in {"push", "ping"}, a \in BOOLEAN,
     v \in [{"p", "q"} -> {Absent, {}, {"a"}, {"b"}, {"a", "b"}}]}

MCCase ==
  [config : MCFiles, env : MCEnvs, request : MCRequests]
    \cup [config : MCVerified, env : {MCEnv}, request : MCBodies]
    \cup [config : MCFiltered, env : {MCEnv}, request : MCPayloads]
=============================================================================
