---------------------------- MODULE Service_proofs ----------------------------
(***************************************************************************)
(* What holds of every file, every environment and every request.  The     *)
(* process reads its configuration and environment once and the request    *)
(* never changes, so the invariant says where the handler has come from:   *)
(* what has been decided on the way holds as long as the inputs do.        *)
(***************************************************************************)
EXTENDS Service, TLAPS, WellFoundedInduction

Given == \E c \in Case : config = c.config /\ env = c.env /\ request = c.request

Configured ==
  \E i \in DOMAIN config.sources :
    source = config.sources[i] /\ TakesPath(source.path, request.path)

Loaded == Valid(config)

Booted == Boots(config, env)

Enabled == SourceEnabled(source, env)

Authentic == Verified(source, request)

Decided == event = Decision(source, request)

Boot == {"load", "create", "start", "serving", "stopped"}
Handler == {"arrive", "declared", "stream", "verify", "screen", "ingest"}

IInv ==
  /\ Given
  /\ pc \in {"create", "start"} => Loaded
  /\ pc = "start" => AppBuilds(config)
  /\ pc \notin Boot \/ pc = "serving" => Booted
  /\ pc \in Boot => source = None /\ event = None
  /\ pc \in Handler => source # None
  /\ source # None => Configured
  /\ pc \in {"health", "metrics", "admin"} => source = None
  /\ pc \in {"health", "metrics"} => request.path.under # "admin"
  /\ pc \in {"declared", "stream", "verify", "screen", "ingest"} => Enabled
  /\ pc \in {"screen", "ingest"} => Authentic
  /\ event # None => Booted /\ Configured /\ Enabled /\ Authentic /\ Decided
  /\ (pc = "done" /\ source = None /\ request.path.under = "admin") => Impersonal \/ Holder

(* The invariant holds before the file is read. *)
LEMMA Initial == Init => IInv
BY DEF Init, GateInit, IInv, Boot, Handler, Given

(* None of these looks at where the handler is. *)
LEMMA Kept ==
  UNCHANGED inputs =>
    /\ Given' = Given /\ Loaded' = Loaded /\ Booted' = Booted /\ Holder' = Holder
    /\ AppBuilds(config') = AppBuilds(config) /\ request' = request
    /\ UNCHANGED source =>
         /\ Configured' = Configured /\ Enabled' = Enabled /\ Authentic' = Authentic
         /\ UNCHANGED event => Decided' = Decided
<1> SUFFICES ASSUME UNCHANGED inputs
             PROVE  /\ Given' = Given /\ Loaded' = Loaded /\ Booted' = Booted /\ Holder' = Holder
                    /\ AppBuilds(config') = AppBuilds(config) /\ request' = request
                    /\ UNCHANGED source =>
                         /\ Configured' = Configured /\ Enabled' = Enabled /\ Authentic' = Authentic
                         /\ UNCHANGED event => Decided' = Decided
  OBVIOUS
<1>0. config' = config /\ env' = env /\ request' = request
  BY DEF inputs
<1>1. Given' = Given
  BY <1>0 DEF Given
<1>2. Loaded' = Loaded /\ Booted' = Booted /\ AppBuilds(config') = AppBuilds(config)
  BY <1>0 DEF Loaded, Booted
<1>3. Holder' = Holder
  BY <1>0 DEF Holder, BearerToken
<1>4. ASSUME UNCHANGED source PROVE Configured' = Configured /\ Enabled' = Enabled
  BY <1>0, <1>4 DEF Configured, Enabled
<1>5. ASSUME UNCHANGED source PROVE Authentic' = Authentic
  BY <1>0, <1>5 DEF Authentic, Verified, Presented, HeaderOf
<1>6. ASSUME UNCHANGED <<source, event>> PROVE Decided' = Decided
  BY <1>0, <1>6 DEF Decided
<1> QED
  BY <1>0, <1>1, <1>2, <1>3, <1>4, <1>5, <1>6

(* Every step of the start (main, create_app, Engine.start) and of a       *)
(* request keeps it.                                                       *)
LEMMA Step == IInv /\ [Next]_vars => IInv'
<1> SUFFICES ASSUME IInv, [Next]_vars PROVE IInv'
  OBVIOUS
<1> USE Kept DEF IInv, Boot, Handler
<1>1. CASE Load
  BY <1>1 DEF Load, Continue, Loaded
<1>2. CASE CreateApp
  BY <1>2 DEF CreateApp, Continue
<1>3. CASE Start
  BY <1>3 DEF Start, Continue, Boots, Booted, Loaded
<1>4. CASE RouteSource
  <2>1. PICK i \in DOMAIN config.sources :
          source' = config.sources[i] /\ TakesPath(config.sources[i].path, request.path)
    BY <1>4 DEF RouteSource, Takers
  <2>2. Configured' /\ pc' = "arrive" /\ event' = None /\ UNCHANGED inputs
    BY <1>4, <2>1 DEF RouteSource, Configured, inputs
  <2>3. Booted /\ Given /\ source' # None
    BY <1>4, <2>1, CaseAssumption DEF RouteSource, Given
  <2> QED
    BY <2>2, <2>3
<1>5. CASE RouteOther
  <2>1. UNCHANGED <<inputs, source, event>> /\ Booted /\ source = None /\ event = None
    BY <1>5 DEF RouteOther, Reject, Proceed
  <2>2. CASE Other = "nowhere" \/ request.method # OtherMethod
    <3>1. Other = "nowhere" /\ request.path.under = "admin" =>
            request.path.name \notin DOMAIN AdminMethod
      BY DEF Other
    <3>2. pc' = "done" /\ (answer' = "405" \/ (answer' = "404" /\ Other = "nowhere"))
      BY <1>5, <2>2 DEF RouteOther, Reject
    <3> QED
      BY <2>1, <3>1, <3>2 DEF Impersonal
  <2>3. CASE Other # "nowhere" /\ request.method = OtherMethod
    <3>0. /\ Other \in {"admin", "metrics", "health", "nowhere"}
          /\ request.path.under = "admin" => Other \in {"admin", "nowhere"}
      BY DEF Other, HealthPath
    <3>1. /\ pc' = Other /\ Other \in {"admin", "metrics", "health"}
          /\ request.path.under = "admin" => Other = "admin"
      BY <1>5, <2>3, <3>0 DEF RouteOther, Proceed
    <3>2. CASE Other = "admin"
      BY <2>1, <3>1, <3>2
    <3>3. CASE Other # "admin"
      BY <2>1, <3>1, <3>3
    <3> QED
      BY <3>2, <3>3
  <2> QED
    BY <2>2, <2>3
<1>6. CASE Admin
  BY <1>6 DEF Admin, Reject, Impersonal
<1>7. CASE Metrics
  BY <1>7 DEF Metrics, Reject
<1>8. CASE Health
  BY <1>8 DEF Health, Reject
<1>9. CASE Handle
  <2>1. UNCHANGED <<inputs, source>> /\ source # None /\ Booted /\ Configured /\ pc \in Handler
    BY <1>9 DEF Handle, Arrive, CheckDeclared, ReadChunk, Disconnect, EndOfBody, Verify, Screen,
      Ingest, Reject, Proceed
  <2>2. CASE Arrive
    BY <2>1, <2>2 DEF Arrive, Reject, Proceed, Enabled
  <2>3. CASE CheckDeclared \/ ReadChunk \/ Disconnect \/ EndOfBody
    BY <2>1, <2>3 DEF CheckDeclared, ReadChunk, Disconnect, EndOfBody, Reject, Proceed
  <2>4. CASE Verify
    BY <2>1, <2>4 DEF Verify, Reject, Proceed, Authentic
  <2>5. CASE Screen
    BY <2>1, <2>5 DEF Screen, Decided
  <2>6. CASE Ingest
    BY <2>1, <2>6 DEF Ingest
  <2> QED
    BY <1>9, <2>2, <2>3, <2>4, <2>5, <2>6 DEF Handle
<1>10. CASE UNCHANGED vars
  <2>1. UNCHANGED <<inputs, source, pc, answer, event>>
    BY <1>10 DEF vars
  <2>2. Impersonal' = Impersonal
    BY <2>1 DEF Impersonal, inputs
  <2> QED
    BY <2>1, <2>2
<1> QED
  BY <1>1, <1>2, <1>3, <1>4, <1>5, <1>6, <1>7, <1>8, <1>9, <1>10 DEF Next

(* The invariant holds of every start and every request. *)
THEOREM Invariance == Spec => []IInv
<1>1. IInv /\ [Next]_vars => IInv'
  BY Step
<1> QED
  BY Initial, <1>1, PTL DEF Spec

-----------------------------------------------------------------------------
(* What the properties need of a valid file. *)

(* A source that a request has reached is valid and as CaseAssumption says. *)
LEMMA SourceFacts ==
  ASSUME IInv, source # None
  PROVE  /\ ValidSource(source) /\ source.verify.envs \in Seq(STRING)
         /\ Len(source.sinks) \in Nat /\ DOMAIN source.sinks = 1..Len(source.sinks)
         /\ source.verify.strategy = "none" => config.allowUnverified
         /\ TakesPath(source.path, request.path)
<1>1. PICK i \in DOMAIN config.sources :
        source = config.sources[i] /\ TakesPath(source.path, request.path)
  BY DEF IInv, Configured
<1>2. Valid(config)
  BY DEF IInv, Booted, Boots, Boot
<1>3. ValidSource(source)
  BY <1>1, <1>2 DEF Valid
<1>4. source.verify.strategy = "none" => config.allowUnverified
  BY <1>1, <1>2 DEF Valid, CrossCheck, Unverified
<1> QED
  BY <1>1, <1>3, <1>4, CaseAssumption DEF IInv, Given

(* No file, environment and request get an unverified event to ingest.     *)
THEOREM Ingested == Spec => []OnlyVerifiedIngested
<1>1. IInv => OnlyVerifiedIngested
  <2> SUFFICES ASSUME IInv, event # None PROVE OnlyVerifiedIngested
    BY DEF OnlyVerifiedIngested
  <2>1. SourceEnabled(source, env) /\ Verified(source, request) /\ source # None
    BY CaseAssumption DEF IInv, Enabled, Authentic, Configured, Given
  <2>2. ValidVerify(source.verify) /\ source.verify.envs \in Seq(STRING)
    BY <2>1, SourceFacts DEF ValidSource
  <2>3. source.enabled
    BY <2>1 DEF SourceEnabled
  <2>4. ASSUME source.verify.strategy # "none", NEW i \in DOMAIN source.verify.envs
        PROVE  /\ ~Blank(Value(env, source.verify.envs[i]))
               /\ i \in DOMAIN Presented(source, request)
               /\ Presented(source, request)[i] = Value(env, source.verify.envs[i])
    <3>1. ~Blank(Value(env, source.verify.envs[i]))
      BY <2>1, <2>4 DEF SourceEnabled, SecretEnvNames, Missing, Range
    <3>2. Len(Presented(source, request)) = Len(source.verify.envs)
      BY <2>1, <2>4 DEF Verified
    <3>3. SecureCompare(Value(env, source.verify.envs[i]), Presented(source, request)[i])
      BY <2>1, <2>4 DEF Verified
    <3>4. Presented(source, request) \in Seq(STRING)
      <4>1. \A n \in DOMAIN request.headers : request.headers[n] \in Seq(STRING)
        BY CaseAssumption DEF IInv, Given
      <4>2. <<>> \in Seq(STRING)
        OBVIOUS
      <4> QED
        BY <4>1, <4>2 DEF Presented, HeaderOf
    <3>5. i \in DOMAIN Presented(source, request)
      <4> HIDE DEF Presented
      <4> QED BY <2>2, <2>4, <3>2, <3>4
    <3> QED
      BY <3>1, <3>3, <3>5 DEF SecureCompare
  <2>5. source.verify.strategy = "none" =>
          /\ config.allowUnverified /\ ~Blank(source.verify.reason)
          /\ request.peer \in source.verify.allowFrom
    BY <2>1, <2>2, SourceFacts DEF Verified, ValidVerify
  <2> QED
    BY <2>3, <2>4, <2>5 DEF OnlyVerifiedIngested
<1> QED
  BY Invariance, <1>1, PTL

(* The admin API is closed to all but the holder of a token, on every file. *)
THEOREM Closed == Spec => []AdminClosed
<1>1. IInv => AdminClosed
  <2> SUFFICES ASSUME IInv PROVE AdminClosed
    OBVIOUS
  <2>1. source # None => request.path.under = "other"
    <3> SUFFICES ASSUME source # None PROVE request.path.under = "other"
      OBVIOUS
    <3>1. ValidPath(source.path) /\ TakesPath(source.path, request.path)
      BY SourceFacts DEF ValidSource
    <3> QED
      BY <3>1 DEF ValidPath, TakesPath
  <2>2. ASSUME pc = "done", source = None, request.path.under = "admin", ~Impersonal
        PROVE  /\ config.admin.token \notin Unnamed
               /\ ~Blank(Value(env, config.admin.token))
               /\ ~(Length[Value(env, config.admin.token)] < config.admin.min)
               /\ Value(env, config.admin.token) = Strip[request.token]
    <3>1. Holder
      BY <2>2 DEF IInv
    <3> QED
      BY <3>1 DEF Holder, Token, SecureCompare, BearerToken
  <2> QED
    BY <2>1, <2>2 DEF AdminClosed
<1> QED
  BY Invariance, <1>1, PTL

(* A credential header of a valid file is no delivery id and is not stored. *)
THEOREM NotStored == Spec => []CredentialNotStored
<1>1. IInv => CredentialNotStored
  <2> SUFFICES ASSUME IInv, event # None PROVE CredentialNotStored
    BY DEF CredentialNotStored
  <2>1. source # None /\ event = Decision(source, request)
    BY CaseAssumption DEF IInv, Decided, Configured, Given
  <2>2. DedupHeaderIsNoCredential(source)
    BY <2>1, SourceFacts DEF ValidSource
  <2>3. event.headers = StoredHeaders(source, request) /\ event.idFrom = DeliveryIdFrom(source, request)
    BY <2>1 DEF Decision
  <2>4. event.idFrom # None => event.idFrom \notin Sensitive \cup {Lower[source.verify.header]}
    BY <2>2, <2>3 DEF DeliveryIdFrom, DedupHeaderIsNoCredential
  <2>5. event.headers \cap (Sensitive \cup {Lower[source.verify.header]}) = {}
    BY <2>3 DEF StoredHeaders, Credentials
  <2> QED
    BY <2>4, <2>5 DEF CredentialNotStored
<1> QED
  BY Invariance, <1>1, PTL

(* An event with a route is queued or stored filtered, whatever the rules. *)
THEOREM NotDropped == Spec => []NeverSilentlyDropped
<1>1. IInv => NeverSilentlyDropped
  <2> SUFFICES ASSUME IInv, event # None PROVE NeverSilentlyDropped
    BY DEF NeverSilentlyDropped
  <2>1. source # None /\ event = Decision(source, request)
    BY CaseAssumption DEF IInv, Decided, Configured, Given
  <2>2. Routes(source) # {} /\ RouteSinks(source, request) \subseteq Routes(source)
    <3>1. 1 \in DOMAIN source.sinks
      BY <2>1, SourceFacts DEF ValidSource
    <3> QED
      BY <3>1 DEF Routes, RouteSinks
  <2>3. /\ event.sinks = {} <=> (event.status = "filtered" \/ ~request.actionable)
        /\ event.sinks # {} => event.status = "received"
    BY <2>1, <2>2 DEF Decision
  <2>4. ASSUME NEW i \in DOMAIN source.sinks, source.sinks[i].name \in event.sinks
        PROVE  Evaluate(source.filter, request) /\ Evaluate(source.sinks[i].filter, request)
    <3>1. Evaluate(source.filter, request) /\ event.sinks = RouteSinks(source, request)
      BY <2>1, <2>4 DEF Decision
    <3>2. PICK j \in DOMAIN source.sinks :
            source.sinks[j].name = source.sinks[i].name /\ Evaluate(source.sinks[j].filter, request)
      BY <2>4, <3>1 DEF RouteSinks
    <3>3. Distinct(source.sinks, "name")
      BY <2>1, SourceFacts DEF ValidSource
    <3>4. i = j
      BY <3>2, <3>3 DEF Distinct, IsInjective
    <3> QED
      BY <3>1, <3>2, <3>4
  <2>5. ASSUME NEW f, Evaluate(f, request), NEW p \in DOMAIN request.payload
        PROVE  LET texts == IF request.payload[p] = Absent THEN {} ELSE request.payload[p]
               IN  /\ p \in DOMAIN f.deny => texts \cap f.deny[p] = {}
                   /\ p \in DOMAIN f.require => texts \cap f.require[p] # {}
    BY <2>5 DEF Evaluate, Hit
  <2> QED
    BY <2>3, <2>4, <2>5 DEF NeverSilentlyDropped
<1> QED
  BY Invariance, <1>1, PTL

-----------------------------------------------------------------------------
(* Start and environment. *)

(* Every text an enabled sink needs is in the environment of the start. *)
THEOREM SinksReady == Spec => []EnabledSinkIsReady
<1>1. IInv => EnabledSinkIsReady
  <2> SUFFICES ASSUME IInv, pc = "serving", NEW i \in EnabledSinks(config, env),
                      "" \notin Range(config.sinks[i].env),
                      NEW f \in Needs(config.sinks[i])
               PROVE  ~Blank(Value(env, config.sinks[i].env[f]))
    BY DEF EnabledSinkIsReady, Ready
  <2> DEFINE k == config.sinks[i]
  <2>1. i \in DOMAIN config.sinks /\ SinkEnabled(k, env)
    BY DEF EnabledSinks
  <2>2. ValidSink(k) /\ DOMAIN k.env = EnvFields(k.type)
    BY <2>1, CaseAssumption DEF IInv, Booted, Boots, Boot, Valid, Given
  <2>3. f \in EnvFields(k.type)
    BY DEF Needs
  <2>4. k.env[f] # ""
    BY <2>2, <2>3 DEF Range
  <2>5. k.env[f] # Absent
    <3>1. CASE f \notin Optional(k.type)
      BY <2>2, <2>3, <3>1 DEF ValidSink
    <3>2. CASE f = "url_env"
      <4>1. k.type \in Endpoint
        BY <2>3, <3>2 DEF EnvFields, Endpoint
      <4>2. k.url \in Unnamed
        BY <3>2 DEF Needs
      <4> QED
        BY <2>2, <3>2, <4>1, <4>2 DEF ValidSink, ExactlyOneUrl, Unnamed
    <3>3. CASE f \in Optional(k.type) \ {"url_env"}
      BY <3>3 DEF Needs
    <3> QED
      BY <3>1, <3>2, <3>3
  <2> QED
    BY <2>1, <2>3, <2>4, <2>5 DEF SinkEnabled, SinkSecretEnvNames, Missing, Unnamed
<1> QED
  BY Invariance, <1>1, PTL

(* One variable more or less decides on the source or sink that names it,  *)
(* and on nothing else, in every file that starts.                         *)
THEOREM Isolated == Spec => []NoCollateral
<1>1. IInv => NoCollateral
  <2> SUFFICES ASSUME IInv, pc = "serving", NEW v \in DOMAIN env
               PROVE  LET lost == [env EXCEPT ![v] = ""]
                      IN  /\ Boots(config, lost)
                          /\ EnabledSources(config, lost) =
                               {i \in EnabledSources(config, env) :
                                  v \notin Range(config.sources[i].verify.envs)}
                          /\ EnabledSinks(config, lost) =
                               {i \in EnabledSinks(config, env) :
                                  v \notin Range(config.sinks[i].env)}
    BY DEF NoCollateral
  <2> DEFINE lost == [env EXCEPT ![v] = ""]
  <2>0. v \notin Unnamed
    BY CaseAssumption DEF IInv, Given
  <2>1. \A n : Blank(Value(lost, n)) <=> (n = v \/ Blank(Value(env, n)))
    BY ConfigAssumption DEF Value, Blank
  <2> HIDE DEF lost
  <2>2. Valid(config) /\ AppBuilds(config) /\ SinksBuild(config, env)
    BY DEF IInv, Booted, Boots
  <2>3. ASSUME NEW names
        PROVE  Missing(names, lost) = {} <=> (Missing(names, env) = {} /\ v \notin names)
    BY <2>1 DEF Missing
  <2>4. ASSUME NEW i \in DOMAIN config.sources
        PROVE  SourceEnabled(config.sources[i], lost) <=>
                 /\ SourceEnabled(config.sources[i], env)
                 /\ v \notin Range(config.sources[i].verify.envs)
    <3>1. SecretEnvNames(config.sources[i].verify) = Range(config.sources[i].verify.envs)
      BY CaseAssumption DEF IInv, Given, SecretEnvNames, Range
    <3> QED
      BY <2>3, <3>1 DEF SourceEnabled
  <2>5. ASSUME NEW i \in DOMAIN config.sinks
        PROVE  SinkEnabled(config.sinks[i], lost) <=>
                 SinkEnabled(config.sinks[i], env) /\ v \notin Range(config.sinks[i].env)
    <3>1. DOMAIN config.sinks[i].env = EnvFields(config.sinks[i].type)
      BY CaseAssumption DEF IInv, Given
    <3>2. SinkSecretEnvNames(config.sinks[i]) = Range(config.sinks[i].env) \ Unnamed
      BY <3>1 DEF SinkSecretEnvNames, Range
    <3> QED
      BY <2>3, <3>2, <2>0 DEF SinkEnabled
  <2>6. SinksBuild(config, lost)
    BY <2>2, <2>5 DEF SinksBuild
  <2> QED
    BY <2>2, <2>4, <2>5, <2>6 DEF Boots, EnabledSources, EnabledSinks, lost
<1> QED
  BY Invariance, <1>1, PTL

-----------------------------------------------------------------------------
(* The size of a body. *)

(* A set of numbers has a least one: what is shown by induction is shown of *)
(* the least counterexample.                                                *)
LEMMA Least ==
  ASSUME NEW T \in SUBSET Nat, T # {}
  PROVE  \E n \in T : \A m \in T : n <= m
<1>1. PICK n \in T : \A m \in T : <<m, n>> \notin OpToRel(<, Nat)
  BY NatLessThanWellFounded, WFMin
<1>2. \A m \in T : <<m, n>> \in OpToRel(<, Nat) <=> m < n
  BY DEF OpToRel
<1>3. \A m \in T : m \in Nat /\ n \in Nat /\ ~(m < n)
  BY <1>1, <1>2
<1>4. \A m, k \in Nat : ~(m < k) => k <= m
  OBVIOUS
<1> QED
  BY <1>3, <1>4

(* What read_body_capped adds up: the sums of a body exist and never fall.  *)
LEMMA Sums ==
  ASSUME NEW c \in Seq(Nat)
  PROVE  /\ Upto(c) \in [0..Len(c) -> Nat]
         /\ Upto(c)[0] = 0
         /\ \A k \in 1..Len(c) : Upto(c)[k] = Upto(c)[k - 1] + c[k]
         /\ \A k \in 0..Len(c) : Upto(c)[k] <= Upto(c)[Len(c)]
<1> DEFINE Adds(n, s) == s = [k \in 0..n |-> IF k = 0 THEN 0 ELSE s[k - 1] + c[k]]
           unsummed == {n \in 0..Len(c) : ~\E s \in [0..n -> Nat] : Adds(n, s)}
<1>0. Len(c) \in Nat /\ \A k \in 1..Len(c) : c[k] \in Nat
  OBVIOUS
<1>1. unsummed = {}
  <2> SUFFICES ASSUME unsummed # {} PROVE FALSE
    OBVIOUS
  <2>0. unsummed \in SUBSET Nat
    BY <1>0
  <2>1. PICK n \in unsummed : \A m \in unsummed : n <= m
    <3> HIDE DEF unsummed
    <3> QED
      BY Least, <2>0
  <2>2. n # 0
    <3>1. [k \in 0..0 |-> 0] \in [0..0 -> Nat]
      OBVIOUS
    <3>2. Adds(0, [k \in 0..0 |-> 0])
      OBVIOUS
    <3> QED
      BY <2>1, <3>1, <3>2
  <2>3. n - 1 \in 0..Len(c) /\ n - 1 \notin unsummed /\ n \in 1..Len(c)
    <3>1. n \in 0..Len(c)
      OBVIOUS
    <3>2. n \in 1..Len(c) /\ n - 1 \in 0..Len(c) /\ ~(n <= n - 1)
      BY <1>0, <2>2, <3>1
    <3> HIDE DEF unsummed
    <3> QED
      BY <2>1, <3>2
  <2>4. PICK s \in [0..(n - 1) -> Nat] : Adds(n - 1, s)
    BY <2>3
  <2> DEFINE t == [k \in 0..n |-> IF k = n THEN s[n - 1] + c[n] ELSE s[k]]
  <2>5. t \in [0..n -> Nat]
    BY <1>0, <2>3
  <2>6. \A k \in 0..n : t[k] = IF k = 0 THEN 0 ELSE t[k - 1] + c[k]
    <3> TAKE k \in 0..n
    <3>1. CASE k = n
      BY <2>3, <3>1
    <3>2. CASE k # n
      <4>1. k \in 0..(n - 1) /\ t[k] = s[k] /\ (k # 0 => t[k - 1] = s[k - 1])
        BY <2>3, <3>2
      <4>2. s[k] = IF k = 0 THEN 0 ELSE s[k - 1] + c[k]
        BY <2>4, <4>1
      <4> QED
        BY <4>1, <4>2
    <3> QED
      BY <3>1, <3>2
  <2>7. Adds(n, t)
    <3> HIDE DEF t
    <3> QED
      BY <2>5, <2>6
  <2> QED
    BY <2>1, <2>5, <2>7
<1>2. \E s \in [0..Len(c) -> Nat] : Adds(Len(c), s)
  BY <1>0, <1>1
<1>3. Upto(c) = CHOOSE s : Adds(Len(c), s)
  BY DEF Upto
<1>4. Adds(Len(c), Upto(c))
  BY <1>2, <1>3
<1> DEFINE s == Upto(c)
<1>5. s = [k \in 0..Len(c) |-> IF k = 0 THEN 0 ELSE s[k - 1] + c[k]]
  BY <1>4
<1> HIDE DEF s, Adds
<1>6. s[0] = 0 /\ \A k \in 1..Len(c) : s[k] = s[k - 1] + c[k]
  BY <1>0, <1>5
<1> DEFINE fallen == {j \in 0..Len(c) : ~(s[j] \in Nat /\ \A k \in 0..j : s[k] <= s[j])}
<1>7. fallen = {}
  <2> SUFFICES ASSUME fallen # {} PROVE FALSE
    OBVIOUS
  <2>1. fallen \in SUBSET Nat
    BY <1>0
  <2>2. PICK j \in fallen : \A m \in fallen : j <= m
    <3> HIDE DEF fallen
    <3> QED
      BY Least, <2>1
  <2>3. j \in 0..Len(c) /\ ~(s[j] \in Nat /\ \A k \in 0..j : s[k] <= s[j])
    OBVIOUS
  <2>4. j # 0
    BY <1>6, <2>3
  <2>5. j \in 1..Len(c) /\ j - 1 \in 0..Len(c) /\ ~(j <= j - 1)
    BY <1>0, <2>3, <2>4
  <2>6. j - 1 \notin fallen
    <3> HIDE DEF fallen
    <3> QED
      BY <2>2, <2>5
  <2>7. s[j - 1] \in Nat /\ \A k \in 0..(j - 1) : s[k] <= s[j - 1]
    BY <2>5, <2>6
  <2>8. s[j] = s[j - 1] + c[j] /\ c[j] \in Nat
    BY <1>0, <1>6, <2>5
  <2>9. s[j] \in Nat /\ s[j - 1] <= s[j]
    BY <2>7, <2>8
  <2>10. ASSUME NEW k \in 0..j PROVE s[k] <= s[j]
    <3>1. CASE k = j
      BY <2>9, <3>1
    <3>2. CASE k # j
      <4>1. k \in 0..(j - 1)
        BY <2>5, <3>2
      <4>2. s[k] <= s[j - 1] /\ s[k] \in Int
        <5>1. k \in 0..Len(c) /\ ~(j <= k)
          BY <2>5, <4>1
        <5>2. k \notin fallen
          <6> HIDE DEF fallen
          <6> QED
            BY <2>2, <5>1
        <5> QED
          BY <2>7, <4>1, <5>1, <5>2
      <4> QED
        BY <2>7, <2>9, <4>2
    <3> QED
      BY <3>1, <3>2
  <2> QED
    BY <2>3, <2>9, <2>10
<1>8. \A j \in 0..Len(c) : s[j] \in Nat /\ \A k \in 0..j : s[k] <= s[j]
  BY <1>7
<1>9. s \in [0..Len(c) -> Nat]
  BY <1>5, <1>8
<1>10. \A k \in 0..Len(c) : s[k] <= s[Len(c)]
  BY <1>0, <1>8
<1> QED
  BY <1>6, <1>9, <1>10 DEF s

(* Why a handler has answered as it has. *)
Reason ==
  /\ answer \in {"200", "401", "413", "500", "503", "gone"}
  /\ answer = "503" => ~Enabled
  /\ answer = "401" => ~Authentic
  /\ answer = "413" =>
       \/ request.declared = Junk
       \/ request.declared \in Nat /\ request.declared > config.maxBody
       \/ total > config.maxBody
  /\ answer \in {"200", "401", "500"} =>
       read = Len(request.chunks) /\ total <= config.maxBody

(* What the handler has counted is what has come, and no more than may. *)
Sized ==
  /\ read \in 0..Len(request.chunks) /\ total = Upto(request.chunks)[read]
  /\ source = None \/ pc \in {"arrive", "declared"} => read = 0
  /\ pc \in {"stream", "verify", "screen", "ingest"} => total <= config.maxBody
  /\ pc \in {"verify", "screen", "ingest"} => read = Len(request.chunks)
  /\ source # None /\ pc = "done" => Reason

(* Every chunk is a number of bytes, and a file that boots has a limit. *)
LEMMA Limits ==
  ASSUME IInv
  PROVE  /\ request.chunks \in Seq(Nat) /\ Len(request.chunks) \in Nat
         /\ config.maxBody \in Int
         /\ Booted => config.maxBody > 0
<1>1. request.chunks \in Seq(Nat) /\ config.maxBody \in Int
  BY CaseAssumption DEF IInv, Given
<1>2. Booted => config.maxBody > 0
  BY DEF Booted, Boots, Valid, ValidSections
<1> QED
  BY <1>1, <1>2

(* A handler that has taken a chunk more. *)
LEMMA OneMore ==
  ASSUME IInv, Sized, read < Len(request.chunks)
  PROVE  /\ read + 1 \in 0..Len(request.chunks)
         /\ total + request.chunks[read + 1] = Upto(request.chunks)[read + 1]
         /\ total + request.chunks[read + 1] \in Nat
<1>1. request.chunks \in Seq(Nat) /\ Len(request.chunks) \in Nat
  BY Limits
<1>2. read + 1 \in 1..Len(request.chunks) /\ (read + 1) - 1 = read
  BY <1>1 DEF Sized
<1>3. Upto(request.chunks)[read + 1] = Upto(request.chunks)[(read + 1) - 1] + request.chunks[read + 1]
  BY <1>1, <1>2, Sums
<1>4. Upto(request.chunks) \in [0..Len(request.chunks) -> Nat]
  BY <1>1, Sums
<1> QED
  BY <1>1, <1>2, <1>3, <1>4 DEF Sized

(* Every step keeps the count: the chunks, the checks and the answers. *)
LEMMA SizedStep == IInv /\ IInv' /\ Sized /\ [Next]_vars => Sized'
<1> SUFFICES ASSUME IInv, IInv', Sized, [Next]_vars PROVE Sized'
  OBVIOUS
<1>0. UNCHANGED inputs
  BY DEF Next, vars, inputs, Load, CreateApp, Start, Continue, RouteSource, RouteOther, Admin,
     Metrics, Health, Handle, Arrive, CheckDeclared, ReadChunk, Disconnect, EndOfBody, Verify,
     Screen, Ingest
<1> DEFINE sums == Upto(request.chunks)
<1>1. sums' = sums /\ UNCHANGED <<config, env, request>>
  BY <1>0 DEF Upto, inputs
<1>2. UNCHANGED source => (Enabled' <=> Enabled) /\ (Authentic' <=> Authentic)
  BY <1>0, Kept
<1>3. /\ Len(request.chunks) \in Nat /\ config.maxBody \in Int
      /\ pc \in Handler => config.maxBody > 0
      /\ sums[0] = 0 /\ sums \in [0..Len(request.chunks) -> Nat]
  BY Limits, Sums DEF IInv, Handler, Boot
<1> HIDE DEF sums
<1>4. total = sums[read] /\ total \in Nat /\ read \in 0..Len(request.chunks)
  BY <1>3 DEF Sized, sums
<1>5. CASE UNCHANGED <<source, pc, answer, body>>
  <2>1. Reason' <=> Reason
    BY <1>1, <1>2, <1>5 DEF Reason, body
  <2> QED
    BY <1>1, <1>5, <2>1 DEF Sized, sums, body
<1>6. CASE Handle
  <2>1. source # None /\ pc \in Handler /\ UNCHANGED source
    BY <1>6
       DEF IInv, Handle, Arrive, CheckDeclared, ReadChunk, Disconnect, EndOfBody, Verify, Screen,
           Ingest, Reject, Proceed, Handler
  <2> USE DEF Sized, sums, Reason, Handler
  <2>2. CASE Arrive
    BY <1>1, <1>2, <1>3, <1>4, <2>1, <2>2 DEF Arrive, Reject, Proceed, body, Enabled
  <2>3. CASE CheckDeclared
    BY <1>1, <1>2, <1>3, <1>4, <2>1, <2>3 DEF CheckDeclared, Reject, Proceed, body, TooLarge
  <2>4. CASE ReadChunk
    <3>1. /\ read' = read + 1 /\ total' = total + request.chunks[read + 1]
          /\ read' \in 0..Len(request.chunks) /\ total' = sums[read'] /\ total' \in Nat
      BY <2>4, OneMore DEF ReadChunk
    <3> HIDE DEF sums
    <3>2. CASE total' > config.maxBody
      <4>1. pc' = "done" /\ answer' = "413"
        BY <1>1, <2>4, <3>2 DEF ReadChunk, TooLarge, Reject
      <4> QED
        BY <1>1, <2>1, <3>1, <3>2, <4>1 DEF sums
    <3>3. CASE ~(total' > config.maxBody)
      <4>1. pc' = "stream" /\ total' <= config.maxBody
        BY <1>1, <1>3, <2>4, <3>1, <3>3 DEF ReadChunk, TooLarge, Proceed
      <4> QED
        BY <1>1, <2>1, <3>1, <4>1 DEF sums
    <3> QED
      BY <3>2, <3>3
  <2>5. CASE Disconnect
    BY <1>1, <1>2, <1>3, <1>4, <2>1, <2>5 DEF Disconnect, Reject, body
  <2>6. CASE EndOfBody
    BY <1>1, <1>2, <1>3, <1>4, <2>1, <2>6 DEF EndOfBody, Proceed, body
  <2>7. CASE Verify
    BY <1>1, <1>2, <1>3, <1>4, <2>1, <2>7 DEF Verify, Reject, Proceed, body, Authentic
  <2>8. CASE Screen
    BY <1>1, <1>2, <1>3, <1>4, <2>1, <2>8 DEF Screen, body
  <2>9. CASE Ingest
    BY <1>1, <1>2, <1>3, <1>4, <2>1, <2>9 DEF Ingest, body
  <2> QED
    BY <1>6, <2>2, <2>3, <2>4, <2>5, <2>6, <2>7, <2>8, <2>9 DEF Handle
<1>7. CASE RouteSource
  <2>1. source = None /\ pc' = "arrive" /\ UNCHANGED body
    BY <1>7 DEF RouteSource, IInv, Boot
  <2> QED
    BY <1>1, <2>1 DEF Sized, sums, body
<1>8. CASE Load \/ CreateApp \/ Start \/ RouteOther \/ Admin \/ Metrics \/ Health
  <2>1. source = None /\ UNCHANGED <<source, body>>
    BY <1>8
       DEF Load, CreateApp, Start, Continue, RouteOther, Admin, Metrics, Health, Reject, Proceed,
           IInv, Boot
  <2>2. pc' \notin Handler
    BY <2>1 DEF IInv
  <2> QED
    BY <1>1, <2>1, <2>2 DEF Sized, sums, body, Handler
<1> QED
  BY <1>5, <1>6, <1>7, <1>8 DEF Next, vars

(* No byte goes uncounted, from the first chunk to the last.                *)
THEOREM Measured == Spec => [](IInv /\ Sized)
<1>1. Init => Sized
  <2> SUFFICES ASSUME Init PROVE Sized
    OBVIOUS
  <2>1. IInv
    BY Initial
  <2>2. Len(request.chunks) \in Nat /\ Upto(request.chunks)[0] = 0
    BY <2>1, Limits, Sums
  <2> QED
    BY <2>2 DEF Init, GateInit, Sized
<1> QED
  BY <1>1, SizedStep, Invariance, PTL DEF Spec

(* Whatever the body, however it is cut and whatever it declares: it is     *)
(* refused for its size if and only if its size is the reason.              *)
THEOREM SizeDecides == Spec => []NoRetryStorm
<1>1. IInv /\ Sized => NoRetryStorm
  <2> SUFFICES ASSUME IInv, Sized, pc = "done", source # None
               PROVE  /\ (/\ SourceEnabled(source, env) /\ Verified(source, request)
                          /\ BodySize <= config.maxBody
                          /\ request.declared \in {Absent, BodySize})
                           => answer \in {"200", "500", "gone"}
                      /\ answer \in {"200", "401", "500"} => BodySize <= config.maxBody
    BY DEF NoRetryStorm
  <2>1. Reason
    BY DEF Sized
  <2>2. config.maxBody \in Int /\ BodySize \in Nat /\ total \in Nat /\ total <= BodySize
    <3>1. /\ request.chunks \in Seq(Nat) /\ Len(request.chunks) \in Nat
          /\ config.maxBody \in Int
      BY Limits
    <3>2. /\ Upto(request.chunks) \in [0..Len(request.chunks) -> Nat]
          /\ \A k \in 0..Len(request.chunks) :
               Upto(request.chunks)[k] <= Upto(request.chunks)[Len(request.chunks)]
      BY <3>1, Sums
    <3> QED
      BY <3>1, <3>2 DEF Sized, BodySize
  <2>3. answer \in {"200", "401", "500"} => total = BodySize
    BY <2>1 DEF Sized, Reason, BodySize
  <2>4. ASSUME BodySize <= config.maxBody, request.declared \in {Absent, BodySize}
        PROVE  answer # "413"
    BY <2>1, <2>2, <2>4, GateAssumption DEF Reason
  <2> QED
    BY <2>1, <2>3, <2>4 DEF Reason, Enabled, Authentic
<1> QED
  BY <1>1, Measured, PTL

-----------------------------------------------------------------------------
(* Points of the code and statuses. *)
Typed ==
  /\ pc \in {"load", "create", "start", "serving", "stopped", "health", "metrics", "admin",
             "arrive", "declared", "stream", "verify", "screen", "ingest", "done"}
  /\ answer \in {"200", "401", "404", "405", "413", "422", "500", "503", "gone", None}

(* Every step goes on to a point of the code, and answers with one of the  *)
(* statuses.                                                               *)
LEMMA TypedStep == Typed /\ [Next]_vars => Typed'
<1> SUFFICES ASSUME Typed, [Next]_vars PROVE Typed'
  OBVIOUS
<1> USE DEF Typed, Reject, Proceed
<1>1. CASE Load \/ CreateApp \/ Start
  BY <1>1 DEF Load, CreateApp, Start, Continue
<1>2. CASE RouteSource \/ RouteOther
  BY <1>2 DEF RouteSource, RouteOther, Other
<1>3. CASE Admin \/ Metrics \/ Health
  BY <1>3 DEF Admin, AdminAnswers, Metrics, Health
<1>4. CASE Handle
  BY <1>4 DEF Handle, Arrive, CheckDeclared, ReadChunk, Disconnect, EndOfBody, Verify, Screen, Ingest
<1>5. CASE UNCHANGED vars
  BY <1>5 DEF vars
<1> QED
  BY <1>1, <1>2, <1>3, <1>4, <1>5 DEF Next

(* Every variable has its type: the inputs are a case that was given, the  *)
(* source is one of the file, and what was read has been counted.          *)
THEOREM ServiceTypes == Spec => []TypeOK
<1>1. Spec => []Typed
  <2>1. Init => Typed
    BY DEF Init, GateInit, Typed
  <2> QED
    BY <2>1, TypedStep, PTL DEF Spec
<1>2. ASSUME IInv, Sized, Typed PROVE TypeOK
  <2>1. Upto(request.chunks) \in [0..Len(request.chunks) -> Nat] /\ Len(request.chunks) \in Nat
    BY <1>2, Limits, Sums
  <2>2. read \in Nat /\ total \in Nat
    BY <1>2, <2>1 DEF Sized
  <2>3. Given /\ (source = None \/ \E i \in DOMAIN config.sources : source = config.sources[i])
    BY <1>2 DEF IInv, Configured
  <2> QED
    BY <1>2, <2>2, <2>3 DEF TypeOK, Typed, Given
<1> QED
  BY <1>1, <1>2, Measured, PTL
=============================================================================
