-------------------------------- MODULE Gate --------------------------------
(***************************************************************************)
(* The request handler of a source (app.py: build_source_route), from the  *)
(* first byte to the answer, with what it calls: read_body_capped, verify  *)
(* (verification.py), the source's filter and the filters of its routes    *)
(* (filtering.py), compute_delivery_id and the choice of the headers that  *)
(* are stored (redaction.py).                                              *)
(*                                                                         *)
(* Handlers of different requests share no state before ingest, so one     *)
(* request is enough.  The body arrives in chunks, and the client may go   *)
(* away between two of them.  A header carries the texts that the code     *)
(* makes of it: one, or the user and password of a Basic credential; of a  *)
(* signature it is the secret that makes it right for this body.  Of a     *)
(* payload value the model keeps the texts a rule may compare with: one    *)
(* for a scalar, any number for a list.                                    *)
(***************************************************************************)
EXTENDS Config

CONSTANT
  Junk        \* a Content-Length that is not a number

ASSUME GateAssumption == Junk \notin Nat /\ Absent \notin Nat /\ Junk # Absent

VARIABLES
  config,    \* the configuration the process runs with
  env,       \* the environment it was resolved in
  request,   \* what the client sends
  source,    \* the source whose route took the request, or None
  pc,        \* where the handler is
  read,      \* chunks taken from the stream
  total,     \* local of read_body_capped
  answer,    \* the HTTP status, None before, "gone" when the client left
  event      \* what was passed to ingest, or None

inputs == <<config, env, request>>
body == <<read, total>>

GateInit ==
  /\ source = None
  /\ read = 0 /\ total = 0
  /\ answer = None /\ event = None

-----------------------------------------------------------------------------
(* Verification. *)

(* secure_compare: an empty credential matches nothing, not even an empty  *)
(* one.                                                                    *)
SecureCompare(expected, presented) ==
  expected # "" /\ presented # "" /\ expected = presented

HeaderOf(r, name) == IF name \in DOMAIN r.headers THEN r.headers[name] ELSE <<>>

(* The credential in the header of the verify block. *)
Presented(s, r) == HeaderOf(r, Lower[s.verify.header])

(* verify: each secret of the source is matched, or the peer is allowed.   *)
Verified(s, r) ==
  IF s.verify.strategy = "none"
  THEN r.peer \in s.verify.allowFrom
  ELSE /\ Len(Presented(s, r)) = Len(s.verify.envs)
       /\ \A i \in DOMAIN s.verify.envs :
            SecureCompare(Value(env, s.verify.envs[i]), Presented(s, r)[i])

-----------------------------------------------------------------------------
(* Filters.  deny and require map paths to allowed texts. *)

(* _matches, and evaluate's test for MISSING before it. *)
Hit(rule, path, payload) ==
  payload[path] # Absent /\ payload[path] \cap rule[path] # {}

(* evaluate: the allowlist of types, then deny, then require. *)
Evaluate(f, r) ==
  /\ f.types = Absent \/ r.type \in f.types
  /\ \A p \in DOMAIN f.deny : ~Hit(f.deny, p, r.payload)
  /\ \A p \in DOMAIN f.require : Hit(f.require, p, r.payload)

(* route: sinks whose own filter takes the event; the others refused it. *)
RouteSinks(s, r) ==
  {s.sinks[i].name : i \in {j \in DOMAIN s.sinks : Evaluate(s.sinks[j].filter, r)}}

Routes(s) == {s.sinks[i].name : i \in DOMAIN s.sinks}

-----------------------------------------------------------------------------
(* What is stored of the request. *)

(* compute_delivery_id: the header the id is taken from, None where it is  *)
(* a digest of the redacted body.                                          *)
DeliveryIdFrom(s, r) ==
  LET name == Lower[s.idHeader]
  IN  IF s.idHeader # "" /\ \E i \in DOMAIN HeaderOf(r, name) : ~Blank(HeaderOf(r, name)[i])
      THEN name ELSE None

(* redact_headers, by name. *)
Credentials(s) == Sensitive \cup {Lower[s.verify.header]}

StoredHeaders(s, r) == DOMAIN r.headers \ Credentials(s)

(* Mutant: an event that every route refused is stored as received. *)
AdmitRefused(s, r) ==
  [source  |-> s.name,
   sinks   |-> IF r.actionable /\ Evaluate(s.filter, r) THEN RouteSinks(s, r) ELSE {},
   status  |-> IF Evaluate(s.filter, r) THEN "received" ELSE "filtered",
   idFrom  |-> DeliveryIdFrom(s, r),
   headers |-> StoredHeaders(s, r)]

(* What the handler puts in the InboundEvent. *)
Decision(s, r) ==
  LET admitted == Evaluate(s.filter, r)
      sinks    == IF r.actionable /\ admitted THEN RouteSinks(s, r) ELSE {}
      refused  == IF r.actionable /\ admitted THEN Routes(s) \ sinks ELSE {}
  IN  [source  |-> s.name,
       sinks   |-> sinks,
       status  |-> IF ~admitted \/ (refused # {} /\ sinks = {}) THEN "filtered" ELSE "received",
       idFrom  |-> DeliveryIdFrom(s, r),
       headers |-> StoredHeaders(s, r)]

-----------------------------------------------------------------------------
(* The handler. *)

Reject(status) ==
  /\ pc' = "done" /\ answer' = status
  /\ UNCHANGED <<source, event>>

Proceed(next) ==
  /\ pc' = next
  /\ UNCHANGED <<source, answer, event>>

Arrive ==
  /\ pc = "arrive"
  /\ IF SourceEnabled(source, env) THEN Proceed("declared") ELSE Reject("503")
  /\ UNCHANGED <<inputs, body>>

(* Mutant: a body of exactly the limit is refused. *)
TooLargeOrFull(n) == n >= config.maxBody

TooLarge(n) == n > config.maxBody

(* Content-Length first; one that is not a number is refused as well. *)
CheckDeclared ==
  /\ pc = "declared"
  /\ IF request.declared = Junk \/ (request.declared \in Nat /\ TooLarge(request.declared))
     THEN Reject("413") ELSE Proceed("stream")
  /\ UNCHANGED <<inputs, body>>

(* A chunk is counted before it is kept. *)
ReadChunk ==
  /\ pc = "stream" /\ read < Len(request.chunks)
  /\ read' = read + 1
  /\ total' = total + request.chunks[read + 1]
  /\ IF TooLarge(total') THEN Reject("413") ELSE Proceed("stream")
  /\ UNCHANGED inputs

(* The stream raises in the middle of the body; nothing is answered. *)
Disconnect ==
  /\ pc = "stream"
  /\ Reject("gone")
  /\ UNCHANGED <<inputs, body>>

EndOfBody ==
  /\ pc = "stream" /\ read = Len(request.chunks)
  /\ Proceed("verify")
  /\ UNCHANGED <<inputs, body>>

Verify ==
  /\ pc = "verify"
  /\ IF Verified(source, request) THEN Proceed("screen") ELSE Reject("401")
  /\ UNCHANGED <<inputs, body>>

(* Redact, parse, sanitise, filter, route: one step without an await. *)
Screen ==
  /\ pc = "screen"
  /\ pc' = "ingest"
  /\ event' = Decision(source, request)
  /\ UNCHANGED <<inputs, body, source, answer>>

(* ingest returns, or the store raises in it. *)
Ingest ==
  /\ pc = "ingest"
  /\ pc' = "done"
  /\ answer' \in {"200", "500"}
  /\ UNCHANGED <<inputs, body, source, event>>

Handle ==
  \/ Arrive \/ CheckDeclared \/ ReadChunk \/ Disconnect \/ EndOfBody
  \/ Verify \/ Screen \/ Ingest

-----------------------------------------------------------------------------
(* Properties, checked with module Service. *)

(* Bytes in the first k chunks of a body. *)
Upto(chunks) ==
  LET sum[k \in 0..Len(chunks)] == IF k = 0 THEN 0 ELSE sum[k - 1] + chunks[k]
  IN  sum

BodySize == Upto(request.chunks)[Len(request.chunks)]

(* A request is refused for its size if and only if its size is the        *)
(* reason: one that is well formed, fits and verifies is refused for no    *)
(* reason of its own, a body of exactly the limit included, and filters    *)
(* answer 200, so that a producer does not retry a decision "that will be  *)
(* identical every time" (app.py:246); and no way to cut or declare a body *)
(* gets one that is too large past the limit.                              *)
NoRetryStorm ==
  (pc = "done" /\ source # None) =>
    /\ (/\ SourceEnabled(source, env) /\ Verified(source, request)
        /\ BodySize <= config.maxBody
        /\ request.declared \in {Absent, BodySize})
         => answer \in {"200", "500", "gone"}
    /\ answer \in {"200", "401", "500"} => BodySize <= config.maxBody

(* An event someone configured a route for is queued, or stored filtered:  *)
(* "never silently dropped" (app.py:251).  A filtered event queues         *)
(* nothing, which is what Admission takes for granted, and no sink gets an *)
(* event that its own filter or the source's denies or finds incomplete.   *)
NeverSilentlyDropped ==
  event # None =>
    /\ event.sinks = {} <=> (event.status = "filtered" \/ ~request.actionable)
    /\ event.sinks # {} => event.status = "received"
    /\ \A i \in DOMAIN source.sinks : source.sinks[i].name \in event.sinks =>
         \A f \in {source.filter, source.sinks[i].filter}, p \in DOMAIN request.payload :
           LET texts == IF request.payload[p] = Absent THEN {} ELSE request.payload[p]
           IN  /\ p \in DOMAIN f.deny => texts \cap f.deny[p] = {}
               /\ p \in DOMAIN f.require => texts \cap f.require[p] # {}
=============================================================================
