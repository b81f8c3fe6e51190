------------------------------- MODULE Retry --------------------------------
(***************************************************************************)
(* The life of one delivery as its sink sees it: what a response means     *)
(* (sinks/base.py: _send, _classify, parse_retry_after;                    *)
(* sinks/implementations.py: AppriseNotifySink), when the next attempt is  *)
(* due (engine.py: retry_delay_seconds) and when there is none.            *)
(*                                                                         *)
(* Module Dispatch has the statements of an attempt and their failures;    *)
(* here an attempt is one step, and the store works.  Seconds are          *)
(* integers, and delays are in hundredths so that jitter is a percentage.  *)
(***************************************************************************)
EXTENDS Integers

CONSTANTS
  Code,          \* status codes a destination may answer; the client reads past
                 \* interim ones (1xx) and allows any three digits (external)
  Header,        \* values of its Retry-After header, as records
  MaxAttempts,   \* delivery.max_attempts
  Base,          \* delivery.base_backoff_seconds
  MaxBackoff,    \* delivery.max_backoff_seconds
  Jitter,        \* delivery.jitter, in percent
  MaxExponent,   \* the largest power of two an IEEE double holds (1023)
  None,          \* no call yet, no Retry-After
  MaxRestarts    \* bound of the model: restarts in a behaviour

ASSUME RetryAssumption ==
  /\ Code \subseteq 200..999
  /\ Header \subseteq [form : {"absent", "unreadable", "seconds", "date"}, value : Int]
  /\ MaxAttempts \in Nat \ {0}
  /\ Base \in Nat /\ MaxBackoff \in Nat /\ Jitter \in 0..100 /\ MaxExponent \in Nat
  /\ None \notin Int
  /\ MaxRestarts \in Nat

VARIABLES
  apprise,    \* whether the sink is an AppriseNotifySink
  status,     \* deliveries.status
  attempt,    \* deliveries.attempt
  delay,      \* next_attempt_at minus the time of the last attempt, in hundredths
  answer,     \* history: what the last call of the sink came to, or None
  header,     \* history: the Retry-After that came with it
  restarts    \* history: restarts of the engine

vars == <<apprise, status, attempt, delay, answer, header, restarts>>

(* What a call ends with: a status code, or one of the exceptions. *)
Failure == {"unencodable", "refused", "timeout", "transport", "bug"}

Answer == [kind : {"code"}, code : Code] \cup [kind : Failure, code : {0}]

TypeOK ==
  /\ apprise \in BOOLEAN
  /\ status \in {"pending", "in_flight", "delivered", "exhausted"}
  /\ attempt \in Nat
  /\ delay \in Nat
  /\ answer \in Answer \cup {None}
  /\ header \in Header
  /\ restarts \in 0..MaxRestarts

Init ==
  /\ apprise \in BOOLEAN
  /\ status = "pending"
  /\ attempt = 0
  /\ delay = 0
  /\ answer = None
  /\ header \in Header
  /\ restarts = 0

-----------------------------------------------------------------------------
(* What a response means. *)

ClassifyCode(code) ==
  CASE code < 300 -> "DELIVERED"
    [] code \in {408, 429} \/ code >= 500 -> "RETRYABLE"
    [] OTHER -> "PERMANENT"

(* Mutant: a 2xx is a success for every sink. *)
ClassifyByCode(code) == ClassifyCode(code)

(* Mutant: an unfollowed redirect is tried again. *)
ClassifyRedirect(code) == IF code \in 300..399 THEN "RETRYABLE" ELSE ClassifyCode(code)

(* _classify, and the override that reads 204 and 424 differently. *)
Classify(code) ==
  IF apprise /\ code \in {204, 424} THEN "PERMANENT" ELSE ClassifyCode(code)

(* Requests that cannot be sent fail for good, the rest is retried. *)
ClassifyFailure(kind) ==
  IF kind \in {"unencodable", "refused"} THEN "PERMANENT" ELSE "RETRYABLE"

Disposition(a) == IF a.kind = "code" THEN Classify(a.code) ELSE ClassifyFailure(a.kind)

(* Mutant: a negative number means now. *)
ParseNegativeAsNow(h) ==
  CASE h.form \in {"seconds", "date"} -> IF h.value >= 0 THEN h.value ELSE 0
    [] OTHER -> None

(* parse_retry_after: a date gone by means now, a negative number nothing. *)
ParseRetryAfter(h) ==
  CASE h.form = "seconds" /\ h.value >= 0 -> h.value
    [] h.form = "date" -> IF h.value >= 0 THEN h.value ELSE 0
    [] OTHER -> None

-----------------------------------------------------------------------------
(* When the next attempt is due. *)

Least(a, b) == IF a <= b THEN a ELSE b

(* The curve raises where the power of two is beyond a double. *)
Raises(n, retryAfter) == retryAfter = None /\ n - 1 > MaxExponent

(* retry_delay_seconds before the jitter, n attempts made. *)
Clamped(n, retryAfter) ==
  Least(IF retryAfter = None THEN Base * 2^(n - 1) ELSE retryAfter, MaxBackoff)

(* _jittered *)
Jittered(seconds) == (seconds * (100 - Jitter))..(seconds * (100 + Jitter))

-----------------------------------------------------------------------------
(* An attempt. *)

(* Claim the row and call the sink. *)
Send ==
  /\ status = "pending"
  /\ status' = "in_flight"
  /\ answer' \in Answer
  /\ header' \in Header
  /\ UNCHANGED <<apprise, attempt, delay, restarts>>

(* SinkError.retry_after: read off a response, and no exception has one. *)
RetryAfter == IF answer.kind = "code" THEN ParseRetryAfter(header) ELSE None

Ends(disposition) == status = "in_flight" /\ Disposition(answer) = disposition

Finish(s) ==
  /\ status' = s
  /\ attempt' = attempt + 1
  /\ delay' = 0
  /\ UNCHANGED <<apprise, answer, header, restarts>>

Delivered == Ends("DELIVERED") /\ Finish("delivered")

Permanent == Ends("PERMANENT") /\ Finish("exhausted")

(* _schedule_retry: this was the last attempt. *)
LastAttempt == attempt + 1 >= MaxAttempts

ExhaustRetries ==
  /\ Ends("RETRYABLE") /\ LastAttempt
  /\ Finish("exhausted")

(* Mutant: the row is handed back as it was. *)
RetryUncounted ==
  /\ Ends("RETRYABLE") /\ ~LastAttempt
  /\ status' = "pending"
  /\ delay' \in Jittered(Clamped(attempt + 1, RetryAfter))
  /\ UNCHANGED <<apprise, attempt, answer, header, restarts>>

(* mark_retry.  A delay that cannot be computed raises, and _recover       *)
(* raises on the same attempt count, so the row is left in_flight.         *)
ScheduleRetry ==
  /\ Ends("RETRYABLE") /\ ~LastAttempt
  /\ ~Raises(attempt + 1, RetryAfter)
  /\ status' = "pending"
  /\ attempt' = attempt + 1
  /\ delay' \in Jittered(Clamped(attempt + 1, RetryAfter))
  /\ UNCHANGED <<apprise, answer, header, restarts>>

(* The engine restarts: requeue_incomplete makes every open row due now.   *)
Restart ==
  /\ restarts < MaxRestarts
  /\ restarts' = restarts + 1
  /\ status' = IF status = "in_flight" THEN "pending" ELSE status
  /\ delay' = IF status \in {"pending", "in_flight"} THEN 0 ELSE delay
  /\ UNCHANGED <<apprise, attempt, answer, header>>

Next == Send \/ Delivered \/ Permanent \/ ExhaustRetries \/ ScheduleRetry \/ Restart

Spec == Init /\ [][Next]_vars

(* The engine claims a due row in the end and finishes the attempts it     *)
(* begins; nothing obliges it to restart.                                  *)
FairSpec ==
  Spec /\ WF_vars(Send) /\ WF_vars(Delivered \/ Permanent \/ ExhaustRetries \/ ScheduleRetry)

-----------------------------------------------------------------------------
(* Properties. *)

(* No destination can "park a delivery" (engine.py:775) and none can       *)
(* "accelerate our retries" (sinks/base.py:242): whatever Retry-After it   *)
(* sends, the next attempt is due within max_backoff_seconds and its       *)
(* jitter, and without a readable one not before the curve says, less the  *)
(* jitter.                                                                 *)
DelayBounds ==
  [][(status = "in_flight" /\ status' = "pending" /\ attempt' > attempt) =>
       /\ delay' <= MaxBackoff * (100 + Jitter)
       /\ (\/ answer.kind # "code" \/ header.form \in {"absent", "unreadable"}
           \/ header.form = "seconds" /\ header.value < 0)
            => delay' >= Least(Base * 2^attempt, MaxBackoff) * (100 - Jitter)]_vars

(* A sink is only ever done with by a success in its own terms: 2xx, and   *)
(* of those not the 204 with which Apprise says that it notified nobody    *)
(* ("Only 2xx is delivered", sinks/base.py:92).                            *)
DeliveredMeansSuccess ==
  status = "delivered" =>
    answer.kind = "code" /\ answer.code \in 200..299 /\ ~(apprise /\ answer.code = 204)

(* An answer that will be the same next time is not asked for again, a     *)
(* 3xx, a 4xx the server does not ask to repeat or a request that cannot   *)
(* be sent, unless the engine restarts before recording it; and the        *)
(* answers a retry can mend are not given up on before the last attempt.   *)
RetriedWhenItHelps ==
  [][\A a \in Answer : answer = a /\ status = "in_flight" /\ restarts' = restarts =>
       LET mends == \/ a.kind \in {"timeout", "transport", "bug"}
                    \/ a.kind = "code" /\ (a.code \in {408, 429} \/ a.code >= 500)
       IN  /\ status' = "pending" => mends
           /\ (status' = "exhausted" /\ mends) => attempt' >= MaxAttempts]_vars

(* A delivery ends delivered or in the dead-letter queue, for each failed  *)
(* attempt "counts towards max_attempts" (engine.py:546); unless its       *)
(* attempts reach the number whose power of two is no double, from where   *)
(* an attempt that fails is not counted.                                   *)
Settles == <>(status \in {"delivered", "exhausted"} \/ attempt > MaxExponent)
=============================================================================
