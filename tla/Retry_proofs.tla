---------------------------- MODULE Retry_proofs ----------------------------
(* Theorems about Retry, for every destination: whatever it answers and    *)
(* whatever Retry-After it sends, and for every backoff, jitter and number *)
(* of attempts.                                                            *)
EXTENDS Retry, FiniteSetTheorems, TLAPS

(* A row at work has been answered, and one that was delivered has had the  *)
(* answer that means so.                                                    *)
RInv ==
  /\ TypeOK
  /\ status \in {"in_flight", "delivered"} => answer \in Answer
  /\ status = "delivered" => Disposition(answer) = "DELIVERED"

-----------------------------------------------------------------------------
(* The curve. *)

(* Powers of two count the subsets of a set, so the curve is never negative.*)
LEMMA Powers == \A n \in Nat : 2^n \in Nat
<1> TAKE n \in Nat
<1>1. IsFiniteSet(1..n) /\ Cardinality(1..n) = n
  BY FS_Interval
<1>2. IsFiniteSet(SUBSET (1..n)) /\ Cardinality(SUBSET (1..n)) = 2^n
  BY <1>1, FS_SUBSET
<1> QED
  BY <1>2, FS_CardinalityType

(* The clamp: the lesser is one of the two, and below both. *)
LEMMA Lesser ==
  ASSUME NEW a \in Nat, NEW b \in Nat
  PROVE  Least(a, b) \in Nat /\ Least(a, b) <= a /\ Least(a, b) <= b
BY DEF Least

(* parse_retry_after returns None or a number of seconds to wait. *)
LEMMA Parsed ==
  ASSUME NEW h \in Header
  PROVE  /\ ParseRetryAfter(h) \in Nat \cup {None}
         /\ (\/ h.form \in {"absent", "unreadable"}
             \/ h.form = "seconds" /\ h.value < 0) => ParseRetryAfter(h) = None
<1>1. h \in [form : {"absent", "unreadable", "seconds", "date"}, value : Int]
  BY RetryAssumption
<1> QED
  BY <1>1 DEF ParseRetryAfter

(* retry_delay_seconds, before the jitter. *)
LEMMA Clamps ==
  ASSUME NEW n \in Nat \ {0}, NEW r \in Nat \cup {None}
  PROVE  /\ Clamped(n, r) \in Nat
         /\ Clamped(n, r) <= MaxBackoff
         /\ r = None => Clamped(n, r) = Least(Base * 2^(n - 1), MaxBackoff)
<1>1. 2^(n - 1) \in Nat
  BY Powers
<1>2. Base * 2^(n - 1) \in Nat
  BY <1>1, RetryAssumption
<1>3. CASE r = None
  BY <1>2, <1>3, Lesser, RetryAssumption DEF Clamped
<1>4. CASE r # None
  BY <1>4, Lesser, RetryAssumption DEF Clamped
<1> QED
  BY <1>3, <1>4

(* _jittered moves a delay by no more than its share, and never below zero. *)
LEMMA Jitters ==
  ASSUME NEW s \in Nat, NEW b \in Nat, s <= b, NEW d \in Jittered(s)
  PROVE  d \in Nat /\ d >= s * (100 - Jitter) /\ d <= b * (100 + Jitter)
<1> USE RetryAssumption
<1>1. 100 - Jitter \in Nat /\ 100 + Jitter \in Nat
  OBVIOUS
<1>2. \A x, y, k \in Nat : x <= y => x * k <= y * k
  OBVIOUS
<1>3. \A x, k \in Nat : x * k \in Nat
  OBVIOUS
<1>4. s * (100 - Jitter) \in Nat /\ s * (100 + Jitter) \in Nat /\ b * (100 + Jitter) \in Nat
  BY <1>1, <1>3
<1>5. s * (100 + Jitter) <= b * (100 + Jitter)
  BY <1>1, <1>2
<1>6. d \in Int /\ d >= s * (100 - Jitter) /\ d <= s * (100 + Jitter)
  BY <1>4 DEF Jittered
<1> QED
  BY <1>4, <1>5, <1>6

-----------------------------------------------------------------------------
(* The life of a delivery. *)

(* The Retry-After of the answer, as the engine uses it. *)
LEMMA Advice == ASSUME TypeOK PROVE RetryAfter \in Nat \cup {None}
BY Parsed DEF TypeOK, RetryAfter

(* What the next attempt waits for. *)
LEMMA Scheduled ==
  ASSUME TypeOK, ScheduleRetry
  PROVE  /\ Clamped(attempt + 1, RetryAfter) \in Nat
         /\ delay' \in Nat
         /\ delay' >= Clamped(attempt + 1, RetryAfter) * (100 - Jitter)
         /\ delay' <= MaxBackoff * (100 + Jitter)
<1>1. attempt + 1 \in Nat \ {0} /\ MaxBackoff \in Nat
  BY RetryAssumption DEF TypeOK
<1>2. /\ Clamped(attempt + 1, RetryAfter) \in Nat
      /\ Clamped(attempt + 1, RetryAfter) <= MaxBackoff
  BY <1>1, Advice, Clamps
<1>3. delay' \in Jittered(Clamped(attempt + 1, RetryAfter))
  BY DEF ScheduleRetry
<1> QED
  BY <1>1, <1>2, <1>3, Jitters

(* Each step keeps the invariant: an attempt, its outcome, a restart. *)
LEMMA RetryStep == RInv /\ [Next]_vars => RInv'
<1> SUFFICES ASSUME RInv, [Next]_vars PROVE RInv'
  OBVIOUS
<1> USE RetryAssumption DEF RInv, TypeOK
<1>1. CASE Send
  BY <1>1 DEF Send
<1>2. CASE Delivered
  BY <1>2 DEF Delivered, Ends, Finish, Disposition, Classify
<1>3. CASE Permanent
  BY <1>3 DEF Permanent, Ends, Finish
<1>4. CASE ExhaustRetries
  BY <1>4 DEF ExhaustRetries, Ends, Finish
<1>5. CASE ScheduleRetry
  BY <1>5, Scheduled DEF ScheduleRetry, Ends
<1>6. CASE Restart
  BY <1>6 DEF Restart, Disposition, Classify
<1>7. CASE UNCHANGED vars
  BY <1>7 DEF vars, Disposition, Classify
<1> QED
  BY <1>1, <1>2, <1>3, <1>4, <1>5, <1>6, <1>7 DEF Next

(* No answer, delay or restart leads out of it. *)
THEOREM RetryInvariance == Spec => []RInv
<1>1. Init => RInv
  BY RetryAssumption DEF Init, RInv, TypeOK
<1> QED
  BY <1>1, RetryStep, PTL DEF Spec

(* A row is always pending, in_flight, delivered or exhausted, its attempts *)
(* and its delay are never negative, and its sink has answered in a way     *)
(* _send knows.                                                             *)
THEOREM RetryTypes == Spec => []TypeOK
BY RetryInvariance, PTL DEF RInv

(* A sink is only done with by a success in its own terms: no 3xx, 4xx or   *)
(* 5xx, no exception, and no Apprise 204, ever leaves a row delivered.      *)
THEOREM Success == Spec => []DeliveredMeansSuccess
<1>1. RInv => DeliveredMeansSuccess
  <2> SUFFICES ASSUME RInv, status = "delivered"
               PROVE  /\ answer.kind = "code" /\ answer.code \in 200..299
                      /\ ~(apprise /\ answer.code = 204)
    BY DEF DeliveredMeansSuccess
  <2> QED
    BY RetryAssumption
       DEF RInv, Answer, Failure, Disposition, Classify, ClassifyCode, ClassifyFailure
<1> QED
  BY <1>1, RetryInvariance, PTL

(* No destination sets the pace: every retry is due within the ceiling and  *)
(* its jitter, and without a readable Retry-After not before the curve.     *)
THEOREM Pace == Spec => DelayBounds
<1>1. ASSUME RInv, [Next]_vars, status = "in_flight", status' = "pending", attempt' > attempt
      PROVE  /\ delay' <= MaxBackoff * (100 + Jitter)
             /\ (\/ answer.kind # "code" \/ header.form \in {"absent", "unreadable"}
                 \/ header.form = "seconds" /\ header.value < 0)
                  => delay' >= Least(Base * 2^attempt, MaxBackoff) * (100 - Jitter)
  <2>1. ScheduleRetry
    BY <1>1
       DEF Next, vars, Send, Delivered, Permanent, ExhaustRetries, Finish, Restart, RInv, TypeOK
  <2>2. ASSUME \/ answer.kind # "code" \/ header.form \in {"absent", "unreadable"}
               \/ header.form = "seconds" /\ header.value < 0
        PROVE  delay' >= Least(Base * 2^attempt, MaxBackoff) * (100 - Jitter)
    <3>1. RetryAfter = None
      BY <1>1, <2>2, Parsed DEF RInv, TypeOK, RetryAfter
    <3>2. attempt \in Nat /\ (attempt + 1) - 1 = attempt /\ attempt + 1 \in Nat \ {0}
      BY <1>1 DEF RInv, TypeOK
    <3>3. Clamped(attempt + 1, RetryAfter) = Least(Base * 2^((attempt + 1) - 1), MaxBackoff)
      BY <3>1, <3>2, Clamps
    <3> QED
      BY <1>1, <2>1, <3>2, <3>3, Scheduled DEF RInv
  <2> QED
    BY <1>1, <2>1, <2>2, Scheduled DEF RInv
<1>2. RInv /\ [Next]_vars
        => [(status = "in_flight" /\ status' = "pending" /\ attempt' > attempt) =>
              /\ delay' <= MaxBackoff * (100 + Jitter)
              /\ (\/ answer.kind # "code" \/ header.form \in {"absent", "unreadable"}
                  \/ header.form = "seconds" /\ header.value < 0)
                   => delay' >= Least(Base * 2^attempt, MaxBackoff) * (100 - Jitter)]_vars
  BY <1>1
<1> QED
  BY <1>2, RetryInvariance, PTL DEF Spec, DelayBounds

(* The disposition decides: what a repetition cannot mend is not repeated,  *)
(* and what it can is not given up before the last attempt.                 *)
THEOREM Helpful == Spec => RetriedWhenItHelps
<1> DEFINE Mends(a) ==
      \/ a.kind \in {"timeout", "transport", "bug"}
      \/ a.kind = "code" /\ (a.code \in {408, 429} \/ a.code >= 500)
<1>1. ASSUME NEW a \in Answer PROVE Disposition(a) = "RETRYABLE" <=> Mends(a)
  BY <1>1, RetryAssumption
     DEF Answer, Failure, Disposition, Classify, ClassifyCode, ClassifyFailure
<1>2. ASSUME RInv, [Next]_vars, NEW a \in Answer, answer = a, status = "in_flight",
             restarts' = restarts
      PROVE  /\ status' = "pending" => Mends(a)
             /\ (status' = "exhausted" /\ Mends(a)) => attempt' >= MaxAttempts
  <2>1. \/ status' = status
        \/ Delivered \/ Permanent \/ ExhaustRetries \/ ScheduleRetry
    BY <1>2 DEF Next, Send, Restart, vars, RInv, TypeOK
  <2> HIDE DEF Mends
  <2>2. status' = "pending" => Mends(a)
    BY <1>1, <1>2, <2>1 DEF Delivered, Permanent, ExhaustRetries, ScheduleRetry, Ends, Finish
  <2>3. status' = "exhausted" /\ Mends(a) => ExhaustRetries
    BY <1>1, <1>2, <2>1 DEF Delivered, Permanent, ScheduleRetry, Ends, Finish
  <2>4. ExhaustRetries => attempt' >= MaxAttempts
    BY DEF ExhaustRetries, LastAttempt, Finish
  <2> QED
    BY <2>2, <2>3, <2>4
<1>3. RInv /\ [Next]_vars
        => [\A a \in Answer : answer = a /\ status = "in_flight" /\ restarts' = restarts =>
              LET mends == \/ a.kind \in {"timeout", "transport", "bug"}
                           \/ a.kind = "code" /\ (a.code \in {408, 429} \/ a.code >= 500)
              IN  /\ status' = "pending" => mends
                  /\ (status' = "exhausted" /\ mends) => attempt' >= MaxAttempts]_vars
  BY <1>2
<1> QED
  BY <1>3, RetryInvariance, PTL DEF Spec, RetriedWhenItHelps
=============================================================================
